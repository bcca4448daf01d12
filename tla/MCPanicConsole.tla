--------------------------- MODULE MCPanicConsole ---------------------------
(* Two and three CPUs; the bootstrap CPU runs its own cpu_init while those *)
(* listed before it are starting, and waits for those listed after it.     *)
EXTENDS PanicConsole

CONSTANTS bsp, ap1, ap2

ThreeCPUs == {bsp, ap1, ap2}

Three(n) == [cpus |-> <<ap1, bsp, ap2>>, troubles |-> n]
Two(n) == [cpus |-> <<ap1, bsp>>, troubles |-> n]

OneTrouble == {Two(1)}
FewTroubles == {Three(0), Three(1), Two(2)}
=============================================================================
