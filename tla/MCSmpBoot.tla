----------------------------- MODULE MCSmpBoot -----------------------------
(* Orders in which the bootloader may list the CPUs.  With the bootstrap   *)
(* CPU second, the first CPU it starts runs beside its own cpu_init and    *)
(* the last one beside the waiting loop.                                   *)
EXTENDS SmpBoot

CONSTANTS bsp, ap1, ap2

BspSecond == <<ap1, bsp, ap2>>

(* Three CPUs need nine pages. *)
EnoughOrTooFew == {1 .. 9, (1 .. 9) \ {5}}
=============================================================================
