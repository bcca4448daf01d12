---------------------------- MODULE MCExceptions ----------------------------
(* A kernel of seven functions, two of them static, and stubs of one byte  *)
(* behind them.  An offset has four halves of two bits.                    *)
EXTENDS Exceptions

SevenFunctions ==
  <<"kmain", "pmm_alloc", "cpu_init", "panic", "print_stacktrace",
    "isr_exception_handler", "cpu_state_assembler">>

Stubs == [v \in 0 .. 31 |-> 100 + v]
=============================================================================
