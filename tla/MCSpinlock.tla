----------------------------- MODULE MCSpinlock -----------------------------
(* The ticket lock on three CPUs with as many ticket values as CPUs: the   *)
(* tightest case the assumption allows.  The words wrap around after every *)
(* third acquisition, and when all three CPUs have drawn a ticket          *)
(* next_ticket is back at serving_ticket.                                  *)
EXTENDS Spinlock

CONSTANTS c1, c2, c3

ThreeCPUs == {c1, c2, c3}
=============================================================================
