------------------------------ MODULE MCTimer ------------------------------
(* Words of five bits; an HPET whose counter has three of them and one     *)
(* that has all.  The third request wraps the product, the second reaches  *)
(* behind the narrow counter from most of its values; the faster LAPIC     *)
(* wraps the frequency.                                                    *)
EXTENDS Timer

R(count, unit) == [count |-> count, unit |-> unit]

SomeRequests == {R(1, 1), R(3, 2), R(9, 2)}
OneCalibration == R(3, 2)
=============================================================================
