------------------------------ MODULE FifoLock ------------------------------
(***************************************************************************)
(* What a lock of this kernel promises its callers: the CPUs that called   *)
(* acquire form a queue, only the head of the queue may be inside, and a   *)
(* CPU that leaves is removed from the head.  Nothing here knows about     *)
(* tickets or machine words; Spinlock.tla is shown to implement this.      *)
(***************************************************************************)
EXTENDS Sequences, Naturals

CONSTANT CPUs       \* the processors that share the lock

VARIABLES
  queue,            \* CPUs that have called acquire and not yet left, oldest first
  inside            \* CPUs that are between acquire's return and the release

vars == <<queue, inside>>

Queued(c) == \E i \in 1..Len(queue) : queue[i] = c

Init ==
  /\ queue = <<>>
  /\ inside = {}

(* A CPU takes its place at the end of the queue. *)
Join(c) ==
  /\ ~ Queued(c)
  /\ queue' = Append(queue, c)
  /\ UNCHANGED inside

(* The oldest caller goes in, once the previous holder is out. *)
Enter(c) ==
  /\ queue # <<>>
  /\ Head(queue) = c
  /\ inside = {}
  /\ inside' = {c}
  /\ UNCHANGED queue

Leave(c) ==
  /\ c \in inside
  /\ inside' = {}
  /\ queue' = Tail(queue)

Next == \E c \in CPUs : Join(c) \/ Enter(c) \/ Leave(c)

(* The lock itself may not keep the head of the queue waiting. *)
Fairness == \A c \in CPUs : WF_vars(Enter(c))

Spec == Init /\ [][Next]_vars /\ Fairness
=============================================================================
