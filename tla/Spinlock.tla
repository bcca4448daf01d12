------------------------------ MODULE Spinlock ------------------------------
(***************************************************************************)
(* The ticket spinlock of lib/spinlock/spinlock.c.                         *)
(*                                                                         *)
(* struct spinlock holds two uint32_t words.  An acquiring CPU draws a     *)
(* ticket with an atomic fetch-and-add and spins until the word            *)
(* serving_ticket shows it; a releasing CPU loads serving_ticket and       *)
(* stores it back plus one, in two separate atomic accesses.  Both words   *)
(* wrap around at the width of the type, TicketModulus (2^32 in the code). *)
(*                                                                         *)
(* One CPU is one actor: the kernel has no pre-emption and a CPU never     *)
(* acquires a lock it already waits for, so a CPU has at most one ticket.  *)
(***************************************************************************)
EXTENDS Naturals, Integers, FiniteSets, Sequences

CONSTANTS
  CPUs,             \* the processors that share the lock
  TicketModulus     \* number of values of a ticket word: 2^32 for uint32_t

(* There are never more CPUs than ticket values: smp.h caps the CPUs at    *)
(* UINT16_MAX and the tickets are 32 bits wide.                            *)
ASSUME TicketsSuffice ==
  /\ IsFiniteSet(CPUs)
  /\ TicketModulus \in Nat \ {0}
  /\ Cardinality(CPUs) <= TicketModulus

VARIABLES
  serving_ticket,   \* lock->serving_ticket
  next_ticket,      \* lock->next_ticket
  ticket,           \* local variable of spinlock_acquire, per CPU
  current,          \* local variable of spinlock_release, per CPU
  pc                \* where each CPU is in its use of the lock

vars == <<serving_ticket, next_ticket, ticket, current, pc>>

Words == 0 .. TicketModulus - 1

-----------------------------------------------------------------------------
(* Mutants of the operators below, used to show that the properties bite.  *)

WrapOneShort(n) == n % (TicketModulus - 1)           \* off by one
ShownOrPassed(c) == ticket[c] <= serving_ticket      \* <= for ==
ShownNewest(c) ==                                    \* last come first served
  next_ticket = (ticket[c] + 1) % TicketModulus
ShownWhenFree(c) ==                                  \* test-and-set, no tickets
  \A d \in CPUs : pc[d] \in {"idle", "spinning"}
-----------------------------------------------------------------------------

(* Arithmetic on uint32_t. *)
Wrap(n) == n % TicketModulus

Init ==
  /\ serving_ticket = 0
  /\ next_ticket = 0
  /\ ticket = [c \in CPUs |-> 0]
  /\ current = [c \in CPUs |-> 0]
  /\ pc = [c \in CPUs |-> "idle"]

(* spinlock_acquire: __atomic_fetch_add on next_ticket. *)
DrawTicket(c) ==
  /\ pc[c] = "idle"
  /\ ticket' = [ticket EXCEPT ![c] = next_ticket]
  /\ next_ticket' = Wrap(next_ticket + 1)
  /\ pc' = [pc EXCEPT ![c] = "spinning"]
  /\ UNCHANGED <<serving_ticket, current>>

(* The condition on which the spin loop ends. *)
Shown(c) == serving_ticket = ticket[c]

(* The last turn of the loop; a turn that does not see the ticket changes  *)
(* nothing and is a stuttering step.                                       *)
SeeTicket(c) ==
  /\ pc[c] = "spinning"
  /\ Shown(c)
  /\ pc' = [pc EXCEPT ![c] = "holding"]
  /\ UNCHANGED <<serving_ticket, next_ticket, ticket, current>>

(* spinlock_release, its load ... *)
LoadServing(c) ==
  /\ pc[c] = "holding"
  /\ current' = [current EXCEPT ![c] = serving_ticket]
  /\ pc' = [pc EXCEPT ![c] = "releasing"]
  /\ UNCHANGED <<serving_ticket, next_ticket, ticket>>

(* ... and its store. *)
StoreServing(c) ==
  /\ pc[c] = "releasing"
  /\ serving_ticket' = Wrap(current[c] + 1)
  /\ pc' = [pc EXCEPT ![c] = "idle"]
  /\ UNCHANGED <<next_ticket, ticket, current>>

Step(c) == DrawTicket(c) \/ SeeTicket(c) \/ LoadServing(c) \/ StoreServing(c)

Next == \E c \in CPUs : Step(c)

(* A CPU that spins keeps spinning and one that holds the lock gets to its *)
(* release; nobody is obliged to call spinlock_acquire.                    *)
Fairness ==
  \A c \in CPUs :
    WF_vars(SeeTicket(c) \/ LoadServing(c) \/ StoreServing(c))

Safe == Init /\ [][Next]_vars

Spec == Safe /\ Fairness

-----------------------------------------------------------------------------
Phases == {"idle", "spinning", "holding", "releasing"}

(* Every word stays inside its uint32_t. *)
TypeOK ==
  /\ serving_ticket \in Words
  /\ next_ticket \in Words
  /\ ticket \in [CPUs -> Words]
  /\ current \in [CPUs -> Words]
  /\ pc \in [CPUs -> Phases]

(* The CPUs between their fetch-and-add and the end of their release. *)
Outstanding == {c \in CPUs : pc[c] # "idle"}

Inside == {c \in CPUs : pc[c] \in {"holding", "releasing"}}

(* Two CPUs are never both between the return of spinlock_acquire and the  *)
(* store of spinlock_release, however often the tickets wrapped around.    *)
MutualExclusion == \A c, d \in Inside : c = d

(* How many releases away from being shown a ticket is. *)
Distance(t) == Wrap(t - serving_ticket + TicketModulus)

(* Why mutual exclusion holds: the outstanding tickets are distinct and    *)
(* are exactly the ones from serving_ticket up to next_ticket, and whoever *)
(* is inside owns the ticket shown.                                        *)
TicketsInLine ==
  /\ next_ticket = Wrap(serving_ticket + Cardinality(Outstanding))
  /\ \A c \in Outstanding : Distance(ticket[c]) < Cardinality(Outstanding)
  /\ \A c, d \in Outstanding : ticket[c] = ticket[d] => c = d
  /\ \A c \in Inside : ticket[c] = serving_ticket
  /\ \A c \in CPUs : pc[c] = "releasing" => current[c] = serving_ticket

IInv == TypeOK /\ TicketsInLine

(* A CPU that has drawn a ticket gets in: nobody is overtaken forever.     *)
NoStarvation == \A c \in CPUs : pc[c] = "spinning" ~> pc[c] = "holding"

(* The refinement: the queue of FifoLock is the outstanding CPUs in the    *)
(* order in which their tickets will be shown.                             *)
LineUp ==
  [i \in 1 .. Cardinality(Outstanding) |->
     CHOOSE c \in Outstanding : Distance(ticket[c]) = i - 1]

Fifo == INSTANCE FifoLock WITH queue <- LineUp, inside <- Inside

(* The ticket lock implements a first-come first-served lock: CPUs enter   *)
(* in the order of their fetch-and-adds, one at a time.                    *)
ServesInOrder == Fifo!Spec
=============================================================================
