-------------------------- MODULE Spinlock_proofs ---------------------------
(***************************************************************************)
(* Proofs about the ticket spinlock, for every number of CPUs and every    *)
(* ticket width that has at least as many values as there are CPUs.        *)
(***************************************************************************)
EXTENDS Spinlock, FiniteSetTheorems, SequenceTheorems, TLAPS

(* One wrap-around of the ticket words, as a case distinction.             *)
LEMMA WrapOnce ==
  ASSUME NEW n \in 0 .. 2 * TicketModulus - 1
  PROVE  Wrap(n) = IF n < TicketModulus THEN n ELSE n - TicketModulus
  BY TicketsSuffice DEF Wrap

(* How far a ticket is from being shown, as a case distinction.            *)
LEMMA DistanceValue ==
  ASSUME NEW t \in Words, serving_ticket \in Words
  PROVE  Distance(t) = IF t >= serving_ticket
                         THEN t - serving_ticket
                         ELSE t - serving_ticket + TicketModulus
  BY TicketsSuffice, t - serving_ticket + TicketModulus \in 0 .. 2 * TicketModulus - 1,
     WrapOnce DEF Distance, Words

(* The CPUs that hold a ticket are finitely many, and no more than there   *)
(* are ticket values; an idle CPU leaves room for one more.                *)
LEMMA OutstandingBounded ==
  /\ IsFiniteSet(Outstanding)
  /\ Cardinality(Outstanding) \in 0 .. TicketModulus
  /\ \A c \in CPUs : pc[c] = "idle" => Cardinality(Outstanding) < TicketModulus
<1>1. Outstanding \in SUBSET CPUs
  BY DEF Outstanding
<1>2. /\ IsFiniteSet(Outstanding)
      /\ Cardinality(Outstanding) \in Nat
      /\ Cardinality(CPUs) \in Nat
      /\ Cardinality(Outstanding) <= Cardinality(CPUs)
      /\ Cardinality(CPUs) = Cardinality(Outstanding) => CPUs = Outstanding
  BY <1>1, TicketsSuffice, FS_Subset, FS_CardinalityType
<1>3. ASSUME NEW c \in CPUs, pc[c] = "idle"
      PROVE  Cardinality(Outstanding) < TicketModulus
  <2>1. CPUs # Outstanding
    BY <1>3 DEF Outstanding
  <2> QED
    BY <2>1, <1>2, TicketsSuffice
<1> QED
  BY <1>2, <1>3, TicketsSuffice

(* The words start inside their type and the line starts empty.            *)
LEMMA InitIInv == Init => IInv
<1> SUFFICES ASSUME Init PROVE IInv
  OBVIOUS
<1>1. TypeOK
  BY TicketsSuffice DEF Init, TypeOK, Words, Phases
<1>2. Outstanding = {} /\ Inside = {}
  BY DEF Init, Outstanding, Inside
<1>3. Cardinality(Outstanding) = 0
  BY <1>2, FS_EmptySet
<1>4. next_ticket = Wrap(serving_ticket + Cardinality(Outstanding))
  BY <1>3, TicketsSuffice, WrapOnce DEF Init
<1> QED
  BY <1>1, <1>2, <1>4 DEF IInv, TicketsInLine, Init

(* A fetch-and-add appends one ticket to the line.                         *)
LEMMA DrawTicketKeepsIInv ==
  ASSUME IInv, NEW c \in CPUs, DrawTicket(c)
  PROVE  IInv'
<1> USE TicketsSuffice
<1> DEFINE K == Cardinality(Outstanding)
<1>1. TypeOK /\ TicketsInLine
  BY DEF IInv
<1>2. /\ IsFiniteSet(Outstanding)
      /\ K \in Nat
      /\ K < TicketModulus
  BY OutstandingBounded DEF DrawTicket
<1>3. serving_ticket \in Words /\ next_ticket \in Words /\ serving_ticket' = serving_ticket
  BY <1>1 DEF TypeOK, DrawTicket
<1>4. Outstanding' = Outstanding \cup {c} /\ c \notin Outstanding
  BY <1>1 DEF TypeOK, Outstanding, DrawTicket
<1>5. Cardinality(Outstanding)' = K + 1
  BY <1>2, <1>4, FS_AddElement
<1>6. next_ticket = Wrap(serving_ticket + K)
  BY <1>1 DEF TicketsInLine
<1>7. next_ticket = IF serving_ticket + K < TicketModulus
                      THEN serving_ticket + K
                      ELSE serving_ticket + K - TicketModulus
  BY <1>2, <1>3, <1>6, WrapOnce DEF Words
<1>8. next_ticket' = IF next_ticket + 1 < TicketModulus THEN next_ticket + 1 ELSE 0
  BY <1>3, WrapOnce, next_ticket + 1 \in 0 .. 2 * TicketModulus - 1 DEF DrawTicket, Words
<1>9. TypeOK'
  BY <1>1, <1>3, <1>8 DEF TypeOK, DrawTicket, Words, Phases
<1>10. (next_ticket = Wrap(serving_ticket + Cardinality(Outstanding)))'
  <2>1. serving_ticket + (K + 1) \in 0 .. 2 * TicketModulus - 1
    BY <1>2, <1>3 DEF Words
  <2>2. next_ticket' = Wrap(serving_ticket + (K + 1))
    BY <2>1, <1>2, <1>3, <1>7, <1>8, WrapOnce DEF Words
  <2> QED
    BY <2>2, <1>3, <1>5 DEF Wrap
<1>11. Distance(next_ticket) = K
  BY <1>2, <1>3, <1>7, DistanceValue DEF Words
<1>13. ASSUME NEW d \in Outstanding'
       PROVE  Distance(ticket'[d]) < K + 1 /\ (d # c => ticket'[d] = ticket[d] /\ d \in Outstanding)
  <2>1. CASE d = c
    BY <2>1, <1>1, <1>2, <1>11 DEF DrawTicket, TypeOK
  <2>2. CASE d # c
    <3>1. d \in Outstanding /\ ticket'[d] = ticket[d] /\ ticket[d] \in Words
      BY <2>2, <1>1, <1>4 DEF DrawTicket, TypeOK, Outstanding
    <3>2. Distance(ticket[d]) < K /\ Distance(ticket[d]) \in Int
      BY <3>1, <1>1, <1>3, DistanceValue DEF TicketsInLine, Words
    <3> QED
      BY <3>1, <3>2, <1>2
  <2> QED
    BY <2>1, <2>2
<1>14. ASSUME NEW d \in Outstanding, ticket[d] = next_ticket
       PROVE  FALSE
  <2>1. Distance(ticket[d]) < K
    BY <1>1 DEF TicketsInLine
  <2> QED
    BY <2>1, <1>2, <1>11, <1>14
<1>15. TicketsInLine'
  <2>1. \A d \in Outstanding' : Distance(ticket[d])' < Cardinality(Outstanding)'
    BY <1>3, <1>5, <1>13 DEF Distance, Wrap
  <2>2. \A d, e \in Outstanding' : ticket'[d] = ticket'[e] => d = e
    <3>1. ticket'[c] = next_ticket
      BY <1>1 DEF DrawTicket, TypeOK
    <3> QED
      BY <3>1, <1>1, <1>13, <1>14 DEF TicketsInLine
  <2>3. \A d \in Inside' : ticket'[d] = serving_ticket'
    BY <1>1, <1>3 DEF TicketsInLine, Inside, DrawTicket, TypeOK
  <2>4. \A d \in CPUs : pc'[d] = "releasing" => current'[d] = serving_ticket'
    BY <1>1, <1>3 DEF TicketsInLine, DrawTicket, TypeOK
  <2> QED
    BY <1>10, <2>1, <2>2, <2>3, <2>4 DEF TicketsInLine
<1> QED
  BY <1>9, <1>15 DEF IInv

(* Leaving the spin loop moves no ticket.                                  *)
LEMMA SeeTicketKeepsIInv ==
  ASSUME IInv, NEW c \in CPUs, SeeTicket(c)
  PROVE  IInv'
<1>1. TypeOK /\ TicketsInLine
  BY DEF IInv
<1>2. Outstanding' = Outstanding
  BY <1>1 DEF Outstanding, SeeTicket, TypeOK
<1>3. TypeOK'
  BY <1>1 DEF TypeOK, SeeTicket, Phases
<1>4. TicketsInLine'
  BY <1>1, <1>2 DEF TicketsInLine, SeeTicket, Shown, Inside, Distance, TypeOK
<1> QED
  BY <1>3, <1>4 DEF IInv

(* The load of a release reads the ticket shown, which only the holder     *)
(* changes.                                                                *)
LEMMA LoadServingKeepsIInv ==
  ASSUME IInv, NEW c \in CPUs, LoadServing(c)
  PROVE  IInv'
<1>1. TypeOK /\ TicketsInLine
  BY DEF IInv
<1>2. Outstanding' = Outstanding
  BY <1>1 DEF Outstanding, LoadServing, TypeOK
<1>3. TypeOK'
  BY <1>1 DEF TypeOK, LoadServing, Phases
<1>4. TicketsInLine'
  BY <1>1, <1>2 DEF TicketsInLine, LoadServing, Inside, Distance, TypeOK
<1> QED
  BY <1>3, <1>4 DEF IInv

(* The store of a release takes the head off the line: everybody else is   *)
(* one release closer.                                                     *)
LEMMA StoreServingKeepsIInv ==
  ASSUME IInv, NEW c \in CPUs, StoreServing(c)
  PROVE  IInv'
<1> USE TicketsSuffice
<1> DEFINE K == Cardinality(Outstanding)
<1>1. TypeOK /\ TicketsInLine
  BY DEF IInv
<1>2. IsFiniteSet(Outstanding) /\ K \in 0 .. TicketModulus
  BY OutstandingBounded
<1>3. /\ serving_ticket \in Words
      /\ next_ticket \in Words
      /\ next_ticket' = next_ticket
      /\ ticket' = ticket
  BY <1>1 DEF TypeOK, StoreServing
<1>4. /\ c \in Outstanding
      /\ c \in Inside
      /\ ticket[c] = serving_ticket
      /\ current[c] = serving_ticket
  BY <1>1 DEF TicketsInLine, StoreServing, Outstanding, Inside
<1>5. Outstanding' = Outstanding \ {c}
  BY <1>1 DEF TypeOK, Outstanding, StoreServing
<1>6. Cardinality(Outstanding)' = K - 1 /\ K >= 1
  <2>1. K # 0
    BY <1>2, <1>4, FS_EmptySet
  <2>2. Cardinality(Outstanding \ {c}) = K - 1
    BY <1>2, <1>4, FS_RemoveElement
  <2> QED
    BY <2>1, <2>2, <1>2, <1>5
<1>7. serving_ticket' = IF serving_ticket + 1 < TicketModulus THEN serving_ticket + 1 ELSE 0
  BY <1>3, <1>4, WrapOnce, serving_ticket + 1 \in 0 .. 2 * TicketModulus - 1
     DEF StoreServing, Words
<1>8. serving_ticket' \in Words
  BY <1>3, <1>7 DEF Words
<1>9. TypeOK'
  BY <1>1, <1>3, <1>8 DEF TypeOK, StoreServing, Phases
<1>10. (next_ticket = Wrap(serving_ticket + Cardinality(Outstanding)))'
  <2>1. next_ticket = Wrap(serving_ticket + K)
    BY <1>1 DEF TicketsInLine
  <2>2. next_ticket = IF serving_ticket + K < TicketModulus
                        THEN serving_ticket + K
                        ELSE serving_ticket + K - TicketModulus
    BY <2>1, <1>2, <1>3, WrapOnce DEF Words
  <2>3. serving_ticket' + (K - 1) \in 0 .. 2 * TicketModulus - 1
    BY <1>2, <1>6, <1>8 DEF Words
  <2>4. next_ticket = Wrap(serving_ticket' + (K - 1))
    BY <2>2, <2>3, <1>2, <1>3, <1>6, <1>7, WrapOnce DEF Words
  <2> QED
    BY <2>4, <1>3, <1>6 DEF Wrap
<1>11. ASSUME NEW d \in Outstanding'
       PROVE  /\ d \in Outstanding
              /\ ticket[d] \in Words
              /\ ticket[d] # serving_ticket
              /\ Distance(ticket[d])' = Distance(ticket[d]) - 1
  <2>1. d \in Outstanding /\ d # c /\ ticket[d] \in Words
    BY <1>1, <1>5 DEF Outstanding, TypeOK
  <2>2. ticket[d] # serving_ticket
    BY <2>1, <1>1, <1>4 DEF TicketsInLine
  <2>3. Distance(ticket[d]) = IF ticket[d] >= serving_ticket
                                THEN ticket[d] - serving_ticket
                                ELSE ticket[d] - serving_ticket + TicketModulus
    BY <2>1, <1>3, DistanceValue
  <2>4. ticket[d] - serving_ticket' + TicketModulus \in 0 .. 2 * TicketModulus - 1
    BY <2>1, <1>8 DEF Words
  <2>5. Wrap(ticket[d] - serving_ticket' + TicketModulus) = Distance(ticket[d]) - 1
    BY <2>1, <2>2, <2>3, <2>4, <1>3, <1>7, WrapOnce DEF Words
  <2> QED
    BY <2>1, <2>2, <2>5, <1>3 DEF Distance, Wrap
<1>12. TicketsInLine'
  <2>1. \A d \in Outstanding' : Distance(ticket[d])' < Cardinality(Outstanding)'
    <3> SUFFICES ASSUME NEW d \in Outstanding'
                 PROVE  Distance(ticket[d])' < Cardinality(Outstanding)'
      OBVIOUS
    <3>1. Distance(ticket[d]) < K /\ Distance(ticket[d]) \in Int
      BY <1>1, <1>3, <1>11, DistanceValue DEF TicketsInLine, Words
    <3> QED
      BY <3>1, <1>2, <1>6, <1>11
  <2>2. \A d, e \in Outstanding' : ticket'[d] = ticket'[e] => d = e
    BY <1>1, <1>3, <1>11 DEF TicketsInLine
  <2>3. Inside' = {}
    <3> SUFFICES ASSUME NEW d \in Inside'
                 PROVE  FALSE
      OBVIOUS
    <3>1. d \in Outstanding' /\ d \in Inside
      BY <1>1 DEF Inside, Outstanding, StoreServing, TypeOK
    <3> QED
      BY <3>1, <1>1, <1>11 DEF TicketsInLine
  <2>4. \A d \in CPUs : pc'[d] # "releasing"
    BY <2>3 DEF Inside
  <2> QED
    BY <1>10, <2>1, <2>2, <2>3, <2>4 DEF TicketsInLine
<1> QED
  BY <1>9, <1>12 DEF IInv

(* Every step keeps the tickets in line.                                   *)
LEMMA NextIInv == IInv /\ [Next]_vars => IInv'
<1> SUFFICES ASSUME IInv, [Next]_vars PROVE IInv'
  OBVIOUS
<1>1. ASSUME NEW c \in CPUs, Step(c)
      PROVE  IInv'
  BY <1>1, DrawTicketKeepsIInv, SeeTicketKeepsIInv, LoadServingKeepsIInv,
     StoreServingKeepsIInv DEF Step
<1>2. CASE UNCHANGED vars
  BY <1>2 DEF vars, IInv, TypeOK, TicketsInLine, Outstanding, Inside, Distance
<1> QED
  BY <1>1, <1>2 DEF Next

(* The outstanding tickets are in line in every reachable state.           *)
THEOREM SpinlockInvariant == Spec => []IInv
<1>1. Init => IInv
  BY InitIInv
<1>2. IInv /\ [Next]_vars => IInv'
  BY NextIInv
<1> QED
  BY <1>1, <1>2, PTL DEF Spec, Safe

(* Type correctness: both ticket words and every copy of them stay within  *)
(* the width of the type.                                                  *)
THEOREM SpinlockTypeOK == Spec => []TypeOK
<1>1. IInv => TypeOK
  BY DEF IInv
<1> QED
  BY <1>1, SpinlockInvariant, PTL

(* Mutual exclusion of spinlock_acquire .. spinlock_release, for any       *)
(* number of CPUs and through any number of wrap-arounds.                  *)
THEOREM SpinlockMutualExclusion == Spec => []MutualExclusion
<1>1. IInv => MutualExclusion
  BY DEF IInv, TicketsInLine, MutualExclusion, Inside, Outstanding
<1> QED
  BY <1>1, SpinlockInvariant, PTL

-----------------------------------------------------------------------------
(* The refinement.  LineUp is well defined: for every place in the line    *)
(* there is exactly one CPU whose ticket has that distance.                *)
LEMMA PlacesAreTaken ==
  ASSUME IInv
  PROVE  /\ Cardinality(Outstanding) \in Nat
         /\ \A i \in 1 .. Cardinality(Outstanding) :
              \E c \in Outstanding : Distance(ticket[c]) = i - 1
<1> USE TicketsSuffice
<1> DEFINE K == Cardinality(Outstanding)
           f == [c \in Outstanding |-> Distance(ticket[c])]
<1>1. TypeOK /\ TicketsInLine
  BY DEF IInv
<1>2. IsFiniteSet(Outstanding) /\ K \in Nat
  BY OutstandingBounded
<1>3. IsFiniteSet(0 .. K - 1) /\ Cardinality(0 .. K - 1) = K
  <2>1. K - 1 \in Int
    BY <1>2
  <2>2. /\ IsFiniteSet(0 .. K - 1)
        /\ Cardinality(0 .. K - 1) = IF 0 > K - 1 THEN 0 ELSE (K - 1) - 0 + 1
    BY <2>1, FS_Interval
  <2> QED
    BY <2>2, <1>2
<1>4. ASSUME NEW c \in Outstanding
      PROVE  /\ ticket[c] \in Words
             /\ Distance(ticket[c]) \in 0 .. K - 1
  <2>1. ticket[c] \in Words /\ serving_ticket \in Words
    BY <1>1 DEF TypeOK, Outstanding
  <2>2. Distance(ticket[c]) \in Nat
    BY <2>1, DistanceValue DEF Words
  <2> QED
    BY <2>1, <2>2, <1>1, <1>2 DEF TicketsInLine
<1>5. ASSUME NEW c \in Outstanding, NEW d \in Outstanding,
             Distance(ticket[c]) = Distance(ticket[d])
      PROVE  c = d
  <2>1. ticket[c] = ticket[d]
    BY <1>1, <1>4, <1>5, DistanceValue DEF TypeOK, Words
  <2> QED
    BY <2>1, <1>1 DEF TicketsInLine
<1>6. f \in Injection(Outstanding, 0 .. K - 1)
  BY <1>4, <1>5 DEF Injection, IsInjective
<1>7. f \in Surjection(Outstanding, 0 .. K - 1)
  <2> HIDE DEF f
  <2> QED
    BY <1>2, <1>3, <1>6, FS_Injection
<1>8. \A i \in 1 .. K : i - 1 \in 0 .. K - 1
  BY <1>2
<1> QED
  BY <1>2, <1>7, <1>8 DEF Surjection

(* The place of CPU c in the line, counted from zero.                      *)
Place(c) == Wrap(ticket[c] - serving_ticket + TicketModulus)

(* The line as a sequence: it lists the outstanding CPUs, each once, in    *)
(* the order of their places.                                              *)
LineUpIsALine ==
  /\ LineUp \in Seq(Outstanding)
  /\ Len(LineUp) = Cardinality(Outstanding)
  /\ \A i \in 1 .. Cardinality(Outstanding) :
       LineUp[i] \in Outstanding /\ Place(LineUp[i]) = i - 1
  /\ \A c, d \in Outstanding : Place(c) = Place(d) => c = d

(* Sorting the outstanding CPUs by that distance gives a line.             *)
LEMMA TicketsFormALine == IInv => LineUpIsALine
<1> SUFFICES ASSUME IInv PROVE LineUpIsALine
  OBVIOUS
<1>1. TypeOK /\ TicketsInLine
  BY DEF IInv
<1>2. \A c : Place(c) = Distance(ticket[c])
  BY DEF Place, Distance
<1>3. /\ LineUp \in Seq(Outstanding)
      /\ Len(LineUp) = Cardinality(Outstanding)
      /\ \A i \in 1 .. Cardinality(Outstanding) :
           LineUp[i] \in Outstanding /\ Place(LineUp[i]) = i - 1
  BY <1>2, PlacesAreTaken DEF LineUp
<1>4. ASSUME NEW c \in Outstanding, NEW d \in Outstanding, Place(c) = Place(d)
      PROVE  c = d
  <2>1. ticket[c] \in Words /\ ticket[d] \in Words /\ serving_ticket \in Words
    BY <1>1 DEF TypeOK, Outstanding
  <2>2. ticket[c] = ticket[d]
    BY <2>1, <1>2, <1>4, TicketsSuffice, DistanceValue DEF Words
  <2> QED
    BY <1>1, <2>2 DEF TicketsInLine
<1> QED
  BY <1>3, <1>4 DEF LineUpIsALine

(* The lock starts with an empty queue.                                    *)
LEMMA InitRefines == Init => Fifo!Init
<1> SUFFICES ASSUME Init PROVE LineUp = <<>> /\ Inside = {}
  BY DEF Fifo!Init
<1>1. Outstanding = {} /\ Inside = {}
  BY DEF Init, Outstanding, Inside
<1>2. Cardinality(Outstanding) = 0
  BY <1>1, FS_EmptySet
<1> QED
  BY <1>1, <1>2 DEF LineUp

(* Drawing a ticket is joining the queue at its end.                       *)
LEMMA DrawTicketJoins ==
  ASSUME IInv, NEW c \in CPUs, DrawTicket(c)
  PROVE  Fifo!Join(c)
<1> USE TicketsSuffice
<1> DEFINE K == Cardinality(Outstanding)
<1>1. TypeOK /\ TicketsInLine /\ IInv'
  BY DrawTicketKeepsIInv DEF IInv
<1>2. LineUpIsALine /\ LineUpIsALine'
  BY <1>1, TicketsFormALine, PTL
<1>3. IsFiniteSet(Outstanding) /\ K \in Nat
  BY OutstandingBounded
<1>4. Outstanding' = Outstanding \cup {c} /\ c \notin Outstanding
  BY <1>1 DEF TypeOK, Outstanding, DrawTicket
<1>5. Cardinality(Outstanding)' = K + 1
  BY <1>3, <1>4, FS_AddElement
<1>6. Inside' = Inside
  BY <1>1 DEF Inside, DrawTicket, TypeOK
<1>7. ASSUME NEW d \in Outstanding
      PROVE  Place(d)' = Place(d)
  BY <1>1, <1>4 DEF Place, Wrap, DrawTicket, TypeOK, Outstanding
<1>8. ASSUME NEW i \in 1 .. K
      PROVE  LineUp'[i] = LineUp[i]
  <2>1. PICK d \in Outstanding : d = LineUp[i] /\ Place(d) = i - 1
    BY <1>2 DEF LineUpIsALine
  <2>2. PICK e \in Outstanding' : e = LineUp'[i] /\ Place(e)' = i - 1
    BY <1>2, <1>3, <1>5 DEF LineUpIsALine
  <2>3. d \in Outstanding' /\ Place(d)' = Place(e)'
    BY <2>1, <2>2, <1>4, <1>7
  <2> QED
    BY <2>1, <2>2, <2>3, <1>2 DEF LineUpIsALine
<1>9. LineUp'[K + 1] = c
  <2>1. PICK e \in Outstanding' : e = LineUp'[K + 1] /\ Place(e)' = K
    BY <1>2, <1>3, <1>5 DEF LineUpIsALine
  <2>2. e \notin Outstanding
    <3>1. SUFFICES ASSUME e \in Outstanding PROVE FALSE
      OBVIOUS
    <3>2. Place(e) = K /\ Place(e) < K
      <4>1. Place(e) < K
        BY <3>1, <1>1 DEF TicketsInLine, Distance, Place
      <4> QED
        BY <4>1, <3>1, <2>1, <1>7
    <3> QED
      BY <3>2, <1>3
  <2> QED
    BY <2>1, <2>2, <1>4
<1>10. LineUp' = Append(LineUp, c)
  <2>1. /\ LineUp = [i \in 1 .. K |-> LineUp[i]]
        /\ LineUp' = [i \in 1 .. K + 1 |-> LineUp'[i]]
        /\ Len(LineUp) = K
    BY <1>2, <1>3, <1>5 DEF LineUp, LineUpIsALine
  <2>2. /\ Append(LineUp, c) = [i \in 1 .. K + 1 |-> IF i = K + 1 THEN c ELSE LineUp[i]]
    BY <2>1, <1>2, <1>3 DEF LineUpIsALine
  <2> QED
    BY <2>1, <2>2, <1>3, <1>8, <1>9
<1>11. ~ Fifo!Queued(c)
  BY <1>2, <1>3, <1>4 DEF Fifo!Queued, LineUpIsALine
<1> QED
  BY <1>6, <1>10, <1>11 DEF Fifo!Join

(* Leaving the spin loop is entering, as the oldest caller and with nobody *)
(* else inside.                                                            *)
LEMMA SeeTicketEnters ==
  ASSUME IInv, NEW c \in CPUs, SeeTicket(c)
  PROVE  Fifo!Enter(c)
<1> DEFINE K == Cardinality(Outstanding)
<1>1. TypeOK /\ TicketsInLine /\ LineUpIsALine
  BY TicketsFormALine DEF IInv
<1>2. IsFiniteSet(Outstanding) /\ K \in Nat
  BY OutstandingBounded
<1>3. c \in Outstanding /\ c \notin Inside
  BY DEF SeeTicket, Outstanding, Inside
<1>4. K >= 1
  <2>1. K # 0
    BY <1>2, <1>3, FS_EmptySet
  <2> QED
    BY <2>1, <1>2
<1>5. Place(c) = 0
  <2>1. ticket[c] = serving_ticket /\ serving_ticket \in Words
    BY <1>1 DEF SeeTicket, Shown, TypeOK
  <2> QED
    BY <2>1, DistanceValue DEF Distance, Place, Words
<1>6. LineUp # <<>> /\ Head(LineUp) = c
  <2>1. LineUp[1] \in Outstanding /\ Place(LineUp[1]) = 0
    BY <1>1, <1>2, <1>4 DEF LineUpIsALine
  <2>2. LineUp[1] = c
    BY <2>1, <1>1, <1>3, <1>5 DEF LineUpIsALine
  <2> QED
    BY <2>2, <1>1, <1>2, <1>4 DEF LineUpIsALine
<1>7. Inside = {}
  <2>1. \A d \in Inside : ticket[d] = ticket[c] /\ d \in Outstanding
    BY <1>1 DEF TicketsInLine, SeeTicket, Shown, Inside, Outstanding
  <2>2. \A d \in Inside : d = c
    BY <2>1, <1>1, <1>3 DEF TicketsInLine
  <2> QED
    BY <2>2, <1>3
<1>8. Inside' = {c}
  BY <1>1, <1>7 DEF SeeTicket, Inside, TypeOK
<1>9. Outstanding' = Outstanding
  BY <1>1 DEF SeeTicket, Outstanding, TypeOK
<1>10. LineUp' = LineUp
  BY <1>9 DEF LineUp, SeeTicket, Distance
<1> QED
  BY <1>6, <1>7, <1>8, <1>10 DEF Fifo!Enter

(* The load of a release is invisible.                                     *)
LEMMA LoadServingStutters ==
  ASSUME IInv, NEW c \in CPUs, LoadServing(c)
  PROVE  UNCHANGED <<LineUp, Inside>>
<1>1. TypeOK
  BY DEF IInv
<1>2. Outstanding' = Outstanding /\ Inside' = Inside
  BY <1>1 DEF LoadServing, Outstanding, Inside, TypeOK
<1> QED
  BY <1>2 DEF LineUp, LoadServing, Distance

(* The store of a release takes the holder off the head of the queue.      *)
LEMMA StoreServingLeaves ==
  ASSUME IInv, NEW c \in CPUs, StoreServing(c)
  PROVE  Fifo!Leave(c)
<1> USE TicketsSuffice
<1> DEFINE K == Cardinality(Outstanding)
<1>1. TypeOK /\ TicketsInLine /\ IInv'
  BY StoreServingKeepsIInv DEF IInv
<1>2. LineUpIsALine /\ LineUpIsALine'
  BY <1>1, TicketsFormALine, PTL
<1>3. IsFiniteSet(Outstanding) /\ K \in Nat
  BY OutstandingBounded
<1>4. c \in Outstanding /\ c \in Inside /\ ticket[c] = serving_ticket
  BY <1>1 DEF TicketsInLine, StoreServing, Outstanding, Inside
<1>5. Outstanding' = Outstanding \ {c}
  BY <1>1 DEF TypeOK, Outstanding, StoreServing
<1>6. Cardinality(Outstanding)' = K - 1 /\ K >= 1
  <2>1. K # 0
    BY <1>3, <1>4, FS_EmptySet
  <2>2. Cardinality(Outstanding \ {c}) = K - 1
    BY <1>3, <1>4, FS_RemoveElement
  <2> QED
    BY <2>1, <2>2, <1>3, <1>5
<1>7. Inside' = {}
  BY <1>1, <1>4 DEF TicketsInLine, Inside, Outstanding, StoreServing, TypeOK
<1>8. ASSUME NEW d \in Outstanding'
      PROVE  Place(d)' = Place(d) - 1
  <2>1. /\ ticket[d] \in Words /\ ticket' = ticket /\ serving_ticket \in Words
        /\ d \in Outstanding /\ d # c
    BY <1>1, <1>5 DEF TypeOK, Outstanding, StoreServing
  <2>2. ticket[d] # serving_ticket
    BY <2>1, <1>1, <1>4 DEF TicketsInLine
  <2>3. current[c] = serving_ticket
    BY <1>1 DEF TicketsInLine, StoreServing
  <2>4. serving_ticket' = IF serving_ticket + 1 < TicketModulus
                            THEN serving_ticket + 1 ELSE 0
    BY <2>1, <2>3, WrapOnce, serving_ticket + 1 \in 0 .. 2 * TicketModulus - 1
       DEF StoreServing, Words
  <2>5. Place(d) = IF ticket[d] >= serving_ticket
                     THEN ticket[d] - serving_ticket
                     ELSE ticket[d] - serving_ticket + TicketModulus
    BY <2>1, DistanceValue DEF Distance, Place
  <2>6. ticket[d] - serving_ticket' + TicketModulus \in 0 .. 2 * TicketModulus - 1
    BY <2>1, <2>4 DEF Words
  <2>7. Wrap(ticket[d] - serving_ticket' + TicketModulus) = Place(d) - 1
    BY <2>1, <2>2, <2>4, <2>5, <2>6, WrapOnce DEF Words
  <2> QED
    BY <2>1, <2>7 DEF Place, Wrap
<1>9. ASSUME NEW i \in 1 .. K - 1
      PROVE  LineUp'[i] = LineUp[i + 1]
  <2>1. PICK d \in Outstanding : d = LineUp[i + 1] /\ Place(d) = i
    BY <1>2, <1>3 DEF LineUpIsALine
  <2>2. PICK e \in Outstanding' : e = LineUp'[i] /\ Place(e)' = i - 1
    BY <1>2, <1>3, <1>6 DEF LineUpIsALine
  <2>3. e \in Outstanding /\ Place(e)' = Place(e) - 1
    BY <2>2, <1>5, <1>8
  <2>4. ticket[e] \in Words /\ serving_ticket \in Words
    BY <2>3, <1>1 DEF TypeOK, Outstanding
  <2>5. Place(e) \in Int
    BY <2>4, DistanceValue DEF Distance, Place, Words
  <2>6. Place(e) = i
    BY <2>2, <2>3, <2>5, <1>3
  <2> QED
    BY <2>1, <2>2, <2>3, <2>6, <1>2 DEF LineUpIsALine
<1>10. LineUp' = Tail(LineUp)
  <2>1. /\ LineUp \in Seq(Outstanding) /\ Len(LineUp) = K /\ LineUp # <<>>
        /\ LineUp' \in Seq(Outstanding) /\ Len(LineUp') = K - 1
    <3>1. LineUp' \in Seq(Outstanding') /\ Seq(Outstanding') \subseteq Seq(Outstanding)
      BY <1>2, <1>5 DEF LineUpIsALine
    <3> QED
      BY <3>1, <1>2, <1>3, <1>6 DEF LineUpIsALine
  <2>2. /\ Tail(LineUp) \in Seq(Outstanding)
        /\ Len(Tail(LineUp)) = K - 1
        /\ \A i \in 1 .. K - 1 : Tail(LineUp)[i] = LineUp[i + 1]
    BY <2>1, HeadTailProperties
  <2>3. \A i \in 1 .. Len(LineUp') : LineUp'[i] = Tail(LineUp)[i]
    BY <2>1, <2>2, <1>9
  <2> QED
    BY <2>1, <2>2, <2>3, SeqEqual
<1> QED
  BY <1>4, <1>7, <1>10 DEF Fifo!Leave

(* Safety of the refinement: every behaviour of the ticket lock is, seen   *)
(* through LineUp and Inside, a behaviour of the first-come first-served   *)
(* lock.  (That the refinement is also live is left to TLC.)               *)
THEOREM SpinlockRefinesFifo == Safe => Fifo!Init /\ [][Fifo!Next]_(Fifo!vars)
<1>1. Init => IInv /\ Fifo!Init
  BY InitIInv, InitRefines
<1>2. IInv /\ [Next]_vars => IInv' /\ [Fifo!Next]_(Fifo!vars)
  <2> SUFFICES ASSUME IInv, [Next]_vars PROVE [Fifo!Next]_(Fifo!vars)
    BY NextIInv
  <2>1. ASSUME NEW c \in CPUs, DrawTicket(c)
        PROVE  Fifo!Next
    BY <2>1, DrawTicketJoins DEF Fifo!Next
  <2>2. ASSUME NEW c \in CPUs, SeeTicket(c)
        PROVE  Fifo!Next
    BY <2>2, SeeTicketEnters DEF Fifo!Next
  <2>3. ASSUME NEW c \in CPUs, LoadServing(c)
        PROVE  UNCHANGED Fifo!vars
    BY <2>3, LoadServingStutters DEF Fifo!vars
  <2>4. ASSUME NEW c \in CPUs, StoreServing(c)
        PROVE  Fifo!Next
    BY <2>4, StoreServingLeaves DEF Fifo!Next
  <2>5. CASE UNCHANGED vars
    BY <2>5 DEF vars, Fifo!vars, LineUp, Inside, Outstanding, Distance
  <2> QED
    BY <2>1, <2>2, <2>3, <2>4, <2>5 DEF Next, Step
<1> QED
  BY <1>1, <1>2, PTL DEF Safe
=============================================================================
