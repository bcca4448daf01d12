----------------------------- MODULE Vmm_proofs -----------------------------
(***************************************************************************)
(* That the page tables do what vmm_init builds them for, for every size   *)
(* of a table, every depth, every memory map and every size of the         *)
(* sections.  In four parts:                                               *)
(*   - induction and recursion over the numbers, from WFMin;               *)
(*   - the indices of a page identify it, and the calls of vmm_init agree  *)
(*     on every page they share (CallsAgree);                              *)
(*   - trees of tables: LevelOf and the processor's walk are what their    *)
(*     recursive definitions say, and how a write changes them;            *)
(*   - the inductive invariant IInv, the invariants and the refinement.    *)
(***************************************************************************)
EXTENDS Vmm, FiniteSetTheorems, SequenceTheorems, WellFoundedInduction, TLAPS

-----------------------------------------------------------------------------
(* Induction and recursion over the numbers, in terms of sets and          *)
(* functions.                                                              *)

LEMMA LessIsWellFounded == IsWellFoundedOn({p \in Nat \X Nat : p[1] < p[2]}, Nat)
  BY NatLessThanWellFounded DEF OpToRel

LEMMA SetInduction ==
  ASSUME NEW S, 0 \in S, \A n \in Nat : n \in S => n + 1 \in S
  PROVE  Nat \subseteq S
<1> DEFINE Less == {p \in Nat \X Nat : p[1] < p[2]}
           Rest == Nat \ S
<1> SUFFICES ASSUME Rest # {} PROVE FALSE
  OBVIOUS
<1>1. PICK n \in Rest : \A k \in Rest : ~ (<<k, n>> \in Less)
  <2>1. IsWellFoundedOn(Less, Nat) /\ Rest \subseteq Nat
    BY LessIsWellFounded
  <2> HIDE DEF Less, Rest
  <2> QED
    BY <2>1, WFMin
<1>2. n \in Nat /\ n \notin S /\ n # 0
  OBVIOUS
<1>3. n - 1 \in Nat /\ n - 1 < n /\ n - 1 + 1 = n
  BY <1>2
<1>4. n - 1 \notin Rest
  <2>1. <<n - 1, n>> \in Less
    BY <1>2, <1>3
  <2> QED
    BY <1>1, <2>1
<1>5. n - 1 \in S
  BY <1>3, <1>4
<1> QED
  BY <1>2, <1>3, <1>5

(* A first value and a step define a function.                             *)
Iterates(f, V, first, step) ==
  f \in [Nat -> V] /\ f[0] = first /\ \A n \in Nat : f[n + 1] = step[<<n, f[n]>>]

LEMMA Recursion ==
  ASSUME NEW V, NEW first \in V, NEW step \in [Nat \X V -> V]
  PROVE  \E f : Iterates(f, V, first, step)
<1> DEFINE Upto(g, n) == /\ g \in [0 .. n -> V] /\ g[0] = first
                         /\ \A k \in 0 .. n - 1 : g[k + 1] = step[<<k, g[k]>>]
<1>1. \A n \in Nat : \E g : Upto(g, n)
  <2> DEFINE S == {n \in Nat : \E g : Upto(g, n)}
  <2>1. 0 \in S
    <3>1. Upto([k \in 0 .. 0 |-> first], 0)
      OBVIOUS
    <3> QED
      BY <3>1
  <2>2. ASSUME NEW n \in Nat, n \in S PROVE n + 1 \in S
    <3>1. PICK g : Upto(g, n)
      BY <2>2
    <3> DEFINE h == [k \in 0 .. n + 1 |-> IF k = n + 1 THEN step[<<n, g[n]>>] ELSE g[k]]
    <3>2. step[<<n, g[n]>>] \in V
      BY <3>1
    <3>3. h \in [0 .. n + 1 -> V] /\ h[0] = first
      BY <3>1, <3>2
    <3>4. ASSUME NEW k \in 0 .. n + 1 - 1 PROVE h[k + 1] = step[<<k, h[k]>>]
      <4>1. k + 1 \in 0 .. n + 1 /\ k \in 0 .. n + 1 /\ k # n + 1 /\ k \in 0 .. n
        OBVIOUS
      <4>2. h[k] = g[k]
        BY <4>1
      <4>3. CASE k = n
        BY <4>1, <4>2, <4>3
      <4>4. CASE k # n
        <5>1. k \in 0 .. n - 1 /\ h[k + 1] = g[k + 1]
          BY <4>1, <4>4
        <5> QED
          BY <3>1, <4>2, <5>1
      <4> QED
        BY <4>3, <4>4
    <3>5. Upto(h, n + 1)
      <4> HIDE DEF h
      <4> QED
        BY <3>3, <3>4
    <3> HIDE DEF Upto, h
    <3> QED
      BY <3>5
  <2> HIDE DEF Upto
  <2>3. Nat \subseteq S
    <3> HIDE DEF S
    <3> QED
      BY <2>1, <2>2, SetInduction
  <2> QED
    BY <2>3
<1>2. \A k \in Nat : \A n, m \in Nat : \A g, h :
        k <= n /\ k <= m /\ Upto(g, n) /\ Upto(h, m) => g[k] = h[k]
  <2> DEFINE S == {k \in Nat : \A n, m \in Nat : \A g, h :
                     k <= n /\ k <= m /\ Upto(g, n) /\ Upto(h, m) => g[k] = h[k]}
  <2>1. 0 \in S
    OBVIOUS
  <2>2. ASSUME NEW k \in Nat, k \in S PROVE k + 1 \in S
    <3> HIDE DEF Upto
    <3> SUFFICES ASSUME NEW n \in Nat, NEW m \in Nat, NEW g, NEW h,
                        k + 1 <= n, k + 1 <= m, Upto(g, n), Upto(h, m)
                 PROVE  g[k + 1] = h[k + 1]
      OBVIOUS
    <3>1. k \in 0 .. n - 1 /\ k \in 0 .. m - 1 /\ k <= n /\ k <= m
      OBVIOUS
    <3>2. g[k] = h[k]
      BY <2>2, <3>1
    <3> QED
      BY <3>1, <3>2 DEF Upto
  <2> HIDE DEF Upto
  <2>3. Nat \subseteq S
    <3> HIDE DEF S
    <3> QED
      BY <2>1, <2>2, SetInduction
  <2> QED
    BY <2>3
<1> DEFINE f == [n \in Nat |-> (CHOOSE g : Upto(g, n))[n]]
<1>3. ASSUME NEW n \in Nat, NEW g, Upto(g, n) PROVE f[n] = g[n]
  <2> HIDE DEF Upto
  <2> DEFINE h == CHOOSE x : Upto(x, n)
  <2>1. Upto(h, n)
    BY <1>3, Zenon
  <2>2. f[n] = h[n]
    OBVIOUS
  <2> HIDE DEF h, f
  <2>3. n <= n
    OBVIOUS
  <2>4. h[n] = g[n]
    BY <1>2, <1>3, <2>1, <2>3, Zenon
  <2> QED
    BY <2>2, <2>4
<1> HIDE DEF Upto
<1>4. ASSUME NEW n \in Nat PROVE f[n] \in V /\ f[n + 1] = step[<<n, f[n]>>]
  <2>1. PICK g : Upto(g, n + 1)
    BY <1>1
  <2>2. PICK e : Upto(e, n)
    BY <1>1
  <2>3. f[n] = e[n] /\ f[n + 1] = g[n + 1]
    <3> HIDE DEF Upto, f
    <3> QED
      BY <1>3, <2>1, <2>2
  <2>4. e[n] = g[n]
    <3> HIDE DEF Upto, f
    <3> QED
      BY <1>2, <2>1, <2>2
  <2>5. e[n] \in V /\ g[n + 1] = step[<<n, g[n]>>]
    BY <2>1, <2>2 DEF Upto
  <2> QED
    BY <2>3, <2>4, <2>5
<1>5. f[0] = first
  <2>1. PICK e : Upto(e, 0)
    BY <1>1
  <2> QED
    BY <1>3, <2>1 DEF Upto
<1>6. f \in [Nat -> V]
  BY <1>4
<1> HIDE DEF f
<1> QED
  BY <1>4, <1>5, <1>6 DEF Iterates

-----------------------------------------------------------------------------
(* The indices of a page.                                                  *)

LEMMA Constants ==
  /\ PAGE_SIZE \in Nat \ {0} /\ FANOUT \in Nat \ {0} /\ DEPTH \in Nat \ {0} /\ Low \in Nat \ {0}
  /\ BitmapSize \in Nat \ {0} /\ hhdm_offset \in Nat /\ KernelBase \in Nat /\ PhysicalBase \in Nat
  BY VmmAssumption

LEMMA SpanIs ==
  /\ Span \in [Nat -> Nat \ {0}] /\ Span[0] = 1
  /\ \A n \in Nat : Span[n + 1] = FANOUT * Span[n]
<1> DEFINE F == [p \in Nat \X (Nat \ {0}) |-> FANOUT * p[2]]
<1>1. ASSUME NEW x \in Nat \ {0} PROVE FANOUT * x \in Nat \ {0}
  BY Constants
<1>2. F \in [Nat \X (Nat \ {0}) -> Nat \ {0}]
  BY <1>1
<1>3. PICK f \in [Nat -> Nat \ {0}] : f[0] = 1 /\ \A n \in Nat : f[n + 1] = F[<<n, f[n]>>]
  <2> DEFINE V == Nat \ {0}
  <2>1. 1 \in V /\ F \in [Nat \X V -> V]
    BY <1>2
  <2> HIDE DEF F, V
  <2>2. \E f : Iterates(f, V, 1, F)
    BY <2>1, Recursion
  <2> QED
    BY <2>2 DEF Iterates, V
<1>4. \A n \in Nat : f[n] = IF n = 0 THEN 1 ELSE FANOUT * f[n - 1]
  <2> TAKE n \in Nat
  <2>1. CASE n = 0
    BY <1>3, <2>1
  <2>2. CASE n # 0
    <3>1. n - 1 \in Nat /\ n - 1 + 1 = n
      BY <2>2
    <3>2. f[n] = F[<<n - 1, f[n - 1]>>]
      BY <1>3, <3>1
    <3> QED
      BY <2>2, <3>1, <3>2
  <2> QED
    BY <2>1, <2>2
<1>5. f = [n \in Nat |-> IF n = 0 THEN 1 ELSE FANOUT * f[n - 1]]
  BY <1>4
<1>6. Span = [n \in Nat |-> IF n = 0 THEN 1 ELSE FANOUT * Span[n - 1]]
  BY <1>5, Zenon DEF Span
<1>7. Span[0] = 1
  BY <1>6
<1>8. \A n \in Nat : Span[n + 1] = FANOUT * Span[n]
  <2> TAKE n \in Nat
  <2>1. n + 1 \in Nat /\ n + 1 # 0 /\ n + 1 - 1 = n
    OBVIOUS
  <2> QED
    BY <1>6, <2>1
<1>9. Span \in [Nat -> Nat \ {0}]
  <2> DEFINE S == {n \in Nat : Span[n] \in Nat \ {0}}
  <2>1. 0 \in S
    BY <1>7
  <2>2. \A n \in Nat : n \in S => n + 1 \in S
    BY <1>1, <1>8
  <2>3. Nat \subseteq S
    <3> HIDE DEF S
    <3> QED
      BY <2>1, <2>2, SetInduction
  <2> QED
    BY <1>6, <2>3
<1> QED
  BY <1>7, <1>8, <1>9

LEMMA QuotientIs ==
  ASSUME NEW p \in Nat, NEW m \in Nat \ {0}, NEW q \in Nat, m * q <= p, p < m * q + m
  PROVE  p \div m = q
<1>1. p = m * (p \div m) + (p % m) /\ p % m \in 0 .. m - 1 /\ p \div m \in Nat
  OBVIOUS
<1>2. ASSUME NEW x \in Nat, NEW y \in Nat, x < y PROVE m * x + m <= m * y
  <2>1. x + 1 <= y
    BY <1>2
  <2>2. m * (x + 1) <= m * y
    BY <2>1
  <2> QED
    BY <2>2
<1>3. ~ (p \div m < q)
  BY <1>1, <1>2
<1>4. ~ (q < p \div m)
  BY <1>1, <1>2
<1> QED
  BY <1>1, <1>3, <1>4

LEMMA QuotientOfQuotient ==
  ASSUME NEW p \in Nat, NEW a \in Nat \ {0}, NEW b \in Nat \ {0}
  PROVE  p \div (b * a) = (p \div a) \div b
<1> DEFINE q == p \div a
           r == p % a
           u == q \div b
           v == q % b
<1>1. q \in Nat /\ r \in 0 .. a - 1 /\ p = a * q + r
  OBVIOUS
<1>2. u \in Nat /\ v \in 0 .. b - 1 /\ q = b * u + v
  BY <1>1
<1> HIDE DEF q, r, u, v
<1>3. b * a \in Nat \ {0}
  OBVIOUS
<1>4. p = (b * a) * u + (a * v + r)
  <2>1. p = a * (b * u + v) + r
    BY <1>1, <1>2
  <2>2. a * (b * u + v) = a * (b * u) + a * v
    BY <1>2
  <2>3. a * (b * u) = (b * a) * u
    BY <1>2
  <2> QED
    BY <1>1, <1>2, <2>1, <2>2, <2>3
<1>5. a * v + r >= 0 /\ a * v + r < b * a
  <2>1. v <= b - 1
    BY <1>2
  <2>2. a * v <= a * (b - 1)
    BY <1>2, <2>1
  <2>3. a * (b - 1) = b * a - a
    OBVIOUS
  <2>4. a * v >= 0
    BY <1>2
  <2> QED
    BY <1>1, <1>2, <2>2, <2>3, <2>4
<1>6. p \div (b * a) = u
  <2>1. (b * a) * u <= p /\ p < (b * a) * u + b * a
    BY <1>1, <1>2, <1>3, <1>4, <1>5
  <2> QED
    BY <1>2, <1>3, <2>1, QuotientIs
<1> QED
  BY <1>6 DEF u, q

(* Pages with the same indices are the same.                               *)
LEMMA IndicesIdentify ==
  ASSUME NEW top \in Nat \ {0}, NEW p \in 0 .. Span[top] - 1, NEW q \in 0 .. Span[top] - 1,
         \A level \in 1 .. top : Index(p, level) = Index(q, level)
  PROVE  p = q
<1> DEFINE Same(n) == p \div Span[n] = q \div Span[n]
           S == {k \in Nat : k <= top => Same(top - k)}
<1>1. \A n \in Nat : Span[n] \in Nat \ {0}
  BY SpanIs
<1>2. p \in Nat /\ q \in Nat
  BY <1>1
<1>3. 0 \in S
  <2>1. p < Span[top] /\ q < Span[top] /\ Span[top] \in Nat \ {0}
    BY <1>1
  <2>2. p \div Span[top] = 0 /\ q \div Span[top] = 0
    <3> DEFINE m == Span[top]
    <3>1. m \in Nat \ {0} /\ p < m /\ q < m
      BY <2>1
    <3> HIDE DEF m
    <3>2. m * 0 = 0
      BY <3>1
    <3>3. p \div m = 0 /\ q \div m = 0
      BY <1>2, <3>1, <3>2, QuotientIs
    <3> QED
      BY <3>3 DEF m
  <2> QED
    BY <2>2
<1>4. ASSUME NEW k \in Nat, k \in S PROVE k + 1 \in S
  <2> SUFFICES ASSUME k + 1 <= top PROVE Same(top - (k + 1))
    OBVIOUS
  <2> DEFINE n == top - (k + 1)
  <2>1. n \in Nat /\ top - k = n + 1 /\ n + 1 \in 1 .. top /\ n + 1 - 1 = n /\ k <= top
    OBVIOUS
  <2>2. Same(n + 1)
    BY <1>4, <2>1
  <2> HIDE DEF n
  <2> DEFINE a == Span[n]
  <2>3. a \in Nat \ {0} /\ FANOUT \in Nat \ {0} /\ Span[n + 1] = FANOUT * a
    BY <1>1, <2>1, SpanIs, Constants
  <2>4. (p \div a) \div FANOUT = (q \div a) \div FANOUT
    <3> HIDE DEF a
    <3>1. p \div (FANOUT * a) = q \div (FANOUT * a)
      BY <2>2, <2>3
    <3>2. p \in Nat /\ q \in Nat /\ a \in Nat \ {0} /\ FANOUT \in Nat \ {0}
      BY <1>2, <2>3
    <3>3. p \div (FANOUT * a) = (p \div a) \div FANOUT
      BY <3>2, QuotientOfQuotient
    <3>4. q \div (FANOUT * a) = (q \div a) \div FANOUT
      BY <3>2, QuotientOfQuotient
    <3> QED
      BY <3>1, <3>3, <3>4
  <2>5. (p \div a) % FANOUT = (q \div a) % FANOUT
    BY <2>1 DEF Index
  <2>6. p \div a \in Nat /\ q \div a \in Nat
    BY <1>2, <2>3
  <2>7. ASSUME NEW x \in Nat PROVE x = FANOUT * (x \div FANOUT) + (x % FANOUT)
    BY <2>3
  <2>8. p \div a = q \div a
    <3> HIDE DEF a
    <3> QED
      BY <2>4, <2>5, <2>6, <2>7
  <2> QED
    BY <2>8 DEF n
<1>5. Nat \subseteq S
  <2> HIDE DEF S
  <2> QED
    BY <1>3, <1>4, SetInduction
<1>6. Same(0)
  <2>1. top \in S /\ top - top = 0
    BY <1>5
  <2> QED
    BY <2>1
<1> QED
  BY <1>2, <1>6, SpanIs

LEMMA IndexInTable ==
  ASSUME NEW p \in Nat, NEW level \in Nat \ {0}
  PROVE  Index(p, level) \in 0 .. FANOUT - 1
<1>1. level - 1 \in Nat
  OBVIOUS
<1> DEFINE a == Span[level - 1]
<1>2. a \in Nat \ {0} /\ FANOUT \in Nat \ {0}
  BY <1>1, SpanIs, Constants
<1> HIDE DEF a
<1>3. p \div a \in Nat
  BY <1>2
<1>4. (p \div a) % FANOUT \in 0 .. FANOUT - 1
  BY <1>2, <1>3
<1> QED
  BY <1>4 DEF Index, a

-----------------------------------------------------------------------------
(* The calls of vmm_init.                                                  *)

Elements(s) == {s[k] : k \in 1 .. Len(s)}

LEMMA ElementsOfConcat ==
  ASSUME NEW X, NEW s \in Seq(X), NEW t \in Seq(X)
  PROVE  s \o t \in Seq(X) /\ Elements(s \o t) = Elements(s) \cup Elements(t)
<1>1. /\ s \o t \in Seq(X) /\ Len(s \o t) = Len(s) + Len(t) /\ Len(s) \in Nat /\ Len(t) \in Nat
      /\ \A k \in 1 .. Len(s) + Len(t) :
           (s \o t)[k] = IF k <= Len(s) THEN s[k] ELSE t[k - Len(s)]
  OBVIOUS
<1> DEFINE u == s \o t
<1> HIDE DEF u
<1>2. ASSUME NEW k \in 1 .. Len(u) PROVE u[k] \in Elements(s) \cup Elements(t)
  <2>1. CASE k <= Len(s)
    BY <1>1, <2>1 DEF Elements, u
  <2>2. CASE ~ (k <= Len(s))
    <3>1. k - Len(s) \in 1 .. Len(t)
      BY <1>1, <2>2 DEF u
    <3> QED
      BY <1>1, <2>2, <3>1 DEF Elements, u
  <2> QED
    BY <2>1, <2>2
<1>3. ASSUME NEW k \in 1 .. Len(s) PROVE s[k] \in Elements(u)
  <2>1. k \in 1 .. Len(u) /\ u[k] = s[k]
    BY <1>1 DEF u
  <2> QED
    BY <2>1 DEF Elements
<1>4. ASSUME NEW k \in 1 .. Len(t) PROVE t[k] \in Elements(u)
  <2>1. Len(s) + k \in 1 .. Len(u) /\ ~ (Len(s) + k <= Len(s)) /\ Len(s) + k - Len(s) = k
    BY <1>1 DEF u
  <2>2. u[Len(s) + k] = t[k]
    BY <1>1, <2>1 DEF u
  <2> QED
    BY <2>1, <2>2 DEF Elements
<1> QED
  BY <1>1, <1>2, <1>3, <1>4 DEF Elements, u

LEMMA FlattenIs ==
  ASSUME NEW X, NEW s \in Seq(Seq(X))
  PROVE  /\ FlattenSeq(s) \in Seq(X)
         /\ Elements(FlattenSeq(s)) = UNION {Elements(s[k]) : k \in 1 .. Len(s)}
<1>1. Len(s) \in Nat /\ \A k \in 1 .. Len(s) : s[k] \in Seq(X)
  OBVIOUS
<1>2. CASE Len(s) = 0
  BY <1>2 DEF FlattenSeq, Elements
<1>3. CASE Len(s) # 0
  <2> DEFINE V == Seq(X)
             F == [p \in Nat \X V |-> IF p[1] + 2 <= Len(s) THEN p[2] \o s[p[1] + 2] ELSE p[2]]
  <2>1. ASSUME NEW n \in Nat, NEW t \in V
        PROVE  (IF n + 2 <= Len(s) THEN t \o s[n + 2] ELSE t) \in V
    <3>1. CASE n + 2 <= Len(s)
      <4>1. n + 2 \in 1 .. Len(s)
        BY <1>1, <3>1
      <4> QED
        BY <1>1, <3>1, <4>1, ElementsOfConcat
    <3> QED
      BY <3>1
  <2>2. s[1] \in V /\ F \in [Nat \X V -> V]
    BY <1>1, <1>3, <2>1
  <2>3. \A n \in Nat, t \in V :
          F[<<n, t>>] = IF n + 2 <= Len(s) THEN t \o s[n + 2] ELSE t
    OBVIOUS
  <2> HIDE DEF F, V
  <2>4. PICK f : Iterates(f, V, s[1], F)
    BY <2>2, Recursion
  <2>5. f \in [Nat -> V] /\ f[0] = s[1] /\ \A n \in Nat : f[n + 1] = F[<<n, f[n]>>]
    BY <2>4 DEF Iterates
  <2> DEFINE g == [k \in 1 .. Len(s) |-> f[k - 1]]
             h == CHOOSE x : x = [k \in 1 .. Len(s) |-> IF k = 1 THEN s[k] ELSE x[k - 1] \o s[k]]
  <2>6. ASSUME NEW k \in 1 .. Len(s) PROVE g[k] = IF k = 1 THEN s[k] ELSE g[k - 1] \o s[k]
    <3>1. CASE k = 1
      BY <2>5, <3>1
    <3>2. CASE k # 1
      <4>1. k - 2 \in Nat /\ k - 2 + 1 = k - 1 /\ k - 2 + 2 = k /\ k <= Len(s) /\ k - 1 \in 1 .. Len(s)
            /\ k - 1 - 1 = k - 2
        BY <1>1, <3>2
      <4>2. f[k - 1] = F[<<k - 2, f[k - 2]>>] /\ f[k - 2] \in V
        BY <2>5, <4>1
      <4>3. F[<<k - 2, f[k - 2]>>] = f[k - 2] \o s[k]
        BY <2>3, <4>1, <4>2
      <4> QED
        BY <3>2, <4>1, <4>2, <4>3
    <3> QED
      BY <3>1, <3>2
  <2>7. g = [k \in 1 .. Len(s) |-> IF k = 1 THEN s[k] ELSE g[k - 1] \o s[k]]
    <3>1. g = [k \in 1 .. Len(s) |-> g[k]]
      OBVIOUS
    <3> HIDE DEF g
    <3> QED
      BY <2>6, <3>1
  <2>8. h = [k \in 1 .. Len(s) |-> IF k = 1 THEN s[k] ELSE h[k - 1] \o s[k]]
    <3> HIDE DEF g
    <3> QED
      BY <2>7, Zenon
  <2>9. FlattenSeq(s) = h[Len(s)]
    BY <1>3 DEF FlattenSeq
  <2> HIDE DEF h
  <2>a. \A k \in 1 .. Len(s) : h[k] = IF k = 1 THEN s[k] ELSE h[k - 1] \o s[k]
    BY <2>8, Zenon
  <2> DEFINE S == {n \in Nat : n + 1 <= Len(s) =>
                     /\ h[n + 1] \in Seq(X)
                     /\ Elements(h[n + 1]) = UNION {Elements(s[k]) : k \in 1 .. n + 1}}
  <2>10. 0 \in S
    <3>1. h[0 + 1] = s[1] /\ s[1] \in Seq(X)
      BY <1>1, <1>3, <2>a
    <3>2. UNION {Elements(s[k]) : k \in 1 .. 0 + 1} = Elements(s[1])
      <4>1. 1 .. 0 + 1 = {1}
        OBVIOUS
      <4>2. UNION {Elements(s[k]) : k \in {1}} = Elements(s[1])
        OBVIOUS
      <4> QED
        BY <4>1, <4>2
    <3> QED
      BY <3>1, <3>2
  <2>11. ASSUME NEW n \in Nat, n \in S PROVE n + 1 \in S
    <3> SUFFICES ASSUME n + 1 + 1 <= Len(s)
                 PROVE  /\ h[n + 1 + 1] \in Seq(X)
                        /\ Elements(h[n + 1 + 1]) = UNION {Elements(s[k]) : k \in 1 .. n + 1 + 1}
      OBVIOUS
    <3> DEFINE m == n + 1
    <3>1. m \in Nat /\ m + 1 \in 1 .. Len(s) /\ m + 1 # 1 /\ m + 1 - 1 = m /\ m <= Len(s)
      BY <1>1
    <3>2. h[m] \in Seq(X) /\ Elements(h[m]) = UNION {Elements(s[k]) : k \in 1 .. m}
      BY <2>11, <3>1
    <3> HIDE DEF m
    <3>3. h[m + 1] = h[m] \o s[m + 1] /\ s[m + 1] \in Seq(X)
      <4> DEFINE j == m + 1
      <4>1. j \in 1 .. Len(s) /\ j # 1 /\ j - 1 = m
        BY <3>1
      <4> HIDE DEF j
      <4>2. h[j] = h[j - 1] \o s[j]
        BY <2>a, <4>1
      <4> QED
        BY <1>1, <4>1, <4>2 DEF j
    <3>4. h[m + 1] \in Seq(X) /\ Elements(h[m + 1]) = Elements(h[m]) \cup Elements(s[m + 1])
      BY <3>2, <3>3, ElementsOfConcat
    <3>5. 1 .. m + 1 = (1 .. m) \cup {m + 1}
      BY <3>1
    <3>6. UNION {Elements(s[k]) : k \in (1 .. m) \cup {m + 1}}
            = (UNION {Elements(s[k]) : k \in 1 .. m}) \cup Elements(s[m + 1])
      OBVIOUS
    <3> QED
      BY <3>2, <3>4, <3>5, <3>6 DEF m
  <2>12. Nat \subseteq S
    <3> HIDE DEF S
    <3> QED
      BY <2>10, <2>11, SetInduction
  <2>13. Len(s) - 1 \in S /\ Len(s) - 1 + 1 = Len(s)
    <3> HIDE DEF S
    <3> QED
      BY <1>1, <1>3, <2>12
  <2> QED
    BY <1>1, <2>9, <2>13
<1> QED
  BY <1>2, <1>3

-----------------------------------------------------------------------------
(* Whole pages.                                                            *)

LEMMA QuotientMonotone ==
  ASSUME NEW m \in Nat \ {0}, NEW a \in Nat, NEW b \in Nat, a <= b
  PROVE  a \div m <= b \div m
<1> DEFINE x == a \div m
           y == b \div m
<1>1. /\ x \in Nat /\ y \in Nat /\ a = m * x + (a % m) /\ b = m * y + (b % m)
      /\ a % m \in 0 .. m - 1 /\ b % m \in 0 .. m - 1
  OBVIOUS
<1> HIDE DEF x, y
<1> SUFFICES ASSUME y < x PROVE FALSE
  BY <1>1 DEF x, y
<1>2. y + 1 <= x
  BY <1>1
<1>3. m * (y + 1) <= m * x
  BY <1>1, <1>2
<1>4. m * (y + 1) = m * y + m
  BY <1>1
<1> QED
  BY <1>1, <1>3, <1>4

LEMMA Aligned ==
  /\ \A a \in Nat : align_down(a) \in Nat /\ align_up(a) \in Nat /\ align_up(a) <= align_down(a) + 1
  /\ \A a \in Nat : align_down(a + PAGE_SIZE) = align_down(a) + 1
  /\ \A a, b \in Nat : a <= b => align_down(a) <= align_down(b) /\ align_up(a) <= align_up(b)
<1> DEFINE m == PAGE_SIZE
<1>1. m \in Nat \ {0}
  BY Constants
<1> HIDE DEF m
<1>2. ASSUME NEW a \in Nat PROVE a \div m \in Nat
  BY <1>1
<1>3. ASSUME NEW a \in Nat PROVE (a + m) \div m = (a \div m) + 1
  <2> DEFINE x == a \div m
  <2>1. x \in Nat /\ a = m * x + (a % m) /\ a % m \in 0 .. m - 1
    BY <1>1
  <2> HIDE DEF x
  <2>2. m * (x + 1) = m * x + m
    BY <1>1, <2>1
  <2>3. m * (x + 1) <= a + m /\ a + m < m * (x + 1) + m
    BY <1>1, <2>1, <2>2
  <2>4. x + 1 \in Nat /\ a + m \in Nat
    BY <1>1, <2>1
  <2> QED
    BY <1>1, <2>3, <2>4, QuotientIs DEF x
<1>4. ASSUME NEW a \in Nat
      PROVE  a + m - 1 \in Nat /\ (a + m - 1) \div m \in Nat /\ (a + m - 1) \div m <= (a \div m) + 1
  <2>1. a + m - 1 \in Nat /\ a + m \in Nat /\ a + m - 1 <= a + m
    BY <1>1
  <2> QED
    BY <1>1, <1>2, <1>3, <2>1, QuotientMonotone
<1>5. ASSUME NEW a \in Nat, NEW b \in Nat, a <= b
      PROVE  a \div m <= b \div m /\ (a + m - 1) \div m <= (b + m - 1) \div m
  <2>1. a + m - 1 \in Nat /\ b + m - 1 \in Nat /\ a + m - 1 <= b + m - 1
    BY <1>1, <1>5
  <2> QED
    BY <1>1, <1>5, <2>1, QuotientMonotone
<1> QED
  BY <1>2, <1>3, <1>4, <1>5 DEF align_down, align_up, m

LEMMA ShiftedApart ==
  ASSUME NEW m \in Nat \ {0}, NEW x \in Nat, NEW p \in 0 .. m - 1, NEW q \in 0 .. m - 1,
         (x + p) % m = (x + q) % m
  PROVE  p = q
<1> DEFINE a == (x + p) \div m
           b == (x + q) \div m
           r == (x + p) % m
<1>1. /\ a \in Nat /\ b \in Nat /\ r \in 0 .. m - 1
      /\ x + p = m * a + r /\ x + q = m * b + ((x + q) % m)
  OBVIOUS
<1>2. x + q = m * b + r
  BY <1>1
<1> HIDE DEF a, b, r
<1>3. ASSUME NEW i \in Nat, NEW j \in Nat, i < j PROVE m * i + m <= m * j
  <2>1. i + 1 <= j /\ m * (i + 1) = m * i + m
    BY <1>3
  <2>2. m * (i + 1) <= m * j
    BY <2>1
  <2> QED
    BY <2>1, <2>2
<1>4. ~ (a < b)
  BY <1>1, <1>2, <1>3
<1>5. ~ (b < a)
  BY <1>1, <1>2, <1>3
<1> QED
  BY <1>1, <1>2, <1>4, <1>5

(* What vmm_init finds, and what the boot protocol promises of it.         *)
Inputs ==
  /\ memmap \in Seq([base : Nat, length : Nat]) /\ bitmap \in [base : Nat, length : Nat]
  /\ sizes \in [text : Nat, rodata : Nat, data : Nat] /\ la57_enabled \in BOOLEAN
  /\ InMemory(memmap) \cup InKernel(sizes) \subseteq 0 .. Space - 1
  /\ \A p \in InMemory(memmap), q \in InKernel(sizes) :
       (hhdm_offset + p) % Space # (KernelBase + q) % Space

LEMMA SpaceIs ==
  ASSUME la57_enabled \in BOOLEAN
  PROVE  Levels \in Nat \ {0} /\ Space \in Nat \ {0} /\ Space \in {Span[DEPTH], Span[DEPTH + 1]}
  BY SpanIs, Constants DEF Levels, Space

LEMMA InitInputs == Init => Inputs
<1> SUFFICES ASSUME Init PROVE Inputs
  OBVIOUS
<1>0. PICK m \in MemMaps : \E k \in DOMAIN m :
        /\ m[k].length >= BitmapSize
        /\ memmap = Carve(m, k) /\ bitmap = [base |-> m[k].base, length |-> BitmapSize]
  BY DEF Init
<1>1. PICK k \in DOMAIN m :
        /\ m[k].length >= BitmapSize
        /\ memmap = Carve(m, k) /\ bitmap = [base |-> m[k].base, length |-> BitmapSize]
  BY <1>0
<1>2. sizes \in Sizes /\ la57_enabled \in BOOLEAN /\ sizes \in [text : Nat, rodata : Nat, data : Nat]
  BY VmmAssumption DEF Init
<1>3. m \in Seq([base : Nat, length : Nat]) /\ m[k] \in [base : Nat, length : Nat]
      /\ k \in 1 .. Len(m) /\ BitmapSize \in Nat
  <2>1. m \in Seq([base : Nat, length : Nat])
    BY VmmAssumption
  <2>2. k \in 1 .. Len(m)
    BY <2>1, LenProperties
  <2>3. m[k] \in [base : Nat, length : Nat]
    BY <2>1, <2>2, ElementOfSeq
  <2> QED
    BY <2>1, <2>2, <2>3, Constants
<1> DEFINE e == [base |-> m[k].base + BitmapSize, length |-> m[k].length - BitmapSize]
<1>4. e \in [base : Nat, length : Nat] /\ e.base + e.length = m[k].base + m[k].length
  BY <1>1, <1>3
<1>5. memmap = [m EXCEPT ![k] = e]
  BY <1>1 DEF Carve
<1> HIDE DEF e
<1>6. /\ memmap \in Seq([base : Nat, length : Nat]) /\ DOMAIN memmap = DOMAIN m
      /\ \A j \in DOMAIN m : memmap[j].base + memmap[j].length = m[j].base + m[j].length
  <2>1. memmap \in Seq([base : Nat, length : Nat]) /\ DOMAIN memmap = DOMAIN m
    BY <1>3, <1>4, <1>5, ExceptSeq
  <2>2. ASSUME NEW j \in DOMAIN m PROVE memmap[j] = IF j = k THEN e ELSE m[j]
    BY <1>5
  <2> QED
    BY <1>4, <2>1, <2>2
<1>7. InMemory(memmap) = InMemory(m)
  BY <1>6 DEF InMemory
<1>8. /\ InMemory(m) \cup InKernel(sizes) \subseteq 0 .. Space - 1
      /\ \A p \in InMemory(m), q \in InKernel(sizes) :
           (hhdm_offset + p) % Space # (KernelBase + q) % Space
  BY <1>2, SpaceIs, LayoutAssumption
<1>9. bitmap \in [base : Nat, length : Nat]
  BY <1>1, <1>3
<1> QED
  BY <1>2, <1>6, <1>7, <1>8, <1>9 DEF Inputs

-----------------------------------------------------------------------------
(* Which pages the calls are for.                                          *)
CallSet == [page : 0 .. Space - 1, physical : Nat, flags : SUBSET Memory]

DirectCall(p) == [page |-> (hhdm_offset + p) % Space, physical |-> p, flags |-> Memory]
KernelCall(p, flags) ==
  [page |-> (KernelBase + p) % Space, physical |-> PhysicalBase + p, flags |-> flags]
SectionCalls(s, flags) ==
  {KernelCall(p, flags) : p \in align_down(s.start) .. align_up(s.end) - 1}

LEMMA RemainderInSpace ==
  ASSUME Inputs, NEW x \in Nat
  PROVE  x % Space \in 0 .. Space - 1
<1>1. Space \in Nat \ {0}
  BY SpaceIs DEF Inputs
<1> DEFINE m == Space
<1>2. m \in Nat \ {0}
  BY <1>1
<1> HIDE DEF m
<1>3. x % m \in 0 .. m - 1
  BY <1>2
<1> QED
  BY <1>3 DEF m

LEMMA DirectIs ==
  ASSUME Inputs, NEW first \in Nat, NEW top \in Nat
  PROVE  /\ Direct(first, top) \in Seq(CallSet)
         /\ Elements(Direct(first, top)) = {DirectCall(p) : p \in first .. top - 1}
<1> DEFINE n == Max({top - first, 0})
<1>1. n \in Nat /\ n = IF first <= top THEN top - first ELSE 0
  <2> DEFINE x == top - first
  <2>1. x \in Int /\ (x >= 0 <=> first <= top)
    OBVIOUS
  <2> HIDE DEF x
  <2>2. n \in {x, 0} /\ \A y \in {x, 0} : n >= y
    <3>1. \E z \in {x, 0} : \A y \in {x, 0} : z >= y
      BY <2>1
    <3> QED
      BY <3>1 DEF Max, x
  <2> HIDE DEF n
  <2>3. n = IF x >= 0 THEN x ELSE 0
    BY <2>1, <2>2
  <2> QED
    BY <2>1, <2>3 DEF x
<1> HIDE DEF n
<1> DEFINE s == [k \in 1 .. n |-> DirectCall(first + k - 1)]
<1>2. Direct(first, top) = s
  <2>1. ASSUME NEW k \in 1 .. n
        PROVE  hhdm_offset + first + k - 1 = hhdm_offset + (first + k - 1)
    BY <1>1, Constants
  <2> QED
    BY <2>1 DEF Direct, DirectCall, n
<1>3. ASSUME NEW k \in 1 .. n
      PROVE  first + k - 1 \in first .. top - 1 /\ first + k - 1 \in Nat
  BY <1>1
<1>4. ASSUME NEW p \in Nat PROVE DirectCall(p) \in CallSet
  <2>1. (hhdm_offset + p) % Space \in 0 .. Space - 1
    BY Constants, RemainderInSpace
  <2> QED
    BY <2>1 DEF DirectCall, CallSet
<1>5. s \in Seq(CallSet) /\ Len(s) = n
  BY <1>1, <1>3, <1>4
<1>6. ASSUME NEW p \in first .. top - 1 PROVE DirectCall(p) \in Elements(s)
  <2>1. p - first + 1 \in 1 .. n /\ first + (p - first + 1) - 1 = p
    BY <1>1
  <2>2. s[p - first + 1] = DirectCall(p)
    BY <2>1
  <2> QED
    BY <1>5, <2>1, <2>2 DEF Elements
<1>7. ASSUME NEW k \in 1 .. Len(s) PROVE s[k] \in {DirectCall(p) : p \in first .. top - 1}
  BY <1>3, <1>5
<1> QED
  BY <1>2, <1>5, <1>6, <1>7 DEF Elements

LEMMA SectionIs ==
  ASSUME Inputs, NEW s, s.start \in Nat, s.end \in Nat, s.start <= s.end, NEW flags \in SUBSET Memory
  PROVE  /\ Section(s, flags) \in Seq(CallSet)
         /\ Elements(Section(s, flags)) = SectionCalls(s, flags)
<1> DEFINE first == align_down(s.start)
           top == align_up(s.end)
<1>1. first \in Nat /\ top \in Nat
  BY Aligned
<1>2. align_down(s.start) <= align_up(s.end)
  <2>1. align_up(s.start) <= align_up(s.end) /\ align_down(s.start) <= align_up(s.start)
    <3>1. align_up(s.start) <= align_up(s.end)
      BY Aligned
    <3>2. align_down(s.start) <= align_up(s.start)
      <4>1. s.start <= s.start + PAGE_SIZE - 1 /\ s.start + PAGE_SIZE - 1 \in Nat /\ PAGE_SIZE \in Nat \ {0}
        BY Constants
      <4> QED
        BY <4>1, QuotientMonotone DEF align_down, align_up
    <3> QED
      BY <3>1, <3>2
  <2>2. align_down(s.start) \in Nat /\ align_up(s.start) \in Nat /\ align_up(s.end) \in Nat
    BY Aligned
  <2> HIDE DEF first, top
  <2> QED
    BY <2>1, <2>2
<1>3. Section(s, flags) = [k \in 1 .. top - first |-> KernelCall(first + k - 1, flags)]
  <2>1. ASSUME NEW k \in 1 .. top - first
        PROVE  /\ KernelBase + first + k - 1 = KernelBase + (first + k - 1)
               /\ PhysicalBase + first + k - 1 = PhysicalBase + (first + k - 1)
    BY <1>1, Constants
  <2> QED
    BY <2>1 DEF Section, KernelCall
<1> HIDE DEF first, top
<1> DEFINE t == [k \in 1 .. top - first |-> KernelCall(first + k - 1, flags)]
<1>4. ASSUME NEW k \in 1 .. top - first
      PROVE  first + k - 1 \in first .. top - 1 /\ first + k - 1 \in Nat
  BY <1>1
<1>5. ASSUME NEW p \in Nat PROVE KernelCall(p, flags) \in CallSet
  <2>1. (KernelBase + p) % Space \in 0 .. Space - 1 /\ PhysicalBase + p \in Nat
    BY Constants, RemainderInSpace
  <2> QED
    BY <2>1 DEF KernelCall, CallSet
<1>6. t \in Seq(CallSet) /\ Len(t) = top - first
  <2>1. top - first \in Nat
    BY <1>1, <1>2 DEF first, top
  <2> QED
    BY <1>4, <1>5, <2>1
<1>7. ASSUME NEW p \in first .. top - 1 PROVE KernelCall(p, flags) \in Elements(t)
  <2>1. p - first + 1 \in 1 .. top - first /\ first + (p - first + 1) - 1 = p
    BY <1>1
  <2>2. t[p - first + 1] = KernelCall(p, flags)
    BY <2>1
  <2> QED
    BY <1>6, <2>1, <2>2 DEF Elements
<1>8. ASSUME NEW k \in 1 .. Len(t) PROVE t[k] \in {KernelCall(p, flags) : p \in first .. top - 1}
  BY <1>4, <1>6
<1>9. Elements(t) = {KernelCall(p, flags) : p \in first .. top - 1}
  BY <1>7, <1>8 DEF Elements
<1> HIDE DEF t
<1>10. Section(s, flags) = t
  BY <1>3 DEF t
<1> QED
  BY <1>6, <1>9, <1>10 DEF SectionCalls, first, top

LEMMA SectionsAre ==
  ASSUME Inputs
  PROVE  /\ text.start = 0 /\ text.end = sizes.text
         /\ rodata.start = text.end + PAGE_SIZE /\ rodata.end = rodata.start + sizes.rodata
         /\ data.start = rodata.end + PAGE_SIZE /\ data.end = data.start + sizes.data
         /\ \A s \in {text, rodata, data} : s.start \in Nat /\ s.end \in Nat /\ s.start <= s.end
<1>1. sizes.text \in Nat /\ sizes.rodata \in Nat /\ sizes.data \in Nat /\ PAGE_SIZE \in Nat
  BY Constants DEF Inputs
<1>2. text.start = 0 /\ text.end = sizes.text
  BY DEF text
<1>3. rodata.start = text.end + PAGE_SIZE /\ rodata.end = text.end + PAGE_SIZE + sizes.rodata
  BY DEF rodata, Gap
<1>4. data.start = rodata.end + PAGE_SIZE /\ data.end = rodata.end + PAGE_SIZE + sizes.data
  BY DEF data, Gap
<1> QED
  BY <1>1, <1>2, <1>3, <1>4

(* No page belongs to two sections, and all are in InKernel.               *)
LEMMA SectionsApart ==
  ASSUME Inputs
  PROVE  /\ align_up(text.end) <= align_down(rodata.start)
         /\ align_up(rodata.end) <= align_down(data.start)
         /\ \A s \in {text, rodata, data} :
              align_down(s.start) .. align_up(s.end) - 1 \subseteq InKernel(sizes)
<1>1. align_up(text.end) <= align_down(rodata.start) /\ align_up(rodata.end) <= align_down(data.start)
  BY SectionsAre, Aligned
<1>2. data.end = sizes.text + sizes.rodata + sizes.data + 2 * PAGE_SIZE
  <2>1. sizes.text \in Nat /\ sizes.rodata \in Nat /\ sizes.data \in Nat /\ PAGE_SIZE \in Nat
    BY Constants DEF Inputs
  <2>2. data.end = sizes.text + PAGE_SIZE + sizes.rodata + PAGE_SIZE + sizes.data
    BY SectionsAre
  <2> QED
    BY <2>1, <2>2
<1>3. text.end <= data.end /\ rodata.end <= data.end
  <2>1. sizes.text \in Nat /\ sizes.rodata \in Nat /\ sizes.data \in Nat /\ PAGE_SIZE \in Nat
    BY Constants DEF Inputs
  <2> QED
    BY <2>1, SectionsAre
<1>4. ASSUME NEW s \in {text, rodata, data}
      PROVE  align_down(s.start) .. align_up(s.end) - 1 \subseteq InKernel(sizes)
  <2>1. s.start \in Nat /\ s.end \in Nat /\ s.end <= data.end /\ data.end \in Nat
    BY <1>3, <1>4, SectionsAre
  <2>2. align_down(s.start) \in Nat /\ align_up(s.end) \in Nat /\ align_up(data.end) \in Nat
        /\ align_up(s.end) <= align_up(data.end)
    BY <2>1, Aligned
  <2>3. InKernel(sizes) = 0 .. align_up(data.end) - 1
    BY <1>2 DEF InKernel
  <2> QED
    BY <2>2, <2>3
<1> QED
  BY <1>1, <1>4

LEMMA KernelIs ==
  ASSUME Inputs
  PROVE  /\ Kernel \in Seq(CallSet)
         /\ Elements(Kernel) = SectionCalls(text, {"present"})
              \cup SectionCalls(rodata, {"present", "nx"})
              \cup SectionCalls(data, {"present", "writable", "nx"})
<1> DEFINE t == Section(text, {"present"})
           r == Section(rodata, {"present", "nx"})
           d == Section(data, {"present", "writable", "nx"})
<1>1. t \in Seq(CallSet) /\ Elements(t) = SectionCalls(text, {"present"})
  BY SectionsAre, SectionIs DEF Memory
<1>2. r \in Seq(CallSet) /\ Elements(r) = SectionCalls(rodata, {"present", "nx"})
  BY SectionsAre, SectionIs DEF Memory
<1>3. d \in Seq(CallSet) /\ Elements(d) = SectionCalls(data, {"present", "writable", "nx"})
  BY SectionsAre, SectionIs DEF Memory
<1> HIDE DEF t, r, d
<1> DEFINE tr == t \o r
<1>4. tr \in Seq(CallSet) /\ Elements(tr) = Elements(t) \cup Elements(r)
  BY <1>1, <1>2, ElementsOfConcat
<1>6. Kernel = tr \o d
  BY DEF Kernel, t, r, d
<1> HIDE DEF tr
<1>5. tr \o d \in Seq(CallSet) /\ Elements(tr \o d) = Elements(tr) \cup Elements(d)
  BY <1>3, <1>4, ElementsOfConcat
<1> QED
  BY <1>1, <1>2, <1>3, <1>4, <1>5, <1>6

LEMMA HighIs ==
  ASSUME Inputs, NEW k \in 1 .. Len(memmap)
  PROVE  /\ High(memmap[k]) \in Seq(CallSet)
         /\ Elements(High(memmap[k])) =
              {DirectCall(p) : p \in {q \in PagesOf(memmap[k]) : q >= Low}}
<1> DEFINE e == memmap[k]
           first == Max({align_down(e.base), Low})
           top == align_up(e.base + e.length)
<1>1. e \in [base : Nat, length : Nat]
  BY ElementOfSeq DEF Inputs
<1> HIDE DEF e
<1>2. align_down(e.base) \in Nat /\ top \in Nat /\ Low \in Nat
  <2>1. e.base \in Nat /\ e.base + e.length \in Nat
    BY <1>1
  <2> QED
    BY <2>1, Aligned, Constants
<1>3. first = IF align_down(e.base) >= Low THEN align_down(e.base) ELSE Low
  <2> DEFINE x == align_down(e.base)
  <2>1. x \in Nat /\ Low \in Nat
    BY <1>2
  <2> HIDE DEF x
  <2>2. \E z \in {x, Low} : \A y \in {x, Low} : z >= y
    BY <2>1
  <2>3. Max({x, Low}) \in {x, Low} /\ \A y \in {x, Low} : Max({x, Low}) >= y
    BY <2>2 DEF Max
  <2>4. Max({x, Low}) = IF x >= Low THEN x ELSE Low
    BY <2>1, <2>3
  <2> QED
    BY <2>4 DEF x
<1>4. first .. top - 1 = {q \in PagesOf(e) : q >= Low}
  BY <1>2, <1>3 DEF PagesOf
<1>5. first \in Nat /\ High(e) = Direct(first, top)
  BY <1>2, <1>3 DEF High
<1> HIDE DEF first, top
<1> QED
  BY <1>2, <1>4, <1>5, DirectIs DEF e, top

LEMMA CallsAre ==
  ASSUME Inputs
  PROVE  /\ Calls \in Seq(CallSet)
         /\ Elements(Calls) = {DirectCall(p) : p \in 1 .. Low - 1} \cup Elements(Kernel)
              \cup UNION {{DirectCall(p) : p \in {q \in PagesOf(memmap[k]) : q >= Low}} :
                            k \in 1 .. Len(memmap)}
<1> DEFINE low == Direct(1, Low)
           parts == [k \in 1 .. Len(memmap) |-> High(memmap[k])]
           high == FlattenSeq(parts)
<1>1. low \in Seq(CallSet) /\ Elements(low) = {DirectCall(p) : p \in 1 .. Low - 1}
  BY DirectIs, Constants
<1>2. Len(memmap) \in Nat /\ parts \in Seq(Seq(CallSet)) /\ Len(parts) = Len(memmap)
  <2>1. Len(memmap) \in Nat
    BY LenProperties DEF Inputs
  <2> QED
    BY <2>1, HighIs
<1>3. high \in Seq(CallSet) /\ Elements(high) = UNION {Elements(parts[k]) : k \in 1 .. Len(parts)}
  <2> HIDE DEF parts
  <2> QED
    BY <1>2, FlattenIs
<1>4. {Elements(parts[k]) : k \in 1 .. Len(parts)}
       = {{DirectCall(p) : p \in {q \in PagesOf(memmap[k]) : q >= Low}} : k \in 1 .. Len(memmap)}
  <2>1. ASSUME NEW k \in 1 .. Len(memmap)
        PROVE  Elements(parts[k]) = {DirectCall(p) : p \in {q \in PagesOf(memmap[k]) : q >= Low}}
    BY HighIs
  <2> HIDE DEF parts
  <2> QED
    BY <1>2, <2>1
<1>5. Calls = (low \o Kernel) \o high
  BY DEF Calls
<1> HIDE DEF low, parts, high
<1> DEFINE lower == low \o Kernel
<1>6. lower \in Seq(CallSet) /\ Elements(lower) = Elements(low) \cup Elements(Kernel)
  BY <1>1, KernelIs, ElementsOfConcat
<1>7. Calls = lower \o high
  BY <1>5
<1> HIDE DEF lower
<1>8. lower \o high \in Seq(CallSet) /\ Elements(lower \o high) = Elements(lower) \cup Elements(high)
  BY <1>3, <1>6, ElementsOfConcat
<1> QED
  BY <1>1, <1>3, <1>4, <1>6, <1>7, <1>8

(* Two calls for the same page ask for the same.                           *)
LEMMA CallsAgree ==
  ASSUME Inputs, NEW c \in Elements(Calls), NEW d \in Elements(Calls), c.page = d.page
  PROVE  c = d
<1>1. Space \in Nat \ {0}
  BY SpaceIs DEF Inputs
<1>2. ASSUME NEW x \in Elements(Calls)
      PROVE  (\E p \in InMemory(memmap) : x = DirectCall(p)) \/ x \in Elements(Kernel)
  <2>1. CASE x \in {DirectCall(p) : p \in 1 .. Low - 1}
    BY <2>1, Constants DEF InMemory
  <2>2. CASE x \in Elements(Kernel)
    BY <2>2
  <2>3. ASSUME NEW k \in 1 .. Len(memmap), NEW p \in PagesOf(memmap[k]), p >= Low, x = DirectCall(p)
        PROVE  \E q \in InMemory(memmap) : x = DirectCall(q)
    <3>1. k \in DOMAIN memmap
      BY LenProperties DEF Inputs
    <3>2. p \in 0 .. align_up(memmap[k].base + memmap[k].length) - 1
      BY <2>3, Constants DEF PagesOf
    <3>3. p \in InMemory(memmap)
      BY <3>1, <3>2 DEF InMemory
    <3> QED
      BY <2>3, <3>3
  <2> QED
    BY <2>1, <2>2, <2>3, CallsAre
<1>3. ASSUME NEW x \in Elements(Kernel)
      PROVE  \E p \in InKernel(sizes) : \E flags : x = KernelCall(p, flags)
  BY KernelIs, SectionsApart DEF SectionCalls
<1>4. ASSUME NEW p \in InMemory(memmap), NEW q \in InMemory(memmap),
             DirectCall(p).page = DirectCall(q).page
      PROVE  DirectCall(p) = DirectCall(q)
  <2>1. p \in 0 .. Space - 1 /\ q \in 0 .. Space - 1
    BY DEF Inputs
  <2>2. (hhdm_offset + p) % Space = (hhdm_offset + q) % Space
    BY <1>4 DEF DirectCall
  <2> QED
    BY <1>1, <2>1, <2>2, Constants, ShiftedApart
<1>5. ASSUME NEW p \in InKernel(sizes), NEW q \in InKernel(sizes), NEW f, NEW g,
             KernelCall(p, f).page = KernelCall(q, g).page
      PROVE  p = q
  <2>1. p \in 0 .. Space - 1 /\ q \in 0 .. Space - 1
    BY DEF Inputs
  <2>2. (KernelBase + p) % Space = (KernelBase + q) % Space
    BY <1>5 DEF KernelCall
  <2> QED
    BY <1>1, <2>1, <2>2, Constants, ShiftedApart
<1>6. ASSUME NEW p \in InMemory(memmap), NEW q \in InKernel(sizes), NEW f
      PROVE  DirectCall(p).page # KernelCall(q, f).page
  BY DEF Inputs, DirectCall, KernelCall
<1>7. ASSUME c \in Elements(Kernel), d \in Elements(Kernel)
      PROVE  c = d
  <2> DEFINE Pages(s) == align_down(s.start) .. align_up(s.end) - 1
  <2>1. ASSUME NEW s \in {text, rodata, data}, NEW t \in {text, rodata, data}, NEW f, NEW g,
               c \in SectionCalls(s, f), d \in SectionCalls(t, g)
        PROVE  \E p \in Pages(s) \cap Pages(t) : c = KernelCall(p, f) /\ d = KernelCall(p, g)
    <3>1. PICK p \in Pages(s) : c = KernelCall(p, f)
      BY <2>1 DEF SectionCalls
    <3>2. PICK q \in Pages(t) : d = KernelCall(q, g)
      BY <2>1 DEF SectionCalls
    <3>3. p \in InKernel(sizes) /\ q \in InKernel(sizes)
      BY SectionsApart
    <3>4. p = q
      BY <1>5, <3>1, <3>2, <3>3
    <3> QED
      BY <3>1, <3>2, <3>4
  <2>2. Pages(text) \cap Pages(rodata) = {} /\ Pages(text) \cap Pages(data) = {}
        /\ Pages(rodata) \cap Pages(data) = {}
    <3>1. ASSUME NEW s \in {text, rodata, data}
          PROVE  align_down(s.start) \in Nat /\ align_up(s.end) \in Nat
      BY SectionsAre, Aligned
    <3>2. align_down(rodata.start) <= align_down(data.start)
      <4>1. rodata.start \in Nat /\ data.start \in Nat /\ rodata.start <= data.start
        <5>1. rodata.start \in Nat /\ rodata.end \in Nat /\ rodata.start <= rodata.end
              /\ data.start = rodata.end + PAGE_SIZE /\ PAGE_SIZE \in Nat
          BY SectionsAre, Constants
        <5> QED
          BY <5>1
      <4> QED
        BY <4>1, Aligned
    <3> QED
      BY <3>1, <3>2, SectionsApart
  <2> HIDE DEF Pages
  <2>3. (c \in SectionCalls(text, {"present"}) /\ d \in SectionCalls(text, {"present"}))
        \/ (c \in SectionCalls(rodata, {"present", "nx"}) /\ d \in SectionCalls(rodata, {"present", "nx"}))
        \/ (c \in SectionCalls(data, {"present", "writable", "nx"})
             /\ d \in SectionCalls(data, {"present", "writable", "nx"}))
    BY <1>7, <2>1, <2>2, KernelIs
  <2> QED
    BY <2>1, <2>3
<1> QED
  BY <1>2, <1>3, <1>4, <1>6, <1>7

-----------------------------------------------------------------------------
(* The tree of tables: lv gives each table its level.                      *)
Slots == 0 .. FANOUT - 1
Entries == {Absent} \cup [physical : Nat, flags : SUBSET Memory]

Points(T, lv, u, i, t) ==
  /\ u \in 1 .. Len(T) /\ i \in Slots
  /\ lv[u] > 1 /\ T[u][i] # Absent /\ T[u][i].physical = t

Tree(T, lv, top) ==
  /\ top \in Nat \ {0}
  /\ T \in Seq([Slots -> Entries]) /\ Len(T) >= 1
  /\ lv \in [1 .. Len(T) -> 1 .. top] /\ lv[1] = top
  /\ \A u \in 1 .. Len(T), i \in Slots :
       lv[u] > 1 /\ T[u][i] # Absent =>
         /\ T[u][i].physical \in u + 1 .. Len(T)
         /\ lv[T[u][i].physical] = lv[u] - 1
  /\ \A t \in 2 .. Len(T) : \E u, i : Points(T, lv, u, i, t)
  /\ \A t, u, v, i, j : Points(T, lv, u, i, t) /\ Points(T, lv, v, j, t) => u = v /\ i = j

LevelIn(T, top) ==
  LET level[t \in 1 .. Len(T)] ==
        IF t = 1 THEN top
        ELSE LET up == {u \in 1 .. t - 1 : level[u] > 1 /\ \E index \in 0 .. FANOUT - 1 :
                          T[u][index] # Absent /\ T[u][index].physical = t}
             IN  IF up = {} THEN 0 ELSE level[Max(up)] - 1
  IN  level

LEMMA MaxOfOne ==
  ASSUME NEW x \in Nat
  PROVE  Max({x}) = x
<1>1. \E z \in {x} : \A y \in {x} : z >= y
  OBVIOUS
<1> QED
  BY <1>1 DEF Max

(* There is only one way to give the tables levels.                        *)
LEMMA LevelInIs ==
  ASSUME NEW T, NEW lv, NEW top, Tree(T, lv, top)
  PROVE  LevelIn(T, top) = lv
<1> DEFINE Up(l, t) == {u \in 1 .. t - 1 : l[u] > 1 /\ \E index \in 0 .. FANOUT - 1 :
                          T[u][index] # Absent /\ T[u][index].physical = t}
           Level(l, t) == IF t = 1 THEN top ELSE IF Up(l, t) = {} THEN 0 ELSE l[Max(Up(l, t))] - 1
<1>1. Len(T) \in Nat /\ Len(T) >= 1
  BY DEF Tree
<1>2. ASSUME NEW t \in 2 .. Len(T)
      PROVE  \E u \in 1 .. t - 1 : Up(lv, t) = {u} /\ lv[u] \in Nat /\ lv[t] = lv[u] - 1
  <2>1. PICK u, i : Points(T, lv, u, i, t)
    BY DEF Tree
  <2>2. u \in 1 .. Len(T) /\ i \in Slots /\ lv[u] > 1 /\ T[u][i] # Absent /\ T[u][i].physical = t
    BY <2>1 DEF Points
  <2>3. t \in u + 1 .. Len(T) /\ lv[t] = lv[u] - 1 /\ lv[u] \in 1 .. top /\ top \in Nat
    BY <2>2 DEF Tree
  <2>4. u \in 1 .. t - 1
    BY <2>2, <2>3, <1>1
  <2>5. u \in Up(lv, t)
    BY <2>2, <2>4 DEF Slots
  <2>6. ASSUME NEW v \in Up(lv, t) PROVE v = u
    <3>1. PICK j \in Slots : v \in 1 .. t - 1 /\ lv[v] > 1 /\ T[v][j] # Absent /\ T[v][j].physical = t
      BY DEF Slots
    <3>2. v \in 1 .. Len(T)
      BY <1>1, <3>1
    <3>3. Points(T, lv, v, j, t)
      BY <3>1, <3>2 DEF Points
    <3> QED
      BY <2>1, <3>3 DEF Tree
  <2>7. Up(lv, t) = {u}
    <3> HIDE DEF Up
    <3> QED
      BY <2>5, <2>6
  <2>8. lv[u] \in Nat
    BY <2>3
  <2> HIDE DEF Up
  <2> QED
    BY <2>3, <2>4, <2>7, <2>8
<1>3. lv = [t \in 1 .. Len(T) |-> Level(lv, t)]
  <2>1. lv = [t \in 1 .. Len(T) |-> lv[t]]
    BY DEF Tree
  <2>2. ASSUME NEW t \in 1 .. Len(T) PROVE lv[t] = Level(lv, t)
    <3>1. CASE t = 1
      BY <3>1 DEF Tree
    <3>2. CASE t # 1
      <4>1. t \in 2 .. Len(T)
        BY <1>1, <3>2
      <4>2. PICK u \in 1 .. t - 1 : Up(lv, t) = {u} /\ lv[t] = lv[u] - 1
        BY <1>2, <4>1
      <4>3. Max({u}) = u
        BY <4>1, MaxOfOne
      <4> HIDE DEF Up
      <4> QED
        BY <3>2, <4>2, <4>3
    <3> QED
      BY <3>1, <3>2
  <2> HIDE DEF Level
  <2> QED
    BY <2>1, <2>2
<1> DEFINE L == LevelIn(T, top)
<1>4. L = [t \in 1 .. Len(T) |-> Level(L, t)]
  BY <1>3, Zenon DEF LevelIn
<1> HIDE DEF L
<1>5. \A t \in 1 .. Len(T) : L[t] = Level(L, t)
  <2> HIDE DEF Level
  <2> QED
    BY <1>4
<1> DEFINE S == {n \in Nat : \A t \in 1 .. Len(T) : t <= n => L[t] = lv[t]}
<1>6. 0 \in S
  BY <1>1
<1>7. ASSUME NEW n \in Nat, n \in S PROVE n + 1 \in S
  <2> SUFFICES ASSUME NEW t \in 1 .. Len(T), t = n + 1 PROVE L[t] = lv[t]
    BY <1>1, <1>7
  <2>1. CASE t = 1
    BY <1>5, <2>1 DEF Tree
  <2>2. CASE t # 1
    <3>1. t \in 2 .. Len(T)
      BY <1>1, <2>2
    <3>2. PICK u \in 1 .. t - 1 : Up(lv, t) = {u} /\ lv[t] = lv[u] - 1
      BY <1>2, <3>1
    <3>3. \A v \in 1 .. t - 1 : L[v] = lv[v]
      BY <1>1, <1>7
    <3>4. Up(L, t) = Up(lv, t)
      BY <3>3
    <3>5. Max({u}) = u
      BY <3>1, MaxOfOne
    <3>6. L[t] = Level(L, t)
      <4> HIDE DEF Level
      <4> QED
        BY <1>5
    <3> HIDE DEF Up
    <3> QED
      BY <2>2, <3>2, <3>3, <3>4, <3>5, <3>6
  <2> QED
    BY <2>1, <2>2
<1>8. Nat \subseteq S
  <2> HIDE DEF S
  <2> QED
    BY <1>6, <1>7, SetInduction
<1>9. ASSUME NEW t \in 1 .. Len(T) PROVE L[t] = lv[t]
  <2>1. Len(T) \in S
    BY <1>1, <1>8
  <2> QED
    BY <1>1, <2>1
<1>10. L = [t \in 1 .. Len(T) |-> L[t]]
  <2> HIDE DEF Level
  <2> QED
    BY <1>4
<1> QED
  BY <1>9, <1>10 DEF L, Tree

-----------------------------------------------------------------------------
(* The walk of the processor: the table it reads at each level for a page, *)
(* 0 where it has found an entry that is absent.                           *)
Following(T, page, g, level) ==
  IF g[level + 1] = 0 THEN 0
  ELSE LET entry == T[g[level + 1]][Index(page, level + 1)]
       IN  IF entry = Absent THEN 0 ELSE entry.physical

WalkIn(T, top, page) ==
  LET pml[level \in 1 .. top] ==
        IF level = top THEN 1
        ELSE IF pml[level + 1] = 0 THEN 0
        ELSE LET entry == T[pml[level + 1]][Index(page, level + 1)]
             IN  IF entry = Absent THEN 0 ELSE entry.physical
  IN  pml

TranslateIn(T, top, page) ==
  IF WalkIn(T, top, page)[1] = 0 THEN Absent ELSE T[WalkIn(T, top, page)[1]][Index(page, 1)]

IsWalk(g, T, top, page) ==
  g = [level \in 1 .. top |-> IF level = top THEN 1 ELSE Following(T, page, g, level)]

OnLevels(g, top) == g = [level \in 1 .. top |-> g[level]]

LEMMA IsWalkElements ==
  ASSUME NEW T, NEW top \in Nat \ {0}, NEW page, NEW g, IsWalk(g, T, top, page)
  PROVE  /\ OnLevels(g, top) /\ g[top] = 1
         /\ \A level \in 1 .. top - 1 : g[level] = Following(T, page, g, level)
<1> DEFINE R(level) == IF level = top THEN 1 ELSE Following(T, page, g, level)
<1>1. g = [level \in 1 .. top |-> R(level)]
  BY Zenon DEF IsWalk
<1> HIDE DEF R
<1>2. g = [level \in 1 .. top |-> g[level]] /\ \A level \in 1 .. top : g[level] = R(level)
  BY <1>1
<1>3. top \in 1 .. top /\ \A level \in 1 .. top - 1 : level \in 1 .. top /\ level # top
  OBVIOUS
<1> QED
  BY <1>2, <1>3 DEF OnLevels, R

LEMMA ElementsAreWalk ==
  ASSUME NEW T, NEW top \in Nat \ {0}, NEW page, NEW g,
         OnLevels(g, top), g[top] = 1,
         \A level \in 1 .. top - 1 : g[level] = Following(T, page, g, level)
  PROVE  IsWalk(g, T, top, page)
<1> DEFINE R(level) == IF level = top THEN 1 ELSE Following(T, page, g, level)
<1>1. ASSUME NEW level \in 1 .. top PROVE g[level] = R(level)
  <2>1. CASE level = top
    BY <2>1
  <2>2. CASE level # top
    <3>1. level \in 1 .. top - 1
      BY <2>2
    <3> QED
      BY <2>2, <3>1
  <2> QED
    BY <2>1, <2>2
<1> HIDE DEF R
<1>2. g = [level \in 1 .. top |-> R(level)]
  BY <1>1 DEF OnLevels
<1> QED
  BY <1>2 DEF IsWalk, R

LEMMA OneWalk ==
  ASSUME NEW T, NEW top \in Nat \ {0}, NEW page, NEW g, NEW h,
         IsWalk(g, T, top, page), IsWalk(h, T, top, page)
  PROVE  g = h
<1>1. /\ OnLevels(g, top) /\ g[top] = 1
      /\ \A level \in 1 .. top - 1 : g[level] = Following(T, page, g, level)
  BY IsWalkElements
<1>2. /\ OnLevels(h, top) /\ h[top] = 1
      /\ \A level \in 1 .. top - 1 : h[level] = Following(T, page, h, level)
  BY IsWalkElements
<1> DEFINE S == {n \in Nat : n < top => g[top - n] = h[top - n]}
<1>3. 0 \in S
  BY <1>1, <1>2
<1>4. ASSUME NEW n \in Nat, n \in S PROVE n + 1 \in S
  <2> SUFFICES ASSUME n + 1 < top PROVE g[top - (n + 1)] = h[top - (n + 1)]
    OBVIOUS
  <2> DEFINE level == top - (n + 1)
  <2>1. level \in 1 .. top - 1 /\ level + 1 = top - n /\ n < top
    OBVIOUS
  <2>2. g[level + 1] = h[level + 1]
    BY <1>4, <2>1
  <2> HIDE DEF level
  <2>3. g[level] = h[level]
    BY <1>1, <1>2, <2>1, <2>2 DEF Following
  <2> QED
    BY <2>3 DEF level
<1>5. Nat \subseteq S
  <2> HIDE DEF S
  <2> QED
    BY <1>3, <1>4, SetInduction
<1>6. ASSUME NEW level \in 1 .. top PROVE g[level] = h[level]
  <2>1. top - level \in S /\ top - level < top /\ top - (top - level) = level
    BY <1>5
  <2> QED
    BY <2>1
<1> QED
  BY <1>1, <1>2, <1>6 DEF OnLevels

(* In a tree every page has a walk, and it goes down level by level.       *)
LEMMA WalkExists ==
  ASSUME NEW T, NEW lv, NEW top, Tree(T, lv, top), NEW page \in Nat
  PROVE  \E g : /\ IsWalk(g, T, top, page)
                /\ \A level \in 1 .. top :
                     /\ g[level] \in 0 .. Len(T)
                     /\ g[level] # 0 => lv[g[level]] = level
<1> DEFINE V == 0 .. Len(T)
           Here(n, u) == u # 0 /\ lv[u] = top - n /\ lv[u] > 1 /\ T[u][Index(page, top - n)] # Absent
           F == [p \in Nat \X V |-> IF Here(p[1], p[2]) THEN T[p[2]][Index(page, top - p[1])].physical ELSE 0]
<1>1. Len(T) \in Nat /\ Len(T) >= 1 /\ top \in Nat \ {0}
  BY DEF Tree
<1>2. ASSUME NEW n \in Nat, NEW u \in V, Here(n, u)
      PROVE  /\ u \in 1 .. Len(T) /\ Index(page, top - n) \in Slots /\ top - n \in Nat \ {0}
             /\ T[u][Index(page, top - n)].physical \in 1 .. Len(T)
             /\ lv[T[u][Index(page, top - n)].physical] = top - n - 1
  <2>1. u \in 1 .. Len(T)
    BY <1>1, <1>2
  <2>2. lv[u] \in 1 .. top
    BY <2>1 DEF Tree
  <2>3. top - n \in Nat \ {0}
    BY <1>1, <1>2, <2>2
  <2>4. Index(page, top - n) \in Slots
    BY <2>3, IndexInTable DEF Slots
  <2> DEFINE i == Index(page, top - n)
  <2> HIDE DEF i
  <2>5. T[u][i].physical \in u + 1 .. Len(T) /\ lv[T[u][i].physical] = lv[u] - 1
    BY <1>2, <2>1, <2>4 DEF Tree, i
  <2>6. T[u][i].physical \in 1 .. Len(T) /\ lv[T[u][i].physical] = top - n - 1
    BY <1>1, <1>2, <2>1, <2>5
  <2> QED
    BY <2>1, <2>3, <2>4, <2>6 DEF i
<1>3. 1 \in V /\ F \in [Nat \X V -> V]
  <2>1. ASSUME NEW n \in Nat, NEW u \in V
        PROVE  (IF Here(n, u) THEN T[u][Index(page, top - n)].physical ELSE 0) \in V
    <3>1. CASE Here(n, u)
      <4>1. T[u][Index(page, top - n)].physical \in 1 .. Len(T)
        BY <1>2, <3>1
      <4> QED
        BY <1>1, <3>1, <4>1
    <3>2. CASE ~ Here(n, u)
      BY <1>1, <3>2
    <3> QED
      BY <3>1, <3>2
  <2>2. 1 \in V
    BY <1>1
  <2> HIDE DEF Here, V
  <2> QED
    BY <2>1, <2>2
<1>4. \A n \in Nat, u \in V :
        F[<<n, u>>] = IF Here(n, u) THEN T[u][Index(page, top - n)].physical ELSE 0
  OBVIOUS
<1> HIDE DEF F, Here, V
<1>5. PICK f : Iterates(f, V, 1, F)
  BY <1>3, Recursion
<1>6. f \in [Nat -> V] /\ f[0] = 1 /\ \A n \in Nat : f[n + 1] = F[<<n, f[n]>>]
  BY <1>5 DEF Iterates
<1>7. \A n \in Nat : f[n + 1] = IF Here(n, f[n]) THEN T[f[n]][Index(page, top - n)].physical ELSE 0
  BY <1>4, <1>6
<1> DEFINE S == {n \in Nat : f[n] # 0 => lv[f[n]] = top - n}
<1>8. 0 \in S
  BY <1>1, <1>6 DEF Tree
<1>9. ASSUME NEW n \in Nat, n \in S PROVE n + 1 \in S
  <2> SUFFICES ASSUME f[n + 1] # 0 PROVE lv[f[n + 1]] = top - (n + 1)
    OBVIOUS
  <2>1. Here(n, f[n]) /\ f[n + 1] = T[f[n]][Index(page, top - n)].physical
    BY <1>7
  <2>2. lv[f[n + 1]] = top - n - 1
    BY <1>2, <1>6, <2>1
  <2> QED
    BY <1>1, <2>2
<1>10. Nat \subseteq S
  <2> HIDE DEF S
  <2> QED
    BY <1>8, <1>9, SetInduction
<1> DEFINE g == [level \in 1 .. top |-> f[top - level]]
<1>11. ASSUME NEW level \in 1 .. top
       PROVE  g[level] \in 0 .. Len(T) /\ (g[level] # 0 => lv[g[level]] = level)
  <2>1. top - level \in Nat /\ top - (top - level) = level
    BY <1>1
  <2>2. f[top - level] \in V /\ (f[top - level] # 0 => lv[f[top - level]] = top - (top - level))
    BY <1>6, <1>10, <2>1
  <2> QED
    BY <2>1, <2>2 DEF V
<1>12. ASSUME NEW level \in 1 .. top - 1 PROVE g[level] = Following(T, page, g, level)
  <2> DEFINE n == top - (level + 1)
  <2>1. /\ n \in Nat /\ n + 1 = top - level /\ top - n = level + 1 /\ level + 1 \in 1 .. top
        /\ level \in 1 .. top /\ level + 1 > 1
    BY <1>1
  <2> HIDE DEF n
  <2>2. g[level] = f[n + 1] /\ g[level + 1] = f[n]
    BY <2>1 DEF n
  <2>3. f[n] # 0 => lv[f[n]] = level + 1
    BY <1>10, <2>1
  <2>4. Here(n, f[n]) <=> f[n] # 0 /\ T[f[n]][Index(page, level + 1)] # Absent
    BY <2>1, <2>3 DEF Here
  <2>5. f[n + 1] = IF Here(n, f[n]) THEN T[f[n]][Index(page, level + 1)].physical ELSE 0
    BY <1>7, <2>1
  <2> HIDE DEF g
  <2> QED
    BY <2>2, <2>4, <2>5 DEF Following
<1>13. g[top] = 1 /\ OnLevels(g, top)
  BY <1>1, <1>6 DEF OnLevels
<1> HIDE DEF g
<1>14. IsWalk(g, T, top, page)
  BY <1>1, <1>12, <1>13, ElementsAreWalk
<1> QED
  BY <1>11, <1>14

LEMMA WalkInIs ==
  ASSUME NEW T, NEW top \in Nat \ {0}, NEW page, NEW g, IsWalk(g, T, top, page)
  PROVE  WalkIn(T, top, page) = g
<1> DEFINE h == WalkIn(T, top, page)
<1>1. IsWalk(h, T, top, page)
  BY Zenon DEF WalkIn, IsWalk, Following
<1> HIDE DEF h
<1>2. h = g
  BY <1>1, OneWalk
<1> QED
  BY <1>2 DEF h

LEMMA WalkIs ==
  ASSUME NEW T, NEW lv, NEW top, Tree(T, lv, top), NEW page \in Nat
  PROVE  \E W : /\ W = WalkIn(T, top, page) /\ OnLevels(W, top) /\ W[top] = 1
                /\ \A level \in 1 .. top - 1 : W[level] = Following(T, page, W, level)
                /\ \A level \in 1 .. top :
                     W[level] \in 0 .. Len(T) /\ (W[level] # 0 => lv[W[level]] = level)
<1>1. top \in Nat \ {0}
  BY DEF Tree
<1>2. PICK g : /\ IsWalk(g, T, top, page)
               /\ \A level \in 1 .. top :
                    g[level] \in 0 .. Len(T) /\ (g[level] # 0 => lv[g[level]] = level)
  BY WalkExists
<1>3. WalkIn(T, top, page) = g
  BY <1>1, <1>2, WalkInIs
<1>4. /\ OnLevels(g, top) /\ g[top] = 1
      /\ \A level \in 1 .. top - 1 : g[level] = Following(T, page, g, level)
  BY <1>1, <1>2, IsWalkElements
<1> QED
  BY <1>2, <1>3, <1>4

(* What a level of a walk says of the next one up.                         *)
LEMMA WalkUp ==
  ASSUME NEW T, NEW lv, NEW top, Tree(T, lv, top), NEW page \in Nat,
         NEW level \in 1 .. top - 1, WalkIn(T, top, page)[level] # 0
  PROVE  Points(T, lv, WalkIn(T, top, page)[level + 1], Index(page, level + 1), WalkIn(T, top, page)[level])
<1>1. top \in Nat \ {0} /\ level + 1 \in 1 .. top /\ level + 1 \in Nat \ {0} /\ level + 1 > 1 /\ Len(T) \in Nat
  BY DEF Tree
<1>2. PICK W : /\ W = WalkIn(T, top, page)
               /\ \A l \in 1 .. top - 1 : W[l] = Following(T, page, W, l)
               /\ \A l \in 1 .. top : W[l] \in 0 .. Len(T) /\ (W[l] # 0 => lv[W[l]] = l)
  BY WalkIs
<1>3. W[level] = Following(T, page, W, level)
  BY <1>2
<1>4. /\ W[level + 1] # 0 /\ T[W[level + 1]][Index(page, level + 1)] # Absent
      /\ T[W[level + 1]][Index(page, level + 1)].physical = W[level]
  BY <1>2, <1>3 DEF Following
<1>5. W[level + 1] \in 1 .. Len(T) /\ Index(page, level + 1) \in Slots
  <2>1. W[level + 1] \in 1 .. Len(T)
    BY <1>1, <1>2, <1>4
  <2>2. Index(page, level + 1) \in Slots
    BY <1>1, IndexInTable DEF Slots
  <2> QED
    BY <2>1, <2>2
<1> QED
  BY <1>1, <1>2, <1>4, <1>5 DEF Points

(* Two pages with the same last table and the same index in it are the     *)
(* same.                                                                   *)
LEMMA WalksMeet ==
  ASSUME NEW T, NEW lv, NEW top, Tree(T, lv, top),
         NEW p \in 0 .. Span[top] - 1, NEW q \in 0 .. Span[top] - 1,
         WalkIn(T, top, p)[1] # 0, WalkIn(T, top, p)[1] = WalkIn(T, top, q)[1],
         Index(p, 1) = Index(q, 1)
  PROVE  p = q
<1> DEFINE P == WalkIn(T, top, p)
           Q == WalkIn(T, top, q)
           S == {n \in Nat : n + 1 <= top =>
                   P[n + 1] # 0 /\ P[n + 1] = Q[n + 1] /\ Index(p, n + 1) = Index(q, n + 1)}
<1>1. top \in Nat \ {0} /\ p \in Nat /\ q \in Nat
  BY SpanIs DEF Tree
<1>2. 0 \in S
  OBVIOUS
<1>3. ASSUME NEW n \in Nat, n \in S PROVE n + 1 \in S
  <2> SUFFICES ASSUME n + 1 + 1 <= top
               PROVE  /\ P[n + 1 + 1] # 0 /\ P[n + 1 + 1] = Q[n + 1 + 1]
                      /\ Index(p, n + 1 + 1) = Index(q, n + 1 + 1)
    OBVIOUS
  <2> DEFINE level == n + 1
  <2>1. level \in 1 .. top - 1 /\ level <= top
    BY <1>1
  <2>2. P[level] # 0 /\ P[level] = Q[level]
    BY <1>3, <2>1
  <2> HIDE DEF level
  <2>3. Points(T, lv, P[level + 1], Index(p, level + 1), P[level])
    BY <1>1, <2>1, <2>2, WalkUp
  <2>4. Points(T, lv, Q[level + 1], Index(q, level + 1), P[level])
    BY <1>1, <2>1, <2>2, WalkUp
  <2> HIDE DEF P, Q
  <2>5. P[level + 1] = Q[level + 1] /\ Index(p, level + 1) = Index(q, level + 1)
    BY <2>3, <2>4 DEF Tree
  <2>6. P[level + 1] # 0
    BY <2>3 DEF Points
  <2> QED
    BY <2>5, <2>6 DEF level
<1>4. Nat \subseteq S
  <2> HIDE DEF S
  <2> QED
    BY <1>2, <1>3, SetInduction
<1>5. ASSUME NEW level \in 1 .. top PROVE Index(p, level) = Index(q, level)
  <2>1. level - 1 \in S /\ level - 1 + 1 = level /\ level <= top
    BY <1>1, <1>4
  <2> QED
    BY <2>1
<1> QED
  BY <1>1, <1>5, IndicesIdentify

-----------------------------------------------------------------------------
(* What a write to a table changes.                                        *)
Written(N, T, u, i, e) ==
  /\ N \in Seq([Slots -> Entries]) /\ Len(N) = Len(T)
  /\ \A v \in 1 .. Len(T), j \in Slots : N[v][j] = IF v = u /\ j = i THEN e ELSE T[v][j]

LEMMA PutEntryIs ==
  ASSUME NEW T \in Seq([Slots -> Entries]), NEW u \in 1 .. Len(T), NEW i \in Slots, NEW e \in Entries
  PROVE  Written(PutEntry(T, u, i, e), T, u, i, e)
<1>1. T[u] \in [Slots -> Entries]
  BY ElementOfSeq
<1> DEFINE t == [T[u] EXCEPT ![i] = e]
<1>2. t \in [Slots -> Entries] /\ \A j \in Slots : t[j] = IF j = i THEN e ELSE T[u][j]
  BY <1>1
<1>3. PutEntry(T, u, i, e) = [T EXCEPT ![u] = t]
  BY DEF PutEntry
<1> HIDE DEF t
<1>4. [T EXCEPT ![u] = t] \in Seq([Slots -> Entries]) /\ Len([T EXCEPT ![u] = t]) = Len(T)
      /\ \A v \in 1 .. Len(T) : [T EXCEPT ![u] = t][v] = IF v = u THEN t ELSE T[v]
  BY <1>2, ExceptSeq
<1> DEFINE N == [T EXCEPT ![u] = t]
<1> HIDE DEF N
<1>5. Written(N, T, u, i, e)
  <2>1. /\ N \in Seq([Slots -> Entries]) /\ Len(N) = Len(T)
        /\ \A v \in 1 .. Len(T) : N[v] = IF v = u THEN t ELSE T[v]
    BY <1>4 DEF N
  <2>2. \A v \in 1 .. Len(T), j \in Slots : N[v][j] = IF v = u /\ j = i THEN e ELSE T[v][j]
    BY <1>2, <2>1
  <2> QED
    BY <2>1, <2>2 DEF Written
<1> QED
  BY <1>3, <1>5 DEF N

(* Walks read only the tables above the lowest level.                      *)
LEMMA SameWalk ==
  ASSUME NEW T, NEW lv, NEW top, Tree(T, lv, top), NEW N, NEW page \in Nat,
         \A v \in 1 .. Len(T), j \in Slots : lv[v] > 1 => N[v][j] = T[v][j]
  PROVE  WalkIn(N, top, page) = WalkIn(T, top, page)
<1>0. Len(T) \in Nat /\ top \in Nat \ {0}
  BY DEF Tree
<1>1. PICK W : /\ W = WalkIn(T, top, page) /\ OnLevels(W, top) /\ W[top] = 1
               /\ \A level \in 1 .. top - 1 : W[level] = Following(T, page, W, level)
               /\ \A level \in 1 .. top : W[level] \in 0 .. Len(T) /\ (W[level] # 0 => lv[W[level]] = level)
  BY WalkIs
<1>3. ASSUME NEW level \in 1 .. top - 1
      PROVE  Following(N, page, W, level) = Following(T, page, W, level)
  <2>1. level + 1 \in 1 .. top /\ level + 1 \in Nat \ {0} /\ level + 1 > 1
    BY <1>0
  <2>2. Index(page, level + 1) \in Slots
    BY <2>1, IndexInTable DEF Slots
  <2>3. CASE W[level + 1] = 0
    BY <2>3 DEF Following
  <2>4. CASE W[level + 1] # 0
    <3>1. W[level + 1] \in 1 .. Len(T) /\ lv[W[level + 1]] > 1
      BY <1>0, <1>1, <2>1, <2>4
    <3>2. N[W[level + 1]][Index(page, level + 1)] = T[W[level + 1]][Index(page, level + 1)]
      BY <2>2, <3>1
    <3> QED
      BY <3>2 DEF Following
  <2> QED
    BY <2>3, <2>4
<1>4. IsWalk(W, N, top, page)
  BY <1>0, <1>1, <1>3, ElementsAreWalk
<1> QED
  BY <1>0, <1>1, <1>4, WalkInIs

(* An entry of a table of the lowest level: no walk changes.               *)
LEMMA LeafWritten ==
  ASSUME NEW T, NEW lv, NEW top, Tree(T, lv, top),
         NEW u \in 1 .. Len(T), lv[u] = 1, NEW i \in Slots, NEW e \in Entries
  PROVE  /\ Tree(PutEntry(T, u, i, e), lv, top)
         /\ \A page \in Nat : WalkIn(PutEntry(T, u, i, e), top, page) = WalkIn(T, top, page)
<1> DEFINE N == PutEntry(T, u, i, e)
<1>1. T \in Seq([Slots -> Entries]) /\ Len(T) \in Nat /\ top \in Nat \ {0}
  BY DEF Tree
<1>2. /\ N \in Seq([Slots -> Entries]) /\ Len(N) = Len(T)
      /\ \A v \in 1 .. Len(T), j \in Slots : N[v][j] = IF v = u /\ j = i THEN e ELSE T[v][j]
  <2>1. Written(PutEntry(T, u, i, e), T, u, i, e)
    BY <1>1, PutEntryIs
  <2> QED
    BY <2>1, Zenon DEF Written
<1> HIDE DEF N
<1>3. \A v \in 1 .. Len(T), j \in Slots : lv[v] > 1 => N[v][j] = T[v][j]
  BY <1>2
<1>4. \A v, j, t : Points(N, lv, v, j, t) <=> Points(T, lv, v, j, t)
  BY <1>2, <1>3 DEF Points
<1>5. Tree(N, lv, top)
  <2>1. \A v \in 1 .. Len(N), j \in Slots :
          lv[v] > 1 /\ N[v][j] # Absent =>
            N[v][j].physical \in v + 1 .. Len(N) /\ lv[N[v][j].physical] = lv[v] - 1
    BY <1>2, <1>3 DEF Tree
  <2>2. \A t \in 2 .. Len(N) : \E v, j : Points(N, lv, v, j, t)
    BY <1>2, <1>4 DEF Tree
  <2>3. \A t, v, w, j, k : Points(N, lv, v, j, t) /\ Points(N, lv, w, k, t) => v = w /\ j = k
    BY <1>4 DEF Tree
  <2> QED
    BY <1>2, <2>1, <2>2, <2>3 DEF Tree
<1>6. \A page \in Nat : WalkIn(N, top, page) = WalkIn(T, top, page)
  BY <1>3, SameWalk
<1> QED
  BY <1>5, <1>6 DEF N

(* A new table under an entry that was absent: what the pages below are    *)
(* mapped to does not change, and their walks find the table.              *)
NewTable(T) == Len(T) + 1
NewEntry(T) == [physical |-> NewTable(T), flags |-> {"present", "writable"}]
AddTable(T, u, i) == Append(PutEntry(T, u, i, NewEntry(T)), Empty)
AddLevel(T, lv, u) == [t \in 1 .. NewTable(T) |-> IF t = NewTable(T) THEN lv[u] - 1 ELSE lv[t]]
Below(T, lv, top, u, i, page, level) ==
  level = lv[u] - 1 /\ WalkIn(T, top, page)[level + 1] = u /\ Index(page, level + 1) = i

Added(N, T, u, i) ==
  /\ N \in Seq([Slots -> Entries]) /\ Len(N) = NewTable(T)
  /\ N[u][i] = NewEntry(T)
  /\ \A v \in 1 .. Len(T), j \in Slots : ~ (v = u /\ j = i) => N[v][j] = T[v][j]
  /\ \A j \in Slots : N[NewTable(T)][j] = Absent

(* What one element more makes of a sequence.                              *)
LEMMA AppendIs ==
  ASSUME NEW S, NEW s \in Seq(S), NEW e \in S
  PROVE  /\ Append(s, e) \in Seq(S) /\ Len(Append(s, e)) = Len(s) + 1
         /\ \A v \in 1 .. Len(s) : Append(s, e)[v] = s[v]
         /\ Append(s, e)[Len(s) + 1] = e
  OBVIOUS

LEMMA AddTableIs ==
  ASSUME NEW T \in Seq([Slots -> Entries]), NEW u \in 1 .. Len(T), NEW i \in Slots
  PROVE  Added(AddTable(T, u, i), T, u, i)
<1> DEFINE e == NewEntry(T)
<1>1. Len(T) \in Nat /\ e \in Entries /\ NewTable(T) \in Nat
  <2>1. Len(T) \in Nat
    BY LenProperties
  <2> QED
    BY <2>1 DEF Entries, Memory, NewTable, NewEntry
<1>2. AddTable(T, u, i) = Append(PutEntry(T, u, i, e), Empty)
  BY DEF AddTable
<1> HIDE DEF e
<1> DEFINE N == PutEntry(T, u, i, e)
<1>3. /\ N \in Seq([Slots -> Entries]) /\ Len(N) = Len(T)
      /\ \A v \in 1 .. Len(T), j \in Slots : N[v][j] = IF v = u /\ j = i THEN e ELSE T[v][j]
  <2>1. e \in Entries
    BY <1>1
  <2>2. Written(PutEntry(T, u, i, e), T, u, i, e)
    BY <2>1, PutEntryIs
  <2> QED
    BY <2>2 DEF Written
<1>4. Empty \in [Slots -> Entries] /\ \A j \in Slots : Empty[j] = Absent
  BY DEF Empty, Slots, Entries
<1> HIDE DEF N
<1>5. /\ Append(N, Empty) \in Seq([Slots -> Entries]) /\ Len(Append(N, Empty)) = Len(N) + 1
      /\ \A v \in 1 .. Len(N) : Append(N, Empty)[v] = N[v]
      /\ Append(N, Empty)[Len(N) + 1] = Empty
  <2> DEFINE Tables == [Slots -> Entries]
  <2>1. N \in Seq(Tables) /\ Empty \in Tables
    BY <1>3, <1>4
  <2> HIDE DEF Tables
  <2>2. /\ Append(N, Empty) \in Seq(Tables) /\ Len(Append(N, Empty)) = Len(N) + 1
        /\ \A v \in 1 .. Len(N) : Append(N, Empty)[v] = N[v]
        /\ Append(N, Empty)[Len(N) + 1] = Empty
    BY <2>1, AppendIs
  <2> QED
    BY <2>2 DEF Tables
<1> DEFINE A == Append(N, Empty)
<1> HIDE DEF A
<1>6. A \in Seq([Slots -> Entries]) /\ Len(A) = NewTable(T) /\ A[u][i] = e
      /\ (\A v \in 1 .. Len(T), j \in Slots : ~ (v = u /\ j = i) => A[v][j] = T[v][j])
      /\ (\A j \in Slots : A[NewTable(T)][j] = Absent)
  BY <1>1, <1>3, <1>4, <1>5 DEF NewTable, A
<1>7. AddTable(T, u, i) = A
  BY <1>2 DEF A, N
<1> QED
  BY <1>6, <1>7, Zenon DEF e, Added

LEMMA TreeGrows ==
  ASSUME NEW T, NEW lv, NEW top, Tree(T, lv, top),
         NEW u \in 1 .. Len(T), lv[u] > 1, NEW i \in Slots, T[u][i] = Absent
  PROVE  Tree(AddTable(T, u, i), AddLevel(T, lv, u), top)
<1> DEFINE N == AddTable(T, u, i)
           lw == AddLevel(T, lv, u)
           new == NewTable(T)
<1>1. T \in Seq([Slots -> Entries]) /\ Len(T) \in Nat /\ Len(T) >= 1 /\ top \in Nat \ {0}
      /\ lv \in [1 .. Len(T) -> 1 .. top] /\ lv[1] = top
  BY DEF Tree
<1>2. /\ N \in Seq([Slots -> Entries]) /\ Len(N) = new
      /\ N[u][i] = NewEntry(T)
      /\ \A v \in 1 .. Len(T), j \in Slots : ~ (v = u /\ j = i) => N[v][j] = T[v][j]
      /\ \A j \in Slots : N[new][j] = Absent
  <2>1. Added(AddTable(T, u, i), T, u, i)
    BY <1>1, AddTableIs
  <2> QED
    BY <2>1, Zenon DEF Added
<1>3. new = Len(T) + 1 /\ new \notin 1 .. Len(T) /\ 1 .. new = (1 .. Len(T)) \cup {new}
  BY <1>1 DEF NewTable
<1>4. lw[new] = lv[u] - 1 /\ \A v \in 1 .. Len(T) : lw[v] = lv[v]
  BY <1>3 DEF AddLevel
<1>5. lw \in [1 .. new -> 1 .. top] /\ lw[1] = top
  <2>1. lv[u] - 1 \in 1 .. top
    BY <1>1
  <2> QED
    BY <1>1, <1>3, <1>4, <2>1 DEF AddLevel
<1>6. N[u][i] # Absent /\ N[u][i].physical = new
  <2>1. /\ NewEntry(T) \in [physical : Nat, flags : SUBSET {"present", "writable", "nx"}]
        /\ NewEntry(T).physical = new
    BY <1>1, <1>3 DEF NewEntry
  <2> QED
    BY <1>2, <2>1, VmmAssumption
<1> HIDE DEF N, lw, new
<1>7. ASSUME NEW v, NEW j, NEW t
      PROVE  Points(N, lw, v, j, t) <=> (v = u /\ j = i /\ t = new) \/ Points(T, lv, v, j, t)
  <2>1. CASE v = u /\ j = i
    <3>1. ~ Points(T, lv, v, j, t)
      BY <2>1 DEF Points
    <3>2. Points(N, lw, v, j, t) <=> t = new
      BY <1>2, <1>3, <1>4, <1>6, <2>1 DEF Points
    <3> QED
      BY <2>1, <3>1, <3>2
  <2>2. CASE ~ (v = u /\ j = i)
    <3>1. CASE v \in 1 .. Len(T) /\ j \in Slots
      BY <1>2, <1>3, <1>4, <2>2, <3>1 DEF Points
    <3>2. CASE v = new /\ j \in Slots
      BY <1>2, <1>3, <2>2, <3>2 DEF Points
    <3>3. CASE ~ (v \in 1 .. new /\ j \in Slots)
      BY <1>2, <1>3, <2>2, <3>3 DEF Points
    <3> QED
      BY <1>3, <3>1, <3>2, <3>3
  <2> QED
    BY <2>1, <2>2
<1>8. \A v, j, t : Points(T, lv, v, j, t) => t \in v + 1 .. Len(T) /\ v \in 1 .. Len(T)
                                           /\ j \in Slots /\ lv[t] = lv[v] - 1
  BY DEF Tree, Points
<1>9. ASSUME NEW v \in 1 .. Len(N), NEW j \in Slots, lw[v] > 1, N[v][j] # Absent
      PROVE  N[v][j].physical \in v + 1 .. Len(N) /\ lw[N[v][j].physical] = lw[v] - 1
  <2> DEFINE t == N[v][j].physical
  <2>1. Points(N, lw, v, j, t)
    BY <1>9 DEF Points
  <2> HIDE DEF t
  <2>2. CASE v = u /\ j = i /\ t = new
    <3>1. new \in u + 1 .. new
      BY <1>1, <1>3
    <3> QED
      BY <1>2, <1>4, <2>2, <3>1 DEF t
  <2>3. CASE Points(T, lv, v, j, t)
    <3>1. t \in v + 1 .. Len(T) /\ v \in 1 .. Len(T) /\ lv[t] = lv[v] - 1
      BY <1>8, <2>3
    <3>2. t \in 1 .. Len(T) /\ t \in v + 1 .. new
      BY <1>1, <1>3, <3>1
    <3> QED
      BY <1>2, <1>4, <3>1, <3>2 DEF t
  <2> QED
    BY <1>7, <2>1, <2>2, <2>3
<1>10. ASSUME NEW t \in 2 .. Len(N) PROVE \E v, j : Points(N, lw, v, j, t)
  <2>1. CASE t = new
    BY <1>7, <2>1
  <2>2. CASE t # new
    <3>1. t \in 2 .. Len(T)
      BY <1>1, <1>2, <1>3, <2>2
    <3>2. PICK v, j : Points(T, lv, v, j, t)
      BY <3>1 DEF Tree
    <3> QED
      BY <1>7, <3>2
  <2> QED
    BY <2>1, <2>2
<1>11. ASSUME NEW t, NEW v, NEW w, NEW j, NEW k, Points(N, lw, v, j, t), Points(N, lw, w, k, t)
       PROVE  v = w /\ j = k
  <2>1. CASE t = new
    <3>1. ~ Points(T, lv, v, j, t) /\ ~ Points(T, lv, w, k, t)
      BY <1>1, <1>3, <1>8, <2>1
    <3> QED
      BY <1>7, <1>11, <3>1
  <2>2. CASE t # new
    <3>1. Points(T, lv, v, j, t) /\ Points(T, lv, w, k, t)
      BY <1>7, <1>11, <2>2
    <3> QED
      BY <3>1 DEF Tree
  <2> QED
    BY <2>1, <2>2
<1>12. Len(N) >= 1
  BY <1>1, <1>2, <1>3
<1> QED
  BY <1>1, <1>2, <1>5, <1>9, <1>10, <1>11, <1>12 DEF Tree, N, lw

LEMMA WalkGrows ==
  ASSUME NEW T, NEW lv, NEW top, Tree(T, lv, top),
         NEW u \in 1 .. Len(T), lv[u] > 1, NEW i \in Slots, T[u][i] = Absent, NEW page \in Nat
  PROVE  /\ \A level \in 1 .. top :
              WalkIn(AddTable(T, u, i), top, page)[level] =
                IF level < top /\ Below(T, lv, top, u, i, page, level) THEN NewTable(T)
                ELSE WalkIn(T, top, page)[level]
         /\ TranslateIn(AddTable(T, u, i), top, page) = TranslateIn(T, top, page)
<1> DEFINE N == AddTable(T, u, i)
           new == NewTable(T)
<1>1. T \in Seq([Slots -> Entries]) /\ Len(T) \in Nat /\ Len(T) >= 1 /\ top \in Nat \ {0}
      /\ lv[u] \in 1 .. top
  <2>1. T \in Seq([Slots -> Entries]) /\ Len(T) >= 1 /\ top \in Nat \ {0} /\ lv \in [1 .. Len(T) -> 1 .. top]
    BY Zenon DEF Tree
  <2>2. Len(T) \in Nat
    BY <2>1, LenProperties
  <2> HIDE DEF N, new
  <2> QED
    BY <2>1, <2>2
<1>2. /\ N[u][i] = NewEntry(T)
      /\ \A v \in 1 .. Len(T), j \in Slots : ~ (v = u /\ j = i) => N[v][j] = T[v][j]
      /\ \A j \in Slots : N[new][j] = Absent
  <2>1. Added(AddTable(T, u, i), T, u, i)
    BY <1>1, AddTableIs
  <2> QED
    BY <2>1, Zenon DEF Added
<1>3. new = Len(T) + 1 /\ new # 0
  BY <1>1 DEF NewTable
<1>4. N[u][i] # Absent /\ N[u][i].physical = new
  <2>1. /\ NewEntry(T) \in [physical : Nat, flags : SUBSET {"present", "writable", "nx"}]
        /\ NewEntry(T).physical = new
    BY <1>1, <1>3 DEF NewEntry
  <2> QED
    BY <1>2, <2>1, VmmAssumption
<1>5. PICK W : /\ W = WalkIn(T, top, page) /\ OnLevels(W, top) /\ W[top] = 1
               /\ \A level \in 1 .. top - 1 : W[level] = Following(T, page, W, level)
               /\ \A level \in 1 .. top : W[level] \in 0 .. Len(T) /\ (W[level] # 0 => lv[W[level]] = level)
  BY WalkIs
<1> DEFINE B(level) == level = lv[u] - 1 /\ W[level + 1] = u /\ Index(page, level + 1) = i
           g == [level \in 1 .. top |-> IF level < top /\ B(level) THEN new ELSE W[level]]
<1>6. \A level : B(level) <=> Below(T, lv, top, u, i, page, level)
  BY <1>5 DEF Below
<1>7. ASSUME NEW level \in 1 .. top - 1 PROVE level + 1 \in 1 .. top /\ level \in 1 .. top
        /\ level < top /\ level + 1 \in Nat \ {0} /\ Index(page, level + 1) \in Slots
  <2>1. level + 1 \in 1 .. top /\ level \in 1 .. top /\ level < top /\ level + 1 \in Nat \ {0}
    BY <1>1
  <2>2. Index(page, level + 1) \in Slots
    BY <2>1, IndexInTable DEF Slots
  <2> QED
    BY <2>1, <2>2
<1> HIDE DEF N, new
<1>8. ASSUME NEW level \in 1 .. top, level < top, B(level) PROVE W[level] = 0
  <2>1. level \in 1 .. top - 1
    BY <1>1, <1>8
  <2> QED
    BY <1>5, <1>8, <2>1 DEF Following
<1>9. \A level \in 1 .. top : g[level] = IF level < top /\ B(level) THEN new ELSE W[level]
  OBVIOUS
<1>10. OnLevels(g, top) /\ g[top] = 1
  BY <1>1, <1>5 DEF OnLevels
<1> HIDE DEF g, B
<1>11. ASSUME NEW level \in 1 .. top - 1 PROVE g[level] = Following(N, page, g, level)
  <2>1. W[level] = Following(T, page, W, level)
    BY <1>5
  <2>2. level + 1 \in 1 .. top /\ level \in 1 .. top /\ level < top /\ Index(page, level + 1) \in Slots
    BY <1>7
  <2>3. CASE level + 1 < top /\ B(level + 1)
    <3>1. W[level + 1] = 0 /\ g[level + 1] = new
      BY <1>8, <1>9, <2>2, <2>3
    <3>2. W[level] = 0
      BY <2>1, <3>1 DEF Following
    <3>3. ~ B(level)
      BY <1>1, <3>1 DEF B
    <3>4. g[level] = 0
      BY <1>9, <2>2, <3>2, <3>3
    <3>5. Following(N, page, g, level) = 0
      BY <1>2, <2>2, <3>1 DEF Following
    <3> QED
      BY <3>4, <3>5
  <2>4. CASE ~ (level + 1 < top /\ B(level + 1))
    <3>1. g[level + 1] = W[level + 1]
      BY <1>9, <2>2, <2>4
    <3>2. CASE W[level + 1] = 0
      <4>1. ~ B(level) /\ W[level] = 0
        BY <1>1, <2>1, <3>2 DEF B, Following
      <4> QED
        BY <1>9, <2>2, <3>1, <3>2, <4>1 DEF Following
    <3>3. CASE W[level + 1] # 0
      <4>1. W[level + 1] \in 1 .. Len(T) /\ lv[W[level + 1]] = level + 1
        BY <1>1, <1>5, <2>2, <3>3
      <4>2. CASE W[level + 1] = u /\ Index(page, level + 1) = i
        <5>1. B(level)
          BY <4>1, <4>2 DEF B
        <5>2. g[level] = new
          BY <1>9, <2>2, <5>1
        <5>3. Following(N, page, g, level) = new
          BY <1>4, <3>1, <3>3, <4>2 DEF Following
        <5> QED
          BY <5>2, <5>3
      <4>3. CASE ~ (W[level + 1] = u /\ Index(page, level + 1) = i)
        <5>1. g[level] = W[level]
          BY <1>9, <2>2, <4>3 DEF B
        <5>2. N[W[level + 1]][Index(page, level + 1)] = T[W[level + 1]][Index(page, level + 1)]
          BY <1>2, <2>2, <4>1, <4>3
        <5> QED
          BY <2>1, <3>1, <5>1, <5>2 DEF Following
      <4> QED
        BY <4>2, <4>3
    <3> QED
      BY <3>2, <3>3
  <2> QED
    BY <2>3, <2>4
<1>12. IsWalk(g, N, top, page)
  BY <1>1, <1>10, <1>11, ElementsAreWalk
<1>13. WalkIn(N, top, page) = g
  BY <1>1, <1>12, WalkInIs
<1>14. TranslateIn(N, top, page) = TranslateIn(T, top, page)
  <2>1. 1 \in 1 .. top /\ Index(page, 1) \in Slots
    <3>1. 1 \in Nat \ {0} /\ 1 \in 1 .. top
      BY <1>1
    <3>2. Index(page, 1) \in Slots
      BY <3>1, IndexInTable DEF Slots
    <3> QED
      BY <3>1, <3>2
  <2>2. CASE 1 < top /\ B(1)
    <3>1. W[1] = 0 /\ g[1] = new
      BY <1>8, <1>9, <2>1, <2>2
    <3>2. TranslateIn(T, top, page) = Absent
      BY <1>5, <3>1 DEF TranslateIn
    <3>3. TranslateIn(N, top, page) = Absent
      BY <1>2, <1>3, <1>13, <2>1, <3>1 DEF TranslateIn
    <3> QED
      BY <3>2, <3>3
  <2>3. CASE ~ (1 < top /\ B(1))
    <3>1. g[1] = W[1]
      BY <1>9, <2>1, <2>3
    <3>2. CASE W[1] = 0
      BY <1>5, <1>13, <3>1, <3>2 DEF TranslateIn
    <3>3. CASE W[1] # 0
      <4>1. W[1] \in 1 .. Len(T) /\ lv[W[1]] = 1
        BY <1>1, <1>5, <2>1, <3>3
      <4>2. N[W[1]][Index(page, 1)] = T[W[1]][Index(page, 1)]
        BY <1>2, <2>1, <4>1
      <4> QED
        BY <1>5, <1>13, <3>1, <4>2 DEF TranslateIn
    <3> QED
      BY <3>2, <3>3
  <2> QED
    BY <2>2, <2>3
<1> QED
  BY <1>5, <1>6, <1>9, <1>13, <1>14 DEF N, new

(* An entry of the last table of page q: only q is translated differently. *)
LEMMA EntrySet ==
  ASSUME NEW T, NEW lv, NEW top, Tree(T, lv, top), NEW q \in 0 .. Span[top] - 1,
         WalkIn(T, top, q)[1] # 0, NEW e \in Entries, NEW p \in 0 .. Span[top] - 1
  PROVE  TranslateIn(PutEntry(T, WalkIn(T, top, q)[1], Index(q, 1), e), top, p) =
           IF p = q THEN e ELSE TranslateIn(T, top, p)
<1> DEFINE u == WalkIn(T, top, q)[1]
           i == Index(q, 1)
           N == PutEntry(T, u, i, e)
<1>1. top \in Nat \ {0} /\ 1 \in 1 .. top /\ 1 \in Nat \ {0} /\ p \in Nat /\ q \in Nat
      /\ T \in Seq([Slots -> Entries]) /\ Len(T) \in Nat
  <2>1. top \in Nat \ {0} /\ T \in Seq([Slots -> Entries])
    BY DEF Tree
  <2>2. Span[top] \in Nat /\ Len(T) \in Nat
    BY <2>1, SpanIs, LenProperties
  <2> QED
    BY <2>1, <2>2
<1>2. ASSUME NEW r \in Nat
      PROVE  /\ WalkIn(T, top, r)[1] \in 0 .. Len(T) /\ Index(r, 1) \in Slots
             /\ WalkIn(T, top, r)[1] # 0 => lv[WalkIn(T, top, r)[1]] = 1
  <2>1. PICK W : /\ W = WalkIn(T, top, r)
                 /\ \A l \in 1 .. top : W[l] \in 0 .. Len(T) /\ (W[l] # 0 => lv[W[l]] = l)
    BY WalkIs
  <2>2. Index(r, 1) \in Slots
    BY <1>1, IndexInTable DEF Slots
  <2> QED
    BY <1>1, <2>1, <2>2
<1>3. u \in 1 .. Len(T) /\ lv[u] = 1 /\ i \in Slots
  <2>1. u \in 0 .. Len(T) /\ u # 0 /\ lv[u] = 1 /\ i \in Slots
    BY <1>1, <1>2
  <2> QED
    BY <1>1, <2>1
<1> HIDE DEF u, i
<1>4. WalkIn(N, top, p) = WalkIn(T, top, p)
  BY <1>1, <1>3, LeafWritten
<1>5. \A v \in 1 .. Len(T), j \in Slots : N[v][j] = IF v = u /\ j = i THEN e ELSE T[v][j]
  <2>1. Written(PutEntry(T, u, i, e), T, u, i, e)
    BY <1>1, <1>3, PutEntryIs
  <2> QED
    BY <2>1, Zenon DEF Written
<1> HIDE DEF N
<1> DEFINE w == WalkIn(T, top, p)[1]
<1>6. w \in 0 .. Len(T) /\ Index(p, 1) \in Slots
  BY <1>1, <1>2
<1>7. p = q => w = u /\ Index(p, 1) = i
  BY DEF u, i
<1>8. w # 0 /\ w = u /\ Index(p, 1) = i => p = q
  BY WalksMeet DEF u, i
<1> HIDE DEF w
<1>9. TranslateIn(N, top, p) = IF w = 0 THEN Absent ELSE N[w][Index(p, 1)]
  BY <1>4 DEF TranslateIn, w
<1>10. TranslateIn(T, top, p) = IF w = 0 THEN Absent ELSE T[w][Index(p, 1)]
  BY DEF TranslateIn, w
<1>11. TranslateIn(N, top, p) = IF p = q THEN e ELSE TranslateIn(T, top, p)
  <2>1. CASE w = 0
    <3>1. p # q
      BY <1>1, <1>3, <1>7, <2>1
    <3> QED
      BY <1>9, <1>10, <2>1, <3>1
  <2>2. CASE w # 0
    <3>1. N[w][Index(p, 1)] = IF w = u /\ Index(p, 1) = i THEN e ELSE T[w][Index(p, 1)]
      BY <1>1, <1>5, <1>6, <2>2
    <3> QED
      BY <1>7, <1>8, <1>9, <1>10, <2>2, <3>1
  <2> QED
    BY <2>1, <2>2
<1> QED
  BY <1>11 DEF N, u, i

-----------------------------------------------------------------------------
(* The inductive invariant: the tables are a tree, the walk is where the   *)
(* processor's would be, and the calls that have returned are mapped.      *)
Entry(call) == [physical |-> call.physical, flags |-> call.flags]

InWalk ==
  /\ done < Len(calls)
  /\ walk.level \in 1 .. Levels /\ walk.pml # 0
  /\ walk.pml = WalkIn(tables, Levels, Page)[walk.level]

IInv ==
  /\ Inputs /\ calls = Calls /\ done \in 0 .. Len(calls)
  /\ Tree(tables, LevelOf, Levels)
  /\ walk = Idle \/ InWalk
  /\ loaded => done = Len(calls)
  /\ \A k \in 1 .. done : Translate(calls[k].page) = Entry(calls[k])

LEMMA LevelOfIs ==
  /\ LevelOf = LevelIn(tables, Levels)
  /\ LevelOf' = LevelIn(tables', Levels')
  BY Zenon DEF LevelOf, LevelIn

LEMMA TranslateIs ==
  ASSUME NEW page
  PROVE  /\ Translate(page) = TranslateIn(tables, Levels, page)
         /\ Translate(page)' = TranslateIn(tables', Levels', page)
  BY Zenon DEF Translate, TranslateIn, WalkIn

LEMMA InputsKept ==
  ASSUME UNCHANGED inputs
  PROVE  /\ Levels' = Levels /\ Space' = Space /\ Calls' = Calls /\ (Inputs' <=> Inputs)
         /\ text' = text /\ rodata' = rodata /\ data' = data
<1>1. Levels' = Levels /\ Space' = Space
  BY DEF inputs, Levels, Space
<1>2. text' = text /\ rodata' = rodata /\ data' = data
  BY DEF inputs, text, rodata, data
<1>3. Calls' = Calls
  BY <1>1, <1>2, Zenon DEF inputs, Calls, Direct, Kernel, Section, High
<1>4. Inputs' <=> Inputs
  BY <1>1, Zenon DEF inputs, Inputs
<1> QED
  BY <1>1, <1>2, <1>3, <1>4

LEMMA InitTree ==
  ASSUME Init
  PROVE  /\ Tree(tables, LevelOf, Levels)
         /\ \A page \in Nat : Translate(page) = Absent
<1> DEFINE T == <<Empty>>
           lv == [t \in 1 .. 1 |-> Levels]
<1>1. tables = T
  BY DEF Init
<1>2. Levels \in Nat \ {0}
  BY SpaceIs DEF Init
<1>3. T \in Seq([Slots -> Entries]) /\ Len(T) = 1 /\ T[1] = Empty
  BY DEF Empty, Slots, Entries
<1>4. \A j \in Slots : Empty[j] = Absent
  BY DEF Empty, Slots
<1> HIDE DEF T
<1>5. Tree(T, lv, Levels)
  <2>1. lv \in [1 .. 1 -> 1 .. Levels] /\ lv[1] = Levels
    BY <1>2
  <2>2. \A v \in 1 .. Len(T), j \in Slots : T[v][j] = Absent
    BY <1>3, <1>4
  <2> HIDE DEF lv
  <2>3. \A v, j, t : ~ Points(T, lv, v, j, t)
    BY <2>2 DEF Points
  <2>4. 2 .. Len(T) = {}
    BY <1>3
  <2> QED
    BY <1>2, <1>3, <2>1, <2>2, <2>3, <2>4 DEF Tree
<1> HIDE DEF lv
<1>6. LevelOf = lv
  BY <1>1, <1>5, LevelInIs, LevelOfIs
<1>7. ASSUME NEW page \in Nat PROVE Translate(page) = Absent
  <2>1. PICK W : W = WalkIn(T, Levels, page) /\ \A level \in 1 .. Levels : W[level] \in 0 .. Len(T)
    BY <1>5, WalkIs
  <2>2. 1 \in 1 .. Levels /\ 1 \in Nat \ {0}
    BY <1>2
  <2>3. Index(page, 1) \in Slots
    BY <2>2, IndexInTable DEF Slots
  <2>4. W[1] = 0 \/ T[W[1]][Index(page, 1)] = Absent
    BY <1>3, <1>4, <2>1, <2>2, <2>3
  <2>5. TranslateIn(T, Levels, page) = Absent
    BY <2>1, <2>4 DEF TranslateIn
  <2> QED
    BY <1>1, <2>5, TranslateIs
<1> QED
  BY <1>1, <1>5, <1>6, <1>7

LEMMA InitIInv == Init => IInv
<1> SUFFICES ASSUME Init PROVE IInv
  OBVIOUS
<1>1. Inputs /\ calls = Calls /\ done = 0 /\ walk = Idle /\ loaded = FALSE
  BY InitInputs DEF Init
<1>2. Len(Calls) \in Nat
  BY <1>1, CallsAre
<1>3. Tree(tables, LevelOf, Levels)
  BY InitTree
<1> QED
  BY <1>1, <1>2, <1>3 DEF IInv

LEMMA CallIs ==
  ASSUME IInv, NEW k \in 1 .. Len(calls)
  PROVE  /\ calls[k] \in CallSet /\ calls[k] \in Elements(Calls)
         /\ calls[k].page \in 0 .. Space - 1 /\ calls[k].page \in Nat
         /\ Entry(calls[k]) \in Entries
<1>1. calls \in Seq(CallSet) /\ calls = Calls
  BY CallsAre DEF IInv
<1>2. calls[k] \in CallSet
  BY <1>1, ElementOfSeq
<1>3. Space \in Nat
  BY SpaceIs DEF IInv, Inputs
<1> QED
  BY <1>1, <1>2, <1>3 DEF CallSet, Elements, Entry, Entries

LEMMA WalkAt ==
  ASSUME IInv, InWalk
  PROVE  /\ done + 1 \in 1 .. Len(calls) /\ Page = calls[done + 1].page
         /\ Page \in 0 .. Space - 1 /\ Page \in Nat
         /\ walk.pml \in 1 .. Len(tables) /\ LevelOf[walk.pml] = walk.level
         /\ Index(Page, walk.level) \in Slots
<1>1. Len(calls) \in Nat
  BY CallsAre DEF IInv
<1>2. done + 1 \in 1 .. Len(calls)
  BY <1>1 DEF IInv, InWalk
<1>3. Page = calls[done + 1].page /\ Page \in 0 .. Space - 1 /\ Page \in Nat
  BY <1>2, CallIs DEF Page
<1>4. PICK W : /\ W = WalkIn(tables, Levels, Page)
               /\ \A l \in 1 .. Levels : W[l] \in 0 .. Len(tables) /\ (W[l] # 0 => LevelOf[W[l]] = l)
  BY <1>3, WalkIs DEF IInv
<1>5. Len(tables) \in Nat /\ Levels \in Nat
  BY DEF IInv, Tree
<1>6. walk.pml \in 1 .. Len(tables) /\ LevelOf[walk.pml] = walk.level
  BY <1>4, <1>5 DEF InWalk
<1>7. walk.level \in Nat \ {0}
  BY <1>5 DEF InWalk
<1>8. Index(Page, walk.level) \in Slots
  BY <1>3, <1>7, IndexInTable DEF Slots
<1> QED
  BY <1>2, <1>3, <1>6, <1>8

LEMMA CallMapPageKeeps ==
  ASSUME IInv, CallMapPage
  PROVE  IInv'
<1>1. /\ UNCHANGED <<inputs, calls, tables, done, loaded>>
      /\ walk' = [level |-> Levels, pml |-> 1] /\ done < Len(calls)
  BY DEF CallMapPage
<1>2. Levels' = Levels /\ Calls' = Calls /\ Inputs'
  BY <1>1, InputsKept DEF IInv
<1>3. LevelOf' = LevelOf
  BY <1>1, <1>2, LevelOfIs
<1>4. done + 1 \in 1 .. Len(calls) /\ Levels \in Nat \ {0}
  BY <1>1, CallsAre DEF IInv, Tree
<1>5. Page \in Nat /\ Page' = Page
  BY <1>1, <1>4, CallIs DEF Page
<1>6. WalkIn(tables, Levels, Page)[Levels] = 1
  <2>1. PICK W : W = WalkIn(tables, Levels, Page) /\ W[Levels] = 1
    BY <1>5, WalkIs DEF IInv
  <2> QED
    BY <2>1
<1>7. InWalk'
  BY <1>1, <1>2, <1>4, <1>5, <1>6 DEF InWalk
<1>8. \A k \in 1 .. done : Translate(calls[k].page)' = Translate(calls[k].page)
  BY <1>1, <1>2, TranslateIs
<1>9. \A k \in 1 .. done' : Translate(calls[k].page)' = Entry(calls[k])'
  BY <1>1, <1>8 DEF IInv, Entry
<1> QED
  BY <1>1, <1>2, <1>3, <1>7, <1>9 DEF IInv

LEMMA GetNextPmlKeeps ==
  ASSUME IInv, GetNextPml
  PROVE  IInv' /\ \A page \in Nat : Translate(page)' = Translate(page)
<1> DEFINE u == walk.pml
           i == Index(Page, walk.level)
           down == walk.level - 1
<1>1. /\ UNCHANGED <<inputs, calls, done, loaded>> /\ walk.level > 1
      /\ IF tables[u][i] # Absent
           THEN walk' = [level |-> down, pml |-> tables[u][i].physical] /\ UNCHANGED tables
           ELSE walk' = [level |-> down, pml |-> NewTable(tables)] /\ tables' = AddTable(tables, u, i)
  BY DEF GetNextPml, AddTable, NewEntry, NewTable
<1>2. InWalk
  BY <1>1 DEF IInv, Idle
<1>3. /\ u \in 1 .. Len(tables) /\ LevelOf[u] = walk.level /\ i \in Slots /\ Page \in Nat
      /\ done + 1 \in 1 .. Len(calls)
  BY <1>2, WalkAt
<1>4. Levels' = Levels /\ Calls' = Calls /\ Inputs' /\ Page' = Page
  BY <1>1, InputsKept DEF IInv, Page
<1>5. Tree(tables, LevelOf, Levels) /\ Levels \in Nat /\ Len(tables) \in Nat
  BY DEF IInv, Tree
<1>6. walk.level \in 1 .. Levels /\ down \in 1 .. Levels - 1 /\ down \in 1 .. Levels
      /\ down + 1 = walk.level /\ down < Levels
  BY <1>1, <1>2, <1>5 DEF InWalk
<1>7. u # 0 /\ WalkIn(tables, Levels, Page)[walk.level] = u
  BY <1>2 DEF InWalk
<1> HIDE DEF u, i, down
<1>8. CASE tables[u][i] # Absent
  <2>1. walk' = [level |-> down, pml |-> tables[u][i].physical] /\ UNCHANGED tables
    BY <1>1, <1>8
  <2>2. tables[u][i].physical # 0
    <3>1. tables[u][i].physical \in u + 1 .. Len(tables)
      BY <1>1, <1>3, <1>5, <1>8 DEF Tree
    <3> QED
      BY <1>3, <1>5, <3>1
  <2>3. WalkIn(tables, Levels, Page)[down] = tables[u][i].physical
    <3>1. PICK W : /\ W = WalkIn(tables, Levels, Page)
                   /\ \A l \in 1 .. Levels - 1 : W[l] = Following(tables, Page, W, l)
      BY <1>3, <1>5, WalkIs
    <3>2. W[down] = Following(tables, Page, W, down) /\ W[down + 1] = u /\ i = Index(Page, down + 1)
      BY <1>6, <1>7, <3>1 DEF i
    <3> QED
      BY <1>7, <1>8, <3>1, <3>2 DEF Following
  <2>4. InWalk'
    BY <1>1, <1>2, <1>4, <1>6, <2>1, <2>2, <2>3 DEF InWalk
  <2>5. LevelOf' = LevelOf
    BY <1>4, <2>1, LevelOfIs
  <2>6. \A page \in Nat : Translate(page)' = Translate(page)
    BY <1>4, <2>1, TranslateIs
  <2>7. \A k \in 1 .. done' : Translate(calls[k].page)' = Entry(calls[k])'
    <3>1. ASSUME NEW k \in 1 .. done PROVE Translate(calls[k].page)' = Translate(calls[k].page)
      BY <1>1, <1>4, <2>1, TranslateIs
    <3> QED
      BY <1>1, <3>1 DEF IInv, Entry
  <2>8. IInv'
    BY <1>1, <1>4, <2>1, <2>4, <2>5, <2>7 DEF IInv
  <2> QED
    BY <2>6, <2>8
<1>9. CASE tables[u][i] = Absent
  <2>1. walk' = [level |-> down, pml |-> NewTable(tables)] /\ tables' = AddTable(tables, u, i)
    BY <1>1, <1>9
  <2>2. LevelOf[u] > 1
    BY <1>1, <1>3
  <2>3. Tree(tables', AddLevel(tables, LevelOf, u), Levels')
    BY <1>3, <1>4, <1>5, <1>9, <2>1, <2>2, TreeGrows
  <2>4. LevelOf' = AddLevel(tables, LevelOf, u)
    BY <2>3, LevelInIs, LevelOfIs
  <2>5. WalkIn(tables', Levels', Page)[down] = NewTable(tables)
    <3>1. Below(tables, LevelOf, Levels, u, i, Page, down)
      BY <1>3, <1>6, <1>7 DEF Below, i, down
    <3>2. WalkIn(AddTable(tables, u, i), Levels, Page)[down] =
            IF down < Levels /\ Below(tables, LevelOf, Levels, u, i, Page, down) THEN NewTable(tables)
            ELSE WalkIn(tables, Levels, Page)[down]
      BY <1>3, <1>5, <1>6, <1>9, <2>2, WalkGrows
    <3> QED
      BY <1>4, <1>6, <2>1, <3>1, <3>2
  <2>6. InWalk'
    <3>1. NewTable(tables) # 0
      BY <1>5 DEF NewTable
    <3> QED
      BY <1>1, <1>2, <1>4, <1>6, <2>1, <2>5, <3>1 DEF InWalk
  <2>7. ASSUME NEW page \in Nat PROVE Translate(page)' = Translate(page)
    <3>1. TranslateIn(AddTable(tables, u, i), Levels, page) = TranslateIn(tables, Levels, page)
      BY <1>3, <1>5, <1>9, <2>2, WalkGrows
    <3> QED
      BY <1>4, <2>1, <3>1, TranslateIs
  <2>8. \A k \in 1 .. done' : Translate(calls[k].page)' = Entry(calls[k])'
    <3>1. ASSUME NEW k \in 1 .. done PROVE Translate(calls[k].page)' = Translate(calls[k].page)
      <4>1. k \in 1 .. Len(calls)
        BY CallsAre DEF IInv
      <4>2. TranslateIn(AddTable(tables, u, i), Levels, calls[k].page)
              = TranslateIn(tables, Levels, calls[k].page)
        BY <1>3, <1>5, <1>9, <2>2, <4>1, CallIs, WalkGrows
      <4>3. Translate(calls[k].page)' = TranslateIn(tables', Levels', calls'[k].page)
        BY Zenon DEF Translate, TranslateIn, WalkIn
      <4> QED
        BY <1>1, <1>4, <2>1, <4>2, <4>3, TranslateIs
    <3> QED
      BY <1>1, <3>1 DEF IInv, Entry
  <2>9. IInv'
    BY <1>1, <1>4, <2>3, <2>4, <2>6, <2>8 DEF IInv
  <2> QED
    BY <2>7, <2>9
<1> QED
  BY <1>8, <1>9

LEMMA SetEntryKeeps ==
  ASSUME IInv, SetEntry
  PROVE  /\ IInv' /\ done + 1 \in 1 .. Len(calls)
         /\ \A page \in 0 .. Space - 1 :
              Translate(page)' = IF page = calls[done + 1].page THEN Entry(calls[done + 1])
                                 ELSE Translate(page)
<1> DEFINE u == walk.pml
           call == calls[done + 1]
<1>1. /\ UNCHANGED <<inputs, calls, loaded>> /\ walk.level = 1 /\ walk' = Idle /\ done' = done + 1
      /\ tables' = PutEntry(tables, u, Index(Page, 1), Entry(call))
  BY DEF SetEntry, Entry
<1>2. InWalk
  BY <1>1 DEF IInv, Idle
<1>3. /\ u \in 1 .. Len(tables) /\ LevelOf[u] = 1 /\ Index(Page, 1) \in Slots
      /\ Page = call.page /\ Page \in 0 .. Space - 1 /\ done + 1 \in 1 .. Len(calls)
  BY <1>1, <1>2, WalkAt
<1>4. Levels' = Levels /\ Calls' = Calls /\ Inputs' /\ Space' = Space
  BY <1>1, InputsKept DEF IInv
<1>5. Tree(tables, LevelOf, Levels)
  BY DEF IInv
<1>6. u # 0 /\ WalkIn(tables, Levels, Page)[1] = u
  BY <1>1, <1>2 DEF InWalk
<1>7. Entry(call) \in Entries
  BY <1>3, CallIs
<1> HIDE DEF u, call
<1>8. Tree(tables', LevelOf, Levels')
  BY <1>1, <1>3, <1>4, <1>5, <1>7, LeafWritten
<1>9. LevelOf' = LevelOf
  BY <1>8, LevelInIs, LevelOfIs
<1>10. ASSUME NEW page \in 0 .. Space - 1
       PROVE  TranslateIn(tables', Levels', page) =
                IF page = call.page THEN Entry(call) ELSE TranslateIn(tables, Levels, page)
  <2>1. Page \in 0 .. Span[Levels] - 1 /\ page \in 0 .. Span[Levels] - 1
    BY <1>3 DEF Space
  <2>2. TranslateIn(PutEntry(tables, WalkIn(tables, Levels, Page)[1], Index(Page, 1), Entry(call)),
                    Levels, page) =
          IF page = Page THEN Entry(call) ELSE TranslateIn(tables, Levels, page)
    BY <1>5, <1>6, <1>7, <2>1, EntrySet
  <2> QED
    BY <1>1, <1>3, <1>4, <1>6, <2>2
<1>11. ASSUME NEW page \in 0 .. Space - 1
       PROVE  Translate(page)' = IF page = call.page THEN Entry(call) ELSE Translate(page)
  BY <1>10, TranslateIs
<1>12. ASSUME NEW k \in 1 .. done' PROVE Translate(calls[k].page)' = Entry(calls[k])'
  <2>1. Translate(calls[k].page)' = TranslateIn(tables', Levels', calls'[k].page)
    BY Zenon DEF Translate, TranslateIn, WalkIn
  <2>2. k \in 1 .. Len(calls) /\ calls[k].page \in 0 .. Space - 1
    <3>1. k \in 1 .. Len(calls)
      BY <1>1, <1>3, CallsAre DEF IInv
    <3> QED
      BY <3>1, CallIs
  <2>3. Entry(calls[k])' = Entry(calls[k])
    BY <1>1 DEF Entry
  <2>4. CASE calls[k].page = call.page
    <3>1. calls[k] \in Elements(Calls) /\ call \in Elements(Calls)
      BY <1>3, <2>2, CallIs DEF call
    <3>2. calls[k] = call
      BY <2>4, <3>1, CallsAgree DEF IInv
    <3> QED
      BY <1>1, <1>10, <2>1, <2>2, <2>3, <3>2
  <2>5. CASE calls[k].page # call.page
    <3>1. k # done + 1
      BY <2>5 DEF call
    <3>2. k \in 1 .. done
      BY <1>1, <3>1 DEF IInv
    <3>3. Translate(calls[k].page) = Entry(calls[k])
      BY <3>2 DEF IInv
    <3> QED
      BY <1>1, <1>10, <2>1, <2>2, <2>3, <2>5, <3>3, TranslateIs
  <2> QED
    BY <2>4, <2>5
<1>13. ~ loaded /\ done' \in 0 .. Len(calls)
  <2>1. Len(calls) \in Nat
    BY CallsAre DEF IInv
  <2> QED
    BY <1>1, <1>2, <1>3, <2>1 DEF IInv, InWalk
<1>14. IInv'
  BY <1>1, <1>4, <1>8, <1>9, <1>12, <1>13 DEF IInv
<1> QED
  BY <1>3, <1>11, <1>14 DEF call

(* Loading cr3 when all is mapped, or a step that changes nothing.         *)
LEMMA TablesStay ==
  ASSUME IInv, UNCHANGED <<inputs, calls, tables, done, walk>>, loaded' => done = Len(calls)
  PROVE  IInv' /\ \A page : Translate(page)' = Translate(page)
<1>1. Levels' = Levels /\ Calls' = Calls /\ Inputs' /\ Page' = Page
  BY InputsKept DEF IInv, Page
<1>2. LevelOf' = LevelOf
  BY <1>1, LevelOfIs
<1>3. InWalk' <=> InWalk
  BY <1>1 DEF InWalk
<1>4. \A page : Translate(page)' = Translate(page)
  BY <1>1, TranslateIs
<1>5. \A k \in 1 .. done' : Translate(calls[k].page)' = Entry(calls[k])'
  <2>1. \A k \in 1 .. done : Translate(calls[k].page)' = Translate(calls[k].page)
    BY <1>1, TranslateIs
  <2> QED
    BY <2>1 DEF IInv, Entry
<1>6. IInv'
  BY <1>1, <1>2, <1>3, <1>5 DEF IInv
<1> QED
  BY <1>4, <1>6

LEMMA NextIInv == IInv /\ [Next]_vars => IInv'
<1> SUFFICES ASSUME IInv, [Next]_vars PROVE IInv'
  OBVIOUS
<1>1. CASE CallMapPage
  BY <1>1, CallMapPageKeeps
<1>2. CASE GetNextPml
  BY <1>2, GetNextPmlKeeps
<1>3. CASE SetEntry
  BY <1>3, SetEntryKeeps
<1>4. CASE LoadKernelPagemap
  BY <1>4, TablesStay DEF LoadKernelPagemap
<1>5. CASE UNCHANGED vars
  <2>1. UNCHANGED <<inputs, calls, tables, done, walk>> /\ (loaded' => done = Len(calls))
    BY <1>5 DEF vars, IInv
  <2> QED
    BY <2>1, TablesStay
<1> QED
  BY <1>1, <1>2, <1>3, <1>4, <1>5 DEF Next

(* The tables are a tree whose levels LevelOf finds, the walk of           *)
(* vmm_map_page is the processor's, and the pages of the calls that have   *)
(* returned are mapped as these asked.                                     *)
THEOREM VmmInvariant == Spec => []IInv
<1>1. Init => IInv
  BY InitIInv
<1>2. IInv /\ [Next]_vars => IInv'
  BY NextIInv
<1> QED
  BY <1>1, <1>2, PTL DEF Spec

(* Every table but the root is pointed to by exactly one entry: a write to *)
(* a table changes one part of the address space only.                     *)
THEOREM VmmTablesFormATree == Spec => []TablesFormATree
<1>1. IInv => TablesFormATree
  <2> SUFFICES ASSUME IInv, NEW t \in 2 .. Len(tables) PROVE Cardinality(Pointers(t)) = 1
    BY DEF TablesFormATree
  <2>1. \A u, i : <<u, i>> \in Pointers(t) <=> Points(tables, LevelOf, u, i, t)
    BY DEF Pointers, Points, Slots
  <2>2. PICK u, i : Points(tables, LevelOf, u, i, t)
    BY DEF IInv, Tree
  <2>3. ASSUME NEW e \in Pointers(t) PROVE e = <<u, i>>
    <3>1. e = <<e[1], e[2]>>
      BY DEF Pointers
    <3>2. Points(tables, LevelOf, e[1], e[2], t)
      BY <2>1, <3>1
    <3> QED
      BY <2>2, <3>1, <3>2 DEF IInv, Tree
  <2>4. Pointers(t) = {<<u, i>>}
    BY <2>1, <2>2, <2>3
  <2> QED
    BY <2>4, FS_Singleton
<1> QED
  BY <1>1, VmmInvariant, PTL

LEMMA LoadedIsMapped ==
  ASSUME IInv, loaded, NEW call \in Elements(Calls)
  PROVE  Translate(call.page) = Entry(call)
<1>1. PICK k \in 1 .. Len(calls) : call = calls[k]
  BY DEF IInv, Elements
<1> QED
  BY <1>1 DEF IInv

(* Once the tables are loaded, every section of the kernel is mapped with  *)
(* its own protection, whatever the sizes of the sections.                 *)
THEOREM VmmSectionsProtected == Spec => []SectionsProtected
<1>1. IInv => SectionsProtected
  <2> SUFFICES ASSUME IInv, loaded
               PROVE  /\ MappedAs(text, {"present"})
                      /\ MappedAs(rodata, {"present", "nx"})
                      /\ MappedAs(data, {"present", "writable", "nx"})
    BY DEF SectionsProtected
  <2>1. ASSUME NEW s, NEW flags, SectionCalls(s, flags) \subseteq Elements(Kernel)
        PROVE  MappedAs(s, flags)
    <3> SUFFICES ASSUME NEW p \in align_down(s.start) .. align_up(s.end) - 1
                 PROVE  Translate((KernelBase + p) % Space) = [physical |-> PhysicalBase + p, flags |-> flags]
      BY DEF MappedAs
    <3>1. KernelCall(p, flags) \in Elements(Calls)
      BY <2>1, CallsAre DEF SectionCalls, IInv
    <3>2. Translate(KernelCall(p, flags).page) = Entry(KernelCall(p, flags))
      BY <3>1, LoadedIsMapped
    <3> QED
      BY <3>2 DEF KernelCall, Entry
  <2>2. /\ SectionCalls(text, {"present"}) \subseteq Elements(Kernel)
        /\ SectionCalls(rodata, {"present", "nx"}) \subseteq Elements(Kernel)
        /\ SectionCalls(data, {"present", "writable", "nx"}) \subseteq Elements(Kernel)
    BY KernelIs DEF IInv
  <2> QED
    BY <2>1, <2>2
<1> QED
  BY <1>1, VmmInvariant, PTL

(* Once the tables are loaded, all reported memory is mapped at            *)
(* hhdm_offset: entries that begin and end within pages included.          *)
THEOREM VmmMemoryMapped == Spec => []MemoryMapped
<1>1. IInv => MemoryMapped
  <2> SUFFICES ASSUME IInv, loaded,
                      NEW e \in {memmap[k] : k \in 1 .. Len(memmap)} \cup {bitmap},
                      NEW p \in PagesOf(e) \ {0}, e = bitmap => p < Low
               PROVE  Translate((hhdm_offset + p) % Space) = [physical |-> p, flags |-> Memory]
    BY DEF MemoryMapped
  <2>1. p \in Nat \ {0} /\ Low \in Nat
    <3>1. e \in [base : Nat, length : Nat]
      <4>1. ASSUME NEW k \in 1 .. Len(memmap) PROVE memmap[k] \in [base : Nat, length : Nat]
        BY ElementOfSeq DEF IInv, Inputs
      <4> QED
        BY <4>1 DEF IInv, Inputs
    <3>2. align_down(e.base) \in Nat
      BY <3>1, Aligned
    <3>3. align_up(e.base + e.length) \in Nat
      <4>1. e.base + e.length \in Nat
        BY <3>1
      <4> QED
        BY <4>1, Aligned
    <3> QED
      BY <3>2, <3>3, Constants DEF PagesOf
  <2>2. DirectCall(p) \in Elements(Calls)
    <3>1. CASE p < Low
      BY <2>1, <3>1, CallsAre DEF IInv
    <3>2. CASE ~ (p < Low)
      <4>1. PICK k \in 1 .. Len(memmap) : e = memmap[k]
        BY <3>2
      <4>2. DirectCall(p) \in {DirectCall(q) : q \in {r \in PagesOf(memmap[k]) : r >= Low}}
        BY <2>1, <3>2, <4>1
      <4> QED
        BY <4>2, CallsAre DEF IInv
    <3> QED
      BY <3>1, <3>2
  <2>3. Translate(DirectCall(p).page) = Entry(DirectCall(p))
    BY <2>2, LoadedIsMapped
  <2> QED
    BY <2>3 DEF DirectCall, Entry
<1> QED
  BY <1>1, VmmInvariant, PTL

-----------------------------------------------------------------------------
(* The refinement: setting the entry is the step of AddressSpace, all else *)
(* (walking, allocating tables, loading cr3) leaves the mapping alone.     *)
LEMMA InitMaps == Init => Abstract!Init
<1> SUFFICES ASSUME Init PROVE Abstract!Init
  OBVIOUS
<1>1. \A page \in 0 .. Space - 1 : Translate(page) = Absent
  <2>1. Space \in Nat
    BY SpaceIs DEF Init
  <2> QED
    BY <2>1, InitTree
<1> QED
  BY <1>1 DEF Init, Abstract!Init

LEMMA NextMaps == IInv /\ [Next]_vars => [Abstract!Map]_(Abstract!vars)
<1> SUFFICES ASSUME IInv, [Next]_vars PROVE [Abstract!Map]_(Abstract!vars)
  OBVIOUS
<1>0. Space \in Nat
  BY SpaceIs DEF IInv, Inputs
<1>1. ASSUME UNCHANGED <<inputs, calls, done>>, \A page \in Nat : Translate(page)' = Translate(page)
      PROVE  UNCHANGED Abstract!vars
  <2>1. Space' = Space
    BY <1>1, InputsKept
  <2>2. [page \in 0 .. Space - 1 |-> Translate(page)]' = [page \in 0 .. Space - 1 |-> Translate(page)]
    BY <1>0, <1>1, <2>1
  <2> QED
    BY <1>1, <2>2 DEF Abstract!vars
<1>2. CASE CallMapPage
  <2>1. \A page \in Nat : Translate(page)' = Translate(page)
    BY <1>2, InputsKept, TranslateIs DEF CallMapPage
  <2> QED
    BY <1>1, <1>2, <2>1 DEF CallMapPage
<1>3. CASE GetNextPml
  BY <1>1, <1>3, GetNextPmlKeeps DEF GetNextPml
<1>4. CASE SetEntry
  <2> DEFINE m == [page \in 0 .. Space - 1 |-> Translate(page)]
             call == calls[done + 1]
             n == [m EXCEPT ![call.page] = Entry(call)]
  <2>1. /\ done + 1 \in 1 .. Len(calls) /\ done < Len(calls)
        /\ \A page \in 0 .. Space - 1 :
             Translate(page)' = IF page = call.page THEN Entry(call) ELSE Translate(page)
    <3>1. done + 1 \in 1 .. Len(calls) /\ Len(calls) \in Nat /\ done \in Nat
      BY <1>4, SetEntryKeeps, CallsAre DEF IInv
    <3> QED
      BY <1>4, <3>1, SetEntryKeeps
  <2>2. Space' = Space /\ UNCHANGED calls /\ done' = done + 1
    BY <1>4, InputsKept DEF SetEntry
  <2>3. m' = [page \in 0 .. Space - 1 |-> IF page = call.page THEN Entry(call) ELSE Translate(page)]
    BY <2>1, <2>2
  <2>4. call.page \in 0 .. Space - 1
    BY <2>1, CallIs
  <2>5. m' = n
    <3> HIDE DEF call
    <3> QED
      BY <2>3, <2>4
  <2> QED
    BY <2>1, <2>2, <2>5 DEF Abstract!Map, Entry
<1>5. CASE LoadKernelPagemap
  BY <1>1, <1>5, TablesStay DEF LoadKernelPagemap
<1>6. CASE UNCHANGED vars
  <2>1. UNCHANGED <<inputs, calls, tables, done, walk>> /\ (loaded' => done = Len(calls))
    BY <1>6 DEF vars, IInv
  <2> QED
    BY <1>1, <2>1, TablesStay
<1> QED
  BY <1>2, <1>3, <1>4, <1>5, <1>6 DEF Next

(* Safety of the refinement: vmm_map_page changes the page it is called    *)
(* for and no other.  (That it is also live is left to TLC.)               *)
THEOREM VmmImplementsAddressSpace == Spec => Abstract!Init /\ [][Abstract!Map]_(Abstract!vars)
<1>1. Init => Abstract!Init
  BY InitMaps
<1>2. IInv /\ [Next]_vars => [Abstract!Map]_(Abstract!vars)
  BY NextMaps
<1> QED
  BY <1>1, <1>2, VmmInvariant, PTL DEF Spec
=============================================================================
