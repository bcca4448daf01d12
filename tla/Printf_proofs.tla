---------------------------- MODULE Printf_proofs ----------------------------
(***************************************************************************)
(* The contract of snprintf and its relatives, for every set of calls with *)
(* any buffer and any texts that the conversions may yield; that numbers   *)
(* come out as C says, for arguments of any width; and that the screen     *)
(* shows the text, for any size of framebuffer and font.                   *)
(***************************************************************************)
EXTENDS Printf, FiniteSetTheorems, SequenceTheorems, WellFoundedInduction, TLAPS

(* Induction and recursion over the numbers, in terms of sets and          *)
(* functions.                                                              *)

LEMMA LessIsWellFounded == IsWellFoundedOn({p \in Nat \X Nat : p[1] < p[2]}, Nat)
  BY NatLessThanWellFounded DEF OpToRel

LEMMA SetInduction ==
  ASSUME NEW S, 0 \in S, \A n \in Nat : n \in S => n + 1 \in S
  PROVE  Nat \subseteq S
<1> DEFINE Less == {p \in Nat \X Nat : p[1] < p[2]}
           Rest == Nat \ S
<1> SUFFICES ASSUME Rest # {} PROVE FALSE
  OBVIOUS
<1>1. PICK n \in Rest : \A k \in Rest : ~ (<<k, n>> \in Less)
  <2>1. IsWellFoundedOn(Less, Nat) /\ Rest \subseteq Nat
    BY LessIsWellFounded
  <2> HIDE DEF Less, Rest
  <2> QED
    BY <2>1, WFMin
<1>2. n \in Nat /\ n \notin S /\ n # 0
  OBVIOUS
<1>3. n - 1 \in Nat /\ n - 1 < n /\ n - 1 + 1 = n
  BY <1>2
<1>4. n - 1 \notin Rest
  <2>1. <<n - 1, n>> \in Less
    BY <1>2, <1>3
  <2> QED
    BY <1>1, <2>1
<1>5. n - 1 \in S
  BY <1>3, <1>4
<1> QED
  BY <1>2, <1>3, <1>5

(* A first value and a step define a function.                             *)
Iterates(f, V, first, step) ==
  f \in [Nat -> V] /\ f[0] = first /\ \A n \in Nat : f[n + 1] = step[<<n, f[n]>>]

LEMMA Recursion ==
  ASSUME NEW V, NEW first \in V, NEW step \in [Nat \X V -> V]
  PROVE  \E f : Iterates(f, V, first, step)
<1> DEFINE Upto(g, n) == /\ g \in [0 .. n -> V] /\ g[0] = first
                         /\ \A k \in 0 .. n - 1 : g[k + 1] = step[<<k, g[k]>>]
<1>1. \A n \in Nat : \E g : Upto(g, n)
  <2> DEFINE S == {n \in Nat : \E g : Upto(g, n)}
  <2>1. 0 \in S
    <3>1. Upto([k \in 0 .. 0 |-> first], 0)
      OBVIOUS
    <3> QED
      BY <3>1
  <2>2. ASSUME NEW n \in Nat, n \in S PROVE n + 1 \in S
    <3>1. PICK g : Upto(g, n)
      BY <2>2
    <3> DEFINE h == [k \in 0 .. n + 1 |-> IF k = n + 1 THEN step[<<n, g[n]>>] ELSE g[k]]
    <3>2. step[<<n, g[n]>>] \in V
      BY <3>1
    <3>3. h \in [0 .. n + 1 -> V] /\ h[0] = first
      BY <3>1, <3>2
    <3>4. ASSUME NEW k \in 0 .. n + 1 - 1 PROVE h[k + 1] = step[<<k, h[k]>>]
      <4>1. k + 1 \in 0 .. n + 1 /\ k \in 0 .. n + 1 /\ k # n + 1 /\ k \in 0 .. n
        OBVIOUS
      <4>2. h[k] = g[k]
        BY <4>1
      <4>3. CASE k = n
        BY <4>1, <4>2, <4>3
      <4>4. CASE k # n
        <5>1. k \in 0 .. n - 1 /\ h[k + 1] = g[k + 1]
          BY <4>1, <4>4
        <5> QED
          BY <3>1, <4>2, <5>1
      <4> QED
        BY <4>3, <4>4
    <3>5. Upto(h, n + 1)
      <4> HIDE DEF h
      <4> QED
        BY <3>3, <3>4
    <3> HIDE DEF Upto, h
    <3> QED
      BY <3>5
  <2> HIDE DEF Upto
  <2>3. Nat \subseteq S
    <3> HIDE DEF S
    <3> QED
      BY <2>1, <2>2, SetInduction
  <2> QED
    BY <2>3
<1>2. \A k \in Nat : \A n, m \in Nat : \A g, h :
        k <= n /\ k <= m /\ Upto(g, n) /\ Upto(h, m) => g[k] = h[k]
  <2> DEFINE S == {k \in Nat : \A n, m \in Nat : \A g, h :
                     k <= n /\ k <= m /\ Upto(g, n) /\ Upto(h, m) => g[k] = h[k]}
  <2>1. 0 \in S
    OBVIOUS
  <2>2. ASSUME NEW k \in Nat, k \in S PROVE k + 1 \in S
    <3> HIDE DEF Upto
    <3> SUFFICES ASSUME NEW n \in Nat, NEW m \in Nat, NEW g, NEW h,
                        k + 1 <= n, k + 1 <= m, Upto(g, n), Upto(h, m)
                 PROVE  g[k + 1] = h[k + 1]
      OBVIOUS
    <3>1. k \in 0 .. n - 1 /\ k \in 0 .. m - 1 /\ k <= n /\ k <= m
      OBVIOUS
    <3>2. g[k] = h[k]
      BY <2>2, <3>1
    <3> QED
      BY <3>1, <3>2 DEF Upto
  <2> HIDE DEF Upto
  <2>3. Nat \subseteq S
    <3> HIDE DEF S
    <3> QED
      BY <2>1, <2>2, SetInduction
  <2> QED
    BY <2>3
<1> DEFINE f == [n \in Nat |-> (CHOOSE g : Upto(g, n))[n]]
<1>3. ASSUME NEW n \in Nat, NEW g, Upto(g, n) PROVE f[n] = g[n]
  <2> HIDE DEF Upto
  <2> DEFINE h == CHOOSE x : Upto(x, n)
  <2>1. Upto(h, n)
    BY <1>3, Zenon
  <2>2. f[n] = h[n]
    OBVIOUS
  <2> HIDE DEF h, f
  <2>3. n <= n
    OBVIOUS
  <2>4. h[n] = g[n]
    BY <1>2, <1>3, <2>1, <2>3, Zenon
  <2> QED
    BY <2>2, <2>4
<1> HIDE DEF Upto
<1>4. ASSUME NEW n \in Nat PROVE f[n] \in V /\ f[n + 1] = step[<<n, f[n]>>]
  <2>1. PICK g : Upto(g, n + 1)
    BY <1>1
  <2>2. PICK e : Upto(e, n)
    BY <1>1
  <2>3. f[n] = e[n] /\ f[n + 1] = g[n + 1]
    <3> HIDE DEF Upto, f
    <3> QED
      BY <1>3, <2>1, <2>2
  <2>4. e[n] = g[n]
    <3> HIDE DEF Upto, f
    <3> QED
      BY <1>2, <2>1, <2>2
  <2>5. e[n] \in V /\ g[n + 1] = step[<<n, g[n]>>]
    BY <2>1, <2>2 DEF Upto
  <2> QED
    BY <2>3, <2>4, <2>5
<1>5. f[0] = first
  <2>1. PICK e : Upto(e, 0)
    BY <1>1
  <2> QED
    BY <1>3, <2>1 DEF Upto
<1>6. f \in [Nat -> V]
  BY <1>4
<1> HIDE DEF f
<1> QED
  BY <1>4, <1>5, <1>6 DEF Iterates

-----------------------------------------------------------------------------
(* Powers, and the number of digits.                                       *)

LEMMA PowerIs ==
  ASSUME NEW base \in Nat \ {0}
  PROVE  /\ Power(base) \in [Nat -> Nat \ {0}] /\ Power(base)[0] = 1
         /\ \A n \in Nat : Power(base)[n + 1] = base * Power(base)[n]
<1> DEFINE F == [p \in Nat \X (Nat \ {0}) |-> base * p[2]]
<1>1. ASSUME NEW x \in Nat \ {0} PROVE base * x \in Nat \ {0}
  OBVIOUS
<1>2. F \in [Nat \X (Nat \ {0}) -> Nat \ {0}]
  BY <1>1
<1>3. PICK f \in [Nat -> Nat \ {0}] : f[0] = 1 /\ \A n \in Nat : f[n + 1] = F[<<n, f[n]>>]
  <2> DEFINE V == Nat \ {0}
  <2>1. 1 \in V /\ F \in [Nat \X V -> V]
    BY <1>2
  <2> HIDE DEF F, V
  <2>2. \E f : Iterates(f, V, 1, F)
    BY <2>1, Recursion
  <2> QED
    BY <2>2 DEF Iterates, V
<1>4. \A n \in Nat : f[n] = IF n = 0 THEN 1 ELSE base * f[n - 1]
  <2> TAKE n \in Nat
  <2>1. CASE n = 0
    BY <1>3, <2>1
  <2>2. CASE n # 0
    <3>1. n - 1 \in Nat /\ n - 1 + 1 = n
      BY <2>2
    <3>2. f[n] = F[<<n - 1, f[n - 1]>>]
      BY <1>3, <3>1
    <3> QED
      BY <2>2, <3>1, <3>2
  <2> QED
    BY <2>1, <2>2
<1>5. f = [n \in Nat |-> IF n = 0 THEN 1 ELSE base * f[n - 1]]
  BY <1>4
<1>6. Power(base) = [n \in Nat |-> IF n = 0 THEN 1 ELSE base * Power(base)[n - 1]]
  BY <1>5, Zenon DEF Power
<1>7. Power(base)[0] = 1
  BY <1>6
<1>8. \A n \in Nat : Power(base)[n + 1] = base * Power(base)[n]
  <2> TAKE n \in Nat
  <2>1. n + 1 \in Nat /\ n + 1 # 0 /\ n + 1 - 1 = n
    OBVIOUS
  <2> QED
    BY <1>6, <2>1
<1>9. Power(base) \in [Nat -> Nat \ {0}]
  <2> DEFINE S == {n \in Nat : Power(base)[n] \in Nat \ {0}}
  <2>1. 0 \in S
    BY <1>7
  <2>2. \A n \in Nat : n \in S => n + 1 \in S
    BY <1>1, <1>8
  <2>3. Nat \subseteq S
    <3> HIDE DEF S
    <3> QED
      BY <2>1, <2>2, SetInduction
  <2> QED
    BY <1>6, <2>3
<1> QED
  BY <1>7, <1>8, <1>9

(* A larger base or exponent makes a larger power.                         *)
LEMMA PowerGrows ==
  ASSUME NEW base \in Nat, base >= 2, NEW m \in Nat, NEW n \in Nat, m <= n
  PROVE  /\ Power(2)[m] <= Power(2)[n] /\ Power(2)[n] <= Power(base)[n]
         /\ Power(2)[n + 1] = 2 * Power(2)[n]
         /\ {Power(2)[m], Power(2)[n], Power(base)[n]} \subseteq Nat \ {0}
<1>1. /\ Power(2) \in [Nat -> Nat \ {0}] /\ Power(2)[0] = 1
      /\ \A k \in Nat : Power(2)[k + 1] = 2 * Power(2)[k]
  BY PowerIs
<1>2. /\ Power(base) \in [Nat -> Nat \ {0}] /\ Power(base)[0] = 1
      /\ \A k \in Nat : Power(base)[k + 1] = base * Power(base)[k]
  <2>1. base \in Nat \ {0}
    OBVIOUS
  <2> QED
    BY <2>1, PowerIs
<1> DEFINE S == {k \in Nat : Power(2)[k] <= Power(base)[k] /\ (m <= k => Power(2)[m] <= Power(2)[k])}
<1>3. 0 \in S
  BY <1>1, <1>2
<1>4. ASSUME NEW k \in Nat, k \in S PROVE k + 1 \in S
  <2>1. Power(2)[k] <= Power(base)[k] /\ (m <= k => Power(2)[m] <= Power(2)[k])
    BY <1>4
  <2>2. /\ Power(2)[k + 1] = 2 * Power(2)[k] /\ Power(base)[k + 1] = base * Power(base)[k]
        /\ Power(2)[k] \in Nat \ {0} /\ Power(base)[k] \in Nat \ {0} /\ Power(2)[m] \in Nat \ {0}
        /\ k + 1 \in Nat
    BY <1>1, <1>2
  <2>3. 2 * Power(base)[k] <= base * Power(base)[k]
    BY <2>2
  <2>4. Power(2)[k + 1] <= Power(base)[k + 1]
    BY <2>1, <2>2, <2>3
  <2>5. m <= k + 1 => Power(2)[m] <= Power(2)[k + 1]
    <3>1. CASE m <= k
      BY <2>1, <2>2, <3>1
    <3>2. CASE m = k + 1
      BY <2>2, <3>2
    <3> QED
      BY <3>1, <3>2
  <2> QED
    BY <2>2, <2>4, <2>5
<1>5. Nat \subseteq S
  <2> HIDE DEF S
  <2> QED
    BY <1>3, <1>4, SetInduction
<1> QED
  BY <1>1, <1>2, <1>5

(* A value of WordBits bits has a number of digits.                        *)
LEMMA DigitCountIs ==
  ASSUME NEW base \in Nat, base >= 2, NEW value \in Nat, value < Power(2)[WordBits]
  PROVE  DigitCount(value, base) \in 1 .. WordBits
<1>1. WordBits \in Nat \ {0}
  BY PrintfAssumption
<1>2. value < Power(base)[WordBits]
  BY <1>1, PowerGrows
<1>3. \A n \in Nat : Power(base)[n] \in Nat
  <2>1. base \in Nat \ {0}
    OBVIOUS
  <2> QED
    BY <2>1, PowerIs
<1> DEFINE S == {n \in Nat : \E k \in 1 .. n + 1 : value < Power(base)[k] /\ (k > 1 => value >= Power(base)[k - 1])}
           T == {n \in Nat : value < Power(base)[n + 1] => n \in S}
<1>4. 0 \in T
  <2>1. 1 \in 1 .. 0 + 1 /\ ~ (1 > 1)
    OBVIOUS
  <2> QED
    BY <2>1
<1>5. ASSUME NEW n \in Nat, n \in T PROVE n + 1 \in T
  <2> SUFFICES ASSUME value < Power(base)[n + 1 + 1]
               PROVE  \E k \in 1 .. n + 1 + 1 : value < Power(base)[k] /\ (k > 1 => value >= Power(base)[k - 1])
    OBVIOUS
  <2>1. CASE value < Power(base)[n + 1]
    <3>1. \E k \in 1 .. n + 1 : value < Power(base)[k] /\ (k > 1 => value >= Power(base)[k - 1])
      BY <1>5, <2>1
    <3> QED
      BY <3>1
  <2>2. CASE ~ (value < Power(base)[n + 1])
    <3>1. n + 1 + 1 \in 1 .. n + 1 + 1 /\ n + 1 + 1 - 1 = n + 1 /\ value >= Power(base)[n + 1]
      BY <1>3, <2>2
    <3> QED
      BY <3>1
  <2> QED
    BY <2>1, <2>2
<1>6. WordBits - 1 \in T /\ WordBits - 1 + 1 = WordBits
  <2>1. Nat \subseteq T
    <3> HIDE DEF T
    <3> QED
      BY <1>4, <1>5, SetInduction
  <2> HIDE DEF T
  <2> QED
    BY <1>1, <2>1
<1>7. \E k \in 1 .. WordBits : value < Power(base)[k] /\ (k > 1 => value >= Power(base)[k - 1])
  BY <1>2, <1>6
<1> QED
  BY <1>7, Zenon DEF DigitCount

-----------------------------------------------------------------------------
(* The argument as its type has it.                                        *)

(* Numbers that are congruent and less than the modulus apart are equal.   *)
LEMMA CongruentApart ==
  ASSUME NEW m \in Nat \ {0}, NEW x \in Int, NEW u \in Int, NEW v \in Int,
         (x - u) % m = 0, (x - v) % m = 0, u - v < m, v - u < m
  PROVE  u = v
<1> DEFINE p == (x - u) \div m
           q == (x - v) \div m
<1>1. p \in Int /\ q \in Int /\ x - u = m * p /\ x - v = m * q
  <2>1. ASSUME NEW y \in Int, y % m = 0 PROVE y \div m \in Int /\ y = m * (y \div m)
    BY <2>1
  <2>2. x - u \in Int /\ x - v \in Int
    OBVIOUS
  <2> QED
    BY <2>1, <2>2
<1> HIDE DEF p, q
<1>2. u - v = m * (q - p)
  BY <1>1
<1>3. CASE q - p >= 1
  <2>1. m * (q - p) >= m
    BY <1>1, <1>3
  <2> QED
    BY <1>2, <2>1
<1>4. CASE q - p <= -1
  <2>1. m * (q - p) <= - m
    BY <1>1, <1>4
  <2> QED
    BY <1>2, <2>1
<1>5. CASE q - p = 0
  BY <1>2, <1>5
<1> QED
  BY <1>1, <1>3, <1>4, <1>5

(* What Signed yields: the value of the type that is congruent to n, and n *)
(* itself where the type has it.                                           *)
LEMMA SignedIs ==
  ASSUME NEW n \in Int, NEW bits \in Nat \ {0}
  PROVE  /\ Power(2)[bits - 1] \in Nat \ {0} /\ Power(2)[bits] = 2 * Power(2)[bits - 1]
         /\ Signed(n, bits) \in - Power(2)[bits - 1] .. Power(2)[bits - 1] - 1
         /\ n \in - Power(2)[bits - 1] .. Power(2)[bits - 1] - 1 => Signed(n, bits) = n
<1> DEFINE half == Power(2)[bits - 1]
           all  == Power(2)[bits]
<1>1. half \in Nat \ {0} /\ all = 2 * half
  <2>1. bits - 1 \in Nat /\ bits - 1 + 1 = bits /\ 2 \in Nat /\ 2 >= 2
    OBVIOUS
  <2>2. /\ Power(2)[bits - 1 + 1] = 2 * Power(2)[bits - 1]
        /\ {Power(2)[bits - 1]} \subseteq Nat \ {0}
    BY <2>1, PowerGrows
  <2> QED
    BY <2>1, <2>2
<1>2. Signed(n, bits) = ((n + half) % all) - half
  BY DEF Signed
<1> HIDE DEF half, all
<1>3. (n + half) % all \in 0 .. all - 1
  BY <1>1
<1>4. ASSUME n \in - half .. half - 1 PROVE (n + half) % all = n + half
  <2>1. n + half \in 0 .. all - 1
    BY <1>1, <1>4
  <2> QED
    BY <1>1, <2>1
<1>5. Signed(n, bits) \in - half .. half - 1
  BY <1>1, <1>2, <1>3
<1>6. n \in - half .. half - 1 => Signed(n, bits) = n
  BY <1>1, <1>2, <1>4
<1> QED
  BY <1>1, <1>5, <1>6 DEF half, all

-----------------------------------------------------------------------------
(* The buffer, and the value returned.                                     *)

(* The part of the text that the buffer holds, before the end and after it. *)
Filled ==
  \A k \in Memory : buffer[k] = IF k < idx /\ k < call.maxlen THEN text[k + 1] ELSE "old"

IInv ==
  /\ call \in Calls /\ format \in Seq(Items(call)) /\ text \in Seq(Characters) /\ idx = Len(text)
  /\ DOMAIN buffer = Memory
  /\ call.out = "buffer" /\ ret = NULL => Filled
  /\ format # <<>> => ret = NULL
  /\ OutputContract

(* What _out_buffer does to each byte.                                     *)
LEMMA StoredByte ==
  ASSUME NEW chars, NEW at, NEW maxlen, NEW k \in Memory
  PROVE  Stored(chars, at, maxlen)[k] =
           IF k \in at .. at + Len(chars) - 1 /\ k < maxlen THEN chars[k - at + 1] ELSE buffer[k]
  BY DEF Stored

(* A buffer of size 0 has no last character: the index wraps around.       *)
LEMMA LastIndexIs ==
  ASSUME IInv, call.maxlen \in Nat
  PROVE  LastIndex = IF idx < call.maxlen THEN idx
                     ELSE IF call.maxlen = 0 THEN SizeMax ELSE call.maxlen - 1
<1>1. SizeMax \in Nat /\ call.maxlen \in 0 .. SizeMax
  BY PrintfAssumption DEF IInv
<1>2. CASE idx < call.maxlen
  BY <1>2 DEF LastIndex
<1>3. CASE ~ (idx < call.maxlen) /\ call.maxlen = 0
  <2>1. (0 - 1) % (SizeMax + 1) = SizeMax
    BY <1>1
  <2> QED
    BY <1>3, <2>1 DEF LastIndex
<1>4. CASE ~ (idx < call.maxlen) /\ call.maxlen # 0
  <2>1. (call.maxlen - 1) % (SizeMax + 1) = call.maxlen - 1
    BY <1>1, <1>4
  <2> QED
    BY <1>4, <2>1 DEF LastIndex
<1> QED
  BY <1>2, <1>3, <1>4

(* A character or a conversion goes behind the text so far.                *)
LEMMA ItemKept ==
  ASSUME IInv, Item
  PROVE  IInv'
<1> DEFINE chars == Converted(Head(format))
<1>1. /\ format # <<>> /\ call' = call /\ ret' = ret /\ format' = Tail(format)
      /\ idx' = idx + Len(chars) /\ text' = text \o chars
      /\ buffer' = IF call.out = "buffer" THEN Stored(chars, idx, call.maxlen) ELSE buffer
  BY DEF Item, Out
<1>2. Head(format) \in Items(call) /\ format' \in Seq(Items(call))
  <2>1. format \in Seq(Items(call)) /\ Items(call)' = Items(call)
    BY <1>1 DEF IInv, Items
  <2> QED
    BY <1>1, <2>1
<1>3. chars \in Seq(Characters)
  BY <1>2, ConversionAssumption DEF IInv
<1> HIDE DEF chars
<1>4. text \in Seq(Characters) /\ idx = Len(text) /\ Len(text) \in Nat /\ Len(chars) \in Nat
  BY <1>3 DEF IInv
<1>5. /\ text' \in Seq(Characters) /\ Len(text') = Len(text) + Len(chars)
      /\ \A k \in 1 .. Len(text) + Len(chars) :
           text'[k] = IF k <= Len(text) THEN text[k] ELSE chars[k - Len(text)]
  BY <1>1, <1>3, <1>4
<1>6. DOMAIN buffer' = Memory
  BY <1>1 DEF IInv, Stored
<1>7. ret' = NULL /\ OutputContract'
  BY <1>1 DEF IInv, OutputContract
<1>8. ASSUME call'.out = "buffer" PROVE Filled'
  <2>1. Filled /\ buffer' = Stored(chars, idx, call.maxlen)
    BY <1>1, <1>7, <1>8 DEF IInv
  <2>2. Memory \subseteq Nat /\ call.maxlen \in Nat
    BY PrintfAssumption DEF IInv
  <2>3. ASSUME NEW k \in Memory
        PROVE  buffer'[k] = IF k < idx' /\ k < call.maxlen THEN text'[k + 1] ELSE "old"
    <3>1. k \in Nat /\ buffer'[k] = IF k \in idx .. idx + Len(chars) - 1 /\ k < call.maxlen
                                     THEN chars[k - idx + 1] ELSE buffer[k]
      BY <2>1, <2>2, StoredByte
    <3>2. CASE k < idx
      <4>1. text'[k + 1] = text[k + 1]
        BY <1>4, <1>5, <3>1, <3>2
      <4> QED
        BY <1>1, <1>4, <2>1, <2>2, <3>1, <3>2, <4>1 DEF Filled
    <3>3. CASE k \in idx .. idx + Len(chars) - 1
      <4>1. text'[k + 1] = chars[k - idx + 1]
        BY <1>4, <1>5, <3>1, <3>3
      <4> QED
        BY <1>1, <1>4, <2>1, <2>2, <3>1, <3>3, <4>1 DEF Filled
    <3>4. CASE k >= idx + Len(chars)
      BY <1>1, <1>4, <2>1, <2>2, <3>1, <3>4 DEF Filled
    <3> QED
      BY <1>4, <3>1, <3>2, <3>3, <3>4
  <2> QED
    BY <1>1, <2>3 DEF Filled
<1> QED
  <2>1. call' \in Calls /\ idx' = Len(text')
    BY <1>1, <1>4, <1>5 DEF IInv
  <2> QED
    BY <1>1, <1>2, <1>5, <1>6, <1>7, <1>8, <2>1 DEF IInv

(* The terminating character goes behind the text, or over its last        *)
(* character that the buffer holds.                                        *)
LEMMA TerminateKept ==
  ASSUME IInv, Terminate
  PROVE  IInv'
<1>1. /\ format = <<>> /\ ret = NULL /\ call' = call /\ ret' = Signed(idx, IntBits) /\ format' = format
      /\ idx' = idx /\ text' = text
      /\ buffer' = IF call.out = "buffer" THEN Stored(<<NUL>>, LastIndex, call.maxlen) ELSE buffer
  BY DEF Terminate, Out
<1>2. /\ text \in Seq(Characters) /\ idx = Len(text) /\ idx \in Nat
      /\ Memory \subseteq Nat /\ Memory \subseteq 0 .. SizeMax - 1 /\ call.maxlen \in Nat /\ SizeMax \in Nat
  BY PrintfAssumption DEF IInv
<1>3. DOMAIN buffer' = Memory
  BY <1>1 DEF IInv, Stored
<1>4. /\ Power(2)[IntBits - 1] \in Nat \ {0} /\ Signed(idx, IntBits) \in Int
      /\ idx \in - Power(2)[IntBits - 1] .. Power(2)[IntBits - 1] - 1 => Signed(idx, IntBits) = idx
  <2>1. idx \in Int /\ IntBits \in Nat \ {0}
    BY <1>2, PrintfAssumption
  <2>2. /\ Power(2)[IntBits - 1] \in Nat \ {0}
        /\ Signed(idx, IntBits) \in - Power(2)[IntBits - 1] .. Power(2)[IntBits - 1] - 1
        /\ idx \in - Power(2)[IntBits - 1] .. Power(2)[IntBits - 1] - 1 => Signed(idx, IntBits) = idx
    BY <2>1, SignedIs
  <2> QED
    BY <2>2
<1>5. OutputContract'
  <2>0. Len(text) < Power(2)[IntBits - 1] => ret' = Len(text)
    <3>1. - Power(2)[IntBits - 1] <= idx
      BY <1>2, <1>4
    <3> QED
      BY <1>1, <1>2, <1>4, <3>1
  <2> SUFFICES ASSUME call.out = "buffer", NEW k \in Memory
               PROVE  buffer'[k] = IF k < Least(idx, call.maxlen - 1) THEN text[k + 1]
                                   ELSE IF k = Least(idx, call.maxlen - 1) THEN NUL ELSE "old"
    BY <1>1, <1>2, <2>0 DEF OutputContract
  <2>1. /\ k \in Nat /\ k < SizeMax
        /\ buffer[k] = IF k < idx /\ k < call.maxlen THEN text[k + 1] ELSE "old"
    BY <1>1, <1>2 DEF IInv, Filled
  <2>2. LastIndex \in Nat /\ LastIndex = IF idx < call.maxlen THEN idx
                     ELSE IF call.maxlen = 0 THEN SizeMax ELSE call.maxlen - 1
    BY <1>2, LastIndexIs
  <2>3. buffer'[k] = IF k = LastIndex /\ k < call.maxlen THEN NUL ELSE buffer[k]
    <3> DEFINE nul == <<NUL>>
    <3>1. Len(nul) = 1 /\ nul[1] = NUL /\ buffer' = Stored(nul, LastIndex, call.maxlen)
      BY <1>1
    <3> HIDE DEF nul
    <3>2. Stored(nul, LastIndex, call.maxlen)[k] =
            IF k \in LastIndex .. LastIndex + Len(nul) - 1 /\ k < call.maxlen
            THEN nul[k - LastIndex + 1] ELSE buffer[k]
      BY StoredByte
    <3>3. k \in LastIndex .. LastIndex + Len(nul) - 1 <=> k = LastIndex
      BY <2>1, <2>2, <3>1
    <3> QED
      BY <2>1, <2>2, <3>1, <3>2, <3>3
  <2>4. Least(idx, call.maxlen - 1) = IF idx < call.maxlen THEN idx ELSE call.maxlen - 1
    BY <1>2 DEF Least
  <2> QED
    BY <1>2, <2>1, <2>2, <2>3, <2>4
<1> QED
  <2>1. Items(call') = Items(call) /\ ret' # NULL
    BY <1>1, <1>4, PrintfAssumption
  <2> QED
    BY <1>1, <1>3, <1>5, <2>1 DEF IInv

(* While the call runs the buffer holds the text as far as it fits; once   *)
(* it has returned, the contract holds.                                    *)
THEOREM PrintfInvariant == Spec => []IInv
<1>1. Init => IInv
  <2> SUFFICES ASSUME Init PROVE IInv
    OBVIOUS
  <2>1. /\ call \in Calls /\ format \in Seq(Items(call)) /\ text = <<>> /\ idx = 0 /\ ret = NULL
        /\ buffer = [k \in Memory |-> "old"]
    BY ConversionAssumption DEF Init
  <2>2. <<>> \in Seq(Characters) /\ Len(<<>>) = 0
    OBVIOUS
  <2>3. Memory \subseteq Nat
    BY PrintfAssumption
  <2>4. Filled
    BY <2>1, <2>3 DEF Filled
  <2> QED
    BY <2>1, <2>2, <2>4 DEF IInv, OutputContract
<1>2. IInv /\ [Next]_vars => IInv'
  <2> SUFFICES ASSUME IInv, [Next]_vars PROVE IInv'
    OBVIOUS
  <2>1. CASE Next
    BY <2>1, ItemKept, TerminateKept DEF Next
  <2>2. CASE UNCHANGED vars
    BY <2>2 DEF vars, IInv, Filled, OutputContract, Items
  <2> QED
    BY <2>1, <2>2
<1> QED
  BY <1>1, <1>2, PTL DEF Spec

(* The value returned is the length of the whole text; the buffer holds    *)
(* all of it or a beginning, terminated, and nothing behind its size has   *)
(* been touched.                                                           *)
THEOREM PrintfOutputContract == Spec => []OutputContract
<1>1. IInv => OutputContract
  BY DEF IInv
<1> QED
  BY <1>1, PrintfInvariant, PTL
-----------------------------------------------------------------------------
(* A number in its type.                                                   *)

IsArgument(item) ==
  /\ item.spec \in {"d", "u", "x", "o", "b"}
  /\ item.value \in Int /\ item.bits \in 1 .. WordBits
  /\ item.width \in Int /\ item.prec \in Nat
  /\ "precision" \notin item.flags => item.prec = 0

(* The absolute value of a number of a signed type, and that of its least  *)
(* value too, although the type does not have it: what overflows in the    *)
(* signed type is right again in the unsigned one.                         *)
LEMMA AbsoluteValue ==
  ASSUME NEW bits \in Nat \ {0}, NEW w \in Nat, bits <= w,
         NEW value \in - Power(2)[bits - 1] .. Power(2)[bits - 1] - 1
  PROVE  Unsigned(IF value > 0 THEN value ELSE Signed(0 - value, w), w) = IF value < 0 THEN - value ELSE value
<1> DEFINE small == Power(2)[bits - 1]
           half  == Power(2)[w - 1]
           all   == Power(2)[w]
           minus == Signed(0 - value, w)
           result == Unsigned(IF value > 0 THEN value ELSE minus, w)
<1>1. w \in Nat \ {0} /\ bits - 1 \in Nat /\ w - 1 \in Nat /\ bits - 1 <= w - 1 /\ 2 \in Nat /\ 2 >= 2
  OBVIOUS
<1>2. small \in Nat \ {0} /\ half \in Nat \ {0} /\ small <= half
  <2>1. Power(2)[bits - 1] <= Power(2)[w - 1]
        /\ {Power(2)[bits - 1], Power(2)[w - 1]} \subseteq Nat \ {0}
    BY <1>1, PowerGrows
  <2> QED
    BY <2>1
<1>3. value \in Int /\ - small <= value /\ value < small
  <2>1. value \in - small .. small - 1
    OBVIOUS
  <2> HIDE DEF small
  <2> QED
    BY <1>2, <2>1
<1>4. /\ all = 2 * half /\ minus \in - half .. half - 1
      /\ 0 - value \in - half .. half - 1 => minus = 0 - value
  <2>1. 0 - value \in Int
    BY <1>3
  <2> QED
    BY <1>1, <2>1, SignedIs
<1>5. minus = ((0 - value + half) % all) - half
  BY DEF Signed
<1>6. result = (IF value > 0 THEN value ELSE minus) % all
  BY DEF Unsigned
<1> SUFFICES result = IF value < 0 THEN - value ELSE value
  OBVIOUS
<1> HIDE DEF small, half, all, minus, result
<1>7. \A n \in Int : n \in 0 .. all - 1 => n % all = n
  BY <1>2, <1>4
<1>8. CASE value > 0
  <2>1. value \in 0 .. all - 1 /\ result = value % all
    BY <1>2, <1>3, <1>4, <1>6, <1>8
  <2> QED
    BY <1>3, <1>7, <1>8, <2>1
<1>9. CASE value <= 0 /\ 0 - value < half
  <2>1. 0 - value \in 0 .. all - 1 /\ 0 - value \in - half .. half - 1 /\ result = minus % all
    BY <1>2, <1>3, <1>4, <1>6, <1>9
  <2>2. result = 0 - value
    BY <1>3, <1>4, <1>7, <2>1
  <2> QED
    BY <1>3, <1>9, <2>2
<1>10. CASE value <= 0 /\ 0 - value >= half
  <2>1. 0 - value = half
    BY <1>2, <1>3, <1>10
  <2>2. all % all = 0 /\ (- half) % all = half
    <3>1. all % all = 0
      BY <1>2, <1>4
    <3>2. (- half) % all = half
      BY <1>2, <1>4
    <3> QED
      BY <3>1, <3>2
  <2>3. minus = - half
    BY <1>2, <1>4, <1>5, <2>1, <2>2
  <2>4. result = half
    BY <1>3, <1>6, <1>10, <2>2, <2>3
  <2> QED
    BY <1>2, <1>3, <1>10, <2>1, <2>4
<1> QED
  BY <1>2, <1>3, <1>8, <1>9, <1>10

(* The cast yields the one value of the type that is congruent to the      *)
(* argument, and its magnitude has a number of digits.                     *)
LEMMA TypedIs ==
  ASSUME NEW item, IsArgument(item)
  PROVE  /\ Cast(item) = Typed(item) /\ Cast(item) \in Int /\ (item.spec # "d" => Cast(item) >= 0)
         /\ Magnitude(item) = (IF Cast(item) < 0 THEN - Cast(item) ELSE Cast(item))
         /\ Magnitude(item) \in Nat /\ Magnitude(item) < Power(2)[WordBits]
<1> DEFINE all  == Power(2)[item.bits]
           half == Power(2)[item.bits - 1]
           Values == IF item.spec = "d" THEN - half .. half - 1 ELSE 0 .. all - 1
<1>1. item.value \in Int /\ item.bits \in Nat \ {0} /\ item.bits - 1 \in Nat /\ item.bits <= WordBits /\ WordBits \in Nat
  BY PrintfAssumption DEF IsArgument
<1>2. all \in Nat \ {0} /\ half \in Nat \ {0} /\ all = 2 * half /\ all <= Power(2)[WordBits] /\ Power(2)[WordBits] \in Nat
  <2>1. item.bits - 1 + 1 = item.bits
    BY <1>1
  <2> HIDE DEF all, half
  <2>2. 2 \in Nat /\ 2 >= 2
    OBVIOUS
  <2>3. /\ Power(2)[item.bits - 1 + 1] = 2 * Power(2)[item.bits - 1]
        /\ Power(2)[item.bits - 1] \in Nat \ {0}
    BY <1>1, <2>2, PowerGrows
  <2>4. /\ Power(2)[item.bits] <= Power(2)[WordBits]
        /\ {Power(2)[item.bits], Power(2)[WordBits]} \subseteq Nat \ {0}
    BY <1>1, <2>2, PowerGrows
  <2> QED
    BY <2>1, <2>3, <2>4 DEF all, half
<1>4. Cast(item) = IF item.spec = "d" THEN ((item.value + half) % all) - half ELSE item.value % all
  BY DEF Cast, Signed, Unsigned
<1>5. Cast(item) \in Values /\ (item.value - Cast(item)) % all = 0
  <2> HIDE DEF all, half
  <2>0. \A y \in Int : y % all \in 0 .. all - 1 /\ y = all * (y \div all) + (y % all) /\ y \div all \in Int
    BY <1>2
  <2>1. ASSUME NEW y \in Int PROVE y % all \in 0 .. all - 1 /\ (y - (y % all)) % all = 0
    <3>1. y % all \in 0 .. all - 1 /\ y = all * (y \div all) + (y % all) /\ y \div all \in Int
      BY <2>0
    <3>2. ASSUME NEW z \in Int PROVE (all * z) % all = 0
      <4>1. /\ all * z \in Int /\ (all * z) % all \in 0 .. all - 1 /\ (all * z) \div all \in Int
            /\ all * z = all * ((all * z) \div all) + ((all * z) % all)
        <5>1. all * z \in Int
          BY <1>2
        <5> QED
          BY <2>0, <5>1
      <4> DEFINE w == (all * z) \div all
                 r == (all * z) % all
      <4>2. r = all * (z - w) /\ w \in Int /\ r \in 0 .. all - 1
        BY <1>2, <4>1
      <4> HIDE DEF w, r
      <4>3. CASE z - w >= 1
        <5>1. all * (z - w) >= all
          BY <1>2, <4>2, <4>3
        <5> QED
          BY <1>2, <4>2, <5>1
      <4>4. CASE z - w <= -1
        <5>1. all * (z - w) <= - all
          BY <1>2, <4>2, <4>4
        <5> QED
          BY <1>2, <4>2, <5>1
      <4>5. CASE z - w = 0
        BY <1>2, <4>2, <4>5 DEF r
      <4> QED
        BY <4>2, <4>3, <4>4, <4>5
    <3>3. y - (y % all) = all * (y \div all)
      BY <1>2, <3>1
    <3> QED
      BY <3>1, <3>2, <3>3
  <2>2. CASE item.spec = "d"
    <3> DEFINE y == item.value + half
    <3>1. y \in Int
      BY <1>1, <1>2
    <3>2. y % all \in 0 .. all - 1 /\ (y - (y % all)) % all = 0
      BY <2>1, <3>1
    <3>3. Cast(item) = (y % all) - half
      BY <1>4, <2>2
    <3>4. item.value - Cast(item) = y - (y % all)
      BY <1>1, <1>2, <3>2, <3>3
    <3>5. Cast(item) \in - half .. half - 1
      <4> HIDE DEF y
      <4> QED
        BY <1>2, <3>2, <3>3
    <3> QED
      BY <2>2, <3>2, <3>4, <3>5 DEF all, half
  <2>3. CASE item.spec # "d"
    BY <1>1, <1>4, <2>1, <2>3 DEF all
  <2> QED
    BY <2>2, <2>3
<1>6. Typed(item) = CHOOSE v \in Values : (item.value - v) % all = 0
  BY DEF Typed
<1>7. Typed(item) \in Values /\ (item.value - Typed(item)) % all = 0
  <2> HIDE DEF Values, all
  <2> QED
    BY <1>5, <1>6, Zenon
<1>8. Cast(item) = Typed(item)
  <2> HIDE DEF all, half
  <2> DEFINE c == Cast(item)
             t == Typed(item)
  <2>1. c \in Values /\ t \in Values /\ (item.value - c) % all = 0 /\ (item.value - t) % all = 0
    BY <1>5, <1>7
  <2> HIDE DEF c, t
  <2>2. c \in Int /\ t \in Int /\ c - t < all /\ t - c < all
    BY <1>2, <2>1
  <2>3. c = t
    BY <1>1, <1>2, <2>1, <2>2, CongruentApart
  <2> QED
    BY <2>3 DEF c, t
<1>9. /\ Cast(item) \in Int /\ (item.spec # "d" => Cast(item) >= 0)
      /\ Cast(item) < all /\ - Cast(item) < all
  <2> HIDE DEF all, half
  <2> DEFINE c == Cast(item)
  <2>1. c \in Values
    BY <1>5
  <2> HIDE DEF c
  <2>2. c \in Int /\ (item.spec # "d" => c >= 0) /\ c < all /\ - c < all
    BY <1>2, <2>1
  <2> QED
    BY <2>2 DEF c
<1>10. Magnitude(item) = IF Cast(item) < 0 THEN - Cast(item) ELSE Cast(item)
  <2> DEFINE value == Cast(item)
             bits  == Promoted(item.bits)
  <2>1. CASE item.spec = "d"
    <3>1. value \in - Power(2)[item.bits - 1] .. Power(2)[item.bits - 1] - 1
      BY <1>5, <2>1
    <3>2. bits \in Nat /\ item.bits <= bits /\ item.bits \in Nat \ {0}
      BY <1>1, PrintfAssumption DEF Promoted
    <3>3. Magnitude(item) = Unsigned(IF value > 0 THEN value ELSE Signed(0 - value, bits), bits)
      BY <2>1, Zenon DEF Magnitude
    <3> HIDE DEF value, bits
    <3>4. Magnitude(item) = IF value < 0 THEN - value ELSE value
      BY <3>1, <3>2, <3>3, AbsoluteValue
    <3> QED
      BY <3>4 DEF value
  <2>2. CASE item.spec # "d"
    BY <1>9, <2>2 DEF Magnitude
  <2> QED
    BY <2>1, <2>2
<1> QED
  <2> HIDE DEF all
  <2>1. Magnitude(item) \in Nat /\ Magnitude(item) < all
    BY <1>2, <1>9, <1>10
  <2> QED
    BY <1>2, <1>8, <1>9, <1>10, <2>1

-----------------------------------------------------------------------------
(* Runs of one character, and what is put out from its end.                *)

LEMMA RepeatIs ==
  ASSUME NEW S, NEW char \in S, NEW n \in Int
  PROVE  /\ Repeat(char, n) \in Seq(S) /\ Len(Repeat(char, n)) = (IF n > 0 THEN n ELSE 0)
         /\ \A k \in 1 .. Len(Repeat(char, n)) : Repeat(char, n)[k] = char
         /\ n <= 0 => Repeat(char, n) = <<>>
  BY DEF Repeat

LEMMA BackwardsIs ==
  ASSUME NEW S, NEW s \in Seq(S)
  PROVE  /\ Backwards(s) \in Seq(S) /\ Len(Backwards(s)) = Len(s) /\ Len(s) \in Nat
         /\ \A k \in 1 .. Len(s) : Backwards(s)[k] = s[Len(s) + 1 - k]
  BY DEF Backwards

LEMMA BackwardsOfConcat ==
  ASSUME NEW S, NEW s \in Seq(S), NEW t \in Seq(S)
  PROVE  Backwards(s \o t) = Backwards(t) \o Backwards(s)
<1> DEFINE u == s \o t
<1>1. /\ u \in Seq(S) /\ Len(s) \in Nat /\ Len(t) \in Nat /\ Len(u) = Len(s) + Len(t)
      /\ \A k \in 1 .. Len(u) : u[k] = IF k <= Len(s) THEN s[k] ELSE t[k - Len(s)]
  OBVIOUS
<1>2. /\ Backwards(s) \in Seq(S) /\ Len(Backwards(s)) = Len(s)
      /\ \A k \in 1 .. Len(s) : Backwards(s)[k] = s[Len(s) + 1 - k]
  BY BackwardsIs
<1>3. /\ Backwards(t) \in Seq(S) /\ Len(Backwards(t)) = Len(t)
      /\ \A k \in 1 .. Len(t) : Backwards(t)[k] = t[Len(t) + 1 - k]
  BY BackwardsIs
<1> HIDE DEF u
<1>4. /\ Backwards(u) \in Seq(S) /\ Len(Backwards(u)) = Len(u)
      /\ \A k \in 1 .. Len(u) : Backwards(u)[k] = u[Len(u) + 1 - k]
  BY <1>1, BackwardsIs
<1> DEFINE r == Backwards(s)
           q == Backwards(t)
           p == q \o r
<1>5. /\ p \in Seq(S) /\ Len(p) = Len(t) + Len(s)
      /\ \A k \in 1 .. Len(p) : p[k] = IF k <= Len(q) THEN q[k] ELSE r[k - Len(q)]
  <2>1. q \in Seq(S) /\ r \in Seq(S) /\ Len(q) = Len(t) /\ Len(r) = Len(s)
    BY <1>2, <1>3
  <2> HIDE DEF q, r
  <2>2. /\ q \o r \in Seq(S) /\ Len(q \o r) = Len(q) + Len(r)
        /\ \A k \in 1 .. Len(q) + Len(r) : (q \o r)[k] = IF k <= Len(q) THEN q[k] ELSE r[k - Len(q)]
    BY <2>1, ConcatProperties
  <2> QED
    BY <2>1, <2>2
<1>6. ASSUME NEW k \in 1 .. Len(u) PROVE Backwards(u)[k] = p[k]
  <2>1. Backwards(u)[k] = u[Len(u) + 1 - k] /\ Len(u) + 1 - k \in 1 .. Len(u)
    BY <1>1, <1>4
  <2>2. CASE k <= Len(t)
    <3>1. u[Len(u) + 1 - k] = t[Len(t) + 1 - k]
      <4>1. ~ (Len(u) + 1 - k <= Len(s)) /\ Len(u) + 1 - k - Len(s) = Len(t) + 1 - k
        BY <1>1, <2>2
      <4> QED
        BY <1>1, <2>1, <4>1
    <3>2. p[k] = q[k] /\ q[k] = t[Len(t) + 1 - k]
      BY <1>1, <1>3, <1>5, <2>2
    <3> QED
      BY <2>1, <3>1, <3>2
  <2>3. CASE k > Len(t)
    <3>1. u[Len(u) + 1 - k] = s[Len(s) + 1 - (k - Len(t))]
      <4>1. Len(u) + 1 - k <= Len(s) /\ Len(u) + 1 - k = Len(s) + 1 - (k - Len(t))
        BY <1>1, <2>3
      <4> QED
        BY <1>1, <2>1, <4>1
    <3>2. k - Len(t) \in 1 .. Len(s) /\ k \in 1 .. Len(p) /\ ~ (k <= Len(q)) /\ Len(q) = Len(t)
      BY <1>1, <1>3, <1>5, <2>3
    <3>3. p[k] = r[k - Len(t)] /\ r[k - Len(t)] = s[Len(s) + 1 - (k - Len(t))]
      <4>1. p[k] = r[k - Len(q)]
        <5> HIDE DEF p, q, r
        <5> QED
          BY <1>5, <3>2
      <4>2. r[k - Len(t)] = s[Len(s) + 1 - (k - Len(t))]
        BY <1>2, <3>2
      <4> QED
        BY <3>2, <4>1, <4>2
    <3> QED
      BY <2>1, <3>1, <3>3
  <2> HIDE DEF p
  <2>4. k \in Int /\ Len(t) \in Int
    BY <1>1
  <2> QED
    BY <2>2, <2>3, <2>4
<1>7. Backwards(u) = p
  <2>1. Len(Backwards(u)) = Len(p) /\ \A k \in 1 .. Len(Backwards(u)) : Backwards(u)[k] = p[k]
    BY <1>1, <1>4, <1>5, <1>6
  <2> HIDE DEF p
  <2> QED
    BY <1>4, <1>5, <2>1, SeqEqual
<1> QED
  BY <1>7 DEF u

LEMMA BackwardsOfRepeat ==
  ASSUME NEW S, NEW char \in S, NEW n \in Int
  PROVE  Backwards(Repeat(char, n)) = Repeat(char, n)
<1> DEFINE s == Repeat(char, n)
<1>1. s \in Seq(S) /\ Len(s) \in Nat /\ \A k \in 1 .. Len(s) : s[k] = char
  BY RepeatIs
<1> HIDE DEF s
<1>2. /\ Backwards(s) \in Seq(S) /\ Len(Backwards(s)) = Len(s)
      /\ \A k \in 1 .. Len(s) : Backwards(s)[k] = s[Len(s) + 1 - k]
  BY <1>1, BackwardsIs
<1>3. ASSUME NEW k \in 1 .. Len(s) PROVE Backwards(s)[k] = s[k]
  <2>1. Len(s) + 1 - k \in 1 .. Len(s)
    BY <1>1
  <2> QED
    BY <1>1, <1>2, <2>1
<1>4. Backwards(s) = s
  BY <1>1, <1>2, <1>3, SeqEqual
<1> QED
  BY <1>4 DEF s

(* Zeros behind collected digits come out before them, after a sign.       *)
LEMMA BackwardsOfNumber ==
  ASSUME NEW S, "0" \in S, NEW buf \in Seq(S), NEW sign \in Seq(S), Len(sign) <= 1, NEW n \in Int
  PROVE  Backwards((buf \o Repeat("0", n)) \o sign) = sign \o (Repeat("0", n) \o Backwards(buf))
<1> DEFINE zeros == Repeat("0", n)
<1>1. zeros \in Seq(S) /\ Backwards(zeros) = zeros
  BY RepeatIs, BackwardsOfRepeat
<1> HIDE DEF zeros
<1>2. buf \o zeros \in Seq(S) /\ Backwards(buf \o zeros) = zeros \o Backwards(buf)
  <2>1. buf \o zeros \in Seq(S)
    BY <1>1
  <2> QED
    BY <1>1, <2>1, BackwardsOfConcat
<1>3. Backwards(sign) = sign
  <2>1. /\ Backwards(sign) \in Seq(S) /\ Len(Backwards(sign)) = Len(sign) /\ Len(sign) \in Nat
        /\ \A k \in 1 .. Len(sign) : Backwards(sign)[k] = sign[Len(sign) + 1 - k]
    BY BackwardsIs
  <2>2. \A k \in 1 .. Len(sign) : Len(sign) + 1 - k = k
    BY <2>1
  <2> QED
    BY <2>1, <2>2, SeqEqual
<1>4. Backwards((buf \o zeros) \o sign) = Backwards(sign) \o Backwards(buf \o zeros)
  BY <1>2, BackwardsOfConcat
<1> QED
  BY <1>2, <1>3, <1>4 DEF zeros

-----------------------------------------------------------------------------
(* What _ntoa_format makes of the digits, without the prefix.              *)

(* The solver has no name for a string that is a blank. *)
Blank == " "

LEMMA SignIs ==
  ASSUME NEW S, {"0", Blank, "-", "+"} \subseteq S, NEW flags, NEW negative \in BOOLEAN
  PROVE  /\ Sign(flags, negative) \in Seq(S) /\ Len(Sign(flags, negative)) \in 0 .. 1
         /\ Len(Sign(flags, negative)) <= 1
         /\ Len(Sign(flags, negative)) = 1 <=> negative \/ flags \cap {"plus", "space"} # {}
         /\ Len(Sign(flags, negative)) = 0 => Sign(flags, negative) = <<>>
<1>1. \A char \in S : <<char>> \in Seq(S) /\ Len(<<char>>) = 1
  OBVIOUS
<1>2. <<>> \in Seq(S) /\ Len(<<>>) = 0
  OBVIOUS
<1>3. {"-", "+", Blank} \subseteq S
  OBVIOUS
<1>4. 1 \in 0 .. 1 /\ 0 \in 0 .. 1 /\ 0 # 1 /\ 1 <= 1 /\ 0 <= 1
  OBVIOUS
<1>5. CASE negative \/ flags \cap {"plus", "space"} # {}
  <2>1. PICK char \in {"-", "+", Blank} : Sign(flags, negative) = <<char>>
    BY <1>5, Zenon DEF Sign, Blank
  <2>2. char \in S
    BY <1>3, <2>1, Zenon
  <2> QED
    BY <1>1, <1>4, <1>5, <2>1, <2>2, Zenon
<1>6. CASE ~ negative /\ flags \cap {"plus", "space"} = {}
  <2>1. "plus" \notin flags /\ "space" \notin flags
    BY <1>6, Zenon
  <2>2. Sign(flags, negative) = <<>>
    BY <1>6, <2>1, Zenon DEF Sign, Blank
  <2> QED
    BY <1>2, <1>4, <1>6, <2>2, Zenon
<1> QED
  BY <1>5, <1>6, Zenon

LEMMA PadToIs ==
  ASSUME NEW S, {"0", Blank, "-", "+"} \subseteq S, NEW buf \in Seq(S), NEW n \in Int
  PROVE  /\ PadTo(buf, "0", n) \in Seq(S)
         /\ PadTo(buf, "0", n) = buf \o Repeat("0", n - Len(buf))
         /\ Len(PadTo(buf, "0", n)) = IF n > Len(buf) THEN n ELSE Len(buf)
         /\ n <= Len(buf) => PadTo(buf, "0", n) = buf
<1> DEFINE zeros == Repeat("0", n - Len(buf))
<1>1. PadTo(buf, "0", n) = buf \o zeros
  BY DEF PadTo
<1>2. "0" \in S /\ Len(buf) \in Nat /\ n - Len(buf) \in Int
  <2>1. "0" \in S
    OBVIOUS
  <2> QED
    BY <2>1
<1>3. /\ zeros \in Seq(S) /\ Len(zeros) = (IF n - Len(buf) > 0 THEN n - Len(buf) ELSE 0)
      /\ n - Len(buf) <= 0 => zeros = <<>>
  BY <1>2, RepeatIs
<1> HIDE DEF zeros
<1>4. buf \o zeros \in Seq(S) /\ Len(buf \o zeros) = Len(buf) + Len(zeros)
  BY <1>3, ConcatProperties
<1>5. buf \o <<>> = buf
  BY ConcatEmptySeq
<1>6. /\ PadTo(buf, "0", n) \in Seq(S)
      /\ Len(PadTo(buf, "0", n)) = IF n > Len(buf) THEN n ELSE Len(buf)
      /\ n <= Len(buf) => PadTo(buf, "0", n) = buf
  <2>1. CASE n > Len(buf)
    <3>1. Len(buf) + Len(zeros) = n /\ ~ (n <= Len(buf))
      BY <1>2, <1>3, <2>1
    <3> QED
      BY <1>1, <1>4, <2>1, <3>1, Zenon
  <2>2. CASE ~ (n > Len(buf))
    <3>1. zeros = <<>>
      BY <1>2, <1>3, <2>2
    <3>2. PadTo(buf, "0", n) = buf
      BY <1>1, <1>5, <3>1, Zenon
    <3> QED
      BY <1>2, <2>2, <3>2
  <2> QED
    BY <2>1, <2>2
<1> QED
  BY <1>1, <1>6, Zenon DEF zeros

(* What is to come out: the digits in order, behind the sign, with the     *)
(* zeros between the two and the spaces outside of them.                   *)
Formatted(result, buf, prec, width, flags, sign) ==
  LET gap == width - Len(sign) - Len(buf)
  IN  /\ "left" \in flags => result = (sign \o Backwards(buf)) \o Repeat(Blank, gap)
      /\ "left" \notin flags /\ "zeropad" \in flags => result = sign \o (Repeat("0", gap) \o Backwards(buf))
      /\ "left" \notin flags /\ "zeropad" \notin flags =>
           \A number :
             number = Repeat("0", prec - Len(buf)) \o Backwards(buf) =>
               result = Repeat(Blank, width - Len(sign) - Len(number)) \o (sign \o number)

(* Zeros, the sign and the spaces have their places, and everything fits.  *)
LEMMA NtoaFormatIs ==
  ASSUME NEW S, {"0", Blank, "-", "+"} \subseteq S, NEW buf \in Seq(S), Len(buf) < NtoaSize,
         NEW negative \in BOOLEAN, NEW base,
         NEW prec \in 0 .. NtoaSize - 1, NEW width \in Nat, NEW flags, "hash" \notin flags,
         "left" \in flags \/ "zeropad" \in flags => prec = 0,
         "zeropad" \in flags /\ "left" \notin flags => width <= NtoaSize
  PROVE  Formatted(NtoaFormat(buf, negative, base, prec, width, flags), buf, prec, width, flags,
                   Sign(flags, negative))
<1> DEFINE sign   == Sign(flags, negative)
           gap    == width - Len(sign) - Len(buf)
           result == NtoaFormat(buf, negative, base, prec, width, flags)
<1>1. sign = Sign(flags, negative) /\ gap = width - Len(sign) - Len(buf)
      /\ result = NtoaFormat(buf, negative, base, prec, width, flags)
  OBVIOUS
<1> SUFFICES
      /\ "left" \in flags => result = (sign \o Backwards(buf)) \o Repeat(Blank, gap)
      /\ "left" \notin flags /\ "zeropad" \in flags => result = sign \o (Repeat("0", gap) \o Backwards(buf))
      /\ "left" \notin flags /\ "zeropad" \notin flags =>
           \A number :
             number = Repeat("0", prec - Len(buf)) \o Backwards(buf) =>
               result = Repeat(Blank, width - Len(sign) - Len(number)) \o (sign \o number)
  BY Zenon DEF Formatted
<1> HIDE DEF sign, gap, result
<1> DEFINE w     == SignPlace(flags, negative, width)
           zeros == Zeros(buf, prec, w, flags)
<1>2. /\ sign \in Seq(S) /\ Len(sign) \in 0 .. 1 /\ (Len(sign) = 0 => sign = <<>>) /\ Len(sign) <= 1
      /\ Len(sign) = 1 <=> negative \/ flags \cap {"plus", "space"} # {}
  BY <1>1, SignIs, Zenon
<1>3. Len(buf) \in Nat /\ NtoaSize \in Nat /\ "0" \in S /\ Blank \in S /\ gap \in Int
      /\ Len(sign) <= 1
  <2>1. Len(buf) \in Nat
    OBVIOUS
  <2>2. "0" \in S /\ Blank \in S
    OBVIOUS
  <2>3. gap \in Int
    BY <1>1, <1>2, <2>1
  <2> QED
    BY <1>2, <2>1, <2>2, <2>3, PrintfAssumption
<1>4. /\ w \in Nat
      /\ w = IF "zeropad" \in flags /\ "left" \notin flags /\ width > 0 THEN width - Len(sign) ELSE width
  <2>1. w = IF /\ width > 0 /\ "zeropad" \in flags /\ "left" \notin flags
               /\ negative \/ flags \cap {"plus", "space"} # {}
              THEN width - 1 ELSE width
    BY Zenon DEF SignPlace
  <2> HIDE DEF w
  <2>2. CASE Len(sign) = 1
    <3>1. negative \/ flags \cap {"plus", "space"} # {}
      BY <1>2, <2>2, Zenon
    <3> QED
      BY <2>1, <2>2, <3>1
  <2>3. CASE Len(sign) = 0
    <3>1. ~ (negative \/ flags \cap {"plus", "space"} # {})
      BY <1>2, <2>3
    <3> QED
      BY <2>1, <2>3, <3>1
  <2> QED
    BY <1>2, <2>2, <2>3
<1>5. \A n \in Int :
        /\ Repeat("0", n) \in Seq(S) /\ Len(Repeat("0", n)) = (IF n > 0 THEN n ELSE 0)
        /\ Backwards((buf \o Repeat("0", n)) \o sign) = sign \o (Repeat("0", n) \o Backwards(buf))
  <2> TAKE n \in Int
  <2>1. Repeat("0", n) \in Seq(S) /\ Len(Repeat("0", n)) = (IF n > 0 THEN n ELSE 0)
    BY <1>3, RepeatIs, Zenon
  <2>2. Backwards((buf \o Repeat("0", n)) \o sign) = sign \o (Repeat("0", n) \o Backwards(buf))
    BY <1>2, <1>3, BackwardsOfNumber, Zenon
  <2> QED
    BY <2>1, <2>2
<1>6. /\ Least(prec, NtoaSize) = prec
      /\ "zeropad" \in flags /\ "left" \notin flags => Least(w, NtoaSize) = w
  BY <1>2, <1>3, <1>4 DEF Least
<1> HIDE DEF w, zeros
<1>7. ASSUME zeros \in Seq(S), Len(zeros) < NtoaSize \/ sign = <<>>
      PROVE  result = OutRev(zeros \o sign, w, flags)
  <2>1. Prefix(zeros, base, prec, w, flags) = zeros
    BY DEF Prefix
  <2>2. (IF Len(zeros) < NtoaSize THEN sign ELSE <<>>) = sign
    BY <1>7
  <2> QED
    BY <2>1, <2>2 DEF NtoaFormat, w, zeros, result, sign
<1>8. CASE "left" \in flags
  <2>1. zeros = buf
    BY <1>8 DEF zeros, Zeros
  <2>2. result = OutRev(buf \o sign, w, flags)
    BY <1>7, <2>1
  <2>3. OutRev(buf \o sign, w, flags) = Backwards(buf \o sign) \o Repeat(Blank, w - Len(buf \o sign))
    BY <1>8, Zenon DEF OutRev, Blank
  <2>4. Len(buf \o sign) = Len(buf) + Len(sign) /\ w = width
    BY <1>2, <1>4, <1>8, ConcatProperties
  <2>5. Backwards(buf \o sign) = sign \o Backwards(buf)
    <3>1. buf \o Repeat("0", 0) = buf /\ Repeat("0", 0) = <<>>
      <4>1. Repeat("0", 0) = <<>>
        BY DEF Repeat
      <4>2. buf \o <<>> = buf
        BY ConcatEmptySeq
      <4> QED
        BY <4>1, <4>2
    <3>2. <<>> \o Backwards(buf) = Backwards(buf)
      BY BackwardsIs, ConcatEmptySeq
    <3>3. Backwards((buf \o Repeat("0", 0)) \o sign) = sign \o (Repeat("0", 0) \o Backwards(buf))
      <4>1. 0 \in Int
        OBVIOUS
      <4> QED
        BY <1>5, <4>1, Zenon
    <3> QED
      BY <3>1, <3>2, <3>3
  <2>6. w - Len(buf \o sign) = gap
    BY <1>1, <1>2, <1>3, <2>4
  <2> QED
    BY <1>8, <2>2, <2>3, <2>5, <2>6
<1>9. CASE "left" \notin flags /\ "zeropad" \in flags
  <2>1. zeros = PadTo(PadTo(buf, "0", 0), "0", w) /\ PadTo(buf, "0", 0) = buf
    <3>1. PadTo(buf, "0", 0) = buf
      BY <1>3, PadToIs
    <3> QED
      BY <1>6, <1>9, <3>1 DEF zeros, Zeros
  <2>2. /\ zeros \in Seq(S) /\ zeros = buf \o Repeat("0", w - Len(buf))
        /\ Len(zeros) = IF w > Len(buf) THEN w ELSE Len(buf)
    <3>1. w \in Int
      BY <1>4
    <3> QED
      BY <2>1, <3>1, PadToIs, Zenon
  <2>3. Len(zeros) < NtoaSize \/ sign = <<>>
    BY <1>2, <1>3, <1>4, <1>9, <2>2
  <2>4. result = OutRev(zeros \o sign, w, flags)
    BY <1>7, <2>2, <2>3
  <2>5. OutRev(zeros \o sign, w, flags) = Backwards(zeros \o sign)
    BY <1>9, Zenon DEF OutRev, Blank
  <2>6. Backwards(zeros \o sign) = sign \o (Repeat("0", w - Len(buf)) \o Backwards(buf))
    <3>1. w - Len(buf) \in Int
      BY <1>3, <1>4
    <3> QED
      BY <1>5, <2>2, <3>1
  <2>7. Repeat("0", w - Len(buf)) = Repeat("0", gap)
    <3>1. CASE width > 0
      <4>1. w - Len(buf) = gap
        BY <1>1, <1>2, <1>3, <1>4, <1>9, <3>1
      <4> QED
        BY <4>1
    <3>2. CASE width = 0
      <4>1. w - Len(buf) <= 0 /\ gap <= 0 /\ w - Len(buf) \in Int
        BY <1>1, <1>2, <1>3, <1>4, <1>9, <3>2
      <4> QED
        BY <1>3, <4>1, RepeatIs
    <3> QED
      BY <3>1, <3>2
  <2> QED
    BY <1>9, <2>4, <2>5, <2>6, <2>7
<1>10. CASE "left" \notin flags /\ "zeropad" \notin flags
  <2>1. /\ PadTo(buf, "0", prec) \in Seq(S)
        /\ PadTo(buf, "0", prec) = buf \o Repeat("0", prec - Len(buf))
        /\ Len(PadTo(buf, "0", prec)) = IF prec > Len(buf) THEN prec ELSE Len(buf)
    BY PadToIs
  <2>2. zeros = PadTo(buf, "0", prec)
    <3>1. zeros = PadTo(PadTo(buf, "0", prec), "0", 0)
      BY <1>6, <1>10 DEF zeros, Zeros
    <3> QED
      BY <1>3, <2>1, <3>1, PadToIs
  <2>3. result = OutRev(zeros \o sign, w, flags)
    BY <1>3, <1>7, <2>1, <2>2
  <2>4. OutRev(zeros \o sign, w, flags) = Repeat(Blank, w - Len(zeros \o sign)) \o Backwards(zeros \o sign)
    BY <1>10, Zenon DEF OutRev, Blank
  <2> DEFINE rest == Repeat("0", prec - Len(buf)) \o Backwards(buf)
  <2>5. Backwards(zeros \o sign) = sign \o rest
    <3>1. prec - Len(buf) \in Int
      BY <1>3
    <3> QED
      BY <1>5, <2>1, <2>2, <3>1 DEF rest
  <2>6. w - Len(zeros \o sign) = width - Len(sign) - Len(rest)
    <3>1. Len(zeros \o sign) = Len(zeros) + Len(sign)
      BY <1>2, <2>1, <2>2, ConcatProperties
    <3>2. /\ Repeat("0", prec - Len(buf)) \in Seq(S)
          /\ Len(Repeat("0", prec - Len(buf))) = (IF prec - Len(buf) > 0 THEN prec - Len(buf) ELSE 0)
      <4>1. prec - Len(buf) \in Int
        BY <1>3
      <4> QED
        BY <1>5, <4>1
    <3>3. Backwards(buf) \in Seq(S) /\ Len(Backwards(buf)) = Len(buf)
      BY BackwardsIs
    <3>4. Len(rest) = Len(Repeat("0", prec - Len(buf))) + Len(Backwards(buf))
      BY <3>2, <3>3, ConcatProperties
    <3> HIDE DEF rest
    <3>5. Len(rest) = Len(zeros)
      BY <1>3, <2>1, <2>2, <3>2, <3>3, <3>4
    <3>6. w = width /\ Len(zeros) \in Nat
      BY <1>3, <1>4, <1>10, <2>1, <2>2
    <3> QED
      BY <1>2, <3>1, <3>5, <3>6
  <2> HIDE DEF rest
  <2>7. ASSUME NEW number, number = Repeat("0", prec - Len(buf)) \o Backwards(buf)
        PROVE  result = Repeat(Blank, width - Len(sign) - Len(number)) \o (sign \o number)
    BY <2>3, <2>4, <2>5, <2>6, <2>7 DEF rest
  <2> QED
    BY <1>10, <2>7
<1> QED
  BY <1>8, <1>9, <1>10

-----------------------------------------------------------------------------
(* A number as a whole.                                                    *)

Symbols == {Letters[k] : k \in Int} \cup {"0", Blank, "-", "+"}

LEMMA DigitsIs ==
  ASSUME NEW base \in {2, 8, 10, 16}, NEW value \in Nat, value < Power(2)[WordBits],
         NEW n, n = DigitCount(value, base), n < NtoaSize
  PROVE  /\ n \in Nat \ {0} /\ Digits(value, base) \in Seq(Symbols) /\ Len(Digits(value, base)) = n
         /\ Backwards(Digits(value, base)) = [k \in 1 .. n |-> Letters[((value \div Power(base)[n - k]) % base) + 1]]
<1> DEFINE Letter(j) == Letters[((value \div Power(base)[j]) % base) + 1]
           d == Digits(value, base)
<1>1. base \in Nat /\ base >= 2 /\ base \in Nat \ {0} /\ WordBits \in Nat
  BY PrintfAssumption
<1>2. n \in Nat \ {0}
  <2>1. n \in 1 .. WordBits
    BY <1>1, DigitCountIs
  <2> QED
    BY <1>1, <2>1
<1>3. ASSUME NEW j \in Nat PROVE Letter(j) \in Symbols
  <2>1. Power(base)[j] \in Nat \ {0}
    BY <1>1, PowerIs
  <2>2. value \div Power(base)[j] \in Int
    BY <2>1
  <2>3. ((value \div Power(base)[j]) % base) + 1 \in Int
    BY <1>1, <2>2
  <2> QED
    BY <2>3, Zenon DEF Symbols
<1> HIDE DEF Letter
<1>4. d = [k \in 1 .. n |-> Letter(k - 1)]
  <2>1. Least(n, NtoaSize) = n
    BY <1>2, PrintfAssumption DEF Least
  <2> QED
    BY <2>1, Zenon DEF Digits, Letter
<1> HIDE DEF d
<1>5. \A k \in 1 .. n : k - 1 \in Nat
  BY <1>2
<1>6. d \in Seq(Symbols) /\ Len(d) = n
  BY <1>2, <1>3, <1>4, <1>5
<1>7. Backwards(d) = [k \in 1 .. n |-> Letter(n - k)]
  <2>1. Backwards(d) = [k \in 1 .. n |-> d[n + 1 - k]]
    BY <1>6, Zenon DEF Backwards
  <2>2. ASSUME NEW k \in 1 .. n PROVE d[n + 1 - k] = Letter(n - k)
    <3>1. n + 1 - k \in 1 .. n /\ n + 1 - k - 1 = n - k
      BY <1>2
    <3> DEFINE m == n + 1 - k
    <3>2. m \in 1 .. n /\ m - 1 = n - k
      BY <1>2
    <3> HIDE DEF m
    <3>3. d[m] = Letter(m - 1)
      BY <1>4, <3>2
    <3> QED
      BY <3>2, <3>3 DEF m
  <2> QED
    BY <2>1, <2>2, Zenon
<1> QED
  BY <1>2, <1>6, <1>7, Zenon DEF d, Letter

(* The flags of the conversion, and the sign they ask for.                 *)
LEMMA FlagsAre ==
  ASSUME NEW item, IsArgument(item), Supported(item), NEW flags, flags = Adjusted(item, Magnitude(item))
  PROVE  /\ "left" \in flags <=> item.width < 0 \/ "left" \in item.flags
         /\ "zeropad" \in flags <=> "zeropad" \in item.flags /\ "precision" \notin item.flags
         /\ "precision" \in flags <=> "precision" \in item.flags
         /\ "hash" \notin flags
         /\ "plus" \in flags <=> item.spec = "d" /\ "plus" \in item.flags
         /\ "space" \in flags <=> item.spec = "d" /\ "space" \in item.flags
  BY DEF Adjusted, Supported

LEMMA SignInC ==
  ASSUME NEW item, IsArgument(item), Supported(item), NEW flags, flags = Adjusted(item, Magnitude(item))
  PROVE  Sign(flags, Negative(item))
           = CASE Typed(item) < 0 -> <<"-">>
               [] item.spec = "d" /\ Typed(item) >= 0 /\ "plus" \in item.flags -> <<"+">>
               [] item.spec = "d" /\ Typed(item) >= 0 /\ item.flags \cap {"plus", "space"} = {"space"} -> <<Blank>>
               [] OTHER -> <<>>
<1>1. Negative(item) <=> Typed(item) < 0
  BY TypedIs, Zenon DEF Negative
<1>2. Typed(item) >= 0 <=> ~ (Typed(item) < 0)
  <2>1. Typed(item) \in Int
    BY TypedIs, Zenon
  <2> QED
    BY <2>1
<1>3. /\ "plus" \in flags <=> item.spec = "d" /\ "plus" \in item.flags
      /\ "space" \in flags <=> item.spec = "d" /\ "space" \in item.flags
  BY FlagsAre, Zenon
<1>4. item.flags \cap {"plus", "space"} = {"space"} <=> "plus" \notin item.flags /\ "space" \in item.flags
  OBVIOUS
<1>5. CASE Typed(item) < 0
  BY <1>1, <1>2, <1>5, Zenon DEF Sign
<1>6. CASE ~ (Typed(item) < 0) /\ "plus" \in flags
  BY <1>1, <1>2, <1>3, <1>4, <1>6, Zenon DEF Sign
<1>7. CASE ~ (Typed(item) < 0) /\ "plus" \notin flags /\ "space" \in flags
  BY <1>1, <1>2, <1>3, <1>4, <1>7, Zenon DEF Sign, Blank
<1>8. CASE ~ (Typed(item) < 0) /\ "plus" \notin flags /\ "space" \notin flags
  BY <1>1, <1>2, <1>3, <1>4, <1>8, Zenon DEF Sign
<1> QED
  BY <1>5, <1>6, <1>7, <1>8, Zenon

LEMMA NumberInC ==
  ASSUME NEW item, IsArgument(item), Supported(item)
  PROVE  Number(item) = InC(item)
<1> DEFINE value  == Magnitude(item)
           base   == Base(item.spec)
           flags  == Adjusted(item, value)
           count  == DigitCount(value, base)
           digits == IF "precision" \in flags /\ value = 0 THEN <<>> ELSE Digits(value, base)
           n      == IF value = 0 /\ "precision" \in item.flags THEN 0 ELSE count
           least  == IF "precision" \in item.flags THEN item.prec ELSE 1
           places == [k \in 1 .. n |-> Letters[((value \div Power(base)[n - k]) % base) + 1]]
           number == Repeat("0", least - n) \o places
           sign   == Sign(flags, Negative(item))
           gap    == Width(item) - Len(sign) - Len(number)
<1>1. /\ Cast(item) = Typed(item) /\ value \in Nat /\ value < Power(2)[WordBits]
      /\ value = IF Typed(item) < 0 THEN - Typed(item) ELSE Typed(item)
  <2>1. value = IF Typed(item) < 0 THEN - Typed(item) ELSE Typed(item)
    <3>1. Cast(item) = Typed(item)
      BY TypedIs, Zenon
    <3> QED
      BY <3>1, TypedIs, Zenon
  <2> QED
    BY <2>1, TypedIs, Zenon
<1>2. base \in {2, 8, 10, 16} /\ count < NtoaSize /\ NtoaSize \in Nat
  BY PrintfAssumption DEF Base, Supported
<1>3. /\ "left" \in flags <=> item.width < 0 \/ "left" \in item.flags
      /\ "zeropad" \in flags <=> "zeropad" \in item.flags /\ "precision" \notin item.flags
      /\ "precision" \in flags <=> "precision" \in item.flags
      /\ "hash" \notin flags
  BY FlagsAre, Zenon
<1>4. InC(item) =
        CASE item.width < 0 \/ "left" \in item.flags -> sign \o number \o Repeat(Blank, gap)
          [] item.width >= 0 /\ item.flags \cap {"left", "zeropad", "precision"} = {"zeropad"}
               -> sign \o Repeat("0", gap) \o number
          [] OTHER -> Repeat(Blank, gap) \o sign \o number
  BY <1>1, SignInC, Zenon DEF InC, Blank
<1>5. Number(item) = NtoaFormat(digits, Negative(item), base, item.prec, Width(item), flags)
  BY Zenon DEF Number
<1> HIDE DEF value, base, flags, sign
<1>6. count = DigitCount(value, base)
  OBVIOUS
<1> HIDE DEF count
<1>7. /\ value = 0 /\ "precision" \in item.flags => digits = <<>> /\ n = 0
      /\ ~ (value = 0 /\ "precision" \in item.flags) => digits = Digits(value, base) /\ n = count
  BY <1>3, Zenon
<1>8. places = [k \in 1 .. n |-> Letters[((value \div Power(base)[n - k]) % base) + 1]]
  OBVIOUS
<1> HIDE DEF digits, n, places
<1>9. /\ digits \in Seq(Symbols) /\ Len(digits) = n /\ n \in Nat /\ n < NtoaSize /\ Backwards(digits) = places
      /\ n = 0 => "precision" \in item.flags
  <2>1. CASE value = 0 /\ "precision" \in item.flags
    <3>1. digits = <<>> /\ n = 0
      BY <1>7, <2>1, Zenon
    <3>2. <<>> \in Seq(Symbols) /\ Len(<<>>) = 0 /\ 0 \in Nat /\ 0 < NtoaSize
      BY <1>2, PrintfAssumption
    <3>3. Backwards(digits) = places
      <4>1. Len(<<>>) = 0 /\ 1 .. 0 = {}
        OBVIOUS
      <4>2. Backwards(<<>>) = [k \in {} |-> <<>>[Len(<<>>) + 1 - k]]
        BY <4>1, Zenon DEF Backwards
      <4>3. places = [k \in {} |-> Letters[((value \div Power(base)[n - k]) % base) + 1]]
        BY <1>8, <3>1, <4>1, Zenon
      <4> QED
        BY <3>1, <4>2, <4>3
    <3> QED
      BY <2>1, <3>1, <3>2, <3>3, Zenon
  <2>2. CASE ~ (value = 0 /\ "precision" \in item.flags)
    <3>1. digits = Digits(value, base) /\ n = count
      BY <1>7, <2>2, Zenon
    <3>2. /\ count \in Nat \ {0} /\ Digits(value, base) \in Seq(Symbols) /\ Len(Digits(value, base)) = count
          /\ Backwards(Digits(value, base))
               = [k \in 1 .. count |-> Letters[((value \div Power(base)[count - k]) % base) + 1]]
      BY <1>1, <1>2, <1>6, DigitsIs, SMTT(60)
    <3>3. count \in Nat /\ count # 0
      BY <3>2
    <3> QED
      BY <1>2, <1>8, <3>1, <3>2, <3>3, Zenon
  <2> QED
    BY <2>1, <2>2, Zenon
<1>10. /\ item.prec \in 0 .. NtoaSize - 1 /\ Width(item) \in Nat
       /\ "left" \in flags \/ "zeropad" \in flags => item.prec = 0
       /\ "zeropad" \in flags /\ "left" \notin flags => Width(item) <= NtoaSize
       /\ "precision" \notin item.flags => item.prec = 0
       /\ "left" \in flags => "precision" \notin item.flags
  BY <1>2, <1>3 DEF IsArgument, Supported, Width
<1>11. {"0", Blank, "-", "+"} \subseteq Symbols
  BY Zenon DEF Symbols
<1>12. sign \in Seq(Symbols) /\ Len(sign) \in Nat /\ Negative(item) \in BOOLEAN
  <2>1. Negative(item) \in BOOLEAN
    BY DEF Negative
  <2>2. sign \in Seq(Symbols)
    BY <1>11, <2>1, SignIs, Zenon DEF sign
  <2> QED
    BY <2>1, <2>2
<1> DEFINE room == Width(item) - Len(sign) - Len(digits)
<1>13. /\ "left" \in flags => Number(item) = (sign \o places) \o Repeat(Blank, room)
       /\ "left" \notin flags /\ "zeropad" \in flags => Number(item) = sign \o (Repeat("0", room) \o places)
       /\ "left" \notin flags /\ "zeropad" \notin flags =>
            \A shown :
              shown = Repeat("0", item.prec - Len(digits)) \o places =>
                Number(item) = Repeat(Blank, Width(item) - Len(sign) - Len(shown)) \o (sign \o shown)
  <2>1. Len(digits) < NtoaSize /\ Backwards(digits) = places
    BY <1>9, Zenon
  <2> DEFINE N == NtoaFormat(digits, Negative(item), base, item.prec, Width(item), flags)
             S == Sign(flags, Negative(item))
  <2>2. Formatted(N, digits, item.prec, Width(item), flags, S)
    BY <1>3, <1>9, <1>10, <1>11, <1>12, <2>1, NtoaFormatIs, Zenon
  <2> QED
    BY <1>5, <2>1, <2>2, Zenon DEF sign, Formatted
<1>14. ASSUME NEW k \in Int
       PROVE  /\ Repeat("0", k) \in Seq(Symbols) /\ Repeat(Blank, k) \in Seq(Symbols)
              /\ k <= 0 => Repeat("0", k) = <<>>
  <2>1. "0" \in Symbols /\ Blank \in Symbols
    BY <1>11, Zenon
  <2> QED
    BY <2>1, RepeatIs, Zenon
<1>15. places \in Seq(Symbols) /\ Len(places) = n /\ item.prec - n \in Int
  <2>1. places \in Seq(Symbols) /\ Len(places) = n
    BY <1>9, BackwardsIs, Zenon
  <2> QED
    BY <1>9, <1>10, <2>1
<1>16. "precision" \notin item.flags => number = places
  <2> SUFFICES ASSUME "precision" \notin item.flags PROVE number = places
    OBVIOUS
  <2>1. least = 1
    OBVIOUS
  <2>2. 1 - n \in Int /\ 1 - n <= 0
    BY <1>9
  <2>3. Repeat("0", least - n) = <<>>
    BY <1>14, <2>1, <2>2, Zenon
  <2> QED
    BY <1>15, <2>3, ConcatEmptySeq, Zenon
<1>17. number = Repeat("0", item.prec - n) \o places /\ number \in Seq(Symbols)
  <2>1. CASE "precision" \in item.flags
    <3>1. least = item.prec
      BY <2>1
    <3> QED
      BY <1>14, <1>15, <3>1, ConcatProperties, Zenon
  <2>2. CASE "precision" \notin item.flags
    <3>1. item.prec - n <= 0
      BY <1>9, <1>10, <2>2
    <3>2. Repeat("0", item.prec - n) = <<>>
      BY <1>14, <1>15, <3>1, Zenon
    <3> QED
      BY <1>15, <1>16, <2>2, <3>2, ConcatEmptySeq, Zenon
  <2> QED
    BY <2>1, <2>2, Zenon
<1>18. Len(number) \in Nat /\ gap \in Int /\ room \in Int
  <2>1. Len(number) \in Nat
    BY <1>17, LenProperties, Zenon
  <2>2. Len(digits) \in Nat
    BY <1>9, Zenon
  <2> HIDE DEF number
  <2> QED
    BY <1>10, <1>12, <2>1, <2>2
<1>19. ASSUME NEW s \in Seq(Symbols), NEW t \in Seq(Symbols), NEW u \in Seq(Symbols)
       PROVE  (s \o t) \o u = s \o (t \o u)
  BY ConcatAssociative
<1>20. "precision" \notin item.flags => gap = room
  BY <1>15, <1>16, <1>9, Zenon
<1>21. gap = Width(item) - Len(sign) - Len(number)
  OBVIOUS
<1> HIDE DEF number, gap, room
<1>22. CASE "left" \in flags
  <2>1. item.width < 0 \/ "left" \in item.flags
    BY <1>3, <1>22, Zenon
  <2>2. number = places
    BY <1>10, <1>16, <1>22, Zenon
  <2>3. gap = room
    BY <1>10, <1>22, <1>20, Zenon
  <2>4. InC(item) = (sign \o number) \o Repeat(Blank, gap)
    <3>1. ~ (item.width >= 0 /\ item.flags \cap {"left", "zeropad", "precision"} = {"zeropad"})
      BY <2>1 DEF IsArgument
    <3> QED
      BY <1>4, <2>1, <3>1, Zenon
  <2>5. Number(item) = (sign \o places) \o Repeat(Blank, room)
    BY <1>13, <1>22, Zenon
  <2> QED
    BY <2>2, <2>3, <2>4, <2>5, Zenon
<1>23. CASE "left" \notin flags /\ "zeropad" \in flags
  <2>1. ~ (item.width < 0) /\ "left" \notin item.flags /\ "zeropad" \in item.flags /\ "precision" \notin item.flags
    BY <1>3, <1>23, Zenon
  <2>2. item.width >= 0 /\ item.flags \cap {"left", "zeropad", "precision"} = {"zeropad"}
    <3>1. item.width >= 0
      BY <2>1 DEF IsArgument
    <3> QED
      BY <2>1, <3>1
  <2>3. number = places
    BY <1>16, <2>1, Zenon
  <2>4. gap = room
    BY <1>20, <2>1, Zenon
  <2>5. InC(item) = (sign \o Repeat("0", gap)) \o number
    BY <1>4, <2>1, <2>2, Zenon
  <2>6. Number(item) = sign \o (Repeat("0", room) \o places)
    BY <1>13, <1>23, Zenon
  <2>7. (sign \o Repeat("0", gap)) \o number = sign \o (Repeat("0", gap) \o number)
    <3>1. Repeat("0", gap) \in Seq(Symbols)
      BY <1>14, <1>18, Zenon
    <3> QED
      BY <1>12, <1>17, <1>19, <3>1, Zenon
  <2> QED
    BY <2>3, <2>4, <2>5, <2>6, <2>7, Zenon
<1>24. CASE "left" \notin flags /\ "zeropad" \notin flags
  <2>1. ~ (item.width < 0) /\ "left" \notin item.flags
    BY <1>3, <1>24, Zenon
  <2>2. item.flags \cap {"left", "zeropad", "precision"} # {"zeropad"}
    <3>1. ~ ("zeropad" \in item.flags /\ "precision" \notin item.flags)
      BY <1>3, <1>24, Zenon
    <3> QED
      BY <3>1
  <2>3. InC(item) = (Repeat(Blank, gap) \o sign) \o number
    BY <1>4, <2>1, <2>2, Zenon
  <2>4. number = Repeat("0", item.prec - Len(digits)) \o places
    BY <1>9, <1>17, Zenon
  <2>5. Number(item) = Repeat(Blank, gap) \o (sign \o number)
    BY <1>13, <1>24, <1>21, <2>4, Zenon
  <2>6. (Repeat(Blank, gap) \o sign) \o number = Repeat(Blank, gap) \o (sign \o number)
    <3>1. Repeat(Blank, gap) \in Seq(Symbols)
      BY <1>14, <1>18, Zenon
    <3> QED
      BY <1>12, <1>17, <1>19, <3>1, Zenon
  <2> QED
    BY <2>3, <2>5, <2>6, Zenon
<1> QED
  BY <1>22, <1>23, <1>24, Zenon

(* Every number comes out as C says, within the limits of the library, for *)
(* arguments and results of any size.                                      *)
THEOREM PrintfNumbersAsInC == Spec => []NumbersAsInC
<1>1. IInv => NumbersAsInC
  <2> SUFFICES ASSUME IInv, NEW k \in DOMAIN format, Supported(format[k])
               PROVE  Number(format[k]) = InC(format[k])
    BY DEF NumbersAsInC
  <2>1. call \in Calls /\ format[k] \in Items(call)
    BY DEF IInv
  <2>2. format[k].spec \in {"d", "u", "x", "o", "b"}
    BY DEF Supported
  <2>3. IsArgument(format[k])
    BY <2>1, <2>2, ItemAssumption, Zenon DEF IsArgument
  <2> QED
    BY <2>3, NumberInC
<1> QED
  BY <1>1, PrintfInvariant, PTL

-----------------------------------------------------------------------------
(* What a fold over characters passes through.                             *)

Screens == [x : Int, y : Int, glyphs : Seq([char : Characters, x : Int, y : Int])]

(* What one character does to the screen.                                  *)
LEMMA OutCharIs ==
  ASSUME NEW on \in Screens, NEW char \in Characters
  PROVE  /\ _out_char(on, char) \in Screens
         /\ char = NUL => _out_char(on, char) = on
         /\ char # NUL /\ char = Newline =>
              _out_char(on, char) = [x |-> x_min, y |-> on.y + FONT_HEIGHT, glyphs |-> on.glyphs]
         /\ char # NUL /\ char # Newline =>
              LET glyph == [char |-> char, x |-> on.x, y |-> on.y]
                  full  == on.x + FONT_WIDTH > x_max
              IN  _out_char(on, char) = [x |-> IF full THEN x_min ELSE on.x + FONT_WIDTH,
                                         y |-> IF full THEN on.y + FONT_HEIGHT ELSE on.y,
                                         glyphs |-> Append(on.glyphs, glyph)]
<1>1. /\ on.x \in Int /\ on.y \in Int /\ on.glyphs \in Seq([char : Characters, x : Int, y : Int])
      /\ on = [x |-> on.x, y |-> on.y, glyphs |-> on.glyphs]
  BY DEF Screens
<1>2. FONT_WIDTH \in Int /\ FONT_HEIGHT \in Int /\ x_min \in Int /\ x_max \in Int
  BY ScreenAssumption DEF x_min, x_max
<1> DEFINE G == Seq([char : Characters, x : Int, y : Int])
           glyph == [char |-> char, x |-> on.x, y |-> on.y]
           more == Append(on.glyphs, glyph)
           right == [x |-> on.x + FONT_WIDTH, y |-> on.y, glyphs |-> more]
<1>3. more \in G
  BY <1>1
<1> HIDE DEF more, G
<1>4. ASSUME NEW a \in Int, NEW b \in Int, NEW g \in G
      PROVE  NextRow([x |-> a, y |-> b, glyphs |-> g]) = [x |-> x_min, y |-> b + FONT_HEIGHT, glyphs |-> g]
  <2> DEFINE s == [x |-> a, y |-> b, glyphs |-> g]
             t == [x |-> x_min, y |-> b, glyphs |-> g]
  <2>1. s \in [x : Int, y : Int, glyphs : G] /\ t \in [x : Int, y : Int, glyphs : G]
    BY <1>2
  <2>2. s.x = a /\ s.y = b /\ s.glyphs = g /\ t.x = x_min /\ t.y = b /\ t.glyphs = g
    OBVIOUS
  <2> HIDE DEF s, t
  <2>3. [s EXCEPT !.x = x_min] = [x |-> x_min, y |-> s.y, glyphs |-> s.glyphs]
    BY <2>1
  <2>4. [t EXCEPT !.y = b + FONT_HEIGHT] = [x |-> t.x, y |-> b + FONT_HEIGHT, glyphs |-> t.glyphs]
    BY <2>1
  <2>5. NextRow(s) = [[s EXCEPT !.x = x_min] EXCEPT !.y = b + FONT_HEIGHT]
    BY <2>2, Zenon DEF NextRow
  <2>6. [s EXCEPT !.x = x_min] = t
    BY <2>2, <2>3, Zenon DEF t
  <2> QED
    BY <2>2, <2>4, <2>5, <2>6, Zenon DEF s
<1>5. NextRow(on) = [x |-> x_min, y |-> on.y + FONT_HEIGHT, glyphs |-> on.glyphs]
  <2> DEFINE s == [x |-> on.x, y |-> on.y, glyphs |-> on.glyphs]
  <2>1. on.x \in Int /\ on.y \in Int /\ on.glyphs \in G
    BY <1>1 DEF G
  <2>2. NextRow(s) = [x |-> x_min, y |-> on.y + FONT_HEIGHT, glyphs |-> on.glyphs]
    BY <1>4, <2>1, Zenon
  <2>3. s = on
    BY <1>1
  <2> HIDE DEF s
  <2> QED
    BY <2>2, <2>3, Zenon
<1>6. [on EXCEPT !.x = @ + FONT_WIDTH, !.glyphs = Append(@, glyph)] = right
  <2> DEFINE t == [x |-> on.x + FONT_WIDTH, y |-> on.y, glyphs |-> on.glyphs]
  <2>1. on \in [x : Int, y : Int, glyphs : G] /\ t \in [x : Int, y : Int, glyphs : G]
    BY <1>1, <1>2 DEF Screens, G
  <2>2. t.x = on.x + FONT_WIDTH /\ t.y = on.y
    OBVIOUS
  <2>3. [on EXCEPT !.x = on.x + FONT_WIDTH] = t
    BY <2>1
  <2> HIDE DEF t
  <2>4. [t EXCEPT !.glyphs = more] = [x |-> t.x, y |-> t.y, glyphs |-> more]
    BY <2>1
  <2>5. [on EXCEPT !.x = @ + FONT_WIDTH, !.glyphs = Append(@, glyph)] = [[on EXCEPT !.x = on.x + FONT_WIDTH] EXCEPT !.glyphs = more]
    BY Zenon DEF more
  <2> QED
    BY <2>2, <2>3, <2>4, <2>5, Zenon
<1>7. NextRow(right) = [x |-> x_min, y |-> on.y + FONT_HEIGHT, glyphs |-> more]
  <2>1. on.x + FONT_WIDTH \in Int
    BY <1>1, <1>2
  <2> QED
    BY <1>1, <1>3, <1>4, <2>1, Zenon
<1>8. /\ Draw(on, char) = IF on.x + FONT_WIDTH > x_max THEN NextRow(right) ELSE right
      /\ NextRow(on) \in Screens /\ right \in Screens /\ NextRow(right) \in Screens
  <2>1. right.x = on.x + FONT_WIDTH
    OBVIOUS
  <2>2. Draw(on, char) = IF Full(right.x) THEN NextRow(right) ELSE right
    BY <1>6, Zenon DEF Draw
  <2>3. ASSUME NEW a \in Int, NEW b \in Int, NEW g \in G
        PROVE  [x |-> a, y |-> b, glyphs |-> g] \in Screens
    BY DEF Screens, G
  <2>4. on.x + FONT_WIDTH \in Int /\ on.y + FONT_HEIGHT \in Int /\ on.glyphs \in G
    BY <1>1, <1>2 DEF G
  <2>5. NextRow(on) \in Screens /\ right \in Screens /\ NextRow(right) \in Screens
    BY <1>1, <1>2, <1>3, <1>5, <1>7, <2>3, <2>4, Zenon
  <2> QED
    BY <2>1, <2>2, <2>5, Zenon DEF Full
<1>9. CASE char = NUL
  BY <1>9, Zenon DEF _out_char
<1>10. CASE char # NUL /\ char = Newline
  BY <1>5, <1>8, <1>10, Zenon DEF _out_char, _putchar
<1>11. CASE char # NUL /\ char # Newline
  <2>1. _out_char(on, char) = IF on.x + FONT_WIDTH > x_max THEN NextRow(right) ELSE right
    BY <1>8, <1>11, Zenon DEF _out_char, _putchar
  <2>2. CASE on.x + FONT_WIDTH > x_max
    BY <1>7, <1>8, <1>11, <2>1, <2>2, Zenon DEF more
  <2>3. CASE ~ (on.x + FONT_WIDTH > x_max)
    BY <1>8, <1>11, <2>1, <2>3, Zenon DEF more
  <2> QED
    BY <2>2, <2>3
<1> QED
  BY <1>9, <1>10, <1>11, Zenon

(* A set of numbers up to N has a greatest.                                *)
LEMMA MaxIs ==
  ASSUME NEW N \in Nat, NEW s, s \subseteq 1 .. N, s # {}
  PROVE  Max(s) \in s /\ \A y \in s : Max(s) >= y
<1> DEFINE S == {n \in Nat : \A t : t \subseteq 1 .. n /\ t # {} => \E x \in t : \A y \in t : x >= y}
<1>1. 0 \in S
  OBVIOUS
<1>2. ASSUME NEW n \in Nat, n \in S PROVE n + 1 \in S
  <2> SUFFICES ASSUME NEW t, t \subseteq 1 .. n + 1, t # {}
               PROVE  \E x \in t : \A y \in t : x >= y
    OBVIOUS
  <2>1. CASE n + 1 \in t
    <3>1. \A y \in t : n + 1 >= y
      OBVIOUS
    <3> QED
      BY <2>1, <3>1
  <2>2. CASE n + 1 \notin t
    <3>1. t \subseteq 1 .. n
      BY <2>2
    <3> QED
      BY <1>2, <3>1
  <2> QED
    BY <2>1, <2>2
<1>3. Nat \subseteq S
  <2> HIDE DEF S
  <2> QED
    BY <1>1, <1>2, SetInduction
<1>4. \E x \in s : \A y \in s : x >= y
  BY <1>3
<1> QED
  BY <1>4, Zenon DEF Max

(* The screens between the characters.                                     *)
Between(f, on, chars) ==
  /\ f[0] = on
  /\ \A n \in 0 .. Len(chars) - 1 : f[n + 1] = _out_char(f[n], chars[n + 1])

LEMMA PutAllIs ==
  ASSUME NEW chars \in Seq(Characters), NEW on \in Screens
  PROVE  \E f \in [0 .. Len(chars) -> Screens] : Between(f, on, chars) /\ PutAll(on, chars) = f[Len(chars)]
<1> DEFINE N == Len(chars)
           D == 1 .. N
           V == [SUBSET D -> Screens]
           Op(scr, x) == IF x \in D THEN _out_char(scr, chars[x]) ELSE scr
           first == [s \in SUBSET D |-> on]
           step == [p \in Nat \X V |->
                      [s \in SUBSET D |-> IF p[1] + 1 \in s THEN Op(p[2][s], p[1] + 1) ELSE p[2][s]]]
<1>1. N \in Nat /\ DOMAIN chars = D /\ \A x \in D : chars[x] \in Characters
  OBVIOUS
<1>2. ASSUME NEW scr \in Screens, NEW x PROVE Op(scr, x) \in Screens
  BY <1>1, OutCharIs
<1> HIDE DEF Op, D
<1>3. first \in V /\ step \in [Nat \X V -> V]
  BY <1>2
<1>4. PICK h : Iterates(h, V, first, step)
  <2> HIDE DEF first, step, V
  <2> QED
    BY <1>3, Recursion
<1>5. h[0] = first /\ \A n \in Nat : h[n] \in V /\ h[n + 1] = step[<<n, h[n]>>]
  <2> HIDE DEF first, step, V
  <2> QED
    BY <1>4 DEF Iterates
<1>6. \A s \in SUBSET D : h[0][s] = on
  <2> HIDE DEF step, V
  <2> QED
    BY <1>5
<1>7. ASSUME NEW n \in Nat, NEW s \in SUBSET D
      PROVE  /\ h[n][s] \in Screens
             /\ h[n + 1][s] = IF n + 1 \in s THEN Op(h[n][s], n + 1) ELSE h[n][s]
  <2>1. h[n] \in V /\ h[n + 1] = step[<<n, h[n]>>]
    BY <1>5, Zenon
  <2>2. ASSUME NEW g \in V
        PROVE  step[<<n, g>>][s] = IF n + 1 \in s THEN Op(g[s], n + 1) ELSE g[s]
    BY Zenon
  <2>3. h[n][s] \in Screens
    BY <2>1
  <2> HIDE DEF step, V
  <2> QED
    BY <2>1, <2>2, <2>3, Zenon
<1> HIDE DEF first, step, V
(* Only the numbers up to n matter after n steps, and no later ones.      *)
<1>8. ASSUME NEW s \in SUBSET D, NEW t \in SUBSET D, NEW m \in Nat, s \cap (1 .. m) = t \cap (1 .. m)
      PROVE  h[m][s] = h[m][t]
  <2> DEFINE S == {n \in Nat : n <= m => h[n][s] = h[n][t]}
  <2>1. 0 \in S
    BY <1>6
  <2>2. ASSUME NEW n \in Nat, n \in S PROVE n + 1 \in S
    <3> SUFFICES ASSUME n + 1 <= m PROVE h[n + 1][s] = h[n + 1][t]
      OBVIOUS
    <3>1. h[n][s] = h[n][t]
      BY <2>2
    <3>2. n + 1 \in s <=> n + 1 \in t
      <4>1. n + 1 \in 1 .. m
        OBVIOUS
      <4> QED
        BY <1>8, <4>1
    <3>3. /\ h[n + 1][s] = IF n + 1 \in s THEN Op(h[n][s], n + 1) ELSE h[n][s]
          /\ h[n + 1][t] = IF n + 1 \in t THEN Op(h[n][t], n + 1) ELSE h[n][t]
      BY <1>7, Zenon
    <3> QED
      BY <3>1, <3>2, <3>3, Zenon
  <2>3. Nat \subseteq S
    <3> HIDE DEF S
    <3> QED
      BY <2>1, <2>2, SetInduction
  <2> QED
    BY <2>3
<1>9. ASSUME NEW s \in SUBSET D, NEW m \in Nat, s \subseteq 1 .. m, NEW k \in Nat, m <= k
      PROVE  h[k][s] = h[m][s]
  <2> DEFINE S == {n \in Nat : h[m + n][s] = h[m][s]}
  <2>1. 0 \in S
    OBVIOUS
  <2>2. ASSUME NEW n \in Nat, n \in S PROVE n + 1 \in S
    <3>1. m + n \in Nat /\ m + n + 1 = m + (n + 1) /\ m + n + 1 \notin 1 .. m
      OBVIOUS
    <3>2. m + n + 1 \notin s
      BY <1>9, <3>1
    <3>3. h[m + n + 1][s] = h[m + n][s]
      BY <1>7, <3>1, <3>2, Zenon
    <3> QED
      BY <2>2, <3>1, <3>3
  <2>3. Nat \subseteq S
    <3> HIDE DEF S
    <3> QED
      BY <2>1, <2>2, SetInduction
  <2> HIDE DEF S
  <2>4. k - m \in S /\ m + (k - m) = k
    <3>1. k - m \in Nat /\ m + (k - m) = k
      BY <1>9
    <3> QED
      BY <2>3, <3>1
  <2> QED
    BY <2>4 DEF S
<1>10. ASSUME NEW s \in SUBSET D, s # {}
       PROVE  h[N][s] = _out_char(h[N][s \ {Max(s)}], chars[Max(s)])
  <2>1. Max(s) \in s /\ \A y \in s : Max(s) >= y
    <3>1. s \subseteq 1 .. N
      BY DEF D
    <3> QED
      BY <1>1, <1>10, <3>1, MaxIs
  <2>2. Max(s) \in D /\ Max(s) \in 1 .. N
    BY <2>1 DEF D
  <2> DEFINE x == Max(s)
             k == x - 1
             t == s \ {x}
  <2>3. /\ x \in Nat /\ k \in Nat /\ k + 1 = x /\ x <= N /\ k <= N /\ t \in SUBSET D
        /\ s \subseteq 1 .. x /\ t \subseteq 1 .. k /\ s \cap (1 .. k) = t \cap (1 .. k)
    <3> HIDE DEF x
    <3>1. x \in s /\ x \in D /\ x \in 1 .. N /\ s \subseteq 1 .. N /\ \A y \in s : x >= y
      BY <2>1, <2>2 DEF x, D
    <3> QED
      BY <1>1, <3>1
  <2> HIDE DEF x, k, t
  <2>4. h[N][s] = h[k + 1][s]
    BY <1>1, <1>9, <2>3
  <2>5. h[k + 1][s] = Op(h[k][s], k + 1)
    <3>1. k + 1 \in s
      BY <2>1, <2>3 DEF x
    <3> QED
      BY <1>7, <2>3, <3>1, Zenon
  <2>6. h[k][s] = h[k][t]
    BY <1>8, <2>3
  <2>7. h[N][t] = h[k][t]
    BY <1>1, <1>9, <2>3
  <2>8. Op(h[k][s], k + 1) = _out_char(h[k][s], chars[x])
    BY <2>2, <2>3 DEF Op, x
  <2> QED
    BY <2>4, <2>5, <2>6, <2>7, <2>8, Zenon DEF x, t
<1> DEFINE Iter(it) == it = [s \in SUBSET D |-> IF s = {} THEN on
                                             ELSE _out_char(it[s \ {Max(s)}], chars[Max(s)])]
           iter == CHOOSE it : Iter(it)
<1>11. Iter([s \in SUBSET D |-> h[N][s]])
  <2> DEFINE it == [s \in SUBSET D |-> h[N][s]]
  <2>1. ASSUME NEW s \in SUBSET D
        PROVE  it[s] = IF s = {} THEN on ELSE _out_char(it[s \ {Max(s)}], chars[Max(s)])
    <3>1. CASE s = {}
      <4>1. s \subseteq 1 .. 0
        BY <3>1
      <4>2. h[N][s] = h[0][s]
        BY <1>1, <1>9, <4>1
      <4> QED
        BY <1>6, <3>1, <4>2
    <3>2. CASE s # {}
      <4>1. s \ {Max(s)} \in SUBSET D
        OBVIOUS
      <4> QED
        BY <1>10, <3>2, <4>1
    <3> QED
      BY <3>1, <3>2
  <2> QED
    BY <2>1
<1>12. Iter(iter)
  <2> HIDE DEF Iter
  <2> QED
    BY <1>11, Zenon
<1>13. PutAll(on, chars) = iter[D]
  BY <1>1 DEF PutAll, FoldLeft, MapThenFoldSet
<1> HIDE DEF iter
<1>14. /\ iter[{}] = on
       /\ \A s \in SUBSET D : s # {} => iter[s] = _out_char(iter[s \ {Max(s)}], chars[Max(s)])
  BY <1>12
<1> HIDE DEF Iter
<1> DEFINE f == [n \in 0 .. N |-> iter[1 .. n]]
<1>15. Between(f, on, chars)
  <2>1. f[0] = on
    <3>1. 1 .. 0 = {} /\ 0 \in 0 .. N
      BY <1>1
    <3> QED
      BY <1>14, <3>1
  <2>2. ASSUME NEW n \in 0 .. N - 1 PROVE f[n + 1] = _out_char(f[n], chars[n + 1])
    <3> DEFINE s == 1 .. n + 1
    <3>1. n \in Nat /\ n \in 0 .. N /\ n + 1 \in 0 .. N /\ n + 1 \in s /\ s # {} /\ s \subseteq 1 .. N
      <4> HIDE DEF f, N
      <4>1. n \in Nat /\ n \in 0 .. N /\ n + 1 \in 0 .. N
        BY <1>1
      <4>2. n + 1 \in s
        BY <4>1
      <4>3. s \subseteq 1 .. N
        BY <1>1
      <4> QED
        BY <4>1, <4>2, <4>3
    <3>2. Max(s) \in s /\ \A y \in s : Max(s) >= y
      <4> HIDE DEF s
      <4> QED
        BY <1>1, <3>1, MaxIs
    <3>3. Max(s) = n + 1
      <4>1. ASSUME NEW x \in s, x >= n + 1 PROVE x = n + 1
        BY <4>1
      <4> HIDE DEF s
      <4> QED
        BY <3>1, <3>2, <4>1
    <3>4. s \ {n + 1} = 1 .. n
      BY <3>1
    <3>5. s \in SUBSET D
      BY <3>1 DEF D
    <3>6. iter[s] = _out_char(iter[1 .. n], chars[n + 1])
      <4> HIDE DEF s
      <4> QED
        BY <1>14, <3>1, <3>3, <3>4, <3>5
    <3> QED
      BY <3>1, <3>6
  <2> QED
    BY <2>1, <2>2 DEF Between
<1>16. f \in [0 .. N -> Screens]
  <2> DEFINE S == {n \in Nat : n <= N => f[n] \in Screens}
  <2>1. 0 \in S
    BY <1>15 DEF Between
  <2>2. ASSUME NEW n \in Nat, n \in S PROVE n + 1 \in S
    <3> SUFFICES ASSUME n + 1 <= N PROVE f[n + 1] \in Screens
      OBVIOUS
    <3>1. n \in 0 .. N - 1 /\ n + 1 \in D
      BY <1>1 DEF D
    <3>2. f[n] \in Screens
      BY <1>1, <2>2, <3>1
    <3> HIDE DEF f
    <3>3. f[n + 1] = _out_char(f[n], chars[n + 1])
      BY <1>15, <3>1 DEF Between
    <3> QED
      BY <1>1, <3>1, <3>2, <3>3, OutCharIs
  <2>3. Nat \subseteq S
    <3> HIDE DEF S
    <3> QED
      BY <2>1, <2>2, SetInduction
  <2> HIDE DEF f
  <2>4. \A n \in 0 .. N : f[n] \in Screens
    BY <1>1, <2>3
  <2> QED
    BY <2>4 DEF f
<1>17. PutAll(on, chars) = f[Len(chars)]
  BY <1>1, <1>13 DEF D
<1> HIDE DEF f
<1> QED
  BY <1>15, <1>16, <1>17

-----------------------------------------------------------------------------
(* The columns of the screen.                                              *)

(* Products grow with their first factor.                                  *)
LEMMA ProductGrows ==
  ASSUME NEW a \in Int, NEW b \in Int, a <= b, NEW c \in Nat
  PROVE  a * c \in Int /\ b * c \in Int /\ a * c <= b * c
<1>1. b - a \in Nat /\ b = a + (b - a)
  OBVIOUS
<1>2. (b - a) * c \in Nat
  BY <1>1
<1>3. b * c = a * c + (b - a) * c
  BY <1>1
<1> QED
  BY <1>2, <1>3

(* A glyph fits in every column, and another one behind it but in the last. *)
LEMMA ColumnsFit ==
  /\ FONT_WIDTH \in Nat /\ FONT_HEIGHT \in Nat /\ x_min \in Int /\ y_min \in Int /\ x_max \in Int
  /\ FONT_WIDTH > 0 /\ FONT_HEIGHT > 0
  /\ Columns \in Nat /\ Columns > 0
  /\ \A m \in 0 .. Columns - 1 :
       /\ x_min + m * FONT_WIDTH \in Int /\ x_min + m * FONT_WIDTH >= x_min
       /\ x_min + m * FONT_WIDTH <= x_max
       /\ x_min + m * FONT_WIDTH + FONT_WIDTH = x_min + (m + 1) * FONT_WIDTH
       /\ x_min + m * FONT_WIDTH + FONT_WIDTH > x_max <=> m = Columns - 1
<1> DEFINE W == x_max - x_min
           q == W \div FONT_WIDTH
<1>1. /\ FONT_WIDTH \in Nat /\ FONT_WIDTH > 0 /\ FONT_HEIGHT \in Nat /\ FONT_HEIGHT > 0
      /\ W \in Nat /\ x_min \in Int /\ y_min \in Int /\ x_max \in Int /\ x_max = x_min + W
  BY ScreenAssumption DEF x_min, x_max, y_min
<1> HIDE DEF W
<1>2. q \in Nat /\ q * FONT_WIDTH <= W /\ (q + 1) * FONT_WIDTH > W
  BY <1>1
<1>3. Columns = q + 1
  BY DEF Columns, W
<1> HIDE DEF q
<1>4. ASSUME NEW m \in 0 .. Columns - 1
      PROVE  /\ x_min + m * FONT_WIDTH \in Int /\ x_min + m * FONT_WIDTH >= x_min
             /\ x_min + m * FONT_WIDTH <= x_max
             /\ x_min + m * FONT_WIDTH + FONT_WIDTH = x_min + (m + 1) * FONT_WIDTH
             /\ x_min + m * FONT_WIDTH + FONT_WIDTH > x_max <=> m = Columns - 1
  <2>1. m \in Nat /\ m <= q /\ (m = Columns - 1 <=> m = q) /\ (m # q => m + 1 <= q)
    BY <1>2, <1>3
  <2>2. m * FONT_WIDTH \in Nat /\ (m + 1) * FONT_WIDTH = m * FONT_WIDTH + FONT_WIDTH
    BY <1>1, <2>1
  <2>3. m * FONT_WIDTH <= q * FONT_WIDTH
    BY <1>1, <1>2, <2>1, ProductGrows
  <2>4. m # q => (m + 1) * FONT_WIDTH <= q * FONT_WIDTH
    BY <1>1, <1>2, <2>1, ProductGrows
  <2> DEFINE a == m * FONT_WIDTH
             b == q * FONT_WIDTH
             d == (m + 1) * FONT_WIDTH
  <2>5. a \in Nat /\ b \in Int /\ d = a + FONT_WIDTH /\ a <= b /\ (m # q => d <= b) /\ b <= W /\ (m = q => d > W)
    BY <1>1, <1>2, <2>1, <2>2, <2>3, <2>4
  <2> HIDE DEF a, b, d
  <2>6. x_min + a \in Int /\ x_min + a >= x_min /\ x_min + a <= x_max /\ x_min + a + FONT_WIDTH = x_min + d /\ (x_min + a + FONT_WIDTH > x_max <=> m = q)
    BY <1>1, <2>1, <2>5
  <2> QED
    BY <2>1, <2>6 DEF a, d
<1> QED
  BY <1>1, <1>2, <1>3, <1>4

(* Columns are counted modulo their number.                                *)
LEMMA NextColumn ==
  ASSUME NEW C \in Nat, C > 0, NEW a \in Nat
  PROVE  /\ a % C \in 0 .. C - 1
         /\ (a + 1) % C = IF a % C = C - 1 THEN 0 ELSE (a % C) + 1
<1> DEFINE r == a % C
           q == a \div C
<1>1. r \in 0 .. C - 1 /\ q \in Nat /\ a = q * C + r
  OBVIOUS
<1>2. CASE r = C - 1
  <2>1. a + 1 = (q + 1) * C
    BY <1>1, <1>2
  <2>2. ((q + 1) * C) % C = 0
    BY <1>1
  <2> QED
    BY <1>1, <1>2, <2>1, <2>2
<1>3. CASE r # C - 1
  <2>1. a + 1 = q * C + (r + 1) /\ r + 1 \in 0 .. C - 1
    BY <1>1, <1>3
  <2> HIDE DEF q, r
  <2>2. (q * C + (r + 1)) % C = r + 1
    BY <1>1, <2>1
  <2> QED
    BY <1>1, <1>3, <2>1, <2>2 DEF r
<1> QED
  BY <1>1, <1>2, <1>3

-----------------------------------------------------------------------------
(* A text that grows, and the screen that shows it.                        *)

(* Places in a text are finitely many.                                     *)
LEMMA SubsetIsFinite ==
  ASSUME NEW n \in Nat, NEW S, S \subseteq 1 .. n
  PROVE  IsFiniteSet(S) /\ Cardinality(S) \in Nat
<1>1. IsFiniteSet(1 .. n)
  BY FS_Interval
<1> QED
  BY <1>1, FS_Subset, FS_CardinalityType

(* One character more at the end of a text.                                *)
Used(t, column) == ColumnsUsed(t, Len(t), column)

OneMore(t, c, u, column) ==
  /\ u \in Seq(Characters) /\ Len(u) = Len(t) + 1 /\ u[Len(u)] = c
  /\ \A k \in 1 .. Len(t) : u[k] = t[k]
  /\ Visible(u) = Visible(t) \cup (IF c \in {NUL, Newline} THEN {} ELSE {Len(u)})
  /\ Used(u, column) = IF c = Newline THEN 0
                       ELSE Used(t, column) + (IF c = NUL THEN 0 ELSE 1)
  /\ RowsBelow(u, column) = RowsBelow(t, column) +
       (IF c = Newline \/ (c # NUL /\ Used(u, column) % Columns = 0) THEN 1 ELSE 0)

(* A NUL is no newline.                                                    *)
LEMMA CharsDiffer == NUL # Newline
  BY Zenon DEF NUL, Newline

(* What is counted are natural numbers.                                    *)
LEMMA UsedIs ==
  ASSUME NEW t \in Seq(Characters), NEW column \in Nat
  PROVE  Used(t, column) \in Nat /\ RowsBelow(t, column) \in Nat /\ Visible(t) \subseteq 1 .. Len(t)
<1>1. Len(t) \in Nat
  OBVIOUS
<1>2. Visible(t) \subseteq 1 .. Len(t)
  BY DEF Visible
<1>3. Line(t, Len(t)) \subseteq 1 .. Len(t) /\ RowEnds(t, column) \subseteq 1 .. Len(t)
  BY <1>2 DEF Line, RowEnds
<1>4. Cardinality(Line(t, Len(t))) \in Nat /\ Cardinality(RowEnds(t, column)) \in Nat
  BY <1>1, <1>3, SubsetIsFinite
<1> QED
  BY <1>2, <1>4 DEF Used, ColumnsUsed, RowsBelow

(* So it is with Append.                                                   *)
LEMMA OneMoreIs ==
  ASSUME NEW t \in Seq(Characters), NEW c \in Characters, NEW column \in Nat
  PROVE  OneMore(t, c, Append(t, c), column)
<1> DEFINE u == Append(t, c)
           n == Len(t)
           Broken(v, j, k) == \A i \in j .. k : v[i] # Newline
<1>1. /\ u \in Seq(Characters) /\ Len(u) = n + 1 /\ n \in Nat /\ u[n + 1] = c
      /\ \A k \in 1 .. n : u[k] = t[k]
  OBVIOUS
<1> HIDE DEF u
<1>2. Visible(t) \subseteq 1 .. n /\ n + 1 \notin Visible(t) /\ Visible(u) \subseteq 1 .. n + 1
  BY <1>1 DEF Visible
<1>3. Visible(u) = Visible(t) \cup (IF c \in {NUL, Newline} THEN {} ELSE {n + 1})
  <2>1. ASSUME NEW k PROVE k \in Visible(u) <=> k \in Visible(t) \/ (k = n + 1 /\ c \notin {NUL, Newline})
    <3>1. k \in 1 .. n + 1 <=> k \in 1 .. n \/ k = n + 1
      BY <1>1
    <3>2. n + 1 \notin 1 .. n
      BY <1>1
    <3> QED
      BY <1>1, <3>1, <3>2 DEF Visible
  <2> QED
    BY <2>1
<1>4. ASSUME NEW k \in 1 .. n PROVE Line(u, k) = Line(t, k) /\ ColumnsUsed(u, k, column) = ColumnsUsed(t, k, column)
  <2>1. \A i \in 1 .. k : u[i] = t[i]
    BY <1>1
  <2>2. ASSUME NEW j PROVE j \in Line(u, k) <=> j \in Line(t, k)
    <3>1. j \in Visible(u) /\ j <= k <=> j \in Visible(t) /\ j <= k
      BY <1>1, <1>3
    <3>2. j \in Visible(t) => \A i \in j .. k : u[i] = t[i]
      BY <1>2, <2>1
    <3> QED
      BY <3>1, <3>2 DEF Line
  <2>3. Line(u, k) = Line(t, k)
    BY <2>2 DEF Line
  <2>4. (\E i \in 1 .. k : u[i] = Newline) <=> (\E i \in 1 .. k : t[i] = Newline)
    BY <2>1
  <2> QED
    BY <2>3, <2>4 DEF ColumnsUsed
<1>5. Line(u, n + 1) = IF c = Newline THEN {} ELSE Line(t, n) \cup (IF c = NUL THEN {} ELSE {n + 1})
  <2>1. CASE c = Newline
    BY <1>1, <1>2, <2>1 DEF Line
  <2>2. CASE c # Newline
    <3>1. ASSUME NEW j PROVE j \in Line(u, n + 1) <=> j \in Line(t, n) \/ (j = n + 1 /\ c # NUL)
      <4>1. CASE j \in Visible(t)
        <5>1. j \in 1 .. n /\ j # n + 1 /\ j \in Visible(u) /\ j .. n + 1 = (j .. n) \cup {n + 1}
          BY <1>1, <1>2, <1>3, <4>1
        <5>2. \A i \in j .. n : u[i] = t[i]
          BY <1>1, <5>1
        <5> QED
          BY <1>1, <2>2, <4>1, <5>1, <5>2 DEF Line
      <4>2. CASE j = n + 1
        <5>1. \A i \in j .. n + 1 : i = n + 1
          BY <1>1, <4>2
        <5>2. j \notin Line(t, n)
          BY <1>2, <4>2 DEF Line
        <5>3. j \in Visible(u) <=> c # NUL
          BY <1>2, <1>3, <2>2, <4>2
        <5> QED
          BY <1>1, <2>2, <4>2, <5>1, <5>2, <5>3 DEF Line
      <4>3. CASE j \notin Visible(t) /\ j # n + 1
        BY <1>3, <4>3 DEF Line
      <4> QED
        BY <4>1, <4>2, <4>3
    <3> QED
      BY <2>2, <3>1
  <2> QED
    BY <2>1, <2>2
<1>6. Used(u, column) = IF c = Newline THEN 0 ELSE Used(t, column) + (IF c = NUL THEN 0 ELSE 1)
  <2>1. (\E i \in 1 .. n + 1 : u[i] = Newline) <=> c = Newline \/ \E i \in 1 .. n : t[i] = Newline
    <3>1. \A i : i \in 1 .. n + 1 <=> i \in 1 .. n \/ i = n + 1
      BY <1>1
    <3> QED
      BY <1>1, <3>1
  <2>2. CASE c = Newline
    <3>1. Line(u, n + 1) = {}
      BY <1>5, <2>2
    <3>2. Cardinality(Line(u, n + 1)) = 0
      BY <3>1, FS_EmptySet
    <3> QED
      BY <1>1, <2>1, <2>2, <3>2 DEF Used, ColumnsUsed
  <2>3. CASE c # Newline
    <3>1. Line(t, n) \subseteq 1 .. n /\ n + 1 \notin Line(t, n)
      BY <1>2 DEF Line
    <3>2. IsFiniteSet(Line(t, n)) /\ Cardinality(Line(t, n)) \in Nat
      BY <1>1, <3>1, SubsetIsFinite
    <3>3. Cardinality(Line(t, n) \cup {n + 1}) = Cardinality(Line(t, n)) + 1
      BY <3>1, <3>2, FS_AddElement
    <3>4. Cardinality(Line(u, n + 1)) = Cardinality(Line(t, n)) + (IF c = NUL THEN 0 ELSE 1)
      <4>1. Line(u, n + 1) = IF c = NUL THEN Line(t, n) ELSE Line(t, n) \cup {n + 1}
        BY <1>5, <2>3, Zenon
      <4> QED
        BY <3>2, <3>3, <4>1
    <3> QED
      BY <1>1, <2>1, <2>3, <3>2, <3>4 DEF Used, ColumnsUsed
  <2> QED
    BY <2>2, <2>3
<1> DEFINE last == c = Newline \/ (c # NUL /\ Used(u, column) % Columns = 0)
<1>7. RowEnds(u, column) = RowEnds(t, column) \cup (IF last THEN {n + 1} ELSE {})
  <2>1. ASSUME NEW k PROVE k \in RowEnds(u, column) <=> k \in RowEnds(t, column) \/ (k = n + 1 /\ last)
    <3>1. CASE k \in 1 .. n
      <4>1. k # n + 1 /\ k \in 1 .. n + 1 /\ (k \in Visible(u) <=> k \in Visible(t)) /\ u[k] = t[k]
        BY <1>1, <1>3, <3>1
      <4> QED
        BY <1>1, <1>4, <3>1, <4>1 DEF RowEnds
    <3>2. CASE k = n + 1
      <4>1. k \notin RowEnds(t, column) /\ k \in 1 .. n + 1
        BY <1>1, <1>2, <3>2 DEF RowEnds
      <4>2. k \in Visible(u) <=> c \notin {NUL, Newline}
        BY <1>2, <1>3, <3>2
      <4>3. Used(u, column) = ColumnsUsed(u, k, column) /\ u[k] = c
        BY <1>1, <3>2 DEF Used
      <4> HIDE DEF last
      <4>4. k \in RowEnds(u, column) <=> c = Newline \/ (c \notin {NUL, Newline} /\ Used(u, column) % Columns = 0)
        BY <1>1, <4>1, <4>2, <4>3 DEF RowEnds
      <4>5. last <=> c = Newline \/ (c \notin {NUL, Newline} /\ Used(u, column) % Columns = 0)
        BY DEF last
      <4> QED
        BY <3>2, <4>1, <4>4, <4>5
    <3>3. CASE k \notin 1 .. n /\ k # n + 1
      <4>1. k \notin 1 .. n + 1
        BY <1>1, <3>3
      <4> QED
        BY <1>1, <1>2, <3>3, <4>1 DEF RowEnds
    <3> QED
      BY <3>1, <3>2, <3>3
  <2> HIDE DEF last
  <2> QED
    BY <2>1
<1>8. RowsBelow(u, column) = RowsBelow(t, column) + (IF last THEN 1 ELSE 0)
  <2> HIDE DEF last
  <2>1. RowEnds(t, column) \subseteq 1 .. n /\ n + 1 \notin RowEnds(t, column)
    <3>1. RowEnds(t, column) \subseteq 1 .. n
      BY <1>2 DEF RowEnds
    <3>2. n + 1 \notin 1 .. n
      BY <1>1
    <3> QED
      BY <3>1, <3>2
  <2>2. IsFiniteSet(RowEnds(t, column)) /\ Cardinality(RowEnds(t, column)) \in Nat
    BY <1>1, <2>1, SubsetIsFinite
  <2>3. Cardinality(RowEnds(t, column) \cup {n + 1}) = Cardinality(RowEnds(t, column)) + 1
    BY <2>1, <2>2, FS_AddElement
  <2>4. RowEnds(u, column) = IF last THEN RowEnds(t, column) \cup {n + 1} ELSE RowEnds(t, column)
    BY <1>7, Zenon
  <2>5. CASE last
    BY <2>2, <2>3, <2>4, <2>5 DEF RowsBelow
  <2>6. CASE ~ last
    BY <2>2, <2>4, <2>6 DEF RowsBelow
  <2> QED
    BY <2>5, <2>6
<1>9. OneMore(t, c, u, column)
  BY <1>1, <1>3, <1>6, <1>8, Zenon DEF OneMore
<1> QED
  BY <1>9 DEF u

LEMMA FontIs == FONT_WIDTH \in Nat /\ FONT_HEIGHT \in Nat
  BY ColumnsFit

(* The cursor is where the text ends, behind every glyph; a glyph lies     *)
(* between the margins.                                                    *)
Behind(scr) ==
  \A k \in 1 .. Len(scr.glyphs) :
    /\ scr.glyphs[k].x >= x_min /\ scr.glyphs[k].x <= x_max
    /\ Before(scr.glyphs[k], scr)

AtTheEnd(scr, t, column, row) ==
  /\ scr.x = x_min + (Used(t, column) % Columns) * FONT_WIDTH
  /\ scr.y = y_min + (row + RowsBelow(t, column)) * FONT_HEIGHT

ScreenInv(scr, t, column, row) ==
  /\ scr \in Screens
  /\ AtTheEnd(scr, t, column, row)
  /\ Behind(scr)
  /\ ReadingOrder(scr.glyphs)
  /\ Shown(scr.glyphs, t)

(* A glyph has a place.                                                    *)
LEMMA GlyphIs ==
  ASSUME NEW scr \in Screens, NEW k \in 1 .. Len(scr.glyphs)
  PROVE  scr.glyphs[k].x \in Int /\ scr.glyphs[k].y \in Int
<1> DEFINE G == [char : Characters, x : Int, y : Int]
           glyphs == scr.glyphs
<1>1. glyphs \in Seq(G)
  BY DEF Screens
<1>2. ASSUME NEW g \in G PROVE g.x \in Int /\ g.y \in Int
  OBVIOUS
<1> HIDE DEF G
<1>3. glyphs[k] \in G
  <2> HIDE DEF glyphs
  <2>1. k \in 1 .. Len(glyphs)
    BY DEF glyphs
  <2> QED
    BY <1>1, <2>1
<1> QED
  BY <1>2, <1>3

(* A cursor further on is still behind all glyphs.                         *)
LEMMA BehindFurther ==
  ASSUME NEW scr \in Screens, NEW scr2 \in Screens, Behind(scr), scr2.glyphs = scr.glyphs,
         scr2.y >= scr.y + FONT_HEIGHT \/ (scr2.y = scr.y /\ scr2.x >= scr.x)
  PROVE  Behind(scr2)
<1> SUFFICES ASSUME NEW k \in 1 .. Len(scr.glyphs)
             PROVE  /\ scr.glyphs[k].x >= x_min /\ scr.glyphs[k].x <= x_max
                    /\ Before(scr.glyphs[k], scr2)
  BY DEF Behind
<1> DEFINE g == scr.glyphs[k]
<1>1. g.x \in Int /\ g.y \in Int /\ scr.x \in Int /\ scr.y \in Int /\ scr2.x \in Int /\ scr2.y \in Int
  <2>1. g.x \in Int /\ g.y \in Int
    BY GlyphIs
  <2>2. scr.x \in Int /\ scr.y \in Int /\ scr2.x \in Int /\ scr2.y \in Int
    BY DEF Screens
  <2> HIDE DEF g
  <2> QED
    BY <2>1, <2>2
<1>2. g.x >= x_min /\ g.x <= x_max /\ Before(g, scr)
  BY DEF Behind
<1> HIDE DEF g
<1>3. Before(g, scr2)
  <2> DEFINE a == g.x
             b == g.y
             x == scr.x
             y == scr.y
             x2 == scr2.x
             y2 == scr2.y
  <2>1. /\ {a, b, x, y, x2, y2} \subseteq Int
        /\ b + FONT_HEIGHT <= y \/ (b = y /\ a + FONT_WIDTH <= x)
        /\ y2 >= y + FONT_HEIGHT \/ (y2 = y /\ x2 >= x)
    BY <1>1, <1>2 DEF Before
  <2> HIDE DEF a, b, x, y, x2, y2
  <2>2. b + FONT_HEIGHT <= y2 \/ (b = y2 /\ a + FONT_WIDTH <= x2)
    BY <2>1, FontIs
  <2> QED
    BY <2>2 DEF Before, a, b, x2, y2
<1> QED
  BY <1>2, <1>3 DEF g

(* One glyph more, at the cursor, and the cursor behind it.                *)
LEMMA GlyphAdded ==
  ASSUME NEW scr \in Screens, NEW scr2 \in Screens, NEW char \in Characters,
         Behind(scr), ReadingOrder(scr.glyphs), scr.x >= x_min, scr.x <= x_max,
         scr2.glyphs = Append(scr.glyphs, [char |-> char, x |-> scr.x, y |-> scr.y]),
         scr2.y = scr.y + FONT_HEIGHT \/ (scr2.y = scr.y /\ scr2.x = scr.x + FONT_WIDTH)
  PROVE  Behind(scr2) /\ ReadingOrder(scr2.glyphs)
<1> DEFINE G == [char : Characters, x : Int, y : Int]
           glyph == [char |-> char, x |-> scr.x, y |-> scr.y]
           n == Len(scr.glyphs)
           more == Append(scr.glyphs, glyph)
<1>1. /\ scr.glyphs \in Seq(G) /\ n \in Nat /\ glyph \in G
      /\ scr.x \in Int /\ scr.y \in Int /\ scr2.x \in Int /\ scr2.y \in Int
  BY DEF Screens
<1>2. Len(more) = n + 1 /\ more[n + 1] = glyph /\ \A k \in 1 .. n : more[k] = scr.glyphs[k]
  <2> HIDE DEF G, glyph
  <2> QED
    BY <1>1
<1>3. glyph.x = scr.x /\ glyph.y = scr.y
  OBVIOUS
<1>4. ASSUME NEW k \in 1 .. n
      PROVE  /\ more[k].x \in Int /\ more[k].y \in Int /\ more[k].x >= x_min /\ more[k].x <= x_max
             /\ Before(more[k], scr)
  <2>1. scr.glyphs[k].x \in Int /\ scr.glyphs[k].y \in Int
    BY GlyphIs
  <2> QED
    BY <1>2, <2>1 DEF Behind
<1> HIDE DEF more, glyph, G
<1>5. ASSUME NEW k \in 1 .. n + 1
      PROVE  more[k].x >= x_min /\ more[k].x <= x_max /\ Before(more[k], scr2)
  <2>1. CASE k = n + 1
    BY <1>1, <1>2, <1>3, <2>1, FontIs DEF Before
  <2>2. CASE k # n + 1
    <3>1. k \in 1 .. n
      BY <1>1, <2>2
    <3> DEFINE g == more[k]
    <3>2. g.x \in Int /\ g.y \in Int /\ g.x >= x_min /\ g.x <= x_max /\ Before(g, scr)
      BY <1>4, <3>1
    <3> HIDE DEF g
    <3>3. Before(g, scr2)
      <4> DEFINE a == g.x
                 b == g.y
                 x == scr.x
                 y == scr.y
                 x2 == scr2.x
                 y2 == scr2.y
      <4>1. /\ {a, b, x, y, x2, y2} \subseteq Int
            /\ b + FONT_HEIGHT <= y \/ (b = y /\ a + FONT_WIDTH <= x)
            /\ y2 = y + FONT_HEIGHT \/ (y2 = y /\ x2 = x + FONT_WIDTH)
        BY <1>1, <3>2 DEF Before
      <4> HIDE DEF a, b, x, y, x2, y2
      <4>2. b + FONT_HEIGHT <= y2 \/ (b = y2 /\ a + FONT_WIDTH <= x2)
        BY <4>1, FontIs
      <4> QED
        BY <4>2 DEF Before, a, b, x2, y2
    <3> QED
      BY <3>2, <3>3 DEF g
  <2> QED
    BY <2>1, <2>2
<1>6. ASSUME NEW j \in 1 .. n + 1, NEW k \in 1 .. n + 1, j < k
      PROVE  Before(more[j], more[k])
  <2>1. j \in 1 .. n
    BY <1>1, <1>6
  <2>2. CASE k = n + 1
    BY <1>2, <1>3, <1>4, <2>1, <2>2 DEF Before
  <2>3. CASE k # n + 1
    <3>1. k \in 1 .. n
      BY <1>1, <2>3
    <3>2. Before(scr.glyphs[j], scr.glyphs[k])
      BY <1>6, <2>1, <3>1 DEF ReadingOrder
    <3> QED
      BY <1>2, <2>1, <3>1, <3>2
  <2> QED
    BY <2>2, <2>3
<1>7. scr2.glyphs = more
  BY DEF more, glyph
<1> QED
  BY <1>2, <1>5, <1>6, <1>7 DEF Behind, ReadingOrder

(* A character that nobody sees leaves the text shown.                     *)
LEMMA ShownSame ==
  ASSUME NEW t \in Seq(Characters), NEW u, NEW glyphs, Shown(glyphs, t),
         Visible(u) = Visible(t), \A k \in 1 .. Len(t) : u[k] = t[k]
  PROVE  Shown(glyphs, u)
<1>1. Visible(t) \subseteq 1 .. Len(t)
  BY DEF Visible
<1> QED
  BY <1>1 DEF Shown

(* A character that is seen is the last glyph.                             *)
LEMMA ShownMore ==
  ASSUME NEW t \in Seq(Characters), NEW u \in Seq(Characters),
         Len(u) = Len(t) + 1, \A k \in 1 .. Len(t) : u[k] = t[k],
         Visible(u) = Visible(t) \cup {Len(u)},
         NEW G, NEW glyphs \in Seq(G), Shown(glyphs, t), NEW glyph \in G, glyph.char = u[Len(u)]
  PROVE  Shown(Append(glyphs, glyph), u)
<1> DEFINE n == Len(t)
           more == Append(glyphs, glyph)
           Upto(v, k) == {j \in Visible(v) : j <= k}
<1>1. /\ n \in Nat /\ Len(glyphs) \in Nat /\ Len(more) = Len(glyphs) + 1 /\ more[Len(glyphs) + 1] = glyph
      /\ \A k \in 1 .. Len(glyphs) : more[k] = glyphs[k]
  OBVIOUS
<1> HIDE DEF more
<1>2. Visible(t) \subseteq 1 .. n /\ n + 1 \notin Visible(t)
  <2>1. Visible(t) \subseteq 1 .. n /\ n + 1 \notin 1 .. n
    BY DEF Visible
  <2> QED
    BY <2>1
<1>3. IsFiniteSet(Visible(t)) /\ Cardinality(Visible(t)) \in Nat
  BY <1>1, <1>2, SubsetIsFinite
<1>4. Cardinality(Visible(u)) = Cardinality(Visible(t)) + 1
  <2>1. Cardinality(Visible(t) \cup {n + 1}) = Cardinality(Visible(t)) + 1
    BY <1>2, <1>3, FS_AddElement
  <2> QED
    BY <2>1
<1>5. Len(glyphs) = Cardinality(Visible(t)) /\ \A k \in Visible(t) : glyphs[Cardinality(Upto(t, k))].char = t[k]
  BY DEF Shown
<1>6. ASSUME NEW k \in Visible(u)
      PROVE  more[Cardinality(Upto(u, k))].char = u[k]
  <2>1. CASE k = n + 1
    <3>1. Upto(u, k) = Visible(u)
      BY <1>1, <1>2, <2>1
    <3> QED
      BY <1>1, <1>4, <1>5, <2>1, <3>1
  <2>2. CASE k # n + 1
    <3>1. k \in Visible(t) /\ k \in 1 .. n
      BY <1>2, <2>2
    <3>2. Upto(u, k) = Upto(t, k)
      BY <1>1, <3>1
    <3>3. Upto(t, k) \subseteq Visible(t) /\ k \in Upto(t, k)
      BY <3>1
    <3> HIDE DEF Upto
    <3>4. /\ IsFiniteSet(Upto(t, k)) /\ Cardinality(Upto(t, k)) <= Cardinality(Visible(t))
          /\ Cardinality(Upto(t, k)) \in Nat /\ Cardinality(Upto(t, k)) # 0
      BY <1>3, <3>3, FS_Subset, FS_CardinalityType, FS_EmptySet
    <3>5. Cardinality(Upto(t, k)) \in 1 .. Len(glyphs)
      BY <1>5, <3>4
    <3> QED
      BY <1>1, <1>5, <3>1, <3>2, <3>5
  <2> QED
    BY <2>1, <2>2
<1>7. Shown(more, u)
  BY <1>1, <1>4, <1>5, <1>6 DEF Shown
<1> QED
  BY <1>7 DEF more

(* One character more on the screen.                                       *)
LEMMA OutCharKeeps ==
  ASSUME NEW scr, NEW t \in Seq(Characters), NEW c \in Characters,
         NEW column \in 0 .. Columns - 1, NEW row \in Nat, ScreenInv(scr, t, column, row)
  PROVE  ScreenInv(_out_char(scr, c), Append(t, c), column, row)
<1> DEFINE u == Append(t, c)
           scr2 == _out_char(scr, c)
           a == Used(t, column)
           m == a % Columns
           r == row + RowsBelow(t, column)
<1>1. /\ scr \in Screens /\ scr.x = x_min + m * FONT_WIDTH /\ scr.y = y_min + r * FONT_HEIGHT
      /\ Behind(scr) /\ ReadingOrder(scr.glyphs) /\ Shown(scr.glyphs, t)
  BY DEF ScreenInv, AtTheEnd
<1>2. scr.x \in Int /\ scr.y \in Int /\ scr.glyphs \in Seq([char : Characters, x : Int, y : Int])
  BY <1>1 DEF Screens
<1>3. /\ FONT_WIDTH \in Nat /\ FONT_HEIGHT \in Nat /\ x_min \in Int /\ y_min \in Int /\ x_max \in Int
      /\ FONT_WIDTH > 0 /\ FONT_HEIGHT > 0 /\ Columns \in Nat /\ Columns > 0 /\ column \in Nat
  BY ColumnsFit
<1>4. a \in Nat /\ r \in Nat /\ RowsBelow(t, column) \in Nat
  <2>1. a \in Nat /\ RowsBelow(t, column) \in Nat
    <3> HIDE DEF m
    <3> QED
      BY <1>3, UsedIs
  <2> HIDE DEF a
  <2> QED
    BY <2>1
<1>5. OneMore(t, c, u, column)
  BY <1>3, OneMoreIs
<1> HIDE DEF u
<1>6. m \in 0 .. Columns - 1 /\ (a + 1) % Columns = IF m = Columns - 1 THEN 0 ELSE m + 1
  <2> HIDE DEF a
  <2> QED
    BY <1>3, <1>4, NextColumn
<1>7. /\ scr.x >= x_min /\ scr.x <= x_max /\ scr.x + FONT_WIDTH = x_min + (m + 1) * FONT_WIDTH
      /\ scr.x + FONT_WIDTH > x_max <=> m = Columns - 1
  <2> HIDE DEF m
  <2> QED
    BY <1>1, <1>6, ColumnsFit
<1>8. (r + 1) * FONT_HEIGHT = r * FONT_HEIGHT + FONT_HEIGHT /\ r * FONT_HEIGHT \in Nat
  <2> HIDE DEF r
  <2> QED
    BY <1>3, <1>4
<1>9. y_min + (r + 1) * FONT_HEIGHT = scr.y + FONT_HEIGHT
  <2> DEFINE p == r * FONT_HEIGHT
             q == (r + 1) * FONT_HEIGHT
  <2>1. q = p + FONT_HEIGHT /\ p \in Nat /\ scr.y = y_min + p
    BY <1>1, <1>8
  <2> HIDE DEF p, q
  <2>2. y_min + q = scr.y + FONT_HEIGHT
    BY <1>3, <2>1
  <2> QED
    BY <2>2 DEF q
<1>10. scr2 \in Screens
  BY <1>1, OutCharIs
<1>11. 0 % Columns = 0
  BY <1>3
<1>12. x_min + 0 * FONT_WIDTH = x_min
  BY <1>3
<1>13. CASE c = NUL
  <2>1. scr2 = scr
    BY <1>1, <1>13, OutCharIs
  <2>2. /\ Used(u, column) = Used(t, column) /\ RowsBelow(u, column) = RowsBelow(t, column)
        /\ Visible(u) = Visible(t) /\ \A k \in 1 .. Len(t) : u[k] = t[k]
    <3>1. c # Newline /\ c \in {NUL, Newline}
      BY <1>13, CharsDiffer
    <3> QED
      BY <1>4, <1>5, <1>13, <3>1 DEF OneMore
  <2>3. Shown(scr.glyphs, u)
    BY <1>1, <2>2, ShownSame
  <2> QED
    BY <1>1, <2>1, <2>2, <2>3, Zenon DEF ScreenInv, AtTheEnd, u
<1>14. CASE c = Newline
  <2>1. c # NUL /\ c \in {NUL, Newline}
    BY <1>14, CharsDiffer
  <2>2. scr2 = [x |-> x_min, y |-> scr.y + FONT_HEIGHT, glyphs |-> scr.glyphs]
    BY <1>1, <1>14, <2>1, OutCharIs
  <2>3. scr2.x = x_min /\ scr2.y = scr.y + FONT_HEIGHT /\ scr2.glyphs = scr.glyphs
    BY <2>2
  <2> HIDE DEF scr2
  <2>4. /\ Used(u, column) = 0 /\ RowsBelow(u, column) = RowsBelow(t, column) + 1
        /\ Visible(u) = Visible(t) /\ \A k \in 1 .. Len(t) : u[k] = t[k]
    BY <1>5, <1>14, <2>1 DEF OneMore
  <2>5. Shown(scr2.glyphs, u)
    BY <1>1, <2>3, <2>4, ShownSame
  <2>6. row + RowsBelow(u, column) = r + 1
    BY <1>4, <2>4
  <2>7. AtTheEnd(scr2, u, column, row)
    <3>1. scr2.x = x_min + (Used(u, column) % Columns) * FONT_WIDTH
      BY <1>11, <1>12, <2>3, <2>4, Zenon
    <3>2. scr2.y = y_min + (row + RowsBelow(u, column)) * FONT_HEIGHT
      BY <1>9, <2>3, <2>6, Zenon
    <3> QED
      BY <3>1, <3>2 DEF AtTheEnd
  <2>8. Behind(scr2)
    <3>1. scr2.y >= scr.y + FONT_HEIGHT
      BY <1>2, <1>3, <2>3
    <3> QED
      BY <1>1, <1>10, <2>3, <3>1, BehindFurther DEF scr2
  <2>9. ReadingOrder(scr2.glyphs)
    BY <1>1, <2>3
  <2>10. scr2 \in Screens
    BY <1>10 DEF scr2
  <2>11. ScreenInv(scr2, u, column, row)
    BY <2>5, <2>7, <2>8, <2>9, <2>10, Zenon DEF ScreenInv
  <2> QED
    BY <2>11 DEF scr2, u
<1>15. CASE c # NUL /\ c # Newline
  <2> DEFINE full == scr.x + FONT_WIDTH > x_max
             glyph == [char |-> c, x |-> scr.x, y |-> scr.y]
             more == Append(scr.glyphs, glyph)
  <2>1. scr2 = [x |-> IF full THEN x_min ELSE scr.x + FONT_WIDTH,
                y |-> IF full THEN scr.y + FONT_HEIGHT ELSE scr.y,
                glyphs |-> more]
    BY <1>1, <1>15, OutCharIs
  <2>2. /\ scr2.x = IF full THEN x_min ELSE scr.x + FONT_WIDTH
        /\ scr2.y = IF full THEN scr.y + FONT_HEIGHT ELSE scr.y
        /\ scr2.glyphs = more
    <3> HIDE DEF full, more
    <3> QED
      BY <2>1
  <2>3. c \notin {NUL, Newline}
    BY <1>15
  <2>4. /\ Len(u) = Len(t) + 1 /\ u[Len(u)] = c /\ u \in Seq(Characters) /\ \A k \in 1 .. Len(t) : u[k] = t[k]
        /\ Visible(u) = Visible(t) \cup {Len(u)} /\ Used(u, column) = a + 1
        /\ RowsBelow(u, column) = RowsBelow(t, column) + (IF (a + 1) % Columns = 0 THEN 1 ELSE 0)
    <3> HIDE DEF a
    <3>1. Used(u, column) = a + 1
      BY <1>4, <1>5, <1>15, Zenon DEF OneMore, a
    <3> QED
      BY <1>5, <1>15, <2>3, <3>1, Zenon DEF OneMore
  <2>5. full <=> m = Columns - 1
    BY <1>7
  <2>6. (a + 1) % Columns = IF full THEN 0 ELSE m + 1
    BY <1>6, <2>5
  <2>7. (a + 1) % Columns = 0 <=> full
    <3> HIDE DEF full, m
    <3> QED
      BY <1>6, <2>6
  <2>8. row + RowsBelow(u, column) = IF full THEN r + 1 ELSE r
    <3> HIDE DEF full
    <3>1. RowsBelow(u, column) = RowsBelow(t, column) + (IF full THEN 1 ELSE 0)
      BY <2>4, <2>7, Zenon
    <3> QED
      BY <1>4, <3>1
  <2> HIDE DEF scr2
  <2>9. AtTheEnd(scr2, u, column, row)
    <3>1. CASE full
      BY <1>9, <1>12, <2>2, <2>4, <2>6, <2>8, <3>1, Zenon DEF AtTheEnd
    <3>2. CASE ~ full
      <4>1. scr2.x = x_min + (Used(u, column) % Columns) * FONT_WIDTH
        BY <1>7, <2>2, <2>4, <2>6, <3>2, Zenon
      <4>2. scr2.y = y_min + (row + RowsBelow(u, column)) * FONT_HEIGHT
        BY <1>1, <2>2, <2>8, <3>2, Zenon
      <4> QED
        BY <4>1, <4>2 DEF AtTheEnd
    <3> QED
      BY <3>1, <3>2
  <2>10. Behind(scr2) /\ ReadingOrder(scr2.glyphs)
    <3>1. scr2 \in Screens
      BY <1>10 DEF scr2
    <3>2. scr2.y = scr.y + FONT_HEIGHT \/ (scr2.y = scr.y /\ scr2.x = scr.x + FONT_WIDTH)
      BY <2>2, Zenon
    <3> HIDE DEF glyph
    <3>3. scr2.glyphs = Append(scr.glyphs, [char |-> c, x |-> scr.x, y |-> scr.y])
      BY <2>2 DEF glyph
    <3> QED
      BY <1>1, <1>7, <3>1, <3>2, <3>3, GlyphAdded
  <2>11. Shown(scr2.glyphs, u)
    <3> DEFINE G == [char : Characters, x : Int, y : Int]
    <3>1. scr.glyphs \in Seq(G)
      BY <1>2
    <3>2. glyph \in G
      BY <1>2
    <3>3. glyph.char = u[Len(u)]
      BY <2>4
    <3> HIDE DEF glyph, G
    <3>4. Shown(Append(scr.glyphs, glyph), u)
      BY <1>1, <2>4, <3>1, <3>2, <3>3, ShownMore
    <3> QED
      BY <2>2, <3>4
  <2>12. scr2 \in Screens
    BY <1>10 DEF scr2
  <2>13. ScreenInv(scr2, u, column, row)
    BY <2>9, <2>10, <2>11, <2>12, Zenon DEF ScreenInv
  <2> QED
    BY <2>13 DEF scr2, u
<1> QED
  BY <1>13, <1>14, <1>15

(* And a whole run of them.                                                *)
LEMMA PutAllKeeps ==
  ASSUME NEW scr, NEW t \in Seq(Characters), NEW chars \in Seq(Characters),
         NEW column \in 0 .. Columns - 1, NEW row \in Nat, ScreenInv(scr, t, column, row)
  PROVE  ScreenInv(PutAll(scr, chars), t \o chars, column, row)
<1> DEFINE N == Len(chars)
           Upto(n) == t \o SubSeq(chars, 1, n)
<1>1. scr \in Screens
  BY DEF ScreenInv
<1>2. PICK f \in [0 .. N -> Screens] : Between(f, scr, chars) /\ PutAll(scr, chars) = f[N]
  BY <1>1, PutAllIs
<1>3. N \in Nat
  OBVIOUS
<1>4. Upto(0) = t /\ Upto(N) = t \o chars
  OBVIOUS
<1>5. ASSUME NEW n \in 0 .. N - 1
      PROVE  /\ Upto(n) \in Seq(Characters) /\ chars[n + 1] \in Characters
             /\ Upto(n + 1) = Append(Upto(n), chars[n + 1])
  OBVIOUS
<1> HIDE DEF Upto
<1> DEFINE S == {n \in Nat : n <= N => ScreenInv(f[n], Upto(n), column, row)}
<1>6. 0 \in S
  <2>1. f[0] = scr
    BY <1>2 DEF Between
  <2>2. ScreenInv(f[0], Upto(0), column, row)
    BY <1>4, <2>1, Zenon
  <2> QED
    BY <2>2
<1>7. ASSUME NEW n \in Nat, n \in S PROVE n + 1 \in S
  <2> SUFFICES ASSUME n + 1 <= N PROVE ScreenInv(f[n + 1], Upto(n + 1), column, row)
    OBVIOUS
  <2>1. n \in 0 .. N - 1 /\ n <= N
    BY <1>3
  <2>2. ScreenInv(f[n], Upto(n), column, row)
    BY <1>7, <2>1
  <2>3. f[n + 1] = _out_char(f[n], chars[n + 1])
    BY <1>2, <2>1 DEF Between
  <2>4. Upto(n) \in Seq(Characters) /\ chars[n + 1] \in Characters /\ Upto(n + 1) = Append(Upto(n), chars[n + 1])
    BY <1>5, <2>1
  <2>5. ScreenInv(_out_char(f[n], chars[n + 1]), Append(Upto(n), chars[n + 1]), column, row)
    BY <2>2, <2>4, OutCharKeeps
  <2> QED
    BY <2>3, <2>4, <2>5, Zenon
<1>8. N \in S
  <2> HIDE DEF S, N
  <2> QED
    BY <1>3, <1>6, <1>7, SetInduction
<1>9. ScreenInv(f[N], Upto(N), column, row)
  BY <1>3, <1>8
<1> QED
  BY <1>2, <1>4, <1>9, Zenon

(* The cursor follows the text that was handed out so far.                 *)
TextInv == call.out = "char" => ScreenInv(screen, text, call.column, call.row)

(* The cursor starts where the call found it.                              *)
LEMMA TextInvInitially ==
  ASSUME Init
  PROVE  TextInv
<1>1. call.column \in 0 .. Columns - 1 /\ call.row \in Nat /\ text = <<>> /\ screen = Cursor(call.column, call.row)
  BY PrintfAssumption DEF Init
<1> DEFINE col == call.column
           row == call.row
<1>2. /\ FONT_WIDTH \in Nat /\ FONT_HEIGHT \in Nat /\ x_min \in Int /\ y_min \in Int
      /\ Columns \in Nat /\ col \in Nat /\ col % Columns = col
  BY <1>1, ColumnsFit
<1> HIDE DEF col, row
<1>3. /\ screen.x = x_min + col * FONT_WIDTH /\ screen.y = y_min + row * FONT_HEIGHT /\ screen.glyphs = <<>>
      /\ screen = [x |-> x_min + col * FONT_WIDTH, y |-> y_min + row * FONT_HEIGHT, glyphs |-> <<>>]
  BY <1>1 DEF Cursor, col, row
<1>4. /\ Len(text) = 0 /\ Visible(text) = {} /\ Line(text, 0) = {} /\ RowEnds(text, col) = {}
  BY <1>1 DEF Visible, Line, RowEnds
<1>5. Used(text, col) = col /\ RowsBelow(text, col) = 0 /\ Cardinality(Visible(text)) = 0
  BY <1>2, <1>4, FS_EmptySet DEF Used, ColumnsUsed, RowsBelow
<1>6. AtTheEnd(screen, text, col, row)
  <2>1. row + RowsBelow(text, col) = row
    BY <1>1, <1>5 DEF row
  <2> QED
    BY <1>2, <1>3, <1>5, <2>1, Zenon DEF AtTheEnd
<1>7. screen \in Screens
  <2>1. x_min + col * FONT_WIDTH \in Int /\ y_min + row * FONT_HEIGHT \in Int
    BY <1>1, <1>2 DEF row
  <2>2. <<>> \in Seq([char : Characters, x : Int, y : Int])
    OBVIOUS
  <2> QED
    BY <1>3, <2>1, <2>2 DEF Screens
<1>8. Len(screen.glyphs) = 0 /\ 1 .. Len(screen.glyphs) = {}
  BY <1>3
<1>9. Behind(screen) /\ ReadingOrder(screen.glyphs) /\ Shown(screen.glyphs, text)
  BY <1>4, <1>5, <1>8 DEF Behind, ReadingOrder, Shown
<1> QED
  BY <1>6, <1>7, <1>9, Zenon DEF TextInv, ScreenInv, col, row

(* Each step of _vsnprintf hands its characters to _out_char.              *)
LEMMA TextInvKept ==
  ASSUME IInv, TextInv, [Next]_vars
  PROVE  TextInv'
<1> SUFFICES ASSUME call'.out = "char"
             PROVE  ScreenInv(screen', text', call'.column, call'.row)
  BY DEF TextInv
<1>1. call' = call
  BY DEF Next, Item, Terminate, vars
<1>2. ScreenInv(screen, text, call.column, call.row)
  BY <1>1 DEF TextInv
<1>3. /\ call.column \in 0 .. Columns - 1 /\ call.row \in Nat /\ text \in Seq(Characters) /\ call \in Calls
  BY PrintfAssumption DEF IInv
<1>4. CASE Item
  <2> DEFINE chars == Converted(Head(format))
  <2>1. format # <<>> /\ screen' = PutAll(screen, chars) /\ text' = text \o chars
    BY <1>1, <1>4 DEF Item, Out
  <2>2. chars \in Seq(Characters)
    <3>1. format \in Seq(Items(call))
      BY DEF IInv
    <3>2. Head(format) \in Items(call)
      BY <2>1, <3>1
    <3> QED
      BY <1>3, <3>2, ConversionAssumption
  <2> HIDE DEF chars
  <2>3. ScreenInv(PutAll(screen, chars), text \o chars, call.column, call.row)
    BY <1>2, <1>3, <2>2, PutAllKeeps
  <2> QED
    BY <1>1, <2>1, <2>3, Zenon
<1>5. CASE Terminate
  <2>1. screen' = PutAll(screen, <<NUL>>) /\ text' = text
    BY <1>1, <1>5 DEF Terminate, Out
  <2>2. PutAll(screen, <<NUL>>) = screen
    <3>1. NUL \in Characters /\ screen \in Screens
      BY <1>2, PrintfAssumption DEF ScreenInv
    <3> DEFINE end == <<NUL>>
    <3>2. end \in Seq(Characters) /\ Len(end) = 1 /\ end[1] = NUL
      BY <3>1
    <3> HIDE DEF end
    <3>3. PICK f \in [0 .. Len(end) -> Screens] : Between(f, screen, end) /\ PutAll(screen, end) = f[Len(end)]
      BY <3>1, <3>2, PutAllIs
    <3>4. f[0] = screen /\ f[0 + 1] = _out_char(f[0], end[0 + 1])
      BY <3>2, <3>3 DEF Between
    <3>5. PutAll(screen, end) = _out_char(screen, NUL)
      BY <3>2, <3>3, <3>4
    <3> QED
      BY <3>5, Zenon DEF _out_char, end
  <2> QED
    BY <1>1, <1>2, <2>1, <2>2, Zenon
<1>6. CASE UNCHANGED vars
  BY <1>1, <1>2, <1>6, Zenon DEF vars
<1> QED
  BY <1>4, <1>5, <1>6 DEF Next

(* Behind the cursor is above it, too.                                     *)
LEMMA TextInvSuffices ==
  ASSUME IInv, TextInv
  PROVE  TextOnScreen
<1> SUFFICES ASSUME call.out = "char"
             PROVE  /\ Shown(screen.glyphs, text)
                    /\ ReadingOrder(screen.glyphs)
                    /\ BetweenMargins(screen.glyphs)
                    /\ Cursor(0, call.row + RowsBelow(text, call.column)).y <= y_max => AboveTheEnd(screen.glyphs)
  BY DEF TextOnScreen
<1>1. ScreenInv(screen, text, call.column, call.row)
  BY DEF TextInv
<1>2. /\ screen \in Screens /\ Behind(screen)
      /\ screen.y = y_min + (call.row + RowsBelow(text, call.column)) * FONT_HEIGHT
  BY <1>1 DEF ScreenInv, AtTheEnd
<1>3. Cursor(0, call.row + RowsBelow(text, call.column)).y = screen.y /\ screen.x \in Int /\ screen.y \in Int
  <2>1. screen.x \in Int /\ screen.y \in Int
    BY <1>2 DEF Screens
  <2> QED
    BY <1>2, <2>1 DEF Cursor
<1>4. /\ FONT_WIDTH \in Nat /\ FONT_HEIGHT \in Nat /\ FbWidth \in Nat /\ FbHeight \in Nat /\ Margin \in Nat
      /\ x_min = Margin /\ x_max = FbWidth - FONT_WIDTH - Margin /\ y_max = FbHeight - FONT_HEIGHT - Margin
  BY ScreenAssumption DEF x_min, x_max, y_max
<1>5. ASSUME NEW k \in 1 .. Len(screen.glyphs)
      PROVE  /\ screen.glyphs[k].x >= Margin /\ screen.glyphs[k].x + FONT_WIDTH <= FbWidth - Margin
             /\ screen.y <= y_max => screen.glyphs[k].y + FONT_HEIGHT <= FbHeight - Margin
  <2> DEFINE g == screen.glyphs[k]
  <2>1. g.x \in Int /\ g.y \in Int
    BY <1>2, GlyphIs
  <2>2. g.x >= x_min /\ g.x <= x_max /\ Before(g, screen)
    BY <1>2 DEF Behind
  <2> HIDE DEF g
  <2>3. g.x >= Margin /\ g.x + FONT_WIDTH <= FbWidth - Margin
    BY <1>4, <2>1, <2>2
  <2>4. screen.y <= y_max => g.y + FONT_HEIGHT <= FbHeight - Margin
    BY <1>3, <1>4, <2>1, <2>2 DEF Before
  <2> QED
    BY <2>3, <2>4 DEF g
<1>6. BetweenMargins(screen.glyphs) /\ (screen.y <= y_max => AboveTheEnd(screen.glyphs))
  BY <1>5 DEF BetweenMargins, AboveTheEnd
<1> QED
  BY <1>1, <1>3, <1>6 DEF ScreenInv

(* printf shows the whole text in reading order between the margins, and   *)
(* above the end of the framebuffer if its rows are enough, for every      *)
(* framebuffer, font and text, from each place of the cursor (_vsnprintf   *)
(* with _out_char and _putchar).                                           *)
THEOREM PrintfTextOnScreen == Spec => []TextOnScreen
<1>1. Init => TextInv
  BY TextInvInitially
<1>2. IInv /\ TextInv /\ [Next]_vars => TextInv'
  BY TextInvKept
<1>3. IInv /\ TextInv => TextOnScreen
  BY TextInvSuffices
<1> QED
  BY <1>1, <1>2, <1>3, PrintfInvariant, PTL DEF Spec
=============================================================================
