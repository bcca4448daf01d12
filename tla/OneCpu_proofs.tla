---------------------------- MODULE OneCpu_proofs ----------------------------
(***************************************************************************)
(* Proofs about Exceptions and Timer, in which there is one CPU.           *)
(*                                                                         *)
(* Exceptions: for gates of any number of bits, any number of functions,   *)
(* of which any but the first may be static, and any number of calls and   *)
(* exceptions.  Timer: for every width of the words and the counter, every *)
(* period, request and rate.                                               *)
(***************************************************************************)
EXTENDS Exceptions, Timer, SequenceTheorems, WellFoundedInduction, TLAPS

Registers == {"ss", "rflags"} \cup {Saved[k] : k \in 1 .. 18}

StackWord == Nat \cup Registers

(* The frame pointer of the i-th active function: the entry's is 2, that   *)
(* of cpu_state_assembler lies below the registers it has pushed, and the  *)
(* others' are behind these, two words apart.                              *)
Bottom == IF cpu_state = 0 THEN 2 ELSE cpu_state

FramePointer(i) ==
  IF i > 1 THEN Bottom + 2 * (i - 1) ELSE IF cpu_state = 0 THEN 2 ELSE cpu_state - 18

Handler(v) == IF v \in Vectors THEN isr_table[v] ELSE halt_handler

Gates == {Gate(h) : h \in Nat}

Interrupted ==
  [vector : Vectors, error_code : Nat, rbp : Nat, rip : Nat, rsp : Nat, cs : Nat]

TypeOK ==
  /\ stack \in Seq(StackWord) /\ rbp \in Nat /\ rip \in Nat /\ cpu_state \in Nat
  /\ active \in Seq(Range(Text)) /\ active # <<>> /\ trace \in Seq(Range(Text))
  /\ frames_kept \in BOOLEAN
  /\ gdt \in Seq(Range(Descriptors)) /\ idt \in Seq(Gates)
  /\ stage \in {"gdt_init", "idt_init", "run", "stub", "handler", "panic", "trace", "done",
                "wild", "halted"}

(* As far as they are built, the tables hold what they should, and nothing *)
(* runs before they are complete.                                          *)
Built ==
  /\ \A k \in 1 .. Len(gdt) : gdt[k] = Descriptors[k]
  /\ \A k \in 1 .. Len(idt) : idt[k] = Gate(Handler(k - 1))
  /\ stage = "gdt_init" => Len(gdt) < 5 /\ Len(idt) = 0
  /\ stage # "gdt_init" => Len(gdt) = 5
  /\ stage = "idt_init" => Len(idt) <= 32
  /\ stage \notin {"gdt_init", "idt_init"} => Len(idt) = 33 /\ halt_vector = 32

(* The frame of each active function points to the one before, with the    *)
(* address of a call in that function behind it; the address behind the    *)
(* first belongs to no function.                                           *)
Linked ==
  \A i \in 2 .. Len(active) :
    /\ stack[FramePointer(i) - 1] \in CallSites(active[i - 1])
    /\ stack[FramePointer(i)] = FramePointer(i - 1)

Standing ==
  /\ Len(stack) = Bottom + 2 * (Len(active) - 1)
  /\ rbp = FramePointer(Len(active))
  /\ cpu_state # 0 => Len(active) > 1 /\ cpu_state > 19
  /\ stack[FramePointer(1) - 1] \in 0 .. 31
  /\ Linked

FramesStand ==
  /\ frames_kept /\ stage # "stub" => Standing
  /\ stage \in {"gdt_init", "idt_init", "run"} => cpu_state = 0

(* What the processor has pushed, for the stub that is next.               *)
Pushed(i) ==
  <<"ss", i.rsp, "rflags", i.cs, i.rip>>
    \o (IF i.vector \in WithErrorCode THEN <<i.error_code>> ELSE <<>>)

(* The field k of the cpu_state that belongs to it.                        *)
Held(i, k) == IF Fields[k] \in DOMAIN i THEN i[Fields[k]] ELSE Fields[k]

InStub ==
  stage = "stub" =>
    /\ interrupted \in Interrupted /\ interrupted.error_code = ErrorCode(interrupted.vector)
    /\ rip = isr_table[interrupted.vector] /\ rbp = interrupted.rbp
    /\ \E s \in Seq(StackWord) : Len(s) % 2 = 0 /\ stack = s \o Pushed(interrupted)

(* The trace names the functions that were called last.                    *)
Named ==
  \A k \in 1 .. Len(trace) :
    active[Len(active) - k] \notin Static => trace[k] = active[Len(active) - k]

Tracing ==
  /\ stage = "trace" => /\ frames_kept /\ Len(trace) < Len(active) /\ Named
                        /\ frame = FramePointer(Len(active) - Len(trace))
  /\ stage = "done" => Len(trace) = Len(active) - 1 /\ Named

IInv == TypeOK /\ Built /\ FramesStand /\ InStub /\ CpuStateIsRight /\ Tracing

-----------------------------------------------------------------------------
(* Numbers.                                                                *)

(* Products of naturals are naturals.                                      *)
LEMMA Product ==
  ASSUME NEW a \in Nat, NEW b \in Nat
  PROVE  a * b \in Nat
  OBVIOUS

(* A product grows with its factor.                                        *)
LEMMA Monotone ==
  ASSUME NEW a \in Nat, NEW b \in Nat, NEW c \in Nat, a <= b
  PROVE  a * c <= b * c /\ c * a <= c * b
  OBVIOUS

(* A product with the next number.                                         *)
LEMMA OneMore ==
  ASSUME NEW a \in Nat, NEW b \in Nat
  PROVE  (a + 1) * b = a * b + b
  OBVIOUS

(* Quotient and remainder.                                                 *)
LEMMA Division ==
  ASSUME NEW a \in Nat, NEW b \in Nat \ {0}
  PROVE  /\ a \div b \in Nat /\ a % b \in 0 .. b - 1
         /\ a = (a \div b) * b + (a % b)
         /\ a < b => a % b = a
  OBVIOUS

(* ... are what a number is made of.                                       *)
LEMMA DivisionIs ==
  ASSUME NEW d \in Nat \ {0}, NEW q \in Nat, NEW e \in Nat, e < d
  PROVE  (q * d + e) \div d = q
<1> DEFINE a == q * d + e
           p == a \div d
<1>1. q * d \in Nat /\ a \in Nat
  BY Product
<1>2. p \in Nat /\ a % d \in 0 .. d - 1 /\ a = p * d + (a % d)
  BY <1>1, Division
<1>3. p * d \in Nat
  BY <1>2, Product
<1>4. CASE p < q
  <2>1. (p + 1) * d <= q * d
    BY <1>2, <1>4, Monotone
  <2>2. (p + 1) * d = p * d + d
    BY <1>2, OneMore
  <2> HIDE DEF p
  <2> QED
    BY <1>1, <1>2, <1>3, <2>1, <2>2
<1>5. CASE q < p
  <2>1. (q + 1) * d <= p * d
    BY <1>2, <1>5, Monotone
  <2>2. (q + 1) * d = q * d + d
    BY OneMore
  <2> HIDE DEF p
  <2> QED
    BY <1>1, <1>2, <1>3, <2>1, <2>2
<1> QED
  BY <1>2, <1>4, <1>5

(* The processor finds in a gate the handler that was put into it.         *)
LEMMA GateOffset ==
  ASSUME NEW h \in Nat, h < Half * Half * Half * Half
  PROVE  Offset(Gate(h)) = h
<1> DEFINE a == h % Half
           q == h \div Half
           b == q % Half
           r == q \div Half
           HH == Half * Half
<1>1. Half \in Nat \ {0} /\ HH \in Nat \ {0} /\ HH * Half \in Nat /\ HH * HH \in Nat \ {0}
  <2>1. Half \in Nat \ {0}
    BY ExceptionsAssumption
  <2>2. \A m, n \in Nat \ {0} : m * n \in Nat \ {0}
    OBVIOUS
  <2>3. HH \in Nat \ {0}
    BY <2>1, <2>2
  <2> HIDE DEF HH
  <2> QED
    BY <2>1, <2>2, <2>3
<1>2. q \in Nat /\ a \in 0 .. Half - 1 /\ h = q * Half + a
  BY <1>1, Division
<1>3. r \in Nat /\ b \in 0 .. Half - 1 /\ q = r * Half + b
  BY <1>1, <1>2, Division
<1> HIDE DEF a, q, b, r
<1>4. r * Half \in Nat /\ b * Half \in Nat /\ r * HH \in Nat /\ q * Half = r * HH + b * Half
  <2>1. r * Half \in Nat /\ b * Half \in Nat /\ r * HH \in Nat
    BY <1>1, <1>3, Product
  <2>2. \A x, y, z \in Nat : (x * z + y) * z = x * (z * z) + y * z
    OBVIOUS
  <2> QED
    BY <1>1, <1>3, <2>1, <2>2
<1>5. b * Half + a \in Nat /\ b * Half + a < HH
  <2>1. (b + 1) * Half <= Half * Half
    BY <1>1, <1>3, Monotone
  <2>2. (b + 1) * Half = b * Half + Half
    BY <1>1, <1>3, OneMore
  <2> QED
    BY <1>1, <1>2, <1>4, <2>1, <2>2
<1>6. h = r * HH + (b * Half + a)
  BY <1>1, <1>2, <1>3, <1>4
<1>7. h \div HH = r
  <2> HIDE DEF HH
  <2> QED
    BY <1>1, <1>3, <1>5, <1>6, DivisionIs
<1>8. r < HH
  <2> SUFFICES ASSUME r >= HH PROVE FALSE
    BY <1>1, <1>3
  <2>1. HH * HH <= r * HH
    BY <1>1, <1>3, Monotone
  <2>2. Half * Half * Half * Half = HH * HH
    BY <1>1
  <2> HIDE DEF HH
  <2> QED
    BY <1>1, <1>4, <1>5, <1>6, <2>1, <2>2
<1>9. (h \div HH) % HH = r
  <2> HIDE DEF HH
  <2> QED
    BY <1>1, <1>3, <1>7, <1>8, Division
<1>10. Gate(h).offset_0 = a /\ Gate(h).offset_1 = b /\ Gate(h).offset_2 = r
  BY <1>9 DEF Gate, a, b, q
<1>11. r * Half * Half = r * HH
  BY <1>1, <1>3
<1> QED
  BY <1>1, <1>2, <1>4, <1>6, <1>10, <1>11 DEF Offset

-----------------------------------------------------------------------------
(* Symbols.                                                                *)

(* The functions lie one behind the other.                                 *)
LEMMA Starts ==
  ASSUME NEW j \in Nat \ {0}, NEW k \in Nat \ {0}
  PROVE  /\ Start(j) \in Nat /\ Start(j) >= TextStart
         /\ j < k => Start(j) + Size <= Start(k)
<1>1. TextStart \in Nat /\ Size \in Nat /\ j - 1 \in Nat /\ k - 1 \in Nat
  BY ExceptionsAssumption
<1>2. (j - 1) * Size \in Nat /\ (k - 1) * Size \in Nat
  BY <1>1, Product
<1>3. j < k => j * Size <= (k - 1) * Size
  BY <1>1, Monotone
<1>4. j * Size = (j - 1) * Size + Size
  <2>1. (j - 1) + 1 = j
    BY <1>1
  <2> QED
    BY <1>1, <2>1, OneMore
<1> QED
  BY <1>1, <1>2, <1>3, <1>4 DEF Start

(* Each function has one place.                                            *)
LEMMA AddressIs ==
  ASSUME NEW f \in Range(Text)
  PROVE  \E m \in 1 .. Len(Text) : Text[m] = f /\ Address(f) = Start(m)
<1>1. PICK m \in 1 .. Len(Text) : Text[m] = f
  BY ExceptionsAssumption DEF Range
<1>2. \A k \in 1 .. Len(Text) : Text[k] = f => k = m
  BY <1>1, ExceptionsAssumption
<1>3. (CHOOSE k \in 1 .. Len(Text) : Text[k] = f) = m
  BY <1>1, <1>2
<1> QED
  BY <1>1, <1>3 DEF Address

(* An address of a call lies in its function, behind the first byte, or is *)
(* that of the next one.                                                   *)
LEMMA CallSiteIn ==
  ASSUME NEW f \in Range(Text), NEW a \in CallSites(f)
  PROVE  \E m \in 1 .. Len(Text) :
           /\ Text[m] = f /\ m \in Nat \ {0} /\ Start(m) \in Nat
           /\ a \in Nat /\ Start(m) < a /\ a <= Start(m) + Size
<1>1. PICK m \in 1 .. Len(Text) : Text[m] = f /\ Address(f) = Start(m)
  BY AddressIs
<1>2. m \in Nat \ {0} /\ Start(m) \in Nat /\ Size \in Nat /\ Size > 1
  <2>1. m \in Nat \ {0}
    OBVIOUS
  <2> QED
    BY <2>1, Starts, ExceptionsAssumption
<1>3. a \in Start(m) + 1 .. Start(m) + Size
  BY <1>1, <1>2 DEF CallSites
<1> QED
  BY <1>1, <1>2, <1>3

LEMMA LessIsWellFounded == IsWellFoundedOn({p \in Nat \X Nat : p[1] < p[2]}, Nat)
  BY NatLessThanWellFounded DEF OpToRel

(* A set of numbers with a bound has a greatest.                           *)
LEMMA Greatest ==
  ASSUME NEW S \in SUBSET Nat, S # {}, NEW m \in Nat, \A x \in S : x <= m
  PROVE  \E x \in S : \A y \in S : y <= x
<1> DEFINE Less == {p \in Nat \X Nat : p[1] < p[2]}
           Gaps == {m - x : x \in S}
<1>1. Gaps \subseteq Nat /\ Gaps # {}
  <2>1. \A x \in S : m - x \in Nat
    OBVIOUS
  <2>2. PICK x \in S : TRUE
    OBVIOUS
  <2> QED
    BY <2>1, <2>2
<1>2. PICK g \in Gaps : \A h \in Gaps : ~ (<<h, g>> \in Less)
  <2>1. IsWellFoundedOn(Less, Nat)
    BY LessIsWellFounded
  <2> HIDE DEF Less, Gaps
  <2> QED
    BY <1>1, <2>1, WFMin
<1>3. PICK x \in S : g = m - x
  OBVIOUS
<1>4. ASSUME NEW y \in S PROVE y <= x
  <2>1. m - y \in Gaps /\ m - y \in Nat /\ g \in Nat
    BY <1>1
  <2>2. ~ (m - y < g)
    BY <1>2, <2>1
  <2> QED
    BY <1>3, <2>1, <2>2
<1> QED
  BY <1>4

(* An address below the functions has no symbol.                           *)
LEMMA NoSymbol ==
  ASSUME NEW a \in 0 .. 31
  PROVE  get_symtab_function_name(a) = {}
<1>1. \A k \in symtab : Start(k) \in Nat /\ Start(k) >= TextStart
  <2>1. \A k \in symtab : k \in Nat \ {0}
    BY ExceptionsAssumption DEF symtab
  <2> QED
    BY <2>1, Starts
<1>2. \A k \in symtab : ~ (Start(k) < a)
  BY <1>1, ExceptionsAssumption
<1> QED
  BY <1>2 DEF get_symtab_function_name, Inside

(* The address of a call has exactly one, which is the caller's if that is *)
(* in the table.                                                           *)
LEMMA Symbol ==
  ASSUME NEW f \in Range(Text), NEW a \in CallSites(f)
  PROVE  \E name \in Range(Text) :
           get_symtab_function_name(a) = {name} /\ (f \notin Static => name = f)
<1>1. PICK m \in 1 .. Len(Text) :
        /\ Text[m] = f /\ m \in Nat \ {0} /\ Start(m) \in Nat
        /\ a \in Nat /\ Start(m) < a /\ a <= Start(m) + Size
  BY CallSiteIn
<1> DEFINE Below == {k \in symtab : k <= m}
<1>2. symtab \subseteq Nat \ {0} /\ symtab \subseteq 1 .. Len(Text) /\ Len(Text) \in Nat /\ DOMAIN Text = 1 .. Len(Text)
  BY ExceptionsAssumption DEF symtab
<1>3. 1 \in Below
  <2>1. Text[1] \notin Static /\ 1 \in 1 .. Len(Text)
    BY <1>1, <1>2, ExceptionsAssumption
  <2> QED
    BY <1>1, <2>1 DEF symtab
<1>4. PICK n \in Below : \A k \in Below : k <= n
  <2>1. Below \in SUBSET Nat /\ Below # {} /\ \A k \in Below : k <= m
    BY <1>2, <1>3
  <2> HIDE DEF Below
  <2> QED
    BY <1>1, <2>1, Greatest
<1>5. \A k \in symtab : Start(k) < a <=> k <= m
  <2>1. \A k \in symtab : /\ Start(k) \in Nat
                          /\ m < k => Start(m) + Size <= Start(k)
                          /\ k < m => Start(k) + Size <= Start(m)
    BY <1>1, <1>2, Starts
  <2>2. Size \in Nat
    BY ExceptionsAssumption
  <2>3. ASSUME NEW k \in symtab PROVE Start(k) < a <=> k <= m
    BY <1>1, <1>2, <2>1, <2>2
  <2> QED
    BY <2>3
<1>6. \A k \in symtab : Inside(k, a) <=> k = n
  <2>1. \A k \in symtab : Start(k) \in Nat
    BY <1>2, Starts
  <2>2. \A k \in symtab : Start(k) >= a <=> k > m
    BY <1>1, <1>2, <1>5, <2>1
  <2>3. \A k \in symtab : BelowNext(k, a) <=> \A j \in symtab : j > k => j > m
    BY <2>2 DEF BelowNext
  <2>4. n \in symtab /\ n <= m /\ \A j \in symtab : j > n => j > m
    BY <1>1, <1>2, <1>4
  <2>5. ASSUME NEW k \in symtab, Inside(k, a) PROVE k = n
    <3>1. k <= m /\ \A j \in symtab : j > k => j > m
      BY <1>5, <2>3, <2>5 DEF Inside
    <3> QED
      BY <1>1, <1>2, <2>4, <3>1
  <2>6. Inside(n, a)
    BY <1>5, <2>3, <2>4 DEF Inside
  <2> QED
    BY <2>5, <2>6
<1>7. get_symtab_function_name(a) = {Text[n]}
  <2>1. n \in symtab /\ n \in Nat
    BY <1>2, <1>4
  <2>2. \A k \in symtab : (Inside(k, a) /\ \A j \in symtab : j < k => ~ Inside(j, a)) <=> k = n
    BY <1>2, <1>6, <2>1
  <2>3. {k \in symtab : Inside(k, a) /\ \A j \in symtab : j < k => ~ Inside(j, a)} = {n}
    BY <2>1, <2>2
  <2> QED
    BY <2>3 DEF get_symtab_function_name
<1>8. Text[n] \in Range(Text)
  BY <1>2, <1>4 DEF Range
<1>9. f \notin Static => n = m
  BY <1>1, <1>2, <1>4 DEF symtab
<1> QED
  BY <1>1, <1>7, <1>8, <1>9

-----------------------------------------------------------------------------
(* Frames.                                                                 *)

(* The values of the variables in an untouched machine.                    *)
LEMMA InitIInv ==
  ASSUME Init
  PROVE  IInv
<1>1. "kmain" \in Range(Text)
  BY ExceptionsAssumption DEF Support
<1>2. rip \in Nat
  <2>1. PICK m \in 1 .. Len(Text) : Address("kmain") = Start(m)
    BY <1>1, AddressIs
  <2>2. m \in Nat \ {0}
    OBVIOUS
  <2> QED
    BY <2>1, <2>2, Starts DEF Init
<1>3. active = <<"kmain">> /\ active \in Seq(Range(Text)) /\ Len(active) = 1
  BY <1>1 DEF Init
<1>4. TypeOK
  <2>1. 0 \in StackWord
    BY DEF StackWord
  <2>2. <<0, 0>> \in Seq(StackWord) /\ <<0>> \in Seq(StackWord) /\ Len(<<0, 0>>) = 2 /\ Len(<<0>>) = 1
    BY <2>1
  <2>3. stack \in Seq(StackWord) /\ rbp \in Nat
    BY <2>2 DEF Init
  <2> QED
    BY <1>2, <1>3, <2>3 DEF Init, TypeOK
<1>5. FramesStand
  <2>1. frames_kept => stack = <<0, 0>> /\ rbp = 2 /\ cpu_state = 0
    BY DEF Init
  <2> QED
    BY <1>3, <2>1 DEF Init, FramesStand, Standing, Linked, Bottom, FramePointer
<1> QED
  BY <1>4, <1>5 DEF Init, IInv, Built, InStub, CpuStateIsRight, Tracing

(* The frame pointers lie on the stack, each above the one before.         *)
LEMMA Pointers ==
  ASSUME TypeOK, Standing
  PROVE  /\ Len(stack) \in Nat /\ Len(active) \in Nat /\ Len(active) > 0
         /\ \A i \in 1 .. Len(active) :
              /\ FramePointer(i) \in Nat /\ FramePointer(i) > 1 /\ FramePointer(i) <= Len(stack)
              /\ i > 1 => FramePointer(i - 1) < FramePointer(i)
<1>1. Len(stack) \in Nat /\ Len(active) \in Nat /\ Len(active) > 0 /\ cpu_state \in Nat
  BY DEF TypeOK
<1>2. /\ Len(stack) = Bottom + 2 * (Len(active) - 1)
      /\ cpu_state # 0 => Len(active) > 1 /\ cpu_state > 19
  BY DEF Standing
<1>3. ASSUME NEW i \in 1 .. Len(active)
      PROVE  /\ FramePointer(i) \in Nat /\ FramePointer(i) > 1 /\ FramePointer(i) <= Len(stack)
             /\ i > 1 => FramePointer(i - 1) < FramePointer(i)
  <2>1. CASE cpu_state = 0
    BY <1>1, <1>2, <2>1 DEF FramePointer, Bottom
  <2>2. CASE cpu_state # 0
    BY <1>1, <1>2, <2>2 DEF FramePointer, Bottom
  <2> QED
    BY <2>1, <2>2
<1> QED
  BY <1>1, <1>3

(* A sequence without its last element.                                    *)
LEMMA FrontIs ==
  ASSUME NEW T, NEW s \in Seq(T)
  PROVE  /\ Front(s) \in Seq(T)
         /\ Len(s) > 0 => Len(Front(s)) = Len(s) - 1
         /\ \A i \in 1 .. Len(s) - 1 : Front(s)[i] = s[i]
<1> DEFINE n == Len(s)
<1>1. n \in Nat /\ Front(s) = SubSeq(s, 1, n - 1) /\ \A i \in 1 .. n - 1 : s[i] \in T
  BY DEF Front
<1> HIDE DEF n
<1>2. n - 1 \in Int /\ 1 \in Int /\ (n - 1) - 1 + 1 = n - 1
  BY <1>1
<1>3. /\ SubSeq(s, 1, n - 1) \in Seq(T)
      /\ Len(SubSeq(s, 1, n - 1)) = IF 1 <= n - 1 THEN (n - 1) - 1 + 1 ELSE 0
      /\ \A i \in 1 .. (n - 1) - 1 + 1 : SubSeq(s, 1, n - 1)[i] = s[1 + i - 1]
  BY <1>1, <1>2, SubSeqProperties
<1>4. n > 0 => (IF 1 <= n - 1 THEN (n - 1) - 1 + 1 ELSE 0) = n - 1
  BY <1>1
<1>5. \A i \in 1 .. n - 1 : i \in 1 .. (n - 1) - 1 + 1 /\ 1 + i - 1 = i
  BY <1>1
<1> QED
  BY <1>1, <1>3, <1>4, <1>5 DEF n

(* A function that is called stands upon the others.                       *)
LEMMA EnterStands ==
  ASSUME TypeOK, frames_kept => Standing, NEW f \in Range(Text), Enter(f),
         UNCHANGED <<cpu_state, frames_kept>>
  PROVE  /\ stack' \in Seq(StackWord) /\ rbp' \in Nat /\ active' \in Seq(Range(Text)) /\ active' # <<>>
         /\ frames_kept => Standing'
<1> DEFINE n == Len(active)
           m == Len(stack)
<1>1. n \in Nat /\ n > 0 /\ m \in Nat /\ active \in Seq(Range(Text)) /\ stack \in Seq(StackWord) /\ rbp \in Nat
  BY DEF TypeOK
<1>2. active[n] \in Range(Text) /\ Last(active) = active[n]
  BY <1>1 DEF Last
<1>3. /\ active' = Append(active, f) /\ active' \in Seq(Range(Text)) /\ Len(active') = n + 1
      /\ active'[n + 1] = f /\ \A i \in 1 .. n : active'[i] = active[i]
  BY <1>1 DEF Enter
<1>4. PICK a \in CallSites(active[n]) : Framed(a, stack, rbp)
  BY <1>2 DEF Enter
<1>5. a \in Nat
  BY <1>2, CallSiteIn
<1>6. CASE ~ frames_kept
  <2>1. stack' = Append(stack, a) /\ rbp' = rbp /\ a \in StackWord
    BY <1>4, <1>5, <1>6 DEF Framed, StackWord
  <2>2. stack' \in Seq(StackWord)
    BY <1>1, <2>1
  <2>3. active' # <<>>
    BY <1>1, <1>3
  <2> QED
    BY <1>1, <1>3, <1>6, <2>1, <2>2, <2>3
<1>7. CASE frames_kept
  <2>1. stack' = stack \o <<a, rbp>> /\ rbp' = Len(stack')
    BY <1>4, <1>7 DEF Framed
  <2>2. /\ stack' \in Seq(StackWord) /\ Len(stack') = m + 2 /\ rbp' = m + 2
        /\ stack'[m + 1] = a /\ stack'[m + 2] = rbp /\ \A k \in 1 .. m : stack'[k] = stack[k]
    BY <1>1, <1>5, <2>1 DEF StackWord
  <2>3. /\ m = Bottom + 2 * (n - 1) /\ rbp = FramePointer(n)
        /\ cpu_state # 0 => n > 1 /\ cpu_state > 19
        /\ stack[FramePointer(1) - 1] \in 0 .. 31
        /\ \A i \in 2 .. n : /\ stack[FramePointer(i) - 1] \in CallSites(active[i - 1])
                             /\ stack[FramePointer(i)] = FramePointer(i - 1)
    BY <1>7 DEF Standing, Linked
  <2>4. \A i \in 1 .. n : FramePointer(i) \in Nat /\ FramePointer(i) > 1 /\ FramePointer(i) <= m
    BY <1>7, Pointers
  <2>5. Bottom' = Bottom /\ cpu_state' = cpu_state /\ \A i : FramePointer(i)' = FramePointer(i)
    BY DEF Bottom, FramePointer
  <2>6. m + 2 = Bottom + 2 * n /\ Bottom \in Nat
    BY <1>1, <2>3 DEF Bottom, TypeOK
  <2>7. FramePointer(n + 1) = m + 2
    BY <1>1, <2>6 DEF FramePointer
  <2>8. ASSUME NEW i \in 2 .. n + 1
        PROVE  /\ stack'[FramePointer(i) - 1] \in CallSites(active'[i - 1])
               /\ stack'[FramePointer(i)] = FramePointer(i - 1)
    <3>1. CASE i = n + 1
      <4>1. i - 1 = n /\ FramePointer(i) = m + 2 /\ FramePointer(i) - 1 = m + 1 /\ active'[n] = active[n]
        BY <1>1, <1>3, <2>7, <3>1
      <4> QED
        BY <2>2, <2>3, <4>1
    <3>2. CASE i # n + 1
      <4>1. i \in 2 .. n /\ i - 1 \in 1 .. n /\ i \in 1 .. n
        BY <1>1, <3>2
      <4>2. FramePointer(i) \in 1 .. m /\ FramePointer(i) - 1 \in 1 .. m
        BY <1>1, <2>4, <4>1
      <4> QED
        BY <1>3, <2>2, <2>3, <4>1, <4>2
    <3> QED
      BY <3>1, <3>2
  <2>9. Linked'
    <3>1. Len(active') = n + 1
      BY <1>3
    <3> QED
      BY <2>5, <2>8, <3>1 DEF Linked
  <2>10. stack'[FramePointer(1) - 1] \in 0 .. 31
    <3>1. FramePointer(1) - 1 \in 1 .. m
      BY <1>1, <2>4
    <3> QED
      BY <2>2, <2>3, <3>1
  <2>11. Standing'
    <3>1. Len(active') = n + 1 /\ Len(active') - 1 = n
      BY <1>1, <1>3
    <3> QED
      <4>1. Len(stack') = Bottom' + 2 * (Len(active') - 1)
        BY <2>2, <2>5, <2>6, <3>1
      <4>2. rbp' = FramePointer(Len(active))'
        BY <2>2, <2>5, <2>7, <3>1 DEF FramePointer
      <4>3. cpu_state' # 0 => Len(active') > 1 /\ cpu_state' > 19
        BY <1>1, <2>3, <2>5, <3>1
      <4>4. stack'[FramePointer(1)' - 1] \in 0 .. 31
        BY <2>5, <2>10
      <4> QED
        BY <2>9, <4>1, <4>2, <4>3, <4>4 DEF Standing
  <2> QED
    BY <1>1, <1>3, <2>2, <2>11
<1> QED
  BY <1>6, <1>7

(* A function that is jumped to stands where its caller stood.             *)
LEMMA JumpStands ==
  ASSUME TypeOK, frames_kept => Standing, NEW f \in Range(Text), Jump(f),
         UNCHANGED <<cpu_state, frames_kept>>
  PROVE  /\ stack' \in Seq(StackWord) /\ rbp' \in Nat /\ active' \in Seq(Range(Text)) /\ active' # <<>>
         /\ frames_kept => Standing'
<1> DEFINE n == Len(active)
<1>1. n \in Nat /\ n > 0 /\ active \in Seq(Range(Text)) /\ stack \in Seq(StackWord) /\ rbp \in Nat
  BY DEF TypeOK
<1>2. /\ Front(active) \in Seq(Range(Text)) /\ Len(Front(active)) = n - 1
      /\ \A i \in 1 .. n - 1 : Front(active)[i] = active[i]
  BY <1>1, FrontIs
<1>3. /\ active' \in Seq(Range(Text)) /\ Len(active') = n
      /\ \A i \in 1 .. n - 1 : active'[i] = active[i]
  BY <1>1, <1>2 DEF Jump
<1>4. stack' = stack /\ rbp' = rbp
  BY DEF Jump
<1>5. Bottom' = Bottom /\ cpu_state' = cpu_state /\ \A i : FramePointer(i)' = FramePointer(i)
  BY DEF Bottom, FramePointer
<1>6. Linked => Linked'
  <2>1. \A i \in 2 .. n : i - 1 \in 1 .. n - 1
    BY <1>1
  <2> QED
    BY <1>1, <1>3, <1>4, <1>5, <2>1 DEF Linked
<1>7. Standing => Standing'
  BY <1>3, <1>4, <1>5, <1>6 DEF Standing
<1> QED
  BY <1>1, <1>3, <1>4, <1>7

-----------------------------------------------------------------------------
(* What the processor, a stub and the assembler push.                      *)

(* Stacks are put behind each other from either end.                       *)
LEMMA Regroup ==
  ASSUME NEW s \in Seq(StackWord), NEW t \in Seq(StackWord), NEW u \in Seq(StackWord)
  PROVE  (s \o t) \o u = s \o (t \o u)
  BY ConcatAssociative

(* What is where in two stacks behind each other.                          *)
LEMMA Behind ==
  ASSUME NEW s \in Seq(StackWord), NEW t \in Seq(StackWord)
  PROVE  /\ s \o t \in Seq(StackWord) /\ Len(s \o t) = Len(s) + Len(t)
         /\ \A k \in 1 .. Len(s) : (s \o t)[k] = s[k]
         /\ \A k \in Len(s) + 1 .. Len(s) + Len(t) : (s \o t)[k] = t[k - Len(s)]
  OBVIOUS

(* The registers that cpu_state_assembler saves are the first fields.      *)
LEMMA SavedFields ==
  ASSUME NEW k \in 1 .. 18
  PROVE  Saved[19 - k] = Fields[k]
<1>1. \/ k = 1 \/ k = 2 \/ k = 3 \/ k = 4 \/ k = 5 \/ k = 6 \/ k = 7 \/ k = 8 \/ k = 9
      \/ k = 10 \/ k = 11 \/ k = 12 \/ k = 13 \/ k = 14 \/ k = 15 \/ k = 16 \/ k = 17 \/ k = 18
  OBVIOUS
<1> QED
  BY <1>1 DEF Saved, Fields

(* The history does not have these.                                        *)
LEMMA NotHeld ==
  ASSUME NEW k \in 1 .. 18
  PROVE  Fields[k] \notin {"vector", "error_code", "rbp", "rip", "rsp", "cs"}
<1>1. \/ k = 1 \/ k = 2 \/ k = 3 \/ k = 4 \/ k = 5 \/ k = 6 \/ k = 7 \/ k = 8 \/ k = 9
      \/ k = 10 \/ k = 11 \/ k = 12 \/ k = 13 \/ k = 14 \/ k = 15 \/ k = 16 \/ k = 17 \/ k = 18
  OBVIOUS
<1> QED
  BY <1>1 DEF Fields

(* The others.                                                             *)
LEMMA HeldIs ==
  ASSUME NEW i \in Interrupted
  PROVE  /\ Held(i, 19) = i.rbp /\ Held(i, 20) = i.vector /\ Held(i, 21) = i.error_code
         /\ Held(i, 22) = i.rip /\ Held(i, 23) = i.cs /\ Held(i, 24) = "rflags"
         /\ Held(i, 25) = i.rsp /\ Held(i, 26) = "ss"
<1>1. DOMAIN i = {"vector", "error_code", "rbp", "rip", "rsp", "cs"}
  BY DEF Interrupted
<1>2. /\ Fields[19] = "rbp" /\ Fields[20] = "vector" /\ Fields[21] = "error_code" /\ Fields[22] = "rip"
      /\ Fields[23] = "cs" /\ Fields[24] = "rflags" /\ Fields[25] = "rsp" /\ Fields[26] = "ss"
  BY DEF Fields
<1> QED
  BY <1>1, <1>2 DEF Held

(* With what the stub pushes, an error code and the vector are on the      *)
(* stack for every vector.                                                 *)
LEMMA StubEvens ==
  ASSUME NEW i \in Interrupted, i.error_code = ErrorCode(i.vector)
  PROVE  LET image == Pushed(i) \o Stub(i.vector) \o <<i.rbp>>
         IN  /\ Pushed(i) \in Seq(StackWord) /\ Stub(i.vector) \in Seq(StackWord)
             /\ image \in Seq(StackWord) /\ Len(image) = 8
             /\ image[1] = "ss" /\ image[2] = i.rsp /\ image[3] = "rflags" /\ image[4] = i.cs
             /\ image[5] = i.rip /\ image[6] = i.error_code /\ image[7] = i.vector /\ image[8] = i.rbp
<1> DEFINE p == <<"ss", i.rsp, "rflags", i.cs, i.rip>>
           lower == Pushed(i) \o Stub(i.vector)
<1>1. /\ i.vector \in StackWord /\ i.error_code \in StackWord /\ i.rbp \in StackWord /\ i.rip \in StackWord
      /\ i.rsp \in StackWord /\ i.cs \in StackWord /\ "ss" \in StackWord /\ "rflags" \in StackWord /\ 0 \in StackWord
  BY DEF Interrupted, Vectors, StackWord, Registers
<1>2. \A w \in StackWord : <<w>> \in Seq(StackWord) /\ Len(<<w>>) = 1 /\ <<w>>[1] = w
  OBVIOUS
<1>3. /\ p \in Seq(StackWord) /\ Len(p) = 5
      /\ p[1] = "ss" /\ p[2] = i.rsp /\ p[3] = "rflags" /\ p[4] = i.cs /\ p[5] = i.rip
  BY <1>1
<1>4. /\ Pushed(i) \in Seq(StackWord) /\ Stub(i.vector) \in Seq(StackWord)
      /\ lower \in Seq(StackWord) /\ Len(lower) = 7
      /\ \A k \in 1 .. 5 : lower[k] = p[k]
      /\ lower[6] = i.error_code /\ lower[7] = i.vector
  <2>1. CASE i.vector \in WithErrorCode
    <3> DEFINE q == <<i.error_code>>
               r == <<i.vector>>
    <3>1. q \in Seq(StackWord) /\ Len(q) = 1 /\ q[1] = i.error_code
      BY <1>1, <1>2
    <3>2. r \in Seq(StackWord) /\ Len(r) = 1 /\ r[1] = i.vector
      BY <1>1, <1>2
    <3>3. Pushed(i) = p \o q /\ Stub(i.vector) = r
      BY <2>1 DEF Pushed, Stub, ErrorStubs, WithErrorCode
    <3> HIDE DEF p, q, r
    <3>4. /\ p \o q \in Seq(StackWord) /\ Len(p \o q) = 6 /\ (p \o q)[6] = i.error_code
          /\ \A k \in 1 .. 5 : (p \o q)[k] = p[k]
      <4>1. 6 \in Len(p) + 1 .. Len(p) + Len(q) /\ Len(p) + Len(q) = 6 /\ 6 - Len(p) = 1
        BY <1>3, <3>1
      <4>2. p \o q \in Seq(StackWord) /\ Len(p \o q) = Len(p) + Len(q) /\ (p \o q)[6] = q[6 - Len(p)]
        BY <1>3, <3>1, <4>1, Behind
      <4>3. \A k \in 1 .. Len(p) : (p \o q)[k] = p[k]
        BY <1>3, <3>1, Behind
      <4> QED
        BY <1>3, <3>1, <4>1, <4>2, <4>3
    <3> DEFINE x == p \o q
    <3> HIDE DEF x
    <3>5. /\ x \o r \in Seq(StackWord) /\ Len(x \o r) = 7 /\ (x \o r)[7] = i.vector
          /\ \A k \in 1 .. 6 : (x \o r)[k] = x[k]
      <4>1. x \in Seq(StackWord) /\ Len(x) = 6
        BY <3>4 DEF x
      <4>2. 7 \in Len(x) + 1 .. Len(x) + Len(r) /\ Len(x) + Len(r) = 7 /\ 7 - Len(x) = 1
        BY <3>2, <4>1
      <4>3. x \o r \in Seq(StackWord) /\ Len(x \o r) = Len(x) + Len(r) /\ (x \o r)[7] = r[7 - Len(x)]
        BY <3>2, <4>1, <4>2, Behind
      <4>4. \A k \in 1 .. Len(x) : (x \o r)[k] = x[k]
        BY <3>2, <4>1, Behind
      <4> QED
        BY <3>2, <4>1, <4>2, <4>3, <4>4
    <3>6. \A k \in 1 .. 5 : k \in 1 .. 6
      OBVIOUS
    <3>7. lower = x \o r /\ Pushed(i) = x
      BY <3>3 DEF x
    <3>8. /\ x \in Seq(StackWord) /\ x[6] = i.error_code /\ \A k \in 1 .. 5 : x[k] = p[k]
      BY <3>4 DEF x
    <3> HIDE DEF lower
    <3>9. lower[6] = i.error_code /\ \A k \in 1 .. 5 : lower[k] = p[k]
      <4>1. 6 \in 1 .. 6
        OBVIOUS
      <4>2. \A k \in 1 .. 6 : lower[k] = x[k]
        BY <3>5, <3>7
      <4> QED
        BY <3>6, <3>8, <4>1, <4>2
    <3> QED
      BY <3>2, <3>3, <3>5, <3>7, <3>8, <3>9
  <2>2. CASE i.vector \notin WithErrorCode
    <3> DEFINE q == <<0, i.vector>>
    <3>1. q \in Seq(StackWord) /\ Len(q) = 2 /\ q[1] = 0 /\ q[2] = i.vector
      BY <1>1
    <3>2. Pushed(i) = p \o <<>> /\ Stub(i.vector) = q /\ i.error_code = 0
      BY <2>2 DEF Pushed, Stub, ErrorStubs, WithErrorCode, ErrorCode
    <3>3. p \o <<>> = p
      BY <1>3, ConcatEmptySeq
    <3> HIDE DEF p, q
    <3>4. /\ p \o q \in Seq(StackWord) /\ Len(p \o q) = 7 /\ (p \o q)[6] = 0 /\ (p \o q)[7] = i.vector
          /\ \A k \in 1 .. 5 : (p \o q)[k] = p[k]
      <4>1. /\ 6 \in Len(p) + 1 .. Len(p) + Len(q) /\ 7 \in Len(p) + 1 .. Len(p) + Len(q)
            /\ Len(p) + Len(q) = 7 /\ 6 - Len(p) = 1 /\ 7 - Len(p) = 2
        BY <1>3, <3>1
      <4>2. /\ p \o q \in Seq(StackWord) /\ Len(p \o q) = Len(p) + Len(q)
            /\ (p \o q)[6] = q[6 - Len(p)] /\ (p \o q)[7] = q[7 - Len(p)]
        BY <1>3, <3>1, <4>1, Behind
      <4>3. \A k \in 1 .. Len(p) : (p \o q)[k] = p[k]
        BY <1>3, <3>1, Behind
      <4> QED
        BY <1>3, <3>1, <4>1, <4>2, <4>3
    <3>5. lower = p \o q /\ Pushed(i) = p
      BY <3>2, <3>3
    <3> HIDE DEF lower
    <3> QED
      BY <1>3, <3>1, <3>2, <3>4, <3>5
  <2> QED
    BY <2>1, <2>2
<1> HIDE DEF lower
<1>5. LET image == lower \o <<i.rbp>>
      IN  /\ image \in Seq(StackWord) /\ Len(image) = 8 /\ image[8] = i.rbp
          /\ \A k \in 1 .. 7 : image[k] = lower[k]
  <2> DEFINE q == <<i.rbp>>
  <2>1. q \in Seq(StackWord) /\ Len(q) = 1 /\ q[1] = i.rbp
    BY <1>1, <1>2
  <2> HIDE DEF q
  <2>2. 8 \in Len(lower) + 1 .. Len(lower) + Len(q) /\ Len(lower) + Len(q) = 8 /\ 8 - Len(lower) = 1
    BY <1>4, <2>1
  <2>3. /\ lower \o q \in Seq(StackWord) /\ Len(lower \o q) = Len(lower) + Len(q)
        /\ (lower \o q)[8] = q[8 - Len(lower)]
    BY <1>4, <2>1, <2>2, Behind
  <2>4. \A k \in 1 .. Len(lower) : (lower \o q)[k] = lower[k]
    BY <1>4, <2>1, Behind
  <2>5. LET image == lower \o q
        IN  /\ image \in Seq(StackWord) /\ Len(image) = 8 /\ image[8] = i.rbp
            /\ \A k \in 1 .. 7 : image[k] = lower[k]
    BY <1>4, <2>1, <2>2, <2>3, <2>4
  <2> QED
    BY <2>5 DEF q
<1> DEFINE image == lower \o <<i.rbp>>
<1>6. /\ image[1] = "ss" /\ image[2] = i.rsp /\ image[3] = "rflags" /\ image[4] = i.cs
      /\ image[5] = i.rip /\ image[6] = i.error_code /\ image[7] = i.vector
  <2> HIDE DEF image
  <2>1. \A k \in 1 .. 7 : image[k] = lower[k]
    BY <1>5 DEF image
  <2> HIDE DEF p
  <2> QED
    BY <1>3, <1>4, <2>1
<1> QED
  BY <1>4, <1>5, <1>6 DEF lower

(* Each field of the cpu_state, counted from the last word pushed.         *)
LEMMA StateOnStack ==
  ASSUME NEW i \in Interrupted, i.error_code = ErrorCode(i.vector), NEW s \in Seq(StackWord)
  PROVE  LET saved == s \o Pushed(i) \o Stub(i.vector) \o <<i.rbp>> \o Saved
         IN  /\ saved \in Seq(StackWord) /\ Len(saved) = Len(s) + 26
             /\ \A k \in 1 .. 26 : saved[Len(s) + 27 - k] = Held(i, k)
<1> DEFINE p == Pushed(i)
           t == Stub(i.vector)
           u == <<i.rbp>>
           w == Saved
           image == p \o t \o u
           lower == s \o image
           saved == lower \o w
           n == Len(s)
<1>1. /\ p \in Seq(StackWord) /\ t \in Seq(StackWord) /\ u \in Seq(StackWord) /\ n \in Nat
      /\ image \in Seq(StackWord) /\ Len(image) = 8
  <2>1. i.rbp \in StackWord
    BY DEF Interrupted, StackWord
  <2>2. u \in Seq(StackWord)
    BY <2>1
  <2>3. p \in Seq(StackWord) /\ t \in Seq(StackWord)
    BY StubEvens
  <2>4. image \in Seq(StackWord) /\ Len(image) = 8
    BY StubEvens
  <2>5. n \in Nat
    OBVIOUS
  <2> QED
    BY <2>2, <2>3, <2>4, <2>5
<1>2. w \in Seq(StackWord) /\ Len(w) = 18
  <2>1. Len(Saved) = 18 /\ Saved \in Seq({Saved[k] : k \in 1 .. 18})
    BY DEF Saved
  <2> QED
    BY <2>1 DEF StackWord, Registers
<1>3. \A k \in 19 .. 26 : image[27 - k] = Held(i, k)
  <2>1. /\ image[1] = "ss" /\ image[2] = i.rsp /\ image[3] = "rflags" /\ image[4] = i.cs
        /\ image[5] = i.rip /\ image[6] = i.error_code /\ image[7] = i.vector /\ image[8] = i.rbp
    BY StubEvens
  <2> HIDE DEF image
  <2>2. /\ image[27 - 19] = Held(i, 19) /\ image[27 - 20] = Held(i, 20) /\ image[27 - 21] = Held(i, 21)
        /\ image[27 - 22] = Held(i, 22) /\ image[27 - 23] = Held(i, 23) /\ image[27 - 24] = Held(i, 24)
        /\ image[27 - 25] = Held(i, 25) /\ image[27 - 26] = Held(i, 26)
    <3>1. /\ 27 - 19 = 8 /\ 27 - 20 = 7 /\ 27 - 21 = 6 /\ 27 - 22 = 5
          /\ 27 - 23 = 4 /\ 27 - 24 = 3 /\ 27 - 25 = 2 /\ 27 - 26 = 1
      OBVIOUS
    <3>2. /\ image[8] = Held(i, 19) /\ image[7] = Held(i, 20) /\ image[6] = Held(i, 21)
          /\ image[5] = Held(i, 22) /\ image[4] = Held(i, 23) /\ image[3] = Held(i, 24)
          /\ image[2] = Held(i, 25) /\ image[1] = Held(i, 26)
      BY <2>1, HeldIs
    <3> QED
      BY <3>1, <3>2
  <2>3. \A k \in 19 .. 26 : \/ k = 19 \/ k = 20 \/ k = 21 \/ k = 22
                            \/ k = 23 \/ k = 24 \/ k = 25 \/ k = 26
    OBVIOUS
  <2> QED
    BY <2>2, <2>3
<1>4. \A k \in 1 .. 18 : w[19 - k] = Held(i, k)
  <2>1. DOMAIN i = {"vector", "error_code", "rbp", "rip", "rsp", "cs"}
    BY DEF Interrupted
  <2>2. \A k \in 1 .. 18 : Fields[k] \notin DOMAIN i
    BY <2>1, NotHeld
  <2> QED
    BY <2>2, SavedFields DEF Held
<1>5. s \o p \o t \o u \o w = saved
  <2> HIDE DEF p, t, u, w
  <2>1. p \o t \in Seq(StackWord)
    BY <1>1, ConcatProperties
  <2>2. (s \o p) \o t = s \o (p \o t)
    BY <1>1, Regroup
  <2> DEFINE pt == p \o t
  <2>3. (s \o pt) \o u = s \o (pt \o u)
    <3>1. pt \in Seq(StackWord) /\ u \in Seq(StackWord)
      BY <1>1, <2>1
    <3> HIDE DEF pt
    <3> QED
      BY <3>1, Regroup
  <2> QED
    BY <2>2, <2>3
<1> HIDE DEF p, t, u, w, image
<1>6. /\ lower \in Seq(StackWord) /\ Len(lower) = n + 8 /\ \A j \in n + 1 .. n + 8 : lower[j] = image[j - n]
  <2>1. /\ s \o image \in Seq(StackWord) /\ Len(s \o image) = Len(s) + Len(image)
        /\ \A j \in Len(s) + 1 .. Len(s) + Len(image) : (s \o image)[j] = image[j - Len(s)]
    BY <1>1, Behind
  <2> QED
    BY <1>1, <2>1
<1> HIDE DEF lower
<1>7. /\ saved \in Seq(StackWord) /\ Len(saved) = n + 26
      /\ \A j \in 1 .. n + 8 : saved[j] = lower[j]
      /\ \A j \in n + 9 .. n + 26 : saved[j] = w[j - (n + 8)]
  <2>1. /\ lower \o w \in Seq(StackWord) /\ Len(lower \o w) = Len(lower) + Len(w)
        /\ \A j \in 1 .. Len(lower) : (lower \o w)[j] = lower[j]
        /\ \A j \in Len(lower) + 1 .. Len(lower) + Len(w) : (lower \o w)[j] = w[j - Len(lower)]
    BY <1>2, <1>6, Behind
  <2>2. Len(lower) + Len(w) = n + 26 /\ Len(lower) + 1 = n + 9
    BY <1>1, <1>2, <1>6
  <2> HIDE DEF n
  <2> QED
    BY <1>6, <2>1, <2>2
<1> HIDE DEF saved, n
<1>8. ASSUME NEW k \in 1 .. 26
      PROVE  saved[n + 27 - k] = Held(i, k)
  <2> DEFINE j == n + 27 - k
  <2>1. CASE k \in 1 .. 18
    <3>1. j \in n + 9 .. n + 26 /\ j - (n + 8) = 19 - k
      BY <1>1, <2>1
    <3> HIDE DEF j
    <3>2. saved[j] = Held(i, k)
      BY <1>4, <1>7, <2>1, <3>1
    <3> QED
      BY <3>2 DEF j
  <2>2. CASE k \in 19 .. 26
    <3>1. j \in n + 1 .. n + 8 /\ j \in 1 .. n + 8 /\ j - n = 27 - k
      BY <1>1, <2>2
    <3> HIDE DEF j
    <3>2. saved[j] = Held(i, k)
      BY <1>3, <1>6, <1>7, <2>2, <3>1
    <3> QED
      BY <3>2 DEF j
  <2> QED
    BY <2>1, <2>2
<1> QED
  BY <1>5, <1>7, <1>8 DEF p, t, u, w, n

-----------------------------------------------------------------------------
(* Steps.                                                                  *)

(* What the invariant says of the other stages.                            *)
LEMMA NotReporting ==
  ASSUME stage' \notin {"reset", "stub", "handler", "trace", "done"}
  PROVE  InStub' /\ CpuStateIsRight' /\ Tracing'
  BY DEF InStub, CpuStateIsRight, Tracing

(* The tables stay as they are once they are built.                        *)
LEMMA BuiltKept ==
  ASSUME Built, UNCHANGED tables, stage \notin {"gdt_init", "idt_init"}, stage' \notin {"gdt_init", "idt_init"}
  PROVE  Built'
  BY DEF Built, tables, Gate, Handler

(* A step that changes no more than the stage.                             *)
LEMMA FramesKept ==
  ASSUME FramesStand, UNCHANGED <<memory, cpu_state, frames_kept>>,
         stage # "stub" \/ ~ frames_kept,
         stage' \in {"gdt_init", "idt_init", "run"} => stage \in {"gdt_init", "idt_init", "run"}
  PROVE  FramesStand'
<1>1. frames_kept => Standing
  BY DEF FramesStand
<1>2. Standing => Standing'
  BY DEF Standing, Linked, Bottom, FramePointer, memory
<1> QED
  BY <1>1, <1>2 DEF FramesStand

(* gdt_init                                                                *)
LEMMA GdtInitKept ==
  ASSUME IInv, GdtInit
  PROVE  IInv'
<1> USE DEF IInv
<1> DEFINE n == Len(gdt)
<1>1. /\ stage = "gdt_init" /\ gdt' = Append(gdt, Descriptors[n + 1])
      /\ stage' = (IF Len(gdt') = Len(Descriptors) THEN "idt_init" ELSE "gdt_init")
      /\ UNCHANGED <<idt, idtr, halt_vector, frames_kept, memory, rip, report, walk>>
  BY DEF GdtInit
<1>2. n \in Nat /\ n < 5 /\ Len(idt) = 0 /\ gdt \in Seq(Range(Descriptors)) /\ Len(Descriptors) = 5
  BY <1>1 DEF TypeOK, Built, Descriptors
<1>3. Descriptors[n + 1] \in Range(Descriptors)
  <2>1. n + 1 \in DOMAIN Descriptors
    BY <1>2 DEF Descriptors
  <2> QED
    BY <2>1 DEF Range
<1>4. /\ gdt' \in Seq(Range(Descriptors)) /\ Len(gdt') = n + 1 /\ gdt'[n + 1] = Descriptors[n + 1]
      /\ \A k \in 1 .. n : gdt'[k] = gdt[k]
  BY <1>1, <1>2, <1>3
<1>5. stage' \in {"gdt_init", "idt_init"} /\ (stage' = "gdt_init" <=> n + 1 # 5)
  BY <1>1, <1>2, <1>4
<1>6. TypeOK'
  BY <1>1, <1>4, <1>5 DEF TypeOK, memory, report, walk
<1>7. Built'
  <2>1. \A k \in 1 .. n + 1 : gdt'[k] = Descriptors[k]
    BY <1>2, <1>4 DEF Built
  <2>2. idt' = idt /\ Len(idt') = 0
    BY <1>1, <1>2
  <2> QED
    BY <1>2, <1>4, <1>5, <2>1, <2>2 DEF Built
<1>8. FramesStand'
  BY <1>1, <1>5, FramesKept DEF report
<1>9. InStub' /\ CpuStateIsRight' /\ Tracing'
  BY <1>5, NotReporting
<1> QED
  BY <1>6, <1>7, <1>8, <1>9

(* idt_init                                                                *)
LEMMA IdtInitKept ==
  ASSUME IInv, IdtInit
  PROVE  IInv'
<1> USE DEF IInv
<1> DEFINE n == Len(idt)
           g == Gate(Handler(n))
<1>1. /\ n \in Nat /\ n <= 32 /\ stage = "idt_init" /\ Len(gdt) = 5
      /\ idt \in Seq(Gates) /\ \A k \in 1 .. n : idt[k] = Gate(Handler(k - 1))
  BY DEF IdtInit, TypeOK, Built
<1>2. UNCHANGED <<gdt, frames_kept, memory, rip, report, walk>>
  BY DEF IdtInit
<1>3. n \in Vectors <=> n # 32
  <2> HIDE DEF n
  <2> QED
    BY <1>1 DEF Vectors
<1>4. idt' = Append(idt, g) /\ stage' = (IF n = 32 THEN "run" ELSE "idt_init")
  BY <1>1, <1>3 DEF IdtInit, Handler
<1>5. n = 32 => halt_vector' = 32
  BY <1>1, <1>3 DEF IdtInit
<1>6. g \in Gates
  <2>1. Handler(n) \in Nat
    BY ExceptionsAssumption DEF Handler
  <2> QED
    BY <2>1 DEF Gates
<1> HIDE DEF g
<1>7. /\ idt' \in Seq(Gates) /\ Len(idt') = n + 1 /\ idt'[n + 1] = g
       /\ \A k \in 1 .. n : idt'[k] = idt[k]
  BY <1>1, <1>4, <1>6
<1>8. \A k \in 1 .. n + 1 : idt'[k] = Gate(Handler(k - 1))
  <2> HIDE DEF n
  <2>1. ASSUME NEW k \in 1 .. n PROVE idt'[k] = Gate(Handler(k - 1))
    BY <1>1, <1>7
  <2>2. idt'[n + 1] = Gate(Handler((n + 1) - 1))
    <3>1. (n + 1) - 1 = n
      BY <1>1
    <3> QED
      BY <1>7, <3>1 DEF g
  <2>3. \A k \in 1 .. n + 1 : k \in 1 .. n \/ k = n + 1
    BY <1>1
  <2> QED
    BY <2>1, <2>2, <2>3
<1>9. TypeOK'
  BY <1>2, <1>4, <1>7 DEF TypeOK, memory, report, walk, Gates, Gate
<1>10. Built'
  <2> HIDE DEF n
  <2>1. gdt' = gdt /\ Len(idt') = n + 1 /\ (n = 32 => n + 1 = 33) /\ (n # 32 => n + 1 <= 32)
    BY <1>1, <1>2, <1>7
  <2>2. \A k \in 1 .. Len(idt') : idt'[k] = Gate(Handler(k - 1))
    BY <1>8, <2>1
  <2> QED
    BY <1>1, <1>4, <1>5, <2>1, <2>2 DEF Built, Gate, Handler
<1>11. FramesStand'
  BY <1>1, <1>2, FramesKept DEF report
<1>12. InStub' /\ CpuStateIsRight' /\ Tracing'
  BY <1>4, NotReporting
<1> QED
  BY <1>9, <1>10, <1>11, <1>12

(* A call that does not print the trace.                                   *)
LEMMA CallKept ==
  ASSUME IInv, NEW f \in Range(Text), Enter(f) \/ Jump(f),
         stage \in {"run", "handler", "panic"}, stage' \in {"run", "panic", "wild"},
         stage' = "run" => stage = "run", UNCHANGED <<tables, rip, report, trace>>
  PROVE  IInv'
<1> USE DEF IInv
<1>1. frames_kept => Standing
  BY DEF FramesStand
<1>2. /\ stack' \in Seq(StackWord) /\ rbp' \in Nat /\ active' \in Seq(Range(Text)) /\ active' # <<>>
      /\ frames_kept => Standing'
  BY <1>1, EnterStands, JumpStands DEF report, tables
<1>3. TypeOK'
  BY <1>2 DEF TypeOK, tables, report, Gates, Gate
<1>4. FramesStand'
  BY <1>2 DEF FramesStand, tables, report
<1>5. Built' /\ InStub' /\ CpuStateIsRight' /\ Tracing'
  BY BuiltKept, NotReporting
<1> QED
  BY <1>3, <1>4, <1>5

(* A return uncovers the frame below.                                      *)
LEMMA ReturnKept ==
  ASSUME IInv, Return
  PROVE  IInv'
<1> USE DEF IInv
<1> DEFINE n == Len(active)
           m == Len(stack)
<1>1. /\ stage = "run" /\ stage' = "run" /\ n > 1 /\ active' = Front(active)
      /\ UNCHANGED <<tables, rip, report, walk>>
  BY DEF Return
<1>2. n \in Nat /\ m \in Nat /\ active \in Seq(Range(Text)) /\ stack \in Seq(StackWord) /\ cpu_state = 0 /\ rbp \in Nat
  BY <1>1 DEF TypeOK, FramesStand
<1>3. /\ active' \in Seq(Range(Text)) /\ Len(active') = n - 1 /\ active' # <<>>
      /\ \A i \in 1 .. n - 1 : active'[i] = active[i]
  <2>1. Front(active) # <<>>
    BY <1>1, <1>2, FrontIs
  <2> QED
    BY <1>1, <1>2, <2>1, FrontIs
<1>4. cpu_state' = 0 /\ frames_kept' = frames_kept
  BY <1>1, <1>2 DEF report, tables
<1>5. stack' \in Seq(StackWord) /\ rbp' \in Nat /\ (frames_kept => Standing')
  <2>1. CASE ~ frames_kept
    BY <1>2, <2>1, FrontIs DEF Return
  <2>2. CASE frames_kept
    <3>1. Standing
      BY <1>1, <2>2 DEF FramesStand
    <3>2. m = 2 * n
      BY <1>2, <3>1 DEF Standing, Bottom
    <3>3. /\ Front(stack) \in Seq(StackWord) /\ Len(Front(stack)) = m - 1
          /\ \A k \in 1 .. m - 1 : Front(stack)[k] = stack[k]
      <4>1. m > 0
        BY <1>1, <1>2, <3>2
      <4> QED
        BY <1>2, <4>1, FrontIs
    <3>4. /\ Front(Front(stack)) \in Seq(StackWord) /\ Len(Front(Front(stack))) = m - 2
          /\ \A k \in 1 .. m - 2 : Front(Front(stack))[k] = stack[k]
      <4> DEFINE s == Front(stack)
      <4>1. /\ Front(s) \in Seq(StackWord)
            /\ Len(s) > 0 => Len(Front(s)) = Len(s) - 1
            /\ \A k \in 1 .. Len(s) - 1 : Front(s)[k] = s[k]
        BY <3>3, FrontIs
      <4> HIDE DEF s, n, m
      <4>2. Len(s) = m - 1 /\ m - 1 > 0 /\ m - 1 - 1 = m - 2 /\ \A k \in 1 .. m - 2 : k \in 1 .. m - 1
        BY <1>1, <1>2, <3>2, <3>3 DEF s
      <4>3. \A k \in 1 .. m - 1 : s[k] = stack[k]
        BY <3>3 DEF s
      <4> QED
        BY <4>1, <4>2, <4>3 DEF s
    <3>5. /\ stack' \in Seq(StackWord) /\ Len(stack') = m - 2
          /\ \A k \in 1 .. m - 2 : stack'[k] = stack[k]
      BY <2>2, <3>4 DEF Return
    <3>6. rbp' = stack[m]
      BY <2>2 DEF Return, Last
    <3>7. /\ \A i \in 1 .. n : FramePointer(i) = 2 * i
          /\ \A i \in 1 .. n - 1 : FramePointer(i)' = 2 * i
      <4>1. \A i \in 1 .. n : IF i > 1 THEN 2 + 2 * (i - 1) = 2 * i ELSE 2 = 2 * i
        BY <1>2
      <4>2. \A i \in 1 .. n - 1 : i \in 1 .. n
        BY <1>2
      <4> QED
        BY <1>2, <1>4, <4>1, <4>2 DEF FramePointer, Bottom
    <3>8. stack[m] = 2 * (n - 1)
      <4>1. n \in 2 .. n /\ n - 1 \in 1 .. n /\ n \in 1 .. n
        BY <1>1, <1>2
      <4>2. stack[FramePointer(n)] = FramePointer(n - 1)
        BY <3>1, <4>1 DEF Standing, Linked
      <4> QED
        BY <3>2, <3>7, <4>1, <4>2
    <3>9. Linked'
      <4>1. ASSUME NEW i \in 2 .. n - 1
            PROVE  /\ stack'[FramePointer(i)' - 1] \in CallSites(active'[i - 1])
                   /\ stack'[FramePointer(i)'] = FramePointer(i - 1)'
        <5>1. i \in 2 .. n /\ i \in 1 .. n - 1 /\ i - 1 \in 1 .. n - 1 /\ i \in 1 .. n /\ i - 1 \in 1 .. n
          BY <1>2
        <5>2. 2 * i \in 1 .. m - 2 /\ 2 * i - 1 \in 1 .. m - 2
          BY <1>2, <3>2
        <5>3. stack[2 * i - 1] \in CallSites(active[i - 1]) /\ stack[2 * i] = 2 * (i - 1)
          BY <3>1, <3>7, <5>1 DEF Standing, Linked
        <5> QED
          BY <1>3, <3>5, <3>7, <5>1, <5>2, <5>3
      <4>2. Len(active') = n - 1
        BY <1>3
      <4> QED
        BY <4>1, <4>2 DEF Linked, CallSites, Address
    <3>10. stack'[1] \in 0 .. 31
      <4>1. FramePointer(1) = 2 /\ 1 \in 1 .. m - 2 /\ 2 - 1 = 1
        BY <1>1, <1>2, <3>2, <3>7
      <4> QED
        BY <3>1, <3>5, <4>1 DEF Standing
    <3>11. Standing'
      <4>1. Len(active') = n - 1 /\ Bottom' = 2 /\ m - 2 = 2 + 2 * (n - 1 - 1) /\ n - 1 \in 1 .. n - 1
        BY <1>1, <1>2, <1>3, <1>4, <3>2 DEF Bottom
      <4>2. rbp' = FramePointer(Len(active))'
        BY <1>4, <3>6, <3>7, <3>8, <4>1 DEF FramePointer
      <4>3. stack'[FramePointer(1)' - 1] \in 0 .. 31
        BY <1>4, <3>10 DEF FramePointer
      <4> QED
        BY <1>4, <3>5, <3>9, <4>1, <4>2, <4>3 DEF Standing
    <3> QED
      BY <1>1, <1>2, <3>5, <3>6, <3>8, <3>11
  <2> QED
    BY <2>1, <2>2
<1>6. TypeOK'
  BY <1>1, <1>3, <1>5 DEF TypeOK, tables, report, walk, Gates, Gate
<1>7. FramesStand'
  BY <1>4, <1>5 DEF FramesStand
<1>8. Built' /\ InStub' /\ CpuStateIsRight' /\ Tracing'
  BY <1>1, BuiltKept, NotReporting
<1> QED
  BY <1>6, <1>7, <1>8

(* Every gate leads to its handler.                                        *)
LEMMA GateLeads ==
  ASSUME TypeOK, Built, stage \notin {"gdt_init", "idt_init"}, NEW k \in 1 .. 33
  PROVE  Offset(idt[k]) = Handler(k - 1) /\ Selects(idt[k]) /\ halt_vector = 32
<1>1. idt[k] = Gate(Handler(k - 1)) /\ Len(gdt) = 5 /\ gdt[2] = Kernel \cup Code /\ halt_vector = 32
  <2>1. Len(gdt) = 5 /\ Len(idt) = 33 /\ halt_vector = 32
    BY DEF Built
  <2>2. gdt[2] = Descriptors[2] /\ idt[k] = Gate(Handler(k - 1))
    BY <2>1 DEF Built
  <2>3. Descriptors[2] = Kernel \cup Code
    BY DEF Descriptors
  <2> QED
    BY <2>1, <2>2, <2>3
<1>2. k - 1 \in Nat /\ Handler(k - 1) \in Nat /\ Handler(k - 1) < Half * Half * Half * Half
  BY ExceptionsAssumption DEF Handler
<1>3. Selects(Gate(Handler(k - 1)))
  <2>1. Gate(Handler(k - 1)).gdt_code_selector = 8
    BY DEF Gate, GDT_OFFSET_KERNEL_CODE
  <2>2. 8 \div 8 + 1 = 2 /\ 2 \in DOMAIN gdt
    BY <1>1 DEF TypeOK
  <2>3. {"present", "executable", "64_bit_code"} \subseteq Kernel \cup Code
    BY DEF Kernel, Code
  <2> QED
    BY <1>1, <2>1, <2>2, <2>3 DEF Selects
<1> QED
  BY <1>1, <1>2, <1>3, GateOffset

(* An exception goes to the stub of its vector.                            *)
LEMMA ExceptionKept ==
  ASSUME IInv, NEW v \in Vectors, NEW at \in Nat, Exception(v, at)
  PROVE  IInv'
<1> USE DEF IInv
<1> DEFINE code == IF v \in WithErrorCode THEN <<ErrorCode(v)>> ELSE <<>>
           frame_pushed == <<"ss", Len(stack), "rflags", GDT_OFFSET_KERNEL_CODE, at>>
<1>1. /\ stage \in {"run", "handler", "panic", "trace", "wild"}
      /\ interrupted' = [vector |-> v, error_code |-> ErrorCode(v), rbp |-> rbp, rip |-> at,
                         rsp |-> Len(stack), cs |-> GDT_OFFSET_KERNEL_CODE]
      /\ stack' = Aligned(stack) \o frame_pushed \o code
      /\ rip' = Offset(idt[v + 1])
      /\ stage' = IF Selects(idt[v + 1]) /\ \E w \in Vectors : isr_table[w] = rip'
                    THEN "stub" ELSE "reset"
      /\ UNCHANGED <<tables, rbp, active, cpu_state, walk>>
  BY DEF Exception
<1>2. rip' = isr_table[v] /\ rip' \in Nat /\ stage' = "stub"
  <2>1. v + 1 \in 1 .. 33 /\ v + 1 - 1 = v
    BY DEF Vectors
  <2>2. Offset(idt[v + 1]) = Handler((v + 1) - 1) /\ Selects(idt[v + 1])
    BY <1>1, <2>1, GateLeads
  <2>3. Handler((v + 1) - 1) = isr_table[v]
    BY <2>1 DEF Handler, Vectors
  <2> QED
    BY <1>1, <2>2, <2>3, ExceptionsAssumption
<1>3. Len(stack) \in Nat /\ ErrorCode(v) \in Nat /\ GDT_OFFSET_KERNEL_CODE \in Nat /\ stack \in Seq(StackWord) /\ rbp \in Nat
  BY DEF TypeOK, ErrorCode, GDT_OFFSET_KERNEL_CODE
<1>4. interrupted' \in Interrupted
  BY <1>1, <1>3 DEF Interrupted
<1>5. Aligned(stack) \in Seq(StackWord) /\ Len(Aligned(stack)) % 2 = 0
  <2>1. 0 \in StackWord
    BY DEF StackWord
  <2>2. CASE Len(stack) % 2 = 1
    <3>1. Append(stack, 0) \in Seq(StackWord) /\ Len(Append(stack, 0)) = Len(stack) + 1
      BY <1>3, <2>1
    <3>2. (Len(stack) + 1) % 2 = 0
      BY <1>3, <2>2
    <3> QED
      BY <2>2, <3>1, <3>2 DEF Aligned
  <2>3. CASE Len(stack) % 2 # 1
    BY <1>3, <2>3 DEF Aligned
  <2> QED
    BY <2>2, <2>3
<1>6. frame_pushed \in Seq(StackWord) /\ code \in Seq(StackWord)
  <2>1. "ss" \in StackWord /\ "rflags" \in StackWord /\ Nat \subseteq StackWord
    BY DEF StackWord, Registers
  <2> QED
    BY <1>3, <2>1
<1>7. Pushed(interrupted') = frame_pushed \o code
  BY <1>1 DEF Pushed
<1> HIDE DEF frame_pushed, code
<1>8. stack' \in Seq(StackWord) /\ stack' = Aligned(stack) \o Pushed(interrupted')
  <2>1. Aligned(stack) \o frame_pushed \in Seq(StackWord)
    BY <1>5, <1>6, ConcatProperties
  <2>2. (Aligned(stack) \o frame_pushed) \o code \in Seq(StackWord)
    BY <1>6, <2>1, ConcatProperties
  <2>3. (Aligned(stack) \o frame_pushed) \o code = Aligned(stack) \o (frame_pushed \o code)
    <3> DEFINE x == Aligned(stack)
    <3>2. x \in Seq(StackWord) /\ frame_pushed \in Seq(StackWord) /\ code \in Seq(StackWord)
      BY <1>5, <1>6
    <3> HIDE DEF x
    <3>3. (x \o frame_pushed) \o code = x \o (frame_pushed \o code)
      BY <3>2, Regroup
    <3> QED
      BY <3>3 DEF x
  <2> QED
    BY <1>1, <1>7, <2>2, <2>3
<1>9. TypeOK'
  BY <1>1, <1>2, <1>8 DEF TypeOK, tables, walk, Gates, Gate
<1>10. InStub'
  <2>1. interrupted'.error_code = ErrorCode(interrupted'.vector) /\ rbp' = interrupted'.rbp /\ interrupted'.vector = v
    BY <1>1
  <2> QED
    BY <1>2, <1>4, <1>5, <1>8, <2>1 DEF InStub
<1>11. Built'
  BY <1>1, <1>2, BuiltKept
<1>12. FramesStand' /\ CpuStateIsRight' /\ Tracing'
  BY <1>2 DEF FramesStand, CpuStateIsRight, Tracing
<1> QED
  BY <1>9, <1>10, <1>11, <1>12

(* The stub and the assembler build the cpu_state and a frame for the      *)
(* handler, whose own frame pointer lies below the registers.              *)
LEMMA CpuStateAssemblerKept ==
  ASSUME IInv, CpuStateAssembler
  PROVE  IInv'
<1> USE DEF IInv
<1> DEFINE i == interrupted
           callee == "isr_exception_handler"
<1>1. /\ stage = "stub" /\ stage' = "handler" /\ UNCHANGED <<tables, rip, interrupted, exceptions, walk>>
      /\ active' = <<"cpu_state_assembler", callee>>
  BY DEF CpuStateAssembler
<1>2. PICK v \in Vectors :
        /\ isr_table[v] = rip
        /\ LET saved == stack \o Stub(v) \o <<rbp>> \o Saved
               base  == Len(saved) - Len(Saved)
           IN  /\ cpu_state' = Len(saved)
               /\ \E a \in CallSites("cpu_state_assembler") : Framed(a, saved, base)
  BY DEF CpuStateAssembler
<1>3. /\ i \in Interrupted /\ i.error_code = ErrorCode(i.vector) /\ i.vector \in Vectors
      /\ rip = isr_table[i.vector] /\ rbp = i.rbp
  BY <1>1 DEF InStub, Interrupted
<1>4. v = i.vector
  BY <1>2, <1>3, ExceptionsAssumption
<1>5. PICK s \in Seq(StackWord) : Len(s) % 2 = 0 /\ stack = s \o Pushed(i)
  BY <1>1 DEF InStub
<1> DEFINE saved == stack \o Stub(i.vector) \o <<i.rbp>> \o Saved
           n == Len(s)
<1>6. /\ saved \in Seq(StackWord) /\ Len(saved) = n + 26 /\ n \in Nat
      /\ \A k \in 1 .. 26 : saved[n + 27 - k] = Held(i, k)
  <2> DEFINE whole == s \o Pushed(i) \o Stub(i.vector) \o <<i.rbp>> \o Saved
  <2>1. /\ whole \in Seq(StackWord) /\ Len(whole) = Len(s) + 26
        /\ \A k \in 1 .. 26 : whole[Len(s) + 27 - k] = Held(i, k)
    BY <1>3, StateOnStack
  <2>2. saved = whole
    BY <1>5
  <2>3. n \in Nat
    OBVIOUS
  <2> HIDE DEF whole, saved
  <2> QED
    BY <2>1, <2>2, <2>3
<1>7. PICK a \in CallSites("cpu_state_assembler") : Framed(a, saved, Len(saved) - Len(Saved))
  BY <1>2, <1>3, <1>4
<1>8. cpu_state' = Len(saved)
  BY <1>2, <1>3, <1>4
<1> HIDE DEF saved, n
<1>n. n \in Nat
  BY <1>6
<1>9. Len(Saved) = 18 /\ Len(saved) - Len(Saved) = n + 8 /\ n + 8 \in Nat /\ cpu_state' = n + 26
  <2>1. Len(Saved) = 18
    BY DEF Saved
  <2> QED
    BY <1>6, <1>8, <2>1
<1>10. a \in Nat /\ {"cpu_state_assembler", callee} \subseteq Range(Text)
  BY CallSiteIn, ExceptionsAssumption DEF Support
<1>11. /\ stack' \in Seq(StackWord) /\ rbp' \in Nat
       /\ \A j \in 1 .. n + 26 : stack'[j] = saved[j]
       /\ frames_kept => /\ Len(stack') = n + 28 /\ rbp' = n + 28
                         /\ stack'[n + 27] = a /\ stack'[n + 28] = n + 8
  <2>1. a \in StackWord /\ n + 8 \in StackWord
    BY <1>9, <1>10 DEF StackWord
  <2>2. CASE ~ frames_kept
    <3>1. stack' = Append(saved, a) /\ rbp' = n + 8
      BY <1>7, <1>9, <2>2 DEF Framed
    <3> QED
      BY <1>6, <1>9, <2>1, <2>2, <3>1
  <2>3. CASE frames_kept
    <3>1. stack' = saved \o <<a, n + 8>> /\ rbp' = Len(stack')
      BY <1>7, <1>9, <2>3 DEF Framed
    <3> DEFINE q == <<a, n + 8>>
    <3>2. q \in Seq(StackWord) /\ Len(q) = 2 /\ q[1] = a /\ q[2] = n + 8
      BY <2>1
    <3> HIDE DEF q
    <3>3. /\ stack' = saved \o q /\ stack' \in Seq(StackWord) /\ Len(stack') = Len(saved) + Len(q)
          /\ \A j \in 1 .. Len(saved) : stack'[j] = saved[j]
          /\ \A j \in Len(saved) + 1 .. Len(saved) + Len(q) : stack'[j] = q[j - Len(saved)]
      <4>1. stack' = saved \o q
        BY <3>1 DEF q
      <4>2. saved \in Seq(StackWord) /\ q \in Seq(StackWord)
        BY <1>6, <3>2
      <4> QED
        BY <4>1, <4>2, Behind
    <3>4. n + 27 \in n + 26 + 1 .. n + 26 + 2 /\ n + 28 \in n + 26 + 1 .. n + 26 + 2
          /\ n + 27 - (n + 26) = 1 /\ n + 28 - (n + 26) = 2 /\ n + 26 + 2 = n + 28 /\ n + 28 \in Nat
      BY <1>6
    <3>5. stack'[n + 27] = q[1] /\ stack'[n + 28] = q[2]
      <4>1. Len(saved) = n + 26 /\ Len(q) = 2
        BY <1>6, <3>2
      <4>2. \A j \in n + 26 + 1 .. n + 26 + 2 : stack'[j] = q[j - (n + 26)]
        BY <3>3, <4>1
      <4> DEFINE j1 == n + 27
                 j2 == n + 28
      <4>3. j1 \in n + 26 + 1 .. n + 26 + 2 /\ j2 \in n + 26 + 1 .. n + 26 + 2
        BY <3>4
      <4> HIDE DEF j1, j2
      <4>4. stack'[j1] = q[j1 - (n + 26)] /\ stack'[j2] = q[j2 - (n + 26)]
        BY <4>2, <4>3
      <4> QED
        <5>1. j1 - (n + 26) = 1 /\ j2 - (n + 26) = 2
          BY <1>n DEF j1, j2
        <5>2. stack'[j1] = q[1] /\ stack'[j2] = q[2]
          BY <4>4, <5>1
        <5> QED
          BY <5>2 DEF j1, j2
    <3> QED
      BY <1>6, <3>1, <3>2, <3>3, <3>4, <3>5
  <2> QED
    BY <2>2, <2>3
<1>12. active' \in Seq(Range(Text)) /\ Len(active') = 2 /\ active'[1] = "cpu_state_assembler" /\ active' # <<>>
  BY <1>1, <1>10
<1>13. TypeOK'
  BY <1>1, <1>6, <1>9, <1>11, <1>12 DEF TypeOK, tables, walk, Gates, Gate
<1>14. \A k \in 1 .. 26 : stack'[n + 27 - k] = Held(i, k)
  <2>1. \A k \in 1 .. 26 : n + 27 - k \in 1 .. n + 26
    BY <1>n
  <2>2. /\ \A k \in 1 .. 26 : saved[n + 27 - k] = Held(i, k)
        /\ \A j \in 1 .. n + 26 : stack'[j] = saved[j]
    BY <1>6, <1>11
  <2>3. ASSUME NEW k \in 1 .. 26 PROVE stack'[n + 27 - k] = Held(i, k)
    <3> DEFINE j == n + 27 - k
    <3>1. j \in 1 .. n + 26 /\ saved[j] = Held(i, k)
      BY <2>1, <2>2
    <3> HIDE DEF j
    <3>2. stack'[j] = Held(i, k)
      BY <2>2, <3>1
    <3> QED
      BY <3>2 DEF j
  <2> QED
    BY <2>3
<1>15. CpuStateIsRight'
  <2>1. (n + 26) % 2 = 0
    BY <1>5, <1>6 DEF n
  <2>2. Len(Fields) = 26
    BY DEF Fields
  <2>3. ASSUME NEW k \in 1 .. 26 PROVE Field(k)' = Held(i, k)
    <3>1. n + 26 - (k - 1) = n + 27 - k
      BY <1>n
    <3>2. cpu_state' = n + 26 /\ stack'[n + 27 - k] = Held(i, k)
      BY <1>9, <1>14
    <3>3. Field(k)' = stack'[cpu_state' - (k - 1)]
      BY DEF Field
    <3>4. cpu_state' - (k - 1) = n + 27 - k
      BY <1>n, <3>1, <3>2
    <3> QED
      BY <3>2, <3>3, <3>4
  <2>4. \A k \in 1 .. 26 : Field(k)' = (IF Fields[k] \in DOMAIN i' THEN i'[Fields[k]] ELSE Fields[k])
    BY <1>1, <2>3 DEF Held
  <2> QED
    BY <1>1, <1>9, <2>1, <2>2, <2>4 DEF CpuStateIsRight
<1>16. FramesStand'
  <2>1. ASSUME frames_kept PROVE Standing'
    <3>1. /\ Bottom' = n + 26 /\ FramePointer(1)' = n + 8 /\ FramePointer(2)' = n + 28
          /\ cpu_state' # 0 /\ cpu_state' > 19
      BY <1>6, <1>9 DEF Bottom, FramePointer
    <3>2. stack'[n + 7] \in 0 .. 31
      <4>1. stack'[n + 27 - 20] = Held(i, 20) /\ n + 27 - 20 = n + 7
        BY <1>6, <1>14
      <4> QED
        BY <1>3, <4>1, HeldIs DEF Vectors
    <3>3. Linked'
      <4>1. \A k \in 2 .. 2 : k = 2
        OBVIOUS
      <4>2. n + 28 - 1 = n + 27 /\ 2 - 1 = 1
        BY <1>6
      <4>3. CallSites("cpu_state_assembler")' = CallSites("cpu_state_assembler")
        BY DEF CallSites, Address, Start
      <4>4. /\ stack'[FramePointer(2)' - 1] \in CallSites(active'[1])
            /\ stack'[FramePointer(2)'] = FramePointer(1)'
        <5>1. stack'[n + 27] = a /\ stack'[n + 28] = n + 8
          BY <1>11, <2>1
        <5>2. active'[1] = "cpu_state_assembler" /\ a \in CallSites("cpu_state_assembler")
          BY <1>7, <1>12
        <5>3. FramePointer(2)' - 1 = n + 27 /\ FramePointer(2)' = n + 28 /\ FramePointer(1)' = n + 8
          BY <1>n, <3>1
        <5> QED
          BY <5>1, <5>2, <5>3
      <4>5. ASSUME NEW k \in 2 .. Len(active')
            PROVE  /\ stack'[FramePointer(k)' - 1] \in CallSites(active'[k - 1])
                   /\ stack'[FramePointer(k)'] = FramePointer(k - 1)'
        <5>1. k = 2
          BY <1>12
        <5> QED
          BY <4>2, <4>4, <5>1
      <4> QED
        BY <4>5 DEF Linked
    <3>4. n + 28 = n + 26 + 2 * (2 - 1) /\ n + 8 - 1 = n + 7
      BY <1>6
    <3>5. rbp' = FramePointer(Len(active))'
      BY <1>11, <1>12, <2>1, <3>1 DEF FramePointer
    <3> QED
      <4>1. Len(stack') = Bottom' + 2 * (Len(active') - 1)
        BY <1>11, <1>12, <2>1, <3>1, <3>4
      <4>2. cpu_state' # 0 => Len(active') > 1 /\ cpu_state' > 19
        BY <1>12, <3>1
      <4>3. stack'[FramePointer(1)' - 1] \in 0 .. 31
        <5>1. FramePointer(1)' - 1 = n + 7
          BY <1>n, <3>1
        <5> QED
          BY <3>2, <5>1
      <4> QED
        BY <3>3, <3>5, <4>1, <4>2, <4>3 DEF Standing
  <2> QED
    BY <1>1, <2>1 DEF FramesStand, tables
<1>17. Built' /\ InStub' /\ Tracing'
  BY <1>1, BuiltKept DEF InStub, Tracing
<1> QED
  BY <1>13, <1>15, <1>16, <1>17

(* The halt interrupt goes to its handler.                                 *)
LEMMA HaltInterruptKept ==
  ASSUME IInv, HaltInterrupt
  PROVE  IInv'
<1> USE DEF IInv
<1>1. stage = "run" /\ UNCHANGED <<tables, memory, report, walk>>
  BY DEF HaltInterrupt
<1>2. Offset(idt[33]) = halt_handler /\ Selects(idt[33]) /\ halt_vector = 32
  <2>1. 33 \in 1 .. 33 /\ 33 - 1 = 32 /\ 32 \notin Vectors
    BY DEF Vectors
  <2> QED
    BY <1>1, <2>1, GateLeads DEF Handler
<1>3. stage' = "halted" /\ rip' = halt_handler /\ halt_handler \in Nat
  BY <1>2, ExceptionsAssumption DEF HaltInterrupt
<1>4. TypeOK'
  BY <1>1, <1>3 DEF TypeOK, tables, memory, report, walk, Gates, Gate
<1>5. FramesStand'
  BY <1>1, <1>3, FramesKept DEF report, tables
<1>6. Built' /\ InStub' /\ CpuStateIsRight' /\ Tracing'
  BY <1>1, <1>3, BuiltKept, NotReporting
<1> QED
  BY <1>4, <1>5, <1>6

(* panic calls print_stacktrace, which begins with its own frame.          *)
LEMMA PrintStacktraceKept ==
  ASSUME IInv, PrintStacktrace
  PROVE  IInv'
<1> USE DEF IInv
<1> DEFINE n == Len(active)
<1>1. /\ stage = "panic" /\ Enter("print_stacktrace") /\ frame' = rbp' /\ trace' = <<>>
      /\ stage' = (IF frames_kept THEN "trace" ELSE "wild") /\ UNCHANGED <<tables, rip, report>>
  BY DEF PrintStacktrace
<1>2. "print_stacktrace" \in Range(Text)
  BY ExceptionsAssumption DEF Support
<1>3. frames_kept => Standing
  BY <1>1 DEF FramesStand
<1>4. /\ stack' \in Seq(StackWord) /\ rbp' \in Nat /\ active' \in Seq(Range(Text)) /\ active' # <<>>
      /\ frames_kept => Standing'
  BY <1>1, <1>2, <1>3, EnterStands DEF report, tables
<1>5. TypeOK'
  BY <1>1, <1>4 DEF TypeOK, tables, report, Gates, Gate
<1>6. FramesStand'
  BY <1>1, <1>4 DEF FramesStand, tables, report
<1>7. Built' /\ InStub' /\ CpuStateIsRight'
  BY <1>1, BuiltKept DEF InStub, CpuStateIsRight
<1>8. Tracing'
  <2>1. Len(active') \in Nat /\ Len(active') > 0 /\ Len(trace') = 0 /\ Len(active') - 0 = Len(active')
    BY <1>1, <1>4
  <2>2. Named'
    BY <2>1 DEF Named
  <2>3. stage' = "trace" => /\ frames_kept' /\ rbp' = FramePointer(Len(active))'
                            /\ stage' # "done"
    BY <1>1, <1>4 DEF Standing, tables
  <2>4. (FramePointer(Len(active) - Len(trace)))' = FramePointer(Len(active))'
    BY <2>1 DEF FramePointer
  <2>5. stage' # "done"
    BY <1>1
  <2> QED
    BY <1>1, <2>1, <2>2, <2>3, <2>4, <2>5 DEF Tracing
<1> QED
  BY <1>5, <1>6, <1>7, <1>8

(* A turn of the loop: in a frame of a function that was called it finds   *)
(* the caller and goes on below, in the first frame it ends.               *)
LEMMA WalkIs ==
  ASSUME IInv, Walk
  PROVE  /\ Len(active) \in Nat /\ Len(trace) \in Nat /\ Len(trace) < Len(active)
         /\ frame = FramePointer(Len(active) - Len(trace)) /\ Standing
         /\ LET i == Len(active) - Len(trace)
            IN  IF i > 1 THEN \E name \in Range(Text) :
                                /\ ReadFrame(name) /\ frame' = FramePointer(i - 1)
                                /\ active[i - 1] \notin Static => name = active[i - 1]
                ELSE stage' = "done" /\ UNCHANGED walk
<1> USE DEF IInv
<1> DEFINE i == Len(active) - Len(trace)
           names == get_symtab_function_name(stack[frame - 1])
<1>1. /\ stage = "trace"
      /\ (\E name \in names : ReadFrame(name)) \/ (names = {} /\ stage' = "done" /\ UNCHANGED walk)
  BY DEF Walk
<1>2. /\ Len(active) \in Nat /\ Len(trace) \in Nat /\ Len(trace) < Len(active) /\ Standing
      /\ frame = FramePointer(i) /\ active \in Seq(Range(Text))
  BY <1>1 DEF TypeOK, Tracing, FramesStand
<1>3. CASE i > 1
  <2>1. i \in 2 .. Len(active) /\ i - 1 \in 1 .. Len(active)
    BY <1>2, <1>3
  <2>2. stack[frame - 1] \in CallSites(active[i - 1]) /\ stack[frame] = FramePointer(i - 1)
    BY <1>2, <2>1 DEF Standing, Linked
  <2>3. active[i - 1] \in Range(Text)
    BY <1>2, <2>1
  <2>4. PICK name \in Range(Text) : names = {name} /\ (active[i - 1] \notin Static => name = active[i - 1])
    BY <2>2, <2>3, Symbol
  <2>5. ReadFrame(name) /\ frame' = FramePointer(i - 1)
    BY <1>1, <2>2, <2>4 DEF ReadFrame
  <2> QED
    BY <1>2, <1>3, <2>4, <2>5
<1>4. CASE ~ (i > 1)
  <2>1. i = 1
    BY <1>2, <1>4
  <2>2. names = {}
    BY <1>2, <2>1, NoSymbol DEF Standing
  <2> QED
    BY <1>1, <1>2, <1>4, <2>2
<1> QED
  BY <1>3, <1>4

LEMMA WalkKept ==
  ASSUME IInv, Walk
  PROVE  IInv'
<1> USE DEF IInv
<1> DEFINE n == Len(active)
           t == Len(trace)
           i == n - t
<1>1. stage = "trace" /\ UNCHANGED <<tables, memory, rip, report>>
  BY DEF Walk
<1>2. /\ n \in Nat /\ t \in Nat /\ t < n /\ Standing /\ frames_kept /\ Named
      /\ frame = FramePointer(i) /\ trace \in Seq(Range(Text))
  BY <1>1, WalkIs DEF Tracing, TypeOK
<1>3. CASE i > 1
  <2>1. PICK name \in Range(Text) :
          /\ ReadFrame(name) /\ frame' = FramePointer(i - 1)
          /\ active[i - 1] \notin Static => name = active[i - 1]
    BY <1>3, WalkIs
  <2>2. /\ trace' = Append(trace, name) /\ stage' = "trace" /\ trace' \in Seq(Range(Text))
        /\ Len(trace') = t + 1 /\ trace'[t + 1] = name /\ \A k \in 1 .. t : trace'[k] = trace[k]
    BY <1>1, <1>2, <2>1 DEF ReadFrame
  <2>3. Named'
    <3>1. ASSUME NEW k \in 1 .. t + 1 PROVE active[n - k] \notin Static => trace'[k] = active[n - k]
      <4>1. CASE k = t + 1
        <5>1. n - k = i - 1
          BY <1>2, <4>1
        <5> QED
          BY <2>1, <2>2, <4>1, <5>1
      <4>2. CASE k # t + 1
        <5>1. k \in 1 .. t
          BY <1>2, <4>2
        <5> QED
          BY <1>2, <2>2, <5>1 DEF Named
      <4> QED
        BY <4>1, <4>2
    <3> QED
      BY <1>1, <2>2, <3>1 DEF Named, memory
  <2>4. n - (t + 1) = i - 1 /\ t + 1 < n
    BY <1>2, <1>3
  <2>5. Tracing'
    <3>1. (FramePointer(Len(active) - Len(trace)))' = FramePointer(i - 1)
      BY <1>1, <2>2, <2>4 DEF FramePointer, Bottom, memory, report
    <3> QED
      BY <1>1, <1>2, <2>1, <2>2, <2>3, <2>4, <3>1 DEF Tracing, tables, memory
  <2>6. TypeOK'
    BY <1>1, <2>2 DEF TypeOK, tables, memory, report, Gates, Gate
  <2>7. FramesStand'
    BY <1>1, <2>2, FramesKept DEF report, tables
  <2>8. Built' /\ InStub' /\ CpuStateIsRight'
    BY <1>1, <2>2, BuiltKept DEF InStub, CpuStateIsRight
  <2> QED
    BY <2>5, <2>6, <2>7, <2>8
<1>4. CASE ~ (i > 1)
  <2>1. stage' = "done" /\ UNCHANGED walk
    BY <1>4, WalkIs
  <2>2. t = n - 1
    BY <1>2, <1>4
  <2>3. Tracing'
    BY <1>1, <1>2, <2>1, <2>2 DEF Tracing, Named, walk, memory
  <2>4. TypeOK'
    BY <1>1, <2>1 DEF TypeOK, tables, memory, report, walk, Gates, Gate
  <2>5. FramesStand'
    BY <1>1, <2>1, FramesKept DEF report, tables
  <2>6. Built' /\ InStub' /\ CpuStateIsRight'
    BY <1>1, <2>1, BuiltKept DEF InStub, CpuStateIsRight
  <2> QED
    BY <2>3, <2>4, <2>5, <2>6
<1> QED
  BY <1>3, <1>4

(* Every step.                                                             *)
LEMMA NextIInv ==
  ASSUME IInv, [Next]_vars
  PROVE  IInv'
<1>1. ASSUME NEW f \in Functions, Call(f) PROVE IInv'
  BY <1>1, CallKept DEF Call, Functions, walk
<1>2. CASE CallPanic \/ HandlerPanics
  <2>1. "panic" \in Range(Text)
    BY ExceptionsAssumption DEF Support
  <2> QED
    BY <1>2, <2>1, CallKept DEF CallPanic, HandlerPanics, walk
<1>3. ASSUME NEW v \in Vectors, NEW at \in TextStart .. TextStart + Len(Text) * Size, Exception(v, at)
      PROVE  IInv'
  <2>1. at \in Nat
    <3>1. TextStart \in Nat /\ Size \in Nat /\ Len(Text) \in Nat
      BY ExceptionsAssumption
    <3>2. Len(Text) * Size \in Nat
      BY <3>1, Product
    <3> QED
      BY <3>1, <3>2
  <2> QED
    BY <1>3, <2>1, ExceptionKept
<1>4. CASE UNCHANGED vars
  <2>1. UNCHANGED <<tables, stage, memory, rip, report, walk>>
    BY <1>4 DEF vars
  <2>2. TypeOK' /\ Built'
    BY <2>1 DEF IInv, TypeOK, Built, tables, memory, report, walk, Gates, Gate, Handler
  <2>3. FramesStand' /\ InStub'
    BY <2>1 DEF IInv, FramesStand, Standing, Linked, Bottom, FramePointer, InStub, tables, memory, report
  <2>4. CpuStateIsRight'
    BY <2>1 DEF IInv, CpuStateIsRight, Field, memory, report
  <2>5. Tracing'
    BY <2>1 DEF IInv, Tracing, Named, Bottom, FramePointer, tables, memory, report, walk
  <2> QED
    BY <2>2, <2>3, <2>4, <2>5 DEF IInv
<1> QED
  BY <1>1, <1>2, <1>3, <1>4, GdtInitKept, IdtInitKept, ReturnKept, HaltInterruptKept,
     CpuStateAssemblerKept, PrintStacktraceKept, WalkKept DEF Next, Reporting

(* The inductive invariant.                                                *)
THEOREM ExceptionsInvariant == Spec => []IInv
<1>1. Init => IInv
  BY InitIInv
<1>2. IInv /\ [Next]_vars => IInv'
  BY NextIInv
<1> QED
  BY <1>1, <1>2, PTL DEF Spec

(* Every exception reaches its handler with the registers of what it       *)
(* interrupted.                                                            *)
THEOREM ExceptionsCpuStateIsRight == Spec => []CpuStateIsRight
<1>1. IInv => CpuStateIsRight
  BY DEF IInv
<1> QED
  BY <1>1, ExceptionsInvariant, PTL

(* print_stacktrace names the callers, from the last to the first.         *)
THEOREM ExceptionsTraceNamesCallers == Spec => []TraceNamesCallers
<1>1. IInv => TraceNamesCallers
  <2> SUFFICES ASSUME IInv, stage = "done"
               PROVE  /\ Len(trace) = Len(Callers)
                      /\ \A k \in 1 .. Len(trace) : Callers[k] \notin Static => trace[k] = Callers[k]
    BY DEF TraceNamesCallers
  <2> DEFINE n == Len(active)
             f == Front(active)
  <2>1. active \in Seq(Range(Text)) /\ n \in Nat /\ n > 0 /\ Len(trace) = n - 1 /\ Named
    BY DEF IInv, TypeOK, Tracing
  <2>2. f \in Seq(Range(Text)) /\ Len(f) = n - 1 /\ \A i \in 1 .. n - 1 : f[i] = active[i]
    BY <2>1, FrontIs
  <2> HIDE DEF f
  <2>3. Len(Callers) = n - 1 /\ \A k \in 1 .. n - 1 : Callers[k] = f[(n - 1 - k) + 1]
    <3>1. Callers = [k \in 1 .. Len(f) |-> f[(Len(f) - k) + 1]]
      BY DEF Callers, Reverse, f
    <3>2. Len(f) \in Nat
      BY <2>2
    <3>3. Callers = [k \in 1 .. n - 1 |-> f[(n - 1 - k) + 1]]
      BY <2>2, <3>1
    <3>4. n - 1 \in Nat
      BY <2>1
    <3> HIDE DEF n
    <3> QED
      BY <3>3, <3>4
  <2>4. ASSUME NEW k \in 1 .. n - 1 PROVE Callers[k] = active[n - k]
    <3>1. (n - 1 - k) + 1 = n - k /\ n - k \in 1 .. n - 1
      BY <2>1
    <3> QED
      BY <2>2, <2>3, <3>1
  <2> QED
    BY <2>1, <2>3, <2>4 DEF Named
<1> QED
  BY <1>1, ExceptionsInvariant, PTL

(* Every turn of the loop in print_stacktrace goes to a frame further down *)
(* the stack.                                                              *)
Descends == [][stage = "trace" /\ stage' = "trace" => frame' < frame]_<<stage, frame, trace>>

(* So it does, and the loop comes to an end: addresses are numbers.        *)
THEOREM ExceptionsTraceDescends == Spec => Descends
<1>1. IInv /\ [Next]_vars =>
        [stage = "trace" /\ stage' = "trace" => frame' < frame]_<<stage, frame, trace>>
  <2> SUFFICES ASSUME IInv, Next, stage = "trace", stage' = "trace"
               PROVE  frame' < frame
    BY DEF vars, walk
  <2>1. Walk
    BY DEF Next, GdtInit, IdtInit, Call, Return, CallPanic, HaltInterrupt, Exception, Reporting,
           CpuStateAssembler, HandlerPanics, PrintStacktrace
  <2> DEFINE i == Len(active) - Len(trace)
  <2>2. /\ Len(active) \in Nat /\ Len(trace) \in Nat /\ i > 1 /\ Standing
        /\ frame = FramePointer(i) /\ frame' = FramePointer(i - 1)
    BY <2>1, WalkIs
  <2>3. i \in 1 .. Len(active) /\ i > 1
    BY <2>2
  <2> QED
    BY <2>2, <2>3, Pointers DEF IInv
<1> QED
  BY <1>1, ExceptionsInvariant, PTL DEF Spec, Descends

-----------------------------------------------------------------------------
(* Timer.                                                                  *)

(* The ticks a request asks for, where nothing wraps around.               *)
Ticks(r) == Femtoseconds(r) \div Period

(* What the LAPIC has counted since StartCount.                            *)
Counted == Dword - 1 - cur_count

TimerTypeOK ==
  /\ modulus \in 1 .. Word /\ rate \in Nat \ {0}
  /\ main_counter_value \in 0 .. modulus - 1 /\ running \in BOOLEAN
  /\ cur_count \in 0 .. Dword - 1
  /\ timer_stage \in {"hpet_init", "idle", "waiting", "counting", "measuring", "measured"}
  /\ counter_target \in Nat /\ start \in Nat /\ asked \in Request /\ slept \in Nat
  /\ stall \in 0 .. MaxStall

(* While the CPU sleeps, the counter has moved by the ticks slept, and the *)
(* last read saw it below the target.                                      *)
Asleep ==
  timer_stage \in {"waiting", "measuring"} /\ Fits =>
    /\ counter_target = start + Ticks(asked)
    /\ main_counter_value = start + slept
    /\ slept <= Ticks(asked) + stall

(* Behind a sleep, and before the first one.                               *)
Awake ==
  /\ timer_stage = "hpet_init" => asked.count = 0
  /\ timer_stage \in {"hpet_init", "idle", "measured"} /\ Fits => slept >= Ticks(asked)
  /\ timer_stage = "measured" /\ Fits => slept <= Ticks(asked) + MaxStall

(* The LAPIC counts with the HPET, besides the hold-ups before the sleep   *)
(* and behind it, until it is at its end.                                  *)
CountsAlong ==
  /\ timer_stage = "counting" => Counted <= rate * stall
  /\ timer_stage \in {"measuring", "measured"} =>
       /\ asked = Calibration
       /\ Counted >= Least(rate * slept, Dword - 1)
  /\ timer_stage = "measuring" /\ Fits => Counted <= rate * (slept + MaxStall)
  /\ timer_stage = "measured" /\ Fits => Counted <= rate * (slept + MaxStall + stall)

TimerIInv == TimerTypeOK /\ Asleep /\ Awake /\ CountsAlong

-----------------------------------------------------------------------------
(* A quotient, by its bounds.                                              *)
LEMMA Quotient ==
  ASSUME NEW a \in Nat, NEW b \in Nat \ {0}
  PROVE  a \div b \in Nat /\ (a \div b) * b <= a /\ a < (a \div b + 1) * b
  OBVIOUS

(* A remainder is below its modulus and changes nothing that is.           *)
LEMMA Remainder ==
  ASSUME NEW a \in Nat, NEW m \in Nat \ {0}
  PROVE  a % m \in 0 .. m - 1 /\ (a < m => a % m = a)
  OBVIOUS

(* A product with the next number.                                         *)
LEMMA TimesOneMore ==
  ASSUME NEW a \in Nat, NEW b \in Nat
  PROVE  a * (b + 1) = a * b + a
  OBVIOUS

(* A product is no less than a factor.                                     *)
LEMMA AtLeast ==
  ASSUME NEW a \in Nat, NEW b \in Nat \ {0}
  PROVE  a * b >= a /\ b * a >= a
  OBVIOUS
-----------------------------------------------------------------------------
(* The time a request asks for is a natural number of femtoseconds.        *)
LEMMA FemtosecondsType ==
  ASSUME NEW r \in Request
  PROVE  /\ Femtoseconds(r) \in Nat /\ Ticks(r) \in Nat
         /\ r.count = 0 => Femtoseconds(r) = 0 /\ Ticks(r) = 0
<1>1. r.count \in Nat /\ r.unit \in Nat /\ FsPerNs \in Nat /\ Period \in Nat \ {0}
  BY TimerAssumption DEF Request
<1>2. r.count * r.unit \in Nat
  BY <1>1, Product
<1>3. Femtoseconds(r) \in Nat
  BY <1>1, <1>2, Product DEF Femtoseconds
<1>4. r.count = 0 => Femtoseconds(r) = 0
  BY <1>1 DEF Femtoseconds
<1>5. Ticks(r) \in Nat /\ (Femtoseconds(r) = 0 => Ticks(r) = 0)
  BY <1>1, <1>3, Quotient DEF Ticks
<1> QED
  BY <1>3, <1>4, <1>5

(* A request that fits is not changed by the width of a word.              *)
LEMMA TicksAskedFits ==
  ASSUME NEW r \in Request, Femtoseconds(r) < Word
  PROVE  TicksAsked(r) = Ticks(r)
<1>1. r.count \in Nat /\ r.unit \in Nat /\ FsPerNs \in Nat \ {0} /\ Word \in Nat \ {0}
  BY TimerAssumption DEF Request
<1> DEFINE ns == r.count * r.unit
<1>2. ns \in Nat
  BY <1>1, Product
<1>3. ns * FsPerNs \in Nat /\ ns <= ns * FsPerNs /\ ns * FsPerNs = Femtoseconds(r)
  BY <1>1, <1>2, Product, AtLeast DEF Femtoseconds
<1>4. ns < Word
  BY <1>1, <1>2, <1>3
<1>5. Nanoseconds(r) = ns
  BY <1>1, <1>2, <1>4, Remainder DEF Nanoseconds
<1>6. (ns * FsPerNs) % Word = ns * FsPerNs
  BY <1>1, <1>3, Remainder
<1> QED
  BY <1>3, <1>5, <1>6 DEF TicksAsked, Ticks

(* So is the number of ticks that the code computes for it.                *)
LEMMA TicksAskedType ==
  ASSUME NEW r \in Request
  PROVE  TicksAsked(r) \in Nat
<1>1. r.count \in Nat /\ r.unit \in Nat /\ FsPerNs \in Nat /\ Word \in Nat \ {0} /\ Period \in Nat \ {0}
  BY TimerAssumption DEF Request
<1>2. r.count * r.unit \in Nat
  BY <1>1, Product
<1>3. Nanoseconds(r) \in Nat
  BY <1>1, <1>2, Remainder DEF Nanoseconds
<1>4. (Nanoseconds(r) * FsPerNs) % Word \in Nat
  BY <1>1, <1>3, Product, Remainder
<1> QED
  BY <1>1, <1>4, Quotient DEF TicksAsked

-----------------------------------------------------------------------------
(* Before hpet_init nobody sleeps.                                         *)
LEMMA TimerInitInv == TimerInit => TimerIInv
<1> SUFFICES ASSUME TimerInit PROVE TimerIInv
  OBVIOUS
<1>1. asked \in Request /\ asked.count = 0
  BY DEF TimerInit, Request
<1>2. Ticks(asked) = 0
  BY <1>1, FemtosecondsType
<1>3. TimerTypeOK
  BY <1>1, TimerAssumption DEF TimerInit, TimerTypeOK
<1> QED
  BY <1>1, <1>2, <1>3, TimerAssumption DEF TimerInit, TimerIInv, Asleep, Awake, CountsAlong

(* A sleep starts with no ticks slept and its target ahead.                *)
LEMMA NsleepInv ==
  ASSUME TimerIInv, NEW r \in Request, NEW s, NEW t, Nsleep(r, s, t),
         \/ s = "idle" /\ t = "waiting"
         \/ s = "counting" /\ t = "measuring" /\ r = Calibration
  PROVE  TimerIInv'
<1>1. counter_target' \in Nat /\ (Fits' => counter_target' = start' + Ticks(asked'))
  <2>1. main_counter_value + TicksAsked(r) \in Nat /\ Word \in Nat \ {0} /\ modulus \in 1 .. Word
    BY TicksAskedType, TimerAssumption DEF TimerIInv, TimerTypeOK
  <2>2. ASSUME Fits' PROVE TicksAsked(r) = Ticks(r) /\ main_counter_value + Ticks(r) < Word
    <3>1. asked' = r /\ start' = main_counter_value /\ modulus' = modulus
      BY DEF Nsleep, Go, machine
    <3>2. Femtoseconds(r) < Word /\ main_counter_value + Ticks(r) + MaxStall < modulus
      BY <2>2, <3>1 DEF Fits, Ticks, Femtoseconds
    <3> QED
      BY <2>1, <3>2, TicksAskedFits, FemtosecondsType, TimerAssumption DEF TimerIInv, TimerTypeOK
  <2>3. counter_target' = (main_counter_value + TicksAsked(r)) % Word
    BY DEF Nsleep
  <2> QED
    BY <2>1, <2>2, <2>3, Remainder DEF Nsleep
<1>2. TimerTypeOK'
  BY <1>1, TimerAssumption DEF TimerIInv, TimerTypeOK, Nsleep, Go, machine
<1>3. Ticks(asked') \in Nat
  BY FemtosecondsType DEF Nsleep
<1>4. Asleep'
  BY <1>1, <1>3 DEF TimerIInv, TimerTypeOK, Asleep, Nsleep, Go, Ticks
<1>5. Awake'
  BY DEF Awake, Nsleep, Go
<1>6. CountsAlong'
  <2> SUFFICES ASSUME s = "counting", t = "measuring" PROVE CountsAlong'
    BY DEF CountsAlong, Nsleep, Go
  <2>1. Counted <= rate * stall /\ Counted' = Counted /\ Counted \in Nat
    BY TimerAssumption DEF TimerIInv, TimerTypeOK, CountsAlong, Nsleep, Go, Counted
  <2>2. rate * stall <= rate * MaxStall
    BY Monotone, TimerAssumption DEF TimerIInv, TimerTypeOK
  <2>3. rate' = rate /\ slept' = 0 /\ rate * 0 = 0 /\ rate * stall \in Nat /\ rate * MaxStall \in Nat
    BY Product, TimerAssumption DEF Nsleep, Go, machine, TimerIInv, TimerTypeOK
  <2>4. Counted' <= rate' * (slept' + MaxStall)
    BY <2>1, <2>2, <2>3, TimerAssumption
  <2>5. Counted' >= Least(rate' * slept', Dword - 1)
    BY <2>1, <2>3, TimerAssumption DEF Least
  <2> QED
    BY <2>4, <2>5 DEF CountsAlong, Nsleep, Go
<1> QED
  BY <1>2, <1>4, <1>5, <1>6 DEF TimerIInv

(* A turn of the loop: the sleep is not over yet.                          *)
LEMMA PollInv ==
  ASSUME TimerIInv, NEW s \in {"waiting", "measuring"}, Poll(s)
  PROVE  TimerIInv'
<1>1. TimerTypeOK'
  BY TimerAssumption DEF TimerIInv, TimerTypeOK, Poll, Read, Go, machine, sleep
<1>2. Asleep'
  <2> SUFFICES ASSUME Fits' PROVE Asleep'
    BY DEF Asleep
  <2>1. Fits /\ Ticks(asked') = Ticks(asked) /\ Ticks(asked) \in Nat
    BY FemtosecondsType DEF Fits, Poll, Read, Go, machine, sleep, TimerIInv, TimerTypeOK, Ticks, Femtoseconds
  <2>2. slept < Ticks(asked)
    BY <2>1 DEF Poll, Ahead, Read, Go, TimerIInv, Asleep, TimerTypeOK
  <2> QED
    BY <2>1, <2>2 DEF Asleep, Poll, Read, Go, machine, sleep, TimerIInv, TimerTypeOK
<1>3. Awake'
  BY DEF Awake, Poll, Read, Go
<1>4. CountsAlong'
  BY DEF CountsAlong, Poll, Read, Go, machine, sleep, TimerIInv, Counted, Fits, Femtoseconds
<1> QED
  BY <1>1, <1>2, <1>3, <1>4 DEF TimerIInv

(* The last turn: no less than the ticks asked for have passed.            *)
LEMMA WakeInv ==
  ASSUME TimerIInv, NEW s, NEW t, Wake(s, t),
         \/ s = "waiting" /\ t = "idle"
         \/ s = "measuring" /\ t = "measured"
  PROVE  TimerIInv'
<1>1. TimerTypeOK'
  BY TimerAssumption DEF TimerIInv, TimerTypeOK, Wake, Read, Go, machine, sleep
<1>2. Asleep'
  BY DEF Asleep, Wake, Read, Go
<1>3. Awake'
  <2> SUFFICES ASSUME Fits' PROVE slept' >= Ticks(asked') /\ slept' <= Ticks(asked') + MaxStall
    BY DEF Awake, Wake, Read, Go
  <2>1. Fits /\ Ticks(asked') = Ticks(asked) /\ Ticks(asked) \in Nat
    BY FemtosecondsType DEF Fits, Wake, Read, Go, machine, sleep, TimerIInv, TimerTypeOK, Ticks, Femtoseconds
  <2> QED
    BY <2>1, TimerAssumption DEF Wake, Ahead, Read, Go, sleep, TimerIInv, Asleep, TimerTypeOK
<1>4. CountsAlong'
  <2> SUFFICES ASSUME s = "measuring", t = "measured" PROVE CountsAlong'
    BY DEF CountsAlong, Wake, Read, Go
  <2>1. Counted' = Counted /\ slept' = slept /\ asked' = asked /\ rate' = rate /\ stall' = 0 /\ (Fits' => Fits)
    BY DEF Counted, Wake, Read, Go, machine, sleep, Fits, Femtoseconds
  <2>2. slept + MaxStall + 0 = slept + MaxStall
    BY TimerAssumption DEF TimerIInv, TimerTypeOK
  <2> QED
    BY <2>1, <2>2 DEF CountsAlong, Wake, Read, Go, TimerIInv
<1> QED
  BY <1>1, <1>2, <1>3, <1>4 DEF TimerIInv

(* hpet_init starts the counter.                                           *)
LEMMA HpetInitInv == TimerIInv /\ HpetInit => TimerIInv'
<1> SUFFICES ASSUME TimerIInv, HpetInit PROVE TimerIInv'
  OBVIOUS
<1>1. TimerTypeOK'
  BY TimerAssumption DEF TimerIInv, TimerTypeOK, HpetInit, Go, machine, sleep
<1>2. Asleep' /\ CountsAlong'
  BY DEF Asleep, CountsAlong, HpetInit, Go
<1>3. Ticks(asked') = 0 /\ slept' \in Nat
  BY FemtosecondsType DEF TimerIInv, TimerTypeOK, Awake, HpetInit, Go, sleep
<1> QED
  BY <1>1, <1>2, <1>3 DEF TimerIInv, Awake, HpetInit, Go

(* The calibration starts the timer of the LAPIC at its maximum.           *)
LEMMA StartCountInv == TimerIInv /\ StartCount => TimerIInv'
<1> SUFFICES ASSUME TimerIInv, StartCount PROVE TimerIInv'
  OBVIOUS
<1>1. TimerTypeOK'
  BY TimerAssumption DEF TimerIInv, TimerTypeOK, StartCount, Go, machine, sleep
<1>2. Asleep' /\ Awake'
  BY DEF Asleep, Awake, StartCount, Go
<1>3. Counted' = 0 /\ rate' * stall' = 0
  BY TimerAssumption DEF Counted, StartCount, Go, machine, TimerIInv, TimerTypeOK
<1> QED
  BY <1>1, <1>2, <1>3 DEF TimerIInv, CountsAlong, StartCount, Go

(* The calibration ends with a read.                                       *)
LEMMA ReadCountInv == TimerIInv /\ ReadCount => TimerIInv'
<1> SUFFICES ASSUME TimerIInv, ReadCount PROVE TimerIInv'
  OBVIOUS
<1>1. TimerTypeOK'
  BY TimerAssumption DEF TimerIInv, TimerTypeOK, ReadCount, Go, machine, sleep
<1>2. Asleep' /\ CountsAlong'
  BY DEF Asleep, CountsAlong, ReadCount, Go
<1>3. Awake'
  BY DEF TimerIInv, Awake, ReadCount, Go, machine, sleep, Fits, Femtoseconds, Ticks
<1> QED
  BY <1>1, <1>2, <1>3 DEF TimerIInv

(* While a sleep that fits goes on, neither the counter nor slept is at    *)
(* its end.                                                                *)
LEMMA TickAsleep ==
  ASSUME TimerIInv, Tick, Fits, timer_stage \in {"waiting", "measuring"}
  PROVE  main_counter_value' = main_counter_value + 1 /\ slept' = slept + 1
<1>1. Ticks(asked) \in Nat /\ start + Ticks(asked) + MaxStall < modulus
  BY FemtosecondsType DEF Fits, Ticks, TimerIInv, TimerTypeOK
<1>2. main_counter_value = start + slept /\ slept <= Ticks(asked) + stall /\ stall < MaxStall
  BY DEF TimerIInv, Asleep, Tick
<1>3. main_counter_value + 1 < modulus /\ slept + 1 < modulus /\ modulus \in 1 .. Word
  BY <1>1, <1>2, TimerAssumption DEF TimerIInv, TimerTypeOK
<1>4. main_counter_value + 1 \in Nat /\ modulus \in Nat \ {0}
  BY TimerAssumption DEF TimerIInv, TimerTypeOK
<1>5. (main_counter_value + 1) % modulus = main_counter_value + 1
  BY <1>3, <1>4, Remainder
<1> QED
  BY <1>3, <1>5, TimerAssumption DEF Tick, Least, TimerIInv, TimerTypeOK

(* A tick moves the HPET and the LAPIC together.                           *)
LEMMA TickInv == TimerIInv /\ Tick => TimerIInv'
<1> SUFFICES ASSUME TimerIInv, Tick PROVE TimerIInv'
  OBVIOUS
<1>1. TimerTypeOK'
  <2>1. (main_counter_value + 1) % modulus \in 0 .. modulus - 1
    BY Remainder, TimerAssumption DEF TimerIInv, TimerTypeOK
  <2>2. cur_count - Least(cur_count, rate) \in 0 .. Dword - 1
    BY TimerAssumption DEF TimerIInv, TimerTypeOK, Least
  <2>3. Least(slept + 1, Word) \in Nat
    BY TimerAssumption DEF TimerIInv, TimerTypeOK, Least
  <2>4. stall' \in 0 .. MaxStall
    BY TimerAssumption DEF TimerIInv, TimerTypeOK, Tick
  <2> QED
    BY <2>1, <2>2, <2>3, <2>4 DEF TimerIInv, TimerTypeOK, Tick, machine
<1>2. UNCHANGED <<timer_stage, asked, start, counter_target, rate, modulus>> /\ (Fits' = Fits) /\ Ticks(asked') = Ticks(asked)
  BY DEF Tick, machine, Fits, Femtoseconds, Ticks
<1>3. Ticks(asked) \in Nat
  BY FemtosecondsType DEF TimerIInv, TimerTypeOK
<1>4. Asleep'
  <2> SUFFICES ASSUME Fits, timer_stage \in {"waiting", "measuring"} PROVE Asleep'
    BY <1>2 DEF Asleep
  <2>1. main_counter_value' = main_counter_value + 1 /\ slept' = slept + 1 /\ stall' = stall + 1
    BY TickAsleep DEF Tick
  <2> QED
    BY <1>2, <1>3, <2>1 DEF Asleep, TimerIInv, TimerTypeOK
<1>5. Awake'
  BY <1>2, <1>3 DEF Awake, TimerIInv, Tick
<1>6. CountsAlong'
  <2>1. /\ Counted \in Nat /\ Counted' \in Nat /\ Counted' >= Counted /\ Counted' <= Counted + rate
        /\ Counted' >= Least(Counted + rate, Dword - 1)
    BY TimerAssumption DEF Counted, Tick, Least, TimerIInv, TimerTypeOK
  <2>2. ASSUME timer_stage = "counting" PROVE Counted' <= rate * stall'
    <3>1. stall' = stall + 1 /\ rate * (stall + 1) = rate * stall + rate /\ rate * stall \in Nat
      BY <2>2, TimesOneMore, Product DEF Tick, TimerIInv, TimerTypeOK
    <3> QED
      BY <2>1, <2>2, <3>1 DEF TimerIInv, TimerTypeOK, CountsAlong
  <2>3. ASSUME timer_stage \in {"measuring", "measured"} PROVE Counted' >= Least(rate * slept', Dword - 1)
    <3>1. slept' \in Nat /\ slept' <= slept + 1
      BY TimerAssumption DEF Tick, Least, TimerIInv, TimerTypeOK
    <3>2. rate * slept' <= rate * slept + rate /\ rate * slept \in Nat /\ rate * slept' \in Nat
      <4>1. rate \in Nat /\ slept \in Nat /\ slept + 1 \in Nat
        BY DEF TimerIInv, TimerTypeOK
      <4>2. rate * slept' <= rate * (slept + 1)
        BY <3>1, <4>1, Monotone
      <4>3. rate * (slept + 1) = rate * slept + rate
        BY <4>1, TimesOneMore
      <4> QED
        BY <3>1, <4>1, <4>2, <4>3, Product
    <3>3. Counted >= Least(rate * slept, Dword - 1)
      BY <2>3 DEF TimerIInv, CountsAlong
    <3> QED
      BY <2>1, <3>2, <3>3, TimerAssumption DEF Least, TimerIInv, TimerTypeOK
  <2>4. ASSUME timer_stage = "measuring", Fits PROVE Counted' <= rate * (slept' + MaxStall)
    <3>1. slept' = slept + 1
      BY <2>4, TickAsleep
    <3>2. slept + 1 + MaxStall = slept + MaxStall + 1
      BY TimerAssumption DEF TimerIInv, TimerTypeOK
    <3>3. rate * (slept + MaxStall + 1) = rate * (slept + MaxStall) + rate /\ rate * (slept + MaxStall) \in Nat
      BY TimesOneMore, Product, TimerAssumption DEF TimerIInv, TimerTypeOK
    <3> QED
      BY <2>1, <2>4, <3>1, <3>2, <3>3 DEF TimerIInv, TimerTypeOK, CountsAlong
  <2>5. ASSUME timer_stage = "measured", Fits PROVE Counted' <= rate * (slept' + MaxStall + stall')
    <3>1. slept' = slept /\ stall' = stall + 1
      BY <2>5 DEF Tick
    <3>2. slept + MaxStall + (stall + 1) = slept + MaxStall + stall + 1
      BY TimerAssumption DEF TimerIInv, TimerTypeOK
    <3>3. /\ rate * (slept + MaxStall + stall + 1) = rate * (slept + MaxStall + stall) + rate
          /\ rate * (slept + MaxStall + stall) \in Nat
      BY TimesOneMore, Product, TimerAssumption DEF TimerIInv, TimerTypeOK
    <3> QED
      BY <2>1, <2>5, <3>1, <3>2, <3>3 DEF TimerIInv, TimerTypeOK, CountsAlong
  <2> QED
    BY <1>2, <2>2, <2>3, <2>4, <2>5 DEF CountsAlong, TimerIInv
<1> QED
  BY <1>1, <1>4, <1>5, <1>6 DEF TimerIInv

(* Every step keeps the invariant.                                         *)
LEMMA TimerNextInv == TimerIInv /\ [TimerNext]_timer_vars => TimerIInv'
<1> SUFFICES ASSUME TimerIInv, [TimerNext]_timer_vars PROVE TimerIInv'
  OBVIOUS
<1>1. CASE HpetInit
  BY <1>1, HpetInitInv
<1>2. CASE Waits("waiting", "idle") \/ Waits("measuring", "measured")
  BY <1>2, PollInv, WakeInv DEF Waits
<1>3. CASE Calibrate
  BY <1>3, StartCountInv, ReadCountInv, NsleepInv, TimerAssumption DEF Calibrate
<1>4. CASE CallSleep
  <2>1. PICK r \in Requests : Nsleep(r, "idle", "waiting")
    BY <1>4 DEF CallSleep
  <2> QED
    BY <2>1, NsleepInv, TimerAssumption
<1>5. CASE Tick
  BY <1>5, TickInv
<1>6. CASE UNCHANGED timer_vars
  BY <1>6 DEF timer_vars, machine, sleep, TimerIInv, TimerTypeOK, Asleep, Awake, CountsAlong, Counted, Fits, Femtoseconds, Ticks
<1> QED
  BY <1>1, <1>2, <1>3, <1>4, <1>5, <1>6 DEF TimerNext, Proceed

-----------------------------------------------------------------------------
(* In every state of the timers: the counter has moved by the ticks slept, *)
(* and the LAPIC has counted with it.                                      *)
THEOREM TimerInvariant == TimerSpec => []TimerIInv
  BY TimerInitInv, TimerNextInv, PTL DEF TimerSpec

(* The invariant bounds the length of a sleep.                             *)
LEMMA InvImpliesInBounds == TimerIInv => SleepInBounds
<1> SUFFICES ASSUME TimerIInv, Fits
             PROVE  /\ timer_stage \in {"waiting", "measuring"} => slept <= Femtoseconds(asked) \div Period + MaxStall
                    /\ timer_stage \in {"idle", "measured"} => (slept + 1) * Period > Femtoseconds(asked)
  BY DEF SleepInBounds
<1>1. /\ Femtoseconds(asked) \in Nat /\ Ticks(asked) \in Nat
      /\ Period \in Nat \ {0} /\ slept \in Nat /\ stall \in 0 .. MaxStall
  BY FemtosecondsType, TimerAssumption DEF TimerIInv, TimerTypeOK
<1>2. ASSUME timer_stage \in {"idle", "measured"} PROVE (slept + 1) * Period > Femtoseconds(asked)
  <2>1. slept >= Ticks(asked)
    BY <1>2 DEF TimerIInv, Awake
  <2>2. Femtoseconds(asked) < (Ticks(asked) + 1) * Period
    BY <1>1, Quotient DEF Ticks
  <2>3. (Ticks(asked) + 1) * Period <= (slept + 1) * Period
    BY <1>1, <2>1, Monotone
  <2> QED
    BY <1>1, <2>2, <2>3
<1>3. ASSUME timer_stage \in {"waiting", "measuring"} PROVE slept <= Ticks(asked) + MaxStall
  BY <1>1, <1>3, TimerAssumption DEF TimerIInv, Asleep
<1> QED
  BY <1>2, <1>3 DEF Ticks

(* A sleep for which neither product nor counter wraps around is neither   *)
(* shorter than asked nor more than one hold-up longer, whatever the       *)
(* widths and the period.                                                  *)
THEOREM TimerSleepInBounds == TimerSpec => []SleepInBounds
  BY TimerInvariant, InvImpliesInBounds, PTL

(* lapic_timer_calibrate.                                                  *)
LEMMA ReadCountInBounds ==
  ASSUME TimerIInv, timer_stage = "measured", timer_stage' = "idle", Fits, MostCounted < Dword, [TimerNext]_timer_vars
  PROVE  lapic_freq' \in rate * Counts * PerSecond .. MostCounted
<1>1. ReadCount
  BY DEF TimerNext, Proceed, HpetInit, Waits, Poll, Wake, Read, Calibrate, StartCount, Nsleep, CallSleep, Tick, Go, timer_vars, TimerIInv, TimerTypeOK
<1>2. asked = Calibration /\ Counts = Ticks(asked) /\ Ticks(asked) \in Nat
  BY FemtosecondsType DEF TimerIInv, TimerTypeOK, CountsAlong, Counts, Ticks
<1> DEFINE most == Ticks(asked) + 3 * MaxStall
<1>3. /\ rate \in Nat \ {0} /\ slept \in Nat /\ Counted \in Nat /\ PerSecond \in Nat \ {0}
      /\ most \in Nat /\ Dword \in Nat \ {0} /\ slept + MaxStall + stall \in Nat
  BY <1>2, TimerAssumption DEF TimerIInv, TimerTypeOK, Counted
<1>4. slept >= Ticks(asked) /\ slept + MaxStall + stall <= most
  BY <1>2, TimerAssumption DEF TimerIInv, TimerTypeOK, Awake
<1>5. rate * Ticks(asked) <= rate * slept /\ rate * slept <= rate * most
  BY <1>2, <1>3, <1>4, Monotone, TimerAssumption DEF TimerIInv, TimerTypeOK
<1>6. Counted <= rate * most
  <2>1. Counted <= rate * (slept + MaxStall + stall)
    BY DEF TimerIInv, CountsAlong
  <2>2. rate * (slept + MaxStall + stall) <= rate * most
    BY <1>3, <1>4, Monotone
  <2> QED
    BY <1>3, <2>1, <2>2, Product
<1>7. MostCounted = rate * most * PerSecond /\ rate * most \in Nat /\ rate * most <= MostCounted
  BY <1>2, <1>3, Product, AtLeast DEF MostCounted
<1>8. rate * Ticks(asked) <= Counted
  <2>1. Counted >= Least(rate * slept, Dword - 1)
    BY DEF TimerIInv, CountsAlong
  <2>2. rate * slept <= Dword - 1
    BY <1>3, <1>5, <1>7, Product
  <2>3. Counted >= rate * slept
    BY <1>3, <2>1, <2>2, Product DEF Least
  <2> QED
    BY <1>2, <1>3, <1>5, <2>3, Product
<1>9. rate * Ticks(asked) * PerSecond <= Counted * PerSecond /\ Counted * PerSecond <= MostCounted
  BY <1>2, <1>3, <1>6, <1>7, <1>8, Product, Monotone
<1>10. lapic_freq' = (Counted * PerSecond) % Dword /\ Counted * PerSecond \in Nat
  BY <1>1, <1>3, Product DEF ReadCount, Counted
<1>11. Counted * PerSecond < Dword /\ MostCounted \in Nat /\ rate * Ticks(asked) * PerSecond \in Nat
  BY <1>2, <1>3, <1>7, <1>9, <1>10, Product
<1>12. lapic_freq' = Counted * PerSecond
  BY <1>3, <1>10, <1>11, Remainder
<1> QED
  BY <1>2, <1>9, <1>10, <1>11, <1>12

(* The frequency lapic_timer_calibrate finds is the true one up to the     *)
(* hold-ups of its steps, whatever the rates and the widths, while the     *)
(* product fits in 32 bits.                                                *)
THEOREM TimerFrequencyInBounds == TimerSpec => FrequencyInBounds
<1>1. TimerIInv /\ [TimerNext]_timer_vars =>
        [timer_stage = "measured" /\ timer_stage' = "idle" /\ Fits /\ MostCounted < Dword
           => lapic_freq' \in rate * Counts * PerSecond .. MostCounted]_timer_vars
  BY ReadCountInBounds
<1> QED
  BY <1>1, TimerInvariant, PTL DEF TimerSpec, FrequencyInBounds
=============================================================================
