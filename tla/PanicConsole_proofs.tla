------------------------ MODULE PanicConsole_proofs ------------------------
(***************************************************************************)
(* Proofs about the text on the screen and about the panic that ends the   *)
(* kernel, for any number of CPUs, any list of the bootloader and any      *)
(* number of failing calls and exceptions.                                 *)
(*                                                                         *)
(* The programs are typed: a state says where a CPU is between the calls   *)
(* of the two locks, and a program is a path of permitted instructions     *)
(* from one state to another.  The invariant gives each CPU such a state,  *)
(* from which what it has left to execute is a path to a state without     *)
(* locks, and which agrees with the locks, the screen and the interrupts.  *)
(***************************************************************************)
EXTENDS PanicConsole, TLAPS

Colours == {"any", "base", "warn", "panic"}

Operations ==
  {"join", "enter", "leave", "set", "put", "start", "sti", "count", "acpi_find_sdt", "off",
   "pmm_alloc", "load_pagemap", "set_gs_base", "wait", "cli", "send", "sleep", "get_cpu_local", "said"}

Operands == Colours \cup {"fb", "printf", "none"} \cup Nat

Instruction == Operations \X Operands

(* "again" is a lock that an earlier program of the CPU may have kept; the *)
(* present one will call for it.  A CPU is in "boot" until sti, "open"     *)
(* until it is counted, and from cli on in its "last" program.             *)
State ==
  [fb : {"out", "again", "waits", "in"},
   printf : {"out", "again", "waits", "in", "one", "two"},
   colour : Colours,
   life : {"boot", "open", "counted", "last", "sent"}]

Nothing(s) == s.fb = "out" /\ s.printf = "out"

(* A state the model's steps lead to: colours belong to the lock, and who  *)
(* has been counted prints no more before it panics.                       *)
Proper(s) ==
  /\ s \in State
  /\ s.fb # "in" => s.colour = "any"
  /\ s.life = "counted" => Nothing(s)

States == {s \in State : Proper(s)}

Start(list, s, k) ==
  /\ k \in 1 .. Len(list) /\ Nothing(s)
  /\ \/ s.life = "boot" /\ \E j \in k .. Len(list) : list[j] = Bsp
     \/ s.life = "counted" /\ \A j \in k .. Len(list) : list[j] # Bsp

Allowed(list, s, x) ==
  /\ s.life = "sent" <=> x[1] = "sleep"
  /\ \/ x = <<"join", "fb">> /\ s.fb \in {"out", "again"} /\ s.life # "counted"
     \/ x = <<"enter", "fb">> /\ s.fb = "waits"
     \/ x = <<"leave", "fb">> /\ s.fb = "in"
     \/ x = <<"join", "printf">> /\ s.printf \in {"out", "again"} /\ s.life # "counted"
     \/ x = <<"enter", "printf">> /\ s.printf = "waits"
     \/ x = <<"leave", "printf">> /\ s.printf = "two"
     \/ x[1] = "set" /\ x[2] \in Colours /\ s.fb = "in"
     \/ /\ x[1] = "put" /\ s.printf \in {"in", "one"}
        /\ x[2] # "any" => s.fb = "in" /\ s.colour = x[2]
     \/ x[1] = "start" /\ Start(list, s, x[2])
     \/ x[1] = "sti" /\ s.life = "boot" /\ Nothing(s)
     \/ x[1] = "count" /\ s.life = "open" /\ Nothing(s)
     \/ x[1] \in {"acpi_find_sdt", "off"} /\ s.life = "boot" /\ Nothing(s)
     \/ x[1] = "pmm_alloc" /\ Nothing(s)
     \/ x[1] = "send" /\ s.life = "last"
     \/ x[1] \in {"load_pagemap", "set_gs_base", "wait", "cli", "sleep", "get_cpu_local", "said"}

FbAfter(s, x) ==
  IF x = <<"join", "fb">> THEN "waits"
  ELSE IF x = <<"enter", "fb">> THEN "in"
  ELSE IF x = <<"leave", "fb">> THEN "out" ELSE s.fb

PrintfAfter(s, x) ==
  IF x = <<"join", "printf">> THEN "waits"
  ELSE IF x = <<"enter", "printf">> THEN "in"
  ELSE IF x = <<"leave", "printf">> THEN "out"
  ELSE IF x[1] = "put" THEN IF s.printf = "in" THEN "one" ELSE "two" ELSE s.printf

ColourAfter(s, x) ==
  IF x = <<"leave", "fb">> THEN "any" ELSE IF x[1] = "set" THEN x[2] ELSE s.colour

LifeAfter(s, x) ==
  IF x[1] = "sti" THEN "open"
  ELSE IF x[1] \in {"count", "start"} THEN "counted"
  ELSE IF x[1] \in {"cli", "sleep"} THEN "last"
  ELSE IF x[1] = "send" THEN "sent" ELSE s.life

After(s, x) ==
  [fb |-> FbAfter(s, x), printf |-> PrintfAfter(s, x), colour |-> ColourAfter(s, x),
   life |-> LifeAfter(s, x)]

Path(list, p, a, b) ==
  \E t \in [1 .. Len(p) + 1 -> States] :
    /\ t[1] = a /\ t[Len(p) + 1] = b
    /\ \A k \in 1 .. Len(p) : Allowed(list, t[k], p[k]) /\ t[k + 1] = After(t[k], p[k])

-----------------------------------------------------------------------------
(* Paths are put together from steps.                                      *)

(* A permitted instruction leads from a proper state to a proper state.    *)
LEMMA AfterProper ==
  ASSUME NEW list, NEW s, Proper(s), NEW x \in Instruction, Allowed(list, s, x)
  PROVE  Proper(After(s, x))
<1> USE DEF Proper, State, Nothing
<1> DEFINE n == After(s, x)
<1>1. n.fb = FbAfter(s, x) /\ n.printf = PrintfAfter(s, x) /\ n.colour = ColourAfter(s, x) /\ n.life = LifeAfter(s, x)
  BY DEF After
<1>2. FbAfter(s, x) \in {"out", "again", "waits", "in"}
  BY DEF FbAfter
<1>3. PrintfAfter(s, x) \in {"out", "again", "waits", "in", "one", "two"}
  BY DEF PrintfAfter, Allowed
<1>4. ColourAfter(s, x) \in Colours
  BY DEF ColourAfter, Allowed, Colours
<1>5. LifeAfter(s, x) \in {"boot", "open", "counted", "last", "sent"}
  BY DEF LifeAfter
<1>6. n \in State
  BY <1>2, <1>3, <1>4, <1>5 DEF After
<1>7. FbAfter(s, x) # "in" => ColourAfter(s, x) = "any"
  BY DEF FbAfter, ColourAfter, Allowed
<1>8. LifeAfter(s, x) = "counted" => FbAfter(s, x) = "out" /\ PrintfAfter(s, x) = "out"
  BY DEF FbAfter, PrintfAfter, LifeAfter, Allowed, Start
<1> HIDE DEF n
<1> QED
  BY <1>1, <1>6, <1>7, <1>8 DEF n

(* The empty program stays where it is.                                    *)
LEMMA EmptyPath ==
  ASSUME NEW list, NEW a, NEW b, Proper(a)
  PROVE  Path(list, <<>>, a, b) <=> a = b
<1>1. Len(<<>>) = 0 /\ a \in States
  BY DEF Proper, States
<1>2. ASSUME a = b PROVE Path(list, <<>>, a, b)
  <2>1. PICK t \in [1 .. 1 -> States] : t[1] = a
    <3>1. [k \in 1 .. 1 |-> a] \in [1 .. 1 -> States] /\ [k \in 1 .. 1 |-> a][1] = a
      BY <1>1
    <3> QED
      BY <3>1
  <2> QED
    BY <1>1, <1>2, <2>1 DEF Path
<1> QED
  BY <1>1, <1>2 DEF Path

(* One permitted instruction is a path.                                    *)
LEMMA OnePath ==
  ASSUME NEW list, NEW a, Proper(a), NEW x \in Instruction, Allowed(list, a, x)
  PROVE  Path(list, <<x>>, a, After(a, x))
<1> DEFINE t == [k \in 1 .. 2 |-> IF k = 1 THEN a ELSE After(a, x)]
<1>1. Proper(After(a, x))
  BY AfterProper
<1>2. t \in [1 .. Len(<<x>>) + 1 -> States]
  BY <1>1 DEF Proper, States
<1>3. t[1] = a /\ t[2] = After(a, x)
  OBVIOUS
<1> HIDE DEF t
<1> QED
  BY <1>2, <1>3 DEF Path

(* Paths that meet are one path.                                           *)
LEMMA ConcatPath ==
  ASSUME NEW list, NEW p \in Seq(Instruction), NEW q \in Seq(Instruction),
         NEW a, NEW b, NEW c, Path(list, p, a, b), Path(list, q, b, c)
  PROVE  p \o q \in Seq(Instruction) /\ Path(list, p \o q, a, c)
<1>1. PICK t \in [1 .. Len(p) + 1 -> States] :
        /\ t[1] = a /\ t[Len(p) + 1] = b
        /\ \A k \in 1 .. Len(p) : Allowed(list, t[k], p[k]) /\ t[k + 1] = After(t[k], p[k])
  BY DEF Path
<1>2. PICK u \in [1 .. Len(q) + 1 -> States] :
        /\ u[1] = b /\ u[Len(q) + 1] = c
        /\ \A k \in 1 .. Len(q) : Allowed(list, u[k], q[k]) /\ u[k + 1] = After(u[k], q[k])
  BY DEF Path
<1>3. /\ p \o q \in Seq(Instruction) /\ Len(p \o q) = Len(p) + Len(q)
      /\ Len(p) \in Nat /\ Len(q) \in Nat
      /\ \A k \in 1 .. Len(p) + Len(q) : (p \o q)[k] = IF k <= Len(p) THEN p[k] ELSE q[k - Len(p)]
  OBVIOUS
<1> DEFINE v == [k \in 1 .. Len(p) + Len(q) + 1 |-> IF k <= Len(p) + 1 THEN t[k] ELSE u[k - Len(p)]]
<1>4. v \in [1 .. Len(p) + Len(q) + 1 -> States]
  BY <1>3
<1>5. \A k \in 1 .. Len(p) + Len(q) + 1 : v[k] = IF k <= Len(p) + 1 THEN t[k] ELSE u[k - Len(p)]
  OBVIOUS
<1> HIDE DEF v
<1>6. v[1] = a /\ v[Len(p) + Len(q) + 1] = c
  <2>1. v[1] = t[1]
    BY <1>3, <1>5
  <2>2. CASE Len(q) = 0
    BY <1>1, <1>2, <1>3, <1>5, <2>1, <2>2
  <2>3. CASE Len(q) # 0
    <3>1. v[Len(p) + Len(q) + 1] = u[Len(p) + Len(q) + 1 - Len(p)]
      BY <1>3, <1>5, <2>3
    <3>2. Len(p) + Len(q) + 1 - Len(p) = Len(q) + 1
      BY <1>3
    <3> QED
      BY <1>1, <1>2, <2>1, <3>1, <3>2
  <2> QED
    BY <2>2, <2>3
<1>7. ASSUME NEW k \in 1 .. Len(p) + Len(q)
      PROVE  Allowed(list, v[k], (p \o q)[k]) /\ v[k + 1] = After(v[k], (p \o q)[k])
  <2>1. CASE k <= Len(p)
    BY <1>1, <1>3, <1>5, <2>1
  <2>2. CASE k > Len(p)
    <3> DEFINE m == k - Len(p)
    <3>1. m \in 1 .. Len(q) /\ k = Len(p) + m /\ k + 1 - Len(p) = m + 1
      BY <1>3, <2>2
    <3>2. v[k + 1] = u[m + 1]
      BY <1>3, <1>5, <2>2, <3>1
    <3>3. v[k] = u[m]
      <4>1. CASE m = 1
        BY <1>1, <1>2, <1>3, <1>5, <3>1, <4>1
      <4>2. CASE m # 1
        BY <1>3, <1>5, <3>1, <4>2
      <4> QED
        BY <4>1, <4>2
    <3>4. (p \o q)[k] = q[m]
      BY <1>3, <2>2
    <3> HIDE DEF m
    <3> QED
      BY <1>2, <3>1, <3>2, <3>3, <3>4
  <2> QED
    BY <1>3, <2>1, <2>2
<1> QED
  BY <1>3, <1>4, <1>6, <1>7 DEF Path

(* The first instruction of a path is permitted, and the rest is a path.   *)
LEMMA StepPath ==
  ASSUME NEW list, NEW p \in Seq(Instruction), p # <<>>, NEW a, NEW b, Path(list, p, a, b)
  PROVE  /\ Proper(a) /\ Head(p) \in Instruction /\ Allowed(list, a, Head(p))
         /\ Tail(p) \in Seq(Instruction) /\ Path(list, Tail(p), After(a, Head(p)), b)
<1>1. PICK t \in [1 .. Len(p) + 1 -> States] :
        /\ t[1] = a /\ t[Len(p) + 1] = b
        /\ \A k \in 1 .. Len(p) : Allowed(list, t[k], p[k]) /\ t[k + 1] = After(t[k], p[k])
  BY DEF Path
<1>2. /\ Len(p) \in Nat /\ Len(p) > 0 /\ Head(p) = p[1] /\ Head(p) \in Instruction
      /\ Tail(p) \in Seq(Instruction) /\ Len(Tail(p)) = Len(p) - 1
      /\ \A k \in 1 .. Len(p) - 1 : Tail(p)[k] = p[k + 1]
  OBVIOUS
<1> DEFINE v == [k \in 1 .. Len(p) |-> t[k + 1]]
<1>3. v \in [1 .. Len(p) -> States] /\ \A k \in 1 .. Len(p) : v[k] = t[k + 1]
  BY <1>2
<1> HIDE DEF v
<1>4. \A k \in 1 .. Len(p) - 1 : Allowed(list, v[k], Tail(p)[k]) /\ v[k + 1] = After(v[k], Tail(p)[k])
  BY <1>1, <1>2, <1>3
<1>5. v[1] = After(a, Head(p)) /\ v[Len(p)] = b
  BY <1>1, <1>2, <1>3
<1>6. Path(list, Tail(p), After(a, Head(p)), b)
  <2>1. Len(Tail(p)) + 1 = Len(p) /\ 1 .. Len(Tail(p)) = 1 .. Len(p) - 1
    BY <1>2
  <2>2. v \in [1 .. Len(Tail(p)) + 1 -> States]
    BY <1>3, <2>1
  <2>3. v[1] = After(a, Head(p)) /\ v[Len(Tail(p)) + 1] = b
    BY <1>5, <2>1
  <2>4. \A k \in 1 .. Len(Tail(p)) : Allowed(list, v[k], Tail(p)[k]) /\ v[k + 1] = After(v[k], Tail(p)[k])
    BY <1>4, <2>1
  <2> QED
    BY <2>2, <2>3, <2>4 DEF Path
<1> QED
  BY <1>1, <1>2, <1>6 DEF States

(* One more instruction.                                                   *)
LEMMA ThenPath ==
  ASSUME NEW list, NEW p \in Seq(Instruction), NEW a, NEW b, Path(list, p, a, b), Proper(b),
         NEW x \in Instruction, Allowed(list, b, x)
  PROVE  /\ p \o <<x>> \in Seq(Instruction) /\ Path(list, p \o <<x>>, a, After(b, x))
         /\ Proper(After(b, x))
<1>1. Path(list, <<x>>, b, After(b, x)) /\ Proper(After(b, x))
  BY OnePath, AfterProper
<1>2. <<x>> \in Seq(Instruction) /\ p \o <<x>> \in Seq(Instruction)
  OBVIOUS
<1> QED
  BY <1>1, <1>2, ConcatPath

(* Two instructions.                                                       *)
LEMMA TwoPath ==
  ASSUME NEW list, NEW a, Proper(a), NEW x \in Instruction, Allowed(list, a, x),
         NEW y \in Instruction, Allowed(list, After(a, x), y)
  PROVE  /\ <<x, y>> \in Seq(Instruction) /\ Path(list, <<x, y>>, a, After(After(a, x), y))
         /\ Proper(After(After(a, x), y))
<1>1. Path(list, <<x>>, a, After(a, x)) /\ Proper(After(a, x))
  BY OnePath, AfterProper
<1>2. <<x>> \in Seq(Instruction) /\ <<x, y>> = <<x>> \o <<y>>
  OBVIOUS
<1> QED
  BY <1>1, <1>2, ThenPath

(* What an instruction is.                                                 *)
LEMMA Instructions ==
  ASSUME NEW o \in Operations
  PROVE  /\ <<o, "none">> \in Instruction /\ <<o, "fb">> \in Instruction /\ <<o, "printf">> \in Instruction
         /\ \A c \in Colours : <<o, c>> \in Instruction
         /\ \A k \in Nat : <<o, k>> \in Instruction
<1>1. Colours \subseteq Operands /\ Nat \subseteq Operands /\ {"none", "fb", "printf"} \subseteq Operands
  BY DEF Operands
<1> QED
  BY <1>1 DEF Instruction

(* An instruction without an operand.                                      *)
LEMMA OpPath ==
  ASSUME NEW list, NEW a, Proper(a), NEW o \in Operations, Allowed(list, a, <<o, "none">>)
  PROVE  /\ Op(o) \in Seq(Instruction) /\ Proper(After(a, <<o, "none">>))
         /\ Path(list, Op(o), a, After(a, <<o, "none">>))
<1>1. <<o, "none">> \in Instruction
  BY Instructions
<1>2. <<<<o, "none">>>> \in Seq(Instruction)
  BY <1>1
<1> QED
  BY <1>1, <1>2, OnePath, AfterProper DEF Op

-----------------------------------------------------------------------------
(* The programs are paths.                                                 *)

(* printf and vprintf are called with the lock free or waited for in vain; *)
(* a colour is wanted only where it is set.                                *)
LEMMA PrintfPath ==
  ASSUME NEW list, NEW s, Proper(s), s.printf \in {"out", "again"}, s.life \notin {"counted", "sent"},
         NEW c \in Colours, c # "any" => s.fb = "in" /\ s.colour = c
  PROVE  /\ Printf(c) \in Seq(Instruction)
         /\ Path(list, Printf(c), s, [s EXCEPT !.printf = "out"])
         /\ Proper([s EXCEPT !.printf = "out"])
<1> DEFINE join == <<"join", "printf">>  enter == <<"enter", "printf">>
           put == <<"put", c>>  leave == <<"leave", "printf">>
           n(v) == [s EXCEPT !.printf = v]
<1>1. join \in Instruction /\ enter \in Instruction /\ put \in Instruction /\ leave \in Instruction
  BY Instructions DEF Operations
<1>2. /\ n("waits").printf = "waits" /\ n("in").printf = "in" /\ n("one").printf = "one" /\ n("two").printf = "two"
      /\ \A v \in {"waits", "in", "one", "two", "out"} :
           n(v).fb = s.fb /\ n(v).colour = s.colour /\ n(v).life = s.life
  BY DEF Proper, State
<1>3. /\ Allowed(list, s, join) /\ Allowed(list, n("waits"), enter)
      /\ Allowed(list, n("in"), put) /\ Allowed(list, n("one"), put) /\ Allowed(list, n("two"), leave)
  <2> HIDE DEF n
  <2> QED
    BY <1>2 DEF Allowed
<1>4. /\ After(s, join) = n("waits") /\ After(n("waits"), enter) = n("in")
      /\ After(n("in"), put) = n("one") /\ After(n("one"), put) = n("two")
      /\ After(n("two"), leave) = n("out")
  BY <1>2 DEF After, FbAfter, PrintfAfter, ColourAfter, LifeAfter, Proper, State
<1> HIDE DEF n, join, enter, put, leave
<1>5. <<join, enter>> \in Seq(Instruction) /\ Path(list, <<join, enter>>, s, n("in")) /\ Proper(n("in"))
  BY <1>1, <1>3, <1>4, TwoPath
<1>6. <<put, put>> \in Seq(Instruction) /\ Path(list, <<put, put>>, n("in"), n("two")) /\ Proper(n("two"))
  BY <1>1, <1>3, <1>4, <1>5, TwoPath
<1>7. /\ <<join, enter>> \o <<put, put>> \in Seq(Instruction)
      /\ Path(list, <<join, enter>> \o <<put, put>>, s, n("two"))
  BY <1>5, <1>6, ConcatPath, Zenon
<1>8. /\ <<join, enter>> \o <<put, put>> \o <<leave>> \in Seq(Instruction)
      /\ Path(list, <<join, enter>> \o <<put, put>> \o <<leave>>, s, n("out")) /\ Proper(n("out"))
  <2> DEFINE p == <<join, enter>> \o <<put, put>>
  <2>1. p \in Seq(Instruction) /\ Path(list, p, s, n("two"))
    BY <1>7
  <2> HIDE DEF p
  <2>2. p \o <<leave>> \in Seq(Instruction) /\ Path(list, p \o <<leave>>, s, n("out")) /\ Proper(n("out"))
    BY <1>1, <1>3, <1>4, <1>6, <2>1, ThenPath
  <2> QED
    BY <2>2 DEF p
<1> QED
  BY <1>8 DEF Printf, Locked, n, join, enter, put, leave

InFb(s, c) == [fb |-> "in", printf |-> s.printf, colour |-> c, life |-> s.life]
OutOfFb(s) == [fb |-> "out", printf |-> s.printf, colour |-> "any", life |-> s.life]

(* fb_prepare_color .. fb_reset_color around calls that want the colour.   *)
LEMMA InColourPath ==
  ASSUME NEW list, NEW s, Proper(s), s.fb \in {"out", "again"}, s.life \notin {"counted", "sent"},
         NEW c \in Colours, NEW body \in Seq(Instruction), NEW e, Proper(e), e.fb = "in", e.life # "sent",
         Path(list, body, InFb(s, c), e)
  PROVE  /\ InColour(c, body) \in Seq(Instruction)
         /\ Path(list, InColour(c, body), s, OutOfFb(e))
         /\ Proper(OutOfFb(e))
<1> DEFINE join == <<"join", "fb">>  enter == <<"enter", "fb">>
           set == <<"set", c>>  reset == <<"set", "base">>  leave == <<"leave", "fb">>
           waits == [s EXCEPT !.fb = "waits"]
           inside == [s EXCEPT !.fb = "in"]
           coloured == InFb(s, c)
           base == [e EXCEPT !.colour = "base"]
           end == OutOfFb(e)
<1>1. /\ join \in Instruction /\ enter \in Instruction /\ set \in Instruction /\ leave \in Instruction
      /\ reset \in Instruction
  BY Instructions DEF Operations, Colours
<1>2. /\ waits.fb = "waits" /\ waits.life = s.life /\ inside.fb = "in" /\ inside.life = s.life
      /\ base.fb = "in" /\ base.life = e.life
  BY DEF Proper, State
<1>3. /\ Allowed(list, s, join) /\ Allowed(list, waits, enter) /\ Allowed(list, inside, set)
      /\ Allowed(list, e, reset) /\ Allowed(list, base, leave)
  <2>1. "base" \in Colours
    BY DEF Colours
  <2> HIDE DEF waits, inside, base
  <2> QED
    BY <1>2, <2>1 DEF Allowed
<1>4. After(s, join) = waits /\ After(waits, enter) = inside /\ After(inside, set) = coloured
  <2> USE DEF InFb, OutOfFb, After, FbAfter, PrintfAfter, ColourAfter, LifeAfter, Proper, State
  <2>1. After(s, join) = waits
    OBVIOUS
  <2>2. After(waits, enter) = inside
    OBVIOUS
  <2>3. After(inside, set) = coloured
    OBVIOUS
  <2> QED
    BY <2>1, <2>2, <2>3
<1>5. After(e, reset) = base /\ After(base, leave) = end
  <2> USE DEF InFb, OutOfFb, After, FbAfter, PrintfAfter, ColourAfter, LifeAfter, Proper, State
  <2>1. After(e, reset) = base
    OBVIOUS
  <2>2. After(base, leave) = end
    OBVIOUS
  <2> QED
    BY <2>1, <2>2
<1>6. Path(list, body, coloured, e)
  OBVIOUS
<1> HIDE DEF waits, inside, coloured, base, end, join, enter, set, reset, leave
<1>7. <<join, enter>> \in Seq(Instruction) /\ Path(list, <<join, enter>>, s, inside) /\ Proper(inside)
  BY <1>1, <1>3, <1>4, TwoPath
<1>8. Path(list, <<set>>, inside, coloured) /\ <<set>> \in Seq(Instruction)
  BY <1>1, <1>3, <1>4, <1>7, OnePath
<1>9. <<set>> \o body \in Seq(Instruction) /\ Path(list, <<set>> \o body, inside, e)
  BY <1>6, <1>8, ConcatPath, Zenon
<1>10. /\ <<set>> \o body \o <<reset>> \in Seq(Instruction)
      /\ Path(list, <<set>> \o body \o <<reset>>, inside, base) /\ Proper(base)
  BY <1>1, <1>3, <1>5, <1>9, ThenPath
<1>11. /\ <<join, enter>> \o (<<set>> \o body \o <<reset>>) \in Seq(Instruction)
       /\ Path(list, <<join, enter>> \o (<<set>> \o body \o <<reset>>), s, base)
  BY <1>7, <1>10, ConcatPath, Zenon
<1>12. /\ <<join, enter>> \o (<<set>> \o body \o <<reset>>) \o <<leave>> \in Seq(Instruction)
       /\ Path(list, <<join, enter>> \o (<<set>> \o body \o <<reset>>) \o <<leave>>, s, end)
       /\ Proper(end)
  BY <1>1, <1>3, <1>5, <1>10, <1>11, ThenPath
<1> QED
  BY <1>12 DEF InColour, Locked, end, join, enter, set, reset, leave

(* A state outside the colour's lock.                                      *)
St(f, p, l) == [fb |-> f, printf |-> p, colour |-> "any", life |-> l]

(* Such states are proper.                                                 *)
LEMMA StProper ==
  ASSUME NEW f \in {"out", "again"}, NEW p \in {"out", "again"},
         NEW l \in {"boot", "open", "last", "sent"}
  PROVE  Proper(St(f, p, l)) /\ Proper(St("out", "out", "counted"))
  BY DEF Proper, State, St, Nothing, Colours

(* What the instructions without locks do to such a state.                 *)
LEMMA StAfter ==
  ASSUME NEW f, NEW p, NEW l, NEW o \in Operations \ {"join", "enter", "leave", "set", "put"}, NEW x
  PROVE  After(St(f, p, l), <<o, x>>) = St(f, p, LifeAfter(St(f, p, l), <<o, x>>))
<1>1. \A v \in {"fb", "printf"} : <<o, x>> # <<"join", v>> /\ <<o, x>> # <<"enter", v>> /\ <<o, x>> # <<"leave", v>>
  OBVIOUS
<1>2. <<o, x>>[1] # "set" /\ <<o, x>>[1] # "put"
  OBVIOUS
<1> QED
  BY <1>1, <1>2 DEF After, FbAfter, PrintfAfter, ColourAfter, St

(* Text without a colour of its own.                                       *)
LEMMA PlainPath ==
  ASSUME NEW list, NEW f \in {"out", "again"}, NEW p \in {"out", "again"}, NEW l \in {"boot", "open", "last"}
  PROVE  Printf("any") \in Seq(Instruction) /\ Path(list, Printf("any"), St(f, p, l), St(f, "out", l))
<1>1. Proper(St(f, p, l)) /\ "any" \in Colours
  BY StProper DEF Colours
<1> DEFINE s == St(f, p, l)
           e == [s EXCEPT !.printf = "out"]
<1>2. s.printf \in {"out", "again"} /\ s.life \notin {"counted", "sent"} /\ e = St(f, "out", l)
  BY DEF St
<1>3. Proper(s)
  BY <1>1
<1> HIDE DEF s
<1>4. Printf("any") \in Seq(Instruction) /\ Path(list, Printf("any"), s, e)
  BY <1>1, <1>2, <1>3, PrintfPath
<1> HIDE DEF e
<1> QED
  BY <1>2, <1>4 DEF s

(* A call in the colour c that begins with a step x of no account.         *)
LEMMA ColouredPath ==
  ASSUME NEW list, NEW f \in {"out", "again"}, NEW p \in {"out", "again"}, NEW l \in {"boot", "open", "last"},
         NEW c \in Colours, NEW body \in Seq(Instruction),
         \A e : Proper(e) /\ e.fb = "in" /\ e.life # "sent" => Path(list, body, e, e)
  PROVE  /\ InColour(c, body \o Printf(c)) \in Seq(Instruction)
         /\ Path(list, InColour(c, body \o Printf(c)), St(f, p, l), St("out", "out", l))
<1> DEFINE s == St(f, p, l)
           b == InFb(s, c)
           e == [b EXCEPT !.printf = "out"]
<1>1. /\ Proper(s) /\ s.fb \in {"out", "again"} /\ s.life \notin {"counted", "sent"}
  BY StProper DEF St
<1>2. /\ Proper(b) /\ b.fb = "in" /\ b.colour = c /\ b.printf \in {"out", "again"}
      /\ b.life \notin {"counted", "sent"}
  BY DEF InFb, St, Proper, State
<1>3. Printf(c) \in Seq(Instruction) /\ Path(list, Printf(c), b, e) /\ Proper(e)
  BY <1>2, PrintfPath
<1>4. Path(list, body, b, b)
  BY <1>2
<1>5. body \o Printf(c) \in Seq(Instruction) /\ Path(list, body \o Printf(c), b, e)
  BY <1>3, <1>4, ConcatPath
<1>6. e.fb = "in" /\ e.life # "sent" /\ OutOfFb(e) = St("out", "out", l)
  BY DEF InFb, OutOfFb, St
<1> HIDE DEF s, e
<1> QED
  BY <1>1, <1>3, <1>5, <1>6, InColourPath DEF s

(* panic ends without a lock, also where the CPU has left one behind.      *)
LEMMA PanicPath ==
  ASSUME NEW list, NEW f \in {"out", "again"}, NEW p \in {"out", "again"},
         NEW l \in {"boot", "open", "counted", "last"}, l = "counted" => f = "out" /\ p = "out"
  PROVE  Panic \in Seq(Instruction) /\ Path(list, Panic, St(f, p, l), St("out", "out", "last"))
<1> DEFINE s(x) == St(f, p, x)
           end == St("out", "out", "last")
           colour == InColour("panic", Op("get_cpu_local") \o Printf("panic"))
<1>1. Proper(s(l)) /\ Proper(s("last")) /\ Proper(s("sent")) /\ Proper(end)
  BY StProper
<1>2. /\ After(s(l), <<"cli", "none">>) = s("last") /\ After(s("last"), <<"send", "none">>) = s("sent")
      /\ After(s("sent"), <<"sleep", "none">>) = s("last") /\ After(end, <<"said", "none">>) = end
  <2>1. {"cli", "send", "sleep", "said"} \subseteq Operations \ {"join", "enter", "leave", "set", "put"}
    BY DEF Operations
  <2>2. \A x : /\ LifeAfter(x, <<"cli", "none">>) = "last" /\ LifeAfter(x, <<"send", "none">>) = "sent"
               /\ LifeAfter(x, <<"sleep", "none">>) = "last" /\ LifeAfter(x, <<"said", "none">>) = x.life
    BY DEF LifeAfter
  <2> QED
    BY <2>1, <2>2, StAfter DEF St
<1>3. /\ Allowed(list, s(l), <<"cli", "none">>) /\ Allowed(list, s("last"), <<"send", "none">>)
      /\ Allowed(list, s("sent"), <<"sleep", "none">>) /\ Allowed(list, end, <<"said", "none">>)
  BY DEF Allowed, St
<1>4. {"cli", "send", "sleep", "said", "get_cpu_local"} \subseteq Operations
  BY DEF Operations
<1>5. /\ Op("cli") \in Seq(Instruction) /\ Path(list, Op("cli"), s(l), s("last"))
      /\ Op("send") \in Seq(Instruction) /\ Path(list, Op("send"), s("last"), s("sent"))
      /\ Op("sleep") \in Seq(Instruction) /\ Path(list, Op("sleep"), s("sent"), s("last"))
      /\ Op("said") \in Seq(Instruction) /\ Path(list, Op("said"), end, end)
  BY <1>1, <1>2, <1>3, <1>4, OpPath
<1>6. Op("get_cpu_local") \in Seq(Instruction)
  <2>1. <<"get_cpu_local", "none">> \in Instruction
    BY <1>4, Instructions
  <2> QED
    BY <2>1 DEF Op
<1>7. ASSUME NEW e, Proper(e), e.fb = "in", e.life # "sent" PROVE Path(list, Op("get_cpu_local"), e, e)
  <2>1. Allowed(list, e, <<"get_cpu_local", "none">>)
    BY <1>7 DEF Allowed
  <2>2. After(e, <<"get_cpu_local", "none">>) = e
    BY <1>7 DEF After, FbAfter, PrintfAfter, ColourAfter, LifeAfter, Proper, State
  <2> QED
    BY <1>4, <1>7, <2>1, <2>2, OpPath
<1>8. colour \in Seq(Instruction) /\ Path(list, colour, s("last"), end)
  <2>1. "panic" \in Colours
    BY DEF Colours
  <2> QED
    BY <1>6, <1>7, <2>1, ColouredPath
<1>9. Printf("any") \in Seq(Instruction) /\ Path(list, Printf("any"), end, end)
  BY PlainPath
<1> DEFINE text == Printf("any")
           cli == Op("cli")  send == Op("send")  sleep == Op("sleep")  saying == Op("said")
<1> HIDE DEF colour, s, end, text, cli, send, sleep, saying
<1>10. cli \o send \o sleep \in Seq(Instruction) /\ Path(list, cli \o send \o sleep, s(l), s("last"))
  BY <1>5, ConcatPath DEF cli, send, sleep
<1>11. /\ cli \o send \o sleep \o colour \in Seq(Instruction)
       /\ Path(list, cli \o send \o sleep \o colour, s(l), end)
  BY <1>8, <1>10, ConcatPath
<1>12. /\ cli \o send \o sleep \o colour \o text \o text \o text \in Seq(Instruction)
       /\ Path(list, cli \o send \o sleep \o colour \o text \o text \o text, s(l), end)
  <2> DEFINE head == cli \o send \o sleep \o colour
  <2> HIDE DEF head
  <2>1. head \in Seq(Instruction) /\ Path(list, head, s(l), end)
    BY <1>11 DEF head
  <2>2. text \in Seq(Instruction) /\ Path(list, text, end, end)
    BY <1>9 DEF text
  <2>3. head \o text \in Seq(Instruction) /\ Path(list, head \o text, s(l), end)
    BY <2>1, <2>2, ConcatPath
  <2>4. head \o text \o text \in Seq(Instruction) /\ Path(list, head \o text \o text, s(l), end)
    BY <2>2, <2>3, ConcatPath
  <2>5. head \o text \o text \o text \in Seq(Instruction) /\ Path(list, head \o text \o text \o text, s(l), end)
    BY <2>2, <2>4, ConcatPath
  <2> QED
    BY <2>5 DEF head
<1>13. /\ cli \o send \o sleep \o colour \o text \o text \o text \o saying \in Seq(Instruction)
       /\ Path(list, cli \o send \o sleep \o colour \o text \o text \o text \o saying, s(l), end)
  BY <1>5, <1>12, ConcatPath, Zenon DEF saying
<1> QED
  BY <1>13 DEF Panic, s, end, colour, text, cli, send, sleep, saying

(* The handler finds the locks as the exception has left them.             *)
LEMMA HandlerPath ==
  ASSUME NEW list
  PROVE  /\ ExceptionHandler \in Seq(Instruction)
         /\ Path(list, ExceptionHandler, St("again", "again", "last"), St("out", "out", "last"))
<1>1. /\ Printf("any") \in Seq(Instruction)
      /\ Path(list, Printf("any"), St("again", "again", "last"), St("again", "out", "last"))
  BY PlainPath
<1>2. Panic \in Seq(Instruction) /\ Path(list, Panic, St("again", "out", "last"), St("out", "out", "last"))
  BY PanicPath
<1> QED
  BY <1>1, <1>2, ConcatPath, Zenon DEF ExceptionHandler

(* The warnings of lapic_init and acpi_find_sdt.                           *)
LEMMA WarningPath ==
  ASSUME NEW list, NEW l \in {"boot", "open", "last"}
  PROVE  Warning \in Seq(Instruction) /\ Path(list, Warning, St("out", "out", l), St("out", "out", l))
<1>1. "warn" \in Colours /\ Printf("warn") \in Seq(Instruction)
  <2>1. "warn" \in Colours /\ {"join", "enter", "leave", "put"} \subseteq Operations
    BY DEF Colours, Operations
  <2>2. /\ <<"join", "printf">> \in Instruction /\ <<"enter", "printf">> \in Instruction
        /\ <<"leave", "printf">> \in Instruction /\ <<"put", "warn">> \in Instruction
    BY <2>1, Instructions
  <2> QED
    BY <2>1, <2>2 DEF Printf, Locked
<1>2. <<>> \in Seq(Instruction) /\ <<>> \o Printf("warn") = Printf("warn")
  BY <1>1
<1>3. \A e : Proper(e) => Path(list, <<>>, e, e)
  BY EmptyPath
<1> QED
  BY <1>1, <1>2, <1>3, ColouredPath DEF Warning

(* cpu_init is entered with interrupts disabled and ends counted.          *)
LEMMA CpuInitPath ==
  ASSUME NEW list
  PROVE  CpuInit \in Seq(Instruction) /\ Path(list, CpuInit, St("out", "out", "boot"), St("out", "out", "counted"))
<1> DEFINE boot == St("out", "out", "boot")
           open == St("out", "out", "open")
           end == St("out", "out", "counted")
<1>1. Proper(boot) /\ Proper(open) /\ Proper(end)
  BY StProper
<1>2. {"load_pagemap", "pmm_alloc", "set_gs_base", "sti", "count"}
         \subseteq Operations \ {"join", "enter", "leave", "set", "put"}
  BY DEF Operations
<1>3. /\ After(boot, <<"load_pagemap", "none">>) = boot /\ After(boot, <<"pmm_alloc", "none">>) = boot
      /\ After(boot, <<"set_gs_base", "none">>) = boot /\ After(boot, <<"sti", "none">>) = open
      /\ After(open, <<"count", "none">>) = end
  <2>1. \A x : /\ LifeAfter(x, <<"load_pagemap", "none">>) = x.life /\ LifeAfter(x, <<"pmm_alloc", "none">>) = x.life
               /\ LifeAfter(x, <<"set_gs_base", "none">>) = x.life /\ LifeAfter(x, <<"sti", "none">>) = "open"
               /\ LifeAfter(x, <<"count", "none">>) = "counted"
    BY DEF LifeAfter
  <2> QED
    BY <1>2, <2>1, StAfter DEF St
<1>4. /\ Allowed(list, boot, <<"load_pagemap", "none">>) /\ Allowed(list, boot, <<"pmm_alloc", "none">>)
      /\ Allowed(list, boot, <<"set_gs_base", "none">>) /\ Allowed(list, boot, <<"sti", "none">>)
      /\ Allowed(list, open, <<"count", "none">>)
  BY DEF Allowed, St, Nothing
<1> DEFINE load_pagemap == Op("load_pagemap")  pmm_alloc == Op("pmm_alloc")
           set_gs_base == Op("set_gs_base")  sti == Op("sti")  count == Op("count")
           text == Printf("any")
<1> HIDE DEF boot, open, end
<1>5. /\ load_pagemap \in Seq(Instruction) /\ Path(list, load_pagemap, boot, boot)
      /\ pmm_alloc \in Seq(Instruction) /\ Path(list, pmm_alloc, boot, boot)
      /\ set_gs_base \in Seq(Instruction) /\ Path(list, set_gs_base, boot, boot)
      /\ sti \in Seq(Instruction) /\ Path(list, sti, boot, open)
      /\ count \in Seq(Instruction) /\ Path(list, count, open, end)
  BY <1>1, <1>2, <1>3, <1>4, OpPath
<1>6. LapicInit \in Seq(Instruction) /\ Path(list, LapicInit, boot, boot)
  <2>1. CASE LapicMoved
    BY <2>1, WarningPath DEF LapicInit, boot
  <2>2. CASE ~ LapicMoved
    BY <1>1, <2>2, EmptyPath DEF LapicInit
  <2> QED
    BY <2>1, <2>2
<1>7. text \in Seq(Instruction) /\ Path(list, text, open, open)
  BY PlainPath DEF open
<1> HIDE DEF load_pagemap, pmm_alloc, set_gs_base, sti, count, text
<1>8. /\ load_pagemap \o pmm_alloc \o set_gs_base \in Seq(Instruction)
      /\ Path(list, load_pagemap \o pmm_alloc \o set_gs_base, boot, boot)
  BY <1>5, ConcatPath
<1>9. /\ load_pagemap \o pmm_alloc \o set_gs_base \o LapicInit \o sti \in Seq(Instruction)
      /\ Path(list, load_pagemap \o pmm_alloc \o set_gs_base \o LapicInit \o sti, boot, open)
  BY <1>5, <1>6, <1>8, ConcatPath
<1>10. /\ load_pagemap \o pmm_alloc \o set_gs_base \o LapicInit \o sti \o text \o count \in Seq(Instruction)
       /\ Path(list, load_pagemap \o pmm_alloc \o set_gs_base \o LapicInit \o sti \o text \o count, boot, end)
  BY <1>5, <1>7, <1>9, ConcatPath
<1> QED
  BY <1>10 DEF CpuInit, boot, end, load_pagemap, pmm_alloc, set_gs_base, sti, count, text

(* The rest of the loop of smp_init, before and behind the bootstrap CPU's *)
(* own entry.                                                              *)
LEMMA LoopPath ==
  ASSUME NEW list, list = cpus, Len(list) \in Nat, NEW k \in 1 .. Len(list) + 1, NEW l,
         \/ l = "boot" /\ \E j \in k .. Len(list) : list[j] = Bsp
         \/ l = "counted" /\ \A j \in k .. Len(list) : list[j] # Bsp
  PROVE  /\ SmpInitLoop(k) \in Seq(Instruction)
         /\ Path(list, SmpInitLoop(k), St("out", "out", l), St("out", "out", "counted"))
<1> DEFINE s == St("out", "out", l)
           end == St("out", "out", "counted")
<1>1. Proper(s) /\ Proper(end)
  BY StProper
<1>2. CASE k > Len(list)
  <2>1. l = "counted" /\ SmpInitLoop(k) = <<>>
    BY <1>2 DEF SmpInitLoop
  <2> QED
    BY <1>1, <2>1, EmptyPath
<1>3. CASE k <= Len(list)
  <2>1. {"pmm_alloc", "start"} \subseteq Operations \ {"join", "enter", "leave", "set", "put"}
    BY DEF Operations
  <2>2. After(s, <<"pmm_alloc", "none">>) = s /\ After(s, <<"start", k>>) = end
    <3>1. \A x : LifeAfter(x, <<"pmm_alloc", "none">>) = x.life /\ LifeAfter(x, <<"start", k>>) = "counted"
      BY DEF LifeAfter
    <3> QED
      BY <2>1, <3>1, StAfter DEF St
  <2>3. Allowed(list, s, <<"pmm_alloc", "none">>)
    BY DEF Allowed, St, Nothing
  <2>4. Allowed(list, s, <<"start", k>>)
    <3>1. Start(list, s, k) /\ s.life # "sent"
      BY <1>3 DEF Start, St, Nothing
    <3> QED
      BY <3>1 DEF Allowed
  <2>5. <<"start", k>> \in Instruction
    <3>1. "start" \in Operations /\ k \in Nat
      BY <2>1
    <3> QED
      BY <3>1, Instructions
  <2>6. Op("pmm_alloc") \in Seq(Instruction) /\ Path(list, Op("pmm_alloc"), s, s)
    BY <1>1, <2>1, <2>2, <2>3, OpPath
  <2> HIDE DEF s, end
  <2>7. /\ Op("pmm_alloc") \o <<<<"start", k>>>> \in Seq(Instruction)
        /\ Path(list, Op("pmm_alloc") \o <<<<"start", k>>>>, s, end)
    <3> DEFINE x == <<"start", k>>
    <3>1. x \in Instruction /\ Allowed(list, s, x) /\ After(s, x) = end
      BY <2>2, <2>4, <2>5
    <3> HIDE DEF x
    <3>2. /\ Op("pmm_alloc") \o <<x>> \in Seq(Instruction)
          /\ Path(list, Op("pmm_alloc") \o <<x>>, s, end)
      BY <1>1, <2>6, <3>1, ThenPath
    <3> QED
      BY <3>2 DEF x
  <2> QED
    BY <1>3, <2>7 DEF SmpInitLoop, s, end
<1> QED
  BY <1>2, <1>3

(* kmain, from pmm_init to its panic.                                      *)
LEMMA KmainPath ==
  ASSUME machine \in Machines
  PROVE  Kmain \in Seq(Instruction) /\ Path(cpus, Kmain, St("out", "out", "boot"), St("out", "out", "last"))
<1> DEFINE boot == St("out", "out", "boot")
           counting == St("out", "out", "counted")
           last_ == St("out", "out", "last")
           pmm_alloc == Op("pmm_alloc")  load_pagemap == Op("load_pagemap")
           acpi_find_sdt == Op("acpi_find_sdt")  wait == Op("wait")
           text == Printf("any")
<1>1. Proper(boot) /\ Proper(counting)
  BY StProper
<1>2. {"pmm_alloc", "load_pagemap", "acpi_find_sdt", "wait"} \subseteq Operations \ {"join", "enter", "leave", "set", "put"}
  BY DEF Operations
<1>3. /\ After(boot, <<"load_pagemap", "none">>) = boot /\ After(boot, <<"pmm_alloc", "none">>) = boot
      /\ After(boot, <<"acpi_find_sdt", "none">>) = boot /\ After(counting, <<"wait", "none">>) = counting
  <2>1. \A x : /\ LifeAfter(x, <<"load_pagemap", "none">>) = x.life /\ LifeAfter(x, <<"pmm_alloc", "none">>) = x.life
               /\ LifeAfter(x, <<"acpi_find_sdt", "none">>) = x.life /\ LifeAfter(x, <<"wait", "none">>) = x.life
    BY DEF LifeAfter
  <2> QED
    BY <1>2, <2>1, StAfter DEF St
<1>4. /\ Allowed(cpus, boot, <<"load_pagemap", "none">>) /\ Allowed(cpus, boot, <<"pmm_alloc", "none">>)
      /\ Allowed(cpus, boot, <<"acpi_find_sdt", "none">>) /\ Allowed(cpus, counting, <<"wait", "none">>)
  BY DEF Allowed, St, Nothing
<1> HIDE DEF boot, counting
<1>5. /\ load_pagemap \in Seq(Instruction) /\ Path(cpus, load_pagemap, boot, boot)
      /\ pmm_alloc \in Seq(Instruction) /\ Path(cpus, pmm_alloc, boot, boot)
      /\ acpi_find_sdt \in Seq(Instruction) /\ Path(cpus, acpi_find_sdt, boot, boot)
      /\ wait \in Seq(Instruction) /\ Path(cpus, wait, counting, counting)
  BY <1>1, <1>2, <1>3, <1>4, OpPath
<1>6. text \in Seq(Instruction) /\ Path(cpus, text, boot, boot)
  BY PlainPath DEF boot
<1>7. SmpInitLoop(1) \in Seq(Instruction) /\ Path(cpus, SmpInitLoop(1), boot, counting)
  <2>1. Len(cpus) \in Nat /\ \E j \in 1 .. Len(cpus) : cpus[j] = Bsp
    BY ConsoleAssumption DEF cpus, ListedBy
  <2> QED
    BY <2>1, LoopPath DEF boot, counting
<1>8. Panic \in Seq(Instruction) /\ Path(cpus, Panic, counting, last_)
  BY PanicPath DEF counting
<1> HIDE DEF pmm_alloc, load_pagemap, acpi_find_sdt, wait, text, last_
<1>9. /\ pmm_alloc \o text \o load_pagemap \in Seq(Instruction)
      /\ Path(cpus, pmm_alloc \o text \o load_pagemap, boot, boot)
  BY <1>5, <1>6, ConcatPath
<1>10. /\ pmm_alloc \o text \o load_pagemap \o text \o acpi_find_sdt \in Seq(Instruction)
       /\ Path(cpus, pmm_alloc \o text \o load_pagemap \o text \o acpi_find_sdt, boot, boot)
  BY <1>5, <1>6, <1>9, ConcatPath
<1>11. /\ pmm_alloc \o text \o load_pagemap \o text \o acpi_find_sdt \o SmpInitLoop(1) \o wait \in Seq(Instruction)
       /\ Path(cpus, pmm_alloc \o text \o load_pagemap \o text \o acpi_find_sdt \o SmpInitLoop(1) \o wait, boot, counting)
  BY <1>5, <1>7, <1>10, ConcatPath
<1>12. /\ pmm_alloc \o text \o load_pagemap \o text \o acpi_find_sdt \o SmpInitLoop(1) \o wait \o Panic \in Seq(Instruction)
       /\ Path(cpus, pmm_alloc \o text \o load_pagemap \o text \o acpi_find_sdt \o SmpInitLoop(1) \o wait \o Panic, boot, last_)
  BY <1>8, <1>11, ConcatPath
<1> QED
  BY <1>12 DEF Kmain, boot, last_, pmm_alloc, load_pagemap, acpi_find_sdt, wait, text

(* Only the loop of smp_init starts CPUs.                                  *)
Plain == {x \in Instruction : x[1] # "start"}

(* All other programs start nobody.                                        *)
LEMMA PlainPrograms ==
  /\ ExceptionHandler \in Seq(Plain) /\ Panic \in Seq(Plain) /\ Warning \in Seq(Plain)
  /\ CpuInit \in Seq(Plain) /\ Printf("any") \in Seq(Plain)
<1>1. \A o \in Operations \ {"start"} : \A v \in Colours \cup {"fb", "printf", "none"} : <<o, v>> \in Plain
  BY Instructions DEF Plain
<1>2. \A c \in Colours : Printf(c) \in Seq(Plain)
  <2>1. {"join", "enter", "leave", "put"} \subseteq Operations \ {"start"}
    BY DEF Operations
  <2> TAKE c \in Colours
  <2>2. {<<"join", "printf">>, <<"enter", "printf">>, <<"leave", "printf">>, <<"put", c>>} \subseteq Plain
    BY <1>1, <2>1
  <2>3. /\ <<<<"join", "printf">>, <<"enter", "printf">>>> \in Seq(Plain)
        /\ <<<<"put", c>>, <<"put", c>>>> \in Seq(Plain) /\ <<<<"leave", "printf">>>> \in Seq(Plain)
    BY <2>2
  <2>4. \A p, q, r \in Seq(Plain) : p \o q \o r \in Seq(Plain)
    OBVIOUS
  <2> QED
    BY <2>3, <2>4, Zenon DEF Printf, Locked
<1>3. \A c \in Colours : \A body \in Seq(Plain) : InColour(c, body) \in Seq(Plain)
  <2>1. {"join", "enter", "leave", "set"} \subseteq Operations \ {"start"} /\ "base" \in Colours
    BY DEF Operations, Colours
  <2>2. \A c \in Colours : {<<"join", "fb">>, <<"enter", "fb">>, <<"leave", "fb">>, <<"set", c>>, <<"set", "base">>} \subseteq Plain
    BY <1>1, <2>1
  <2> QED
    BY <2>2 DEF InColour, Locked
<1>4. \A o \in Operations \ {"start"} : Op(o) \in Seq(Plain)
  BY <1>1 DEF Op
<1>5. {"any", "warn", "panic"} \subseteq Colours
  BY DEF Colours
<1>6. Warning \in Seq(Plain) /\ Printf("any") \in Seq(Plain)
  BY <1>2, <1>3, <1>5 DEF Warning
<1>7. {"cli", "send", "sleep", "get_cpu_local", "said", "load_pagemap", "pmm_alloc", "set_gs_base", "sti", "count"}
         \subseteq Operations \ {"start"}
  BY DEF Operations
<1>8. Panic \in Seq(Plain)
  <2>1. InColour("panic", Op("get_cpu_local") \o Printf("panic")) \in Seq(Plain)
    <3>1. Op("get_cpu_local") \o Printf("panic") \in Seq(Plain)
      BY <1>2, <1>4, <1>5, <1>7
    <3> QED
      BY <1>3, <1>5, <3>1
  <2>2. /\ Op("cli") \in Seq(Plain) /\ Op("send") \in Seq(Plain) /\ Op("sleep") \in Seq(Plain)
        /\ Op("said") \in Seq(Plain)
    BY <1>4, <1>7
  <2> QED
    BY <1>6, <2>1, <2>2 DEF Panic
<1>9. CpuInit \in Seq(Plain)
  <2>1. LapicInit \in Seq(Plain)
    BY <1>6 DEF LapicInit
  <2>2. /\ Op("load_pagemap") \in Seq(Plain) /\ Op("pmm_alloc") \in Seq(Plain)
        /\ Op("set_gs_base") \in Seq(Plain) /\ Op("sti") \in Seq(Plain) /\ Op("count") \in Seq(Plain)
    BY <1>4, <1>7
  <2> QED
    BY <1>6, <2>1, <2>2 DEF CpuInit
<1>10. ExceptionHandler \in Seq(Plain)
  BY <1>6, <1>8 DEF ExceptionHandler
<1> QED
  BY <1>6, <1>8, <1>9, <1>10

-----------------------------------------------------------------------------
(* The invariant.                                                          *)

Ends(s) == Proper(s) /\ Nothing(s) /\ s.life # "sent"

(* What is left to execute brings a CPU to an end without locks.           *)
Rest(list, p, s) == p \in Seq(Instruction) /\ \E e : Ends(e) /\ Path(list, p, s, e)

Agrees(c, s) ==
  /\ s.fb = "in" => fb_inside = {c} /\ (s.colour = "any" \/ s.colour = fb_color)
  /\ s.printf \in {"in", "one", "two"} => printf_inside = {c}
  /\ s.printf \in {"one", "two"} => last.by = c
  /\ fb!Queued(c) => s.fb # "out"
  /\ printf!Queued(c) => s.printf # "out"
  /\ c \in interrupts => s.life \in {"open", "counted"}
  /\ c \in counted => s.life \in {"counted", "last", "sent"}

Typed == \A c \in CPUs : \E s : Agrees(c, s) /\ Rest(cpus, prog[c], s)

(* A lock's callers, once each, and the head alone inside.                 *)
Fifo(queue, inside) ==
  /\ queue \in Seq(CPUs)
  /\ \A j, k \in 1 .. Len(queue) : queue[j] = queue[k] => j = k
  /\ inside = {} \/ (queue # <<>> /\ inside = {Head(queue)})

Types ==
  /\ machine \in Machines /\ DOMAIN prog = CPUs
  /\ Fifo(fb_queue, fb_inside) /\ Fifo(printf_queue, printf_inside)

(* Only the bootstrap CPU starts others, in one place of its program, and  *)
(* the CPUs its loop has not come to are off.                              *)
Starts(list, off, c, p) ==
  \A k \in 1 .. Len(p) : p[k][1] = "start" =>
    /\ c = Bsp
    /\ \A m \in 1 .. Len(p) : p[m][1] = "start" => m = k
    /\ p[k][2] \in Nat
    /\ \A j \in p[k][2] .. Len(list) : list[j] # Bsp => list[j] \in off

OffCpus == {c \in CPUs : prog[c] = Off}

Looping == \A c \in CPUs : Starts(cpus, OffCpus, c, prog[c])

(* The halt interrupt is for CPUs that have been counted.                  *)
Pending ==
  /\ halt_pending \subseteq counted
  /\ is_smp_init => Listed \subseteq counted

IInv == Types /\ Typed /\ Looping /\ Pending /\ PreparedColourKept

-----------------------------------------------------------------------------
(* The locks.                                                              *)

In(queue, c) == \E j \in 1 .. Len(queue) : queue[j] = c

(* A caller takes the end of the queue.                                    *)
LEMMA FifoJoins ==
  ASSUME NEW q, NEW i, Fifo(q, i), NEW c \in CPUs, ~ In(q, c)
  PROVE  Fifo(Append(q, c), i) /\ \A d : In(Append(q, c), d) => d = c \/ In(q, d)
<1>1. q \in Seq(CPUs)
  BY DEF Fifo
<1>2. /\ Append(q, c) \in Seq(CPUs) /\ Len(Append(q, c)) = Len(q) + 1 /\ Len(q) \in Nat
      /\ \A k \in 1 .. Len(q) + 1 : Append(q, c)[k] = IF k <= Len(q) THEN q[k] ELSE c
  BY <1>1
<1>3. \A j, k \in 1 .. Len(q) + 1 : Append(q, c)[j] = Append(q, c)[k] => j = k
  BY <1>2 DEF Fifo, In
<1>4. i = {} \/ (Append(q, c) # <<>> /\ i = {Head(Append(q, c))})
  <2>1. q # <<>> => Head(Append(q, c)) = Head(q) /\ Append(q, c) # <<>>
    BY <1>1
  <2> QED
    BY <2>1 DEF Fifo
<1> QED
  BY <1>2, <1>3, <1>4 DEF Fifo, In

(* Who was inside leaves, and is not queued any more.                      *)
LEMMA FifoLeaves ==
  ASSUME NEW q, NEW i, Fifo(q, i), NEW c \in CPUs, c \in i
  PROVE  /\ i = {c} /\ Fifo(Tail(q), {}) /\ ~ In(Tail(q), c)
         /\ \A d : In(Tail(q), d) => In(q, d)
<1>1. q \in Seq(CPUs) /\ q # <<>> /\ Head(q) = c /\ i = {c}
  BY DEF Fifo
<1>2. /\ Tail(q) \in Seq(CPUs) /\ Len(Tail(q)) = Len(q) - 1 /\ Len(q) \in Nat /\ Len(q) > 0 /\ q[1] = c
      /\ \A k \in 1 .. Len(q) - 1 : Tail(q)[k] = q[k + 1]
  BY <1>1
<1>3. \A j, k \in 1 .. Len(q) - 1 : Tail(q)[j] = Tail(q)[k] => j = k
  BY <1>2 DEF Fifo
<1>4. ~ In(Tail(q), c)
  BY <1>2 DEF Fifo, In
<1> QED
  BY <1>1, <1>2, <1>3, <1>4 DEF Fifo, In

(* The head of the queue goes in.                                          *)
LEMMA FifoEnters ==
  ASSUME NEW q, NEW i, Fifo(q, i), q # <<>>
  PROVE  Fifo(q, {Head(q)})
  BY DEF Fifo

-----------------------------------------------------------------------------
(* What is left to execute.                                                *)

(* The next instruction is permitted, and the rest still ends well.        *)
LEMMA RestStep ==
  ASSUME NEW list, NEW p, NEW s, Rest(list, p, s), p # <<>>
  PROVE  /\ Proper(s) /\ Head(p) \in Instruction /\ Allowed(list, s, Head(p))
         /\ Rest(list, Tail(p), After(s, Head(p)))
<1>1. PICK e : Ends(e) /\ Path(list, p, s, e)
  BY DEF Rest
<1>2. p \in Seq(Instruction)
  BY DEF Rest
<1> QED
  BY <1>1, <1>2, StepPath DEF Rest

(* Who has nothing left to execute has no lock.                            *)
LEMMA RestNothing ==
  ASSUME NEW list, NEW s
  PROVE  Rest(list, <<>>, s) <=> Ends(s)
<1>1. ASSUME Rest(list, <<>>, s) PROVE Ends(s)
  <2>1. PICK e : Ends(e) /\ Path(list, <<>>, s, e)
    BY <1>1 DEF Rest
  <2>2. Len(<<>>) = 0
    OBVIOUS
  <2> QED
    BY <2>1, <2>2 DEF Path
<1>2. ASSUME Ends(s) PROVE Rest(list, <<>>, s)
  <2>1. Path(list, <<>>, s, s) /\ <<>> \in Seq(Instruction)
    BY <1>2, EmptyPath DEF Ends
  <2> QED
    BY <1>2, <2>1 DEF Rest
<1> QED
  BY <1>1, <1>2

(* A path in front of what is left to execute.                             *)
LEMMA RestBefore ==
  ASSUME NEW list, NEW p \in Seq(Instruction), NEW q, NEW a, NEW b, Path(list, p, a, b), Rest(list, q, b)
  PROVE  Rest(list, p \o q, a)
<1>1. PICK e : Ends(e) /\ Path(list, q, b, e)
  BY DEF Rest
<1>2. q \in Seq(Instruction)
  BY DEF Rest
<1>3. p \o q \in Seq(Instruction) /\ Path(list, p \o q, a, e)
  BY <1>1, <1>2, ConcatPath
<1> QED
  BY <1>1, <1>3 DEF Rest

(* The last program of a CPU.                                              *)
LEMMA RestLast ==
  ASSUME NEW list
  PROVE  /\ Rest(list, ExceptionHandler, St("again", "again", "last"))
         /\ \A l \in {"boot", "open", "counted", "last"} : Rest(list, Panic, St("out", "out", l))
<1>1. Ends(St("out", "out", "last"))
  BY StProper DEF Ends, St, Nothing
<1>2. \A l \in {"boot", "open", "counted", "last"} :
        Panic \in Seq(Instruction) /\ Path(list, Panic, St("out", "out", l), St("out", "out", "last"))
  BY PanicPath
<1> QED
  BY <1>1, <1>2, HandlerPath DEF Rest

(* A CPU that has not been started.                                        *)
LEMMA RestOff ==
  ASSUME NEW list, NEW s, Rest(list, Off, s)
  PROVE  s = St("out", "out", "boot")
<1>1. Off = <<<<"off", "none">>>> /\ Off # <<>> /\ Head(Off) = <<"off", "none">>
  BY DEF Off, Op
<1>2. Proper(s) /\ Allowed(list, s, <<"off", "none">>)
  BY <1>1, RestStep
<1>3. s.life = "boot" /\ Nothing(s)
  BY <1>2 DEF Allowed
<1> QED
  BY <1>2, <1>3 DEF Proper, State, Nothing, St

-----------------------------------------------------------------------------
(* A step that moves one CPU.                                              *)
LEMMA Moves ==
  ASSUME Typed, NEW c \in CPUs, NEW p, DOMAIN prog = CPUs,
         machine' = machine, prog' = [prog EXCEPT ![c] = p],
         \A s : Agrees(c, s) /\ Rest(cpus, prog[c], s) =>
           /\ \E n : Agrees(c, n)' /\ Rest(cpus, p, n)
           /\ \A d \in CPUs \ {c} : \A t : Agrees(d, t) => Agrees(d, t)'
  PROVE  Typed'
<1>1. cpus' = cpus
  BY DEF cpus
<1>2. PICK s : Agrees(c, s) /\ Rest(cpus, prog[c], s)
  BY DEF Typed
<1>3. PICK n : Agrees(c, n)' /\ Rest(cpus, p, n)
  BY <1>2
<1>4. Agrees(c, n)' /\ Rest(cpus', prog'[c], n)
  BY <1>1, <1>3
<1>5. ASSUME NEW d \in CPUs, d # c PROVE \E t : Agrees(d, t)' /\ Rest(cpus', prog'[d], t)
  <2>1. PICK t : Agrees(d, t) /\ Rest(cpus, prog[d], t)
    BY DEF Typed
  <2>2. Agrees(d, t)'
    BY <1>2, <1>5, <2>1
  <2>3. prog'[d] = prog[d]
    BY <1>5
  <2> QED
    BY <1>1, <2>1, <2>2, <2>3
<1> QED
  BY <1>4, <1>5 DEF Typed

(* A step to the next instruction.                                         *)
LEMMA GoesOn ==
  ASSUME Types, Typed, NEW c \in CPUs, GoOn(c), prog[c] # <<>>,
         \A s, n : Proper(s) /\ Allowed(cpus, s, Head(prog[c])) /\ Agrees(c, s) /\ n = After(s, Head(prog[c])) =>
           /\ Agrees(c, n)'
           /\ \A d \in CPUs \ {c} : \A t : Agrees(d, t) => Agrees(d, t)'
  PROVE  Typed'
<1>1. machine' = machine /\ prog' = [prog EXCEPT ![c] = Tail(prog[c])]
  BY DEF GoOn, Divert
<1>2. ASSUME NEW s, Agrees(c, s), Rest(cpus, prog[c], s)
      PROVE  /\ \E n : Agrees(c, n)' /\ Rest(cpus, Tail(prog[c]), n)
             /\ \A d \in CPUs \ {c} : \A t : Agrees(d, t) => Agrees(d, t)'
  <2>1. /\ Proper(s) /\ Allowed(cpus, s, Head(prog[c]))
        /\ Rest(cpus, Tail(prog[c]), After(s, Head(prog[c])))
    BY <1>2, RestStep
  <2>2. PICK n : n = After(s, Head(prog[c]))
    OBVIOUS
  <2>3. Agrees(c, n)' /\ \A d \in CPUs \ {c} : \A t : Agrees(d, t) => Agrees(d, t)'
    BY <1>2, <2>1, <2>2
  <2> QED
    BY <2>1, <2>2, <2>3
<1>3. DOMAIN prog = CPUs
  BY DEF Types
<1> QED
  BY <1>1, <1>2, <1>3, Moves
-----------------------------------------------------------------------------
(* The loop of smp_init.                                                   *)

NoStart(p) == p \in Seq(Instruction) /\ \A k \in 1 .. Len(p) : p[k][1] # "start"

(* A program without a start, and what a step leaves of one with a start.  *)
LEMMA StartsPlain ==
  ASSUME NEW list, NEW off, NEW c, NEW p \in Seq(Plain)
  PROVE  Starts(list, off, c, p) /\ NoStart(p)
<1>1. p \in Seq(Instruction) /\ \A k \in 1 .. Len(p) : p[k] \in Plain
  BY DEF Plain
<1> QED
  BY <1>1 DEF Starts, NoStart, Plain

LEMMA StartsTail ==
  ASSUME NEW list, NEW off, NEW c, NEW p \in Seq(Instruction), p # <<>>, Starts(list, off, c, p)
  PROVE  Starts(list, off, c, Tail(p)) /\ (Head(p)[1] = "start" => NoStart(Tail(p)))
<1>1. /\ Tail(p) \in Seq(Instruction) /\ Len(Tail(p)) = Len(p) - 1 /\ Len(p) \in Nat /\ Len(p) > 0
      /\ Head(p) = p[1] /\ \A k \in 1 .. Len(p) - 1 : Tail(p)[k] = p[k + 1]
  OBVIOUS
<1>2. Starts(list, off, c, Tail(p))
  <2> SUFFICES ASSUME NEW k \in 1 .. Len(p) - 1, Tail(p)[k][1] = "start"
               PROVE  /\ c = Bsp
                      /\ \A m \in 1 .. Len(p) - 1 : Tail(p)[m][1] = "start" => m = k
                      /\ Tail(p)[k][2] \in Nat
                      /\ \A j \in Tail(p)[k][2] .. Len(list) : list[j] # Bsp => list[j] \in off
    BY <1>1 DEF Starts
  <2>1. k + 1 \in 1 .. Len(p) /\ Tail(p)[k] = p[k + 1]
    BY <1>1
  <2>2. ASSUME NEW m \in 1 .. Len(p) - 1, Tail(p)[m][1] = "start" PROVE m = k
    <3>1. m + 1 \in 1 .. Len(p) /\ Tail(p)[m] = p[m + 1]
      BY <1>1
    <3>2. m + 1 = k + 1
      BY <2>1, <2>2, <3>1 DEF Starts
    <3> QED
      BY <3>2
  <2> QED
    BY <2>1, <2>2 DEF Starts
<1>3. ASSUME Head(p)[1] = "start" PROVE NoStart(Tail(p))
  <2>1. \A k \in 1 .. Len(p) - 1 : Tail(p)[k] \in Plain
    <3> SUFFICES ASSUME NEW k \in 1 .. Len(p) - 1, Tail(p)[k] \notin Plain PROVE FALSE
      OBVIOUS
    <3>1. 1 \in 1 .. Len(p) /\ k + 1 \in 1 .. Len(p) /\ p[k + 1] = Tail(p)[k] /\ Tail(p)[k] \in Instruction
      BY <1>1
    <3>2. p[k + 1][1] = "start" /\ p[1][1] = "start"
      BY <1>1, <1>3, <3>1 DEF Plain
    <3>3. k + 1 = 1
      BY <3>1, <3>2 DEF Starts
    <3> QED
      BY <3>3
  <2> QED
    BY <1>1, <2>1 DEF NoStart, Plain
<1> QED
  BY <1>2, <1>3

(* A program in front of it or behind it that starts nobody.               *)
LEMMA StartsConcat ==
  ASSUME NEW list, NEW off, NEW c, NEW p \in Seq(Instruction), Starts(list, off, c, p), NEW q, NoStart(q)
  PROVE  Starts(list, off, c, p \o q) /\ Starts(list, off, c, q \o p)
<1>1. q \in Seq(Instruction) /\ \A k \in 1 .. Len(q) : q[k][1] # "start"
  BY DEF NoStart
<1>2. Len(p) \in Nat /\ Len(q) \in Nat
  BY <1>1
<1>3. /\ Len(p \o q) = Len(p) + Len(q)
      /\ \A k \in 1 .. Len(p) + Len(q) : (p \o q)[k] = IF k <= Len(p) THEN p[k] ELSE q[k - Len(p)]
  BY <1>1
<1>4. /\ Len(q \o p) = Len(p) + Len(q)
      /\ \A k \in 1 .. Len(p) + Len(q) : (q \o p)[k] = IF k <= Len(q) THEN q[k] ELSE p[k - Len(q)]
  BY <1>1
<1>5. \A k \in 1 .. Len(p) + Len(q) : (p \o q)[k][1] = "start" => k \in 1 .. Len(p) /\ (p \o q)[k] = p[k]
  BY <1>1, <1>2, <1>3
<1>6. \A k \in 1 .. Len(p) + Len(q) : (q \o p)[k][1] = "start" =>
        k - Len(q) \in 1 .. Len(p) /\ (q \o p)[k] = p[k - Len(q)]
  BY <1>1, <1>2, <1>4
<1>7. Starts(list, off, c, p \o q)
  BY <1>2, <1>3, <1>5 DEF Starts
<1>8. Starts(list, off, c, q \o p)
  <2> SUFFICES ASSUME NEW k \in 1 .. Len(p) + Len(q), (q \o p)[k][1] = "start"
               PROVE  /\ c = Bsp
                      /\ \A m \in 1 .. Len(p) + Len(q) : (q \o p)[m][1] = "start" => m = k
                      /\ (q \o p)[k][2] \in Nat
                      /\ \A j \in (q \o p)[k][2] .. Len(list) : list[j] # Bsp => list[j] \in off
    BY <1>4 DEF Starts
  <2>1. k - Len(q) \in 1 .. Len(p) /\ p[k - Len(q)][1] = "start" /\ (q \o p)[k] = p[k - Len(q)]
    BY <1>6
  <2>2. ASSUME NEW m \in 1 .. Len(p) + Len(q), (q \o p)[m][1] = "start" PROVE m = k
    <3>1. m - Len(q) \in 1 .. Len(p) /\ p[m - Len(q)][1] = "start"
      BY <1>6, <2>2
    <3>2. m - Len(q) = k - Len(q)
      BY <2>1, <3>1 DEF Starts
    <3> QED
      BY <1>2, <3>2
  <2> QED
    BY <2>1, <2>2 DEF Starts
<1> QED
  BY <1>7, <1>8

(* The loop itself.                                                        *)
LEMMA StartsLoop ==
  ASSUME NEW off, NEW k \in Nat, \A j \in k .. Len(cpus) : cpus[j] # Bsp => cpus[j] \in off
  PROVE  Starts(cpus, off, Bsp, SmpInitLoop(k))
<1>1. CASE k > Len(cpus)
  BY <1>1 DEF SmpInitLoop, Starts
<1>2. CASE ~ (k > Len(cpus))
  <2> DEFINE p == <<<<"start", k>>>>
  <2>1. Len(p) = 1 /\ p[1][1] = "start" /\ p[1][2] = k
    OBVIOUS
  <2>2. p \in Seq(Instruction)
    <3>1. <<"start", k>> \in Instruction
      BY Instructions DEF Operations
    <3> QED
      BY <3>1
  <2> HIDE DEF p
  <2>3. Starts(cpus, off, Bsp, p)
    BY <2>1 DEF Starts
  <2>4. NoStart(Op("pmm_alloc"))
    <3>1. <<"pmm_alloc", "none">> \in Instruction
      BY Instructions DEF Operations
    <3> QED
      BY <3>1 DEF NoStart, Op
  <2>5. Starts(cpus, off, Bsp, Op("pmm_alloc") \o p)
    BY <2>2, <2>3, <2>4, StartsConcat
  <2> QED
    BY <1>2, <2>5 DEF SmpInitLoop, p
<1> QED
  BY <1>1, <1>2

(* More CPUs may be off.                                                   *)
LEMMA StartsMore ==
  ASSUME NEW list, NEW off, NEW c, NEW p, Starts(list, off, c, p), NEW more, off \subseteq more
  PROVE  Starts(list, more, c, p)
  BY DEF Starts

(* A step of a CPU that has been started disturbs nobody's loop.           *)
LEMMA LoopingKept ==
  ASSUME Looping, DOMAIN prog = CPUs, NEW c \in CPUs, NEW p, prog[c] # Off, Starts(cpus, OffCpus, c, p),
         machine' = machine, prog' = [prog EXCEPT ![c] = p]
  PROVE  Looping'
<1>1. cpus' = cpus
  BY DEF cpus
<1>2. OffCpus \subseteq OffCpus'
  BY DEF OffCpus, Off, Op
<1>3. \A d \in CPUs : Starts(cpus, OffCpus, d, prog'[d])
  BY DEF Looping
<1>4. \A d \in CPUs : Starts(cpus', OffCpus', d, prog'[d])
  BY <1>1, <1>2, <1>3, StartsMore
<1> QED
  BY <1>4 DEF Looping

-----------------------------------------------------------------------------
(* What the actions have in common.                                        *)

(* A CPU at an instruction has been started.                               *)
LEMMA AtOperation ==
  ASSUME Types, NEW c \in CPUs, NEW o, At(c, o), o # "off"
  PROVE  prog[c] # <<>> /\ Head(prog[c])[1] = o /\ prog[c] # Off
<1>1. Head(Off)[1] = "off"
  BY DEF Off, Op
<1> QED
  BY <1>1 DEF At

(* The machine stays, and every CPU has a program.                         *)
LEMMA Diverts ==
  ASSUME Types, NEW c \in CPUs, NEW p, Divert(c, p)
  PROVE  /\ machine' \in Machines /\ cpus' = cpus /\ Listed' = Listed
         /\ DOMAIN prog = CPUs /\ DOMAIN prog' = CPUs
         /\ machine' = machine /\ prog' = [prog EXCEPT ![c] = p]
  BY DEF Types, Divert, cpus, Listed

(* A step to the next instruction keeps the loop of smp_init.              *)
LEMMA GoOnLooping ==
  ASSUME Types, Typed, Looping, NEW c \in CPUs, GoOn(c), NEW o, At(c, o), o # "off"
  PROVE  Looping'
<1>1. prog[c] \in Seq(Instruction) /\ prog[c] # <<>> /\ prog[c] # Off
  BY AtOperation DEF Typed, Rest
<1>2. Starts(cpus, OffCpus, c, prog[c])
  BY DEF Looping
<1>3. Starts(cpus, OffCpus, c, Tail(prog[c]))
  BY <1>1, <1>2, StartsTail
<1> QED
  BY <1>1, <1>3, Diverts, LoopingKept DEF GoOn

(* The other CPUs do not notice what a CPU does without locks.             *)
LEMMA Unnoticed ==
  ASSUME UNCHANGED <<locks, screen>>, NEW c \in CPUs, NEW d \in CPUs, d # c, NEW t, Agrees(d, t),
         interrupts' \ {c} \subseteq interrupts, counted' \ {c} \subseteq counted
  PROVE  Agrees(d, t)'
  BY DEF Agrees, locks, fb_lock, printf_lock, screen, fb!Queued, printf!Queued

(* An instruction that touches neither the locks nor the screen.           *)
LEMMA Lockless ==
  ASSUME Types, Typed, NEW c \in CPUs, NEW o \in Operations \ {"join", "enter", "leave", "set", "put", "off"},
         At(c, o), GoOn(c), UNCHANGED <<locks, screen>>,
         interrupts' \ {c} \subseteq interrupts, counted' \ {c} \subseteq counted,
         \A s, l : Proper(s) /\ Allowed(cpus, s, Head(prog[c])) /\ Agrees(c, s)
                     /\ l = LifeAfter(s, Head(prog[c])) =>
           /\ c \in interrupts' => l \in {"open", "counted"}
           /\ c \in counted' => l \in {"counted", "last", "sent"}
  PROVE  Types' /\ Typed'
<1>1. prog[c] # <<>> /\ Head(prog[c])[1] = o
  BY AtOperation
<1>2. ASSUME NEW s, NEW n, Proper(s), Allowed(cpus, s, Head(prog[c])), Agrees(c, s),
             n = After(s, Head(prog[c]))
      PROVE  Agrees(c, n)' /\ \A d \in CPUs \ {c} : \A t : Agrees(d, t) => Agrees(d, t)'
  <2>1. n.fb = s.fb /\ n.printf = s.printf /\ n.colour = s.colour /\ n.life = LifeAfter(s, Head(prog[c]))
    <3>1. \A v : /\ Head(prog[c]) # <<"join", v>> /\ Head(prog[c]) # <<"enter", v>>
                 /\ Head(prog[c]) # <<"leave", v>>
      BY <1>1
    <3> QED
      BY <1>1, <1>2, <3>1 DEF After, FbAfter, PrintfAfter, ColourAfter
  <2>2. /\ c \in interrupts' => n.life \in {"open", "counted"}
        /\ c \in counted' => n.life \in {"counted", "last", "sent"}
    BY <1>2, <2>1
  <2>3. Agrees(c, n)'
    BY <1>2, <2>1, <2>2 DEF Agrees, locks, fb_lock, printf_lock, screen, fb!Queued, printf!Queued
  <2>4. \A d \in CPUs \ {c} : \A t : Agrees(d, t) => Agrees(d, t)'
    BY Unnoticed
  <2> QED
    BY <2>3, <2>4
<1>3. Typed'
  BY <1>1, <1>2, GoesOn
<1>4. Types'
  BY Diverts DEF GoOn, Types, locks, fb_lock, printf_lock
<1> QED
  BY <1>3, <1>4
-----------------------------------------------------------------------------
(* Each action keeps the invariant.                                        *)

(* A caller of a lock joins its queue.                                     *)
LEMMA JoinKept ==
  ASSUME IInv, NEW c \in CPUs, Join(c)
  PROVE  IInv'
<1> USE DEF IInv
<1> DEFINE x == Head(prog[c])
<1>1. prog[c] # <<>> /\ x[1] = "join" /\ Operand(c) = x[2]
  BY AtOperation DEF Join, Operand
<1>2. /\ GoOn(c) /\ interrupts' = interrupts /\ counted' = counted /\ last' = last /\ fb_color' = fb_color
      /\ is_smp_init' = is_smp_init /\ halt_pending' = halt_pending
  BY DEF Join, screen, cpu
<1>3. \/ /\ x[2] = "fb" /\ ~ In(fb_queue, c) /\ fb_queue' = Append(fb_queue, c) /\ fb_inside' = fb_inside
         /\ printf_queue' = printf_queue /\ printf_inside' = printf_inside
      \/ /\ x[2] = "printf" /\ ~ In(printf_queue, c) /\ printf_queue' = Append(printf_queue, c)
         /\ printf_inside' = printf_inside
         /\ fb_queue' = fb_queue /\ fb_inside' = fb_inside
  BY <1>1 DEF Join, fb!Join, printf!Join, fb!Queued, printf!Queued, In, fb_lock, printf_lock
<1>4. \A q, i : Fifo(q, i) /\ ~ In(q, c) =>
        Fifo(Append(q, c), i) /\ \A d : In(Append(q, c), d) => d = c \/ In(q, d)
  BY FifoJoins
<1>5. /\ Fifo(fb_queue', fb_inside') /\ Fifo(printf_queue', printf_inside')
      /\ \A d \in CPUs : In(fb_queue', d) => In(fb_queue, d) \/ (d = c /\ x[2] = "fb")
      /\ \A d \in CPUs : In(printf_queue', d) => In(printf_queue, d) \/ (d = c /\ x[2] = "printf")
  <2>1. Fifo(fb_queue, fb_inside) /\ Fifo(printf_queue, printf_inside)
    BY DEF Types
  <2> HIDE DEF x
  <2>2. CASE x[2] = "fb"
    <3>1. /\ ~ In(fb_queue, c) /\ fb_queue' = Append(fb_queue, c) /\ fb_inside' = fb_inside
          /\ printf_queue' = printf_queue /\ printf_inside' = printf_inside
      BY <1>3, <2>2
    <3>2. Fifo(Append(fb_queue, c), fb_inside) /\ \A d : In(Append(fb_queue, c), d) => d = c \/ In(fb_queue, d)
      BY <1>4, <2>1, <3>1
    <3> QED
      BY <2>1, <2>2, <3>1, <3>2
  <2>3. CASE x[2] = "printf"
    <3>1. /\ ~ In(printf_queue, c) /\ printf_queue' = Append(printf_queue, c) /\ printf_inside' = printf_inside
          /\ fb_queue' = fb_queue /\ fb_inside' = fb_inside
      BY <1>3, <2>3
    <3>2. /\ Fifo(Append(printf_queue, c), printf_inside)
          /\ \A d : In(Append(printf_queue, c), d) => d = c \/ In(printf_queue, d)
      BY <1>4, <2>1, <3>1
    <3> QED
      BY <2>1, <2>3, <3>1, <3>2
  <2> QED
    BY <1>3, <2>2, <2>3
<1>6. Types'
  BY <1>2, <1>5, Diverts DEF GoOn, Types, Fifo
<1>7. ASSUME NEW s, NEW n, Proper(s), Allowed(cpus, s, x), Agrees(c, s), n = After(s, x)
      PROVE  Agrees(c, n)' /\ \A d \in CPUs \ {c} : \A t : Agrees(d, t) => Agrees(d, t)'
  <2>1. /\ x[2] = "fb" => x = <<"join", "fb">> /\ n.fb = "waits" /\ n.printf = s.printf
        /\ x[2] = "printf" => x = <<"join", "printf">> /\ n.printf = "waits" /\ n.fb = s.fb
        /\ n.colour = s.colour /\ n.life = s.life
    <3>1. prog[c] \in Seq(Instruction)
      BY DEF Typed, Rest
    <3>2. x \in Operations \X Operands
      BY <1>1, <3>1 DEF Instruction
    <3>3. x = <<x[1], x[2]>>
      BY <3>2
    <3> QED
      BY <1>1, <1>7, <3>3 DEF After, FbAfter, PrintfAfter, ColourAfter, LifeAfter
  <2>2. Agrees(c, n)'
    BY <1>2, <1>3, <1>5, <1>7, <2>1 DEF Agrees, In, fb!Queued, printf!Queued
  <2>3. ASSUME NEW d \in CPUs \ {c}, NEW t, Agrees(d, t) PROVE Agrees(d, t)'
    BY <1>2, <1>3, <1>5, <2>3 DEF Agrees, In, fb!Queued, printf!Queued
  <2> QED
    BY <2>2, <2>3
<1>8. Typed'
  BY <1>1, <1>2, <1>7, GoesOn
<1>9. Looping'
  BY <1>2, GoOnLooping DEF Join
<1>10. Pending' /\ PreparedColourKept'
  BY <1>2, Diverts DEF GoOn, Pending, PreparedColourKept
<1> QED
  BY <1>6, <1>8, <1>9, <1>10

(* Who is the head of an idle lock's queue goes in.                        *)
LEMMA EnterKept ==
  ASSUME IInv, NEW c \in CPUs, Enter(c)
  PROVE  IInv'
<1> USE DEF IInv
<1> DEFINE x == Head(prog[c])
<1>1. prog[c] # <<>> /\ x[1] = "enter" /\ Operand(c) = x[2]
  BY AtOperation DEF Enter, Operand
<1>2. /\ GoOn(c) /\ interrupts' = interrupts /\ counted' = counted /\ last' = last /\ fb_color' = fb_color
      /\ is_smp_init' = is_smp_init /\ halt_pending' = halt_pending
      /\ fb_queue' = fb_queue /\ printf_queue' = printf_queue
  BY DEF Enter, screen, cpu, fb!Enter, printf!Enter, fb_lock, printf_lock
<1>3. \/ /\ x[2] = "fb" /\ fb_queue # <<>> /\ Head(fb_queue) = c /\ fb_inside = {} /\ fb_inside' = {c}
         /\ printf_inside' = printf_inside
      \/ /\ x[2] = "printf" /\ printf_queue # <<>> /\ Head(printf_queue) = c /\ printf_inside = {}
         /\ printf_inside' = {c} /\ fb_inside' = fb_inside
  BY <1>1 DEF Enter, fb!Enter, printf!Enter, fb_lock, printf_lock
<1>4. Fifo(fb_queue', fb_inside') /\ Fifo(printf_queue', printf_inside')
  BY <1>2, <1>3 DEF Types, Fifo
<1>5. Types'
  BY <1>2, <1>4, Diverts DEF GoOn, Types
<1>6. ASSUME NEW s, NEW n, Proper(s), Allowed(cpus, s, x), Agrees(c, s), n = After(s, x)
      PROVE  Agrees(c, n)' /\ \A d \in CPUs \ {c} : \A t : Agrees(d, t) => Agrees(d, t)'
  <2>1. /\ x[2] = "fb" => s.fb = "waits" /\ n.fb = "in" /\ n.printf = s.printf
        /\ x[2] = "printf" => s.printf = "waits" /\ n.printf = "in" /\ n.fb = s.fb
        /\ n.colour = s.colour /\ n.life = s.life
    <3>1. prog[c] \in Seq(Instruction)
      BY DEF Typed, Rest
    <3>2. x \in Operations \X Operands
      BY <1>1, <3>1 DEF Instruction
    <3>3. x = <<x[1], x[2]>>
      BY <3>2
    <3>4. x = <<"enter", x[2]>>
      BY <1>1, <3>3
    <3>5. s.colour = n.colour /\ s.life = n.life /\ n.fb = FbAfter(s, x) /\ n.printf = PrintfAfter(s, x)
      BY <1>1, <1>6, <3>4 DEF After, ColourAfter, LifeAfter
    <3>6. CASE x[2] = "fb"
      BY <1>1, <1>6, <3>4, <3>5, <3>6 DEF Allowed, FbAfter, PrintfAfter
    <3>7. CASE x[2] = "printf"
      BY <1>1, <1>6, <3>4, <3>5, <3>7 DEF Allowed, FbAfter, PrintfAfter
    <3> QED
      BY <3>5, <3>6, <3>7
  <2>2. x[2] = "fb" => s.colour = "any"
    BY <1>6, <2>1 DEF Proper
  <2>3. Agrees(c, n)'
    BY <1>2, <1>3, <1>6, <2>1, <2>2 DEF Agrees, fb!Queued, printf!Queued
  <2>4. ASSUME NEW d \in CPUs \ {c}, NEW t, Agrees(d, t) PROVE Agrees(d, t)'
    BY <1>2, <1>3, <2>4 DEF Agrees, fb!Queued, printf!Queued
  <2> QED
    BY <2>3, <2>4
<1>7. Typed'
  BY <1>1, <1>2, <1>6, GoesOn
<1>8. Looping'
  BY <1>2, GoOnLooping DEF Enter
<1>9. Pending' /\ PreparedColourKept'
  BY <1>2, Diverts DEF GoOn, Pending, PreparedColourKept
<1> QED
  BY <1>5, <1>7, <1>8, <1>9

(* Who is inside leaves.                                                   *)
LEMMA LeaveKept ==
  ASSUME IInv, NEW c \in CPUs, Leave(c)
  PROVE  IInv'
<1> USE DEF IInv
<1> DEFINE x == Head(prog[c])
<1>1. prog[c] # <<>> /\ x[1] = "leave" /\ Operand(c) = x[2]
  BY AtOperation DEF Leave, Operand
<1>2. /\ GoOn(c) /\ interrupts' = interrupts /\ counted' = counted /\ last' = last /\ fb_color' = fb_color
      /\ is_smp_init' = is_smp_init /\ halt_pending' = halt_pending
  BY DEF Leave, screen, cpu
<1>3. \/ /\ x[2] = "fb" /\ c \in fb_inside /\ fb_inside' = {} /\ fb_queue' = Tail(fb_queue)
         /\ printf_queue' = printf_queue /\ printf_inside' = printf_inside
      \/ /\ x[2] = "printf" /\ c \in printf_inside /\ printf_inside' = {} /\ printf_queue' = Tail(printf_queue)
         /\ fb_queue' = fb_queue /\ fb_inside' = fb_inside
  BY <1>1 DEF Leave, fb!Leave, printf!Leave, fb_lock, printf_lock
<1>4. \A q, i : Fifo(q, i) /\ c \in i =>
        i = {c} /\ Fifo(Tail(q), {}) /\ ~ In(Tail(q), c) /\ \A d : In(Tail(q), d) => In(q, d)
  BY FifoLeaves
<1>5. /\ Fifo(fb_queue', fb_inside') /\ Fifo(printf_queue', printf_inside')
      /\ \A d \in CPUs : In(fb_queue', d) => In(fb_queue, d) /\ (x[2] = "fb" => d # c)
      /\ \A d \in CPUs : In(printf_queue', d) => In(printf_queue, d) /\ (x[2] = "printf" => d # c)
      /\ x[2] = "fb" => fb_inside = {c}
      /\ x[2] = "printf" => printf_inside = {c}
  <2>1. Fifo(fb_queue, fb_inside) /\ Fifo(printf_queue, printf_inside)
    BY DEF Types
  <2> HIDE DEF x
  <2>2. CASE x[2] = "fb"
    <3>1. /\ c \in fb_inside /\ fb_inside' = {} /\ fb_queue' = Tail(fb_queue)
          /\ printf_queue' = printf_queue /\ printf_inside' = printf_inside
      BY <1>3, <2>2
    <3>2. /\ fb_inside = {c} /\ Fifo(Tail(fb_queue), {}) /\ ~ In(Tail(fb_queue), c)
          /\ \A d : In(Tail(fb_queue), d) => In(fb_queue, d)
      BY <1>4, <2>1, <3>1
    <3> QED
      BY <2>1, <2>2, <3>1, <3>2
  <2>3. CASE x[2] = "printf"
    <3>1. /\ c \in printf_inside /\ printf_inside' = {} /\ printf_queue' = Tail(printf_queue)
          /\ fb_queue' = fb_queue /\ fb_inside' = fb_inside
      BY <1>3, <2>3
    <3>2. /\ printf_inside = {c} /\ Fifo(Tail(printf_queue), {}) /\ ~ In(Tail(printf_queue), c)
          /\ \A d : In(Tail(printf_queue), d) => In(printf_queue, d)
      BY <1>4, <2>1, <3>1
    <3> QED
      BY <2>1, <2>3, <3>1, <3>2
  <2> QED
    BY <1>3, <2>2, <2>3
<1>6. Types'
  BY <1>2, <1>5, Diverts DEF GoOn, Types
<1>7. ASSUME NEW s, NEW n, Proper(s), Allowed(cpus, s, x), Agrees(c, s), n = After(s, x)
      PROVE  Agrees(c, n)' /\ \A d \in CPUs \ {c} : \A t : Agrees(d, t) => Agrees(d, t)'
  <2>1. /\ x[2] = "fb" => n.fb = "out" /\ n.printf = s.printf
        /\ x[2] = "printf" => n.printf = "out" /\ n.fb = s.fb /\ n.colour = s.colour
        /\ n.life = s.life
    <3>1. prog[c] \in Seq(Instruction)
      BY DEF Typed, Rest
    <3>2. x \in Operations \X Operands
      BY <1>1, <3>1 DEF Instruction
    <3>3. x = <<x[1], x[2]>>
      BY <3>2
    <3> QED
      BY <1>1, <1>7, <3>3 DEF After, FbAfter, PrintfAfter, ColourAfter, LifeAfter
  <2>2. Agrees(c, n)'
    BY <1>2, <1>3, <1>5, <1>7, <2>1 DEF Agrees, In, fb!Queued, printf!Queued
  <2>3. ASSUME NEW d \in CPUs \ {c}, NEW t, Agrees(d, t) PROVE Agrees(d, t)'
    BY <1>2, <1>3, <1>5, <2>3 DEF Agrees, In, fb!Queued, printf!Queued
  <2> QED
    BY <2>2, <2>3
<1>8. Typed'
  BY <1>1, <1>2, <1>7, GoesOn
<1>9. Looping'
  BY <1>2, GoOnLooping DEF Leave
<1>10. Pending' /\ PreparedColourKept'
  BY <1>2, Diverts DEF GoOn, Pending, PreparedColourKept
<1> QED
  BY <1>6, <1>8, <1>9, <1>10

(* The colour is set by who holds its lock.                                *)
LEMMA SetColourKept ==
  ASSUME IInv, NEW c \in CPUs, SetColour(c)
  PROVE  IInv'
<1> USE DEF IInv
<1> DEFINE x == Head(prog[c])
<1>1. prog[c] # <<>> /\ x[1] = "set" /\ Operand(c) = x[2]
  BY AtOperation DEF SetColour, Operand
<1>2. /\ GoOn(c) /\ interrupts' = interrupts /\ counted' = counted /\ last' = last /\ fb_color' = x[2]
      /\ is_smp_init' = is_smp_init /\ halt_pending' = halt_pending
      /\ fb_queue' = fb_queue /\ printf_queue' = printf_queue
      /\ fb_inside' = fb_inside /\ printf_inside' = printf_inside
  BY <1>1 DEF SetColour, cpu, locks, fb_lock, printf_lock
<1>3. Types'
  BY <1>2, Diverts DEF GoOn, Types
<1>4. ASSUME NEW s, NEW n, Proper(s), Allowed(cpus, s, x), Agrees(c, s), n = After(s, x)
      PROVE  Agrees(c, n)' /\ \A d \in CPUs \ {c} : \A t : Agrees(d, t) => Agrees(d, t)'
  <2>1. s.fb = "in" /\ n.fb = "in" /\ n.printf = s.printf /\ n.colour = x[2] /\ n.life = s.life
    <3>1. \A v : x # <<"join", v>> /\ x # <<"enter", v>> /\ x # <<"leave", v>>
      BY <1>1
    <3>2. s.fb = "in"
      BY <1>1, <1>4, <3>1 DEF Allowed
    <3> QED
      BY <1>1, <1>4, <3>1, <3>2 DEF After, FbAfter, PrintfAfter, ColourAfter, LifeAfter
  <2>2. fb_inside = {c}
    BY <1>4, <2>1 DEF Agrees
  <2>3. Agrees(c, n)'
    BY <1>2, <1>4, <2>1, <2>2 DEF Agrees, fb!Queued, printf!Queued
  <2>4. ASSUME NEW d \in CPUs \ {c}, NEW t, Agrees(d, t) PROVE Agrees(d, t)'
    BY <1>2, <2>2, <2>4 DEF Agrees, fb!Queued, printf!Queued
  <2> QED
    BY <2>3, <2>4
<1>5. Typed'
  BY <1>1, <1>2, <1>4, GoesOn
<1>6. Looping'
  BY <1>2, GoOnLooping DEF SetColour
<1>7. Pending' /\ PreparedColourKept'
  BY <1>2, Diverts DEF GoOn, Pending, PreparedColourKept
<1> QED
  BY <1>3, <1>5, <1>6, <1>7

(* A character is put out by who holds the lock of printf, and a colour is *)
(* wanted by who holds the colour's lock and has set it.                   *)
LEMMA PutcharKept ==
  ASSUME IInv, NEW c \in CPUs, Putchar(c)
  PROVE  IInv'
<1> USE DEF IInv
<1> DEFINE x == Head(prog[c])
<1>1. prog[c] # <<>> /\ x[1] = "put" /\ Operand(c) = x[2]
  BY AtOperation DEF Putchar, Operand
<1>2. /\ GoOn(c) /\ interrupts' = interrupts /\ counted' = counted /\ fb_color' = fb_color
      /\ is_smp_init' = is_smp_init /\ halt_pending' = halt_pending
      /\ fb_queue' = fb_queue /\ printf_queue' = printf_queue
      /\ fb_inside' = fb_inside /\ printf_inside' = printf_inside
      /\ last'.by = c /\ last'.wanted = x[2] /\ last'.colour = fb_color
  BY <1>1 DEF Putchar, cpu, locks, fb_lock, printf_lock
<1>3. Types'
  BY <1>2, Diverts DEF GoOn, Types
<1>4. \A v : x # <<"join", v>> /\ x # <<"enter", v>> /\ x # <<"leave", v>>
  BY <1>1
<1>5. ASSUME NEW s, Proper(s), Allowed(cpus, s, x)
      PROVE  s.printf \in {"in", "one"} /\ (x[2] # "any" => s.fb = "in" /\ s.colour = x[2])
  BY <1>1, <1>4, <1>5 DEF Allowed
<1>6. ASSUME NEW s, NEW n, Proper(s), Allowed(cpus, s, x), Agrees(c, s), n = After(s, x)
      PROVE  Agrees(c, n)' /\ \A d \in CPUs \ {c} : \A t : Agrees(d, t) => Agrees(d, t)'
  <2>1. n.fb = s.fb /\ n.printf \in {"one", "two"} /\ n.colour = s.colour /\ n.life = s.life
    BY <1>1, <1>4, <1>6 DEF After, FbAfter, PrintfAfter, ColourAfter, LifeAfter
  <2>2. s.printf \in {"in", "one"} /\ printf_inside = {c}
    BY <1>5, <1>6 DEF Agrees
  <2>3. Agrees(c, n)'
    BY <1>2, <1>6, <2>1, <2>2 DEF Agrees, fb!Queued, printf!Queued
  <2>4. ASSUME NEW d \in CPUs \ {c}, NEW t, Agrees(d, t) PROVE Agrees(d, t)'
    BY <1>2, <2>2, <2>4 DEF Agrees, fb!Queued, printf!Queued
  <2> QED
    BY <2>3, <2>4
<1>7. Typed'
  BY <1>1, <1>2, <1>6, GoesOn
<1>8. Looping'
  BY <1>2, GoOnLooping DEF Putchar
<1>9. Pending'
  BY <1>2, Diverts DEF GoOn, Pending
<1>10. PreparedColourKept'
  <2>1. PICK s : Agrees(c, s) /\ Rest(cpus, prog[c], s)
    BY DEF Typed
  <2>2. x[2] # "any" => s.fb = "in" /\ s.colour = x[2]
    BY <1>1, <1>5, <2>1, RestStep
  <2>3. x[2] # "any" => fb_color = x[2]
    BY <2>1, <2>2 DEF Agrees
  <2> QED
    BY <1>2, <2>3 DEF PreparedColourKept
<1> QED
  BY <1>3, <1>7, <1>8, <1>9, <1>10

(* Instructions that change one fact about their CPU.                      *)
LEMMA PlainKept ==
  ASSUME IInv, NEW c \in CPUs,
         \/ LoadPagemap(c) \/ SetGsBase(c) \/ Sti(c) \/ Count(c) \/ Wait(c) \/ Cli(c) \/ Sleep(c)
         \/ SleepTooShort(c) \/ SayHalted(c)
  PROVE  IInv'
<1> USE DEF IInv
<1> DEFINE x == Head(prog[c])
<1>1. PICK o \in {"load_pagemap", "set_gs_base", "sti", "count", "wait", "cli", "sleep", "said"} :
        /\ At(c, o) /\ GoOn(c) /\ UNCHANGED <<locks, screen>>
        /\ interrupts' = IF o = "sti" THEN interrupts \cup {c} ELSE IF o = "cli" THEN interrupts \ {c} ELSE interrupts
        /\ counted' = IF o = "count" THEN counted \cup {c} ELSE counted
        /\ halt_pending' = halt_pending
        /\ is_smp_init' = is_smp_init \/ (is_smp_init' = TRUE /\ counted = Listed)
  BY DEF LoadPagemap, SetGsBase, Sti, Count, Wait, Cli, Sleep, SleepTooShort, SayHalted, Bystanders, cpu
<1>2. prog[c] # <<>> /\ x[1] = o
  BY <1>1, AtOperation
<1>3. o \in Operations \ {"join", "enter", "leave", "set", "put", "off"}
  BY DEF Operations
<1>4. interrupts' \ {c} \subseteq interrupts /\ counted' \ {c} \subseteq counted
  BY <1>1
<1>5. ASSUME NEW s, NEW l, Proper(s), Allowed(cpus, s, x), Agrees(c, s), l = LifeAfter(s, x)
      PROVE  /\ c \in interrupts' => l \in {"open", "counted"}
             /\ c \in counted' => l \in {"counted", "last", "sent"}
  <2>1. l = CASE o = "sti" -> "open" [] o = "count" -> "counted" [] o \in {"cli", "sleep"} -> "last"
              [] o \in {"load_pagemap", "set_gs_base", "wait", "said"} -> s.life
    BY <1>2, <1>5 DEF LifeAfter
  <2>2. \A v : x # <<"join", v>> /\ x # <<"enter", v>> /\ x # <<"leave", v>>
    BY <1>2
  <2>3. /\ o = "sti" => s.life = "boot"
        /\ o = "count" => s.life = "open"
        /\ o = "sleep" => s.life = "sent"
    BY <1>2, <1>5, <2>2 DEF Allowed
  <2> QED
    BY <1>1, <1>5, <2>1, <2>3 DEF Agrees
<1>6. Types' /\ Typed'
  BY <1>1, <1>3, <1>4, <1>5, Lockless
<1>7. Looping'
  BY <1>1, GoOnLooping
<1>8. Pending' /\ PreparedColourKept'
  BY <1>1, Diverts DEF GoOn, Pending, PreparedColourKept, screen
<1> QED
  BY <1>6, <1>7, <1>8

(* A step that sends a CPU elsewhere and touches neither the locks nor the *)
(* screen.                                                                 *)
LEMMA Diverted ==
  ASSUME Types, Typed, NEW c \in CPUs, NEW p, Divert(c, p), UNCHANGED <<locks, screen>>,
         interrupts' \ {c} \subseteq interrupts, counted' \ {c} \subseteq counted,
         \A s : Agrees(c, s) /\ Rest(cpus, prog[c], s) => \E n : Agrees(c, n)' /\ Rest(cpus, p, n)
  PROVE  Types' /\ Typed'
<1>1. Types'
  BY Diverts DEF Types, locks, fb_lock, printf_lock
<1>2. \A d \in CPUs \ {c} : \A t : Agrees(d, t) => Agrees(d, t)'
  BY Unnoticed
<1>3. machine' = machine /\ prog' = [prog EXCEPT ![c] = p] /\ DOMAIN prog = CPUs
  BY Diverts
<1>4. Typed'
  BY <1>2, <1>3, Moves
<1> QED
  BY <1>1, <1>4

(* The state of such a CPU behind the step.                                *)
LEMMA Resumes ==
  ASSUME NEW c, NEW s, NEW n, Agrees(c, s), UNCHANGED <<locks, screen>>,
         n.fb \in {s.fb, "again"}, n.printf \in {s.printf, "again"}, n.colour \in {s.colour, "any"},
         c \in interrupts' => n.life \in {"open", "counted"},
         c \in counted' => n.life \in {"counted", "last", "sent"}
  PROVE  Agrees(c, n)'
  BY DEF Agrees, locks, fb_lock, printf_lock, screen, fb!Queued, printf!Queued

(* A state without locks is known by its life.                             *)
LEMMA NothingIs ==
  ASSUME NEW s, Proper(s), Nothing(s)
  PROVE  s = St("out", "out", s.life)
  BY DEF Proper, State, Nothing, St

(* The program of a CPU that faults begins anew.                           *)
LEMMA HandlerEntered ==
  ASSUME IInv, NEW c \in CPUs, EnterHandler(c), prog[c] # Off
  PROVE  IInv'
<1> USE DEF IInv
<1>1. /\ Divert(c, ExceptionHandler) /\ UNCHANGED <<locks, screen>> /\ interrupts' = interrupts \ {c}
      /\ counted' = counted /\ halt_pending' = halt_pending /\ is_smp_init' = is_smp_init /\ last' = last
  BY DEF EnterHandler, Bystanders, cpu, screen
<1>2. ASSUME NEW s, Agrees(c, s), Rest(cpus, prog[c], s)
      PROVE  \E n : Agrees(c, n)' /\ Rest(cpus, ExceptionHandler, n)
  <2>1. PICK n : n = St("again", "again", "last")
    OBVIOUS
  <2>2. Rest(cpus, ExceptionHandler, n)
    BY <2>1, RestLast
  <2>3. Agrees(c, n)'
    <3>1. n.fb = "again" /\ n.printf = "again" /\ n.colour = "any" /\ n.life = "last"
      BY <2>1 DEF St
    <3>2. c \notin interrupts'
      BY <1>1
    <3> QED
      BY <1>1, <1>2, <3>1, <3>2, Resumes
  <2> QED
    BY <2>2, <2>3
<1>3. Types' /\ Typed'
  BY <1>1, <1>2, Diverted
<1>4. Looping'
  BY <1>1, Diverts, PlainPrograms, StartsPlain, LoopingKept
<1>5. Pending' /\ PreparedColourKept'
  BY <1>1, Diverts DEF Pending, PreparedColourKept
<1> QED
  BY <1>3, <1>4, <1>5

(* panic and the kernel's text find the CPU's record, or it faults.        *)
LEMMA GetCpuLocalKept ==
  ASSUME IInv, NEW c \in CPUs, GetCpuLocal(c)
  PROVE  IInv'
<1> USE DEF IInv
<1> DEFINE x == Head(prog[c])
<1>1. prog[c] # <<>> /\ x[1] = "get_cpu_local" /\ prog[c] # Off /\ At(c, "get_cpu_local")
  BY AtOperation DEF GetCpuLocal
<1>2. CASE GoOn(c) /\ UNCHANGED <<Bystanders, cpu, history, interrupts, halt_pending>>
  <2>1. UNCHANGED <<locks, screen>> /\ interrupts' = interrupts /\ counted' = counted
        /\ halt_pending' = halt_pending /\ is_smp_init' = is_smp_init /\ last' = last
    BY <1>2 DEF Bystanders, cpu, screen
  <2>2. ASSUME NEW s, NEW l, Agrees(c, s), l = LifeAfter(s, x)
        PROVE  /\ c \in interrupts' => l \in {"open", "counted"}
               /\ c \in counted' => l \in {"counted", "last", "sent"}
    BY <1>1, <2>1, <2>2 DEF LifeAfter, Agrees
  <2>3. "get_cpu_local" \in Operations \ {"join", "enter", "leave", "set", "put", "off"}
    BY DEF Operations
  <2>4. Types' /\ Typed'
    BY <1>1, <1>2, <2>1, <2>2, <2>3, Lockless
  <2>5. Looping'
    BY <1>1, <1>2, GoOnLooping
  <2>6. Pending' /\ PreparedColourKept'
    BY <1>2, <2>1, Diverts DEF GoOn, Pending, PreparedColourKept
  <2> QED
    BY <2>4, <2>5, <2>6
<1>3. CASE EnterHandler(c)
  BY <1>1, <1>3, HandlerEntered
<1> QED
  BY <1>2, <1>3 DEF GetCpuLocal

(* An exception.                                                           *)
LEMMA ExceptionKept ==
  ASSUME IInv, NEW c \in CPUs, Exception(c)
  PROVE  IInv'
  BY HandlerEntered DEF Exception

(* The halt interrupt is taken by CPUs without locks.                      *)
LEMMA HaltHandlerKept ==
  ASSUME IInv, NEW c \in CPUs, HaltHandler(c)
  PROVE  IInv'
<1> USE DEF IInv
<1>1. /\ Divert(c, <<>>) /\ UNCHANGED <<locks, screen>> /\ interrupts' = interrupts \ {c}
      /\ counted' = counted /\ halt_pending' = halt_pending \ {c} /\ is_smp_init' = is_smp_init /\ last' = last
      /\ c \in counted /\ c \in interrupts
  BY DEF HaltHandler, Bystanders, cpu, screen, Pending
<1>2. ASSUME NEW s, Agrees(c, s), Rest(cpus, prog[c], s)
      PROVE  s.life = "counted" /\ (prog[c] # <<>> => Proper(s)) /\ (prog[c] = <<>> => Ends(s))
  BY <1>1, <1>2, RestStep, RestNothing DEF Agrees
<1>3. ASSUME NEW s, Agrees(c, s), Rest(cpus, prog[c], s)
      PROVE  \E n : Agrees(c, n)' /\ Rest(cpus, <<>>, n)
  <2>1. PICK n : n = St("out", "out", "last")
    OBVIOUS
  <2>2. s.life = "counted" /\ Proper(s) /\ Nothing(s)
    BY <1>2, <1>3 DEF Ends, Proper
  <2>3. Rest(cpus, <<>>, n)
    <3>1. Proper(n) /\ Nothing(n) /\ n.life # "sent"
      BY <2>1, StProper DEF St, Nothing
    <3> QED
      BY <3>1, RestNothing DEF Ends
  <2>4. Agrees(c, n)'
    <3>1. n.fb = s.fb /\ n.printf = s.printf /\ n.colour = "any" /\ n.life = "last"
      BY <2>1, <2>2 DEF St, Nothing
    <3>2. c \notin interrupts'
      BY <1>1
    <3> QED
      BY <1>1, <1>3, <3>1, <3>2, Resumes
  <2> QED
    BY <2>3, <2>4
<1>4. Types' /\ Typed'
  BY <1>1, <1>3, Diverted
<1>5. prog[c] # Off
  <2>1. PICK s : Agrees(c, s) /\ Rest(cpus, prog[c], s)
    BY DEF Typed
  <2>2. s.life = "counted"
    BY <1>2, <2>1
  <2>3. St("out", "out", "boot").life = "boot"
    BY DEF St
  <2> QED
    BY <2>1, <2>2, <2>3, RestOff
<1>6. Looping'
  <2>1. Starts(cpus, OffCpus, c, <<>>)
    BY DEF Starts
  <2> QED
    BY <1>1, <1>5, <2>1, Diverts, LoopingKept
<1>7. Pending' /\ PreparedColourKept'
  BY <1>1, Diverts DEF Pending, PreparedColourKept
<1> QED
  BY <1>4, <1>6, <1>7

(* pmm_alloc and acpi_find_sdt are called without locks.                   *)
LEMMA CalledWithoutLocks ==
  ASSUME Types, Typed, NEW c \in CPUs, NEW o \in {"pmm_alloc", "acpi_find_sdt"}, At(c, o),
         NEW s, Agrees(c, s), Rest(cpus, prog[c], s)
  PROVE  /\ Proper(s) /\ Nothing(s) /\ s = St("out", "out", s.life)
         /\ s.life \in {"boot", "open", "counted", "last"}
         /\ o = "acpi_find_sdt" => s.life = "boot"
         /\ After(s, Head(prog[c])) = s
         /\ Rest(cpus, Tail(prog[c]), s)
<1> DEFINE x == Head(prog[c])
<1>1. prog[c] # <<>> /\ x[1] = o
  BY AtOperation
<1>2. Proper(s) /\ Allowed(cpus, s, x) /\ Rest(cpus, Tail(prog[c]), After(s, x)) /\ x \in Instruction
  BY <1>1, RestStep
<1>3. \A v : x # <<"join", v>> /\ x # <<"enter", v>> /\ x # <<"leave", v>>
  BY <1>1
<1>4. Nothing(s) /\ (o = "acpi_find_sdt" => s.life = "boot") /\ s.life # "sent"
  BY <1>1, <1>2, <1>3 DEF Allowed
<1>5. s.life \in {"boot", "open", "counted", "last"}
  BY <1>2, <1>4 DEF Proper, State
<1>6. s = St("out", "out", s.life)
  BY <1>2, <1>4, NothingIs
<1>7. After(s, x) = s
  <2>1. /\ FbAfter(s, x) = s.fb /\ PrintfAfter(s, x) = s.printf /\ ColourAfter(s, x) = s.colour
        /\ LifeAfter(s, x) = s.life
    BY <1>1, <1>3 DEF FbAfter, PrintfAfter, ColourAfter, LifeAfter
  <2> QED
    BY <1>2, <2>1 DEF After, Proper, State
<1> QED
  BY <1>2, <1>4, <1>5, <1>6, <1>7

(* The calls succeed.                                                      *)
LEMMA SucceedKept ==
  ASSUME IInv, NEW c \in CPUs, Succeed(c)
  PROVE  IInv'
<1> USE DEF IInv
<1>1. PICK o \in {"pmm_alloc", "acpi_find_sdt"} :
        /\ At(c, o)
        /\ Divert(c, IF o = "pmm_alloc" THEN Tail(prog[c]) ELSE Printf("any") \o Tail(prog[c]))
        /\ UNCHANGED <<locks, screen>> /\ interrupts' = interrupts
        /\ counted' = counted /\ halt_pending' = halt_pending /\ is_smp_init' = is_smp_init /\ last' = last
  BY DEF Succeed, GoOn, Bystanders, cpu, screen
<1> DEFINE q == IF o = "pmm_alloc" THEN Tail(prog[c]) ELSE Printf("any") \o Tail(prog[c])
<1>2. ASSUME NEW s, Agrees(c, s), Rest(cpus, prog[c], s)
      PROVE  \E n : Agrees(c, n)' /\ Rest(cpus, q, n)
  <2>1. /\ Rest(cpus, Tail(prog[c]), s) /\ s = St("out", "out", s.life)
        /\ o = "acpi_find_sdt" => s.life = "boot"
    BY <1>1, <1>2, CalledWithoutLocks
  <2>2. Rest(cpus, q, s)
    <3>1. CASE o = "pmm_alloc"
      BY <2>1, <3>1
    <3>2. CASE o = "acpi_find_sdt"
      <4>1. Printf("any") \in Seq(Instruction) /\ Path(cpus, Printf("any"), s, s)
        BY <2>1, <3>2, PlainPath
      <4> QED
        BY <2>1, <3>2, <4>1, RestBefore
    <3> QED
      BY <3>1, <3>2
  <2>3. Agrees(c, s)'
    BY <1>1, <1>2 DEF Agrees, locks, fb_lock, printf_lock, screen, fb!Queued, printf!Queued
  <2> QED
    BY <2>2, <2>3
<1>3. Divert(c, q)
  BY <1>1
<1>4. prog[c] \in Seq(Instruction) /\ prog[c] # <<>> /\ prog[c] # Off
  BY <1>1, AtOperation DEF Typed, Rest
<1>5. Starts(cpus, OffCpus, c, q)
  <2>1. Starts(cpus, OffCpus, c, Tail(prog[c])) /\ Tail(prog[c]) \in Seq(Instruction)
    BY <1>4, StartsTail DEF Looping
  <2>2. NoStart(Printf("any"))
    BY PlainPrograms, StartsPlain
  <2> QED
    BY <2>1, <2>2, StartsConcat
<1> HIDE DEF q
<1>6. Types' /\ Typed'
  BY <1>1, <1>2, <1>3, Diverted
<1>7. Looping'
  BY <1>3, <1>4, <1>5, Diverts, LoopingKept
<1>8. Pending' /\ PreparedColourKept'
  BY <1>1, <1>3, Diverts DEF Pending, PreparedColourKept
<1> QED
  BY <1>6, <1>7, <1>8

(* The calls fail, and their CPU panics.                                   *)
LEMMA FailKept ==
  ASSUME IInv, NEW c \in CPUs, Fail(c)
  PROVE  IInv'
<1> USE DEF IInv
<1>1. PICK o \in {"pmm_alloc", "acpi_find_sdt"} :
        /\ At(c, o)
        /\ Divert(c, IF o = "pmm_alloc" THEN Panic ELSE Warning \o Panic)
        /\ UNCHANGED <<locks, screen>> /\ interrupts' = interrupts
        /\ counted' = counted /\ halt_pending' = halt_pending /\ is_smp_init' = is_smp_init /\ last' = last
  BY DEF Fail, Bystanders, cpu, screen
<1> DEFINE q == IF o = "pmm_alloc" THEN Panic ELSE Warning \o Panic
<1>2. ASSUME NEW s, Agrees(c, s), Rest(cpus, prog[c], s)
      PROVE  \E n : Agrees(c, n)' /\ Rest(cpus, q, n)
  <2>1. /\ s = St("out", "out", s.life) /\ s.life \in {"boot", "open", "counted", "last"}
        /\ o = "acpi_find_sdt" => s.life = "boot"
    BY <1>1, <1>2, CalledWithoutLocks
  <2>2. Rest(cpus, Panic, s)
    BY <2>1, RestLast
  <2>3. Rest(cpus, q, s)
    <3>1. CASE o = "pmm_alloc"
      BY <2>2, <3>1
    <3>2. CASE o = "acpi_find_sdt"
      <4>1. Warning \in Seq(Instruction) /\ Path(cpus, Warning, s, s)
        BY <2>1, <3>2, WarningPath
      <4> QED
        BY <2>2, <3>2, <4>1, RestBefore
    <3> QED
      BY <3>1, <3>2
  <2>4. Agrees(c, s)'
    BY <1>1, <1>2 DEF Agrees, locks, fb_lock, printf_lock, screen, fb!Queued, printf!Queued
  <2> QED
    BY <2>3, <2>4
<1>3. Divert(c, q) /\ prog[c] # Off
  BY <1>1, AtOperation
<1>4. Starts(cpus, OffCpus, c, q)
  <2>1. Panic \in Seq(Plain) /\ Warning \o Panic \in Seq(Plain)
    <3>1. Panic \in Seq(Plain) /\ Warning \in Seq(Plain)
      BY PlainPrograms
    <3> QED
      BY <3>1
  <2> QED
    BY <2>1, StartsPlain
<1> HIDE DEF q
<1>5. Types' /\ Typed'
  BY <1>1, <1>2, <1>3, Diverted
<1>6. Looping'
  BY <1>3, <1>4, Diverts, LoopingKept
<1>7. Pending' /\ PreparedColourKept'
  BY <1>1, <1>3, Diverts DEF Pending, PreparedColourKept
<1> QED
  BY <1>5, <1>6, <1>7

(* panic's interrupt goes to CPUs that have been counted; before smp_init  *)
(* has ended there is none, and no pause.                                  *)
LEMMA SendHaltKept ==
  ASSUME IInv, NEW c \in CPUs, SendHalt(c)
  PROVE  IInv'
<1> USE DEF IInv
<1> DEFINE x == Head(prog[c])
<1>1. prog[c] # <<>> /\ x[1] = "send" /\ prog[c] # Off /\ At(c, "send")
  BY AtOperation DEF SendHalt
<1>2. /\ UNCHANGED <<locks, screen>> /\ interrupts' = interrupts
      /\ counted' = counted /\ is_smp_init' = is_smp_init /\ last' = last
  BY DEF SendHalt, Bystanders, cpu, screen
<1>3. CASE is_smp_init
  <2>1. GoOn(c) /\ halt_pending' = halt_pending \cup (Listed \ {c})
    BY <1>3 DEF SendHalt
  <2>2. ASSUME NEW s, NEW l, Proper(s), Allowed(cpus, s, x), Agrees(c, s), l = LifeAfter(s, x)
        PROVE  /\ c \in interrupts' => l \in {"open", "counted"}
               /\ c \in counted' => l \in {"counted", "last", "sent"}
    <3>1. l = "sent"
      BY <1>1, <2>2 DEF LifeAfter
    <3>2. \A v : x # <<"join", v>> /\ x # <<"enter", v>> /\ x # <<"leave", v>>
      BY <1>1
    <3>3. c \notin interrupts
      BY <1>1, <2>2, <3>2 DEF Allowed, Agrees
    <3> QED
      BY <1>2, <3>1, <3>3
  <2>3. "send" \in Operations \ {"join", "enter", "leave", "set", "put", "off"}
    BY DEF Operations
  <2>4. Types' /\ Typed'
    BY <1>1, <1>2, <2>1, <2>2, <2>3, Lockless
  <2>5. Looping'
    BY <1>1, <2>1, GoOnLooping
  <2>6. Pending' /\ PreparedColourKept'
    BY <1>2, <1>3, <2>1, Diverts DEF GoOn, Pending, PreparedColourKept
  <2> QED
    BY <2>4, <2>5, <2>6
<1>4. CASE ~ is_smp_init
  <2>1. Divert(c, Tail(Tail(prog[c]))) /\ halt_pending' = halt_pending
    BY <1>4 DEF SendHalt
  <2>2. ASSUME NEW s, Agrees(c, s), Rest(cpus, prog[c], s)
        PROVE  /\ Tail(prog[c]) # <<>>
               /\ \E n : Agrees(c, n)' /\ Rest(cpus, Tail(Tail(prog[c])), n)
    <3> DEFINE y == Head(Tail(prog[c]))
               m == After(s, x)
               n == After(m, y)
    <3>1. Proper(s) /\ Allowed(cpus, s, x) /\ Rest(cpus, Tail(prog[c]), m)
      BY <1>1, <2>2, RestStep
    <3>2. \A v : x # <<"join", v>> /\ x # <<"enter", v>> /\ x # <<"leave", v>>
      BY <1>1
    <3>3. m.fb = s.fb /\ m.printf = s.printf /\ m.colour = s.colour /\ m.life = "sent"
      BY <1>1, <3>2 DEF After, FbAfter, PrintfAfter, ColourAfter, LifeAfter
    <3> HIDE DEF m
    <3>4. Tail(prog[c]) # <<>>
      BY <3>1, <3>3, RestNothing DEF Ends
    <3>5. Allowed(cpus, m, y) /\ Rest(cpus, Tail(Tail(prog[c])), n)
      BY <3>1, <3>4, RestStep
    <3>6. y[1] = "sleep"
      BY <3>3, <3>5 DEF Allowed
    <3>7. n.fb = m.fb /\ n.printf = m.printf /\ n.colour = m.colour /\ n.life = "last"
      <4>1. \A v : y # <<"join", v>> /\ y # <<"enter", v>> /\ y # <<"leave", v>>
        <5> HIDE DEF y
        <5> QED
          BY <3>6
      <4> QED
        BY <3>6, <4>1 DEF After, FbAfter, PrintfAfter, ColourAfter, LifeAfter
    <3> HIDE DEF n
    <3>8. PICK r : r = n
      OBVIOUS
    <3>9. r.fb = s.fb /\ r.printf = s.printf /\ r.colour = s.colour /\ r.life = "last"
      BY <3>3, <3>7, <3>8
    <3>10. c \notin interrupts'
      BY <1>1, <1>2, <2>2, <3>1, <3>2 DEF Allowed, Agrees
    <3>11. Agrees(c, r)'
      BY <1>2, <2>2, <3>9, <3>10, Resumes
    <3> QED
      BY <3>4, <3>5, <3>8, <3>11
  <2>3. Types' /\ Typed'
    BY <1>2, <2>1, <2>2, Diverted
  <2>4. Looping'
    <3>1. Tail(prog[c]) # <<>> /\ prog[c] \in Seq(Instruction)
      BY <2>2 DEF Typed, Rest
    <3>2. Starts(cpus, OffCpus, c, Tail(prog[c])) /\ Tail(prog[c]) \in Seq(Instruction)
      BY <1>1, <3>1, StartsTail DEF Looping
    <3>3. Starts(cpus, OffCpus, c, Tail(Tail(prog[c])))
      BY <3>1, <3>2, StartsTail
    <3> QED
      BY <1>1, <2>1, <3>3, Diverts, LoopingKept
  <2>5. Pending' /\ PreparedColourKept'
    BY <1>2, <1>4, <2>1, Diverts DEF Pending, PreparedColourKept
  <2> QED
    BY <2>3, <2>4, <2>5
<1> QED
  BY <1>3, <1>4

(* Where the loop of smp_init stands.                                      *)
LEMMA LoopAt ==
  ASSUME IInv, NEW c \in CPUs, At(c, "start")
  PROVE  /\ c = Bsp /\ Operand(c) \in 1 .. Len(cpus) /\ cpus \in Seq(CPUs) /\ Len(cpus) \in Nat
         /\ \A i, j \in 1 .. Len(cpus) : cpus[i] = cpus[j] => i = j
         /\ \A j \in Operand(c) .. Len(cpus) : cpus[j] # Bsp => cpus[j] \in OffCpus
         /\ NoStart(Tail(prog[c])) /\ prog[c] # Off
<1> USE DEF IInv
<1> DEFINE x == Head(prog[c])
<1>1. prog[c] # <<>> /\ x[1] = "start" /\ prog[c] # Off /\ Operand(c) = x[2]
  BY AtOperation DEF Operand
<1>2. PICK s : Agrees(c, s) /\ Rest(cpus, prog[c], s)
  BY DEF Typed
<1>3. Allowed(cpus, s, x)
  BY <1>1, <1>2, RestStep
<1>4. \A v : x # <<"join", v>> /\ x # <<"enter", v>> /\ x # <<"leave", v>>
  BY <1>1
<1>5. Operand(c) \in 1 .. Len(cpus)
  BY <1>1, <1>3, <1>4 DEF Allowed, Start
<1>6. /\ cpus \in Seq(CPUs) /\ Len(cpus) \in Nat
      /\ \A i, j \in 1 .. Len(cpus) : cpus[i] = cpus[j] => i = j
  BY ConsoleAssumption DEF Types, cpus
<1>7. prog[c] \in Seq(Instruction) /\ Starts(cpus, OffCpus, c, prog[c])
  BY <1>2 DEF Rest, Looping
<1>8. NoStart(Tail(prog[c]))
  BY <1>1, <1>7, StartsTail
<1>9. 1 \in 1 .. Len(prog[c]) /\ prog[c][1] = x
  BY <1>1, <1>7
<1>10. c = Bsp /\ \A j \in Operand(c) .. Len(cpus) : cpus[j] # Bsp => cpus[j] \in OffCpus
  BY <1>1, <1>7, <1>9 DEF Starts
<1> QED
  BY <1>1, <1>5, <1>6, <1>8, <1>10

(* The state in which the bootstrap CPU is there.                          *)
LEMMA LoopState ==
  ASSUME IInv, NEW c \in CPUs, At(c, "start"), NEW s, Agrees(c, s), Rest(cpus, prog[c], s)
  PROVE  /\ s = St("out", "out", s.life) /\ Start(cpus, s, Operand(c))
         /\ Rest(cpus, Tail(prog[c]), St("out", "out", "counted"))
<1> USE DEF IInv
<1> DEFINE x == Head(prog[c])
<1>1. prog[c] # <<>> /\ x[1] = "start" /\ Operand(c) = x[2]
  BY AtOperation DEF Operand
<1>2. Proper(s) /\ Allowed(cpus, s, x) /\ Rest(cpus, Tail(prog[c]), After(s, x))
  BY <1>1, RestStep
<1>3. \A v : x # <<"join", v>> /\ x # <<"enter", v>> /\ x # <<"leave", v>>
  BY <1>1
<1>4. Start(cpus, s, Operand(c)) /\ Nothing(s)
  BY <1>1, <1>2, <1>3 DEF Allowed, Start
<1>5. s = St("out", "out", s.life) /\ s.colour = "any"
  BY <1>2, <1>4, NothingIs DEF Proper, Nothing
<1>6. After(s, x) = St("out", "out", "counted")
  BY <1>1, <1>3, <1>4, <1>5 DEF After, FbAfter, PrintfAfter, ColourAfter, LifeAfter, St, Nothing
<1> QED
  BY <1>2, <1>4, <1>5, <1>6

(* The bootstrap CPU finds itself in the list.                             *)
LEMMA CallCpuInitKept ==
  ASSUME IInv, NEW c \in CPUs, CallCpuInit(c)
  PROVE  IInv'
<1> USE DEF IInv
<1> DEFINE k == Operand(c)
           loop == SmpInitLoop(k + 1)
           q == CpuInit \o loop \o Tail(prog[c])
           boot == St("out", "out", "boot")
           counting == St("out", "out", "counted")
<1>1. /\ At(c, "start") /\ cpus[k] = Bsp /\ Divert(c, q)
      /\ UNCHANGED <<locks, screen>> /\ interrupts' = interrupts
      /\ counted' = counted /\ halt_pending' = halt_pending /\ is_smp_init' = is_smp_init /\ last' = last
  BY DEF CallCpuInit, Bystanders, cpu, screen
<1>2. /\ c = Bsp /\ k \in 1 .. Len(cpus) /\ Len(cpus) \in Nat
      /\ \A i, j \in 1 .. Len(cpus) : cpus[i] = cpus[j] => i = j
      /\ \A j \in k .. Len(cpus) : cpus[j] # Bsp => cpus[j] \in OffCpus
      /\ NoStart(Tail(prog[c])) /\ prog[c] # Off
  BY <1>1, LoopAt
<1>3. \A j \in k + 1 .. Len(cpus) : cpus[j] # Bsp
  <2> SUFFICES ASSUME NEW j \in k + 1 .. Len(cpus), cpus[j] = Bsp PROVE FALSE
    OBVIOUS
  <2>1. j \in 1 .. Len(cpus) /\ j # k
    BY <1>2
  <2> QED
    BY <1>1, <1>2, <2>1
<1> HIDE DEF k
<1>4. loop \in Seq(Instruction) /\ Path(cpus, loop, counting, counting)
  <2>1. k + 1 \in 1 .. Len(cpus) + 1
    BY <1>2
  <2> QED
    BY <1>2, <1>3, <2>1, LoopPath
<1>5. CpuInit \in Seq(Instruction) /\ Path(cpus, CpuInit, boot, counting)
  BY CpuInitPath
<1> HIDE DEF loop, boot, counting
<1>6. CpuInit \o loop \in Seq(Instruction) /\ Path(cpus, CpuInit \o loop, boot, counting)
  BY <1>4, <1>5, ConcatPath, Zenon
<1>7. ASSUME NEW s, Agrees(c, s), Rest(cpus, prog[c], s)
      PROVE  \E n : Agrees(c, n)' /\ Rest(cpus, q, n)
  <2>1. s = St("out", "out", s.life) /\ Start(cpus, s, k) /\ Rest(cpus, Tail(prog[c]), counting)
    BY <1>1, <1>7, LoopState DEF k, counting
  <2>2. s.life = "boot"
    <3>1. k \in k .. Len(cpus)
      BY <1>2
    <3> QED
      BY <1>1, <2>1, <3>1 DEF Start
  <2>3. s = boot
    BY <2>1, <2>2 DEF boot
  <2>4. Rest(cpus, q, s)
    BY <1>6, <2>1, <2>3, RestBefore
  <2>5. Agrees(c, s)'
    BY <1>1, <1>7 DEF Agrees, locks, fb_lock, printf_lock, screen, fb!Queued, printf!Queued
  <2> QED
    BY <2>4, <2>5
<1>8. Starts(cpus, OffCpus, c, q)
  <2>1. Starts(cpus, OffCpus, c, loop)
    <3>1. k + 1 \in Nat /\ \A j \in k + 1 .. Len(cpus) : cpus[j] # Bsp => cpus[j] \in OffCpus
      BY <1>2, <1>3
    <3> QED
      BY <1>2, <3>1, StartsLoop DEF loop
  <2>2. NoStart(CpuInit)
    BY PlainPrograms, StartsPlain
  <2>3. Starts(cpus, OffCpus, c, CpuInit \o loop)
    BY <1>4, <2>1, <2>2, StartsConcat
  <2> QED
    BY <1>2, <1>6, <2>3, StartsConcat
<1> HIDE DEF q
<1>9. Types' /\ Typed'
  BY <1>1, <1>7, Diverted
<1>10. Looping'
  BY <1>1, <1>2, <1>8, Diverts, LoopingKept
<1>11. Pending' /\ PreparedColourKept'
  BY <1>1, Diverts DEF Pending, PreparedColourKept
<1> QED
  BY <1>9, <1>10, <1>11

(* Another CPU of the list is sent to cpu_init.                            *)
LEMMA GotoAddressKept ==
  ASSUME IInv, NEW c \in CPUs, GotoAddress(c)
  PROVE  IInv'
<1> USE DEF IInv
<1> DEFINE k == Operand(c)
           d == cpus[k]
           loop == SmpInitLoop(k + 1)
           q == loop \o Tail(prog[c])
           counting == St("out", "out", "counted")
<1>1. /\ At(c, "start") /\ d # Bsp /\ machine' = machine
      /\ prog' = [prog EXCEPT ![c] = q, ![d] = CpuInit]
      /\ UNCHANGED <<locks, screen>> /\ interrupts' = interrupts
      /\ counted' = counted /\ halt_pending' = halt_pending /\ is_smp_init' = is_smp_init /\ last' = last
  BY DEF GotoAddress, Bystanders, cpu, screen
<1>2. /\ c = Bsp /\ k \in 1 .. Len(cpus) /\ Len(cpus) \in Nat /\ cpus \in Seq(CPUs)
      /\ \A i, j \in 1 .. Len(cpus) : cpus[i] = cpus[j] => i = j
      /\ \A j \in k .. Len(cpus) : cpus[j] # Bsp => cpus[j] \in OffCpus
      /\ NoStart(Tail(prog[c])) /\ prog[c] # Off
  BY <1>1, LoopAt
<1> HIDE DEF k
<1>3. d \in CPUs /\ d # c /\ prog[d] = Off
  <2>1. k \in k .. Len(cpus)
    BY <1>2
  <2> QED
    BY <1>1, <1>2, <2>1 DEF OffCpus
<1>4. cpus' = cpus /\ Listed' = Listed /\ DOMAIN prog = CPUs
  BY <1>1 DEF cpus, Listed, Types
<1> HIDE DEF q, d
<1>5. /\ DOMAIN prog' = CPUs /\ prog'[c] = q /\ prog'[d] = CpuInit
      /\ \A e \in CPUs : e # c /\ e # d => prog'[e] = prog[e]
  BY <1>1, <1>3, <1>4
<1>6. Types'
  BY <1>1, <1>5 DEF Types, locks, fb_lock, printf_lock
<1>7. \A e \in CPUs : \A s : Agrees(e, s) => Agrees(e, s)'
  BY <1>1 DEF Agrees, locks, fb_lock, printf_lock, screen, fb!Queued, printf!Queued
<1>8. loop \in Seq(Instruction)
  <2>1. {"pmm_alloc", "start"} \subseteq Operations /\ k + 1 \in Nat
    BY <1>2 DEF Operations
  <2>2. <<"pmm_alloc", "none">> \in Instruction /\ <<"start", k + 1>> \in Instruction
    BY <2>1, Instructions
  <2> QED
    BY <2>2 DEF SmpInitLoop, Op
<1>9. ASSUME NEW s, Agrees(c, s), Rest(cpus, prog[c], s)
      PROVE  Rest(cpus, q, s)
  <2>1. s = St("out", "out", s.life) /\ Start(cpus, s, k) /\ Rest(cpus, Tail(prog[c]), counting)
    BY <1>1, <1>9, LoopState DEF k
  <2>2. \/ s.life = "boot" /\ \E j \in k + 1 .. Len(cpus) : cpus[j] = Bsp
        \/ s.life = "counted" /\ \A j \in k + 1 .. Len(cpus) : cpus[j] # Bsp
    <3>1. CASE s.life = "boot" /\ \E j \in k .. Len(cpus) : cpus[j] = Bsp
      <4>1. PICK j \in k .. Len(cpus) : cpus[j] = Bsp
        BY <3>1
      <4>2. j # k
        BY <1>1, <4>1 DEF d
      <4>3. j \in k + 1 .. Len(cpus)
        BY <1>2, <4>2
      <4> QED
        BY <3>1, <4>1, <4>3
    <3>2. CASE s.life = "counted" /\ \A j \in k .. Len(cpus) : cpus[j] # Bsp
      BY <1>2, <3>2
    <3> QED
      BY <2>1, <3>1, <3>2 DEF Start
  <2>3. Path(cpus, loop, s, counting)
    <3>1. k + 1 \in 1 .. Len(cpus) + 1
      BY <1>2
    <3> QED
      BY <1>2, <2>1, <2>2, <3>1, LoopPath
  <2> HIDE DEF loop, counting
  <2> QED
    BY <1>8, <2>1, <2>3, RestBefore DEF q
<1>10. ASSUME NEW s, Rest(cpus, prog[d], s) PROVE Rest(cpus, CpuInit, s)
  <2>1. s = St("out", "out", "boot")
    BY <1>3, <1>10, RestOff
  <2>2. CpuInit \in Seq(Instruction) /\ Path(cpus, CpuInit, s, counting)
    BY <2>1, CpuInitPath
  <2>3. Ends(counting)
    BY StProper DEF Ends, St, Nothing
  <2> QED
    BY <2>2, <2>3 DEF Rest
<1>11. Typed'
  <2>1. ASSUME NEW e \in CPUs PROVE \E s : Agrees(e, s)' /\ Rest(cpus', prog'[e], s)
    <3>1. PICK s : Agrees(e, s) /\ Rest(cpus, prog[e], s)
      BY DEF Typed
    <3>2. Agrees(e, s)'
      BY <1>7, <3>1
    <3>3. Rest(cpus, prog'[e], s)
      BY <1>5, <1>9, <1>10, <3>1
    <3> QED
      BY <1>4, <3>2, <3>3
  <2> QED
    BY <2>1 DEF Typed
<1>12. Looping'
  <2>1. /\ \A e \in OffCpus : e # d => e \in OffCpus'
        /\ \A j \in k + 1 .. Len(cpus) : cpus[j] # d /\ (cpus[j] # Bsp => cpus[j] \in OffCpus)
    <3>1. \A e \in OffCpus : e # d => e \in OffCpus'
      BY <1>2, <1>5 DEF OffCpus, Off, Op
    <3>2. ASSUME NEW j \in k + 1 .. Len(cpus) PROVE cpus[j] # d /\ (cpus[j] # Bsp => cpus[j] \in OffCpus)
      <4>1. j \in 1 .. Len(cpus) /\ j # k /\ j \in k .. Len(cpus)
        BY <1>2
      <4> QED
        BY <1>2, <4>1 DEF d
    <3> QED
      BY <3>1, <3>2
  <2>2. Starts(cpus, OffCpus', c, q)
    <3>1. k + 1 \in Nat /\ \A j \in k + 1 .. Len(cpus) : cpus[j] # Bsp => cpus[j] \in OffCpus'
      BY <1>2, <2>1
    <3>2. Starts(cpus, OffCpus', c, loop)
      BY <1>2, <3>1, StartsLoop
    <3> HIDE DEF loop
    <3> QED
      BY <1>2, <1>8, <3>2, StartsConcat DEF q
  <2>3. Starts(cpus, OffCpus', d, CpuInit)
    BY PlainPrograms, StartsPlain
  <2>4. ASSUME NEW e \in CPUs, e # c, e # d PROVE Starts(cpus, OffCpus', e, prog[e])
    <3>1. Starts(cpus, OffCpus, e, prog[e])
      BY DEF Looping
    <3> QED
      BY <1>2, <2>4, <3>1 DEF Starts
  <2>5. \A e \in CPUs : Starts(cpus', OffCpus', e, prog'[e])
    BY <1>4, <1>5, <2>2, <2>3, <2>4
  <2> QED
    BY <2>5 DEF Looping
<1>13. Pending' /\ PreparedColourKept'
  BY <1>1, <1>4 DEF Pending, PreparedColourKept
<1> QED
  BY <1>6, <1>11, <1>12, <1>13

-----------------------------------------------------------------------------
(* The theorems.                                                           *)

(* kmain starts the CPUs of the list from its first on.                    *)
LEMMA KmainStarts ==
  ASSUME NEW off, \A j \in 1 .. Len(cpus) : cpus[j] # Bsp => cpus[j] \in off
  PROVE  Starts(cpus, off, Bsp, Kmain)
<1> DEFINE before == Op("pmm_alloc") \o Printf("any") \o Op("load_pagemap") \o Printf("any") \o Op("acpi_find_sdt")
           loop == SmpInitLoop(1)
           wait == Op("wait")
<1>1. \A o \in {"pmm_alloc", "load_pagemap", "acpi_find_sdt", "wait"} : Op(o) \in Seq(Plain)
  <2>1. \A o \in {"pmm_alloc", "load_pagemap", "acpi_find_sdt", "wait"} : <<o, "none">> \in Plain
    BY Instructions DEF Operations, Plain
  <2> QED
    BY <2>1 DEF Op
<1>2. before \in Seq(Plain) /\ wait \in Seq(Plain) /\ Panic \in Seq(Plain)
  BY <1>1, PlainPrograms
<1>3. loop \in Seq(Instruction)
  <2>1. {"pmm_alloc", "start"} \subseteq Operations /\ 1 \in Nat
    BY DEF Operations
  <2>2. <<"pmm_alloc", "none">> \in Instruction /\ <<"start", 1>> \in Instruction
    BY <2>1, Instructions
  <2> QED
    BY <2>2 DEF SmpInitLoop, Op
<1>4. Starts(cpus, off, Bsp, loop)
  BY StartsLoop
<1> HIDE DEF before, loop, wait
<1>5. NoStart(before) /\ NoStart(wait) /\ NoStart(Panic)
  BY <1>2, StartsPlain
<1>6. Starts(cpus, off, Bsp, before \o loop) /\ before \o loop \in Seq(Instruction)
  BY <1>3, <1>4, <1>5, StartsConcat DEF NoStart
<1>7. Starts(cpus, off, Bsp, before \o loop \o wait) /\ before \o loop \o wait \in Seq(Instruction)
  <2>1. Starts(cpus, off, Bsp, before \o loop \o wait)
    BY <1>5, <1>6, StartsConcat
  <2>2. wait \in Seq(Instruction)
    BY <1>5 DEF NoStart
  <2> QED
    BY <1>6, <2>1, <2>2
<1>8. Starts(cpus, off, Bsp, before \o loop \o wait \o Panic)
  BY <1>5, <1>7, StartsConcat
<1> QED
  BY <1>8 DEF Kmain, before, loop, wait

(* A CPU that has not been started stays so.                               *)
LEMMA OffPath ==
  ASSUME NEW list
  PROVE  Rest(list, Off, St("out", "out", "boot"))
<1> DEFINE boot == St("out", "out", "boot")
<1>1. Proper(boot) /\ Ends(boot)
  BY StProper DEF Ends, St, Nothing
<1>2. "off" \in Operations \ {"join", "enter", "leave", "set", "put"}
  BY DEF Operations
<1>3. After(boot, <<"off", "none">>) = boot
  <2>1. LifeAfter(boot, <<"off", "none">>) = "boot"
    BY DEF LifeAfter, St
  <2> QED
    BY <1>2, <2>1, StAfter DEF St
<1>4. Allowed(list, boot, <<"off", "none">>)
  BY DEF Allowed, St, Nothing
<1> HIDE DEF boot
<1>5. Op("off") \in Seq(Instruction) /\ Path(list, Op("off"), boot, boot)
  BY <1>1, <1>2, <1>3, <1>4, OpPath
<1> QED
  BY <1>1, <1>5 DEF Rest, Off, boot

(* The invariant holds where the model starts.                             *)
LEMMA InitIInv == Init => IInv
<1> SUFFICES ASSUME Init PROVE IInv
  OBVIOUS
<1>1. /\ machine \in Machines /\ cpus \in Seq(CPUs) /\ Bsp \in CPUs /\ DOMAIN prog = CPUs
      /\ prog[Bsp] = Kmain /\ \A c \in CPUs : c # Bsp => prog[c] = Off
  BY ConsoleAssumption DEF Init, ListedBy, cpus
<1>2. fb_queue = <<>> /\ fb_inside = {} /\ printf_queue = <<>> /\ printf_inside = {}
  BY DEF Init, fb!Init, printf!Init
<1>3. Types
  <2>1. <<>> \in Seq(CPUs) /\ Len(<<>>) = 0
    OBVIOUS
  <2> QED
    BY <1>1, <1>2, <2>1 DEF Types, Fifo
<1>4. Typed
  <2> SUFFICES ASSUME NEW c \in CPUs PROVE \E s : Agrees(c, s) /\ Rest(cpus, prog[c], s)
    BY DEF Typed
  <2>1. PICK s : s = St("out", "out", "boot")
    OBVIOUS
  <2>2. Agrees(c, s)
    <3>1. s.fb = "out" /\ s.printf = "out" /\ c \notin interrupts /\ c \notin counted
      BY <2>1 DEF St, Init
    <3>2. ~ fb!Queued(c) /\ ~ printf!Queued(c)
      BY <1>2 DEF fb!Queued, printf!Queued
    <3> QED
      BY <3>1, <3>2 DEF Agrees
  <2>3. CASE c = Bsp
    <3>1. Kmain \in Seq(Instruction) /\ Path(cpus, Kmain, s, St("out", "out", "last"))
      BY <1>1, <2>1, KmainPath
    <3>2. Ends(St("out", "out", "last"))
      BY StProper DEF Ends, St, Nothing
    <3> QED
      BY <1>1, <2>2, <2>3, <3>1, <3>2 DEF Rest
  <2>4. CASE c # Bsp
    BY <1>1, <2>1, <2>2, <2>4, OffPath
  <2> QED
    BY <2>3, <2>4
<1>5. Looping
  <2>1. Starts(cpus, OffCpus, Bsp, Kmain)
    BY <1>1, KmainStarts DEF OffCpus
  <2>2. ASSUME NEW c PROVE Starts(cpus, OffCpus, c, Off)
    <3>1. Len(Off) = 1 /\ Off[1][1] = "off"
      BY DEF Off, Op
    <3> QED
      BY <3>1 DEF Starts
  <2> QED
    BY <1>1, <2>1, <2>2 DEF Looping
<1>6. Pending /\ PreparedColourKept
  BY DEF Init, Pending, PreparedColourKept
<1> QED
  BY <1>3, <1>4, <1>5, <1>6 DEF IInv

(* Every step keeps the invariant.                                         *)
LEMMA NextIInv == IInv /\ [Next]_vars => IInv'
<1> SUFFICES ASSUME IInv, [Next]_vars PROVE IInv'
  OBVIOUS
<1>1. CASE UNCHANGED vars
  <2>1. /\ machine' = machine /\ prog' = prog /\ UNCHANGED <<locks, screen>>
        /\ interrupts' = interrupts /\ counted' = counted /\ halt_pending' = halt_pending
        /\ is_smp_init' = is_smp_init /\ last' = last
    BY <1>1 DEF vars, cpu, screen
  <2>2. cpus' = cpus /\ Listed' = Listed /\ OffCpus' = OffCpus
    BY <2>1 DEF cpus, Listed, OffCpus, Off, Op
  <2>3. \A c : \A s : Agrees(c, s) => Agrees(c, s)'
    BY <2>1 DEF Agrees, locks, fb_lock, printf_lock, screen, fb!Queued, printf!Queued
  <2>4. Types'
    BY <2>1 DEF IInv, Types, locks, fb_lock, printf_lock
  <2>5. Typed'
    BY <2>1, <2>2, <2>3 DEF IInv, Typed
  <2>6. Looping'
    BY <2>1, <2>2 DEF IInv, Looping
  <2>7. Pending' /\ PreparedColourKept'
    BY <2>1, <2>2 DEF IInv, Pending, PreparedColourKept
  <2> QED
    BY <2>4, <2>5, <2>6, <2>7 DEF IInv
<1>2. CASE Next
  <2>1. PICK c \in CPUs : Step(c) \/ HaltHandler(c) \/ Exception(c) \/ SleepTooShort(c)
    BY <1>2 DEF Next
  <2>2. CASE Join(c) \/ Enter(c) \/ Leave(c)
    BY <2>2, JoinKept, EnterKept, LeaveKept
  <2>3. CASE SetColour(c) \/ Putchar(c)
    BY <2>3, SetColourKept, PutcharKept
  <2>4. CASE \/ LoadPagemap(c) \/ SetGsBase(c) \/ Sti(c) \/ Count(c) \/ Wait(c) \/ Cli(c) \/ Sleep(c)
             \/ SleepTooShort(c) \/ SayHalted(c)
    BY <2>4, PlainKept
  <2>5. CASE CallCpuInit(c) \/ GotoAddress(c)
    BY <2>5, CallCpuInitKept, GotoAddressKept
  <2>6. CASE Succeed(c) \/ Fail(c)
    BY <2>6, SucceedKept, FailKept
  <2>7. CASE SendHalt(c) \/ GetCpuLocal(c) \/ HaltHandler(c) \/ Exception(c)
    BY <2>7, SendHaltKept, GetCpuLocalKept, HaltHandlerKept, ExceptionKept
  <2> QED
    BY <2>1, <2>2, <2>3, <2>4, <2>5, <2>6, <2>7 DEF Step
<1> QED
  BY <1>1, <1>2

(* At every time each CPU's program fits the locks, the screen and the     *)
(* interrupts as they are.                                                 *)
THEOREM ConsoleInvariant == Spec => []IInv
<1>1. Init => IInv
  BY InitIInv
<1>2. IInv /\ [Next]_vars => IInv'
  BY NextIInv
<1> QED
  BY <1>1, <1>2, PTL DEF Spec

(* The characters of one call of printf follow each other, whatever the    *)
(* other CPUs do and wherever they are stopped.                            *)
THEOREM ConsoleTextUnbroken == Spec => []TextUnbroken
<1>1. IInv => TextUnbroken
  <2> SUFFICES ASSUME IInv, NEW c \in CPUs, BetweenCharacters(c) PROVE last.by = c
    BY DEF TextUnbroken
  <2> DEFINE x == Head(prog[c])
  <2>1. PICK s : Agrees(c, s) /\ Rest(cpus, prog[c], s)
    BY DEF IInv, Typed
  <2>2. prog[c] # <<>> /\ prog[c] \in Seq(Instruction)
    BY <2>1 DEF BetweenCharacters, Rest
  <2>3. Proper(s) /\ Allowed(cpus, s, x) /\ Rest(cpus, Tail(prog[c]), After(s, x))
    BY <2>1, <2>2, RestStep
  <2>4. CASE x = <<"leave", "printf">>
    BY <2>1, <2>3, <2>4 DEF Allowed, Agrees
  <2>5. CASE x[1] = "put" /\ prog[c][2] = <<"leave", "printf">>
    <3> DEFINE n == After(s, x)
    <3>1. \A v : x # <<"join", v>> /\ x # <<"enter", v>> /\ x # <<"leave", v>>
      BY <2>5
    <3>2. s.printf \in {"in", "one"} /\ n.printf = IF s.printf = "in" THEN "one" ELSE "two"
      BY <2>3, <2>5, <3>1 DEF Allowed, After, PrintfAfter
    <3> HIDE DEF n
    <3>3. Tail(prog[c]) # <<>>
      BY <2>3, <3>2, RestNothing DEF n, Ends, Nothing
    <3>4. Head(Tail(prog[c])) = <<"leave", "printf">>
      BY <2>2, <2>5, <3>3
    <3>5. Allowed(cpus, n, <<"leave", "printf">>)
      BY <2>3, <3>3, <3>4, RestStep DEF n
    <3>6. s.printf = "one"
      BY <3>2, <3>5 DEF Allowed
    <3> QED
      BY <2>1, <3>6 DEF Agrees
  <2> QED
    BY <2>4, <2>5 DEF BetweenCharacters, At
<1> QED
  BY <1>1, ConsoleInvariant, PTL

(* Text between fb_prepare_color and fb_reset_color comes out in its       *)
(* colour.                                                                 *)
THEOREM ConsolePreparedColourKept == Spec => []PreparedColourKept
<1>1. IInv => PreparedColourKept
  BY DEF IInv
<1> QED
  BY <1>1, ConsoleInvariant, PTL

(* A CPU that has stopped for good has no ticket of either lock.           *)
THEOREM ConsoleHaltedHoldNothing == Spec => []HaltedHoldNothing
<1>1. IInv => HaltedHoldNothing
  <2> SUFFICES ASSUME IInv, NEW c \in CPUs, prog[c] = <<>> PROVE ~ Holds(c)
    BY DEF HaltedHoldNothing
  <2>1. PICK s : Agrees(c, s) /\ Rest(cpus, <<>>, s)
    BY DEF IInv, Typed
  <2>2. s.fb = "out" /\ s.printf = "out"
    BY <2>1, RestNothing DEF Ends, Nothing
  <2> QED
    BY <2>1, <2>2 DEF Agrees, Holds
<1> QED
  BY <1>1, ConsoleInvariant, PTL

-----------------------------------------------------------------------------
(* "All CPUs halted."                                                      *)

(* The operations that a program still has to execute.                     *)
OpsOf(p) == {p[k][1] : k \in 1 .. Len(p)}

(* No instruction of a program is followed by one it must not precede.     *)
Ordered(before, p) ==
  \A j, k \in 1 .. Len(p) : j < k => <<p[j][1], p[k][1]>> \notin before

Ending == {"cli", "send", "sleep", "get_cpu_local", "said"}

Starting == {"load_pagemap", "pmm_alloc", "set_gs_base", "join", "enter", "set", "put", "leave", "sti", "count"}

(* On the bootstrap CPU smp_init is over before the panic begins, its own  *)
(* record is in place before it goes on from its entry of the list, and    *)
(* the message ends the program; elsewhere the count ends it.              *)
BspNever ==
  ({"count", "start"} \X {"set_gs_base"}) \cup (Ending \X {"wait"}) \cup ({"said"} \X Operations)

ApNever == {"count"} \X Operations

ApQuiet(c) ==
  /\ OpsOf(prog[c]) \subseteq Starting \cup {"off"}
  /\ Ordered(ApNever, prog[c])
  /\ c \in counted => prog[c] = <<>>
  /\ c \notin Listed => prog[c] = Off

BspQuiet ==
  /\ Ordered(BspNever, prog[Bsp])
  /\ Bsp \in counted \/ ("count" \in OpsOf(prog[Bsp]) /\ "set_gs_base" \notin OpsOf(prog[Bsp]))
       => Bsp \in has_cpu_local
  /\ "wait" \notin OpsOf(prog[Bsp]) => Listed \subseteq counted
  /\ Bsp \in said => prog[Bsp] = <<>>

Quiet ==
  /\ \A c \in CPUs \ {Bsp} : ApQuiet(c)
  /\ BspQuiet
  /\ halt_pending \subseteq Listed \ {Bsp}
  /\ said \subseteq {Bsp}

(* While nothing fails.                                                    *)
EndInv == troubles \in Nat /\ (troubles = 0 => Quiet)

-----------------------------------------------------------------------------
(* A program and its operations.                                           *)

LEMMA OpsOfTail ==
  ASSUME NEW p \in Seq(Instruction), p # <<>>
  PROVE  /\ Tail(p) \in Seq(Instruction)
         /\ OpsOf(p) = {Head(p)[1]} \cup OpsOf(Tail(p))
<1>1. /\ Tail(p) \in Seq(Instruction) /\ Len(Tail(p)) = Len(p) - 1 /\ Len(p) \in Nat /\ Len(p) > 0
      /\ Head(p) = p[1] /\ \A k \in 1 .. Len(p) - 1 : Tail(p)[k] = p[k + 1]
  OBVIOUS
<1>2. ASSUME NEW o \in OpsOf(p) PROVE o \in {Head(p)[1]} \cup OpsOf(Tail(p))
  <2>1. PICK k \in 1 .. Len(p) : o = p[k][1]
    BY <1>2 DEF OpsOf
  <2>2. CASE k = 1
    BY <1>1, <2>1, <2>2
  <2>3. CASE k # 1
    <3>1. k - 1 \in 1 .. Len(p) - 1 /\ p[(k - 1) + 1] = p[k]
      BY <1>1, <2>3
    <3>2. Tail(p)[k - 1] = p[k]
      BY <1>1, <3>1
    <3> QED
      BY <1>1, <2>1, <3>1, <3>2 DEF OpsOf
  <2> QED
    BY <2>2, <2>3
<1>3. ASSUME NEW o \in OpsOf(Tail(p)) PROVE o \in OpsOf(p)
  <2>1. PICK k \in 1 .. Len(p) - 1 : o = Tail(p)[k][1]
    BY <1>1, <1>3 DEF OpsOf
  <2>2. k + 1 \in 1 .. Len(p) /\ o = p[k + 1][1]
    BY <1>1, <2>1
  <2> QED
    BY <2>2 DEF OpsOf
<1>4. Head(p)[1] \in OpsOf(p)
  BY <1>1 DEF OpsOf
<1> QED
  BY <1>1, <1>2, <1>3, <1>4

(* What is left of an ordered program is ordered, and may follow the first. *)
LEMMA OrderedTail ==
  ASSUME NEW p \in Seq(Instruction), p # <<>>, NEW before, Ordered(before, p)
  PROVE  /\ Ordered(before, Tail(p))
         /\ \A o \in OpsOf(Tail(p)) : <<Head(p)[1], o>> \notin before
<1>1. /\ Len(Tail(p)) = Len(p) - 1 /\ Len(p) \in Nat /\ Len(p) > 0
      /\ Head(p) = p[1] /\ \A k \in 1 .. Len(p) - 1 : Tail(p)[k] = p[k + 1]
  OBVIOUS
<1>2. ASSUME NEW j \in 1 .. Len(p) - 1, NEW k \in 1 .. Len(p) - 1, j < k
      PROVE  <<Tail(p)[j][1], Tail(p)[k][1]>> \notin before
  <2>1. j + 1 \in 1 .. Len(p) /\ k + 1 \in 1 .. Len(p) /\ j + 1 < k + 1
    BY <1>1, <1>2
  <2>2. <<p[j + 1][1], p[k + 1][1]>> \notin before
    BY <2>1 DEF Ordered
  <2> QED
    BY <1>1, <2>2
<1>3. ASSUME NEW o \in OpsOf(Tail(p)) PROVE <<Head(p)[1], o>> \notin before
  <2>1. PICK k \in 1 .. Len(p) - 1 : o = Tail(p)[k][1]
    BY <1>1, <1>3 DEF OpsOf
  <2>2. 1 \in 1 .. Len(p) /\ k + 1 \in 1 .. Len(p) /\ 1 < k + 1 /\ o = p[k + 1][1]
    BY <1>1, <2>1
  <2>3. <<p[1][1], p[k + 1][1]>> \notin before
    BY <2>2 DEF Ordered
  <2> QED
    BY <1>1, <2>2, <2>3
<1> QED
  BY <1>1, <1>2, <1>3 DEF Ordered

(* Two programs, one after the other.                                       *)
LEMMA OpsOfConcat ==
  ASSUME NEW p \in Seq(Instruction), NEW q \in Seq(Instruction)
  PROVE  p \o q \in Seq(Instruction) /\ OpsOf(p \o q) = OpsOf(p) \cup OpsOf(q)
<1>1. /\ p \o q \in Seq(Instruction) /\ Len(p \o q) = Len(p) + Len(q) /\ Len(p) \in Nat /\ Len(q) \in Nat
      /\ \A k \in 1 .. Len(p) + Len(q) : (p \o q)[k] = IF k <= Len(p) THEN p[k] ELSE q[k - Len(p)]
  OBVIOUS
<1>2. ASSUME NEW o \in OpsOf(p \o q) PROVE o \in OpsOf(p) \cup OpsOf(q)
  <2>1. PICK k \in 1 .. Len(p) + Len(q) : o = (p \o q)[k][1]
    BY <1>1, <1>2 DEF OpsOf
  <2>2. CASE k <= Len(p)
    BY <1>1, <2>1, <2>2 DEF OpsOf
  <2>3. CASE ~ (k <= Len(p))
    <3>1. k - Len(p) \in 1 .. Len(q) /\ o = q[k - Len(p)][1]
      BY <1>1, <2>1, <2>3
    <3> QED
      BY <3>1 DEF OpsOf
  <2> QED
    BY <2>2, <2>3
<1>3. ASSUME NEW o \in OpsOf(p) PROVE o \in OpsOf(p \o q)
  <2>1. PICK k \in 1 .. Len(p) : o = p[k][1]
    BY <1>3 DEF OpsOf
  <2>2. k \in 1 .. Len(p) + Len(q) /\ o = (p \o q)[k][1]
    BY <1>1, <2>1
  <2> QED
    BY <1>1, <2>2 DEF OpsOf
<1>4. ASSUME NEW o \in OpsOf(q) PROVE o \in OpsOf(p \o q)
  <2>1. PICK k \in 1 .. Len(q) : o = q[k][1]
    BY <1>4 DEF OpsOf
  <2>2. Len(p) + k \in 1 .. Len(p) + Len(q) /\ ~ (Len(p) + k <= Len(p)) /\ (Len(p) + k) - Len(p) = k
    BY <1>1, <2>1
  <2>3. o = (p \o q)[Len(p) + k][1]
    BY <1>1, <2>1, <2>2
  <2> QED
    BY <1>1, <2>2, <2>3 DEF OpsOf
<1> QED
  BY <1>1, <1>2, <1>3, <1>4

(* They are ordered if the second may follow the first.                     *)
LEMMA OrderedConcat ==
  ASSUME NEW p \in Seq(Instruction), NEW q \in Seq(Instruction), NEW before,
         Ordered(before, p), Ordered(before, q),
         \A x \in OpsOf(p), y \in OpsOf(q) : <<x, y>> \notin before
  PROVE  Ordered(before, p \o q)
<1>1. /\ Len(p \o q) = Len(p) + Len(q) /\ Len(p) \in Nat /\ Len(q) \in Nat
      /\ \A k \in 1 .. Len(p) + Len(q) : (p \o q)[k] = IF k <= Len(p) THEN p[k] ELSE q[k - Len(p)]
  OBVIOUS
<1> SUFFICES ASSUME NEW j \in 1 .. Len(p) + Len(q), NEW k \in 1 .. Len(p) + Len(q), j < k
             PROVE  <<(p \o q)[j][1], (p \o q)[k][1]>> \notin before
  BY <1>1 DEF Ordered
<1>2. CASE k <= Len(p)
  <2>1. j \in 1 .. Len(p) /\ k \in 1 .. Len(p) /\ (p \o q)[j] = p[j] /\ (p \o q)[k] = p[k]
    BY <1>1, <1>2
  <2> QED
    BY <2>1 DEF Ordered
<1>3. CASE ~ (k <= Len(p)) /\ j <= Len(p)
  <2>1. j \in 1 .. Len(p) /\ k - Len(p) \in 1 .. Len(q) /\ (p \o q)[j] = p[j] /\ (p \o q)[k] = q[k - Len(p)]
    BY <1>1, <1>3
  <2>2. p[j][1] \in OpsOf(p) /\ q[k - Len(p)][1] \in OpsOf(q)
    BY <2>1 DEF OpsOf
  <2> QED
    BY <2>1, <2>2
<1>4. CASE ~ (k <= Len(p)) /\ ~ (j <= Len(p))
  <2>1. /\ j - Len(p) \in 1 .. Len(q) /\ k - Len(p) \in 1 .. Len(q) /\ j - Len(p) < k - Len(p)
        /\ (p \o q)[j] = q[j - Len(p)] /\ (p \o q)[k] = q[k - Len(p)]
    BY <1>1, <1>4
  <2> QED
    BY <2>1 DEF Ordered
<1> QED
  BY <1>2, <1>3, <1>4

(* One without an operation that comes too early is in any order.          *)
LEMMA OrderedWithout ==
  ASSUME NEW p, NEW before, \A o \in OpsOf(p) : \A x : <<o, x>> \notin before
  PROVE  Ordered(before, p)
  BY DEF Ordered, OpsOf

(* Nor is one all of whose pairs of operations may follow each other.      *)
LEMMA OrderedAmong ==
  ASSUME NEW p, NEW before, NEW ops, OpsOf(p) \subseteq ops,
         \A x \in ops, y \in ops : <<x, y>> \notin before
  PROVE  Ordered(before, p)
<1> SUFFICES ASSUME NEW j \in 1 .. Len(p), NEW k \in 1 .. Len(p) PROVE <<p[j][1], p[k][1]>> \notin before
  BY DEF Ordered
<1>1. p[j][1] \in OpsOf(p) /\ p[k][1] \in OpsOf(p)
  BY DEF OpsOf
<1> QED
  BY <1>1

(* One instruction without an operand.                                      *)
LEMMA OpsOfOp ==
  ASSUME NEW o \in Operations
  PROVE  Op(o) \in Seq(Instruction) /\ OpsOf(Op(o)) = {o} /\ \A before : Ordered(before, Op(o))
<1>1. <<o, "none">> \in Instruction
  BY Instructions
<1>2. Op(o) \in Seq(Instruction) /\ Len(Op(o)) = 1 /\ Op(o)[1][1] = o
  BY <1>1 DEF Op
<1> QED
  BY <1>2 DEF OpsOf, Ordered

-----------------------------------------------------------------------------
(* The operations of the programs.                                         *)

Texts == {"join", "enter", "set", "put", "leave"}

(* p is a program of these operations.                                     *)
Made(p, operations) == p \in Seq(Instruction) /\ OpsOf(p) = operations

(* One program after another.                                               *)
LEMMA MadeConcat ==
  ASSUME NEW p, NEW q, NEW a, NEW b, Made(p, a), Made(q, b)
  PROVE  Made(p \o q, a \cup b)
  BY OpsOfConcat DEF Made

(* One instruction without an operand.                                      *)
LEMMA MadeOp ==
  ASSUME NEW o \in Operations
  PROVE  Made(Op(o), {o})
  BY OpsOfOp DEF Made

(* One and two instructions with operands.                                  *)
LEMMA MadeInstructions ==
  ASSUME NEW x \in Operations, NEW y \in Operations, NEW v \in Operands, NEW w \in Operands
  PROVE  Made(<<<<x, v>>>>, {x}) /\ Made(<<<<x, v>>, <<y, w>>>>, {x, y})
<1>1. <<x, v>> \in Instruction /\ <<y, w>> \in Instruction
  BY DEF Instruction
<1> DEFINE i == <<x, v>>  j == <<y, w>>
<1>2. i \in Instruction /\ j \in Instruction /\ i[1] = x /\ j[1] = y
  BY <1>1
<1> HIDE DEF i, j
<1>3. <<i>> \in Seq(Instruction) /\ Len(<<i>>) = 1 /\ <<i>>[1] = i
  BY <1>2
<1>4. <<i, j>> \in Seq(Instruction) /\ Len(<<i, j>>) = 2 /\ <<i, j>>[1] = i /\ <<i, j>>[2] = j
  BY <1>2
<1>5. OpsOf(<<i>>) = {x}
  BY <1>2, <1>3 DEF OpsOf
<1>6. 1 .. 2 = {1, 2}
  OBVIOUS
<1>7. OpsOf(<<i, j>>) = {x, y}
  BY <1>2, <1>4, <1>6 DEF OpsOf
<1> QED
  BY <1>3, <1>4, <1>5, <1>7 DEF Made, i, j

(* Nothing to execute.                                                      *)
LEMMA MadeNothing == Made(<<>>, {})
  BY DEF Made, OpsOf

PrintfOps == {"join", "enter"} \cup {"put", "put"} \cup {"leave"}

(* A call of printf.                                                        *)
LEMMA MadePrintf ==
  ASSUME NEW c \in Colours
  PROVE  Made(Printf(c), PrintfOps)
<1> DEFINE take == <<<<"join", "printf">>, <<"enter", "printf">>>>
           text == <<<<"put", c>>, <<"put", c>>>>
           give == <<<<"leave", "printf">>>>
<1>1. {"join", "enter", "leave", "put"} \subseteq Operations /\ "printf" \in Operands /\ c \in Operands
  BY DEF Operations, Operands
<1>2. Made(take, {"join", "enter"}) /\ Made(text, {"put", "put"}) /\ Made(give, {"leave"})
  BY <1>1, MadeInstructions
<1> HIDE DEF take, text, give
<1>3. Made(take \o text \o give, PrintfOps)
  BY <1>2, MadeConcat DEF PrintfOps
<1> QED
  BY <1>3 DEF Printf, Locked, take, text, give

ColouredOps(body) == {"join", "enter"} \cup ({"set"} \cup body \cup {"set"}) \cup {"leave"}

(* A text between fb_prepare_color and fb_reset_color.                      *)
LEMMA MadeInColour ==
  ASSUME NEW c \in Colours, NEW body, NEW b, Made(body, b)
  PROVE  Made(InColour(c, body), ColouredOps(b))
<1> DEFINE take == <<<<"join", "fb">>, <<"enter", "fb">>>>
           set == <<<<"set", c>>>>
           reset == <<<<"set", "base">>>>
           give == <<<<"leave", "fb">>>>
<1>1. {"join", "enter", "leave", "set"} \subseteq Operations /\ "fb" \in Operands /\ c \in Operands /\ "base" \in Operands
  BY DEF Operations, Operands, Colours
<1>2. Made(take, {"join", "enter"}) /\ Made(set, {"set"}) /\ Made(reset, {"set"}) /\ Made(give, {"leave"})
  BY <1>1, MadeInstructions
<1> HIDE DEF take, set, reset, give
<1>3. Made(set \o body \o reset, {"set"} \cup b \cup {"set"})
  BY <1>2, MadeConcat
<1>4. Made(take \o (set \o body \o reset) \o give, ColouredOps(b))
  BY <1>2, <1>3, MadeConcat DEF ColouredOps
<1> QED
  BY <1>4 DEF InColour, Locked, take, set, reset, give

(* What every CPU does before it is counted.                               *)
LEMMA OpsOfCpuInit ==
  /\ CpuInit \in Seq(Instruction) /\ OpsOf(CpuInit) \subseteq Starting /\ "set_gs_base" \in OpsOf(CpuInit)
  /\ Ordered(ApNever, CpuInit) /\ Ordered(BspNever, CpuInit)
<1> DEFINE load_pagemap == Op("load_pagemap")  pmm_alloc == Op("pmm_alloc")
           set_gs_base == Op("set_gs_base")  sti == Op("sti")  count == Op("count")
           text == Printf("any")
           first == load_pagemap \o pmm_alloc \o set_gs_base \o LapicInit \o sti \o text
<1>1. {"load_pagemap", "pmm_alloc", "set_gs_base", "sti", "count"} \subseteq Operations
      /\ {"any", "warn"} \subseteq Colours
  BY DEF Operations, Colours
<1>2. Made(text, PrintfOps)
  BY <1>1, MadePrintf
<1>3. PICK l : Made(LapicInit, l) /\ l \subseteq Texts
  <2>1. Made(Printf("warn"), PrintfOps)
    BY <1>1, MadePrintf
  <2>2. Made(Warning, ColouredOps(PrintfOps))
    BY <1>1, <2>1, MadeInColour DEF Warning
  <2>3. ColouredOps(PrintfOps) \subseteq Texts
    BY DEF ColouredOps, PrintfOps, Texts
  <2> QED
    BY <2>2, <2>3, MadeNothing DEF LapicInit
<1>4. /\ Made(load_pagemap, {"load_pagemap"}) /\ Made(pmm_alloc, {"pmm_alloc"})
      /\ Made(set_gs_base, {"set_gs_base"}) /\ Made(sti, {"sti"}) /\ Made(count, {"count"})
  BY <1>1, MadeOp
<1>5. Ordered(ApNever, count) /\ Ordered(BspNever, count)
  BY <1>1, OpsOfOp
<1>6. CpuInit = first \o count
  BY DEF CpuInit
<1> DEFINE f == {"load_pagemap"} \cup {"pmm_alloc"} \cup {"set_gs_base"} \cup l \cup {"sti"} \cup PrintfOps
<1> HIDE DEF load_pagemap, pmm_alloc, set_gs_base, sti, count, text
<1>7. Made(first, f)
  BY <1>2, <1>3, <1>4, MadeConcat
<1>8. f \subseteq {"load_pagemap", "pmm_alloc", "set_gs_base", "sti"} \cup Texts /\ "set_gs_base" \in f
  BY <1>3 DEF PrintfOps, Texts
<1> HIDE DEF first, f
<1>9. Made(first \o count, f \cup {"count"})
  BY <1>4, <1>7, MadeConcat
<1>10. Ordered(ApNever, first) /\ Ordered(BspNever, first)
  BY <1>7, <1>8, OrderedWithout DEF Made, ApNever, BspNever, Texts, Ending
<1>11. Ordered(ApNever, first \o count) /\ Ordered(BspNever, first \o count)
  <2>1. \A x \in f : x \notin {"count", "start"} \cup Ending
    BY <1>8 DEF Texts, Ending
  <2>2. \A x \in f : \A y : <<x, y>> \notin ApNever /\ <<x, y>> \notin BspNever
    BY <2>1 DEF ApNever, BspNever, Ending
  <2> QED
    BY <1>4, <1>5, <1>7, <1>10, <2>2, OrderedConcat DEF Made
<1>12. f \cup {"count"} \subseteq Starting
  BY <1>8 DEF Starting, Texts
<1> QED
  BY <1>6, <1>8, <1>9, <1>11, <1>12 DEF Made

(* The rest of the loop of smp_init.                                        *)
LEMMA OpsOfLoop ==
  ASSUME NEW k \in Nat
  PROVE  /\ SmpInitLoop(k) \in Seq(Instruction) /\ OpsOf(SmpInitLoop(k)) \subseteq {"pmm_alloc", "start"}
         /\ Ordered(BspNever, SmpInitLoop(k))
<1> DEFINE start == <<<<"start", k>>>>
<1>1. {"pmm_alloc", "start"} \subseteq Operations /\ k \in Operands
  BY DEF Operations, Operands
<1>2. Made(Op("pmm_alloc"), {"pmm_alloc"}) /\ Made(start, {"start"})
  BY <1>1, MadeOp, MadeInstructions
<1>3. SmpInitLoop(k) = <<>> \/ SmpInitLoop(k) = Op("pmm_alloc") \o start
  BY DEF SmpInitLoop
<1> HIDE DEF start
<1>4. Made(Op("pmm_alloc") \o start, {"pmm_alloc"} \cup {"start"})
  BY <1>2, MadeConcat
<1>5. SmpInitLoop(k) \in Seq(Instruction) /\ OpsOf(SmpInitLoop(k)) \subseteq {"pmm_alloc", "start"}
  BY <1>3, <1>4, MadeNothing DEF Made
<1>6. \A x, y \in {"pmm_alloc", "start"} : <<x, y>> \notin BspNever
  BY DEF BspNever, Ending
<1> QED
  BY <1>5, <1>6, OrderedAmong

(* panic, from its cli to "All CPUs halted."                               *)
LEMMA OpsOfPanic ==
  /\ Panic \in Seq(Instruction) /\ OpsOf(Panic) \subseteq Texts \cup Ending
  /\ Ordered(BspNever, Panic)
<1> DEFINE cli == Op("cli")  send == Op("send")  sleep == Op("sleep")  last_ == Op("said")
           get == Op("get_cpu_local")
           text == Printf("any")
           title == InColour("panic", get \o Printf("panic"))
           first == cli \o send \o sleep \o title \o text \o text \o text
<1>1. {"cli", "send", "sleep", "get_cpu_local", "said"} \subseteq Operations /\ {"any", "panic"} \subseteq Colours
  BY DEF Operations, Colours
<1>2. Made(text, PrintfOps)
  BY <1>1, MadePrintf
<1>3. /\ Made(cli, {"cli"}) /\ Made(send, {"send"}) /\ Made(sleep, {"sleep"}) /\ Made(get, {"get_cpu_local"})
      /\ Made(last_, {"said"})
  BY <1>1, MadeOp
<1>4. Ordered(BspNever, last_)
  BY <1>1, OpsOfOp
<1>5. Made(title, ColouredOps({"get_cpu_local"} \cup PrintfOps))
  <2>1. Made(Printf("panic"), PrintfOps)
    BY <1>1, MadePrintf
  <2>2. Made(get \o Printf("panic"), {"get_cpu_local"} \cup PrintfOps)
    BY <1>3, <2>1, MadeConcat
  <2> QED
    BY <1>1, <2>2, MadeInColour
<1>6. Panic = first \o last_
  BY DEF Panic
<1> HIDE DEF cli, send, sleep, last_, get, text, title
<1> DEFINE t == ColouredOps({"get_cpu_local"} \cup PrintfOps)
           f == {"cli"} \cup {"send"} \cup {"sleep"} \cup t \cup PrintfOps \cup PrintfOps \cup PrintfOps
<1>7. f \subseteq Texts \cup {"cli", "send", "sleep", "get_cpu_local"}
  BY DEF ColouredOps, PrintfOps, Texts
<1> HIDE DEF t
<1>8. Made(first, f)
  BY <1>2, <1>3, <1>5, MadeConcat DEF t
<1> HIDE DEF first, f
<1>9. Made(first \o last_, f \cup {"said"})
  BY <1>3, <1>8, MadeConcat
<1>10. \A x \in f, y \in f \cup {"said"} : <<x, y>> \notin BspNever
  BY <1>7 DEF Texts, Ending, BspNever
<1>11. Ordered(BspNever, first)
  BY <1>8, <1>10, OrderedAmong DEF Made
<1>12. Ordered(BspNever, first \o last_)
  BY <1>3, <1>4, <1>8, <1>10, <1>11, OrderedConcat DEF Made
<1>13. f \cup {"said"} \subseteq Texts \cup Ending
  BY <1>7 DEF Ending
<1> QED
  BY <1>6, <1>9, <1>12, <1>13 DEF Made

(* kmain: nothing of the panic before the end of smp_init.                 *)
LEMMA OpsOfKmain ==
  /\ Kmain \in Seq(Instruction) /\ "wait" \in OpsOf(Kmain) /\ "count" \notin OpsOf(Kmain)
  /\ Ordered(BspNever, Kmain)
<1> DEFINE pmm_alloc == Op("pmm_alloc")  load_pagemap == Op("load_pagemap")  find == Op("acpi_find_sdt")
           wait == Op("wait")
           text == Printf("any")
           loop == SmpInitLoop(1)
           first == pmm_alloc \o text \o load_pagemap \o text \o find \o loop \o wait
<1>1. {"pmm_alloc", "load_pagemap", "acpi_find_sdt", "wait"} \subseteq Operations /\ "any" \in Colours
  BY DEF Operations, Colours
<1>2. Made(text, PrintfOps)
  BY <1>1, MadePrintf
<1>3. /\ Made(pmm_alloc, {"pmm_alloc"}) /\ Made(load_pagemap, {"load_pagemap"})
      /\ Made(find, {"acpi_find_sdt"}) /\ Made(wait, {"wait"})
  BY <1>1, MadeOp
<1>4. PICK l : Made(loop, l) /\ l \subseteq {"pmm_alloc", "start"}
  BY OpsOfLoop DEF Made
<1>5. Kmain = first \o Panic
  BY DEF Kmain
<1> HIDE DEF pmm_alloc, load_pagemap, find, wait, text, loop
<1> DEFINE f == {"pmm_alloc"} \cup PrintfOps \cup {"load_pagemap"} \cup PrintfOps \cup {"acpi_find_sdt"} \cup l \cup {"wait"}
<1>6. f \subseteq {"pmm_alloc", "load_pagemap", "acpi_find_sdt", "start", "wait"} \cup Texts /\ "wait" \in f
  BY <1>4 DEF PrintfOps, Texts
<1>7. Made(first, f)
  BY <1>2, <1>3, <1>4, MadeConcat
<1> HIDE DEF first, f
<1>8. PICK p : Made(Panic, p) /\ p \subseteq Texts \cup Ending
  BY OpsOfPanic DEF Made
<1>9. Made(first \o Panic, f \cup p)
  BY <1>7, <1>8, MadeConcat
<1>10. \A x \in f, y \in f \cup p : <<x, y>> \notin BspNever
  BY <1>6, <1>8 DEF Texts, Ending, BspNever
<1>11. Ordered(BspNever, first)
  BY <1>7, <1>10, OrderedAmong DEF Made
<1>12. Ordered(BspNever, first \o Panic)
  BY <1>7, <1>8, <1>10, <1>11, OpsOfPanic, OrderedConcat DEF Made
<1>13. "count" \notin f \cup p
  BY <1>6, <1>8 DEF Texts, Ending
<1> QED
  BY <1>5, <1>6, <1>9, <1>12, <1>13 DEF Made

-----------------------------------------------------------------------------
(* While nothing fails.                                                    *)

LEMMA OpsOfOperations ==
  ASSUME NEW p \in Seq(Instruction)
  PROVE  OpsOf(p) \subseteq Operations /\ (OpsOf(p) = {} => p = <<>>)
<1>1. \A k \in 1 .. Len(p) : p[k] \in Instruction
  OBVIOUS
<1>2. OpsOf(p) \subseteq Operations
  BY <1>1 DEF OpsOf, Instruction
<1>3. ASSUME p # <<>> PROVE OpsOf(p) # {}
  <2>1. 1 \in 1 .. Len(p)
    BY <1>3
  <2> QED
    BY <2>1 DEF OpsOf
<1> QED
  BY <1>2, <1>3

(* Every CPU has a program.                                                 *)
LEMMA Programs ==
  ASSUME IInv
  PROVE  DOMAIN prog = CPUs /\ Bsp \in CPUs /\ \A c \in CPUs : prog[c] \in Seq(Instruction)
<1>1. Bsp \in CPUs
  BY ConsoleAssumption DEF IInv, Types, ListedBy
<1> QED
  BY <1>1 DEF IInv, Types, Typed, Rest

(* A CPU at an instruction: its operation, and the rest of the program.    *)
LEMMA AtProgram ==
  ASSUME IInv, NEW c \in CPUs, NEW o, At(c, o)
  PROVE  /\ prog[c] \in Seq(Instruction) /\ prog[c] # <<>> /\ Head(prog[c])[1] = o
         /\ Tail(prog[c]) \in Seq(Instruction)
         /\ OpsOf(prog[c]) = {o} \cup OpsOf(Tail(prog[c]))
         /\ o # "off" => prog[c] # Off
<1>1. prog[c] \in Seq(Instruction) /\ prog[c] # <<>> /\ Head(prog[c])[1] = o
  BY Programs DEF At
<1>2. Head(Off)[1] = "off"
  BY DEF Off, Op
<1> QED
  BY <1>1, <1>2, OpsOfTail

(* Only the bootstrap CPU starts others, waits for them, and ends.         *)
LEMMA AtBsp ==
  ASSUME IInv, Quiet, NEW c \in CPUs, NEW o, At(c, o), o \notin Starting \cup {"off"}
  PROVE  c = Bsp
  BY AtProgram DEF Quiet, ApQuiet

(* When it ends, all have been counted.                                    *)
LEMMA AllCounted ==
  ASSUME IInv, Quiet, NEW o \in Ending, At(Bsp, o)
  PROVE  Listed \subseteq counted /\ "wait" \notin OpsOf(prog[Bsp]) /\ Bsp \in counted /\ Bsp \in has_cpu_local
<1>1. Bsp \in CPUs /\ Ordered(BspNever, prog[Bsp])
  BY Programs DEF Quiet, BspQuiet
<1>2. "wait" \notin OpsOf(Tail(prog[Bsp]))
  <2>1. <<o, "wait">> \in BspNever
    BY DEF BspNever
  <2> QED
    BY <1>1, <2>1, AtProgram, OrderedTail
<1>3. o # "wait"
  BY DEF Ending
<1>4. "wait" \notin OpsOf(prog[Bsp])
  BY <1>1, <1>2, <1>3, AtProgram
<1>5. Bsp \in Listed
  BY ConsoleAssumption DEF IInv, Types, ListedBy, Listed, cpus
<1> QED
  BY <1>4, <1>5 DEF Quiet, BspQuiet

(* A step to the next instruction.                                         *)
LEMMA QuietGoesOn ==
  ASSUME IInv, Quiet, NEW c \in CPUs, NEW o, o # "start", o # "off", At(c, o), GoOn(c),
         counted \subseteq counted', counted' \ counted \subseteq IF o = "count" THEN {c} ELSE {},
         has_cpu_local \subseteq has_cpu_local', o = "set_gs_base" => c \in has_cpu_local',
         halt_pending' \ halt_pending \subseteq IF o = "send" THEN Listed \ {c} ELSE {},
         said' \ said \subseteq IF o = "said" THEN {c} ELSE {},
         o = "wait" => Listed \subseteq counted
  PROVE  Quiet'
<1> DEFINE p == prog[c]
<1>1. /\ p \in Seq(Instruction) /\ p # <<>> /\ Head(p)[1] = o /\ p # Off
      /\ Tail(p) \in Seq(Instruction) /\ OpsOf(p) = {o} \cup OpsOf(Tail(p))
  BY AtProgram
<1>2. /\ Listed' = Listed /\ DOMAIN prog = CPUs /\ prog' = [prog EXCEPT ![c] = Tail(p)]
  BY Diverts DEF IInv, GoOn
<1>3. prog'[c] = Tail(p) /\ \A d \in CPUs \ {c} : prog'[d] = prog[d]
  BY <1>2
<1>4. \A before : Ordered(before, p) =>
        Ordered(before, Tail(p)) /\ \A x \in OpsOf(Tail(p)) : <<o, x>> \notin before
  BY <1>1, OrderedTail
<1>5. OpsOf(Tail(p)) \subseteq Operations /\ (OpsOf(Tail(p)) = {} => Tail(p) = <<>>)
  BY <1>1, OpsOfOperations
<1>6. o \in {"wait", "send", "said"} => c = Bsp
  <2>1. o \in {"wait", "send", "said"} => o \notin Starting \cup {"off"}
    BY DEF Starting
  <2> QED
    BY <2>1, AtBsp
<1>7. Bsp \in CPUs
  BY Programs
<1> HIDE DEF p
<1>8. ASSUME NEW d \in CPUs \ {Bsp} PROVE ApQuiet(d)'
  <2>1. ApQuiet(d)
    BY DEF Quiet
  <2>2. CASE d # c
    BY <1>2, <1>3, <2>1, <2>2 DEF ApQuiet, Off, Op
  <2>3. CASE d = c
    <3>1. OpsOf(Tail(p)) \subseteq Starting \cup {"off"} /\ Ordered(ApNever, Tail(p))
      BY <1>1, <1>4, <2>1, <2>3 DEF ApQuiet, p
    <3>2. c \in counted' => Tail(p) = <<>>
      <4>1. c \in counted => FALSE
        BY <1>1, <2>1, <2>3 DEF ApQuiet, p
      <4>2. o = "count" => Tail(p) = <<>>
        <5>1. ASSUME o = "count", NEW x \in OpsOf(Tail(p)) PROVE FALSE
          <6>1. <<o, x>> \in ApNever
            BY <1>5, <5>1 DEF ApNever
          <6> QED
            BY <1>4, <2>1, <2>3, <5>1, <6>1 DEF ApQuiet, p
        <5> QED
          BY <1>5, <5>1
      <4> QED
        BY <4>1, <4>2
    <3>3. c \in Listed
      BY <1>1, <2>1, <2>3 DEF ApQuiet, p
    <3> QED
      BY <1>2, <1>3, <2>3, <3>1, <3>2, <3>3 DEF ApQuiet
  <2> QED
    BY <2>2, <2>3
<1>9. BspQuiet'
  <2>1. CASE c # Bsp
    <3>1. prog'[Bsp] = prog[Bsp] /\ (Bsp \in counted' => Bsp \in counted) /\ (Bsp \in said' => Bsp \in said)
      BY <1>3, <1>6, <1>7, <2>1
    <3> QED
      BY <1>2, <3>1 DEF Quiet, BspQuiet
  <2>2. CASE c = Bsp
    <3>1. Ordered(BspNever, p)
      BY <2>2 DEF Quiet, BspQuiet, p
    <3>2. Ordered(BspNever, Tail(p)) /\ \A x \in OpsOf(Tail(p)) : <<o, x>> \notin BspNever
      BY <1>4, <3>1
    <3>3. Bsp \in counted' \/ ("count" \in OpsOf(Tail(p)) /\ "set_gs_base" \notin OpsOf(Tail(p)))
            => Bsp \in has_cpu_local'
      <4>1. CASE o = "set_gs_base"
        BY <2>2, <4>1
      <4>2. CASE o = "count"
        <5>1. <<o, "set_gs_base">> \in BspNever
          BY <4>2 DEF BspNever
        <5>2. "count" \in OpsOf(p) /\ "set_gs_base" \notin OpsOf(p)
          BY <1>1, <3>2, <4>2, <5>1
        <5> QED
          BY <2>2, <5>2 DEF Quiet, BspQuiet, p
      <4>3. CASE o \notin {"set_gs_base", "count"}
        BY <1>1, <2>2, <4>3 DEF Quiet, BspQuiet, p
      <4> QED
        BY <4>1, <4>2, <4>3
    <3>4. "wait" \notin OpsOf(Tail(p)) => Listed \subseteq counted'
      BY <1>1, <2>2 DEF Quiet, BspQuiet, p
    <3>5. Bsp \in said' => Tail(p) = <<>>
      <4>1. Bsp \in said => FALSE
        BY <1>1, <2>2 DEF Quiet, BspQuiet, p
      <4>2. o = "said" => Tail(p) = <<>>
        <5>1. ASSUME o = "said", NEW x \in OpsOf(Tail(p)) PROVE FALSE
          <6>1. <<o, x>> \in BspNever
            BY <1>5, <5>1 DEF BspNever
          <6> QED
            BY <3>2, <5>1, <6>1
        <5> QED
          BY <1>5, <5>1
      <4> QED
        BY <2>2, <4>1, <4>2
    <3> QED
      BY <1>2, <1>3, <2>2, <3>2, <3>3, <3>4, <3>5 DEF BspQuiet
  <2> QED
    BY <2>1, <2>2
<1>10. halt_pending' \subseteq Listed' \ {Bsp} /\ said' \subseteq {Bsp}
  BY <1>2, <1>6 DEF Quiet
<1> QED
  BY <1>8, <1>9, <1>10 DEF Quiet

(* A program in front of what the bootstrap CPU has left.                  *)
LEMMA BspDiverted ==
  ASSUME IInv, Quiet, NEW o, At(Bsp, o), o \notin {"off", "wait", "set_gs_base"}, NEW q \in Seq(Instruction),
         prog'[Bsp] = q \o Tail(prog[Bsp]), machine' = machine, Ordered(BspNever, q),
         \A x \in OpsOf(q), y \in OpsOf(Tail(prog[Bsp])) : <<x, y>> \notin BspNever,
         "count" \in OpsOf(q) => "set_gs_base" \in OpsOf(q),
         UNCHANGED <<counted, has_cpu_local, said>>
  PROVE  BspQuiet'
<1> DEFINE p == prog[Bsp]
<1>1. /\ p \in Seq(Instruction) /\ p # <<>> /\ Head(p)[1] = o
      /\ Tail(p) \in Seq(Instruction) /\ OpsOf(p) = {o} \cup OpsOf(Tail(p))
  BY AtProgram, Programs
<1>2. Ordered(BspNever, Tail(p))
  BY <1>1, OrderedTail DEF Quiet, BspQuiet
<1>3. Ordered(BspNever, prog'[Bsp]) /\ OpsOf(prog'[Bsp]) = OpsOf(q) \cup OpsOf(Tail(p))
  <2>1. Ordered(BspNever, q \o Tail(p))
    BY <1>1, <1>2, OrderedConcat
  <2>2. OpsOf(q \o Tail(p)) = OpsOf(q) \cup OpsOf(Tail(p))
    BY <1>1, OpsOfConcat
  <2> QED
    BY <2>1, <2>2
<1>4. Listed' = Listed
  BY DEF Listed, cpus
<1>5. Bsp \notin said
  BY <1>1 DEF Quiet, BspQuiet
<1> QED
  BY <1>1, <1>3, <1>4, <1>5 DEF Quiet, BspQuiet

(* The bootstrap CPU has its own cpu_init in front of the loop.             *)
LEMMA CallCpuInitQuiet ==
  ASSUME IInv, Quiet, NEW c \in CPUs, CallCpuInit(c)
  PROVE  Quiet'
<1> DEFINE k == Operand(c)
           q == CpuInit \o SmpInitLoop(k + 1)
<1>1. c = Bsp /\ k \in Nat /\ At(c, "start")
  BY LoopAt DEF CallCpuInit
<1>2. /\ Divert(c, q \o Tail(prog[c])) /\ UNCHANGED <<counted, has_cpu_local, said, halt_pending>>
  BY DEF CallCpuInit, cpu, history
<1>3. Listed' = Listed /\ DOMAIN prog = CPUs /\ machine' = machine /\ prog' = [prog EXCEPT ![c] = q \o Tail(prog[c])]
  BY <1>2, Diverts DEF IInv
<1> DEFINE l == SmpInitLoop(k + 1)
<1>4. l \in Seq(Instruction) /\ OpsOf(l) \subseteq {"pmm_alloc", "start"} /\ Ordered(BspNever, l)
  BY <1>1, OpsOfLoop
<1> HIDE DEF l, k
<1>5. q \in Seq(Instruction) /\ OpsOf(q) = OpsOf(CpuInit) \cup OpsOf(l)
  BY <1>4, OpsOfCpuInit, OpsOfConcat DEF l
<1>6. Ordered(BspNever, q)
  <2>1. \A x \in OpsOf(CpuInit), y \in OpsOf(l) : <<x, y>> \notin BspNever
    BY <1>4, OpsOfCpuInit DEF BspNever, Starting, Ending
  <2> QED
    BY <1>4, <2>1, OpsOfCpuInit, OrderedConcat DEF l
<1>7. "set_gs_base" \notin OpsOf(Tail(prog[Bsp]))
  <2>1. <<"start", "set_gs_base">> \in BspNever
    BY DEF BspNever
  <2> QED
    BY <1>1, <2>1, AtProgram, OrderedTail DEF Quiet, BspQuiet
<1> HIDE DEF q
<1>8. \A x \in OpsOf(q), y \in OpsOf(Tail(prog[Bsp])) : <<x, y>> \notin BspNever
  <2>1. \A x \in OpsOf(q) : x \notin Ending
    BY <1>4, <1>5, OpsOfCpuInit DEF Starting, Ending
  <2> QED
    BY <1>7, <2>1 DEF BspNever, Ending
<1>9. BspQuiet'
  BY <1>1, <1>2, <1>3, <1>5, <1>6, <1>8, OpsOfCpuInit, BspDiverted
<1>10. ASSUME NEW d \in CPUs \ {Bsp} PROVE ApQuiet(d)'
  <2>1. prog'[d] = prog[d]
    BY <1>1, <1>3
  <2> QED
    BY <1>2, <1>3, <2>1 DEF Quiet, ApQuiet, Off, Op
<1> QED
  BY <1>2, <1>3, <1>9, <1>10 DEF Quiet

(* A CPU that is started has been off.                                      *)
LEMMA GotoAddressQuiet ==
  ASSUME IInv, Quiet, NEW c \in CPUs, GotoAddress(c)
  PROVE  Quiet'
<1> DEFINE k == Operand(c)
           e == cpus[k]
           q == SmpInitLoop(k + 1)
<1>1. /\ c = Bsp /\ k \in 1 .. Len(cpus) /\ At(c, "start") /\ e # Bsp /\ cpus \in Seq(CPUs) /\ Len(cpus) \in Nat
      /\ \A j \in k .. Len(cpus) : cpus[j] # Bsp => cpus[j] \in OffCpus
  BY LoopAt DEF GotoAddress
<1>2. /\ machine' = machine /\ prog' = [prog EXCEPT ![c] = q \o Tail(@), ![e] = CpuInit]
      /\ UNCHANGED <<counted, has_cpu_local, said, halt_pending>>
  BY DEF GotoAddress, cpu, history
<1> HIDE DEF k
<1>3. e \in CPUs /\ prog[e] = Off /\ e \in Listed
  <2>1. k \in k .. Len(cpus)
    BY <1>1
  <2> QED
    BY <1>1, <2>1 DEF OffCpus, Listed
<1>4. Listed' = Listed /\ DOMAIN prog = CPUs /\ Bsp \in CPUs
  BY <1>2, Programs DEF Listed, cpus
<1>5. q \in Seq(Instruction) /\ OpsOf(q) \subseteq {"pmm_alloc", "start"} /\ Ordered(BspNever, q)
  <2>1. k + 1 \in Nat
    BY <1>1
  <2> QED
    BY ONLY <2>1, OpsOfLoop
<1> HIDE DEF q, e
<1>6. prog'[Bsp] = q \o Tail(prog[Bsp]) /\ prog'[e] = CpuInit /\ \A d \in CPUs \ {Bsp, e} : prog'[d] = prog[d]
  BY <1>1, <1>2, <1>3, <1>4
<1>7. \A x \in OpsOf(q), y \in OpsOf(Tail(prog[Bsp])) : <<x, y>> \notin BspNever
  <2>1. <<"start", "set_gs_base">> \in BspNever
    BY DEF BspNever
  <2>2. "set_gs_base" \notin OpsOf(Tail(prog[Bsp]))
    BY <1>1, <2>1, AtProgram, OrderedTail DEF Quiet, BspQuiet
  <2>3. \A x \in OpsOf(q) : x \notin Ending
    BY <1>5 DEF Ending
  <2> QED
    BY <2>2, <2>3 DEF BspNever, Ending
<1>8. BspQuiet'
  <2>1. "count" \notin OpsOf(q)
    BY <1>5
  <2> QED
    BY <1>1, <1>2, <1>5, <1>6, <1>7, <2>1, BspDiverted
<1>9. ASSUME NEW d \in CPUs \ {Bsp} PROVE ApQuiet(d)'
  <2>1. ApQuiet(d)
    BY DEF Quiet
  <2>2. CASE d # e
    BY <1>2, <1>4, <1>6, <2>1, <2>2 DEF ApQuiet, Off, Op
  <2>3. CASE d = e
    <3>1. Off # <<>>
      BY DEF Off, Op
    <3>2. e \notin counted
      BY <1>3, <2>1, <2>3, <3>1 DEF ApQuiet
    <3> QED
      BY <1>2, <1>3, <1>4, <1>6, <2>3, <3>2, OpsOfCpuInit DEF ApQuiet
  <2> QED
    BY <2>2, <2>3
<1> QED
  BY <1>2, <1>4, <1>8, <1>9 DEF Quiet

(* A call that succeeds.                                                    *)
LEMMA SucceedQuiet ==
  ASSUME IInv, Quiet, NEW c \in CPUs, Succeed(c)
  PROVE  Quiet'
<1>1. UNCHANGED <<counted, has_cpu_local, said, halt_pending>>
  BY DEF Succeed, cpu, history
<1>2. CASE At(c, "pmm_alloc") /\ GoOn(c)
  BY <1>1, <1>2, QuietGoesOn
<1>3. CASE At(c, "acpi_find_sdt") /\ Divert(c, Printf("any") \o Tail(prog[c]))
  <2>1. c = Bsp
    BY <1>3, AtBsp DEF Starting
  <2>2. Listed' = Listed /\ DOMAIN prog = CPUs /\ machine' = machine
        /\ prog' = [prog EXCEPT ![c] = Printf("any") \o Tail(prog[c])]
    BY <1>3, Diverts DEF IInv
  <2> DEFINE q == Printf("any")
  <2>3. Made(q, PrintfOps)
    BY MadePrintf DEF Colours
  <2> HIDE DEF q
  <2>4. \A x \in OpsOf(q) : \A y : <<x, y>> \notin BspNever
    BY <2>3 DEF Made, PrintfOps, BspNever, Ending
  <2>5. "count" \notin OpsOf(q)
    BY <2>3 DEF Made, PrintfOps
  <2>6. BspQuiet'
    BY <1>1, <1>3, <2>1, <2>2, <2>3, <2>4, <2>5, OrderedWithout, BspDiverted DEF Made, q
  <2>7. ASSUME NEW d \in CPUs \ {Bsp} PROVE ApQuiet(d)'
    <3>1. prog'[d] = prog[d]
      BY <2>1, <2>2
    <3> QED
      BY <1>1, <2>2, <3>1 DEF Quiet, ApQuiet, Off, Op
  <2> QED
    BY <1>1, <2>2, <2>6, <2>7 DEF Quiet
<1> QED
  BY <1>2, <1>3 DEF Succeed

(* The halt interrupt goes to the other CPUs, or nowhere.                   *)
LEMMA SendHaltQuiet ==
  ASSUME IInv, Quiet, NEW c \in CPUs, SendHalt(c)
  PROVE  Quiet'
<1>1. At(c, "send") /\ UNCHANGED <<counted, has_cpu_local, said>>
  BY DEF SendHalt, cpu, history
<1>2. CASE is_smp_init
  BY <1>1, <1>2, QuietGoesOn DEF SendHalt
<1>3. CASE ~ is_smp_init
  <2>1. c = Bsp /\ Bsp \in CPUs
    BY <1>1, AtBsp, Programs DEF Starting
  <2>2. /\ Listed' = Listed /\ DOMAIN prog = CPUs /\ prog' = [prog EXCEPT ![c] = Tail(Tail(prog[c]))]
        /\ halt_pending' = halt_pending
    BY <1>3, Diverts DEF IInv, SendHalt
  <2>3. Listed \subseteq counted /\ Bsp \in has_cpu_local
    BY <1>1, <2>1, AllCounted DEF Ending
  <2> DEFINE p == prog[Bsp]
  <2>4. p \in Seq(Instruction) /\ p # <<>> /\ Tail(p) \in Seq(Instruction)
    BY <1>1, <2>1, AtProgram
  <2>5. Ordered(BspNever, Tail(p))
    BY <2>4, OrderedTail DEF Quiet, BspQuiet
  <2>6. Ordered(BspNever, Tail(Tail(p)))
    <3>1. CASE Tail(p) = <<>>
      BY <3>1 DEF Ordered
    <3>2. CASE Tail(p) # <<>>
      BY <2>4, <2>5, <3>2, OrderedTail
    <3> QED
      BY <3>1, <3>2
  <2>7. Bsp \notin said
    BY <2>4 DEF Quiet, BspQuiet
  <2>8. BspQuiet'
    BY <1>1, <2>1, <2>2, <2>3, <2>6, <2>7 DEF BspQuiet
  <2>9. ASSUME NEW d \in CPUs \ {Bsp} PROVE ApQuiet(d)'
    <3>1. prog'[d] = prog[d]
      BY <2>1, <2>2
    <3> QED
      BY <1>1, <2>2, <3>1 DEF Quiet, ApQuiet, Off, Op
  <2> QED
    BY <1>1, <2>2, <2>8, <2>9 DEF Quiet
<1> QED
  BY <1>2, <1>3

(* It stops a CPU that the list names.                                      *)
LEMMA HaltHandlerQuiet ==
  ASSUME IInv, Quiet, NEW c \in CPUs, HaltHandler(c)
  PROVE  Quiet'
<1>1. /\ c \in Listed /\ c # Bsp
      /\ UNCHANGED <<counted, has_cpu_local, said>> /\ halt_pending' \subseteq halt_pending
  BY DEF HaltHandler, Quiet, cpu
<1>2. Listed' = Listed /\ DOMAIN prog = CPUs /\ prog' = [prog EXCEPT ![c] = <<>>] /\ Bsp \in CPUs
  BY Diverts, Programs DEF IInv, HaltHandler
<1>3. OpsOf(<<>>) = {} /\ Ordered(ApNever, <<>>)
  BY DEF OpsOf, Ordered
<1>4. ASSUME NEW d \in CPUs \ {Bsp} PROVE ApQuiet(d)'
  <2>1. CASE d = c
    BY <1>1, <1>2, <1>3, <2>1 DEF ApQuiet
  <2>2. CASE d # c
    <3>1. prog'[d] = prog[d]
      BY <1>2, <2>2
    <3> QED
      BY <1>1, <1>2, <3>1 DEF Quiet, ApQuiet, Off, Op
  <2> QED
    BY <2>1, <2>2
<1>5. BspQuiet'
  <2>1. prog'[Bsp] = prog[Bsp]
    BY <1>1, <1>2
  <2> QED
    BY <1>1, <1>2, <2>1 DEF Quiet, BspQuiet
<1> QED
  BY <1>1, <1>2, <1>4, <1>5 DEF Quiet

(* The others only go on to the next instruction.                          *)
LEMMA PlainQuiet ==
  ASSUME IInv, Quiet, NEW c \in CPUs,
         \/ Join(c) \/ Enter(c) \/ Leave(c) \/ SetColour(c) \/ Putchar(c)
         \/ LoadPagemap(c) \/ SetGsBase(c) \/ Sti(c) \/ Count(c) \/ Wait(c) \/ Cli(c) \/ Sleep(c) \/ SayHalted(c)
  PROVE  Quiet'
<1>1. CASE Join(c)
  BY <1>1, QuietGoesOn DEF Join, cpu, history
<1>2. CASE Enter(c)
  BY <1>2, QuietGoesOn DEF Enter, cpu, history
<1>3. CASE Leave(c)
  BY <1>3, QuietGoesOn DEF Leave, cpu, history
<1>4. CASE SetColour(c)
  BY <1>4, QuietGoesOn DEF SetColour, cpu, history
<1>5. CASE Putchar(c)
  BY <1>5, QuietGoesOn DEF Putchar, cpu, history
<1>6. CASE LoadPagemap(c)
  BY <1>6, QuietGoesOn DEF LoadPagemap, history
<1>7. CASE SetGsBase(c)
  BY <1>7, QuietGoesOn DEF SetGsBase, history
<1>8. CASE Sti(c)
  BY <1>8, QuietGoesOn DEF Sti, cpu, history
<1>9. CASE Count(c)
  BY <1>9, QuietGoesOn DEF Count, history
<1>10. CASE Wait(c)
  BY <1>10, QuietGoesOn DEF Wait, history
<1>11. CASE Cli(c)
  BY <1>11, QuietGoesOn DEF Cli, cpu
<1>12. CASE Sleep(c)
  BY <1>12, QuietGoesOn DEF Sleep, cpu, history
<1>13. CASE SayHalted(c)
  BY <1>13, QuietGoesOn DEF SayHalted, cpu
<1> QED
  BY <1>1, <1>2, <1>3, <1>4, <1>5, <1>6, <1>7, <1>8, <1>9, <1>10, <1>11, <1>12, <1>13

(* The record that the panic reads is there.                               *)
LEMMA GetCpuLocalQuiet ==
  ASSUME IInv, Quiet, NEW c \in CPUs, GetCpuLocal(c)
  PROVE  Quiet' /\ troubles' = troubles
<1>1. At(c, "get_cpu_local")
  BY DEF GetCpuLocal
<1>2. c = Bsp
  BY <1>1, AtBsp DEF Starting
<1>3. c \in has_cpu_local
  BY <1>1, <1>2, AllCounted DEF Ending
<1>4. GoOn(c) /\ UNCHANGED <<counted, has_cpu_local, said, halt_pending, troubles>>
  BY <1>3 DEF GetCpuLocal, cpu, history
<1> QED
  BY <1>1, <1>4, QuietGoesOn

(* kmain has everything before it.                                          *)
LEMMA InitEnd == Init => EndInv
<1> SUFFICES ASSUME Init PROVE EndInv
  OBVIOUS
<1>1. IInv
  BY InitIInv
<1>2. Bsp \in CPUs
  BY <1>1, Programs
<1>3. prog[Bsp] = Kmain /\ \A c \in CPUs : c # Bsp => prog[c] = Off
  BY <1>2 DEF Init
<1>4. counted = {} /\ said = {} /\ halt_pending = {} /\ troubles = 0
  BY DEF Init
<1>5. OpsOf(Off) = {"off"} /\ Ordered(ApNever, Off)
  BY OpsOfOp DEF Off, Operations
<1>6. \A c \in CPUs \ {Bsp} : ApQuiet(c)
  BY <1>3, <1>4, <1>5 DEF ApQuiet
<1>7. BspQuiet
  BY <1>3, <1>4, OpsOfKmain DEF BspQuiet
<1> QED
  BY <1>4, <1>6, <1>7 DEF EndInv, Quiet

(* A step keeps this, or is a failure.                                      *)
LEMMA NextEnd == IInv /\ EndInv /\ [Next]_vars => EndInv'
<1> SUFFICES ASSUME IInv, EndInv, [Next]_vars PROVE EndInv'
  OBVIOUS
<1>1. CASE UNCHANGED vars
  <2>1. UNCHANGED <<machine, prog, counted, has_cpu_local, halt_pending, said, troubles>>
    BY <1>1 DEF vars, cpu, history
  <2>2. Quiet => Quiet'
    BY <2>1 DEF Quiet, ApQuiet, BspQuiet, Listed, cpus, Off, Op
  <2> QED
    BY <2>1, <2>2 DEF EndInv
<1>2. CASE Next
  <2>1. PICK c \in CPUs : Step(c) \/ HaltHandler(c) \/ Exception(c) \/ SleepTooShort(c)
    BY <1>2 DEF Next
  <2>2. CASE Exception(c) \/ Fail(c) \/ SleepTooShort(c)
    <3>1. troubles' = troubles + 1
      BY <2>2 DEF Exception, Fail, SleepTooShort
    <3> QED
      BY <3>1 DEF EndInv
  <2>3. ASSUME ~ (Exception(c) \/ Fail(c) \/ SleepTooShort(c)), Quiet PROVE Quiet' /\ troubles' = troubles
    <3>1. CASE \/ Join(c) \/ Enter(c) \/ Leave(c) \/ SetColour(c) \/ Putchar(c)
               \/ LoadPagemap(c) \/ SetGsBase(c) \/ Sti(c) \/ Count(c) \/ Wait(c) \/ Cli(c) \/ Sleep(c) \/ SayHalted(c)
      <4>1. Quiet'
        BY <2>3, <3>1, PlainQuiet
      <4>2. troubles' = troubles
        BY <3>1 DEF Join, Enter, Leave, SetColour, Putchar, LoadPagemap, SetGsBase, Sti, Count, Wait, Cli, Sleep,
                    SayHalted, history
      <4> QED
        BY <4>1, <4>2
    <3>2. CASE CallCpuInit(c) \/ GotoAddress(c) \/ Succeed(c) \/ SendHalt(c) \/ HaltHandler(c)
      <4>1. Quiet'
        BY <2>3, <3>2, CallCpuInitQuiet, GotoAddressQuiet, SucceedQuiet, SendHaltQuiet, HaltHandlerQuiet
      <4>2. troubles' = troubles
        BY <3>2 DEF CallCpuInit, GotoAddress, Succeed, SendHalt, HaltHandler, history
      <4> QED
        BY <4>1, <4>2
    <3>3. CASE GetCpuLocal(c)
      BY <2>3, <3>3, GetCpuLocalQuiet
    <3> QED
      BY <2>1, <2>3, <3>1, <3>2, <3>3 DEF Step
  <2>4. troubles' = troubles \/ troubles' = troubles + 1
    <3>1. CASE Exception(c) \/ Fail(c) \/ SleepTooShort(c)
      BY <3>1 DEF Exception, Fail, SleepTooShort
    <3>2. CASE ~ (Exception(c) \/ Fail(c) \/ SleepTooShort(c))
      BY <2>1, <3>2 DEF Step, Join, Enter, Leave, SetColour, Putchar, LoadPagemap, SetGsBase, Sti, Count, Wait, Cli,
           Sleep, SayHalted, CallCpuInit, GotoAddress, Succeed, SendHalt, HaltHandler, GetCpuLocal, history
    <3> QED
      BY <3>1, <3>2
  <2> QED
    BY <2>2, <2>3, <2>4 DEF EndInv
<1> QED
  BY <1>1, <1>2

(* While nothing fails, all CPUs of the list have been counted and have    *)
(* halted before kmain panics, the others are off, and panic prints "All   *)
(* CPUs halted." with nothing left to execute anywhere.                    *)
THEOREM ConsoleHaltedUnlessTrouble == Spec => []HaltedUnlessTrouble
<1>1. IInv /\ EndInv => HaltedUnlessTrouble
  <2> SUFFICES ASSUME IInv, EndInv, troubles = 0, NEW c \in said, NEW d \in CPUs PROVE Halted(d)
    BY DEF HaltedUnlessTrouble, AllCpusHaltedIsTrue
  <2>1. Quiet
    BY DEF EndInv
  <2>2. c = Bsp /\ prog[Bsp] = <<>>
    BY <2>1 DEF Quiet, BspQuiet
  <2>3. Listed \subseteq counted
    BY <2>1, <2>2 DEF Quiet, BspQuiet, OpsOf
  <2>4. CASE d = Bsp
    BY <2>2, <2>4 DEF Halted
  <2>5. CASE d # Bsp
    BY <2>1, <2>3, <2>5 DEF Quiet, ApQuiet, Halted
  <2> QED
    BY <2>4, <2>5
<1>2. Spec => [](IInv /\ EndInv)
  <2>1. Init => IInv /\ EndInv
    BY InitIInv, InitEnd
  <2>2. (IInv /\ EndInv) /\ [Next]_vars => (IInv /\ EndInv)'
    BY NextIInv, NextEnd
  <2> QED
    BY <2>1, <2>2, PTL DEF Spec
<1> QED
  BY <1>1, <1>2, PTL
=============================================================================
