------------------------------- MODULE Printf -------------------------------
(***************************************************************************)
(* What one call of the printf family writes.                              *)
(*                                                                         *)
(* _vsnprintf walks over the format and hands every character to an output *)
(* function: the Screen, a buffer of limited size, or nothing.  A format   *)
(* is a sequence of items, each a character to copy or a conversion with   *)
(* its argument; the letters of the format and the floating-point          *)
(* conversions, which printf.h switches off, are left out.  The lock       *)
(* around the call belongs to PanicConsole: here nobody else runs.         *)
(***************************************************************************)
EXTENDS Integers, Sequences, FiniteSets, SequencesExt, Screen

CONSTANTS
  WordBits,         \* bits of the longest integer argument
  IntBits,          \* bits of an int
  NtoaSize,         \* PRINTF_NTOA_BUFFER_SIZE
  SizeMax,          \* the largest size_t
  Memory,           \* the bytes that exist from the start of the buffer on
  Characters,       \* those a text may hold
  Calls,            \* the calls examined: [out, maxlen, format, column, row], the last two
                    \* being the place of the cursor
  NULL              \* no value has been returned yet

Letters == <<"0", "1", "2", "3", "4", "5", "6", "7", "8", "9", "a", "b", "c", "d", "e", "f">>

NUL == "NUL"

(* %c may print a NUL, which nobody sees.                                  *)
ASSUME PrintfAssumption ==
  /\ NUL \in Characters
  /\ WordBits \in Nat \ {0} /\ IntBits \in 1 .. WordBits
  /\ NULL \notin Int
  /\ NtoaSize \in Nat \ {0}
  /\ SizeMax \in Nat /\ Memory \subseteq 0 .. SizeMax - 1
  /\ \A call \in Calls :
       /\ call.out \in {"char", "buffer", "null"}
       /\ call.maxlen \in 0 .. SizeMax
       /\ call.column \in 0 .. Columns - 1 /\ call.row \in Nat
       /\ call.out = "buffer" => call.maxlen = SizeMax \/ 0 .. call.maxlen - 1 \subseteq Memory

VARIABLES
  call,             \* the call being executed
  format,           \* what is left of its format
  idx,              \* idx of _vsnprintf
  buffer,           \* the bytes of Memory
  screen,           \* cursor and glyphs of Screen
  text,             \* history: everything handed to the output function so far
  ret               \* the value returned, or NULL before

vars == <<call, format, idx, buffer, screen, text, ret>>

-----------------------------------------------------------------------------
(* Numbers: the digits are collected in reverse in a buffer of NtoaSize    *)
(* characters, then padded, then put out from the end.                     *)

Least(a, b) == IF a <= b THEN a ELSE b

Repeat(char, n) == IF n > 0 THEN [k \in 1 .. n |-> char] ELSE <<>>

PadTo(buf, char, n) == buf \o Repeat(char, n - Len(buf))

Backwards(buf) == [k \in 1 .. Len(buf) |-> buf[Len(buf) + 1 - k]]

Power(base) == LET power[n \in Nat] == IF n = 0 THEN 1 ELSE base * power[n - 1] IN power

Base(spec) == CASE spec = "x" -> 16 [] spec = "o" -> 8 [] spec = "b" -> 2 [] OTHER -> 10

(* How many digits value has; do ... while writes one for 0. *)
DigitCount(value, base) ==
  CHOOSE n \in 1 .. WordBits :
    value < Power(base)[n] /\ (n > 1 => value >= Power(base)[n - 1])

Digits(value, base) ==
  [k \in 1 .. Least(DigitCount(value, base), NtoaSize) |->
    Letters[((value \div Power(base)[k - 1]) % base) + 1]]

(* The flags as the conversion adjusts them. *)
Adjusted(item, value) ==
  (IF item.width < 0 THEN item.flags \cup {"left"} ELSE item.flags)
    \ (  (IF Base(item.spec) = 10 \/ value = 0 THEN {"hash"} ELSE {})
    \cup (IF item.spec # "d" THEN {"plus", "space"} ELSE {})
    \cup (IF "precision" \in item.flags THEN {"zeropad"} ELSE {}))

Width(item) == IF item.width < 0 THEN - item.width ELSE item.width

SignPlaceNot(flags, negative, width) == width    \* mutant: no place for a sign

(* Zeros up to the precision, and up to the width with the flag 0, with    *)
(* one place kept for a sign.                                              *)
SignPlace(flags, negative, width) ==
  IF /\ width > 0 /\ "zeropad" \in flags /\ "left" \notin flags
     /\ negative \/ flags \cap {"plus", "space"} # {}
    THEN width - 1
    ELSE width

Zeros(buf, prec, width, flags) ==
  IF "left" \in flags
    THEN buf
    ELSE PadTo(PadTo(buf, "0", Least(prec, NtoaSize)), "0",
               IF "zeropad" \in flags THEN Least(width, NtoaSize) ELSE 0)

(* The prefix takes the place of padded zeros; where the number fills its  *)
(* width by itself it takes that of digits.                                *)
Prefix(buf, base, prec, width, flags) ==
  LET crowded == "precision" \notin flags /\ Len(buf) > 0 /\ Len(buf) \in {prec, width}
      shorter == IF ~ crowded THEN Len(buf)
                 ELSE IF Len(buf) > 1 /\ base = 16 THEN Len(buf) - 2 ELSE Len(buf) - 1
      letter  == CASE base = 16 -> <<"x">> [] base = 2 -> <<"b">> [] OTHER -> <<>>
      all     == SubSeq(buf, 1, shorter) \o letter \o <<"0">>
  IN  IF "hash" \in flags THEN SubSeq(all, 1, Least(Len(all), NtoaSize)) ELSE buf

Sign(flags, negative) ==
  CASE negative          -> <<"-">>
    [] ~ negative /\ "plus" \in flags -> <<"+">>
    [] ~ negative /\ "plus" \notin flags /\ "space" \in flags -> <<" ">>
    [] OTHER             -> <<>>

OutRev(buf, width, flags) ==
  LET line == Backwards(buf)
      fill == Repeat(" ", width - Len(buf))
  IN  CASE "left" \in flags -> line \o fill
        [] flags \cap {"left", "zeropad"} = {} -> fill \o line
        [] OTHER -> line

NtoaFormat(buf, negative, base, prec, given_width, flags) ==
  LET width == SignPlace(flags, negative, given_width)
      zeros == Zeros(buf, prec, width, flags)
      body  == Prefix(zeros, base, prec, width, flags)
      sign  == IF Len(body) < NtoaSize THEN Sign(flags, negative) ELSE <<>>
  IN  OutRev(body \o sign, width, flags)

(* The value of a number in a type of so many bits.                        *)
Unsigned(n, bits) == n % Power(2)[bits]

Signed(n, bits) == ((n + Power(2)[bits - 1]) % Power(2)[bits]) - Power(2)[bits - 1]

(* %d, %u, %x, %o, %b: the argument is cut down to the type the length     *)
(* names, of item.bits bits.                                               *)
Cast(item) ==
  IF item.spec = "d" THEN Signed(item.value, item.bits) ELSE Unsigned(item.value, item.bits)

Negative(item) == Cast(item) < 0

(* C computes in int what is shorter than int.                             *)
Promoted(bits) == IF bits < IntBits THEN IntBits ELSE bits

(* value > 0 ? value : 0 - value in the signed type, then a cast to the    *)
(* unsigned one.  The least value of a type has no opposite: there the     *)
(* subtraction overflows, which C leaves undefined, and the machine's      *)
(* instruction wraps around.                                               *)
Magnitude(item) ==
  LET value == Cast(item)
      bits  == Promoted(item.bits)
  IN  IF item.spec # "d" THEN value
      ELSE Unsigned(IF value > 0 THEN value ELSE Signed(0 - value, bits), bits)

Number(item) ==
  LET value == Magnitude(item)
      flags == Adjusted(item, value)
      base  == Base(item.spec)
      buf   == IF "precision" \in flags /\ value = 0 THEN <<>> ELSE Digits(value, base)
  IN  NtoaFormat(buf, Negative(item), base, item.prec, Width(item), flags)

(* %s and %c: padding on one side, at most prec characters of a string.    *)
Padded(chars, item) ==
  LET fill == Repeat(" ", Width(item) - Len(chars))
  IN  IF item.width < 0 \/ "left" \in item.flags THEN chars \o fill ELSE fill \o chars

String(item) ==
  LET l == IF "precision" \in item.flags THEN Least(Len(item.chars), item.prec)
                                         ELSE Len(item.chars)
  IN  Padded(SubSeq(item.chars, 1, l), item)

Converted(item) ==
  CASE item.spec = "copy" -> item.chars
    [] item.spec = "c"    -> Padded(item.chars, item)
    [] item.spec = "s"    -> String(item)
    [] OTHER              -> Number(item)

-----------------------------------------------------------------------------
Items(c) == {c.format[k] : k \in 1 .. Len(c.format)}

(* Arguments of at most WordBits bits; without a precision it is 0, and    *)
(* _vsnprintf turns a negative one into 0.                                 *)
ASSUME ItemAssumption ==
  \A c \in Calls : \A item \in Items(c) :
    item.spec \in {"d", "u", "x", "o", "b"} =>
      /\ item.value \in Int /\ item.bits \in 1 .. WordBits
      /\ item.width \in Int /\ item.prec \in Nat
      /\ "precision" \notin item.flags => item.prec = 0

ASSUME ConversionAssumption ==
  \A c \in Calls :
    /\ c.format \in Seq(Items(c))
    /\ \A item \in Items(c) : Converted(item) \in Seq(Characters)

-----------------------------------------------------------------------------
(* The output functions, for a whole run of characters.                    *)

StoredOneMore(chars, at, maxlen) ==    \* mutant: idx <= maxlen
  [k \in Memory |->
     IF k \in at .. at + Len(chars) - 1 /\ k <= maxlen THEN chars[k - at + 1] ELSE buffer[k]]

(* _out_buffer *)
Stored(chars, at, maxlen) ==
  [k \in Memory |->
     IF k \in at .. at + Len(chars) - 1 /\ k < maxlen THEN chars[k - at + 1] ELSE buffer[k]]

_out_char(on, char) == IF char = NUL THEN on ELSE _putchar(on, char)

PutAll(on, chars) == FoldLeft(_out_char, on, chars)

(* out(...) for each of chars, from index at on. *)
Out(chars, at) ==
  /\ buffer' = IF call.out = "buffer" THEN Stored(chars, at, call.maxlen) ELSE buffer
  /\ screen' = IF call.out = "char" THEN PutAll(screen, chars) ELSE screen

Init ==
  /\ call \in Calls
  /\ format = call.format
  /\ idx = 0
  /\ buffer = [k \in Memory |-> "old"]
  /\ screen = Cursor(call.column, call.row)
  /\ text = <<>>
  /\ ret = NULL

(* The next character or conversion of the format. *)
Item ==
  /\ format # <<>>
  /\ LET chars == Converted(Head(format))
     IN  /\ Out(chars, idx)
         /\ idx' = idx + Len(chars)
         /\ text' = text \o chars
  /\ format' = Tail(format)
  /\ UNCHANGED <<call, ret>>

LastIndex == IF idx < call.maxlen THEN idx ELSE (call.maxlen - 1) % (SizeMax + 1)

(* The terminating character, and the end with return (int) idx. *)
Terminate ==
  /\ format = <<>> /\ ret = NULL
  /\ Out(<<NUL>>, LastIndex)
  /\ ret' = Signed(idx, IntBits)
  /\ UNCHANGED <<call, format, idx, text>>

Next == Item \/ Terminate

Spec == Init /\ [][Next]_vars

-----------------------------------------------------------------------------
(* What C demands of a number conversion: the digits of the value its     *)
(* type has for the argument, with zeros up to the precision; a sign;      *)
(* zeros between the two or spaces outside of them up to the width.        *)
Typed(item) ==
  LET all  == Power(2)[item.bits]
      half == Power(2)[item.bits - 1]
  IN  CHOOSE v \in (IF item.spec = "d" THEN - half .. half - 1 ELSE 0 .. all - 1) :
        (item.value - v) % all = 0

InC(item) ==
  LET typed  == Typed(item)
      value  == IF typed < 0 THEN - typed ELSE typed
      base   == Base(item.spec)
      n      == IF value = 0 /\ "precision" \in item.flags THEN 0 ELSE DigitCount(value, base)
      least  == IF "precision" \in item.flags THEN item.prec ELSE 1
      number == Repeat("0", least - n) \o
                [k \in 1 .. n |-> Letters[((value \div Power(base)[n - k]) % base) + 1]]
      sign   == CASE typed < 0 -> <<"-">>
                  [] item.spec = "d" /\ typed >= 0 /\ "plus" \in item.flags -> <<"+">>
                  [] item.spec = "d" /\ typed >= 0 /\ item.flags \cap {"plus", "space"} = {"space"} -> <<" ">>
                  [] OTHER -> <<>>
      gap    == Width(item) - Len(sign) - Len(number)
  IN  CASE item.width < 0 \/ "left" \in item.flags -> sign \o number \o Repeat(" ", gap)
        [] item.width >= 0 /\ item.flags \cap {"left", "zeropad", "precision"} = {"zeropad"}
             -> sign \o Repeat("0", gap) \o number
        [] OTHER -> Repeat(" ", gap) \o sign \o number

(* What the library leaves out: the prefix of #, a precision together with *)
(* left alignment, and whatever does not fit in NtoaSize characters.       *)
Supported(item) ==
  /\ item.spec \in {"d", "u", "x", "o", "b"}
  /\ "hash" \notin item.flags
  /\ "precision" \in item.flags => item.width >= 0 /\ "left" \notin item.flags
  /\ DigitCount(Magnitude(item), Base(item.spec)) < NtoaSize
  /\ item.prec < NtoaSize
  /\ "zeropad" \in item.flags => item.width <= NtoaSize

(* Within those limits, which all conversions of the kernel respect, every *)
(* number comes out as C says, whatever flags, width and precision are     *)
(* combined.                                                               *)
NumbersAsInC ==
  \A k \in DOMAIN format : Supported(format[k]) => Number(format[k]) = InC(format[k])

(* The contract of snprintf and its relatives.  The value returned is the  *)
(* number of characters of the whole text, if an int can say it.  When     *)
(* they are less than count all of them and a terminator are in the        *)
(* buffer, otherwise a terminated beginning is; nothing beyond count is    *)
(* touched, and nothing at all if it is 0.                                 *)
OutputContract ==
  ret # NULL =>
    /\ Len(text) < Power(2)[IntBits - 1] => ret = Len(text)
    /\ call.out = "buffer" =>
         LET kept == Least(Len(text), call.maxlen - 1)
         IN  \A k \in Memory :
               buffer[k] = IF k < kept THEN text[k + 1]
                           ELSE IF k = kept THEN NUL ELSE "old"

(* The rows a text needs that starts in a column: every newline ends one,  *)
(* and so does every character in the last column.                         *)
Visible(chars) == {k \in 1 .. Len(chars) : chars[k] \notin {NUL, Newline}}

(* The characters in the line of the k-th, up to it. *)
Line(chars, k) == {j \in Visible(chars) : j <= k /\ \A i \in j .. k : chars[i] # Newline}

ColumnsUsed(chars, k, column) ==
  Cardinality(Line(chars, k)) + (IF \E i \in 1 .. k : chars[i] = Newline THEN 0 ELSE column)

RowEnds(chars, column) ==
  {k \in 1 .. Len(chars) : chars[k] = Newline} \cup
  {k \in Visible(chars) : ColumnsUsed(chars, k, column) % Columns = 0}

RowsBelow(chars, column) == Cardinality(RowEnds(chars, column))

(* The glyphs are the visible characters of the text, in its order.        *)
Shown(glyphs, chars) ==
  /\ Len(glyphs) = Cardinality(Visible(chars))
  /\ \A k \in Visible(chars) :
       glyphs[Cardinality({j \in Visible(chars) : j <= k})].char = chars[k]

(* printf shows the whole text, glyph behind glyph and row below row,      *)
(* between the margins, and on the framebuffer if its rows are enough for  *)
(* the text; the cursor never goes back to the top.                        *)
TextOnScreen ==
  call.out = "char" =>
    /\ Shown(screen.glyphs, text)
    /\ ReadingOrder(screen.glyphs)
    /\ BetweenMargins(screen.glyphs)
    /\ Cursor(0, call.row + RowsBelow(text, call.column)).y <= y_max => AboveTheEnd(screen.glyphs)
=============================================================================
