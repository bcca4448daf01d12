------------------------------ MODULE MCPrintf ------------------------------
(* Two families of calls.  Conversions: one number with every combination  *)
(* of flags, width and precision around the sizes where something changes. *)
(* Texts: up to three items, one of each kind, to every output function    *)
(* with every buffer size from none to more than enough, and on a screen   *)
(* of three columns and three rows from each place of the cursor.          *)
EXTENDS Printf

(* A long has five bits, an int four and a char three. *)
NumberItem(spec, value, bits, flags, width, prec) ==
  [spec |-> spec, value |-> value, bits |-> bits, flags |-> flags, width |-> width, prec |-> prec,
   chars |-> <<>>]

TextItem(spec, chars, flags, width, prec) ==
  [spec |-> spec, value |-> 0, bits |-> 5, flags |-> flags, width |-> width, prec |-> prec, chars |-> chars]

Widths == {-5, -2, 0, 1, 2, 3, 4, 5}

FlagSets == SUBSET {"zeropad", "left", "plus", "space", "hash"}

Arguments ==
  ({"d"} \X {-16, -10, -1, 0, 7, 15} \X {5}) \cup ({"u", "x", "o", "b"} \X {-1, 0, 3, 10, 16} \X {5})
    \cup ({"d", "u"} \X {-10, -8, 7, 12} \X {3, 4})

(* A precision of -1 stands for none. *)
Numbers ==
  { NumberItem(a[1], a[2], a[3], IF p = -1 THEN f ELSE f \cup {"precision"}, w, IF p = -1 THEN 0 ELSE p) :
      a \in Arguments, f \in FlagSets, w \in Widths, p \in {-1, 0, 1, 2, 4} }

CallAt(out, maxlen, items, column, row) ==
  [out |-> out, maxlen |-> maxlen, format |-> items, column |-> column, row |-> row]

Conversions == {CallAt("null", 31, <<item>>, 0, 0) : item \in Numbers}

TextItems ==
  { TextItem("copy", <<"x">>, {}, 0, 0),
    TextItem("c", <<NUL>>, {}, 2, 0),
    TextItem("s", <<"p", "q", "r">>, {"precision", "left"}, 3, 2),
    TextItem("s", <<"p", "q">>, {}, -3, 0),
    TextItem("copy", <<Newline>>, {}, 0, 0),
    NumberItem("u", 31, 5, {}, 0, 0) }

Texts ==
  LET formats == UNION {[1 .. n -> TextItems] : n \in 0 .. 3}
  IN  {CallAt("char", 31, f, column, row) : f \in formats, column \in 0 .. 2, row \in 0 .. 2}
        \cup {CallAt("null", n, f, 0, 0) : n \in {0, 2}, f \in formats}
        \cup {CallAt("buffer", n, f, 0, 0) : n \in 0 .. 5 \cup {31}, f \in formats}

AllCharacters ==
  {Letters[k] : k \in 1 .. Len(Letters)} \cup {" ", "-", "+", "x", "p", "q", "r", Newline, NUL}

Both == Conversions \cup Texts
=============================================================================
