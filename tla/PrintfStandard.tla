--------------------------- MODULE PrintfStandard ---------------------------
(***************************************************************************)
(* What the C standard says a call puts out, from the meaning of its       *)
(* directives and not from their text, and the property of Printf that     *)
(* compares the two.  The standard leaves the value of a tie open, so a    *)
(* floating-point field is a set of texts.  The directives on which this   *)
(* library differs are named one by one, with what it puts out for them.   *)
(* The values have at most nine places, as many as the library is exact to.*)
(***************************************************************************)
EXTENDS Printf

None == -1     \* no width, or no precision

Text(ch) == [is |-> "text", ch |-> ch]
\* star: the width and precision are arguments; a length is a sequence of letters.
Field(fl, w, p, star, length, conv, value) ==
  [is |-> "field", fl |-> fl, w |-> w, p |-> p, star |-> star,
   length |-> length, conv |-> conv, value |-> value]

------------------------------------------------------------------------------
(***************************************************************************)
(* The format and the arguments of a list of items.                        *)
(***************************************************************************)
Numeral(n) == Reverse(Figures(n, 10, {}))
Written(n, star) == IF star THEN <<"*">> ELSE Numeral(n)

Piece(item) ==
  IF item.is = "text" THEN [is |-> "text", ch |-> item.ch]
  ELSE [is |-> "directive",
        flags     |-> SelectSeq(<<"0", "-", "+", " ", "#">>, LAMBDA c : c \in item.fl),
        width     |-> IF item.w = None THEN << >> ELSE Written(item.w, item.star),
        point     |-> IF item.p = None THEN << >> ELSE <<".">>,
        precision |-> IF item.p = None THEN << >> ELSE Written(item.p, item.star),
        length    |-> item.length,
        conv      |-> item.conv]

IsInteger(item) == item.is = "field" /\ item.conv \in {"d", "i", "u", "x", "X", "o", "b"}
IsFloat(item) == item.is = "field" /\ item.conv \in {"f", "F", "e", "E", "g", "G"}

Arguments(item) ==
  IF item.is = "text" THEN << >>
  ELSE (IF item.star /\ item.w # None THEN <<[type |-> "int", value |-> item.w]>> ELSE << >>)
       \o (IF item.star /\ item.p # None THEN <<[type |-> "int", value |-> item.p]>> ELSE << >>)
       \o (IF item.conv \in Conversions
           THEN <<[type |-> ArgType(item.length, item.conv), value |-> item.value]>> ELSE << >>)

Called(items, sink, maxlen) ==
  LET pieces == [i \in DOMAIN items |-> Piece(items[i])]
  IN [items |-> items, pieces |-> pieces, sink |-> sink, maxlen |-> maxlen,
      format |-> FlattenSeq([i \in DOMAIN items |-> PieceText(pieces[i])]),
      args |-> FlattenSeq([i \in DOMAIN items |-> Arguments(items[i])])]

------------------------------------------------------------------------------
(***************************************************************************)
(* The fields of the standard.                                             *)
(***************************************************************************)
OnLeft(f) == "-" \in f.fl \/ (f.star /\ f.w < None)
Wide(f) == IF f.w = None THEN 0 ELSE IF f.w < 0 THEN -f.w ELSE f.w
HasP(f) == f.p >= 0
IsSigned(f) == f.conv \in {"d", "i"}
SignOf(f, negative) ==
  IF negative THEN <<"-">> ELSE IF "+" \in f.fl THEN <<"+">>
  ELSE IF " " \in f.fl THEN <<" ">> ELSE << >>

\* head (sign and prefix) and body, filled to the width of the field.
Filled(f, head, body, zeros) ==
  LET n == Wide(f) - Len(head) - Len(body)
  IN IF OnLeft(f) THEN head \o body \o Rep(" ", n)
     ELSE IF zeros THEN head \o Rep("0", n) \o body
     ELSE Rep(" ", n) \o head \o body

IntegerValue(f) ==
  LET bits == CASE f.length = <<"h", "h">> -> CharBits [] f.length = <<"h">> -> ShortBits
                [] f.length \in {<<"l", "l">>, <<"j">>} -> LongLongBits [] OTHER -> IntBits
  IN IF IsSigned(f) THEN Signed(f.value, bits) ELSE Unsigned(f.value, bits)

Magnitude(f) == IF IntegerValue(f) < 0 THEN -IntegerValue(f) ELSE IntegerValue(f)
Minimal(f) ==
  IF f.p = 0 /\ Magnitude(f) = 0 THEN << >>
  ELSE Reverse(Figures(Magnitude(f), Base(f.conv),
                       IF f.conv = "X" THEN {"UPPERCASE"} ELSE {}))

IntegerField(f) ==
  LET zeros  == Rep("0", f.p - Len(Minimal(f))) \o Minimal(f)
      digits == IF f.conv = "o" /\ "#" \in f.fl /\ (zeros = << >> \/ Head(zeros) # "0")
                THEN <<"0">> \o zeros ELSE zeros
      prefix == IF "#" \in f.fl /\ Magnitude(f) # 0 /\ f.conv \in {"x", "X", "b"}
                THEN <<"0", f.conv>> ELSE << >>
      sign   == IF IsSigned(f) THEN SignOf(f, IntegerValue(f) < 0) ELSE << >>
  IN Filled(f, sign \o prefix, digits, "0" \in f.fl /\ ~HasP(f))

\* The decimals with p places nearest to |v|: two when v is a tie.
Nearest(v, p) ==
  LET unit == 10 ^ (-(v.x + p))  k == Mag(v) \div unit
  IN IF v.x + p >= 0 THEN {Dec(Mag(v), v.x)}
     ELSE {Dec(j, -p) : j \in {j \in {k, k + 1} : 2 * (j * unit - Mag(v)) \in -unit..unit}}

Exponent(v) == IF v.n = 0 THEN 0 ELSE Expval(v)
Scaled(v, e) == [v EXCEPT !.x = @ - e]

\* d, which has no more than p places, with p of them.
Places(f, d, p) ==
  LET low == Numeral(Mag(d)) \o Rep("0", d.x + p)
      all == Rep("0", p + 1 - Len(low)) \o low
  IN SubSeq(all, 1, Len(all) - p)
     \o (IF p = 0 /\ "#" \notin f.fl THEN << >> ELSE <<".">>)
     \o SubSeq(all, Len(all) - p + 1, Len(all))

Power(f, e) ==
  <<IF f.conv \in {"E", "F", "G"} THEN "E" ELSE "e", IF e < 0 THEN "-" ELSE "+">>
  \o Reverse(Zeros(Figures(IF e < 0 THEN -e ELSE e, 10, {}), 2))

FixedTexts(f, p) == {Places(f, d, p) : d \in Nearest(f.value, p)}

\* One digit before the point, also after rounding.
ScientificTexts(f, p) ==
  LET e == Exponent(f.value)
  IN {IF Exponent(d) > 0 THEN Places(f, Dec(1, 0), p) \o Power(f, e + 1)
      ELSE Places(f, d, p) \o Power(f, e) : d \in Nearest(Scaled(f.value, e), p)}

\* The zeros at the end of the places, and a point that has none behind it.
Stripped(f, text) ==
  LET kept == {i \in DOMAIN text : text[i] # "0" \/ \A j \in 1..i : text[j] # "."}
      last == Max(kept)
  IN IF "#" \in f.fl THEN text
     ELSE SubSeq(text, 1, IF text[last] = "." THEN last - 1 ELSE last)

\* %g: the precision counts digits, and the exponent of the rounded value tells
\* which of the two forms is used.
DefaultP(f) == IF HasP(f) THEN f.p ELSE 6
GeneralTexts(f) ==
  LET P == Max({1, DefaultP(f)})
      e == Exponent(f.value)
      shape(d) ==
        LET X == Exponent(d)
        IN IF X \in -4..P - 1 THEN Stripped(f, Places(f, d, P - 1 - X))
           ELSE Stripped(f, Places(f, Scaled(d, X), P - 1)) \o Power(f, X)
  IN {shape(IF Exponent(d) > e THEN Dec(1, e + 1) ELSE d) : d \in Nearest(f.value, P - 1 - e)}

IsG(f) == f.conv \in {"g", "G"}
IsF(f) == f.conv \in {"f", "F"}

FloatTexts(f) == IF IsG(f) THEN GeneralTexts(f)
                 ELSE IF IsF(f) THEN FixedTexts(f, DefaultP(f))
                 ELSE ScientificTexts(f, DefaultP(f))

Special(f) ==
  CASE f.value.is = "nan" /\ f.conv \in {"E", "F", "G"} -> <<"N", "A", "N">>
    [] f.value.is = "nan" /\ f.conv \in {"e", "f", "g"} -> <<"n", "a", "n">>
    [] OTHER -> IF f.conv \in {"E", "F", "G"} THEN <<"I", "N", "F">> ELSE <<"i", "n", "f">>

FloatFields(f) ==
  IF f.value.is # "number"
  THEN {Filled(f, SignOf(f, f.value.is = "-inf"), Special(f), FALSE)}
  ELSE {Filled(f, SignOf(f, f.value.n < 0), t, "0" \in f.fl) : t \in FloatTexts(f)}

TextField(f) ==
  CASE f.conv = "%" -> <<"%">>
    [] f.conv = "c" -> Filled(f, << >>, <<Glyph[Unsigned(f.value, CharBits)]>>, FALSE)
    [] f.conv = "s" -> Filled(f, << >>, IF HasP(f) THEN Cut(f.value, f.p) ELSE f.value, FALSE)
    [] OTHER -> Filled([f EXCEPT !.w = IntBits \div 4], << >>,
                       Reverse(Figures(f.value, 16, {"UPPERCASE"})), TRUE)

Texts(item) ==
  CASE item.is = "text" -> {<<item.ch>>}
    [] IsInteger(item)  -> {IntegerField(item)}
    [] IsFloat(item)    -> FloatFields(item)
    [] OTHER            -> {TextField(item)}

------------------------------------------------------------------------------
(***************************************************************************)
(* Where this library differs from the standard, and what it puts out then.*)
(***************************************************************************)
Ending(text, n) == SubSeq(text, Max({1, Len(text) - n + 1}), Len(text))

\* As Filled, but a field is built in a buffer of fixed size that keeps its end,
\* and one that is filled with zeros is not filled with blanks.
Kept(f, head, body, zeros, size) ==
  LET fill == IF zeros /\ ~OnLeft(f) THEN Rep("0", Wide(f) - Len(head) - Len(body)) ELSE << >>
      text == Ending(head \o fill \o body, size)
  IN Filled([f EXCEPT !.w = IF zeros /\ ~OnLeft(f) THEN 0 ELSE f.w], << >>, text, FALSE)

\* A negative precision given as an argument is taken for zero, not for none.
Asked(f) == IF f.star /\ f.p < None THEN [f EXCEPT !.p = 0] ELSE f

\* char is unsigned on this processor: %hhd is never negative.
CharPositive(f) == IsSigned(f) /\ f.length = <<"h", "h">> /\ IntegerValue(f) < 0
OwnValue(f) == IF CharPositive(f) THEN [f EXCEPT !.value = Unsigned(@, CharBits), !.length = << >>]
               ELSE f

Hashed(f) == "#" \in f.fl /\ Base(f.conv) # 10 /\ Magnitude(f) # 0
Zeroed(f) == "0" \in f.fl /\ ~HasP(f) /\ ~OnLeft(f)
\* A zero with a precision has no digits of its own.
Digits(f) == IF HasP(f) /\ Magnitude(f) = 0 THEN << >> ELSE Minimal(f)
Padded(f) ==
  LET sign == IF IsSigned(f) THEN SignOf(f, IntegerValue(f) < 0) ELSE << >>
      n == Max({Len(Digits(f)), IF OnLeft(f) THEN 0 ELSE f.p,
                IF Zeroed(f) THEN Wide(f) - Len(sign) ELSE 0})
  IN Rep("0", n - Len(Digits(f))) \o Digits(f)

\* '-' turns the precision of an integer off.
LeftPrecision(f) == OnLeft(f) /\ f.p > Len(Digits(f))
\* '#' takes the room for its prefix from the digits of a field that fills its
\* width, for "b" one column too few.
PrefixOverDigits(f) ==
  /\ Hashed(f) /\ ~HasP(f) /\ Len(Padded(f)) = Wide(f)
  /\ \/ Len(Padded(f)) - (IF Base(f.conv) = 16 THEN 2 ELSE 1) < Len(Minimal(f))
     \/ f.conv = "b"
\* '#' with a precision puts a zero in front of an octal number that has one,
\* and none in the place of no digits.
OctalZero(f) == f.conv = "o" /\ "#" \in f.fl /\ HasP(f)
\* An integer field longer than its buffer loses its beginning.
IntegerCut(f) == Len(Padded(f)) + 3 > NtoaSize

DiffersInteger(f) ==
  LeftPrecision(f) \/ PrefixOverDigits(f) \/ OctalZero(f) \/ IntegerCut(f)

OwnInteger(f) ==
  LET taken  == IF ~(Hashed(f) /\ ~HasP(f) /\ Len(Padded(f)) = Wide(f)) THEN 0
                ELSE IF Base(f.conv) = 16 /\ Len(Padded(f)) > 1 THEN 2 ELSE 1
      prefix == IF ~Hashed(f) THEN << >>
                ELSE <<"0">> \o (IF f.conv = "o" THEN << >> ELSE <<f.conv>>)
      sign   == IF IsSigned(f) THEN SignOf(f, IntegerValue(f) < 0) ELSE << >>
  IN Kept([f EXCEPT !.w = IF Zeroed(f) THEN None ELSE @], sign,
          prefix \o Ending(Padded(f), Len(Padded(f)) - taken), Zeroed(f), NtoaSize)

------------------------------------------------------------------------------
\* "nan" and "inf" are never upper case, have no sign but the '-' of -inf and the
\* '+' of inf, and are not filled when the flag '0' is given.
OwnSpecial(f) ==
  LET head == CASE f.value.is = "-inf" -> <<"-">>
                [] f.value.is = "inf" /\ "+" \in f.fl -> <<"+">>
                [] OTHER -> << >>
      name == Special([f EXCEPT !.conv = "f"])
  IN IF "0" \in f.fl /\ ~OnLeft(f) THEN head \o name ELSE Filled(f, head, name, FALSE)

\* A tie whose places are all nine is rounded up without a carry: the point and
\* the digits before it are lost.
TieOfNines(v, p) == p > 0 /\ Rest(v, p) = "half" /\ Frac(v, p) + 1 = 10 ^ p

OwnPlaces(f, v, p) ==
  IF TieOfNines(v, p) THEN {Rep("0", FtoaSize - 1 - p) \o <<"1">> \o Rep("0", p)}
  ELSE {Places([f EXCEPT !.fl = {}], d, p) : d \in Nearest(v, p)}

OwnFixed(f, v, p) ==
  {Kept(f, SignOf(f, v.n < 0), t, "0" \in f.fl, FtoaSize) : t \in OwnPlaces(f, v, p)}

\* A mantissa that rounds up to ten stays ten, and the exponent of zero is -308.
MantissaTen(v, p) == \E d \in Nearest(Scaled(v, Exponent(v)), p) : Exponent(d) > 0

OwnScientific(f, v, p) ==
  LET power == Power(f, Expval(v))
      room  == IF OnLeft(f) THEN 0 ELSE Wide(f) - Len(power)
  IN {Filled([f EXCEPT !.fl = @ \ {"0"}], << >>, t \o power, FALSE)
      : t \in OwnFixed([f EXCEPT !.w = Max({0, room})], Scaled(v, Exponent(v)), p)}

\* %g takes every value from 10^-4 to 10^6 as fixed, whatever its precision, and
\* keeps the zeros at the end.
OwnGeneral(f) ==
  LET p == DefaultP(f)  v == f.value
  IN IF v.n # 0 /\ Expval(v) \in -4..5 THEN OwnFixed(f, v, Max({0, p - 1 - Expval(v)}))
     ELSE OwnScientific(f, v, IF HasP(f) /\ p > 0 THEN p - 1 ELSE p)

OwnFloat(f) ==
  CASE f.value.is # "number" -> {OwnSpecial(f)}
    [] f.value.is = "number" /\ IsG(f) -> OwnGeneral(f)
    [] f.value.is = "number" /\ IsF(f) /\ ~Large(f.value) -> OwnFixed(f, f.value, DefaultP(f))
    [] OTHER -> OwnScientific(f, f.value, DefaultP(f))

\* %f of a value above 10^9 comes out as by %e (printf.c:333).
LargeFixed(f) == IsF(f) /\ Large(f.value)
\* A floating-point field longer than its buffer loses its beginning.
FloatCut(f) == Max({Wide(f), DefaultP(f) + 12}) > FtoaSize

DiffersFloat(f) ==
  LET v == f.value  p == DefaultP(f)
  IN \/ v.is # "number" /\ \/ f.conv \in {"E", "F", "G"} \/ f.fl \cap {"0", " "} # {}
                           \/ v.is = "nan" /\ "+" \in f.fl
     \/ v.is = "number" /\
        \/ "#" \in f.fl \/ IsG(f) \/ LargeFixed(f) \/ FloatCut(f)
        \/ IsF(f) /\ TieOfNines(v, p)
        \/ ~IsF(f) /\ (v.n = 0 \/ MantissaTen(v, p) \/ TieOfNines(Scaled(v, Expval(v)), p))

Differs(item) ==
  item.is = "field" /\
  \/ Asked(item) # item
  \/ IsInteger(item) /\ (CharPositive(item) \/ DiffersInteger(item))
  \/ IsFloat(item) /\ DiffersFloat(item)

OwnTexts(item) ==
  CASE IsInteger(item) -> {OwnInteger(OwnValue(Asked(item)))}
    [] IsFloat(item)   -> OwnFloat(Asked(item))
    [] OTHER           -> Texts(Asked(item))

RECURSIVE Expected(_)
Expected(items) ==
  IF items = << >> THEN {<< >>}
  ELSE LET first == Head(items)
       IN {a \o b : a \in IF Differs(first) THEN OwnTexts(first) ELSE Texts(first),
                    b \in Expected(Tail(items))}

------------------------------------------------------------------------------
(***************************************************************************)
(* Properties.                                                             *)
(***************************************************************************)
\* Text, characters, strings, pointers and integers of every width come out as
\* the standard defines them, flags, width and precision together, and a
\* floating-point field is one of the texts nearest to its value, with its
\* carry into the whole part and its exponent; in the cases that Differs names,
\* what comes out is what is said there, and nothing else.
AsStandard == pc = "returned" => full \in Expected(call.items)
==============================================================================
