---------------------------- MODULE PrintfFields ----------------------------
(***************************************************************************)
(* lib/src/printf.c: what one conversion hands to out(), as a sequence of  *)
(* characters.  Every helper builds its field backwards in a buffer of     *)
(* fixed size on the stack and drops what does not fit.  A double is a     *)
(* decimal n * 10^x, or one of the special values; the cases it is used    *)
(* for are those whose products with a power of ten a double holds exactly *)
(* or that are no tie.                                                     *)
(***************************************************************************)
EXTENDS SequencesExt, FiniteSetsExt, Integers

CONSTANTS NtoaSize, FtoaSize   \* PRINTF_NTOA_BUFFER_SIZE, PRINTF_FTOA_BUFFER_SIZE

ASSUME PrintfSizes == NtoaSize \in Nat \ {0} /\ FtoaSize \in Nat \ {0}

Rep(ch, n) == [i \in 1..(IF n > 0 THEN n ELSE 0) |-> ch]
Cut(s, n) == SubSeq(s, 1, Min({Len(s), n}))
Zeros(buf, n) == buf \o Rep("0", n - Len(buf))      \* zeros up to length n

MostDigits == 64        \* an unsigned long long in base 2

\* The digits of v, the lowest first: v is divided by the base until nothing is
\* left of it, and zero has one digit.
LowDigits(v, base) ==
  LET left[i \in 0..MostDigits] == IF i = 0 THEN v ELSE left[i - 1] \div base
      count == Max({1, Cardinality({i \in 0..MostDigits : left[i] > 0})})
  IN [i \in 1..count |-> left[i - 1] % base]

Lower == <<"0","1","2","3","4","5","6","7","8","9","a","b","c","d","e","f">>
Upper == <<"0","1","2","3","4","5","6","7","8","9","A","B","C","D","E","F">>

Figures(v, base, flags) ==
  LET digit == IF "UPPERCASE" \in flags THEN Upper ELSE Lower
      low   == LowDigits(v, base)
  IN [i \in 1..Len(low) |-> digit[low[i] + 1]]

Sign(negative, flags) ==
  CASE negative -> <<"-">>
    [] ~negative /\ "PLUS" \in flags -> <<"+">>
    [] OTHER -> IF "SPACE" \in flags THEN <<" ">> ELSE << >>

\* A sign takes one column of a field that is filled with zeros.
Narrowed(width, negative, flags) ==
  IF width > 0 /\ "ZEROPAD" \in flags /\ "LEFT" \notin flags /\ Sign(negative, flags) # << >>
  THEN width - 1 ELSE width

out_rev(buf, width, flags) ==
  LET pad == Rep(" ", width - Len(buf))
  IN IF "LEFT" \in flags THEN Reverse(buf) \o pad
     ELSE IF "ZEROPAD" \in flags THEN Reverse(buf)
     ELSE pad \o Reverse(buf)

------------------------------------------------------------------------------
\* With '#', a field as long as its width or precision is taken to be padded,
\* and loses its first digits to make room for the prefix.
Room(buf, base, prec, width, flags) ==
  IF "PRECISION" \notin flags /\ Len(buf) > 0 /\ Len(buf) \in {prec, width}
  THEN Cut(buf, Len(buf) - (IF base = 16 /\ Len(buf) > 1 THEN 2 ELSE 1))
  ELSE buf

Prefix(base, flags) ==
  CASE base = 16 -> <<IF "UPPERCASE" \in flags THEN "X" ELSE "x", "0">>
    [] base = 2  -> <<"b", "0">>
    [] OTHER     -> <<"0">>

ntoa_format(digits, negative, base, prec, width, flags) ==
  LET w      == Narrowed(width, negative, flags)
      atLeast(buf, n) == Zeros(buf, Min({n, NtoaSize}))
      padded == IF "LEFT" \in flags THEN digits
                ELSE atLeast(atLeast(digits, prec), IF "ZEROPAD" \in flags THEN w ELSE 0)
      hashed == IF "HASH" \notin flags THEN padded
                ELSE Room(padded, base, prec, w, flags) \o Prefix(base, flags)
  IN out_rev(Cut(Cut(hashed, NtoaSize) \o Sign(negative, flags), NtoaSize), w, flags)

ntoa(value, negative, base, prec, width, flags) ==
  ntoa_format(IF "PRECISION" \in flags /\ value = 0 THEN << >>
              ELSE Cut(Figures(value, base, flags), NtoaSize),
              negative, base, prec, width,
              IF value = 0 THEN flags \ {"HASH"} ELSE flags)

------------------------------------------------------------------------------
Nan == [is |-> "nan", n |-> 0, x |-> 0]
Inf == [is |-> "inf", n |-> 0, x |-> 0]
MinusInf == [is |-> "-inf", n |-> 0, x |-> 0]
Dec(n, x) == [is |-> "number", n |-> n, x |-> x]

Mag(v) == IF v.n < 0 THEN -v.n ELSE v.n
\* The exponent e for which 10^e <= v < 10^(e+1); the estimate for zero, whose
\* binary exponent is all zeros, comes out at the end of the range.
Expval(v) == IF v.n = 0 THEN -308 ELSE Len(LowDigits(Mag(v), 10)) - 1 + v.x
Large(v) == Expval(v) >= 9 /\ ~(Expval(v) = 9 /\ Mag(v) = 10 ^ (9 - v.x))

Whole(v) == IF v.x >= 0 THEN Mag(v) * 10 ^ v.x ELSE Mag(v) \div 10 ^ (-v.x)
Below(v) == IF v.x >= 0 THEN 0 ELSE Mag(v) % 10 ^ (-v.x)     \* in units of 10^x

\* (value - whole) * 10^p: its whole part, and on which side of one half the rest is.
Frac(v, p) == IF v.x >= 0 THEN 0
              ELSE IF p + v.x >= 0 THEN Below(v) * 10 ^ (p + v.x)
              ELSE Below(v) \div 10 ^ (-(p + v.x))
Rest(v, p) == IF p + v.x >= 0 THEN "less"
              ELSE LET unit == 10 ^ (-(p + v.x))  twice == 2 * (Below(v) % unit)
                   IN IF twice > unit THEN "more" ELSE IF twice = unit THEN "half" ELSE "less"

Odd(k) == k % 2 = 1

\* A mutant: a fraction rounded up to one is not counted into the whole part.
RoundedNoCarry(v, p) ==
  [whole |-> Whole(v),
   frac |-> IF Rest(v, p) = "less" THEN Frac(v, p) ELSE (Frac(v, p) + 1) % 10 ^ p]

\* The fraction after rounding, which counts into the whole part only when it
\* was rounded up from more than a half.
Rounded(v, p) ==
  LET frac == Frac(v, p)  rest == Rest(v, p)
  IN CASE rest = "more" /\ frac + 1 >= 10 ^ p -> [whole |-> Whole(v) + 1, frac |-> 0]
       [] rest = "more" /\ frac + 1 < 10 ^ p  -> [whole |-> Whole(v), frac |-> frac + 1]
       [] rest = "half" -> [whole |-> Whole(v),
                            frac |-> IF frac = 0 \/ Odd(frac) THEN frac + 1 ELSE frac]
       [] OTHER -> [whole |-> Whole(v), frac |-> frac]

\* Digits of the fraction and the point; a fraction with more than p digits
\* makes the unsigned count wrap, and zeros fill the buffer.
FracPart(buf, frac, p) ==
  LET digits == buf \o Figures(frac, 10, {})
  IN IF Len(LowDigits(frac, 10)) > p THEN Zeros(digits, FtoaSize)
     ELSE Zeros(digits, Len(buf) + p) \o <<".">>

fixed(v, prec, width, flags) ==
  LET p0    == IF "PRECISION" \in flags THEN prec ELSE 6
      high  == Rep("0", Min({FtoaSize, p0 - 9}))
      p     == p0 - Len(high)
      r     == Rounded(v, p)
      whole == IF p = 0 /\ Rest(v, 0) = "half" /\ Odd(r.whole) THEN r.whole + 1 ELSE r.whole
      body  == Cut(IF p = 0 THEN high ELSE FracPart(high, r.frac, p), FtoaSize)
      buf   == Cut(body \o Figures(whole, 10, {}), FtoaSize)
      w     == Narrowed(width, v.n < 0, flags)
      full  == IF "ZEROPAD" \in flags /\ "LEFT" \notin flags
               THEN Zeros(buf, Min({w, FtoaSize})) ELSE buf
  IN out_rev(Cut(full \o Sign(v.n < 0, flags), FtoaSize), w, flags)

special(v, width, flags) ==
  LET name == CASE v.is = "nan" -> <<"n", "a", "n">>
                [] v.is = "-inf" -> <<"f", "n", "i", "-">>
                [] OTHER -> <<"f", "n", "i">> \o (IF "PLUS" \in flags THEN <<"+">> ELSE << >>)
  IN out_rev(name, width, flags)

exponential(v, prec, width, flags) ==
  LET adapt    == "ADAPT_EXP" \in flags
      asFixed  == adapt /\ Expval(v) \in -4..5
      p0       == IF "PRECISION" \in flags THEN prec ELSE 6
      p        == IF asFixed THEN Max({0, p0 - Expval(v) - 1})
                  ELSE IF adapt /\ p0 > 0 /\ "PRECISION" \in flags THEN p0 - 1 ELSE p0
      e        == IF asFixed THEN 0 ELSE Expval(v)
      minwidth == IF asFixed THEN 0 ELSE IF Expval(v) \in -99..99 THEN 4 ELSE 5
      fwidth   == IF width <= minwidth \/ ("LEFT" \in flags /\ minwidth > 0)
                  THEN 0 ELSE width - minwidth
      mantissa == fixed(IF v.n = 0 THEN v ELSE [v EXCEPT !.x = @ - e], p, fwidth,
                        (flags \ {"ADAPT_EXP"}) \cup
                        (IF asFixed THEN {"PRECISION"} ELSE {}))
      text     == mantissa \o <<IF "UPPERCASE" \in flags THEN "E" ELSE "e">>
                  \o ntoa(IF e < 0 THEN -e ELSE e, e < 0, 10, 0, minwidth - 1,
                          {"ZEROPAD", "PLUS"})
  IN IF minwidth = 0 THEN mantissa
     ELSE IF "LEFT" \in flags THEN text \o Rep(" ", width - Len(text)) ELSE text

ftoa(v, prec, width, flags) ==
  CASE v.is # "number" -> special(v, width, flags)
    [] v.is = "number" /\ Large(v) -> exponential(v, prec, width, flags)
    [] OTHER -> fixed(v, prec, width, flags)

etoa(v, prec, width, flags) ==
  IF v.is # "number" THEN special(v, width, flags) ELSE exponential(v, prec, width, flags)

------------------------------------------------------------------------------
charField(ch, width, flags) ==
  LET pad == Rep(" ", width - 1)
  IN IF "LEFT" \in flags THEN <<ch>> \o pad ELSE pad \o <<ch>>

stringField(s, prec, width, flags) ==
  LET text == IF "PRECISION" \in flags THEN Cut(s, prec) ELSE s
      pad  == Rep(" ", width - Len(text))
  IN IF "LEFT" \in flags THEN text \o pad ELSE pad \o text

==============================================================================
