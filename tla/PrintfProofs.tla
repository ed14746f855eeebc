---------------------------- MODULE PrintfProofs ----------------------------
(***************************************************************************)
(* For every format, every list of arguments and every size of the buffer: *)
(* a call writes what fits, ends it with a NUL and leaves the memory       *)
(* behind the buffer alone; and for every format made of directives, each  *)
(* directive takes the argument that was passed for it.                    *)
(***************************************************************************)
EXTENDS Printf, SequenceTheorems, FiniteSetTheorems, WellFoundedInduction, TLAPS

(***************************************************************************)
(* Texts: sequences, of whatever their elements are.                       *)
(***************************************************************************)
LEMMA MinOfTwo ==
  ASSUME NEW a \in Int, NEW b \in Int
  PROVE  Min({a, b}) = IF a <= b THEN a ELSE b
  <1>1. CASE a <= b
    <2>1. \A x \in {a, b} : (\A y \in {a, b} : x =< y) <=> x = a
      BY <1>1
    <2> QED
      BY <1>1, <2>1 DEF Min
  <1>2. CASE ~(a <= b)
    <2>1. \A x \in {a, b} : (\A y \in {a, b} : x =< y) <=> x = b
      BY <1>2
    <2> QED
      BY <1>2, <2>1 DEF Min
  <1> QED
    BY <1>1, <1>2

LEMMA MaxOfTwo ==
  ASSUME NEW a \in Int, NEW b \in Int
  PROVE  Max({a, b}) = IF a >= b THEN a ELSE b
  <1>1. CASE a >= b
    <2>1. \A x \in {a, b} : (\A y \in {a, b} : x >= y) <=> x = a
      BY <1>1
    <2> QED
      BY <1>1, <2>1 DEF Max
  <1>2. CASE ~(a >= b)
    <2>1. \A x \in {a, b} : (\A y \in {a, b} : x >= y) <=> x = b
      BY <1>2
    <2> QED
      BY <1>2, <2>1 DEF Max
  <1> QED
    BY <1>1, <1>2

LEMMA SeqIsText ==
  ASSUME NEW S, NEW s \in Seq(S)
  PROVE  IsText(s)
  BY LenProperties DEF IsText

LEMMA FunctionIsText ==
  ASSUME NEW n \in Nat, NEW s, DOMAIN s = 1..n, s = [i \in 1..n |-> s[i]]
  PROVE  IsText(s) /\ Len(s) = n
  <1> DEFINE S == {s[i] : i \in 1..n}
  <1>1. s \in [1..n -> S]
    OBVIOUS
  <1>2. s \in Seq(S)
    BY <1>1, SeqDef
  <1>3. IsText(s)
    BY <1>2, SeqIsText
  <1>4. 1..Len(s) = 1..n /\ Len(s) \in Nat
    BY <1>2, LenProperties
  <1> QED
    BY <1>3, <1>4

\* Two texts are sequences over some common set.
LEMMA TextsAreSeqs ==
  ASSUME NEW s, NEW t, IsText(s), IsText(t)
  PROVE  \E S : s \in Seq(S) /\ t \in Seq(S)
  <1> DEFINE S == {s[i] : i \in 1..Len(s)} \cup {t[i] : i \in 1..Len(t)}
  <1>1. s \in [1..Len(s) -> S]
    BY DEF IsText
  <1>2. t \in [1..Len(t) -> S]
    BY DEF IsText
  <1>3. s \in Seq(S) /\ t \in Seq(S)
    BY <1>1, <1>2, SeqDef DEF IsText
  <1> QED
    BY <1>3

LEMMA CatText ==
  ASSUME NEW s, NEW t, IsText(s), IsText(t)
  PROVE  /\ IsText(s \o t)
         /\ Len(s) \in Nat /\ Len(t) \in Nat
         /\ Len(s \o t) = Len(s) + Len(t)
         /\ \A i \in 1..Len(s) + Len(t) :
               (s \o t)[i] = IF i <= Len(s) THEN s[i] ELSE t[i - Len(s)]
  <1>1. PICK S : s \in Seq(S) /\ t \in Seq(S)
    BY TextsAreSeqs
  <1> QED
    BY <1>1, ConcatProperties, SeqIsText DEF IsText

LEMMA ShortTexts ==
  /\ IsText(<< >>)
  /\ \A a : IsText(<<a>>) /\ Len(<<a>>) = 1 /\ <<a>>[1] = a
  /\ \A a, b : IsText(<<a, b>>)
  /\ \A a, b, c : IsText(<<a, b, c>>)
  /\ \A a, b, c, d : IsText(<<a, b, c, d>>)
  <1>1. IsText(<< >>)
    <2>1. << >> \in Seq({})
      BY EmptySeq
    <2> QED
      BY <2>1, SeqIsText
  <1>2. ASSUME NEW a PROVE IsText(<<a>>) /\ Len(<<a>>) = 1 /\ <<a>>[1] = a
    <2>1. <<a>> \in Seq({a})
      OBVIOUS
    <2> QED
      BY <2>1, SeqIsText
  <1>3. ASSUME NEW a, NEW b PROVE IsText(<<a, b>>)
    <2>1. <<a, b>> \in Seq({a, b})
      OBVIOUS
    <2> QED
      BY <2>1, SeqIsText
  <1>4. ASSUME NEW a, NEW b, NEW c PROVE IsText(<<a, b, c>>)
    <2>1. <<a, b, c>> \in Seq({a, b, c})
      OBVIOUS
    <2> QED
      BY <2>1, SeqIsText
  <1>5. ASSUME NEW a, NEW b, NEW c, NEW d PROVE IsText(<<a, b, c, d>>)
    <2>1. <<a, b, c, d>> \in Seq({a, b, c, d})
      OBVIOUS
    <2> QED
      BY <2>1, SeqIsText
  <1> QED
    BY <1>1, <1>2, <1>3, <1>4, <1>5

LEMMA RepText ==
  ASSUME NEW ch, NEW n \in Int
  PROVE  IsText(Rep(ch, n)) /\ Len(Rep(ch, n)) = IF n > 0 THEN n ELSE 0
  <1> DEFINE m == IF n > 0 THEN n ELSE 0
  <1>1. m \in Nat
    OBVIOUS
  <1> HIDE DEF m
  <1>2. IsText([i \in 1..m |-> ch]) /\ Len([i \in 1..m |-> ch]) = m
    BY <1>1, FunctionIsText
  <1> QED
    BY <1>2 DEF Rep, m

LEMMA CutText ==
  ASSUME NEW s, NEW n \in Int, IsText(s)
  PROVE  IsText(Cut(s, n))
  <1>1. PICK S : s \in Seq(S)
    BY TextsAreSeqs
  <1>2. Len(s) \in Nat
    BY DEF IsText
  <1> DEFINE k == Min({Len(s), n})
  <1>3. k = IF Len(s) <= n THEN Len(s) ELSE n
    <2>1. Len(s) \in Int
      BY <1>2
    <2> QED
      BY <2>1, MinOfTwo, Zenon
  <1>4. k \in Int /\ k <= Len(s)
    BY <1>2, <1>3
  <1> HIDE DEF k
  <1>5. \A i \in 1..k : i \in 1..Len(s)
    BY <1>2, <1>4
  <1>6. \A i \in 1..k : s[i] \in S
    BY <1>1, <1>5, ElementOfSeq
  <1>7. SubSeq(s, 1, k) \in Seq(S)
    BY <1>4, <1>6, SubSeqProperties
  <1> QED
    BY <1>7, SeqIsText DEF Cut, k

LEMMA ZerosText ==
  ASSUME NEW s, NEW n \in Int, IsText(s)
  PROVE  IsText(Zeros(s, n))
  <1>1. n - Len(s) \in Int
    BY DEF IsText
  <1> QED
    BY <1>1, RepText, CatText DEF Zeros

LEMMA ReverseText ==
  ASSUME NEW s, IsText(s)
  PROVE  IsText(Reverse(s))
  <1>1. Len(s) \in Nat
    BY DEF IsText
  <1> QED
    BY <1>1, FunctionIsText DEF Reverse

------------------------------------------------------------------------------
(***************************************************************************)
(* The fields of PrintfFields are texts, whatever they are made from.      *)
(***************************************************************************)
LEMMA LowDigitsText ==
  ASSUME NEW v, NEW base
  PROVE  IsText(LowDigits(v, base)) /\ Len(LowDigits(v, base)) \in Nat
  <1>1. ASSUME NEW f
        PROVE  Max({1, Cardinality({i \in 0..MostDigits : f[i] > 0})}) \in Nat
    <2>1. IsFiniteSet(0..MostDigits)
      <3>1. 0 \in Int /\ MostDigits \in Int
        BY DEF MostDigits
      <3> QED
        BY <3>1, FS_Interval, Zenon
    <2>2. Cardinality({i \in 0..MostDigits : f[i] > 0}) \in Nat
      BY <2>1, FS_Subset, FS_CardinalityType
    <2> QED
      BY <2>2, MaxOfTwo
  <1>2. ASSUME NEW f, NEW n \in Nat
        PROVE  IsText([i \in 1..n |-> f[i - 1] % base])
    BY FunctionIsText
  <1>3. IsText(LowDigits(v, base))
    BY <1>1, <1>2 DEF LowDigits
  <1> QED
    BY <1>3 DEF IsText

LEMMA FiguresText ==
  ASSUME NEW v, NEW base, NEW fl
  PROVE  IsText(Figures(v, base, fl))
  BY LowDigitsText, FunctionIsText DEF Figures

LEMMA SignText ==
  ASSUME NEW negative, NEW fl
  PROVE  IsText(Sign(negative, fl))
  BY ShortTexts DEF Sign

LEMMA NarrowedInt ==
  ASSUME NEW w \in Int, NEW negative, NEW fl
  PROVE  Narrowed(w, negative, fl) \in Int
  BY DEF Narrowed

LEMMA out_revText ==
  ASSUME NEW buf, NEW w \in Int, NEW fl, IsText(buf)
  PROVE  IsText(out_rev(buf, w, fl))
  <1>1. w - Len(buf) \in Int
    BY DEF IsText
  <1>2. IsText(Rep(" ", w - Len(buf))) /\ IsText(Reverse(buf))
    BY <1>1, RepText, ReverseText
  <1>3. /\ IsText(Reverse(buf) \o Rep(" ", w - Len(buf)))
        /\ IsText(Rep(" ", w - Len(buf)) \o Reverse(buf))
    BY <1>2, CatText
  <1> QED
    BY <1>2, <1>3 DEF out_rev

LEMMA PrefixText ==
  ASSUME NEW base, NEW fl
  PROVE  IsText(Prefix(base, fl))
  BY ShortTexts DEF Prefix

LEMMA RoomText ==
  ASSUME NEW buf, NEW base, NEW prec, NEW w, NEW fl, IsText(buf)
  PROVE  IsText(Room(buf, base, prec, w, fl))
  <1>1. Len(buf) - 1 \in Int /\ Len(buf) - 2 \in Int
    BY DEF IsText
  <1>2. IsText(Cut(buf, Len(buf) - 1)) /\ IsText(Cut(buf, Len(buf) - 2))
    BY <1>1, CutText
  <1> QED
    BY <1>2 DEF Room

LEMMA ntoa_formatText ==
  ASSUME NEW digits, NEW negative, NEW base, NEW prec \in Int, NEW columns \in Int, NEW fl,
         IsText(digits)
  PROVE  IsText(ntoa_format(digits, negative, base, prec, columns, fl))
  <1> DEFINE w == Narrowed(columns, negative, fl)
             atLeast(buf, n) == Zeros(buf, Min({n, NtoaSize}))
             both   == atLeast(atLeast(digits, prec), IF "ZEROPAD" \in fl THEN w ELSE 0)
             padded == IF "LEFT" \in fl THEN digits ELSE both
             hashed == IF "HASH" \notin fl THEN padded
                       ELSE Room(padded, base, prec, w, fl) \o Prefix(base, fl)
             whole  == Cut(Cut(hashed, NtoaSize) \o Sign(negative, fl), NtoaSize)
  <1>1. NtoaSize \in Int
    BY PrintfSizes
  <1>2. w \in Int
    BY NarrowedInt
  <1>3. ASSUME NEW buf, NEW n \in Int, IsText(buf)
        PROVE  IsText(atLeast(buf, n))
    <2>1. Min({n, NtoaSize}) \in Int
      BY <1>1, MinOfTwo
    <2> QED
      BY <1>3, <2>1, ZerosText
  <1> HIDE DEF atLeast, w
  <1>4. IsText(both)
    <2>1. IsText(atLeast(digits, prec))
      BY <1>3
    <2>2. (IF "ZEROPAD" \in fl THEN w ELSE 0) \in Int
      BY <1>2
    <2> QED
      BY <2>1, <2>2, <1>3
  <1> HIDE DEF both
  <1>5. IsText(padded)
    BY <1>4
  <1> HIDE DEF padded
  <1>6. IsText(hashed)
    BY <1>5, RoomText, PrefixText, CatText
  <1> HIDE DEF hashed
  <1>7. IsText(whole)
    <2>1. IsText(Cut(hashed, NtoaSize) \o Sign(negative, fl))
      BY <1>1, <1>6, CutText, SignText, CatText
    <2> QED
      BY <1>1, <2>1, CutText
  <1> HIDE DEF whole
  <1>8. IsText(out_rev(whole, w, fl))
    BY <1>2, <1>7, out_revText
  <1> QED
    BY <1>8 DEF ntoa_format, whole, hashed, padded, both, atLeast, w

LEMMA ntoaText ==
  ASSUME NEW value, NEW negative, NEW base, NEW prec \in Int, NEW columns \in Int, NEW fl
  PROVE  IsText(ntoa(value, negative, base, prec, columns, fl))
  <1> DEFINE digits == IF "PRECISION" \in fl /\ value = 0 THEN << >>
                       ELSE Cut(Figures(value, base, fl), NtoaSize)
  <1>1. IsText(digits)
    BY ShortTexts, FiguresText, CutText, PrintfSizes
  <1> HIDE DEF digits
  <1>2. \A f : IsText(ntoa_format(digits, negative, base, prec, columns, f))
    BY <1>1, ntoa_formatText
  <1> QED
    BY <1>2 DEF ntoa, digits

LEMMA FracPartText ==
  ASSUME NEW buf, NEW frac, NEW p \in Int, IsText(buf)
  PROVE  IsText(FracPart(buf, frac, p))
  <1> DEFINE digits == buf \o Figures(frac, 10, {})
  <1>1. IsText(digits)
    BY FiguresText, CatText
  <1> HIDE DEF digits
  <1>2. IsText(Zeros(digits, FtoaSize))
    BY <1>1, ZerosText, PrintfSizes
  <1>3. IsText(Zeros(digits, Len(buf) + p))
    <2>1. Len(buf) + p \in Int
      BY DEF IsText
    <2> QED
      BY <1>1, <2>1, ZerosText
  <1>4. IsText(Zeros(digits, Len(buf) + p) \o <<".">>)
    BY <1>3, ShortTexts, CatText
  <1> QED
    BY <1>2, <1>4 DEF FracPart, digits

LEMMA fixedText ==
  ASSUME NEW v, NEW prec \in Int, NEW columns \in Int, NEW fl
  PROVE  IsText(fixed(v, prec, columns, fl))
  <1> DEFINE p0    == IF "PRECISION" \in fl THEN prec ELSE 6
             high  == Rep("0", Min({FtoaSize, p0 - 9}))
             p     == p0 - Len(high)
             r     == Rounded(v, p)
             whole == IF p = 0 /\ Rest(v, 0) = "half" /\ Odd(r.whole) THEN r.whole + 1 ELSE r.whole
             body  == Cut(IF p = 0 THEN high ELSE FracPart(high, r.frac, p), FtoaSize)
             buf   == Cut(body \o Figures(whole, 10, {}), FtoaSize)
             w     == Narrowed(columns, v.n < 0, fl)
             full_ == IF "ZEROPAD" \in fl /\ "LEFT" \notin fl
                      THEN Zeros(buf, Min({w, FtoaSize})) ELSE buf
             text  == Cut(full_ \o Sign(v.n < 0, fl), FtoaSize)
  <1>1. FtoaSize \in Int /\ p0 \in Int /\ p0 - 9 \in Int
    BY PrintfSizes
  <1> HIDE DEF p0
  <1>2. IsText(high)
    <2>1. Min({FtoaSize, p0 - 9}) \in Int
      BY <1>1, MinOfTwo
    <2> QED
      BY <2>1, RepText
  <1> HIDE DEF high
  <1>3. p \in Int
    BY <1>1, <1>2 DEF IsText
  <1> HIDE DEF p, r, whole
  <1>4. IsText(body)
    <2>1. IsText(FracPart(high, r.frac, p))
      BY <1>2, <1>3, FracPartText
    <2> QED
      BY <1>1, <1>2, <2>1, CutText
  <1> HIDE DEF body
  <1>5. IsText(buf)
    <2>1. IsText(body \o Figures(whole, 10, {}))
      BY <1>4, FiguresText, CatText
    <2> QED
      BY <1>1, <2>1, CutText
  <1> HIDE DEF buf
  <1>6. w \in Int
    BY NarrowedInt
  <1> HIDE DEF w
  <1>7. IsText(full_)
    <2>1. Min({w, FtoaSize}) \in Int
      BY <1>1, <1>6, MinOfTwo
    <2> QED
      BY <1>5, <2>1, ZerosText
  <1> HIDE DEF full_
  <1>8. IsText(text)
    <2>1. IsText(full_ \o Sign(v.n < 0, fl))
      BY <1>7, SignText, CatText
    <2> QED
      BY <1>1, <2>1, CutText
  <1> HIDE DEF text
  <1>9. IsText(out_rev(text, w, fl))
    BY <1>6, <1>8, out_revText
  <1> QED
    BY <1>9 DEF fixed, text, full_, w, buf, body, whole, r, p, high, p0

LEMMA specialText ==
  ASSUME NEW v, NEW columns \in Int, NEW fl
  PROVE  IsText(special(v, columns, fl))
  <1> DEFINE more == IF "PLUS" \in fl THEN <<"+">> ELSE << >>
             name == CASE v.is = "nan" -> <<"n", "a", "n">>
                       [] v.is = "-inf" -> <<"f", "n", "i", "-">>
                       [] OTHER -> <<"f", "n", "i">> \o more
  <1>1. IsText(more)
    BY ShortTexts
  <1> HIDE DEF more
  <1>2. IsText(<<"f", "n", "i">> \o more)
    BY <1>1, ShortTexts, CatText
  <1>3. IsText(name)
    BY <1>2, ShortTexts
  <1> HIDE DEF name
  <1>4. IsText(out_rev(name, columns, fl))
    BY <1>3, out_revText
  <1> QED
    BY <1>4 DEF special, name, more

LEMMA ExpvalInt ==
  ASSUME NEW v, v.x \in Int
  PROVE  Expval(v) \in Int
  <1>1. Len(LowDigits(Mag(v), 10)) \in Nat
    BY LowDigitsText
  <1>2. Len(LowDigits(Mag(v), 10)) - 1 + v.x \in Int
    BY <1>1
  <1> QED
    BY <1>2 DEF Expval

LEMMA exponentialText ==
  ASSUME NEW v, NEW prec \in Int, NEW columns \in Int, NEW fl, v.x \in Int
  PROVE  IsText(exponential(v, prec, columns, fl))
  <1> DEFINE adapt    == "ADAPT_EXP" \in fl
             asFixed  == adapt /\ Expval(v) \in -4..5
             p0       == IF "PRECISION" \in fl THEN prec ELSE 6
             p        == IF asFixed THEN Max({0, p0 - Expval(v) - 1})
                         ELSE IF adapt /\ p0 > 0 /\ "PRECISION" \in fl THEN p0 - 1 ELSE p0
             e        == IF asFixed THEN 0 ELSE Expval(v)
             minwidth == IF asFixed THEN 0 ELSE IF Expval(v) \in -99..99 THEN 4 ELSE 5
             fwidth   == IF columns <= minwidth \/ ("LEFT" \in fl /\ minwidth > 0)
                         THEN 0 ELSE columns - minwidth
             mantissa == fixed(IF v.n = 0 THEN v ELSE [v EXCEPT !.x = @ - e], p, fwidth,
                               (fl \ {"ADAPT_EXP"}) \cup
                               (IF asFixed THEN {"PRECISION"} ELSE {}))
             exponent == ntoa(IF e < 0 THEN -e ELSE e, e < 0, 10, 0, minwidth - 1,
                              {"ZEROPAD", "PLUS"})
             text     == mantissa \o <<IF "UPPERCASE" \in fl THEN "E" ELSE "e">> \o exponent
  <1>1. Expval(v) \in Int
    BY ExpvalInt
  <1> HIDE DEF asFixed
  <1>2. p \in Int
    <2>1. p0 \in Int /\ p0 - Expval(v) - 1 \in Int /\ p0 - 1 \in Int
      BY <1>1
    <2> HIDE DEF p0
    <2>2. Max({0, p0 - Expval(v) - 1}) \in Int
      BY <2>1, MaxOfTwo
    <2> QED
      BY <2>1, <2>2
  <1> HIDE DEF p
  <1>3. minwidth \in Int /\ minwidth - 1 \in Int /\ fwidth \in Int
    <2>1. minwidth \in Int
      OBVIOUS
    <2> HIDE DEF minwidth
    <2> QED
      BY <2>1
  <1> HIDE DEF minwidth, fwidth, e
  <1>4. IsText(mantissa)
    BY <1>2, <1>3, fixedText
  <1> HIDE DEF mantissa
  <1>5. IsText(exponent)
    <2>1. 0 \in Int
      OBVIOUS
    <2> QED
      BY <1>3, <2>1, ntoaText, Zenon
  <1> HIDE DEF exponent
  <1>6. IsText(text)
    BY <1>4, <1>5, ShortTexts, CatText
  <1> HIDE DEF text
  <1>7. IsText(text \o Rep(" ", columns - Len(text)))
    <2>1. columns - Len(text) \in Int
      BY <1>6 DEF IsText
    <2> QED
      BY <1>6, <2>1, RepText, CatText
  <1> QED
    BY <1>4, <1>6, <1>7
       DEF exponential, text, exponent, mantissa, fwidth, minwidth, e, p, asFixed

\* A double, printed one way or the other.
LEMMA FloatText ==
  ASSUME NEW v, NEW prec \in Int, NEW columns \in Int, NEW fl, v.x \in Int
  PROVE  IsText(ftoa(v, prec, columns, fl)) /\ IsText(etoa(v, prec, columns, fl))
  <1>1. /\ IsText(fixed(v, prec, columns, fl)) /\ IsText(special(v, columns, fl))
        /\ IsText(exponential(v, prec, columns, fl))
    BY fixedText, specialText, exponentialText
  <1> QED
    BY <1>1 DEF ftoa, etoa

LEMMA charFieldText ==
  ASSUME NEW ch, NEW columns \in Int, NEW fl
  PROVE  IsText(charField(ch, columns, fl))
  <1>1. IsText(Rep(" ", columns - 1)) /\ IsText(<<ch>>)
    <2>1. columns - 1 \in Int
      OBVIOUS
    <2> QED
      BY <2>1, RepText, ShortTexts
  <1>2. /\ IsText(Rep(" ", columns - 1) \o <<ch>>)
        /\ IsText(<<ch>> \o Rep(" ", columns - 1))
    BY <1>1, CatText
  <1> QED
    BY <1>2 DEF charField

LEMMA stringFieldText ==
  ASSUME NEW s, NEW prec \in Int, NEW columns \in Int, NEW fl, IsText(s)
  PROVE  IsText(stringField(s, prec, columns, fl))
  <1> DEFINE text == IF "PRECISION" \in fl THEN Cut(s, prec) ELSE s
             pad  == Rep(" ", columns - Len(text))
  <1>1. IsText(text)
    BY CutText
  <1> HIDE DEF text
  <1>2. IsText(pad)
    <2>1. columns - Len(text) \in Int
      BY <1>1 DEF IsText
    <2> QED
      BY <2>1, RepText
  <1> HIDE DEF pad
  <1>3. IsText(text \o pad) /\ IsText(pad \o text)
    BY <1>1, <1>2, CatText
  <1> QED
    BY <1>3 DEF stringField, pad, text

------------------------------------------------------------------------------
(***************************************************************************)
(* What the caller's memory holds.                                         *)
(***************************************************************************)
\* Between two fields, numbers are numbers, what is left of the arguments can be
\* taken, and idx counts what was put out.
ReadInv ==
  /\ call \in Calls
  /\ at \in Nat
  /\ IsText(args) /\ \A i \in DOMAIN args : IsArg(args[i])
  /\ width \in Int /\ precision \in Int
  /\ IsText(full) /\ idx = Len(full)
  /\ DOMAIN mem = 0..MemSize - 1

\* Until the terminator is written, the buffer holds the output as far as it fits.
MemInv ==
  call.sink = "buffer" /\ pc # "returned" =>
    \A i \in 0..MemSize - 1 :
      mem[i] = IF i < call.maxlen /\ i < idx THEN full[i + 1] ELSE Old

IInv == ReadInv /\ MemInv /\ CutToFit

LEMMA CallFacts ==
  ASSUME ReadInv
  PROVE  /\ call.maxlen \in Nat /\ MemSize \in Nat /\ idx \in Nat
         /\ call.sink \in {"buffer", "function", "none"}
  BY PrintfCalls, PrintfWidths DEF ReadInv, IsText

LEMMA MemGivesCut == ReadInv /\ MemInv /\ pc # "returned" => CutToFit
  <1> SUFFICES ASSUME ReadInv, MemInv, pc # "returned"
               PROVE  CutToFit
    OBVIOUS
  <1>1. call.maxlen \in Nat /\ MemSize \in Nat /\ idx \in Nat
    BY CallFacts
  <1>2. ASSUME call.sink = "buffer", NEW i \in call.maxlen..MemSize - 1
        PROVE  mem[i] = Old
    <2>1. i \in 0..MemSize - 1 /\ ~(i < call.maxlen)
      BY <1>1, <1>2
    <2> QED
      BY <1>2, <2>1 DEF MemInv
  <1> QED
    BY <1>2 DEF CutToFit

LEMMA TakeArgs ==
  ASSUME ReadInv, NEW type, Take(type)
  PROVE  /\ IsText(args') /\ \A i \in DOMAIN args' : IsArg(args'[i])
         /\ type = "int" => Head(args).value \in Int
         /\ type = "double" => Head(args).value.x \in Int
         /\ type = "string" => IsText(Head(args).value)
  <1>1. args # << >> /\ Head(args).type = type /\ args' = Tail(args)
    BY DEF Take
  <1>2. PICK S : args \in Seq(S)
    BY TextsAreSeqs DEF ReadInv
  <1>3. /\ Len(args) \in Nat \ {0} /\ Head(args) = args[1] /\ 1 \in DOMAIN args
        /\ DOMAIN args = 1..Len(args)
    BY <1>1, <1>2, LenProperties, EmptySeq
  <1>4. /\ Tail(args) \in Seq(S) /\ Len(Tail(args)) = Len(args) - 1
        /\ DOMAIN Tail(args) = 1..Len(args) - 1
        /\ \A i \in 1..Len(args) - 1 : Tail(args)[i] = args[i + 1]
    BY <1>1, <1>2, HeadTailProperties, LenProperties
  <1>5. IsText(Tail(args))
    BY <1>4, SeqIsText
  <1>6. ASSUME NEW i \in DOMAIN Tail(args)
        PROVE  IsArg(Tail(args)[i])
    <2>1. i + 1 \in DOMAIN args /\ Tail(args)[i] = args[i + 1]
      BY <1>3, <1>4
    <2> QED
      BY <2>1 DEF ReadInv
  <1>7. IsArg(Head(args))
    BY <1>3 DEF ReadInv
  <1>8. /\ type = "int" => Head(args).value \in Int
        /\ type = "double" => Head(args).value.x \in Int
        /\ type = "string" => Head(args).value \in Seq(STRING)
    BY <1>1, <1>7 DEF IsArg
  <1> QED
    BY <1>1, <1>5, <1>6, <1>8, SeqIsText

\* Every character of a field is stored, if there is room for it.
LEMMA EmitKeeps ==
  ASSUME ReadInv, MemInv, pc # "returned", NEW text, IsText(text), Emit(text), call' = call
  PROVE  /\ IsText(full') /\ idx' = Len(full') /\ DOMAIN mem' = 0..MemSize - 1
         /\ MemInv'
  <1> DEFINE n == Len(text)
  <1>1. /\ call.maxlen \in Nat /\ MemSize \in Nat /\ idx \in Nat /\ n \in Nat
        /\ idx = Len(full) /\ IsText(full)
    BY CallFacts DEF IsText, ReadInv
  <1>2. /\ mem' = IF call.sink = "buffer" THEN Stored(text, idx, call.maxlen) ELSE mem
        /\ idx' = idx + n /\ full' = full \o text
    BY DEF Emit, out
  <1>3. /\ IsText(full') /\ idx' = Len(full')
        /\ \A i \in 1..idx + n : full'[i] = IF i <= idx THEN full[i] ELSE text[i - idx]
    BY <1>1, <1>2, CatText
  <1>4. DOMAIN mem' = 0..MemSize - 1
    BY <1>2 DEF Stored, ReadInv
  <1>5. ASSUME call.sink = "buffer", NEW i \in 0..MemSize - 1
        PROVE  mem'[i] = IF i < call.maxlen /\ i < idx' THEN full'[i + 1] ELSE Old
    <2>1. mem'[i] = IF i < call.maxlen /\ i - idx \in 0..n - 1 THEN text[i - idx + 1] ELSE mem[i]
      BY <1>2, <1>5 DEF Stored, ReadInv
    <2>2. mem[i] = IF i < call.maxlen /\ i < idx THEN full[i + 1] ELSE Old
      BY <1>5 DEF MemInv
    <2>3. CASE i < idx
      <3>1. i + 1 \in 1..idx + n /\ i + 1 <= idx /\ i < idx' /\ i - idx \notin 0..n - 1
        BY <1>1, <1>2, <2>3
      <3> QED
        BY <1>3, <2>1, <2>2, <2>3, <3>1
    <2>4. CASE ~(i < idx) /\ i < idx + n
      <3>1. /\ i + 1 \in 1..idx + n /\ ~(i + 1 <= idx) /\ i < idx' /\ i - idx \in 0..n - 1
            /\ i + 1 - idx = i - idx + 1
        BY <1>1, <1>2, <2>4
      <3>2. ASSUME NEW j, j = i + 1
            PROVE  full'[j] = text[i - idx + 1]
        <4>1. j \in 1..idx + n /\ ~(j <= idx) /\ j - idx = i - idx + 1
          BY <1>1, <2>4, <3>2
        <4> QED
          BY <1>3, <4>1
      <3>3. full'[i + 1] = text[i - idx + 1]
        BY <3>2
      <3>4. i < call.maxlen => mem'[i] = text[i - idx + 1]
        BY <2>1, <3>1
      <3>5. ~(i < call.maxlen) => mem'[i] = Old
        BY <2>1, <2>2
      <3> QED
        BY <3>1, <3>3, <3>4, <3>5
    <2>5. CASE ~(i < idx + n)
      <3>1. ~(i < idx) /\ ~(i < idx') /\ i - idx \notin 0..n - 1
        BY <1>1, <1>2, <2>5
      <3> QED
        BY <2>1, <2>2, <3>1
    <2> QED
      BY <2>3, <2>4, <2>5
  <1> QED
    BY <1>3, <1>4, <1>5 DEF MemInv

\* A field that takes the argument it is made from.
LEMMA ConvertedKeeps ==
  ASSUME IInv, pc # "returned", NEW conv, NEW text, IsText(text), Converted(conv, text),
         IsText(args'), \A i \in DOMAIN args' : IsArg(args'[i])
  PROVE  IInv'
  <1>1. /\ Emit(text) /\ call' = call /\ pc' = "scan" /\ at' = at + 1
        /\ width' = width /\ precision' = precision
    BY DEF Converted, directive
  <1>2. /\ IsText(full') /\ idx' = Len(full') /\ DOMAIN mem' = 0..MemSize - 1
        /\ MemInv'
    BY <1>1, EmitKeeps DEF IInv
  <1>3. ReadInv'
    BY <1>1, <1>2 DEF IInv, ReadInv
  <1>4. (pc # "returned")'
    BY <1>1
  <1>5. CutToFit'
    BY <1>2, <1>3, <1>4, MemGivesCut, PTL
  <1> QED
    BY <1>2, <1>3, <1>5 DEF IInv

\* Reading a directive leaves the output alone.
LEMMA ReadingKeeps ==
  ASSUME IInv, pc # "returned", UNCHANGED <<call, output>>, pc' # "returned",
         IsText(args'), \A i \in DOMAIN args' : IsArg(args'[i]),
         at' \in Nat, width' \in Int, precision' \in Int
  PROVE  IInv'
  <1>1. /\ call' = call /\ full' = full /\ idx' = idx /\ mem' = mem
    BY DEF output
  <1>2. ReadInv'
    BY <1>1 DEF IInv, ReadInv
  <1>3. MemInv'
    BY <1>1 DEF IInv, MemInv
  <1>4. (pc # "returned")'
    OBVIOUS
  <1>5. CutToFit'
    BY <1>2, <1>3, <1>4, MemGivesCut, PTL
  <1> QED
    BY <1>2, <1>3, <1>5 DEF IInv

LEMMA DigitValueType == ASSUME NEW c \in Numerals PROVE DigitValue[c] \in 0..9
  <1>1. \E d \in 0..9 : Lower[d + 1] = c
    <2>1. PICK d \in 1..10 : Lower[d] = c
      BY DEF Numerals, Lower
    <2>2. d - 1 \in 0..9 /\ (d - 1) + 1 = d
      OBVIOUS
    <2> QED
      BY <2>1, <2>2
  <1>2. DigitValue[c] = CHOOSE d \in 0..9 : Lower[d + 1] = c
    BY DEF DigitValue
  <1> QED
    BY <1>1, <1>2

LEMMA AtoiType ==
  ASSUME NEW number \in Int, _is_digit(Char(at))
  PROVE  _atoi(number) \in Int
  <1>1. DigitValue[Char(at)] \in Int
    BY DigitValueType DEF _is_digit
  <1> QED
    BY <1>1 DEF _atoi

\* Every way to read on but the conversions.
LEMMA DirectiveKeeps == ASSUME IInv, Directive PROVE IInv'
  BY ReadingKeeps DEF IInv, ReadInv, Directive

LEMMA FlagKeeps == ASSUME IInv, Flag PROVE IInv'
  BY ReadingKeeps DEF IInv, ReadInv, Flag

LEMMA WidthKeeps == ASSUME IInv, Width PROVE IInv'
  <1> USE DEF IInv, ReadInv
  <1>1. CASE Char(at) = "*" /\ Take("int")
    <2>1. /\ IsText(args') /\ \A i \in DOMAIN args' : IsArg(args'[i])
          /\ Head(args).value \in Int
      BY <1>1, TakeArgs
    <2>2. width' \in Int /\ precision' = precision /\ at' = at + 1 /\ pc' = "precision"
          /\ pc # "returned" /\ UNCHANGED <<call, output>>
      BY <1>1, <2>1 DEF Width
    <2> QED
      BY <2>1, <2>2, ReadingKeeps
  <1>2. CASE Char(at) # "*"
    BY <1>2, ReadingKeeps DEF Width
  <1> QED
    BY <1>1, <1>2 DEF Width

LEMMA WidthDigitKeeps == ASSUME IInv, WidthDigit PROVE IInv'
  <1>1. width \in Int /\ (_is_digit(Char(at)) => _atoi(width) \in Int)
    BY AtoiType DEF IInv, ReadInv
  <1>2. CASE _is_digit(Char(at))
    <2>1. /\ width' = _atoi(width) /\ at' = at + 1 /\ pc' = pc /\ pc # "returned"
          /\ UNCHANGED <<call, args, precision, output>>
      BY <1>2 DEF WidthDigit
    <2> QED
      BY <1>1, <1>2, <2>1, ReadingKeeps DEF IInv, ReadInv
  <1>3. CASE ~_is_digit(Char(at))
    <2>1. /\ pc' = "precision" /\ pc # "returned"
          /\ UNCHANGED <<call, at, args, width, precision, output>>
      BY <1>3 DEF WidthDigit
    <2> QED
      BY <2>1, ReadingKeeps DEF IInv, ReadInv
  <1> QED
    BY <1>2, <1>3

LEMMA PrecisionKeeps == ASSUME IInv, Precision PROVE IInv'
  <1> USE DEF IInv, ReadInv
  <1>1. CASE Char(at) # "."
    BY <1>1, ReadingKeeps DEF Precision
  <1>2. CASE Char(at) = "." /\ Char(at + 1) = "*"
    <2>1. Take("int") /\ precision' = Max({0, Head(args).value}) /\ width' = width
          /\ at' = at + 2 /\ pc' = "length" /\ pc # "returned" /\ UNCHANGED <<call, output>>
      BY <1>2 DEF Precision
    <2>2. /\ IsText(args') /\ \A i \in DOMAIN args' : IsArg(args'[i])
          /\ Head(args).value \in Int
      BY <2>1, TakeArgs
    <2>3. Max({0, Head(args).value}) \in Int
      <3>1. 0 \in Int
        OBVIOUS
      <3> QED
        BY <2>2, <3>1, MaxOfTwo
    <2> QED
      BY <2>1, <2>2, <2>3, ReadingKeeps
  <1>3. CASE Char(at) = "." /\ Char(at + 1) # "*"
    <2>1. /\ pc # "returned" /\ pc' # "returned" /\ at' = at + 1
          /\ UNCHANGED <<call, args, width, precision, output>>
      BY <1>3 DEF Precision
    <2> QED
      BY <2>1, ReadingKeeps
  <1> QED
    BY <1>1, <1>2, <1>3

LEMMA PrecisionDigitKeeps == ASSUME IInv, PrecisionDigit PROVE IInv'
  <1>1. precision \in Int /\ (_is_digit(Char(at)) => _atoi(precision) \in Int)
    BY AtoiType DEF IInv, ReadInv
  <1>2. CASE _is_digit(Char(at))
    <2>1. /\ precision' = _atoi(precision) /\ at' = at + 1 /\ pc' = pc /\ pc # "returned"
          /\ UNCHANGED <<call, args, width, output>>
      BY <1>2 DEF PrecisionDigit
    <2> QED
      BY <1>1, <1>2, <2>1, ReadingKeeps DEF IInv, ReadInv
  <1>3. CASE ~_is_digit(Char(at))
    <2>1. /\ pc' = "length" /\ pc # "returned"
          /\ UNCHANGED <<call, at, args, width, precision, output>>
      BY <1>3 DEF PrecisionDigit
    <2> QED
      BY <2>1, ReadingKeeps DEF IInv, ReadInv
  <1> QED
    BY <1>2, <1>3

LEMMA LengthKeeps == ASSUME IInv, Length PROVE IInv'
  BY ReadingKeeps DEF IInv, ReadInv, Length, Letters

\* The characters that are put out as they are.
LEMMA LiteralKeeps == ASSUME IInv, Literal PROVE IInv'
  <1>1. /\ pc = "scan" /\ pc' = pc /\ Emit(<<Char(at)>>) /\ call' = call
        /\ at' = at + 1 /\ args' = args /\ width' = width /\ precision' = precision
    BY DEF Literal, directive
  <1>2. IsText(<<Char(at)>>)
    BY ShortTexts
  <1>3. /\ IsText(full') /\ idx' = Len(full') /\ DOMAIN mem' = 0..MemSize - 1
        /\ MemInv'
    BY <1>1, <1>2, EmitKeeps DEF IInv
  <1>4. ReadInv'
    BY <1>1, <1>3 DEF IInv, ReadInv
  <1>5. (pc # "returned")'
    BY <1>1
  <1>6. CutToFit'
    BY <1>3, <1>4, <1>5, MemGivesCut, PTL
  <1> QED
    BY <1>3, <1>4, <1>6 DEF IInv

LEMMA RunsPastKeeps == ASSUME IInv, RunsPast PROVE IInv'
  <1>1. /\ pc = "specifier" /\ pc' = "past the end" /\ Emit(<<Nul>>) /\ call' = call
        /\ at' = at + 1 /\ args' = args /\ width' = width /\ precision' = precision
    BY DEF RunsPast, directive
  <1>2. IsText(<<Nul>>)
    BY ShortTexts
  <1>3. /\ IsText(full') /\ idx' = Len(full') /\ DOMAIN mem' = 0..MemSize - 1
        /\ MemInv'
    BY <1>1, <1>2, EmitKeeps DEF IInv
  <1>4. ReadInv'
    <2>1. at \in Nat /\ call \in Calls /\ width \in Int /\ precision \in Int
      BY DEF IInv, ReadInv
    <2>2. IsText(args') /\ \A i \in DOMAIN args' : IsArg(args'[i])
      BY <1>1 DEF IInv, ReadInv
    <2>3. at' = at + 1
      BY <1>1
    <2>4. at' \in Nat
      BY <2>1, <2>3
    <2> QED
      BY <1>1, <1>3, <2>1, <2>2, <2>4 DEF ReadInv
  <1>5. (pc # "returned")'
    BY <1>1
  <1>6. CutToFit'
    BY <1>3, <1>4, <1>5, MemGivesCut, PTL
  <1> QED
    BY <1>3, <1>4, <1>6 DEF IInv

LEMMA ItselfKeeps == ASSUME IInv, Itself PROVE IInv'
  <1>1. /\ Converted({Char(at)}, <<Char(at)>>) /\ args' = args /\ pc # "returned"
    BY DEF Itself, Converted
  <1>2. IsText(<<Char(at)>>)
    BY ShortTexts
  <1>3. IsText(args') /\ \A i \in DOMAIN args' : IsArg(args'[i])
    BY <1>1 DEF IInv, ReadInv
  <1> QED
    BY <1>1, <1>2, <1>3, ConvertedKeeps

\* The conversions, by the type of their argument.
LEMMA IntegerKeeps == ASSUME IInv, Integer PROVE IInv'
  <1>1. PICK value, negative, base, used :
          Converted({"d", "i", "u", "x", "X", "o", "b"},
                    ntoa(value, negative, base, precision, width, used))
    BY DEF Integer
  <1>2. IsText(ntoa(value, negative, base, precision, width, used))
    BY ntoaText DEF IInv, ReadInv
  <1>3. Take(IntType) /\ pc # "returned"
    BY <1>1 DEF Integer, Converted
  <1>4. IsText(args') /\ \A i \in DOMAIN args' : IsArg(args'[i])
    BY <1>3, TakeArgs DEF IInv
  <1> QED
    BY <1>1, <1>2, <1>3, <1>4, ConvertedKeeps

LEMMA FixedKeeps == ASSUME IInv, Fixed PROVE IInv'
  <1>1. PICK fl : Converted({"f", "F"}, ftoa(Head(args).value, precision, width, fl))
    BY DEF Fixed
  <1>2. Take("double") /\ pc # "returned"
    BY <1>1 DEF Fixed, Converted
  <1>3. /\ IsText(args') /\ \A i \in DOMAIN args' : IsArg(args'[i])
        /\ Head(args).value.x \in Int
    BY <1>2, TakeArgs DEF IInv
  <1>4. IsText(ftoa(Head(args).value, precision, width, fl))
    BY <1>3, FloatText DEF IInv, ReadInv
  <1> QED
    BY <1>1, <1>2, <1>3, <1>4, ConvertedKeeps

LEMMA ExponentialKeeps == ASSUME IInv, Exponential PROVE IInv'
  <1>1. PICK fl : Converted({"e", "E", "g", "G"}, etoa(Head(args).value, precision, width, fl))
    BY DEF Exponential
  <1>2. Take("double") /\ pc # "returned"
    BY <1>1 DEF Exponential, Converted
  <1>3. /\ IsText(args') /\ \A i \in DOMAIN args' : IsArg(args'[i])
        /\ Head(args).value.x \in Int
    BY <1>2, TakeArgs DEF IInv
  <1>4. IsText(etoa(Head(args).value, precision, width, fl))
    BY <1>3, FloatText DEF IInv, ReadInv
  <1> QED
    BY <1>1, <1>2, <1>3, <1>4, ConvertedKeeps

LEMMA CharacterKeeps == ASSUME IInv, Character PROVE IInv'
  <1>1. PICK ch : Converted({"c"}, charField(ch, width, flags))
    BY DEF Character
  <1>2. Take("int") /\ pc # "returned"
    BY <1>1 DEF Character, Converted
  <1>3. IsText(args') /\ \A i \in DOMAIN args' : IsArg(args'[i])
    BY <1>2, TakeArgs DEF IInv
  <1>4. IsText(charField(ch, width, flags))
    BY charFieldText DEF IInv, ReadInv
  <1> QED
    BY <1>1, <1>2, <1>3, <1>4, ConvertedKeeps

LEMMA StringKeeps == ASSUME IInv, String PROVE IInv'
  <1>1. /\ Take("string") /\ pc # "returned"
        /\ Converted({"s"}, stringField(Head(args).value, precision, width, flags))
    BY DEF String, Converted
  <1>2. /\ IsText(args') /\ \A i \in DOMAIN args' : IsArg(args'[i])
        /\ IsText(Head(args).value)
    BY <1>1, TakeArgs DEF IInv
  <1>3. IsText(stringField(Head(args).value, precision, width, flags))
    BY <1>2, stringFieldText DEF IInv, ReadInv
  <1> QED
    BY <1>1, <1>2, <1>3, ConvertedKeeps

LEMMA PointerKeeps == ASSUME IInv, Pointer PROVE IInv'
  <1>1. PICK value, fl : Converted({"p"}, ntoa(value, FALSE, 16, precision, IntBits \div 4, fl))
    BY DEF Pointer
  <1>2. IntBits \div 4 \in Int
    BY PrintfWidths
  <1>3. IsText(ntoa(value, FALSE, 16, precision, IntBits \div 4, fl))
    BY <1>2, ntoaText DEF IInv, ReadInv
  <1>4. Take("pointer") /\ pc # "returned"
    BY <1>1 DEF Pointer, Converted
  <1>5. IsText(args') /\ \A i \in DOMAIN args' : IsArg(args'[i])
    BY <1>4, TakeArgs DEF IInv
  <1> QED
    BY <1>1, <1>3, <1>4, <1>5, ConvertedKeeps

\* The terminator goes behind the output, or over the last character that fits.
LEMMA TerminateKeeps == ASSUME IInv, Terminate PROVE IInv'
  <1> DEFINE limit == call.maxlen
             pos   == IF idx < limit \/ limit = 0 THEN idx ELSE limit - 1
  <1>1. /\ mem' = IF call.sink = "buffer" THEN Stored(<<Nul>>, pos, limit) ELSE mem
        /\ pc = "scan" /\ pc' = "returned"
        /\ UNCHANGED <<call, at, args, width, precision, idx, full>>
    BY DEF Terminate, out, directive
  <1>2. limit \in Nat /\ MemSize \in Nat /\ idx \in Nat
    BY CallFacts DEF IInv
  <1>3. DOMAIN mem' = 0..MemSize - 1
    BY <1>1 DEF Stored, IInv, ReadInv
  <1>4. ReadInv' /\ MemInv'
    BY <1>1, <1>3 DEF IInv, ReadInv, MemInv
  <1>5. ASSUME call.sink = "buffer", NEW i \in 0..MemSize - 1
        PROVE  /\ mem'[i] = IF i < limit /\ i = pos THEN Nul ELSE mem[i]
               /\ mem[i] = IF i < limit /\ i < idx THEN full[i + 1] ELSE Old
    <2>1. mem'[i] = IF i < limit /\ i - pos \in 0..Len(<<Nul>>) - 1
                    THEN <<Nul>>[i - pos + 1] ELSE mem[i]
      BY <1>1, <1>5 DEF Stored, IInv, ReadInv
    <2>2. pos \in Int
      BY <1>2
    <2> HIDE DEF pos
    <2>3. (i - pos \in 0..Len(<<Nul>>) - 1) <=> i = pos
      BY <2>2
    <2>4. i = pos => i - pos + 1 = 1
      BY <2>2
    <2>5. mem'[i] = IF i < limit /\ i = pos THEN Nul ELSE mem[i]
      BY <2>1, <2>3, <2>4
    <2>6. mem[i] = IF i < limit /\ i < idx THEN full[i + 1] ELSE Old
      BY <1>1, <1>5 DEF IInv, MemInv
    <2> QED
      BY <2>5, <2>6
  <1>6. ASSUME call.sink = "buffer", NEW i \in limit..MemSize - 1
        PROVE  mem'[i] = Old
    <2>1. i \in 0..MemSize - 1 /\ ~(i < limit)
      BY <1>2, <1>6
    <2> QED
      BY <1>5, <1>6, <2>1
  <1>7. ASSUME call.sink = "buffer", NEW i \in 0..Min({limit, MemSize}) - 1
        PROVE  mem'[i] = IF i = Min({idx, limit - 1}) THEN Nul
                         ELSE IF i < idx THEN full[i + 1] ELSE Old
    <2>1. Min({limit, MemSize}) = IF limit <= MemSize THEN limit ELSE MemSize
      BY <1>2, MinOfTwo
    <2>2. i \in 0..MemSize - 1 /\ i < limit
      BY <1>2, <1>7, <2>1
    <2>3. Min({idx, limit - 1}) = IF idx <= limit - 1 THEN idx ELSE limit - 1
      <3>1. limit - 1 \in Int /\ idx \in Int
        BY <1>2
      <3> QED
        BY <3>1, MinOfTwo
    <2>4. Min({idx, limit - 1}) = pos
      BY <1>2, <2>2, <2>3
    <2>5. mem'[i] = IF i = pos THEN Nul ELSE mem[i]
      BY <1>5, <1>7, <2>2
    <2>6. mem[i] = IF i < idx THEN full[i + 1] ELSE Old
      BY <1>5, <1>7, <2>2
    <2> QED
      BY <2>4, <2>5, <2>6
  <1>8. CutToFit'
    BY <1>1, <1>6, <1>7 DEF CutToFit
  <1> QED
    BY <1>4, <1>8 DEF IInv

LEMMA IInvStart == Init => IInv
  <1> SUFFICES ASSUME Init PROVE IInv
    OBVIOUS
  <1>1. ReadInv
    BY PrintfCalls, ShortTexts DEF Init, ReadInv
  <1>2. MemInv
    BY <1>1, CallFacts DEF Init, MemInv
  <1>3. CutToFit
    BY <1>1, <1>2, MemGivesCut DEF Init
  <1> QED
    BY <1>1, <1>2, <1>3 DEF IInv

LEMMA IInvStep == IInv /\ [Next]_vars => IInv'
  <1> SUFFICES ASSUME IInv, [Next]_vars PROVE IInv'
    OBVIOUS
  <1>1. CASE UNCHANGED vars
    BY <1>1 DEF vars, IInv, ReadInv, MemInv, CutToFit
  <1>2. CASE Next
    BY <1>2, LiteralKeeps, DirectiveKeeps, FlagKeeps, WidthKeeps, WidthDigitKeeps,
       PrecisionKeeps, PrecisionDigitKeeps, LengthKeeps, IntegerKeeps, FixedKeeps,
       ExponentialKeeps, CharacterKeeps, StringKeeps, PointerKeeps, ItselfKeeps,
       RunsPastKeeps, TerminateKeeps DEF Next
  <1> QED
    BY <1>1, <1>2

\* printf.h:74-82: for every format and every count, a call writes at most count
\* characters with their terminator, and the buffer holds the output as far as it fits.
THEOREM OutputIsCutToFit == Spec => []CutToFit
  <1>1. Spec => []IInv
    BY IInvStart, IInvStep, PTL DEF Spec
  <1>2. IInv => CutToFit
    BY DEF IInv
  <1> QED
    BY <1>1, <1>2, PTL

------------------------------------------------------------------------------
(***************************************************************************)
(* What is put together from parts has each of them in its place.          *)
(***************************************************************************)
LEMMA SetInduction ==
  ASSUME NEW S, 0 \in S, \A n \in Nat : n \in S => n + 1 \in S
  PROVE  Nat \subseteq S
  <1> DEFINE T == Nat \ S
             R == {ss \in Nat \X Nat : ss[1] < ss[2]}
  <1>1. IsWellFoundedOn(R, Nat)
    BY NatLessThanWellFounded DEF OpToRel
  <1>2. SUFFICES ASSUME T # {} PROVE FALSE
    OBVIOUS
  <1>3. T \subseteq Nat
    OBVIOUS
  <1> HIDE DEF R
  <1>4. PICK x \in T : \A y \in T : <<y, x>> \notin R
    <2> HIDE DEF T
    <2> QED
      BY <1>1, <1>2, <1>3, WFMin
  <1>5. x \in Nat \ {0} /\ x - 1 \in Nat
    OBVIOUS
  <1>6. <<x - 1, x>> \in R
    BY <1>5 DEF R
  <1>7. x - 1 \in S
    BY <1>4, <1>5, <1>6
  <1>8. (x - 1) + 1 \in S
    BY <1>5, <1>7
  <1> QED
    BY <1>5, <1>8

\* A part of whole that starts at from.
Occurs(part, whole, from) ==
  /\ from \in Nat \ {0} /\ from + Len(part) <= Len(whole) + 1
  /\ \A i \in 1..Len(part) : whole[from + i - 1] = part[i]

\* One part behind the other, part k at start[k].
Laid(whole, parts, start) ==
  /\ \A k \in 1..Len(parts) + 1 : start[k] \in Nat \ {0}
  /\ start[1] = 1 /\ start[Len(parts) + 1] = Len(whole) + 1
  /\ \A k \in 1..Len(parts) : /\ start[k + 1] = start[k] + Len(parts[k])
                              /\ Occurs(parts[k], whole, start[k])

\* A sequence of sequences, put together from the left.
Joined(f, parts, n) ==
  f = [i \in 1..n |-> IF i = 1 THEN parts[i] ELSE f[i - 1] \o parts[i]]

LEMMA JoinedExists ==
  ASSUME NEW parts, NEW n \in Nat
  PROVE  \E f : Joined(f, parts, n)
  <1> DEFINE S == {m \in Nat : \E f : Joined(f, parts, m)}
  <1>1. 0 \in S
    <2>1. Joined([i \in 1..0 |-> 0], parts, 0)
      BY DEF Joined
    <2> QED
      BY <2>1
  <1>2. ASSUME NEW m \in Nat, m \in S
        PROVE  m + 1 \in S
    <2>1. PICK f : Joined(f, parts, m)
      BY <1>2
    <2> DEFINE g == [i \in 1..m + 1 |-> IF i = 1 THEN parts[i] ELSE f[i - 1] \o parts[i]]
    <2>2. ASSUME NEW i \in 1..m
          PROVE  g[i] = f[i]
      <3>1. i \in 1..m + 1
        OBVIOUS
      <3>2. f[i] = IF i = 1 THEN parts[i] ELSE f[i - 1] \o parts[i]
        BY <2>1 DEF Joined
      <3> QED
        BY <3>1, <3>2
    <2>3. ASSUME NEW i \in 1..m + 1
          PROVE  g[i] = IF i = 1 THEN parts[i] ELSE g[i - 1] \o parts[i]
      <3>1. i # 1 => i - 1 \in 1..m
        OBVIOUS
      <3> QED
        BY <2>2, <3>1
    <2>4. g = [i \in 1..m + 1 |-> g[i]]
      OBVIOUS
    <2> HIDE DEF g
    <2>5. Joined(g, parts, m + 1)
      BY <2>3, <2>4 DEF Joined
    <2> QED
      BY <2>5
  <1> HIDE DEF S
  <1>3. n \in S
    BY <1>1, <1>2, SetInduction
  <1> QED
    BY <1>3 DEF S

\* The sequences of f grow, and part m ends sequence m.
Grown(f, parts, m) ==
  /\ IsText(f[m])
  /\ Len(f[m]) = (IF m = 1 THEN 0 ELSE Len(f[m - 1])) + Len(parts[m])
  /\ \A k \in 1..m : /\ Len(f[k]) <= Len(f[m])
                     /\ \A i \in 1..Len(f[k]) : f[m][i] = f[k][i]

LEMMA JoinedGrows ==
  ASSUME NEW parts, NEW n \in Nat, NEW f, Joined(f, parts, n),
         \A k \in 1..n : IsText(parts[k])
  PROVE  \A m \in 1..n : Grown(f, parts, m)
  <1> DEFINE S == {m \in Nat : \A j \in 1..m : j <= n => Grown(f, parts, j)}
  <1>1. 0 \in S
    OBVIOUS
  <1>2. ASSUME NEW m \in Nat, m \in S, m + 1 <= n
        PROVE  Grown(f, parts, m + 1)
    <2> DEFINE h == m + 1
    <2>1. h \in 1..n /\ IsText(parts[h])
      BY <1>2
    <2>2. f[h] = IF h = 1 THEN parts[h] ELSE f[h - 1] \o parts[h]
      BY <2>1 DEF Joined
    <2>3. CASE m = 0
      <3>1. h = 1 /\ f[1] = parts[1] /\ IsText(f[1])
        BY <2>1, <2>2, <2>3
      <3>2. Len(f[1]) \in Nat /\ \A k \in 1..1 : k = 1
        BY <3>1 DEF IsText
      <3>3. Grown(f, parts, 1)
        BY <3>1, <3>2 DEF Grown
      <3> QED
        BY <3>1, <3>3
    <2>4. CASE m # 0
      <3>1. h # 1 /\ h - 1 = m /\ m \in 1..m /\ m <= n
        BY <1>2, <2>4
      <3>2. Grown(f, parts, m)
        BY <1>2, <3>1
      <3>3. f[h] = f[m] \o parts[h] /\ IsText(f[m])
        BY <2>2, <3>1, <3>2 DEF Grown
      <3> HIDE DEF h
      <3>4. /\ IsText(f[h]) /\ Len(f[m]) \in Nat /\ Len(parts[h]) \in Nat
            /\ Len(f[h]) = Len(f[m]) + Len(parts[h])
            /\ \A i \in 1..Len(f[m]) + Len(parts[h]) :
                  f[h][i] = IF i <= Len(f[m]) THEN f[m][i] ELSE parts[h][i - Len(f[m])]
        <4>1. /\ IsText(f[m] \o parts[h]) /\ Len(f[m]) \in Nat /\ Len(parts[h]) \in Nat
              /\ Len(f[m] \o parts[h]) = Len(f[m]) + Len(parts[h])
              /\ \A i \in 1..Len(f[m]) + Len(parts[h]) :
                    (f[m] \o parts[h])[i]
                      = IF i <= Len(f[m]) THEN f[m][i] ELSE parts[h][i - Len(f[m])]
          BY <2>1, <3>3, CatText
        <4> QED
          BY <3>3, <4>1
      <3>5. Len(f[m]) <= Len(f[h]) /\ Len(f[h]) \in Nat
        <4>1. /\ Len(f[m]) \in Nat /\ Len(parts[h]) \in Nat
              /\ Len(f[h]) = Len(f[m]) + Len(parts[h])
          BY <3>4
        <4> DEFINE a == Len(f[m])  b == Len(parts[h])  c == Len(f[h])
        <4>2. a \in Nat /\ b \in Nat /\ c = a + b
          BY <4>1
        <4> HIDE DEF a, b, c
        <4>3. a <= c /\ c \in Nat
          BY <4>2
        <4> QED
          BY <4>3 DEF a, c
      <3>6. \A i \in 1..Len(f[m]) : f[h][i] = f[m][i]
        <4> TAKE i \in 1..Len(f[m])
        <4>1. i \in 1..Len(f[m]) + Len(parts[h]) /\ i <= Len(f[m])
          <5>1. Len(f[m]) \in Nat /\ Len(parts[h]) \in Nat
            BY <3>4
          <5> DEFINE a == Len(f[m])  b == Len(parts[h])
          <5>2. a \in Nat /\ b \in Nat /\ i \in 1..a
            BY <5>1
          <5> HIDE DEF a, b
          <5>3. i \in 1..a + b /\ i <= a
            BY <5>2
          <5> QED
            BY <5>3 DEF a, b
        <4> QED
          BY <3>4, <4>1
      <3>7. ASSUME NEW k \in 1..h
            PROVE  Len(f[k]) <= Len(f[h]) /\ \A i \in 1..Len(f[k]) : f[h][i] = f[k][i]
        <4>1. CASE k = h
          BY <3>5, <4>1
        <4>2. CASE k # h
          <5>1. k \in 1..m /\ k <= n
            BY <1>2, <3>1, <3>7, <4>2 DEF h
          <5>2. Len(f[k]) <= Len(f[m]) /\ \A i \in 1..Len(f[k]) : f[m][i] = f[k][i]
            BY <3>2, <5>1 DEF Grown
          <5>3. Len(f[k]) \in Nat
            <6>1. Grown(f, parts, k)
              BY <1>2, <5>1
            <6> QED
              BY <6>1 DEF IsText
          <5>4. Len(f[k]) <= Len(f[h])
            <6>1. Len(f[m]) \in Nat /\ Len(f[k]) <= Len(f[m])
              BY <3>4, <5>2
            <6> QED
              BY <3>5, <5>3, <6>1
          <5>5. ASSUME NEW i \in 1..Len(f[k])
                PROVE  f[h][i] = f[k][i]
            <6>1. i \in 1..Len(f[m])
              BY <3>4, <5>2, <5>3
            <6> QED
              BY <3>6, <5>2, <6>1
          <5> QED
            BY <5>4, <5>5
        <4> QED
          BY <4>1, <4>2
      <3>8. Grown(f, parts, h)
        BY <3>1, <3>4, <3>7 DEF Grown
      <3> QED
        BY <3>8 DEF h
    <2> QED
      BY <2>3, <2>4
  <1>3. \A m \in Nat : m \in S => m + 1 \in S
    BY <1>2
  <1>4. n \in S
    <2> HIDE DEF S
    <2> QED
      BY <1>1, <1>3, SetInduction
  <1>5. \A m \in 1..n : Grown(f, parts, m)
    BY <1>4
  <1> QED
    BY <1>5

LEMMA FlattenLaid ==
  ASSUME NEW parts, IsText(parts), \A k \in 1..Len(parts) : IsText(parts[k])
  PROVE  \E start : Laid(FlattenSeq(parts), parts, start)
  <1> DEFINE n == Len(parts)
             whole == FlattenSeq(parts)
             f == CHOOSE g : g = [i \in 1..n |-> IF i = 1 THEN parts[i] ELSE g[i - 1] \o parts[i]]
             start == [k \in 1..n + 1 |-> IF k = 1 THEN 1 ELSE Len(f[k - 1]) + 1]
  <1>1. n \in Nat
    BY DEF IsText
  <1>2. whole = IF n = 0 THEN parts ELSE f[n]
    BY DEF FlattenSeq
  <1>3. Joined(f, parts, n)
    BY <1>1, JoinedExists DEF Joined
  <1> HIDE DEF f, whole
  <1>4. \A m \in 1..n : Grown(f, parts, m)
    <2>1. \A k \in 1..n : IsText(parts[k])
      OBVIOUS
    <2> HIDE DEF n
    <2> QED
      BY <1>1, <1>3, <2>1, JoinedGrows
  <1>5. \A m \in 1..n : Len(f[m]) \in Nat /\ Len(parts[m]) \in Nat
    BY <1>4 DEF IsText, Grown
  <1>6. ASSUME NEW k \in 1..n + 1
        PROVE  start[k] \in Nat \ {0}
    <2>1. k # 1 => k - 1 \in 1..n
      BY <1>1
    <2> QED
      BY <1>5, <2>1
  <1>7. start[1] = 1 /\ start[n + 1] = Len(whole) + 1
    <2>1. CASE n = 0
      BY <1>2, <2>1
    <2>2. CASE n # 0
      <3>1. n + 1 \in 1..n + 1 /\ 1 \in 1..n + 1 /\ n + 1 # 1 /\ (n + 1) - 1 = n
        BY <1>1, <2>2
      <3> QED
        BY <1>2, <2>2, <3>1
    <2> QED
      BY <2>1, <2>2
  <1>8. ASSUME NEW k \in 1..n
        PROVE  start[k + 1] = start[k] + Len(parts[k]) /\ Occurs(parts[k], whole, start[k])
    <2>1. /\ k \in 1..n + 1 /\ k + 1 \in 1..n + 1 /\ k + 1 # 1 /\ (k + 1) - 1 = k
          /\ n \in 1..n /\ n # 0 /\ (k # 1 => k - 1 \in 1..n) /\ k \in 1..k
      BY <1>1
    <2>2. start[k + 1] = Len(f[k]) + 1
      BY <2>1
    <2>3. start[k] = IF k = 1 THEN 1 ELSE Len(f[k - 1]) + 1
      BY <2>1
    <2> HIDE DEF start
    <2>4. start[k + 1] = start[k] + Len(parts[k])
      <3>1. Len(f[k]) = (IF k = 1 THEN 0 ELSE Len(f[k - 1])) + Len(parts[k])
        BY <1>4 DEF Grown
      <3>2. Len(f[k]) \in Nat /\ Len(parts[k]) \in Nat /\ (k # 1 => Len(f[k - 1]) \in Nat)
        BY <1>5, <2>1
      <3>3. CASE k = 1
        BY <2>2, <2>3, <3>1, <3>2, <3>3
      <3>4. CASE k # 1
        <4>1. /\ start[k + 1] = Len(f[k]) + 1 /\ start[k] = Len(f[k - 1]) + 1
              /\ Len(f[k]) = Len(f[k - 1]) + Len(parts[k]) /\ Len(f[k - 1]) \in Nat
          BY <2>2, <2>3, <3>1, <3>2, <3>4
        <4> DEFINE a == Len(f[k])  b == Len(f[k - 1])  c == Len(parts[k])
        <4>2. start[k + 1] = a + 1 /\ start[k] = b + 1 /\ a = b + c /\ b \in Nat /\ c \in Nat
          BY <3>2, <4>1
        <4> HIDE DEF a, b, c
        <4>3. start[k + 1] = start[k] + c
          BY <4>2
        <4> QED
          BY <4>3 DEF c
      <3> QED
        BY <3>3, <3>4
    <2>5. f[k] = IF k = 1 THEN parts[k] ELSE f[k - 1] \o parts[k]
      BY <1>3 DEF Joined
    <2>6. ASSUME NEW i \in 1..Len(parts[k])
          PROVE  f[k][start[k] + i - 1] = parts[k][i]
      <3>1. CASE k = 1
        <4>1. start[k] + i - 1 = i
          BY <1>5, <2>3, <3>1
        <4> QED
          BY <2>5, <3>1, <4>1
      <3>2. CASE k # 1
        <4> DEFINE l == Len(f[k - 1])
        <4>0. l \in Nat /\ Len(parts[k]) \in Nat /\ start[k] = l + 1
          BY <1>5, <2>1, <2>3, <3>2
        <4> HIDE DEF l
        <4>2. /\ start[k] + i - 1 = l + i /\ l + i \in 1..l + Len(parts[k]) /\ ~(l + i <= l)
              /\ (l + i) - l = i
          BY <4>0
        <4>3. \A j \in 1..l + Len(parts[k]) :
                f[k][j] = IF j <= l THEN f[k - 1][j] ELSE parts[k][j - l]
          BY <1>4, <2>1, <2>5, <3>2, CatText DEF l, Grown
        <4> QED
          BY <4>2, <4>3
      <3> QED
        BY <3>1, <3>2
    <2>7. ASSUME NEW i \in 1..Len(parts[k])
          PROVE  whole[start[k] + i - 1] = parts[k][i]
      <3> DEFINE j == start[k] + i - 1
      <3>1. start[k] \in Nat \ {0} /\ Len(parts[k]) \in Nat /\ Len(f[k]) \in Nat
        BY <1>5, <1>6, <2>1
      <3>2. j \in 1..Len(f[k])
        BY <2>2, <2>4, <3>1
      <3>3. f[n][j] = f[k][j]
        BY <1>4, <2>1, <3>2 DEF Grown
      <3> QED
        BY <1>2, <2>1, <2>6, <3>3
    <2>8. start[k] + Len(parts[k]) <= Len(whole) + 1
      <3> DEFINE a == Len(f[k])  b == Len(f[n])
      <3>1. a \in Nat /\ b \in Nat /\ a <= b
        BY <1>4, <1>5, <2>1 DEF Grown
      <3>2. start[k] + Len(parts[k]) = a + 1 /\ Len(whole) = b
        BY <1>2, <2>1, <2>2, <2>4
      <3> HIDE DEF a, b
      <3> QED
        BY <3>1, <3>2
    <2> QED
      BY <1>6, <2>1, <2>4, <2>7, <2>8 DEF Occurs
  <1> HIDE DEF start, n
  <1>9. Laid(whole, parts, start)
    BY <1>6, <1>7, <1>8 DEF Laid, n
  <1> QED
    BY <1>9 DEF whole
LEMMA OccursCat ==
  ASSUME NEW s, NEW t, NEW whole, NEW from, IsText(s), IsText(t),
         IsText(whole), Occurs(s \o t, whole, from)
  PROVE  Occurs(s, whole, from) /\ Occurs(t, whole, from + Len(s))
  <1> DEFINE m == Len(s)  n == Len(t)
  <1>1. /\ m \in Nat /\ n \in Nat /\ Len(s \o t) = m + n
        /\ \A i \in 1..m + n : (s \o t)[i] = IF i <= m THEN s[i] ELSE t[i - m]
    BY CatText
  <1>2. /\ from \in Nat \ {0} /\ from + (m + n) <= Len(whole) + 1
        /\ \A i \in 1..m + n : whole[from + i - 1] = (s \o t)[i]
    BY <1>1 DEF Occurs
  <1>3. ASSUME NEW i \in 1..m
        PROVE  whole[from + i - 1] = s[i]
    <2>1. i \in 1..m + n /\ i <= m
      BY <1>1
    <2> QED
      BY <1>1, <1>2, <2>1
  <1>4. ASSUME NEW i \in 1..n
        PROVE  whole[from + m + i - 1] = t[i]
    <2>1. /\ m + i \in 1..m + n /\ ~(m + i <= m) /\ (m + i) - m = i
          /\ from + (m + i) - 1 = from + m + i - 1
      BY <1>1, <1>2
    <2>2. whole[from + (m + i) - 1] = (s \o t)[m + i]
      BY <1>2, <2>1
    <2>3. (s \o t)[m + i] = t[i]
      BY <1>1, <2>1
    <2> QED
      BY <2>1, <2>2, <2>3
  <1>5. from + m <= Len(whole) + 1 /\ from + m + n <= Len(whole) + 1
    BY <1>1, <1>2 DEF IsText
  <1> QED
    BY <1>1, <1>2, <1>3, <1>4, <1>5 DEF Occurs

LEMMA OccursPair ==
  ASSUME NEW a, NEW b, NEW c, NEW whole, NEW from, IsText(a), IsText(b), IsText(c),
         IsText(whole), Occurs(a \o b \o c, whole, from)
  PROVE  /\ Occurs(a, whole, from) /\ Occurs(b, whole, from + Len(a))
         /\ Occurs(c, whole, from + Len(a) + Len(b))
         /\ Len(a \o b \o c) = Len(a) + Len(b) + Len(c)
  <1>1. IsText(a \o b) /\ Len(a \o b) = Len(a) + Len(b)
    BY CatText
  <1>2. Len(a \o b \o c) = Len(a \o b) + Len(c)
    BY <1>1, CatText
  <1>3. Occurs(a \o b, whole, from) /\ Occurs(c, whole, from + Len(a \o b))
    BY <1>1, OccursCat
  <1>4. Occurs(a, whole, from) /\ Occurs(b, whole, from + Len(a))
    BY <1>3, OccursCat
  <1>5. from + Len(a \o b) = from + Len(a) + Len(b)
    BY <1>1, CatText DEF Occurs
  <1> QED
    BY <1>1, <1>2, <1>3, <1>4, <1>5

------------------------------------------------------------------------------
(***************************************************************************)
(* Where the parts of a piece are, and which argument is taken for which.  *)
(***************************************************************************)
Texts(c) == [k \in DOMAIN c.pieces |-> PieceText(c.pieces[k])]
Types(c) == [k \in DOMAIN c.pieces |-> PieceTypes(c.pieces[k])]
Given(c) == [i \in DOMAIN c.args |-> c.args[i].type]

Count(c) == Len(c.pieces)
ArgCount(c) == Len(c.args)

\* Piece k of c starts at character Start(c, k), with argument Turn(c, k).
Starts(c) == CHOOSE start : Laid(c.format, Texts(c), start)
Turns(c) == CHOOSE turn : Laid(Given(c), Types(c), turn)
Start(c, k) == Starts(c)[k]
Turn(c, k) == Turns(c)[k]

IsDirective(c, k) == k \in 1..Count(c) /\ c.pieces[k].is = "directive"
WidthStar(c, k) == c.pieces[k].width = <<"*">>
PrecisionStar(c, k) == c.pieces[k].precision = <<"*">>
HasPoint(c, k) == c.pieces[k].point # << >>

FlagsAt(c, k) == Start(c, k) + 1
WidthAt(c, k) == FlagsAt(c, k) + Len(c.pieces[k].flags)
PointAt(c, k) == WidthAt(c, k) + Len(c.pieces[k].width)
LengthAt(c, k) == PointAt(c, k) + Len(c.pieces[k].point) + Len(c.pieces[k].precision)
ConvAt(c, k) == LengthAt(c, k) + Len(c.pieces[k].length)

AfterWidth(c, k) == Turn(c, k) + (IF WidthStar(c, k) THEN 1 ELSE 0)
AfterPrecision(c, k) == AfterWidth(c, k) + (IF PrecisionStar(c, k) THEN 1 ELSE 0)

\* Argument m and those behind it are left to be taken.
Left(c, a, m) ==
  /\ m \in 1..ArgCount(c) + 1 /\ Len(a) = ArgCount(c) + 1 - m
  /\ \A i \in 1..Len(a) : a[i] = c.args[m + i - 1]

LEMMA NumberText == ASSUME NEW n \in Number PROVE IsText(n)
  BY SeqIsText, ShortTexts DEF Number

LEMMA LengthsText ==
  ASSUME NEW l \in Lengths PROVE IsText(l) /\ \A i \in 1..Len(l) : l[i] \in {"h", "l", "j", "z", "t"}
  <1> DEFINE S == {"h", "l", "j", "z", "t"}
  <1>1. l \in Seq(S)
    <2>1. << >> \in Seq(S) /\ \A a, b \in S : <<a>> \in Seq(S) /\ <<a, b>> \in Seq(S)
      BY EmptySeq
    <2>2. "h" \in S /\ "l" \in S /\ "j" \in S /\ "z" \in S /\ "t" \in S
      OBVIOUS
    <2> HIDE DEF S
    <2> QED
      BY <2>1, <2>2 DEF Lengths
  <1> QED
    BY <1>1, SeqIsText, ElementOfSeq

\* What a directive is made of.
LEMMA DirectiveParts ==
  ASSUME NEW p, IsPiece(p), p.is = "directive"
  PROVE  /\ PieceText(p) = <<"%">> \o p.flags \o p.width \o p.point \o p.precision
                            \o p.length \o <<p.conv>>
         /\ IsText(p.flags) /\ \A i \in 1..Len(p.flags) : p.flags[i] \in DOMAIN FlagNames
         /\ IsText(p.width) /\ p.width \in Number
         /\ IsText(p.point) /\ IsText(p.precision)
         /\ \/ p.point = << >> /\ p.precision = << >>
            \/ p.point = <<".">> /\ p.precision \in Number
         /\ IsText(p.length) /\ p.length \in Lengths
         /\ p.conv \in Letter
  <1>1. /\ p.flags \in Seq(DOMAIN FlagNames) /\ p.width \in Number
        /\ \/ p.point = << >> /\ p.precision = << >>
           \/ p.point = <<".">> /\ p.precision \in Number
        /\ p.length \in Lengths /\ p.conv \in Letter
    BY DEF IsPiece
  <1>2. IsText(p.flags) /\ \A i \in 1..Len(p.flags) : p.flags[i] \in DOMAIN FlagNames
    BY <1>1, SeqIsText, ElementOfSeq
  <1>3. IsText(p.width) /\ IsText(p.length)
    BY <1>1, NumberText, LengthsText
  <1>4. IsText(p.point) /\ IsText(p.precision)
    BY <1>1, NumberText, ShortTexts
  <1> QED
    BY <1>1, <1>2, <1>3, <1>4 DEF PieceText

LEMMA SevenTexts ==
  ASSUME NEW a, NEW b, NEW c, NEW d, NEW e, NEW f, NEW g, IsText(a), IsText(b), IsText(c),
         IsText(d), IsText(e), IsText(f), IsText(g)
  PROVE  /\ IsText(a \o b \o c \o d \o e \o f \o g)
         /\ Len(a \o b \o c \o d \o e \o f \o g)
              = Len(a) + Len(b) + Len(c) + Len(d) + Len(e) + Len(f) + Len(g)
  <1>1. IsText(a \o b) /\ Len(a \o b) = Len(a) + Len(b)
    BY CatText
  <1>2. IsText(a \o b \o c) /\ Len(a \o b \o c) = Len(a \o b) + Len(c)
    BY <1>1, CatText
  <1>3. IsText(a \o b \o c \o d) /\ Len(a \o b \o c \o d) = Len(a \o b \o c) + Len(d)
    BY <1>2, CatText
  <1>4. /\ IsText(a \o b \o c \o d \o e)
        /\ Len(a \o b \o c \o d \o e) = Len(a \o b \o c \o d) + Len(e)
    BY <1>3, CatText
  <1>5. /\ IsText(a \o b \o c \o d \o e \o f)
        /\ Len(a \o b \o c \o d \o e \o f) = Len(a \o b \o c \o d \o e) + Len(f)
    BY <1>4, CatText
  <1>6. /\ IsText(a \o b \o c \o d \o e \o f \o g)
        /\ Len(a \o b \o c \o d \o e \o f \o g) = Len(a \o b \o c \o d \o e \o f) + Len(g)
    BY <1>5, CatText
  <1> QED
    BY <1>1, <1>2, <1>3, <1>4, <1>5, <1>6

LEMMA PieceIsText ==
  ASSUME NEW p, IsPiece(p)
  PROVE  IsText(PieceText(p)) /\ IsText(PieceTypes(p))
  <1>1. CASE p.is = "text"
    BY <1>1, ShortTexts DEF PieceText, PieceTypes
  <1>2. CASE p.is = "directive"
    <2>1. IsText(PieceText(p))
      <3>1. /\ IsText(<<"%">>) /\ IsText(p.flags) /\ IsText(p.width) /\ IsText(p.point)
            /\ IsText(p.precision) /\ IsText(p.length) /\ IsText(<<p.conv>>)
        BY <1>2, DirectiveParts, ShortTexts
      <3>2. PieceText(p) = <<"%">> \o p.flags \o p.width \o p.point \o p.precision
                           \o p.length \o <<p.conv>>
        BY <1>2, DirectiveParts
      <3>3. IsText(<<"%">> \o p.flags \o p.width \o p.point \o p.precision
                   \o p.length \o <<p.conv>>)
        BY <3>1, SevenTexts
      <3> QED
        BY <3>2, <3>3
    <2>2. PieceTypes(p) = (IF p.width = <<"*">> THEN <<"int">> ELSE << >>)
              \o (IF p.precision = <<"*">> THEN <<"int">> ELSE << >>)
              \o (IF p.conv \in Conversions THEN <<ArgType(p.length, p.conv)>> ELSE << >>)
      BY <1>2 DEF PieceTypes
    <2>3. /\ IsText(IF p.width = <<"*">> THEN <<"int">> ELSE << >>)
          /\ IsText(IF p.precision = <<"*">> THEN <<"int">> ELSE << >>)
          /\ IsText(IF p.conv \in Conversions THEN <<ArgType(p.length, p.conv)>> ELSE << >>)
      BY ShortTexts
    <2> QED
      BY <2>1, <2>2, <2>3, CatText
  <1> QED
    BY <1>1, <1>2 DEF IsPiece

\* The parts of a call are in their places.
LEMMA CallLaid ==
  ASSUME NEW c \in Calls, WellFormed(c)
  PROVE  /\ Count(c) \in Nat /\ DOMAIN c.pieces = 1..Count(c) /\ ArgCount(c) \in Nat
         /\ IsText(c.format) /\ IsText(Given(c)) /\ Len(Given(c)) = ArgCount(c)
         /\ Len(Texts(c)) = Count(c) /\ Len(Types(c)) = Count(c)
         /\ \A i \in 1..ArgCount(c) : Given(c)[i] = c.args[i].type
         /\ Laid(c.format, Texts(c), Starts(c)) /\ Laid(Given(c), Types(c), Turns(c))
  <1>1. /\ Count(c) \in Nat /\ DOMAIN c.pieces = 1..Count(c)
        /\ \A k \in 1..Count(c) : IsPiece(c.pieces[k])
    BY DEF WellFormed, IsText, Count
  <1>2. /\ ArgCount(c) \in Nat /\ DOMAIN c.args = 1..ArgCount(c) /\ c.format \in Seq(STRING)
    BY PrintfCalls DEF IsText, ArgCount
  <1>3. IsText(c.format)
    BY <1>2, SeqIsText
  <1>4. /\ IsText(Given(c)) /\ Len(Given(c)) = ArgCount(c)
        /\ \A i \in 1..ArgCount(c) : Given(c)[i] = c.args[i].type
    <2>1. DOMAIN Given(c) = 1..ArgCount(c) /\ Given(c) = [i \in 1..ArgCount(c) |-> Given(c)[i]]
      BY <1>2 DEF Given
    <2>2. IsText(Given(c)) /\ Len(Given(c)) = ArgCount(c)
      BY <1>2, <2>1, FunctionIsText
    <2> QED
      BY <1>2, <2>2 DEF Given
  <1>5. /\ IsText(Texts(c)) /\ Len(Texts(c)) = Count(c)
        /\ \A k \in 1..Count(c) : IsText(Texts(c)[k])
    <2>1. DOMAIN Texts(c) = 1..Count(c) /\ Texts(c) = [k \in 1..Count(c) |-> Texts(c)[k]]
      BY <1>1 DEF Texts
    <2>2. IsText(Texts(c)) /\ Len(Texts(c)) = Count(c)
      BY <1>1, <2>1, FunctionIsText
    <2>3. \A k \in 1..Count(c) : IsText(Texts(c)[k])
      BY <1>1, PieceIsText DEF Texts
    <2> QED
      BY <2>2, <2>3
  <1>6. /\ IsText(Types(c)) /\ Len(Types(c)) = Count(c)
        /\ \A k \in 1..Count(c) : IsText(Types(c)[k])
    <2>1. DOMAIN Types(c) = 1..Count(c) /\ Types(c) = [k \in 1..Count(c) |-> Types(c)[k]]
      BY <1>1 DEF Types
    <2>2. IsText(Types(c)) /\ Len(Types(c)) = Count(c)
      BY <1>1, <2>1, FunctionIsText
    <2>3. \A k \in 1..Count(c) : IsText(Types(c)[k])
      BY <1>1, PieceIsText DEF Types
    <2> QED
      BY <2>2, <2>3
  <1>7. c.format = FlattenSeq(Texts(c)) /\ Given(c) = FlattenSeq(Types(c))
    BY DEF WellFormed, Texts, Types, Given
  <1>8. \E start : Laid(c.format, Texts(c), start)
    BY <1>5, <1>7, FlattenLaid
  <1>9. \E turn : Laid(Given(c), Types(c), turn)
    BY <1>6, <1>7, FlattenLaid
  <1> QED
    BY <1>1, <1>2, <1>3, <1>4, <1>5, <1>6, <1>8, <1>9 DEF Starts, Turns

LEMMA SevenOccur ==
  ASSUME NEW a, NEW b, NEW c, NEW d, NEW e, NEW f, NEW g, IsText(a), IsText(b), IsText(c),
         IsText(d), IsText(e), IsText(f), IsText(g), NEW whole, NEW from, IsText(whole),
         Occurs(a \o b \o c \o d \o e \o f \o g, whole, from)
  PROVE  /\ Occurs(a, whole, from) /\ Occurs(b, whole, from + Len(a))
         /\ Occurs(c, whole, from + Len(a) + Len(b))
         /\ Occurs(d, whole, from + Len(a) + Len(b) + Len(c))
         /\ Occurs(e, whole, from + Len(a) + Len(b) + Len(c) + Len(d))
         /\ Occurs(f, whole, from + Len(a) + Len(b) + Len(c) + Len(d) + Len(e))
         /\ Occurs(g, whole, from + Len(a) + Len(b) + Len(c) + Len(d) + Len(e) + Len(f))
  <1>1. /\ IsText(a \o b \o c) /\ IsText(d \o e \o f)
        /\ Len(a \o b \o c) = Len(a) + Len(b) + Len(c)
    <2>1. IsText(a \o b) /\ Len(a \o b) = Len(a) + Len(b) /\ IsText(d \o e)
      BY CatText
    <2> QED
      BY <2>1, CatText
  <1>2. /\ IsText(a \o b \o c \o d) /\ IsText(a \o b \o c \o d \o e)
        /\ IsText(a \o b \o c \o d \o e \o f)
        /\ Len(a \o b \o c \o d) = Len(a) + Len(b) + Len(c) + Len(d)
        /\ Len(a \o b \o c \o d \o e) = Len(a) + Len(b) + Len(c) + Len(d) + Len(e)
        /\ Len(a \o b \o c \o d \o e \o f)
             = Len(a) + Len(b) + Len(c) + Len(d) + Len(e) + Len(f)
    <2>1. IsText(a \o b \o c \o d) /\ Len(a \o b \o c \o d) = Len(a \o b \o c) + Len(d)
      BY <1>1, CatText
    <2>2. /\ IsText(a \o b \o c \o d \o e)
          /\ Len(a \o b \o c \o d \o e) = Len(a \o b \o c \o d) + Len(e)
      BY <2>1, CatText
    <2>3. /\ IsText(a \o b \o c \o d \o e \o f)
          /\ Len(a \o b \o c \o d \o e \o f) = Len(a \o b \o c \o d \o e) + Len(f)
      BY <2>2, CatText
    <2> QED
      BY <1>1, <2>1, <2>2, <2>3
  <1>4. /\ Occurs(a \o b \o c \o d \o e \o f, whole, from)
        /\ Occurs(g, whole, from + Len(a \o b \o c \o d \o e \o f))
    BY <1>2, OccursCat
  <1>5. /\ Occurs(a \o b \o c \o d \o e, whole, from)
        /\ Occurs(f, whole, from + Len(a \o b \o c \o d \o e))
    BY <1>2, <1>4, OccursCat
  <1>6. /\ Occurs(a \o b \o c \o d, whole, from)
        /\ Occurs(e, whole, from + Len(a \o b \o c \o d))
    BY <1>2, <1>5, OccursCat
  <1>7. /\ Occurs(a \o b \o c, whole, from) /\ Occurs(d, whole, from + Len(a \o b \o c))
    BY <1>1, <1>6, OccursCat
  <1>8. /\ Occurs(a, whole, from) /\ Occurs(b, whole, from + Len(a))
        /\ Occurs(c, whole, from + Len(a) + Len(b))
    BY <1>7, OccursPair
  <1>9. /\ from \in Nat /\ Len(a) \in Nat /\ Len(b) \in Nat /\ Len(c) \in Nat
        /\ Len(d) \in Nat /\ Len(e) \in Nat /\ Len(f) \in Nat
    BY <1>4 DEF IsText, Occurs
  <1>10. /\ from + (Len(a) + Len(b) + Len(c)) = from + Len(a) + Len(b) + Len(c)
         /\ from + (Len(a) + Len(b) + Len(c) + Len(d))
              = from + Len(a) + Len(b) + Len(c) + Len(d)
         /\ from + (Len(a) + Len(b) + Len(c) + Len(d) + Len(e))
              = from + Len(a) + Len(b) + Len(c) + Len(d) + Len(e)
         /\ from + (Len(a) + Len(b) + Len(c) + Len(d) + Len(e) + Len(f))
              = from + Len(a) + Len(b) + Len(c) + Len(d) + Len(e) + Len(f)
    BY <1>9
  <1> QED
    BY <1>1, <1>2, <1>4, <1>5, <1>6, <1>7, <1>8, <1>10

LEMMA OccursChar ==
  ASSUME NEW part, NEW from, IsText(part), IsText(call.format), Occurs(part, call.format, from)
  PROVE  \A i \in 1..Len(part) : Char(from + i - 1) = part[i]
  <1> DEFINE n == Len(part)  m == Len(call.format)
  <1>1. n \in Nat /\ m \in Nat /\ from \in Nat \ {0} /\ from + n <= m + 1
    BY DEF IsText, Occurs
  <1> TAKE i \in 1..n
  <1>2. call.format[from + i - 1] = part[i]
    BY DEF Occurs
  <1>3. from + i - 1 <= m
    <2> HIDE DEF n, m
    <2> QED
      BY <1>1
  <1> QED
    BY <1>2, <1>3 DEF Char

\* What the characters of directive k are.
DirectiveAt(k) ==
  LET c == call
      flags0 == FlagsAt(c, k)  width0 == WidthAt(c, k)  point == PointAt(c, k)
      length0 == LengthAt(c, k)  conv0 == ConvAt(c, k)
  IN
  /\ {Start(c, k), flags0, width0, point, length0, conv0, Start(c, k + 1)} \subseteq Nat
  /\ flags0 <= width0 /\ width0 <= point /\ point <= length0 /\ length0 <= conv0
  /\ flags0 = Start(c, k) + 1 /\ Start(c, k + 1) = conv0 + 1
  /\ Char(Start(c, k)) = "%"
  /\ \A i \in flags0..width0 - 1 : Char(i) \in DOMAIN FlagNames
  /\ WidthStar(c, k) => point = width0 + 1 /\ Char(width0) = "*"
  /\ ~WidthStar(c, k) => \A i \in width0..point - 1 : Char(i) \in Numerals
  /\ Char(point) \notin DOMAIN FlagNames \cup Numerals \cup {"*"}
  /\ HasPoint(c, k) <=> Char(point) = "."
  /\ ~HasPoint(c, k) => length0 = point /\ ~PrecisionStar(c, k)
  /\ HasPoint(c, k) => point + 1 <= length0
  /\ PrecisionStar(c, k) => length0 = point + 2 /\ Char(point + 1) = "*"
  /\ HasPoint(c, k) /\ ~PrecisionStar(c, k) =>
       /\ \A i \in point + 1..length0 - 1 : Char(i) \in Numerals
       /\ Char(point + 1) # "*"
  /\ Char(length0) \notin Numerals
  /\ conv0 = length0 + Len(c.pieces[k].length) /\ c.pieces[k].length \in Lengths
  /\ \A i \in 1..Len(c.pieces[k].length) : Char(length0 + i - 1) = c.pieces[k].length[i]
  /\ Char(conv0) = c.pieces[k].conv /\ c.pieces[k].conv \in Letter

LEMMA DirectiveLaid ==
  ASSUME call \in Calls, WellFormed(call), NEW k, IsDirective(call, k)
  PROVE  DirectiveAt(k)
  <1> DEFINE p == call.pieces[k]
             s == Start(call, k)
             fl == p.flags
             w == p.width
             pt == p.point
             pr == p.precision
             l == p.length
             cv == p.conv
             ch == <<"%">>
             cvs == <<cv>>
  <1>1. /\ k \in 1..Count(call) /\ DOMAIN call.pieces = 1..Count(call) /\ IsText(call.format)
        /\ Len(Texts(call)) = Count(call) /\ Laid(call.format, Texts(call), Starts(call))
    BY CallLaid DEF IsDirective
  <1>2. IsPiece(p) /\ p.is = "directive"
    BY <1>1 DEF WellFormed, IsDirective
  <1>3. /\ PieceText(p) = ch \o fl \o w \o pt \o pr \o l \o cvs
        /\ IsText(fl) /\ \A i \in 1..Len(fl) : fl[i] \in DOMAIN FlagNames
        /\ IsText(w) /\ w \in Number /\ IsText(pt) /\ IsText(pr)
        /\ \/ pt = << >> /\ pr = << >>
           \/ pt = <<".">> /\ pr \in Number
        /\ IsText(l) /\ l \in Lengths /\ cv \in Letter
    BY <1>2, DirectiveParts
  <1>4. Occurs(PieceText(p), call.format, s) /\ Start(call, k + 1) = s + Len(PieceText(p))
    BY <1>1 DEF Laid, Start, Texts
  <1>5. /\ IsText(ch) /\ Len(ch) = 1 /\ ch[1] = "%"
        /\ IsText(cvs) /\ Len(cvs) = 1 /\ cvs[1] = cv
    BY ShortTexts
  <1>6. /\ WidthStar(call, k) <=> w = <<"*">>
        /\ PrecisionStar(call, k) <=> pr = <<"*">>
        /\ HasPoint(call, k) <=> pt # << >>
        /\ FlagsAt(call, k) = s + 1
        /\ WidthAt(call, k) = FlagsAt(call, k) + Len(fl)
        /\ PointAt(call, k) = WidthAt(call, k) + Len(w)
        /\ LengthAt(call, k) = PointAt(call, k) + Len(pt) + Len(pr)
        /\ ConvAt(call, k) = LengthAt(call, k) + Len(l)
    BY DEF WidthStar, PrecisionStar, HasPoint, FlagsAt, WidthAt, PointAt, LengthAt, ConvAt
  <1>7. call.pieces[k].length = l /\ call.pieces[k].conv = cv
    OBVIOUS
  <1> HIDE DEF fl, w, pt, pr, l, cv, s, ch, cvs, p
  <1> DEFINE f0 == FlagsAt(call, k)  w0 == WidthAt(call, k)  p0 == PointAt(call, k)
             l0 == LengthAt(call, k)  c0 == ConvAt(call, k)
  <1>8. /\ s \in Nat \ {0} /\ Len(fl) \in Nat /\ Len(w) \in Nat /\ Len(pt) \in Nat
        /\ Len(pr) \in Nat /\ Len(l) \in Nat
    BY <1>3, <1>4 DEF Occurs, IsText
  <1>9. /\ {s, f0, w0, p0, l0, c0} \subseteq Nat \ {0}
        /\ f0 = s + 1 /\ w0 = s + 1 + Len(fl) /\ p0 = s + 1 + Len(fl) + Len(w)
        /\ l0 = s + 1 + Len(fl) + Len(w) + Len(pt) + Len(pr)
        /\ c0 = s + 1 + Len(fl) + Len(w) + Len(pt) + Len(pr) + Len(l)
    BY <1>6, <1>8
  <1>10. /\ Occurs(ch, call.format, s) /\ Occurs(fl, call.format, f0)
         /\ Occurs(w, call.format, w0) /\ Occurs(pt, call.format, p0)
         /\ Occurs(pr, call.format, p0 + Len(pt)) /\ Occurs(l, call.format, l0)
         /\ Occurs(cvs, call.format, c0)
         /\ Start(call, k + 1) = c0 + 1
    <2>1. /\ Occurs(ch, call.format, s) /\ Occurs(fl, call.format, s + Len(ch))
          /\ Occurs(w, call.format, s + Len(ch) + Len(fl))
          /\ Occurs(pt, call.format, s + Len(ch) + Len(fl) + Len(w))
          /\ Occurs(pr, call.format, s + Len(ch) + Len(fl) + Len(w) + Len(pt))
          /\ Occurs(l, call.format, s + Len(ch) + Len(fl) + Len(w) + Len(pt) + Len(pr))
          /\ Occurs(cvs, call.format,
                    s + Len(ch) + Len(fl) + Len(w) + Len(pt) + Len(pr) + Len(l))
          /\ Len(PieceText(p))
               = Len(ch) + Len(fl) + Len(w) + Len(pt) + Len(pr) + Len(l) + Len(cvs)
      <3>1. Occurs(ch \o fl \o w \o pt \o pr \o l \o cvs, call.format, s)
        BY <1>3, <1>4
      <3>2. Len(ch \o fl \o w \o pt \o pr \o l \o cvs)
              = Len(ch) + Len(fl) + Len(w) + Len(pt) + Len(pr) + Len(l) + Len(cvs)
        <4>1. /\ IsText(ch) /\ IsText(fl) /\ IsText(w) /\ IsText(pt) /\ IsText(pr)
              /\ IsText(l) /\ IsText(cvs)
          BY <1>3, <1>5
        <4> QED
          BY <4>1, SevenTexts
      <3>3. Len(PieceText(p)) = Len(ch \o fl \o w \o pt \o pr \o l \o cvs)
        BY <1>3
      <3> QED
        BY <1>1, <1>3, <1>5, <3>1, <3>2, <3>3, SevenOccur
    <2> HIDE DEF f0, w0, p0, l0, c0
    <2>2. Start(call, k + 1) = c0 + 1
      BY <1>4, <1>5, <1>8, <1>9, <2>1
    <2> QED
      BY <1>5, <1>9, <2>1, <2>2
  <1>11. /\ \A i \in 1..1 : Char(s + i - 1) = ch[i]
         /\ \A i \in 1..Len(fl) : Char(f0 + i - 1) = fl[i]
         /\ \A i \in 1..Len(w) : Char(w0 + i - 1) = w[i]
         /\ \A i \in 1..Len(pt) : Char(p0 + i - 1) = pt[i]
         /\ \A i \in 1..Len(pr) : Char(p0 + Len(pt) + i - 1) = pr[i]
         /\ \A i \in 1..Len(l) : Char(l0 + i - 1) = l[i]
         /\ \A i \in 1..1 : Char(c0 + i - 1) = cvs[i]
    BY <1>1, <1>3, <1>5, <1>10, OccursChar
  <1> HIDE DEF f0, w0, p0, l0, c0
  <1>12. Char(s) = "%" /\ Char(c0) = cv
    <2>1. s \in Nat /\ c0 \in Nat
      BY <1>9
    <2>2. 1 \in 1..1 /\ s + 1 - 1 = s /\ c0 + 1 - 1 = c0
      BY <2>1
    <2> QED
      BY <1>5, <1>11, <2>2
  <1>13. ASSUME NEW i \in f0..w0 - 1
         PROVE  Char(i) \in DOMAIN FlagNames
    <2>1. i - f0 + 1 \in 1..Len(fl) /\ f0 + (i - f0 + 1) - 1 = i
      BY <1>8, <1>9
    <2> QED
      BY <1>3, <1>11, <2>1
  <1>14. ASSUME w # <<"*">>, NEW i \in w0..p0 - 1
         PROVE  Char(i) \in Numerals
    <2>1. i - w0 + 1 \in 1..Len(w) /\ w0 + (i - w0 + 1) - 1 = i
      BY <1>8, <1>9
    <2>2. w \in Seq(Numerals)
      BY <1>3, <1>14 DEF Number
    <2> QED
      BY <1>11, <2>1, <2>2, ElementOfSeq
  <1>15. w = <<"*">> => p0 = w0 + 1 /\ Char(w0) = "*"
    <2> SUFFICES ASSUME w = <<"*">> PROVE p0 = w0 + 1 /\ Char(w0) = "*"
      OBVIOUS
    <2>1. Len(w) = 1 /\ w[1] = "*"
      BY ShortTexts
    <2>2. 1 \in 1..Len(w) /\ w0 + 1 - 1 = w0 /\ p0 = w0 + 1
      BY <1>8, <1>9, <2>1
    <2> QED
      BY <1>11, <2>1, <2>2
  <1>16. Char(l0) \notin DOMAIN FlagNames \cup Numerals \cup {"*", "."}
    <2>1. Char(l0) \in {"h", "l", "j", "z", "t"} \cup Letter
      <3>1. CASE Len(l) = 0
        <4>1. l0 = c0
          BY <1>8, <1>9, <3>1
        <4> QED
          BY <1>3, <1>12, <4>1
      <3>2. CASE Len(l) # 0
        <4>1. 1 \in 1..Len(l) /\ l0 + 1 - 1 = l0
          BY <1>8, <1>9, <3>2
        <4> QED
          BY <1>3, <1>11, <4>1, LengthsText
      <3> QED
        BY <3>1, <3>2
    <2> QED
      BY <2>1 DEF Letter, Numerals, FlagNames
  <1>17. CASE pt = << >> /\ pr = << >>
    <2>1. Len(pt) = 0 /\ Len(pr) = 0 /\ pr # <<"*">>
      BY <1>17
    <2>2. l0 = p0
      BY <1>8, <1>9, <2>1
    <2>3. Char(p0) \notin DOMAIN FlagNames \cup Numerals \cup {"*", "."}
      BY <1>16, <2>2
    <2>4. p0 <= l0 /\ l0 <= c0 /\ f0 <= w0 /\ w0 <= p0
      BY <1>8, <1>9, <2>2
    <2> DEFINE star == WidthStar(call, k)
               pstar == PrecisionStar(call, k)
               has == HasPoint(call, k)
    <2> HIDE DEF star, pstar, has
    <2>20. /\ star <=> w = <<"*">>
           /\ pstar <=> pr = <<"*">>
           /\ has <=> pt # << >>
      BY <1>6 DEF star, pstar, has
    <2>21. /\ star => p0 = w0 + 1 /\ Char(w0) = "*"
           /\ ~star => \A i \in w0..p0 - 1 : Char(i) \in Numerals
      BY <1>14, <1>15, <2>20
    <2>22. /\ Char(p0) \notin DOMAIN FlagNames \cup Numerals \cup {"*"}
           /\ has <=> Char(p0) = "."
           /\ ~has => l0 = p0 /\ ~pstar
           /\ has => p0 + 1 <= l0
           /\ pstar => l0 = p0 + 2 /\ Char(p0 + 1) = "*"
           /\ has /\ ~pstar => /\ \A i \in p0 + 1..l0 - 1 : Char(i) \in Numerals
                              /\ Char(p0 + 1) # "*"
      BY <2>1, <2>2, <2>3, <2>20, <1>17
    <2>23. /\ {s, f0, w0, p0, l0, c0, Start(call, k + 1)} \subseteq Nat
           /\ f0 <= w0 /\ w0 <= p0 /\ p0 <= l0 /\ l0 <= c0
           /\ f0 = s + 1 /\ Start(call, k + 1) = c0 + 1
      <3>1. s \in Nat /\ f0 \in Nat /\ w0 \in Nat /\ p0 \in Nat /\ l0 \in Nat /\ c0 \in Nat
        BY <1>9
      <3>2. Start(call, k + 1) = c0 + 1 /\ f0 = s + 1
        BY <1>9, <1>10 DEF c0
      <3>3. Start(call, k + 1) \in Nat
        BY <3>1, <3>2
      <3> QED
        BY <3>1, <3>2, <3>3, <2>4
    <2>24. /\ Char(l0) \notin Numerals
           /\ c0 = l0 + Len(l) /\ l \in Lengths
           /\ \A i \in 1..Len(l) : Char(l0 + i - 1) = l[i]
           /\ Char(c0) = cv /\ cv \in Letter
      BY <1>3, <1>6, <1>11, <1>12, <1>16 DEF l0, c0
    <2> QED
      BY <1>7, <1>12, <1>13, <2>21, <2>22, <2>23, <2>24
         DEF DirectiveAt, f0, w0, p0, l0, c0, s, star, pstar, has
  <1>18. CASE pt = <<".">> /\ pr \in Number
    <2>1. Len(pt) = 1 /\ pt[1] = "." /\ pt # << >>
      BY <1>18, ShortTexts
    <2>2. p0 <= l0 /\ l0 <= c0 /\ f0 <= w0 /\ w0 <= p0 /\ l0 = p0 + 1 + Len(pr)
      BY <1>8, <1>9, <2>1
    <2>3. Char(p0) = "."
      <3>1. 1 \in 1..Len(pt) /\ p0 + 1 - 1 = p0
        BY <1>9, <2>1
      <3> QED
        BY <1>11, <2>1, <3>1
    <2>4. Char(p0) \notin DOMAIN FlagNames \cup Numerals \cup {"*"}
      BY <2>3 DEF FlagNames, Numerals
    <2>5. pr = <<"*">> => l0 = p0 + 2 /\ Char(p0 + 1) = "*"
      <3> SUFFICES ASSUME pr = <<"*">> PROVE l0 = p0 + 2 /\ Char(p0 + 1) = "*"
        OBVIOUS
      <3>1. Len(pr) = 1 /\ pr[1] = "*"
        BY ShortTexts
      <3>2. 1 \in 1..Len(pr) /\ p0 + Len(pt) + 1 - 1 = p0 + 1 /\ l0 = p0 + 2
        <4>1. p0 \in Nat
          BY <1>9
        <4> QED
          BY <2>1, <2>2, <3>1, <4>1
      <3> QED
        BY <1>11, <3>1, <3>2
    <2>6. ASSUME pr # <<"*">>, NEW i \in p0 + 1..l0 - 1
          PROVE  Char(i) \in Numerals
      <3>1. i - p0 \in 1..Len(pr) /\ p0 + Len(pt) + (i - p0) - 1 = i
        BY <1>8, <1>9, <2>1, <2>2
      <3>2. pr \in Seq(Numerals)
        BY <1>18, <2>6 DEF Number
      <3> QED
        BY <1>11, <3>1, <3>2, ElementOfSeq
    <2>7. pr # <<"*">> => Char(p0 + 1) # "*"
      <3>1. CASE p0 + 1 = l0
        BY <1>16, <3>1
      <3>2. CASE p0 + 1 # l0
        <4>1. p0 + 1 \in p0 + 1..l0 - 1
          BY <1>8, <1>9, <2>2, <3>2
        <4> QED
          BY <2>6, <4>1 DEF Numerals
      <3> QED
        BY <3>1, <3>2
    <2>8. p0 + 1 <= l0
      BY <1>8, <1>9, <2>2
    <2> DEFINE star == WidthStar(call, k)
               pstar == PrecisionStar(call, k)
               has == HasPoint(call, k)
    <2> HIDE DEF star, pstar, has
    <2>20. /\ star <=> w = <<"*">>
           /\ pstar <=> pr = <<"*">>
           /\ has <=> pt # << >>
      BY <1>6 DEF star, pstar, has
    <2>21. /\ star => p0 = w0 + 1 /\ Char(w0) = "*"
           /\ ~star => \A i \in w0..p0 - 1 : Char(i) \in Numerals
      BY <1>14, <1>15, <2>20
    <2>22. /\ Char(p0) \notin DOMAIN FlagNames \cup Numerals \cup {"*"}
           /\ has <=> Char(p0) = "."
           /\ ~has => l0 = p0 /\ ~pstar
           /\ has => p0 + 1 <= l0
           /\ pstar => l0 = p0 + 2 /\ Char(p0 + 1) = "*"
           /\ has /\ ~pstar => /\ \A i \in p0 + 1..l0 - 1 : Char(i) \in Numerals
                              /\ Char(p0 + 1) # "*"
      BY <2>1, <2>3, <2>4, <2>5, <2>6, <2>7, <2>8, <2>20
    <2>23. /\ {s, f0, w0, p0, l0, c0, Start(call, k + 1)} \subseteq Nat
           /\ f0 <= w0 /\ w0 <= p0 /\ p0 <= l0 /\ l0 <= c0
           /\ f0 = s + 1 /\ Start(call, k + 1) = c0 + 1
      <3>1. s \in Nat /\ f0 \in Nat /\ w0 \in Nat /\ p0 \in Nat /\ l0 \in Nat /\ c0 \in Nat
        BY <1>9
      <3>2. Start(call, k + 1) = c0 + 1 /\ f0 = s + 1
        BY <1>9, <1>10 DEF c0
      <3>3. Start(call, k + 1) \in Nat
        BY <3>1, <3>2
      <3> QED
        BY <3>1, <3>2, <3>3, <2>2
    <2>24. /\ Char(l0) \notin Numerals
           /\ c0 = l0 + Len(l) /\ l \in Lengths
           /\ \A i \in 1..Len(l) : Char(l0 + i - 1) = l[i]
           /\ Char(c0) = cv /\ cv \in Letter
      BY <1>3, <1>6, <1>11, <1>12, <1>16 DEF l0, c0
    <2> QED
      BY <1>7, <1>12, <1>13, <2>21, <2>22, <2>23, <2>24
         DEF DirectiveAt, f0, w0, p0, l0, c0, s, star, pstar, has
  <1> QED
    BY <1>3, <1>17, <1>18

\* A piece of text takes no argument and one character.
LEMMA TextLaid ==
  ASSUME call \in Calls, WellFormed(call), NEW k \in 1..Count(call),
         call.pieces[k].is = "text"
  PROVE  /\ Start(call, k + 1) = Start(call, k) + 1 /\ Turn(call, k + 1) = Turn(call, k)
         /\ Char(Start(call, k)) \notin {"%", Nul}
  <1> DEFINE p == call.pieces[k]
             s == Start(call, k)
             m == Turn(call, k)
             pc1 == <<p.ch>>
  <1>1. /\ DOMAIN call.pieces = 1..Count(call) /\ IsText(call.format)
        /\ Len(Texts(call)) = Count(call) /\ Laid(call.format, Texts(call), Starts(call))
        /\ Len(Types(call)) = Count(call) /\ Laid(Given(call), Types(call), Turns(call))
    BY CallLaid
  <1>2. IsPiece(p) /\ PieceText(p) = pc1 /\ PieceTypes(p) = << >> /\ p.ch \notin {"%", Nul}
    BY <1>1 DEF WellFormed, IsPiece, PieceText, PieceTypes
  <1>3. /\ Occurs(pc1, call.format, s) /\ Start(call, k + 1) = s + Len(pc1)
        /\ Turn(call, k + 1) = m + Len(PieceTypes(p))
        /\ m \in Nat
    <2>1. k \in 1..Len(Types(call)) /\ k \in 1..Len(Texts(call))
      BY <1>1
    <2>2. /\ Texts(call)[k] = pc1 /\ Types(call)[k] = PieceTypes(p)
      BY <1>1, <1>2 DEF Texts, Types
    <2>3. Occurs(Texts(call)[k], call.format, s) /\ Start(call, k + 1) = s + Len(Texts(call)[k])
      BY <1>1, <2>1 DEF Laid, Start
    <2>4. /\ Occurs(Types(call)[k], Given(call), m)
          /\ Turn(call, k + 1) = m + Len(Types(call)[k])
      BY <1>1, <2>1 DEF Laid, Turn
    <2>5. m \in Nat
      BY <2>4 DEF Occurs
    <2> QED
      BY <2>2, <2>3, <2>4, <2>5
  <1>4. IsText(pc1) /\ Len(pc1) = 1 /\ pc1[1] = p.ch
    BY ShortTexts
  <1> HIDE DEF pc1
  <1>5. Char(s + 1 - 1) = p.ch
    <2>1. \A i \in 1..Len(pc1) : Char(s + i - 1) = pc1[i]
      BY <1>1, <1>3, <1>4, OccursChar
    <2> QED
      BY <1>4, <2>1
  <1>6. s \in Nat
    BY <1>3 DEF Occurs
  <1> HIDE DEF s, m, p
  <1>7. s + 1 - 1 = s
    BY <1>6
  <1>8. Turn(call, k + 1) = m
    <2>1. Len(<< >>) = 0
      OBVIOUS
    <2> QED
      BY <1>2, <1>3, <2>1
  <1> QED
    BY <1>2, <1>3, <1>4, <1>5, <1>7, <1>8 DEF s, m

\* The arguments of directive k: its width, its precision and what it converts.
LEMMA DirectiveTurns ==
  ASSUME call \in Calls, WellFormed(call), NEW k, IsDirective(call, k)
  PROVE  /\ {Turn(call, k), AfterWidth(call, k), AfterPrecision(call, k), ArgCount(call)}
              \subseteq Nat
         /\ call.pieces[k].conv \in Conversions =>
              /\ Turn(call, k + 1) = AfterPrecision(call, k) + 1
              /\ AfterPrecision(call, k) \in 1..ArgCount(call)
              /\ call.args[AfterPrecision(call, k)].type
                   = ArgType(call.pieces[k].length, call.pieces[k].conv)
         /\ call.pieces[k].conv \notin Conversions =>
              Turn(call, k + 1) = AfterPrecision(call, k)
  <1> DEFINE p == call.pieces[k]
             m == Turn(call, k)
             wt == IF p.width = <<"*">> THEN <<"int">> ELSE << >>
             pt == IF p.precision = <<"*">> THEN <<"int">> ELSE << >>
             type == ArgType(p.length, p.conv)
             ct == IF p.conv \in Conversions THEN <<type>> ELSE << >>
             given == Given(call)
  <1>1. /\ k \in 1..Count(call) /\ DOMAIN call.pieces = 1..Count(call)
        /\ Len(Types(call)) = Count(call) /\ Laid(given, Types(call), Turns(call))
        /\ IsText(given) /\ Len(given) = ArgCount(call) /\ ArgCount(call) \in Nat
        /\ \A i \in 1..ArgCount(call) : given[i] = call.args[i].type
    BY CallLaid DEF IsDirective
  <1>2. PieceTypes(p) = wt \o pt \o ct
    BY <1>1 DEF PieceTypes, IsDirective
  <1>3. Occurs(PieceTypes(p), given, m) /\ Turn(call, k + 1) = m + Len(PieceTypes(p))
    BY <1>1 DEF Laid, Turn, Types
  <1>4. /\ IsText(wt) /\ IsText(pt) /\ IsText(ct)
        /\ Len(wt) = (IF p.width = <<"*">> THEN 1 ELSE 0)
        /\ Len(pt) = (IF p.precision = <<"*">> THEN 1 ELSE 0)
        /\ Len(ct) = (IF p.conv \in Conversions THEN 1 ELSE 0)
        /\ p.conv \in Conversions => ct[1] = type
    <2>1. Len(<< >>) = 0
      OBVIOUS
    <2> QED
      BY <2>1, ShortTexts
  <1>5. /\ AfterWidth(call, k) = m + Len(wt)
        /\ AfterPrecision(call, k) = AfterWidth(call, k) + Len(pt)
    BY <1>4 DEF AfterWidth, AfterPrecision, WidthStar, PrecisionStar
  <1>6. p.conv \in Conversions \/ p.conv \notin Conversions
    OBVIOUS
  <1> HIDE DEF wt, pt, ct, m, given, type, p
  <1>7. /\ Occurs(ct, given, m + Len(wt) + Len(pt))
        /\ Len(wt \o pt \o ct) = Len(wt) + Len(pt) + Len(ct)
    <2>1. Occurs(wt \o pt \o ct, given, m)
      BY <1>2, <1>3
    <2>2. IsText(wt) /\ IsText(pt) /\ IsText(ct) /\ IsText(given)
      BY <1>1, <1>4
    <2> QED
      BY <2>1, <2>2, OccursPair
  <1>8. m \in Nat \ {0} /\ Len(wt) \in Nat /\ Len(pt) \in Nat /\ Len(ct) \in Nat
    BY <1>3, <1>4 DEF Occurs, IsText
  <1>9. Turn(call, k + 1) = AfterPrecision(call, k) + Len(ct)
    BY <1>2, <1>3, <1>5, <1>7, <1>8
  <1>10. /\ m \in Nat /\ AfterWidth(call, k) \in Nat /\ AfterPrecision(call, k) \in Nat \ {0}
         /\ AfterPrecision(call, k) = m + Len(wt) + Len(pt)
    BY <1>5, <1>8
  <1>11. ASSUME p.conv \in Conversions
         PROVE  /\ Turn(call, k + 1) = AfterPrecision(call, k) + 1
                /\ AfterPrecision(call, k) \in 1..ArgCount(call)
                /\ call.args[AfterPrecision(call, k)].type = type
    <2> DEFINE q == AfterPrecision(call, k)
    <2>1. Len(ct) = 1 /\ ct[1] = type
      BY <1>4, <1>11
    <2>2. q + 1 <= ArgCount(call) + 1 /\ given[q + 1 - 1] = ct[1]
      <3>1. 1 \in 1..1
        OBVIOUS
      <3> QED
        BY <1>1, <1>7, <1>10, <2>1, <3>1 DEF Occurs
    <2> HIDE DEF q
    <2>3. q \in Nat \ {0}
      BY <1>10 DEF q
    <2>4. q \in 1..ArgCount(call) /\ q + 1 - 1 = q
      BY <1>1, <2>2, <2>3
    <2> QED
      BY <1>1, <1>9, <2>1, <2>2, <2>4 DEF q
  <1>12. ASSUME p.conv \notin Conversions
         PROVE  Turn(call, k + 1) = AfterPrecision(call, k)
    BY <1>4, <1>9, <1>10, <1>12
  <1> QED
    BY <1>1, <1>10, <1>11, <1>12 DEF m, p, type

\* The first piece is at the start, and the last one at the end of the format.
LEMMA EndsLaid ==
  ASSUME call \in Calls, WellFormed(call)
  PROVE  /\ Count(call) \in Nat /\ Start(call, 1) = 1 /\ Turn(call, 1) = 1
         /\ Char(Start(call, Count(call) + 1)) = Nul
         /\ Turn(call, Count(call) + 1) = ArgCount(call) + 1 /\ ArgCount(call) \in Nat
  <1>1. /\ IsText(call.format) /\ Count(call) \in Nat /\ ArgCount(call) \in Nat
        /\ Len(Texts(call)) = Count(call) /\ Laid(call.format, Texts(call), Starts(call))
        /\ Len(Types(call)) = Count(call) /\ Laid(Given(call), Types(call), Turns(call))
        /\ Len(Given(call)) = ArgCount(call)
    BY CallLaid
  <1>2. /\ Start(call, 1) = 1 /\ Turn(call, 1) = 1
        /\ Start(call, Count(call) + 1) = Len(call.format) + 1
        /\ Turn(call, Count(call) + 1) = ArgCount(call) + 1
    BY <1>1 DEF Laid, Start, Turn
  <1> DEFINE n == Len(call.format)
  <1>3. Char(n + 1) = IF n + 1 <= n THEN call.format[n + 1] ELSE Nul
    BY DEF Char
  <1>4. n \in Nat
    BY <1>1 DEF IsText
  <1>5. ~(n + 1 <= n)
    <2> HIDE DEF n
    <2> QED
      BY <1>4
  <1> QED
    BY <1>1, <1>2, <1>3, <1>5

------------------------------------------------------------------------------
(***************************************************************************)
(* What is read next, and which arguments are left, at every step.  The    *)
(* flags take the zeros that a width of digits starts with.                *)
(***************************************************************************)
NotLong == "LONG" \notin flags /\ "LONG_LONG" \notin flags

AtStart(k) ==
  pc = "scan" /\ k \in 1..Count(call) + 1 /\ at = Start(call, k) /\ Left(call, args, Turn(call, k))

InWidth(k) ==
  /\ pc \in {"flags", "width", "width digits"}
  /\ at \in FlagsAt(call, k)..PointAt(call, k)
  /\ pc # "flags" => WidthAt(call, k) <= at
  /\ WidthStar(call, k) => pc # "width digits" /\ at <= WidthAt(call, k)
  /\ Left(call, args, Turn(call, k)) /\ NotLong

InPrecision(k) ==
  /\ \/ pc = "precision" /\ at = PointAt(call, k)
     \/ /\ pc = "precision digits" /\ HasPoint(call, k) /\ ~PrecisionStar(call, k)
        /\ at \in PointAt(call, k) + 1..LengthAt(call, k)
  /\ Left(call, args, AfterWidth(call, k)) /\ NotLong

AtLength(k) ==
  pc = "length" /\ at = LengthAt(call, k) /\ Left(call, args, AfterPrecision(call, k)) /\ NotLong

AtConv(k) ==
  /\ pc = "specifier" /\ at = ConvAt(call, k) /\ Left(call, args, AfterPrecision(call, k))
  /\ "LONG_LONG" \in flags <=> call.pieces[k].length \in {<<"l", "l">>, <<"j">>}
  /\ "LONG" \in flags <=> call.pieces[k].length \in {<<"l">>, <<"l", "l">>, <<"z">>, <<"t">>}

PastEnd(k) == pc = "past the end" /\ k = Count(call) /\ call.pieces[k].conv = Nul

Placed ==
  \/ \E k \in 1..Count(call) + 1 : AtStart(k)
  \/ \E k \in 1..Count(call) :
       IsDirective(call, k) /\ (InWidth(k) \/ InPrecision(k) \/ AtLength(k) \/ AtConv(k) \/ PastEnd(k))
  \/ pc = "returned" /\ args = << >>

OrderInv == WellFormed(call) => Placed

\* An argument is taken.
LEMMA TakeLeft ==
  ASSUME NEW c, NEW m, ArgCount(c) \in Nat, Left(c, args, m), IsText(args), NEW type, Take(type)
  PROVE  Left(c, args', m + 1) /\ m \in 1..ArgCount(c)
  <1> DEFINE n == ArgCount(c)
  <1>1. args # << >> /\ args' = Tail(args)
    BY DEF Take
  <1>2. PICK S : args \in Seq(S)
    BY TextsAreSeqs
  <1>3. /\ Len(args) \in Nat \ {0} /\ Len(Tail(args)) = Len(args) - 1
        /\ \A i \in 1..Len(args) - 1 : Tail(args)[i] = args[i + 1]
    BY <1>1, <1>2, LenProperties, EmptySeq, HeadTailProperties
  <1>4. /\ m \in 1..n + 1 /\ Len(args) = n + 1 - m
        /\ \A i \in 1..Len(args) : args[i] = c.args[m + i - 1]
    BY DEF Left
  <1> HIDE DEF n
  <1>5. n \in Nat
    BY DEF n
  <1>6. m \in 1..n /\ m + 1 \in 1..n + 1 /\ Len(args') = n + 1 - (m + 1)
    <2>1. Len(args') = Len(args) - 1
      BY <1>1, <1>3
    <2>2. Len(args) \in Nat \ {0}
      BY <1>3
    <2>3. m \in 1..n /\ m + 1 \in 1..n + 1
      BY <1>4, <1>5, <2>2
    <2>4. Len(args') = n + 1 - (m + 1)
      BY <1>4, <1>5, <2>1, <2>3
    <2> QED
      BY <2>3, <2>4
  <1>7. ASSUME NEW i \in 1..Len(args')
        PROVE  args'[i] = c.args[m + 1 + i - 1]
    <2>1. i \in 1..Len(args) - 1 /\ i + 1 \in 1..Len(args) /\ m + (i + 1) - 1 = m + 1 + i - 1
      BY <1>1, <1>3, <1>4, <1>5
    <2>2. args'[i] = args[i + 1]
      BY <1>1, <1>3, <2>1
    <2>3. args[i + 1] = c.args[m + (i + 1) - 1]
      BY <1>4, <2>1
    <2> QED
      BY <2>1, <2>2, <2>3
  <1> QED
    BY <1>6, <1>7 DEF Left, n

\* The argument taken next is the one it is the turn of.
LEMMA NextLeft ==
  ASSUME NEW c, NEW a, NEW m, ArgCount(c) \in Nat, Left(c, a, m), IsText(a), m \in 1..ArgCount(c)
  PROVE  a # << >> /\ Head(a) = c.args[m]
  <1> DEFINE n == ArgCount(c)
  <1>1. PICK S : a \in Seq(S)
    BY TextsAreSeqs
  <1>2. /\ Len(a) = n + 1 - m /\ m \in 1..n /\ n \in Nat
        /\ \A i \in 1..Len(a) : a[i] = c.args[m + i - 1]
    BY DEF Left
  <1> HIDE DEF n
  <1>3. 1 \in 1..Len(a) /\ Len(a) # 0 /\ m + 1 - 1 = m
    BY <1>2
  <1>4. a # << >> /\ Head(a) = a[1]
    BY <1>1, <1>3, EmptySeq, LenProperties
  <1> QED
    BY <1>2, <1>3, <1>4

LEMMA InWidthFacts ==
  ASSUME Placed, pc \in {"flags", "width", "width digits"}
  PROVE  \E k \in 1..Count(call) : IsDirective(call, k) /\ InWidth(k)
  BY DEF Placed, AtStart, InPrecision, AtLength, AtConv, PastEnd

LEMMA InPrecisionFacts ==
  ASSUME Placed, pc \in {"precision", "precision digits"}
  PROVE  \E k \in 1..Count(call) : IsDirective(call, k) /\ InPrecision(k)
  BY DEF Placed, AtStart, InWidth, AtLength, AtConv, PastEnd

LEMMA AtLengthFacts ==
  ASSUME Placed, pc = "length"
  PROVE  \E k \in 1..Count(call) : IsDirective(call, k) /\ AtLength(k)
  BY DEF Placed, AtStart, InWidth, InPrecision, AtConv, PastEnd

LEMMA AtConvFacts ==
  ASSUME Placed, pc = "specifier"
  PROVE  \E k \in 1..Count(call) : IsDirective(call, k) /\ AtConv(k)
  BY DEF Placed, AtStart, InWidth, InPrecision, AtLength, PastEnd

LEMMA AtStartFacts ==
  ASSUME Placed, pc = "scan"
  PROVE  \E k \in 1..Count(call) + 1 : AtStart(k)
  BY DEF Placed, InWidth, InPrecision, AtLength, AtConv, PastEnd

------------------------------------------------------------------------------
(***************************************************************************)
(* Every step reads on where the format says.                              *)
(***************************************************************************)
LEMMA LiteralPlaced ==
  ASSUME ReadInv, WellFormed(call), Placed, Literal
  PROVE  Placed'
  <1>1. /\ pc = "scan" /\ pc' = pc /\ call' = call /\ args' = args /\ at' = at + 1
        /\ Char(at) \notin {"%", Nul} /\ call \in Calls
    BY DEF Literal, ReadInv
  <1>2. PICK k \in 1..Count(call) + 1 : AtStart(k)
    BY <1>1, AtStartFacts
  <1>3. Count(call) \in Nat /\ k # Count(call) + 1
    BY <1>1, <1>2, EndsLaid DEF AtStart
  <1>4. k \in 1..Count(call) /\ k + 1 \in 1..Count(call) + 1
    BY <1>3
  <1>5. call.pieces[k].is = "text"
    <2>1. IsPiece(call.pieces[k])
      BY <1>1, <1>4, CallLaid DEF WellFormed
    <2>2. ~IsDirective(call, k)
      BY <1>1, <1>2, DirectiveLaid DEF AtStart, DirectiveAt
    <2> QED
      BY <1>4, <2>1, <2>2 DEF IsPiece, IsDirective
  <1>6. Start(call, k + 1) = Start(call, k) + 1 /\ Turn(call, k + 1) = Turn(call, k)
    BY <1>1, <1>4, <1>5, TextLaid
  <1>7. AtStart(k + 1)'
    BY <1>1, <1>2, <1>4, <1>6 DEF AtStart
  <1> QED
    BY <1>1, <1>4, <1>7 DEF Placed

LEMMA DirectivePlaced ==
  ASSUME ReadInv, WellFormed(call), Placed, Directive
  PROVE  Placed'
  <1>1. /\ pc = "scan" /\ pc' = "flags" /\ call' = call /\ args' = args /\ at' = at + 1
        /\ flags' = {} /\ Char(at) = "%" /\ call \in Calls
    BY DEF Directive, ReadInv
  <1>2. PICK k \in 1..Count(call) + 1 : AtStart(k)
    BY <1>1, AtStartFacts
  <1>3. Count(call) \in Nat /\ k # Count(call) + 1
    BY <1>1, <1>2, EndsLaid DEF AtStart, Nul
  <1>4. k \in 1..Count(call)
    BY <1>3
  <1>5. IsDirective(call, k)
    <2>1. IsPiece(call.pieces[k])
      BY <1>1, <1>4, CallLaid DEF WellFormed
    <2>2. call.pieces[k].is # "text"
      BY <1>1, <1>2, <1>4, TextLaid DEF AtStart
    <2> QED
      BY <1>4, <2>1, <2>2 DEF IsPiece, IsDirective
  <1>6. /\ FlagsAt(call, k) \in Nat /\ WidthAt(call, k) \in Nat /\ PointAt(call, k) \in Nat
        /\ FlagsAt(call, k) <= WidthAt(call, k) /\ WidthAt(call, k) <= PointAt(call, k)
        /\ FlagsAt(call, k) = Start(call, k) + 1
    BY <1>1, <1>5, DirectiveLaid DEF DirectiveAt
  <1>7. at' = FlagsAt(call, k)
    BY <1>1, <1>2, <1>6 DEF AtStart
  <1>8. FlagsAt(call, k) \in FlagsAt(call, k)..PointAt(call, k)
    BY <1>6
  <1>9. InWidth(k)'
    BY <1>1, <1>2, <1>6, <1>7, <1>8 DEF InWidth, AtStart, NotLong
  <1> QED
    BY <1>1, <1>4, <1>5, <1>9 DEF Placed

LEMMA FlagPlaced ==
  ASSUME ReadInv, WellFormed(call), Placed, Flag
  PROVE  Placed'
  <1>1. /\ pc = "flags" /\ call' = call /\ args' = args /\ call \in Calls
    BY DEF Flag, ReadInv
  <1>2. PICK k \in 1..Count(call) : IsDirective(call, k) /\ InWidth(k)
    BY <1>1, InWidthFacts
  <1> DEFINE f0 == FlagsAt(call, k)  w0 == WidthAt(call, k)  p0 == PointAt(call, k)
  <1>3. /\ f0 \in Nat /\ w0 \in Nat /\ p0 \in Nat /\ f0 <= w0 /\ w0 <= p0
        /\ \A i \in f0..w0 - 1 : Char(i) \in DOMAIN FlagNames
        /\ WidthStar(call, k) => Char(w0) = "*"
        /\ Char(p0) \notin DOMAIN FlagNames
    BY <1>1, <1>2, DirectiveLaid DEF DirectiveAt
  <1>4. at \in f0..p0 /\ (WidthStar(call, k) => at <= w0) /\ Left(call, args, Turn(call, k)) /\ NotLong
    BY <1>2 DEF InWidth
  <1> HIDE DEF f0, w0, p0
  <1>5. InWidth(k)'
    <2>1. CASE Char(at) \in DOMAIN FlagNames
      <3>1. flags' = flags \cup {FlagNames[Char(at)]} /\ at' = at + 1 /\ pc' = pc
        BY <2>1 DEF Flag
      <3>2. FlagNames[Char(at)] \notin {"LONG", "LONG_LONG"}
        BY <2>1 DEF FlagNames
      <3>3. at # p0 /\ (WidthStar(call, k) => at # w0)
        BY <1>3, <2>1 DEF FlagNames
      <3>4. at + 1 \in f0..p0 /\ (WidthStar(call, k) => at + 1 <= w0)
        BY <1>3, <1>4, <3>3
      <3>5. NotLong'
        BY <1>4, <3>1, <3>2 DEF NotLong
      <3> QED
        BY <1>1, <1>4, <3>1, <3>4, <3>5 DEF InWidth, f0, w0, p0
    <2>2. CASE Char(at) \notin DOMAIN FlagNames
      <3>1. pc' = "width" /\ flags' = flags /\ at' = at
        BY <2>2 DEF Flag
      <3>2. at \notin f0..w0 - 1
        BY <1>3, <2>2
      <3>3. w0 <= at
        BY <1>3, <1>4, <3>2
      <3> QED
        BY <1>1, <1>4, <3>1, <3>3 DEF InWidth, NotLong, f0, w0, p0
    <2> QED
      BY <2>1, <2>2
  <1> QED
    BY <1>1, <1>2, <1>5 DEF Placed

LEMMA WidthPlaced ==
  ASSUME ReadInv, WellFormed(call), Placed, Width
  PROVE  Placed'
  <1>1. /\ pc = "width" /\ call' = call /\ call \in Calls /\ IsText(args)
    BY DEF Width, ReadInv
  <1>2. PICK k \in 1..Count(call) : IsDirective(call, k) /\ InWidth(k)
    BY <1>1, InWidthFacts
  <1> DEFINE f0 == FlagsAt(call, k)  w0 == WidthAt(call, k)  p0 == PointAt(call, k)
             m == Turn(call, k)
  <1>3. /\ f0 \in Nat /\ w0 \in Nat /\ p0 \in Nat
        /\ WidthStar(call, k) => p0 = w0 + 1 /\ Char(w0) = "*"
        /\ ~WidthStar(call, k) => \A i \in w0..p0 - 1 : Char(i) \in Numerals
        /\ Char(p0) # "*"
    BY <1>1, <1>2, DirectiveLaid DEF DirectiveAt
  <1>4. /\ at \in f0..p0 /\ w0 <= at /\ (WidthStar(call, k) => at <= w0)
        /\ Left(call, args, m) /\ NotLong
    BY <1>1, <1>2 DEF InWidth
  <1>5. ArgCount(call) \in Nat /\ m \in Nat
    BY <1>1, <1>2, DirectiveTurns
  <1> HIDE DEF f0, w0, p0, m
  <1>6. Char(at) = "*" <=> WidthStar(call, k)
    <2>1. ASSUME WidthStar(call, k)
          PROVE  Char(at) = "*"
      <3>1. at = w0
        BY <1>3, <1>4, <2>1
      <3> QED
        BY <1>3, <2>1, <3>1
    <2>2. ASSUME ~WidthStar(call, k)
          PROVE  Char(at) # "*"
      <3>1. at = p0 \/ at \in w0..p0 - 1
        BY <1>3, <1>4
      <3>2. "*" \notin Numerals
        BY DEF Numerals
      <3> QED
        BY <1>3, <2>2, <3>1, <3>2
    <2> QED
      BY <2>1, <2>2
  <1>7. CASE WidthStar(call, k)
    <2>1. /\ Take("int") /\ at' = at + 1 /\ pc' = "precision"
          /\ flags' = flags \/ flags' = flags \cup {"LEFT"}
      BY <1>6, <1>7 DEF Width
    <2>2. Left(call, args', m + 1)
      BY <1>1, <1>4, <1>5, <2>1, TakeLeft
    <2>3. AfterWidth(call, k) = m + 1
      BY <1>7 DEF AfterWidth, m
    <2>4. at' = p0
      BY <1>3, <1>4, <1>7, <2>1
    <2>5. NotLong'
      BY <1>4, <2>1 DEF NotLong
    <2>6. InPrecision(k)'
      BY <1>1, <2>1, <2>2, <2>3, <2>4, <2>5 DEF InPrecision, p0
    <2> QED
      BY <1>1, <1>2, <2>6 DEF Placed
  <1>8. CASE ~WidthStar(call, k)
    <2>1. pc' = "width digits" /\ at' = at /\ args' = args /\ flags' = flags
      BY <1>6, <1>8 DEF Width
    <2>2. InWidth(k)'
      BY <1>1, <1>4, <1>8, <2>1 DEF InWidth, NotLong, f0, w0, p0, m
    <2> QED
      BY <1>1, <1>2, <2>2 DEF Placed
  <1> QED
    BY <1>7, <1>8

LEMMA WidthDigitPlaced ==
  ASSUME ReadInv, WellFormed(call), Placed, WidthDigit
  PROVE  Placed'
  <1>1. /\ pc = "width digits" /\ call' = call /\ call \in Calls /\ args' = args /\ flags' = flags
    BY DEF WidthDigit, ReadInv
  <1>2. PICK k \in 1..Count(call) : IsDirective(call, k) /\ InWidth(k)
    BY <1>1, InWidthFacts
  <1> DEFINE f0 == FlagsAt(call, k)  w0 == WidthAt(call, k)  p0 == PointAt(call, k)
             m == Turn(call, k)
  <1>3. /\ at \in f0..p0 /\ w0 <= at /\ ~WidthStar(call, k)
        /\ Left(call, args, m) /\ NotLong
    BY <1>1, <1>2 DEF InWidth
  <1>4. /\ f0 \in Nat /\ w0 \in Nat /\ p0 \in Nat
        /\ \A i \in w0..p0 - 1 : Char(i) \in Numerals
        /\ Char(p0) \notin Numerals
    BY <1>1, <1>2, <1>3, DirectiveLaid DEF DirectiveAt
  <1>5. m \in Nat /\ AfterWidth(call, k) = m
    <2>1. m \in Nat
      BY <1>1, <1>2, DirectiveTurns
    <2> HIDE DEF m
    <2> QED
      BY <1>3, <2>1 DEF AfterWidth, m
  <1> HIDE DEF f0, w0, p0, m
  <1>6. CASE Char(at) \in Numerals
    <2>1. at' = at + 1 /\ pc' = pc
      BY <1>6 DEF WidthDigit, _is_digit
    <2>2. at # p0
      BY <1>4, <1>6
    <2>3. at + 1 \in f0..p0 /\ w0 <= at + 1
      BY <1>3, <1>4, <2>2
    <2>4. InWidth(k)'
      BY <1>1, <1>3, <2>1, <2>3 DEF InWidth, NotLong, f0, w0, p0, m
    <2> QED
      BY <1>1, <1>2, <2>4 DEF Placed
  <1>7. CASE Char(at) \notin Numerals
    <2>1. at' = at /\ pc' = "precision"
      BY <1>7 DEF WidthDigit, _is_digit
    <2>2. at \notin w0..p0 - 1
      BY <1>4, <1>7
    <2>3. at = p0
      BY <1>3, <1>4, <2>2
    <2>4. InPrecision(k)'
      BY <1>1, <1>3, <1>5, <2>1, <2>3 DEF InPrecision, NotLong, p0
    <2> QED
      BY <1>1, <1>2, <2>4 DEF Placed
  <1> QED
    BY <1>6, <1>7

LEMMA PrecisionPlaced ==
  ASSUME ReadInv, WellFormed(call), Placed, Precision
  PROVE  Placed'
  <1>1. /\ pc = "precision" /\ call' = call /\ call \in Calls /\ IsText(args)
    BY DEF Precision, ReadInv
  <1>2. PICK k \in 1..Count(call) : IsDirective(call, k) /\ InPrecision(k)
    BY <1>1, InPrecisionFacts
  <1> DEFINE p0 == PointAt(call, k)  l0 == LengthAt(call, k)  m == AfterWidth(call, k)
             has == HasPoint(call, k)  star == PrecisionStar(call, k)
  <1>3. at = p0 /\ Left(call, args, m) /\ NotLong
    BY <1>1, <1>2 DEF InPrecision
  <1>4. /\ p0 \in Nat /\ l0 \in Nat /\ (has <=> Char(p0) = ".")
        /\ ~has => l0 = p0 /\ ~star
        /\ has => p0 + 1 <= l0
        /\ star => l0 = p0 + 2 /\ Char(p0 + 1) = "*"
        /\ has /\ ~star => Char(p0 + 1) # "*"
    BY <1>1, <1>2, DirectiveLaid DEF DirectiveAt
  <1>5. ArgCount(call) \in Nat /\ m \in Nat
    BY <1>1, <1>2, DirectiveTurns
  <1>6. AfterPrecision(call, k) = m + (IF star THEN 1 ELSE 0)
    BY DEF AfterPrecision
  <1> HIDE DEF p0, l0, m, has, star
  <1>7. CASE ~has
    <2>1. pc' = "length" /\ at' = at /\ args' = args /\ flags' = flags
      BY <1>3, <1>4, <1>7 DEF Precision
    <2>2. AfterPrecision(call, k) = m
      BY <1>4, <1>5, <1>6, <1>7
    <2>3. AtLength(k)'
      BY <1>1, <1>3, <1>4, <1>7, <2>1, <2>2 DEF AtLength, NotLong, l0
    <2> QED
      BY <1>1, <1>2, <2>3 DEF Placed
  <1>8. CASE has /\ star
    <2>1. Char(at) = "." /\ Char(at + 1) = "*"
      BY <1>3, <1>4, <1>8
    <2>2. Take("int") /\ pc' = "length" /\ at' = at + 2 /\ flags' = flags \cup {"PRECISION"}
      BY <2>1 DEF Precision
    <2>3. Left(call, args', m + 1)
      BY <1>1, <1>3, <1>5, <2>2, TakeLeft
    <2>4. AfterPrecision(call, k) = m + 1 /\ at' = l0
      BY <1>3, <1>4, <1>6, <1>8, <2>2
    <2>5. NotLong'
      BY <1>3, <2>2 DEF NotLong
    <2>6. AtLength(k)'
      BY <1>1, <2>2, <2>3, <2>4, <2>5 DEF AtLength, l0
    <2> QED
      BY <1>1, <1>2, <2>6 DEF Placed
  <1>9. CASE has /\ ~star
    <2>1. Char(at) = "." /\ Char(at + 1) # "*"
      BY <1>3, <1>4, <1>9
    <2>2. /\ pc' = "precision digits" /\ at' = at + 1 /\ args' = args
          /\ flags' = flags \cup {"PRECISION"}
      BY <2>1 DEF Precision
    <2>3. at' \in p0 + 1..l0
      <3>1. at' = p0 + 1 /\ p0 + 1 <= l0
        BY <1>3, <1>4, <1>9, <2>2
      <3>2. p0 \in Nat /\ l0 \in Nat
        BY <1>4
      <3> QED
        BY <3>1, <3>2
    <2>4. NotLong'
      BY <1>3, <2>2 DEF NotLong
    <2>5. InPrecision(k)'
      BY <1>1, <1>3, <1>9, <2>2, <2>3, <2>4 DEF InPrecision, p0, l0, m, has, star
    <2> QED
      BY <1>1, <1>2, <2>5 DEF Placed
  <1> QED
    BY <1>7, <1>8, <1>9

LEMMA PrecisionDigitPlaced ==
  ASSUME ReadInv, WellFormed(call), Placed, PrecisionDigit
  PROVE  Placed'
  <1>1. /\ pc = "precision digits" /\ call' = call /\ call \in Calls /\ args' = args
        /\ flags' = flags
    BY DEF PrecisionDigit, ReadInv
  <1>2. PICK k \in 1..Count(call) : IsDirective(call, k) /\ InPrecision(k)
    BY <1>1, InPrecisionFacts
  <1> DEFINE p0 == PointAt(call, k)  l0 == LengthAt(call, k)  m == AfterWidth(call, k)
             has == HasPoint(call, k)  star == PrecisionStar(call, k)
  <1>3. at \in p0 + 1..l0 /\ has /\ ~star /\ Left(call, args, m) /\ NotLong
    BY <1>1, <1>2 DEF InPrecision
  <1>4. /\ p0 \in Nat /\ l0 \in Nat
        /\ \A i \in p0 + 1..l0 - 1 : Char(i) \in Numerals
        /\ Char(l0) \notin Numerals
    BY <1>1, <1>2, <1>3, DirectiveLaid DEF DirectiveAt
  <1>5. AfterPrecision(call, k) = m
    <2>1. m \in Nat
      BY <1>1, <1>2, DirectiveTurns
    <2> HIDE DEF m
    <2> QED
      BY <1>3, <2>1 DEF AfterPrecision, m
  <1> HIDE DEF p0, l0, m, has, star
  <1>6. CASE Char(at) \in Numerals
    <2>1. at' = at + 1 /\ pc' = pc
      BY <1>6 DEF PrecisionDigit, _is_digit
    <2>2. at # l0
      BY <1>4, <1>6
    <2>3. at + 1 \in p0 + 1..l0
      BY <1>3, <1>4, <2>2
    <2>4. InPrecision(k)'
      BY <1>1, <1>3, <2>1, <2>3 DEF InPrecision, NotLong, p0, l0, m, has, star
    <2> QED
      BY <1>1, <1>2, <2>4 DEF Placed
  <1>7. CASE Char(at) \notin Numerals
    <2>1. at' = at /\ pc' = "length"
      BY <1>7 DEF PrecisionDigit, _is_digit
    <2>2. at \notin p0 + 1..l0 - 1
      BY <1>4, <1>7
    <2>3. at = l0
      BY <1>3, <1>4, <2>2
    <2>4. AtLength(k)'
      BY <1>1, <1>3, <1>5, <2>1, <2>3 DEF AtLength, NotLong, l0
    <2> QED
      BY <1>1, <1>2, <2>4 DEF Placed
  <1> QED
    BY <1>6, <1>7

\* The letters of a length, and what they say.
LEMMA LengthRead ==
  ASSUME call \in Calls, WellFormed(call), NEW k, IsDirective(call, k), at = LengthAt(call, k)
  PROVE  /\ at + Letters = ConvAt(call, k)
         /\ "LONG_LONG" \in LengthFlags <=> call.pieces[k].length \in {<<"l", "l">>, <<"j">>}
         /\ "LONG" \in LengthFlags
              <=> call.pieces[k].length \in {<<"l">>, <<"l", "l">>, <<"z">>, <<"t">>}
  <1> DEFINE l == call.pieces[k].length
             c0 == ConvAt(call, k)
  <1>1. /\ at \in Nat /\ c0 = at + Len(l) /\ l \in Lengths
        /\ \A i \in 1..Len(l) : Char(at + i - 1) = l[i]
        /\ Char(c0) \in Letter
    BY DirectiveLaid DEF DirectiveAt
  <1> HIDE DEF l, c0
  <1>2. Letter \cap {"h", "l", "j", "z", "t"} = {}
    BY DEF Letter
  <1>3. ASSUME NEW a, l = <<a>>
        PROVE  Char(at) = a /\ c0 = at + 1
    <2>1. Len(l) = 1 /\ l[1] = a /\ 1 \in 1..1 /\ at + 1 - 1 = at
      BY <1>1, <1>3
    <2> QED
      BY <1>1, <2>1
  <1>4. ASSUME NEW a, NEW b, l = <<a, b>>
        PROVE  Char(at) = a /\ Char(at + 1) = b /\ c0 = at + 2
    <2>1. /\ Len(l) = 2 /\ l[1] = a /\ l[2] = b /\ 1 \in 1..2 /\ 2 \in 1..2
          /\ at + 1 - 1 = at /\ at + 2 - 1 = at + 1
      BY <1>1, <1>4
    <2> QED
      BY <1>1, <2>1
  <1>5. CASE l = << >>
    <2>1. Len(l) = 0
      BY <1>5
    <2>2. c0 = at
      BY <1>1, <2>1
    <2>3. LengthFlags = {}
      BY <1>1, <1>2, <2>2 DEF LengthFlags
    <2>4. Letters = 0
      BY <2>3 DEF Letters
    <2> QED
      BY <1>1, <1>5, <2>2, <2>3, <2>4 DEF l, c0
  <1>6. CASE l = <<"h">>
    <2>1. Char(at) = "h" /\ c0 = at + 1 /\ ~Doubled
      BY <1>1, <1>2, <1>3, <1>6 DEF Doubled
    <2>2. LengthFlags = {"SHORT"}
      BY <2>1 DEF LengthFlags
    <2>3. Letters = 1
      BY <2>1, <2>2 DEF Letters
    <2> QED
      BY <1>6, <2>1, <2>2, <2>3 DEF l, c0
  <1>7. CASE l = <<"l">>
    <2>1. Char(at) = "l" /\ c0 = at + 1 /\ ~Doubled
      BY <1>1, <1>2, <1>3, <1>7 DEF Doubled
    <2>2. LengthFlags = {"LONG"}
      BY <2>1 DEF LengthFlags
    <2>3. Letters = 1
      BY <2>1, <2>2 DEF Letters
    <2> QED
      BY <1>7, <2>1, <2>2, <2>3 DEF l, c0
  <1>8. CASE l = <<"h", "h">>
    <2>1. Char(at) = "h" /\ c0 = at + 2 /\ Doubled
      BY <1>4, <1>8 DEF Doubled
    <2>2. LengthFlags = {"SHORT", "CHAR"}
      BY <2>1 DEF LengthFlags
    <2>3. Letters = 2
      BY <2>1, <2>2 DEF Letters
    <2> QED
      BY <1>8, <2>1, <2>2, <2>3 DEF l, c0
  <1>9. CASE l = <<"l", "l">>
    <2>1. Char(at) = "l" /\ c0 = at + 2 /\ Doubled
      BY <1>4, <1>9 DEF Doubled
    <2>2. LengthFlags = {"LONG", "LONG_LONG"}
      BY <2>1 DEF LengthFlags
    <2>3. Letters = 2
      BY <2>1, <2>2 DEF Letters
    <2> QED
      BY <1>9, <2>1, <2>2, <2>3 DEF l, c0
  <1>10. CASE l = <<"j">>
    <2>1. Char(at) = "j" /\ c0 = at + 1
      BY <1>3, <1>10
    <2>2. LengthFlags = {"LONG_LONG"} /\ ~Doubled
      BY <2>1 DEF LengthFlags, Doubled
    <2>3. Letters = 1
      BY <2>1, <2>2 DEF Letters
    <2> QED
      BY <1>10, <2>1, <2>2, <2>3 DEF l, c0
  <1>11. CASE l = <<"z">> \/ l = <<"t">>
    <2>1. Char(at) \in {"z", "t"} /\ c0 = at + 1
      BY <1>3, <1>11
    <2>2. LengthFlags = {"LONG"} /\ ~Doubled
      BY <2>1 DEF LengthFlags, Doubled
    <2>3. Letters = 1
      BY <2>1, <2>2 DEF Letters
    <2>4. /\ "LONG_LONG" \in LengthFlags <=> l \in {<<"l", "l">>, <<"j">>}
          /\ "LONG" \in LengthFlags <=> l \in {<<"l">>, <<"l", "l">>, <<"z">>, <<"t">>}
      BY <1>11, <2>2
    <2> QED
      BY <2>1, <2>3, <2>4 DEF l, c0
  <1> QED
    BY <1>1, <1>5, <1>6, <1>7, <1>8, <1>9, <1>10, <1>11 DEF Lengths

LEMMA LengthPlaced ==
  ASSUME ReadInv, WellFormed(call), Placed, Length
  PROVE  Placed'
  <1>1. /\ pc = "length" /\ call' = call /\ call \in Calls /\ args' = args
        /\ pc' = "specifier" /\ flags' = flags \cup LengthFlags /\ at' = at + Letters
    BY DEF Length, ReadInv
  <1>2. PICK k \in 1..Count(call) : IsDirective(call, k) /\ AtLength(k)
    BY <1>1, AtLengthFacts
  <1> DEFINE l == call.pieces[k].length
  <1>3. at = LengthAt(call, k) /\ Left(call, args, AfterPrecision(call, k)) /\ NotLong
    BY <1>2 DEF AtLength
  <1>4. /\ at' = ConvAt(call, k)
        /\ "LONG_LONG" \in LengthFlags <=> l \in {<<"l", "l">>, <<"j">>}
        /\ "LONG" \in LengthFlags <=> l \in {<<"l">>, <<"l", "l">>, <<"z">>, <<"t">>}
    BY <1>1, <1>2, <1>3, LengthRead
  <1>5. /\ "LONG_LONG" \in flags' <=> "LONG_LONG" \in LengthFlags
        /\ "LONG" \in flags' <=> "LONG" \in LengthFlags
    BY <1>1, <1>3 DEF NotLong
  <1>6. AtConv(k)'
    BY <1>1, <1>3, <1>4, <1>5 DEF AtConv
  <1> QED
    BY <1>1, <1>2, <1>6 DEF Placed

\* A conversion takes the argument that is left for it, and ends its piece.
LEMMA ConvertedPlaced ==
  ASSUME ReadInv, WellFormed(call), Placed, NEW conv, NEW text, Converted(conv, text),
         \/ conv \subseteq Conversions /\ \E type : Take(type)
         \/ Char(at) \notin Conversions \cup {Nul} /\ args' = args
  PROVE  Placed'
  <1>1. /\ pc = "specifier" /\ Char(at) \in conv /\ call' = call /\ call \in Calls
        /\ pc' = "scan" /\ at' = at + 1 /\ IsText(args)
    BY DEF Converted, ReadInv
  <1>2. PICK k \in 1..Count(call) : IsDirective(call, k) /\ AtConv(k)
    BY <1>1, AtConvFacts
  <1> DEFINE m == AfterPrecision(call, k)
             cv == call.pieces[k].conv
  <1>3. /\ at = ConvAt(call, k) /\ Left(call, args, m)
    BY <1>2 DEF AtConv
  <1>4. /\ Char(at) = cv /\ Start(call, k + 1) = at + 1
    BY <1>1, <1>2, <1>3, DirectiveLaid DEF DirectiveAt
  <1>5. /\ ArgCount(call) \in Nat
        /\ cv \in Conversions => Turn(call, k + 1) = m + 1
        /\ cv \notin Conversions => Turn(call, k + 1) = m
    BY <1>1, <1>2, DirectiveTurns
  <1> HIDE DEF m, cv
  <1>6. Left(call, args', Turn(call, k + 1))
    <2>1. CASE conv \subseteq Conversions /\ \E type : Take(type)
      <3>1. Left(call, args', m + 1)
        BY <1>1, <1>3, <1>5, <2>1, TakeLeft
      <3> QED
        BY <1>1, <1>4, <1>5, <2>1, <3>1
    <2>2. CASE Char(at) \notin Conversions \cup {Nul} /\ args' = args
      BY <1>3, <1>4, <1>5, <2>2
    <2> QED
      BY <2>1, <2>2
  <1>7. k + 1 \in 1..Count(call) + 1
    BY <1>1, <1>2, EndsLaid
  <1>8. AtStart(k + 1)'
    BY <1>1, <1>4, <1>6, <1>7 DEF AtStart
  <1> QED
    BY <1>1, <1>7, <1>8 DEF Placed

LEMMA ConversionPlaced ==
  ASSUME ReadInv, WellFormed(call), Placed,
         Integer \/ Fixed \/ Exponential \/ Character \/ String \/ Pointer
  PROVE  Placed'
  <1>1. CASE Integer
    <2>1. PICK text : Converted({"d", "i", "u", "x", "X", "o", "b"}, text)
      BY <1>1 DEF Integer
    <2>2. \E type : Take(type)
      BY <1>1 DEF Integer
    <2>3. {"d", "i", "u", "x", "X", "o", "b"} \subseteq Conversions
      BY DEF Conversions
    <2> QED
      BY <2>1, <2>2, <2>3, ConvertedPlaced
  <1>2. CASE Fixed
    <2>1. PICK text : Converted({"f", "F"}, text)
      BY <1>2 DEF Fixed
    <2>2. (\E type : Take(type)) /\ {"f", "F"} \subseteq Conversions
      BY <1>2 DEF Fixed, Conversions
    <2> QED
      BY <2>1, <2>2, ConvertedPlaced
  <1>3. CASE Exponential
    <2>1. PICK text : Converted({"e", "E", "g", "G"}, text)
      BY <1>3 DEF Exponential
    <2>2. (\E type : Take(type)) /\ {"e", "E", "g", "G"} \subseteq Conversions
      BY <1>3 DEF Exponential, Conversions
    <2> QED
      BY <2>1, <2>2, ConvertedPlaced
  <1>4. CASE Character
    <2>1. PICK text : Converted({"c"}, text)
      BY <1>4 DEF Character
    <2>2. (\E type : Take(type)) /\ {"c"} \subseteq Conversions
      BY <1>4 DEF Character, Conversions
    <2> QED
      BY <2>1, <2>2, ConvertedPlaced
  <1>5. CASE String
    <2>1. PICK text : Converted({"s"}, text)
      BY <1>5 DEF String
    <2>2. (\E type : Take(type)) /\ {"s"} \subseteq Conversions
      BY <1>5 DEF String, Conversions
    <2> QED
      BY <2>1, <2>2, ConvertedPlaced
  <1>6. CASE Pointer
    <2>1. PICK text : Converted({"p"}, text)
      BY <1>6 DEF Pointer
    <2>2. (\E type : Take(type)) /\ {"p"} \subseteq Conversions
      BY <1>6 DEF Pointer, Conversions
    <2> QED
      BY <2>1, <2>2, ConvertedPlaced
  <1> QED
    BY <1>1, <1>2, <1>3, <1>4, <1>5, <1>6

LEMMA ItselfPlaced ==
  ASSUME ReadInv, WellFormed(call), Placed, Itself
  PROVE  Placed'
  <1>1. /\ Char(at) \notin Conversions \cup {Nul} /\ args' = args
        /\ Converted({Char(at)}, <<Char(at)>>)
    BY DEF Itself
  <1> QED
    BY <1>1, ConvertedPlaced

\* Only the last directive of a format can have the NUL for a conversion.
LEMMA RunsPastPlaced ==
  ASSUME ReadInv, WellFormed(call), Placed, RunsPast
  PROVE  Placed'
  <1>1. /\ pc = "specifier" /\ Char(at) = Nul /\ call' = call /\ call \in Calls
        /\ pc' = "past the end"
    BY DEF RunsPast, ReadInv
  <1>2. PICK k \in 1..Count(call) : IsDirective(call, k) /\ AtConv(k)
    BY <1>1, AtConvFacts
  <1>3. call.pieces[k].conv = Nul /\ call.pieces[k].is = "directive"
    <2>1. Char(ConvAt(call, k)) = call.pieces[k].conv
      BY <1>1, <1>2, DirectiveLaid DEF DirectiveAt
    <2> QED
      BY <1>1, <1>2, <2>1 DEF AtConv, IsDirective
  <1>4. k \notin 1..Count(call) - 1
    BY <1>3 DEF WellFormed, Count
  <1>5. k = Count(call)
    <2>1. Count(call) \in Nat /\ k \in 1..Count(call)
      BY <1>1, <1>2, EndsLaid
    <2> QED
      BY <1>4, <2>1
  <1>6. PastEnd(k)'
    BY <1>1, <1>3, <1>5 DEF PastEnd
  <1> QED
    BY <1>1, <1>2, <1>6 DEF Placed

LEMMA TerminatePlaced ==
  ASSUME ReadInv, WellFormed(call), Placed, Terminate
  PROVE  Placed'
  <1>1. /\ pc = "scan" /\ Char(at) = Nul /\ pc' = "returned" /\ call' = call /\ args' = args
        /\ call \in Calls /\ IsText(args)
    BY DEF Terminate, ReadInv
  <1>2. PICK k \in 1..Count(call) + 1 : AtStart(k)
    BY <1>1, AtStartFacts
  <1>3. k \notin 1..Count(call)
    <2> SUFFICES ASSUME k \in 1..Count(call) PROVE FALSE
      OBVIOUS
    <2>1. IsPiece(call.pieces[k])
      BY <1>1, CallLaid DEF WellFormed
    <2>2. CASE call.pieces[k].is = "text"
      BY <1>1, <1>2, <2>2, TextLaid DEF AtStart
    <2>3. CASE call.pieces[k].is = "directive"
      <3>1. Char(Start(call, k)) = "%"
        BY <1>1, <2>3, DirectiveLaid DEF IsDirective, DirectiveAt
      <3> QED
        BY <1>1, <1>2, <3>1 DEF AtStart, Nul
    <2> QED
      BY <2>1, <2>2, <2>3 DEF IsPiece
  <1>4. k = Count(call) + 1
    BY <1>1, <1>2, <1>3, EndsLaid
  <1>5. Left(call, args, ArgCount(call) + 1) /\ ArgCount(call) \in Nat
    BY <1>1, <1>2, <1>4, EndsLaid DEF AtStart
  <1>6. Len(args) = 0
    BY <1>5 DEF Left
  <1>7. args = << >>
    <2>1. PICK S : args \in Seq(S)
      BY <1>1, TextsAreSeqs
    <2> QED
      BY <1>6, <2>1, EmptySeq
  <1> QED
    BY <1>1, <1>7 DEF Placed

LEMMA PlacedStart ==
  ASSUME Init, ReadInv, WellFormed(call)
  PROVE  Placed
  <1>1. call \in Calls /\ pc = "scan" /\ at = 1 /\ args = call.args /\ IsText(args)
    BY DEF Init, ReadInv
  <1>2. /\ Count(call) \in Nat /\ Start(call, 1) = 1 /\ Turn(call, 1) = 1
        /\ ArgCount(call) \in Nat /\ ArgCount(call) = Len(args)
    BY <1>1, EndsLaid DEF ArgCount
  <1>3. Left(call, args, 1)
    <2>1. 1 \in 1..ArgCount(call) + 1 /\ Len(args) = ArgCount(call) + 1 - 1
      BY <1>2
    <2>2. \A i \in 1..Len(args) : args[i] = call.args[1 + i - 1]
      <3> TAKE i \in 1..Len(args)
      <3>1. 1 + i - 1 = i
        OBVIOUS
      <3> QED
        BY <1>1, <3>1
    <2> QED
      BY <2>1, <2>2 DEF Left
  <1>4. 1 \in 1..Count(call) + 1
    BY <1>2
  <1>5. AtStart(1)
    BY <1>1, <1>2, <1>3, <1>4 DEF AtStart
  <1> QED
    BY <1>4, <1>5 DEF Placed

LEMMA OrderStep == ReadInv /\ OrderInv /\ [Next]_vars => OrderInv'
  <1> SUFFICES ASSUME ReadInv, OrderInv, [Next]_vars, WellFormed(call')
               PROVE  Placed'
    BY DEF OrderInv
  <1>1. CASE UNCHANGED vars
    <2>1. WellFormed(call) /\ UNCHANGED <<call, pc, at, args, flags>>
      BY <1>1 DEF vars
    <2>2. Placed
      BY <2>1 DEF OrderInv
    <2> QED
      BY <2>1, <2>2 DEF Placed, AtStart, InWidth, InPrecision, AtLength, AtConv, PastEnd, NotLong
  <1>2. CASE Next
    <2>1. call' = call
      BY <1>2 DEF Next, Literal, Directive, Flag, Width, WidthDigit, Precision, PrecisionDigit,
         Length, Integer, Fixed, Exponential, Character, String, Pointer, Itself, RunsPast,
         Terminate, Converted
    <2>2. WellFormed(call) /\ Placed
      BY <2>1 DEF OrderInv
    <2> QED
      BY <1>2, <2>2, LiteralPlaced, DirectivePlaced, FlagPlaced, WidthPlaced, WidthDigitPlaced,
         PrecisionPlaced, PrecisionDigitPlaced, LengthPlaced, ConversionPlaced, ItselfPlaced,
         RunsPastPlaced, TerminatePlaced DEF Next
  <1> QED
    BY <1>1, <1>2

\* The type that the conversion reads from its flags is that of the argument.
LEMMA PlacedMatches ==
  ASSUME ReadInv, OrderInv
  PROVE  ArgumentsMatch
  <1> SUFFICES ASSUME WellFormed(call)
               PROVE
        /\ pc = "specifier" /\ Char(at) \in Conversions =>
             args # << >> /\ Head(args).type =
               CASE Char(at) \in {"f", "F", "e", "E", "g", "G"} -> "double"
                 [] Char(at) = "s" -> "string" [] Char(at) = "p" -> "pointer"
                 [] Char(at) = "c" -> "int"    [] OTHER -> IntType
        /\ pc = "returned" => args = << >>
        /\ pc = "past the end" =>
             Last(call.pieces).is = "directive" /\ Last(call.pieces).conv = Nul
    BY DEF ArgumentsMatch
  <1>1. Placed /\ call \in Calls /\ IsText(args)
    BY DEF OrderInv, ReadInv
  <1>2. ASSUME pc = "specifier", Char(at) \in Conversions
        PROVE  args # << >> /\ Head(args).type =
                 CASE Char(at) \in {"f", "F", "e", "E", "g", "G"} -> "double"
                   [] Char(at) = "s" -> "string" [] Char(at) = "p" -> "pointer"
                   [] Char(at) = "c" -> "int"    [] OTHER -> IntType
    <2>1. PICK k \in 1..Count(call) : IsDirective(call, k) /\ AtConv(k)
      BY <1>1, <1>2, AtConvFacts
    <2> DEFINE m == AfterPrecision(call, k)
               cv == call.pieces[k].conv
               l == call.pieces[k].length
    <2>2. /\ at = ConvAt(call, k) /\ Left(call, args, m)
          /\ "LONG_LONG" \in flags <=> l \in {<<"l", "l">>, <<"j">>}
          /\ "LONG" \in flags <=> l \in {<<"l">>, <<"l", "l">>, <<"z">>, <<"t">>}
      BY <2>1 DEF AtConv
    <2>3. Char(at) = cv
      BY <1>1, <2>1, <2>2, DirectiveLaid DEF DirectiveAt
    <2>4. ArgCount(call) \in Nat /\ m \in 1..ArgCount(call) /\ call.args[m].type = ArgType(l, cv)
      BY <1>1, <1>2, <2>1, <2>3, DirectiveTurns
    <2> HIDE DEF m, cv, l
    <2>5. args # << >> /\ Head(args).type = ArgType(l, cv)
      BY <1>1, <2>2, <2>4, NextLeft
    <2>6. IntType = IF l \in {<<"l", "l">>, <<"j">>} THEN "llong"
                    ELSE IF l \in {<<"l">>, <<"z">>, <<"t">>} THEN "long" ELSE "int"
      BY <2>2 DEF IntType
    <2>7. ArgType(l, cv) = CASE cv \in {"f", "F", "e", "E", "g", "G"} -> "double"
                             [] cv = "s" -> "string" [] cv = "p" -> "pointer"
                             [] cv = "c" -> "int"    [] OTHER -> IntType
      <3>1. cv \in Conversions
        BY <1>2, <2>3
      <3>2. CASE cv \in {"f", "F", "e", "E", "g", "G"}
        BY <3>2 DEF ArgType
      <3>3. CASE cv = "s" \/ cv = "p" \/ cv = "c"
        BY <3>3 DEF ArgType
      <3>4. CASE cv \in {"d", "i", "u", "x", "X", "o", "b"}
        <4>1. /\ cv \notin {"f", "F", "e", "E", "g", "G"}
              /\ cv # "s" /\ cv # "p" /\ cv # "c"
          BY <3>4
        <4>2. ArgType(l, cv) = IF l \in {<<"l", "l">>, <<"j">>} THEN "llong"
                               ELSE IF l \in {<<"l">>, <<"z">>, <<"t">>} THEN "long" ELSE "int"
          BY <3>4, <4>1 DEF ArgType
        <4> QED
          BY <2>6, <4>1, <4>2
      <3> QED
        BY <3>1, <3>2, <3>3, <3>4 DEF Conversions
    <2> QED
      BY <2>3, <2>5, <2>7
  <1>3. ASSUME pc = "returned"
        PROVE  args = << >>
    BY <1>1, <1>3 DEF Placed, AtStart, InWidth, InPrecision, AtLength, AtConv, PastEnd
  <1>4. ASSUME pc = "past the end"
        PROVE  Last(call.pieces).is = "directive" /\ Last(call.pieces).conv = Nul
    <2>1. PICK k \in 1..Count(call) : IsDirective(call, k) /\ PastEnd(k)
      BY <1>1, <1>4 DEF Placed, AtStart, InWidth, InPrecision, AtLength, AtConv
    <2>2. Last(call.pieces) = call.pieces[k]
      BY <2>1 DEF PastEnd, Count, Last
    <2> QED
      BY <2>1, <2>2 DEF IsDirective, PastEnd
  <1> QED
    BY <1>2, <1>3, <1>4

\* printf.c:612, 629 and 707-826: whatever directives a format is made of, and in
\* whatever order, each takes the argument that was passed for it, in the type that
\* it was passed in, and none is left over.
THEOREM DirectivesTakeTheirArguments == Spec => []ArgumentsMatch
  <1>1. Spec => []IInv
    BY IInvStart, IInvStep, PTL DEF Spec
  <1>2. IInv => ReadInv
    BY DEF IInv
  <1>3. Init => OrderInv
    BY PlacedStart, IInvStart DEF OrderInv, IInv
  <1>4. ReadInv /\ OrderInv => ArgumentsMatch
    BY PlacedMatches
  <1> QED
    BY <1>1, <1>2, <1>3, <1>4, OrderStep, PTL DEF Spec
==============================================================================
