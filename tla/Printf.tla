------------------------------- MODULE Printf -------------------------------
(***************************************************************************)
(* lib/src/printf.c: one call of a printf function.  The format is read    *)
(* one character at a time, and each directive of it                       *)
(* %[flags][width][.precision][length]conversion takes its arguments in    *)
(* turn and hands a field to out(), which puts it in the caller's buffer,  *)
(* gives it to a function, or drops it.                                    *)
(***************************************************************************)
EXTENDS PrintfFields

CONSTANTS
  Calls,      \* the calls: format, arguments, where the output goes and maxlen
  MemSize,    \* bytes of the caller's memory that are looked at
  CharBits, ShortBits, IntBits, LongLongBits,  \* long is as wide as int
  Glyph       \* the character of each value of a char

Nul == "NUL"

ASSUME PrintfWidths ==
  /\ MemSize \in Nat
  /\ {CharBits, ShortBits, IntBits, LongLongBits} \subseteq Nat \ {0}
  /\ Glyph \in [0..2 ^ CharBits - 1 -> STRING] /\ Glyph[0] = Nul

\* A sequence, of whatever its elements are.
IsText(s) == Len(s) \in Nat /\ s = [i \in 1..Len(s) |-> s[i]]

\* An argument is a double as PrintfFields has it, a string, or an integer.
IsArg(a) ==
  CASE a.type = "double" -> a.value \in [is : {"number", "nan", "inf", "-inf"}, n : Int, x : Int]
    [] a.type = "string" -> a.value \in Seq(STRING)
    [] OTHER -> a.type \in {"int", "long", "llong", "pointer"} /\ a.value \in Int

ASSUME PrintfCalls ==
  \A c \in Calls : /\ c.format \in Seq(STRING)
                   /\ IsText(c.args) /\ \A i \in DOMAIN c.args : IsArg(c.args[i])
                   /\ c.sink \in {"buffer", "function", "none"} /\ c.maxlen \in Nat

VARIABLES
  call,       \* the call being made
  pc, at,     \* the part of a directive that is read next, and format
  args,       \* va: the arguments not yet taken
  flags, width, precision,
  idx,        \* characters handed to out() so far
  mem,        \* the caller's memory, from buffer on
  sent,       \* characters given to _putchar or to the function
  full        \* history: every character handed to out()

vars == <<call, pc, at, args, flags, width, precision, idx, mem, sent, full>>
directive == <<flags, width, precision>>
output == <<idx, mem, sent, full>>

Old == "old"                        \* what the memory holds before the call
\* printf, sprintf and fctprintf pass (size_t)-1.
NoLimit == 1000000

Init ==
  /\ call \in Calls
  /\ pc = "scan" /\ at = 1
  /\ args = call.args
  /\ flags = {} /\ width = 0 /\ precision = 0
  /\ idx = 0 /\ mem = [i \in 0..MemSize - 1 |-> Old]
  /\ sent = << >> /\ full = << >>

Char(i) == IF i <= Len(call.format) THEN call.format[i] ELSE Nul

------------------------------------------------------------------------------
(***************************************************************************)
(* The output functions.                                                   *)
(***************************************************************************)
\* A mutant: one character too many may be stored.
StoredOneMore(text, from, limit) ==
  [i \in DOMAIN mem |->
     IF i <= limit /\ i - from \in 0..Len(text) - 1 THEN text[i - from + 1] ELSE mem[i]]

Stored(text, from, limit) ==
  [i \in DOMAIN mem |->
     IF i < limit /\ i - from \in 0..Len(text) - 1 THEN text[i - from + 1] ELSE mem[i]]

\* The wrappers of _putchar and of the caller's function pass no NUL on.
Passed(text) == SelectSeq(text, LAMBDA c : c # Nul)

out(text, from) ==
  /\ mem' = IF call.sink = "buffer" THEN Stored(text, from, call.maxlen) ELSE mem
  /\ sent' = IF call.sink = "function" THEN sent \o Passed(text) ELSE sent

Emit(text) ==
  /\ out(text, idx)
  /\ idx' = idx + Len(text)
  /\ full' = full \o text

------------------------------------------------------------------------------
(***************************************************************************)
(* Reading the format.                                                     *)
(***************************************************************************)
Numerals == {"0", "1", "2", "3", "4", "5", "6", "7", "8", "9"}
_is_digit(ch) == ch \in Numerals

DigitValue == [c \in Numerals |-> CHOOSE d \in 0..9 : Lower[d + 1] = c]

\* One round of the loop of _atoi, on the number read so far.
_atoi(number) == 10 * number + DigitValue[Char(at)]

Literal ==
  /\ pc = "scan" /\ Char(at) \notin {"%", Nul}
  /\ Emit(<<Char(at)>>)
  /\ at' = at + 1
  /\ UNCHANGED <<call, pc, args, directive>>

Directive ==
  /\ pc = "scan" /\ Char(at) = "%"
  /\ pc' = "flags" /\ at' = at + 1
  /\ flags' = {} /\ width' = 0 /\ precision' = 0
  /\ UNCHANGED <<call, args, output>>

FlagNames == [c \in {"0", "-", "+", " ", "#"} |->
  CASE c = "0" -> "ZEROPAD" [] c = "-" -> "LEFT" [] c = "+" -> "PLUS"
    [] c = " " -> "SPACE" [] c = "#" -> "HASH"]

Flag ==
  /\ pc = "flags"
  /\ IF Char(at) \in DOMAIN FlagNames
     THEN /\ flags' = flags \cup {FlagNames[Char(at)]}
          /\ at' = at + 1 /\ UNCHANGED pc
     ELSE pc' = "width" /\ UNCHANGED <<flags, at>>
  /\ UNCHANGED <<call, args, width, precision, output>>

Take(type) == args # << >> /\ Head(args).type = type /\ args' = Tail(args)

Width ==
  /\ pc = "width"
  /\ \/ /\ Char(at) = "*" /\ Take("int")
        /\ LET w == Head(args).value
           IN /\ width' = IF w < 0 THEN -w ELSE w
              /\ flags' = IF w < 0 THEN flags \cup {"LEFT"} ELSE flags
        /\ pc' = "precision" /\ at' = at + 1
     \/ /\ Char(at) # "*"
        /\ pc' = "width digits" /\ UNCHANGED <<at, args, flags, width>>
  /\ UNCHANGED <<call, precision, output>>

WidthDigit ==
  /\ pc = "width digits"
  /\ IF _is_digit(Char(at))
     THEN width' = _atoi(width) /\ at' = at + 1 /\ UNCHANGED pc
     ELSE pc' = "precision" /\ UNCHANGED <<width, at>>
  /\ UNCHANGED <<call, args, flags, precision, output>>

Precision ==
  /\ pc = "precision"
  /\ IF Char(at) # "." THEN pc' = "length" /\ UNCHANGED <<at, args, flags, precision>>
     ELSE /\ flags' = flags \cup {"PRECISION"}
          /\ IF Char(at + 1) = "*"
             THEN /\ Take("int")
                  /\ precision' = Max({0, Head(args).value})
                  /\ pc' = "length" /\ at' = at + 2
             ELSE /\ pc' = "precision digits" /\ at' = at + 1
                  /\ UNCHANGED <<args, precision>>
  /\ UNCHANGED <<call, width, output>>

PrecisionDigit ==
  /\ pc = "precision digits"
  /\ IF _is_digit(Char(at))
     THEN precision' = _atoi(precision) /\ at' = at + 1 /\ UNCHANGED pc
     ELSE pc' = "length" /\ UNCHANGED <<precision, at>>
  /\ UNCHANGED <<call, args, flags, width, output>>

Doubled == Char(at) \in {"l", "h"} /\ Char(at + 1) = Char(at)

\* ptrdiff_t and size_t are as wide as long on this target, intmax_t is wider.
LengthFlags ==
  CASE Char(at) = "l" -> {"LONG"} \cup (IF Doubled THEN {"LONG_LONG"} ELSE {})
    [] Char(at) = "h" -> {"SHORT"} \cup (IF Doubled THEN {"CHAR"} ELSE {})
    [] Char(at) \in {"t", "z"} -> {"LONG"}
    [] Char(at) = "j" -> {"LONG_LONG"}
    [] OTHER -> {}

\* A mutant: the second letter is left for the conversion.
OneLetter == IF LengthFlags = {} THEN 0 ELSE 1

Letters == IF LengthFlags = {} THEN 0 ELSE IF Doubled THEN 2 ELSE 1

Length ==
  /\ pc = "length"
  /\ pc' = "specifier"
  /\ flags' = flags \cup LengthFlags
  /\ at' = at + Letters
  /\ UNCHANGED <<call, args, width, precision, output>>

------------------------------------------------------------------------------
(***************************************************************************)
(* The conversions.                                                        *)
(***************************************************************************)
Converted(conv, text) ==
  /\ pc = "specifier" /\ Char(at) \in conv
  /\ Emit(text)
  /\ pc' = "scan" /\ at' = at + 1
  /\ UNCHANGED <<call, directive>>

Unsigned(v, bits) == v % 2 ^ bits
Signed(v, bits) == LET u == v % 2 ^ bits IN IF u >= 2 ^ (bits - 1) THEN u - 2 ^ bits ELSE u

Base(conv) == CASE conv \in {"x", "X"} -> 16 [] conv = "o" -> 8 [] conv = "b" -> 2
                [] OTHER -> 10

\* The value converted is the argument, narrowed; char is unsigned here.
IntType == IF "LONG_LONG" \in flags THEN "llong" ELSE IF "LONG" \in flags THEN "long" ELSE "int"
Narrow(v, signed) ==
  LET narrow(bits) == IF signed THEN Signed(v, bits) ELSE Unsigned(v, bits)
  IN CASE "LONG_LONG" \in flags -> narrow(LongLongBits)
       [] "CHAR" \in flags      -> Unsigned(v, CharBits)
       [] "SHORT" \in flags /\ "CHAR" \notin flags -> narrow(ShortBits)
       [] OTHER                 -> narrow(IntBits)

Integer ==
  LET conv   == Char(at)
      signed == conv \in {"d", "i"}
      used   == (flags \ ((IF Base(conv) = 10 THEN {"HASH"} ELSE {})
                          \cup (IF signed THEN {} ELSE {"PLUS", "SPACE"})
                          \cup (IF "PRECISION" \in flags THEN {"ZEROPAD"} ELSE {})))
                \cup (IF conv = "X" THEN {"UPPERCASE"} ELSE {})
      value  == Narrow(Head(args).value, signed)
  IN /\ Take(IntType)
     /\ Converted({"d", "i", "u", "x", "X", "o", "b"},
                  ntoa(IF value < 0 THEN -value ELSE value, value < 0, Base(conv),
                       precision, width, used))

Upperable(conv) == flags \cup (IF conv \in {"F", "E", "G"} THEN {"UPPERCASE"} ELSE {})

Fixed ==
  /\ Take("double")
  /\ Converted({"f", "F"}, ftoa(Head(args).value, precision, width, Upperable(Char(at))))

Exponential ==
  /\ Take("double")
  /\ Converted({"e", "E", "g", "G"},
               etoa(Head(args).value, precision, width,
                    Upperable(Char(at)) \cup
                    (IF Char(at) \in {"g", "G"} THEN {"ADAPT_EXP"} ELSE {})))

Character ==
  /\ Take("int")
  /\ Converted({"c"}, charField(Glyph[Unsigned(Head(args).value, CharBits)], width, flags))

String ==
  /\ Take("string")
  /\ Converted({"s"}, stringField(Head(args).value, precision, width, flags))

Pointer ==
  /\ Take("pointer")
  /\ Converted({"p"}, ntoa(Head(args).value, FALSE, 16, precision, IntBits \div 4,
                           flags \cup {"ZEROPAD", "UPPERCASE"}))

Conversions == {"d", "i", "u", "x", "X", "o", "b", "f", "F", "e", "E", "g", "G",
                "c", "s", "p"}

\* %% and a character that names no conversion.
Itself ==
  /\ Char(at) \notin Conversions \cup {Nul}
  /\ Converted({Char(at)}, <<Char(at)>>)
  /\ UNCHANGED args

\* A format that ends inside a directive: its NUL is put out as a conversion,
\* and the pointer moves past it.
RunsPast ==
  /\ pc = "specifier" /\ Char(at) = Nul
  /\ Emit(<<Nul>>)
  /\ pc' = "past the end" /\ at' = at + 1
  /\ UNCHANGED <<call, args, directive>>

Terminate ==
  /\ pc = "scan" /\ Char(at) = Nul
  /\ out(<<Nul>>, IF idx < call.maxlen \/ call.maxlen = 0 THEN idx ELSE call.maxlen - 1)
  /\ pc' = "returned"
  /\ UNCHANGED <<call, at, args, directive, idx, full>>

Next ==
  \/ Literal \/ Directive \/ Flag \/ Width \/ WidthDigit
  \/ Precision \/ PrecisionDigit \/ Length
  \/ Integer \/ Fixed \/ Exponential \/ Character \/ String \/ Pointer
  \/ Itself \/ RunsPast \/ Terminate

Spec == Init /\ [][Next]_vars

------------------------------------------------------------------------------
(***************************************************************************)
(* The formats that printf.h documents: text and directives, one piece     *)
(* after the other, and the types of the arguments that they take.         *)
(***************************************************************************)
Lengths == {<< >>, <<"h", "h">>, <<"h">>, <<"l">>, <<"l", "l">>, <<"j">>, <<"z">>, <<"t">>}
Number == Seq(Numerals) \cup {<<"*">>}

\* No conversion is a character that a directive may have before it.
Letter == STRING \ (DOMAIN FlagNames \cup Numerals \cup {"*", ".", "h", "l", "j", "z", "t"})

IsPiece(p) ==
  \/ p.is = "text" /\ p.ch \in STRING \ {"%", Nul}
  \/ /\ p.is = "directive"
     /\ p.flags \in Seq(DOMAIN FlagNames) /\ p.width \in Number
     /\ \/ p.point = << >> /\ p.precision = << >>
        \/ p.point = <<".">> /\ p.precision \in Number
     /\ p.length \in Lengths /\ p.conv \in Letter

PieceText(p) ==
  IF p.is = "text" THEN <<p.ch>>
  ELSE <<"%">> \o p.flags \o p.width \o p.point \o p.precision \o p.length \o <<p.conv>>

ArgType(length, conv) ==
  CASE conv \in {"f", "F", "e", "E", "g", "G"} -> "double"
    [] conv = "s" -> "string"
    [] conv = "p" -> "pointer"
    [] conv \in {"d", "i", "u", "x", "X", "o", "b"} /\ length \in {<<"l", "l">>, <<"j">>} -> "llong"
    [] conv \in {"d", "i", "u", "x", "X", "o", "b"} /\ length \in {<<"l">>, <<"z">>, <<"t">>} -> "long"
    [] OTHER -> "int"

PieceTypes(p) ==
  IF p.is = "text" THEN << >>
  ELSE (IF p.width = <<"*">> THEN <<"int">> ELSE << >>)
       \o (IF p.precision = <<"*">> THEN <<"int">> ELSE << >>)
       \o (IF p.conv \in Conversions THEN <<ArgType(p.length, p.conv)>> ELSE << >>)

\* The format of c is made of pieces, and its arguments have the types that the
\* pieces name.
WellFormed(c) ==
  /\ IsText(c.pieces) /\ \A k \in DOMAIN c.pieces : IsPiece(c.pieces[k])
  /\ \A k \in 1..Len(c.pieces) - 1 : c.pieces[k].is = "directive" => c.pieces[k].conv # Nul
  /\ c.format = FlattenSeq([k \in DOMAIN c.pieces |-> PieceText(c.pieces[k])])
  /\ [i \in DOMAIN c.args |-> c.args[i].type]
       = FlattenSeq([k \in DOMAIN c.pieces |-> PieceTypes(c.pieces[k])])

------------------------------------------------------------------------------
(***************************************************************************)
(* Properties.                                                             *)
(***************************************************************************)
\* printf.h:74-82: a call writes at most count characters with their terminator,
\* keeps as much of the output as fits, and returns what could have been written.
CutToFit ==
  LET stored == Min({call.maxlen, MemSize})
  IN call.sink = "buffer" =>
     /\ \A i \in call.maxlen..MemSize - 1 : mem[i] = Old
     /\ pc = "returned" => \A i \in 0..stored - 1 :
          mem[i] = IF i = Min({idx, call.maxlen - 1}) THEN Nul
                   ELSE IF i < idx THEN full[i + 1] ELSE Old

\* printf.c:612, 629 and 707-826: whatever flags, width, precision and length the
\* directives have, each takes an argument of the type it was given, and none is
\* left; and only a format that ends inside a directive is read past its end.
ArgumentsMatch == WellFormed(call) =>
  /\ pc = "specifier" /\ Char(at) \in Conversions =>
       args # << >> /\ Head(args).type =
         CASE Char(at) \in {"f", "F", "e", "E", "g", "G"} -> "double"
           [] Char(at) = "s" -> "string" [] Char(at) = "p" -> "pointer"
           [] Char(at) = "c" -> "int"    [] OTHER -> IntType
  /\ pc = "returned" => args = << >>
  /\ pc = "past the end" => Last(call.pieces).is = "directive" /\ Last(call.pieces).conv = Nul
==============================================================================
