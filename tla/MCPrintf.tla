------------------------------ MODULE MCPrintf ------------------------------
(***************************************************************************)
(* Every combination of the flags of an integer directive with small       *)
(* widths and precisions; floating-point values on both sides of a tie, of *)
(* a carry and of a change of exponent; text cut by a short buffer.        *)
(***************************************************************************)
EXTENDS PrintfStandard

One(item) == Called(<<item>>, "buffer", NoLimit)

Values == {0, 5, 12, 3000, -7}
IntegerCalls ==
  {One(Field(fl, w, p, FALSE, << >>, c, v)) :
     fl \in SUBSET {"0", "-", "+", " ", "#"}, w \in {None, 2, 6}, p \in {None, 0, 3},
     c \in {"d", "x", "o", "b"}, v \in {0, 5, 18, -3}}
  \cup {One(Field({}, None, None, FALSE, l, c, v)) :
     l \in {<<"h", "h">>, <<"h">>, <<"l">>, <<"l", "l">>, <<"j">>, <<"z">>, <<"t">>},
     c \in {"d", "i", "u", "X"}, v \in Values}
  \cup {One(Field(fl, w, p, TRUE, << >>, "i", 12)) :
     fl \in SUBSET {"-", "0"}, w \in {-5, 5}, p \in {None, -2, 3}}
  \cup {One(Field({"0"}, 40, None, FALSE, << >>, "d", v)) : v \in {5, -3}}

FloatCalls ==
  {One(Field(fl, w, p, FALSE, << >>, c, v)) :
     fl \in {{}, {"0"}, {"-", "+"}}, w \in {None, 10}, p \in {None, 0, 1, 2, 3},
     c \in {"f", "E", "g"},
     v \in {Dec(0, 0), Dec(5, -1), Dec(15, -1), Dec(25, -1), Dec(-125, -3),
            Dec(99, -2), Dec(1996, -3), Dec(3, 10), Dec(12, -6), Dec(31, 5), Nan, Inf, MinusInf}}
  \cup {One(Field({}, w, p, FALSE, << >>, c, Dec(5, -1))) : w \in {None, 34}, p \in {12},
          c \in {"F", "e", "G"}}
  \cup {One(Field({}, None, p, FALSE, << >>, "f", Dec(95, -2))) : p \in {1, 2}}
  \cup {One(Field(fl, None, p, FALSE, << >>, c, v)) : fl \in {{"#"}, {" "}}, p \in {0, 2},
          c \in {"f", "F", "e", "G"}, v \in {Dec(25, -1), Dec(3, 10), Nan, Inf}}

Abc == <<"a", "b", "c">>
Pieces ==
  {<<Text("<"), Field(fl, w, p, FALSE, << >>, "s", Abc), Text(">")>> :
     fl \in {{}, {"-"}}, w \in {None, 5}, p \in {None, 0, 2}}
  \cup {<<Field(fl, 3, None, FALSE, << >>, "c", ch), Field({}, None, None, FALSE, << >>, "%", 0)>> :
     fl \in {{}, {"-"}}, ch \in {0, 7}}
  \cup {<<Field({}, None, None, FALSE, << >>, "p", 43)>>,
        <<Field({}, None, None, FALSE, << >>, "d", 1), Field({"0"}, 4, None, TRUE, << >>, "s", Abc)>>,
        <<Field({}, 2, None, FALSE, <<"l", "l">>, "d", -9), Text(" "),
          Field({}, None, 1, TRUE, << >>, "s", Abc), Field({}, None, 1, FALSE, << >>, "f", Dec(5, 0))>>,
        <<Text("x"), Field({"-"}, 2, None, FALSE, << >>, Nul, 0)>>}

MCGlyph == [c \in 0..15 |-> IF c = 0 THEN Nul ELSE Lower[c + 1]]

MCCalls == IntegerCalls \cup FloatCalls
           \cup {Called(p, s, n) : p \in Pieces, s \in {"buffer", "function", "none"},
                                   n \in {0, 1, 4, NoLimit}}
=============================================================================
