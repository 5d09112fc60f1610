----------------------------- MODULE MCSession -----------------------------
(* Instances of Session for TLC. *)
EXTENDS Session

AllChars == Separators \cup Unreserved \cup Labels \cup {"%"}

Texts(chars, longest) == UNION {[1..n -> chars] : n \in 0..longest}

\* Texts of one argument, where case, separators and the buffers matter.
LongTexts == Texts({"a", "A", "+"}, 4)

\* Texts of three, where the fields of a key meet.
ShortTexts == {<<>>, <<"a">>, <<"A">>, <<"a", ":country=", "b">>, <<"b", ":country=">>}

AllArguments ==
    {<<>>} \cup {<<t>> : t \in LongTexts \cup {<<"%", "+">>}}
      \cup {<<city, country>> : city, country \in ShortTexts}
      \cup {<<city, country, region>> : city, country, region \in ShortTexts}

AllLines == Texts({"a", " ", "_"}, 3) \cup {<<" ", "a", " ", " ", "A", " ", "a">>}

\* The ends of the ranges, and numbers that print alike.
AllCoordinates ==
    {<<>>, <<Junk, 0>>, <<0>>} \cup {<<lat, lon>> : lat \in {-1, 1, 40, 41}, lon \in {-81, -80, 3, 4}}

=============================================================================
