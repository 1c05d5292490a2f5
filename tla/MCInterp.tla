------------------------------ MODULE MCInterp ------------------------------
EXTENDS Interp

System(name, role, val) == [Entry(name, role, TRUE) EXCEPT !.val = val]
MCBasics ==
  <<System("PLUS", "Roptn", b_basic("PLUS", TRUE)),
    System("EACH", "Rtrans", b_basic("EACH", FALSE))>>

MCSessions ==
  {<< <<"X", ":=", "1">>, <<"T", ":=", "l">>,
      <<"F", "IS", "OP", "Y", "(", "Y", "PLUS", "X", ")">>,
      <<"W", "IS", "TR", "H", "OP", "Y", "(", "H", "H", "Y", ")">> >>}

Names1 == {"X", "T", "N", "M", "F", "W", "Y", "G", "H", "PLUS", "EACH"}
Constants1 == {"1", "2", "l", "o"}
MCProp(word) ==
  IF word \in Names1 THEN "identprop" ELSE IF word \in Constants1 THEN "constprop" ELSE "delimprop"

MCValue(s) == CASE s = "1" -> IntV(1) [] s = "2" -> IntV(2) [] s = "l" -> BoolV(1) [] s = "o" -> BoolV(0)

\* PLUS, the one primitive operation
Int1(v) == v.t \in {"int", "bool"}
Capped(n) == IF n > 9 THEN 9 ELSE n
MCapplytab(name, v) ==
  IF v.t = "array" /\ Len(v.k) = 2
  THEN IF Int1(v.k[1]) /\ Int1(v.k[2]) THEN IntV(Capped(v.k[1].at[1] + v.k[2].at[1])) ELSE Fault("?A")
  ELSE Fault("?plus expects a pair")

MCProductions ==
  ("line" :> {<<"seq">>, <<"G", "IS", "oper", ";", "G", "opnd">>, <<"G", "IS", "{", "body", "}", ";", "X", "G">>}) @@
  ("seq" :> {<<"stmt">>, <<"stmt", ";", "X">>, <<"X", ":=", "opnd", ";", "stmt">>}) @@
  ("stmt" :> {<<"opnd">>, <<"oper", "opnd">>, <<"N", ":=", "opnd">>, <<"N", "M", ":=", "1", "opnd">>,
              <<"T", ":=", "o">>,
              <<"IF", "T", "THEN", "stmt", "ELSE", "X", "ENDIF">>,
              <<"WHILE", "T", "DO", "seq", "ENDWHILE">>,
              <<"FOR", "N", "WITH", "T", "2", "DO", "seq", "ENDFOR">>,
              <<"REPEAT", "seq", "UNTIL", "T", "ENDREPEAT">>,
              <<"CASE", "X", "FROM", "1", ":", "seq", "END", "ENDCASE">>,
              <<"EXIT", "opnd">>, <<"EXIT", "2">>}) @@
  ("opnd" :> {<<"X">>, <<"N">>, <<"(", "stmt", ")">>, <<"{", "body", "}">>}) @@
  ("oper" :> {<<"F">>, <<"EACH", "oper">>, <<"W", "oper">>, <<"(", "X", "PLUS", ")">>,
              <<"OP", "N", "{", "body", "}">>, <<"[", "F", ",", "oper", "]">>}) @@
  ("body" :> {<<"seq">>, <<"LOCAL", "N", ";", "seq">>, <<"NONLOCAL", "X", ";", "seq">>,
              <<"H", "IS", "oper", ";", "H", "opnd">>})
=============================================================================
