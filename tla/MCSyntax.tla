------------------------------ MODULE MCSyntax ------------------------------
EXTENDS Syntax

System(name, role, val) == [Entry(name, role, TRUE) EXCEPT !.val = val]
MCBasics ==
  <<System("SUM", "Roptn", b_basic("SUM", FALSE)),
    System("PLUS", "Roptn", b_basic("PLUS", TRUE)),
    System("EACH", "Rtrans", b_basic("EACH", FALSE))>>

MCSessions ==
  {<< <<"X", ":=", "1">>,
      <<"F", "IS", "OP", "Y", "(", "Y", "PLUS", "X", ")">>,
      <<"E", "IS", "X", "PLUS", "1">>,
      <<"B", "IS", "{", "LOCAL", "V", ";", "V", ":=", "1", ";", "V", "}">> >>}

Names1 == {"X", "N", "F", "E", "B", "Y", "V", "G", "SUM", "PLUS", "EACH"}
MCProp(word) ==
  IF word \in Names1 THEN "identprop"
  ELSE IF word = "1" THEN "constprop"
  ELSE IF word = "#c" THEN "commentprop" ELSE "delimprop"

MCProductions ==
  ("line" :> {<<"seq">>, <<"defn">>, <<"defn", ";", "F", "name">>, <<"oper">>}) @@
  ("seq" :> {<<"stmt">>, <<"stmt", ";", "X", ":=", "1">>}) @@
  ("stmt" :> {<<"expr">>, <<"N", ":=", "opnd">>, <<"X", "@", "opnd", ":=", "1">>,
              <<"IF", "opnd", "THEN", "1", "ELSE", "N", "ENDIF">>,
              <<"WHILE", "name", "DO", "EXIT", "opnd", "ENDWHILE">>,
              <<"FOR", "N", "WITH", "1", "DO", "opnd", "ENDFOR">>,
              <<"REPEAT", "opnd", "UNTIL", "name", "ENDREPEAT">>,
              <<"CASE", "X", "FROM", "1", ":", "opnd", "END", "ENDCASE">>}) @@
  ("expr" :> {<<"opnd">>, <<"oper", "name">>, <<"1", "oper", "opnd">>}) @@
  ("name" :> {<<"X">>, <<"N">>}) @@
  ("opnd" :> {<<"name">>, <<"(", "stmt", ")">>, <<"{", "body", "}">>, <<"!", "F">>,
              <<"[", "opnd", ",", "E", "]">>, <<"X", "@", "name">>, <<"B", ":", "V">>}) @@
  ("oper" :> {<<"PLUS">>, <<"F">>, <<"EACH", "SUM">>, <<"(", "1", "oper", ")">>,
              <<"SUM", "oper">>, <<"OP", "N", "(", "expr", ")">>, <<"OP", "Y", "{", "body", "}">>}) @@
  ("body" :> {<<"seq">>, <<"LOCAL", "N", ";", "seq">>, <<"NONLOCAL", "N", ";", "seq">>,
              <<"G", "IS", "oper", ";", "G", "name">>}) @@
  ("defn" :> {<<"G", "IS", "expr">>, <<"G", "IS", "oper">>, <<"G", "IS", "EACH">>,
              <<"F", "IS", "oper">>, <<"G", "IS", "EXTERNAL", "OPERATION">>,
              <<"G", "IS", "TR", "F", "oper">>})
=============================================================================
