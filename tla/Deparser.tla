------------------------------ MODULE Deparser ------------------------------
(***************************************************************************)
(* The deparser (deparse and its helpers in scan.c): a parse tree to the   *)
(* tokens that see writes, with the tokens of the layout: end of line,     *)
(* deeper, less deep.  How names are capitalised is left out.              *)
(***************************************************************************)
EXTENDS Trees

Layout(s) == [prop |-> "layout", s |-> s]
eol == Layout("eol")
addtkn(out, prop, s) == Append(out, [prop |-> prop, s |-> s])
emitrwd(out, reswrd) == addtkn(out, "delimprop", reswrd)
emiteol(out) == Append(out, eol)
emitincrin(out) == Append(out, Layout("in"))
emitdecrin(out) == Append(out, Layout("out"))
popeol(out) == IF Last(out) = eol THEN Front(out) ELSE out

\* A word that is followed by a deeper line, and one that ends what is deeper
Opening(out, reswrd) == emiteol(emitincrin(emitrwd(out, reswrd)))
Closing(out, reswrd) == emitrwd(emiteol(emitdecrin(popeol(out))), reswrd)

RECURSIVE deparse(_, _)
Each(out, parts) == FoldLeft(deparse, out, parts)

\* For a mutant: a ";" after the last item too
SequenceEnded(out, items) ==
  FoldLeft(LAMBDA o, item : emiteol(emitrwd(deparse(o, item), ";")), out, items)

\* The items of a sequence each but the last end their line; a last Nulltree shows nothing
Sequence(out, items) ==
  LET one(o, item) == emiteol(emitrwd(deparse(o, item), ";"))
  IN deparse(FoldLeft(one, out, Front(items)), Last(items))

List(out, items) ==
  LET one(o, item) == emitrwd(deparse(o, item), ",")
  IN IF items = <<>> THEN out ELSE deparse(FoldLeft(one, out, Front(items)), Last(items))

RECURSIVE IfClauses(_, _, _)
IfClauses(out, parts, n) ==
  IF n > Len(parts) THEN out
  ELSE IF n = Len(parts) THEN deparse(emiteol(emitincrin(Closing(out, "ELSE"))), parts[n])
  ELSE IfClauses(deparse(Opening(deparse(IF n = 1 THEN emitrwd(out, "IF") ELSE Closing(out, "ELSEIF"),
                                       parts[n]), "THEN"), parts[n + 1]), parts, n + 2)

\* One label of a CASE with its body; a body that ended its line ends it once
Label(out, label, body) ==
  LET shown == deparse(Opening(deparse(out, label), ":"), body)
  IN emiteol(emitdecrin(emitrwd(IF Last(shown) = eol THEN shown ELSE emiteol(shown), "END")))

CaseParts(out, test, labels, bodies) ==
  LET head == emiteol(emitincrin(emitincrin(emitrwd(deparse(emitrwd(out, "CASE"), test), "FROM"))))
      all == FoldLeft(LAMBDA o, n : Label(o, labels[n], bodies[n]), head,
                      [n \in DOMAIN labels |-> n])
      other == emitdecrin(popeol(deparse(Opening(all, "ELSE"), Last(bodies))))
      ended == IF Last(bodies) = Nulltree THEN all ELSE other
  IN emitrwd(emiteol(emitdecrin(emitdecrin(popeol(ended)))), "ENDCASE")

\* joinblockstuff: the parts of a block or of an operation's body in braces
BlockBody(out, body) ==
  LET Part(o, word, part) == emiteol(emitrwd(deparse(IF word = "" THEN o ELSE emitrwd(o, word), part), ";"))
      start == Opening(out, "{")
      locals == IF body.k[1] = Nulltree THEN start ELSE Part(start, "LOCAL", body.k[1])
      nonlocals == IF body.k[2].k = <<>> THEN locals ELSE Part(locals, "NONLOCAL", body.k[2])
      defs == IF body.k[3] = Nulltree THEN nonlocals ELSE Part(nonlocals, "", body.k[3])
  IN emitdecrin(emitrwd(deparse(defs, body.k[4]), "}"))

\* An operation's body is shown when it is in braces or in parentheses
OpForm(out, args, body) ==
  LET head == deparse(emitrwd(out, "OPERATION"), args)
  IN CASE body.t = "blockbody" -> BlockBody(head, body)
       [] body.t = "parendobj" ->
            emitdecrin(emitrwd(deparse(Opening(head, "("), body.k[1]), ")"))
       [] OTHER -> head

TrForm(out, args, body) ==
  LET head == deparse(emitrwd(out, "TRANSFORMER"), args)
  IN IF body.t = "opform" THEN emitdecrin(deparse(emiteol(emitincrin(head)), body))
     ELSE deparse(head, body)

ExternalWord(role) ==
  CASE role = "Rexpr" -> "EXPRESSION"
    [] role = "Roptn" -> "OPERATION"
    [] role = "Rtrans" -> "TRANSFORMER"
    [] role = "Rvar" -> "VARIABLE"

Signs == [pickplace |-> <<"@">>, reachput |-> <<"@", "@">>, slice |-> <<"|">>, choose |-> <<"#">>]

deparse(out, br) ==
  LET k == br.k IN
  CASE br.t = "constant" -> addtkn(out, "constprop", br.s)
    [] br.t = "commentexpr" -> addtkn(out, "commentprop", br.s)
    [] br.t \in {"basic", "expression", "variable"} -> addtkn(out, "identprop", br.s)
    [] br.t = "none" -> addtkn(out, "identprop", "NO_OP")
    [] br.t \in {"strand", "composition", "idlist", "opcall", "transform"} -> Each(out, k)
    [] br.t = "basic_binopcall" -> Each(out, <<k[2], k[1], k[3]>>)
    [] br.t = "curried" -> Each(out, <<k[2], k[1]>>)
    [] br.t \in {"defnseq", "exprseq"} -> Sequence(out, k)
    [] br.t \in {"assignexpr", "indexedassign"} -> deparse(emitrwd(deparse(out, k[1]), ":="), k[2])
    [] br.t \in DOMAIN Signs -> deparse(FoldLeft(emitrwd, deparse(out, k[1]), Signs[br.t]), k[2])
    [] br.t = "ifexpr" -> Closing(IfClauses(out, k, 1), "ENDIF")
    [] br.t = "whileexpr" ->
         Closing(deparse(Opening(deparse(emitrwd(out, "WHILE"), k[1]), "DO"), k[2]), "ENDWHILE")
    [] br.t = "repeatexpr" ->
         emitrwd(emiteol(deparse(Closing(deparse(Opening(out, "REPEAT"), k[1]), "UNTIL"), k[2])),
                 "ENDREPEAT")
    [] br.t = "forexpr" ->
         Closing(deparse(Opening(deparse(emitrwd(deparse(emitrwd(out, "FOR"), k[1]), "WITH"), k[2]),
                                 "DO"), k[3]), "ENDFOR")
    [] br.t = "exit" -> deparse(emitrwd(out, "EXIT"), k[1])
    [] br.t = "caseexpr" -> CaseParts(out, k[1], k[2].k, k[3].k)
    [] br.t = "opform" -> OpForm(out, k[1], k[2])
    [] br.t = "trform" -> TrForm(out, k[1], k[2])
    [] br.t = "block" -> BlockBody(out, k[1])
    [] br.t = "definition" -> deparse(emitrwd(deparse(out, k[1]), "IS"), k[2])
    [] br.t = "ext_declaration" ->
         FoldLeft(emitrwd, deparse(out, k[1]), <<"IS", "EXTERNAL", ExternalWord(br.s)>>)
    [] br.t \in {"list", "atlas"} -> emitrwd(List(emitrwd(out, "["), k), "]")
    [] br.t = "parsetree" -> deparse(emitrwd(out, "!"), k[1])
    [] br.t = "parendobj" -> emitrwd(deparse(emitrwd(out, "("), k[1]), ")")
    [] OTHER -> out                         \* Nulltree, and a scoped variable

\* ideparse of the tree that igetdef or parse answered
ideparse(tree) == deparse(<<>>, tree.k[1])
=============================================================================
