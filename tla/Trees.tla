------------------------------- MODULE Trees -------------------------------
(***************************************************************************)
(* Parse trees and the routines that build them (blders.c).  Every tree is *)
(* a tag t, a text s (of a constant, a name or a comment), its parts k and *)
(* the numbers at that tie it to the symbol tables: the table and entry of *)
(* a variable, the table and the number of slots of an operation form or a *)
(* block.                                                                  *)
(***************************************************************************)
EXTENDS Integers, Sequences, SequencesExt

Tree(t, s, k, at) == [t |-> t, s |-> s, k |-> k, at |-> at]
Node(t, k) == Tree(t, "", k, <<>>)
Leaf(t, s) == Tree(t, s, <<>>, <<>>)

Nulltree == Node("nulltree", <<>>)
no_code == Node("none", <<>>)            \* no_excode, no_opcode, no_trcode, no_value

nial_extend(tree, part) == [tree EXCEPT !.k = Append(@, part)]
st_exprseq(tree) == Node("exprseq", <<tree>>)
st_defnseq(tree) == Node("defnseq", <<tree>>)

b_constant(tkn) == Leaf("constant", tkn)
b_commentexpr(tkn) == Leaf("commentexpr", tkn)
b_parsetree(tree) == Node("parsetree", <<tree>>)
b_parendobj(tree) == Node("parendobj", <<tree>>)
b_identifier(sym, id) == Tree("identifier", id, <<>>, <<sym, 0>>)
b_variable(sym, entr, id) == Tree("variable", id, <<>>, <<sym, entr>>)
b_expression(sym, entr, id) == Tree("expression", id, <<>>, <<sym, entr>>)
b_basic(name, binary) == Tree("basic", name, <<>>, <<IF binary THEN 1 ELSE 0>>)

b_curried(op, argexpr) == Node("curried", <<op, argexpr>>)
b_transform(tr, argop) == Node("transform", <<tr, argop>>)

\* A binary primitive between two arguments needs no currying (b_opcall)
Binary(tree) == tree.t = "basic" /\ tree.at = <<1>>
b_opcall(op, argexpr) ==
  IF op.t = "curried" /\ Binary(op.k[1])
  THEN Node("basic_binopcall", <<op.k[1], op.k[2], argexpr>>)
  ELSE Node("opcall", <<op, argexpr>>)

b_scoped_var(fun, id) == Node("scoped_var", <<fun, id>>)
b_selector(tag, id, expr) == Node(tag, <<id, expr>>)
b_indexedassign(left, expr) == Node("indexedassign", <<left, expr>>)
b_assignexpr(idlist, expr) == Node("assignexpr", <<idlist, expr>>)
b_whileexpr(test, body) == Node("whileexpr", <<test, body>>)
b_repeatexpr(body, test) == Node("repeatexpr", <<body, test>>)
b_forexpr(idlist, expr, body) == Node("forexpr", <<idlist, expr, body>>)
b_exitexpr(tree) == Node("exit", <<tree>>)
b_ifexpr(parts) == Node("ifexpr", parts)
b_caseexpr(test, labels, bodies) ==
  Node("caseexpr", <<test, Node("labels", labels), Node("bodies", bodies)>>)

b_opform(sym, nvars, args, body) == Tree("opform", "", <<args, body>>, <<sym, nvars>>)
b_trform(sym, opargs, body) == Tree("trform", "", <<opargs, body>>, <<sym, 0>>)
b_block(sym, nvars, body) == Tree("block", "", <<body>>, <<sym, nvars>>)
b_blockbody(locals, nonlocals, defs, body) ==
  Node("blockbody", <<locals, nonlocals, defs, body>>)
b_definition(idlist, value) == Node("definition", <<idlist, value>>)
b_ext_declaration(idlist, role) == Tree("ext_declaration", role, <<idlist>>, <<>>)

\* The expressions after a sequence of definitions become items of that sequence
combinedaction(defs, exprs) ==
  [defs EXCEPT !.k = @ \o (IF exprs.t = "exprseq" THEN exprs.k ELSE <<exprs>>)]
=============================================================================
