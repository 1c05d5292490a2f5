------------------------------- MODULE Parser -------------------------------
(***************************************************************************)
(* The parser (parse.c): a line of tokens to a parse tree or a fault.      *)
(*                                                                         *)
(* It is a recursive descent over the forms of the language, with a stack  *)
(* machine driven by a table (formfinder) for what is written by           *)
(* juxtaposition: strands, curried operations, calls, compositions and     *)
(* transforms.  It backs up (resettkn) and tries again with other hopes,   *)
(* and while it does so it installs names in the symbol tables, which it   *)
(* never takes back.  The globals of the C code are the record p:          *)
(*   line, i       the tokens and the index of the next one                *)
(*   tabs          the symbol tables            env     those in scope     *)
(*   localcnt      slots used in the frame      loops   loopcount          *)
(*   nonlocs       names declared NONLOCAL      referred names referred to *)
(*   lasterror     the last error reported      deferredsi where a name    *)
(*                 that is not defined was met  top     values pushed      *)
(*                                                                         *)
(* A routine answers SUCCEED with its tree (and, if it may be of several,  *)
(* its kind), FAIL when it is another form's turn, or ERROR.               *)
(***************************************************************************)
EXTENDS SymbolTable

Fresh(tabs, line) ==
  [line |-> line, i |-> 1, tabs |-> tabs, env |-> <<>>, localcnt |-> 0, loops |-> 0,
   nonlocs |-> {}, referred |-> {}, lasterror |-> "", deferredsi |-> 0, top |-> 0]

\* The tokens: reserved words and signs, names, constants, comments; then r_EOL
r_EOL == [prop |-> "delimprop", s |-> ""]
token(p) == IF p.i <= Len(p.line) THEN p.line[p.i] ELSE r_EOL
next(p) == token(p).s
tokenprop(p) == token(p).prop
accept1(p) == [p EXCEPT !.i = @ + 1]
resettkn(p, n) == [p EXCEPT !.i = n]

SUCCEED(p, tree) == [r |-> "ok", p |-> p, tree |-> tree, k |-> ""]
Kind(p, k, tree) == [r |-> "ok", p |-> p, tree |-> tree, k |-> k]
FAIL(p) == [r |-> "fail", p |-> p, tree |-> Nulltree, k |-> ""]

\* error: the message is pushed, but that a name is not defined waits
error(p, mess) ==
  [r |-> "err", tree |-> Nulltree, k |-> "",
   p |-> IF mess = "undefined"
         THEN [p EXCEPT !.lasterror = mess, !.deferredsi = p.i]
         ELSE [p EXCEPT !.lasterror = mess, !.top = @ + 1]]
pass(res, p) == [res EXCEPT !.p = p]

Then(res, F(_)) == IF res.r = "ok" THEN F(res) ELSE res
Need(res, mess) == IF res.r = "fail" THEN error(res.p, mess) ELSE res
Accepting(p, word, mess, F(_)) ==
  IF next(p) \in word THEN F(accept1(p)) ELSE error(p, mess)

\* ite_cleanup: what the form has pushed is taken from under the message
ite_cleanup(res, cnt) ==
  IF res.r # "err" THEN res
  ELSE IF res.p.lasterror # "undefined" THEN pass(res, [res.p EXCEPT !.top = @ - cnt])
  ELSE error([res.p EXCEPT !.top = @ - cnt], "undefined1")

(***************************************************************************)
(* Names.                                                                  *)
(***************************************************************************)
entry(p, var) == p.tabs[var.at[1]].ents[var.at[2]]
get_role(p, var) == entry(p, var).role
symprop(p, sym) == p.tabs[sym].prop
\* For a mutant: a name that has a role keeps it
RoleKept(p, var, role) ==
  IF get_role(p, var) # "Rident" THEN p
  ELSE [p EXCEPT !.tabs[var.at[1]].ents[var.at[2]].role = role]
SetRole(p, var, role) == [p EXCEPT !.tabs[var.at[1]].ents[var.at[2]].role = role]
Closed(p) == p.env # <<>> /\ symprop(p, p.env[1]) = "closed"

varinstall(p, id, role, sym) ==
  LET tabs == mkSymtabEntry(p.tabs, sym, id, role, FALSE)
  IN [p |-> [p EXCEPT !.tabs = tabs], var |-> b_variable(sym, Len(tabs[sym].ents), id)]

\* For a mutant: the next variable takes the same slot
SlotShared(v) == [v EXCEPT !.p.tabs[v.var.at[1]].ents[v.var.at[2]].slot = v.p.localcnt]

\* A new variable of the frame takes the next slot
Slotted(v) ==
  [v EXCEPT !.p.tabs[v.var.at[1]].ents[v.var.at[2]].slot = v.p.localcnt, !.p.localcnt = @ + 1]

\* A name that is found stands for its entry
Known(name, at) ==
  IF at[2] = notfound THEN b_identifier(at[1], name) ELSE b_variable(at[1], at[2], name)

ID(p, searchtype) ==
  IF tokenprop(p) # "identprop" THEN FAIL(p)
  ELSE SUCCEED(accept1(p),
         IF searchtype = "formal" THEN b_identifier(0, next(p))
         ELSE Known(next(p), lookup(p.tabs, p.env, p.nonlocs, next(p), searchtype)))

RECURSIVE IDLIST(_, _)
IDLIST(p, searchtype) ==
  LET id == ID(p, searchtype)
      rest == IDLIST(id.p, searchtype)
  IN IF id.r = "fail" THEN SUCCEED(p, Node("idlist", <<>>))
     ELSE SUCCEED(rest.p, Node("idlist", <<id.tree>> \o rest.tree.k))

\* The names of a list become entries of table sym
Install(p, ids, role, sym) ==
  FoldLeft(LAMBDA a, id : LET v == Slotted(varinstall(a.p, id.s, role, sym))
                          IN [p |-> v.p, tree |-> nial_extend(a.tree, v.var)],
           [p |-> p, tree |-> Node("idlist", <<>>)], ids.k)

RECURSIVE formfinder(_), EXPR_SEQ(_), STMT_EXPR(_), PRIMARY(_), Action(_), DEFN_SEQ(_, _)

\* An indexed variable: A@x  A@@x  A|x  A#x
IX_VAR(p, id) ==
  LET reach == next(p) = "@" /\ next(accept1(p)) = "@"
      tag == CASE next(p) = "@" -> IF reach THEN "reachput" ELSE "pickplace"
               [] next(p) = "|" -> "slice"
               [] next(p) = "#" -> "choose"
               [] OTHER -> ""
      at == IF reach THEN accept1(accept1(p)) ELSE accept1(p)
  IN IF get_role(p, id) # "Rvar" \/ tag = "" THEN FAIL(p)
     ELSE Then(Need(PRIMARY(at), "exp_expr"),
               LAMBDA e : SUCCEED(e.p, b_selector(tag, id, e.tree)))

\* A variable of an operation, a transformer or a block: F:x
SCOPED_VAR(p, id) ==
  IF get_role(p, id) \notin {"Roptn", "Rexpr", "Rtrans"} \/ next(p) # ":" THEN FAIL(p)
  ELSE IF entry(p, id).sys THEN error(p, "sysname_scope")
  ELSE IF entry(p, id).val.t \notin {"opform", "trform", "block"} THEN error(p, "no_scope")
  ELSE Then(Need(ID(accept1(p), "formal"), "exp_var"),
            LAMBDA v : SUCCEED(v.p, b_scoped_var(id, v.tree)))

\* A name met while a closed scope is being parsed may not become local to it later
Referred(p, id) == IF Closed(p) THEN [p EXCEPT !.referred = @ \cup {id}] ELSE p

Defined(p, id) == id.t = "variable" /\ get_role(p, id) # "Rident"

\* A primitive stands for itself (deref_sys)
deref_sys(p, id) ==
  IF entry(p, id).sys /\ entry(p, id).val.t = "basic" THEN entry(p, id).val ELSE id

\* What a name stands for, with its selector or scope; Plain(p, id) if it has none
Named(p, Plain(_, _)) ==
  LET id == ID(p, "passive").tree
      q == accept1(p)
      ix == IX_VAR(q, id)
      sc == SCOPED_VAR(q, id)
  IN IF ~Defined(q, id) THEN error(q, "undefined")
     ELSE IF ix.r # "fail" THEN Then(ix, LAMBDA x : Kind(x.p, "P", x.tree))
     ELSE IF sc.r # "fail" THEN Then(sc, LAMBDA x : Kind(x.p, "P", x.tree))
     ELSE Plain(q, id)

Meant(p0, id) ==
  LET p == Referred(p0, id.s) IN
  CASE get_role(p, id) = "Rexpr" -> Kind(p, "P", b_expression(id.at[1], id.at[2], id.s))
    [] get_role(p, id) = "Rvar" -> Kind(p, "P", id)
    [] get_role(p, id) = "Roptn" -> Kind(p, "O", deref_sys(p, id))
    [] OTHER -> Kind(p, "T", deref_sys(p, id))

\* !name or !( program )
Quoted(res) == Kind(res.p, "P", b_parsetree(res.tree))
Program(p) ==
  LET act == Action(p) IN IF act.r = "fail" THEN formfinder(act.p) ELSE act

quotepgm(p0) ==
  LET p == accept1(p0) IN
  CASE tokenprop(p) = "identprop" ->
         Then(Named(p, LAMBDA q, id :
                IF get_role(q, id) = "Rexpr"
                THEN SUCCEED(q, b_expression(id.at[1], id.at[2], id.s))
                ELSE SUCCEED(Referred(q, id.s), id)), Quoted)
    [] next(p) = "(" ->
         Then(Program(accept1(p)), LAMBDA a :
           Accepting(a.p, {")"}, "exp_rparen",
             LAMBDA q : Quoted(SUCCEED(q, b_parendobj(a.tree)))))
    [] OTHER -> error(p, "exp_quotepgm")

\* ( ... ): a sequence of expressions, or (unless exprflag) any form
rec_form(p0, exprflag) ==
  LET p == accept1(p0)
      seq == EXPR_SEQ(p)
      form == formfinder(resettkn(seq.p, p.i))
  IN IF next(p) = ")" THEN error(p, "exp_expr")
     ELSE IF seq.r # "fail"
     THEN Then(seq, LAMBDA a : Accepting(a.p, {")"}, "exp_rparen",
                                         LAMBDA q : Kind(q, "P", b_parendobj(a.tree))))
     ELSE IF exprflag THEN FAIL(resettkn(seq.p, p.i))
     ELSE Then(form, LAMBDA a :
            IF next(a.p) # ")" THEN error(a.p, "exp_aot")
            ELSE IF a.k = "N" THEN error(a.p, "ill_null_form")
            ELSE Kind(accept1(a.p), a.k, b_parendobj(a.tree)))

\* [ ... ]: a list of expressions (an item may be missing) or an atlas of operations
ItemKind(k) == IF k \in {"N", "P", "S", "A"} THEN "P" ELSE k

RECURSIVE Items(_, _, _)
Items(p, kind, items) ==
  Then(formfinder(p), LAMBDA a :
    LET k == ItemKind(a.k)
        all == Append(items, IF a.k = "N" THEN Nulltree ELSE a.tree)
    IN IF k = "T" THEN error(a.p, "invalid_optn")
       ELSE IF kind \notin {"", k} THEN error(a.p, IF kind = "P" THEN "exp_expr" ELSE "exp_optn")
       ELSE IF next(a.p) = "," THEN Items(accept1(a.p), k, all)
       ELSE Accepting(a.p, {"]"}, "exp_rbracket",
                      LAMBDA q : Kind(q, k, Node(IF k = "P" THEN "list" ELSE "atlas", all))))

brackets(p) ==
  IF next(accept1(p)) = "]" THEN Kind(accept1(accept1(p)), "P", Node("list", <<>>))
  ELSE Items(accept1(p), "", <<>>)

(***************************************************************************)
(* Scopes.  A frame's slots are counted from 0 while its scope is parsed.  *)
(***************************************************************************)
Scoped(p, prop, Body(_)) ==
  LET tabs == addsymtab(p.tabs, prop, p.env)
      res == Body([p EXCEPT !.tabs = tabs, !.env = Last(tabs).env, !.localcnt = 0])
  IN [res EXCEPT !.p.env = p.env, !.p.localcnt = p.localcnt]

LocalList(p) ==
  LET ids == IDLIST(accept1(p), "formal")
  IN IF next(p) # "LOCAL" THEN SUCCEED(p, Nulltree)
     ELSE Accepting(ids.p, {";"}, "exp_semicolon", LAMBDA q :
            LET new == Install(q, ids.tree, "Rvar", p.env[1]) IN SUCCEED(new.p, new.tree))

\* A name declared NONLOCAL that no outer scope has becomes a global variable
InstallNonlocals(p, ids) ==
  FoldLeft(LAMBDA a, id : LET v == varinstall(a.p, id.s, "Rvar", id.at[1])
                          IN IF id.t = "variable" THEN [a EXCEPT !.tree = nial_extend(@, id)]
                             ELSE [p |-> v.p, tree |-> nial_extend(a.tree, v.var)],
           [p |-> p, tree |-> Node("idlist", <<>>)], ids)

Names(idlist) == {idlist.k[j].s : j \in DOMAIN idlist.k}

NonlocalList(p, args, locals) ==
  LET ids == IDLIST(accept1(p), "nonlocal")
      clash == {j \in DOMAIN ids.tree.k : ids.tree.k[j].s \in Names(args) \cup Names(locals)}
      upto == IF clash = {} THEN Len(ids.tree.k) ELSE Min(clash) - 1
      new == InstallNonlocals(ids.p, SubSeq(ids.tree.k, 1, upto))
  IN IF next(p) # "NONLOCAL" THEN SUCCEED(p, Node("idlist", <<>>))
     ELSE IF clash # {}
     THEN error(new.p, IF ids.tree.k[Min(clash)].s \in Names(args) THEN "arg_reused" ELSE "local_reused")
     ELSE Accepting(new.p, {";"}, "exp_semicolon", LAMBDA q : SUCCEED(q, new.tree))

Definitions(p) ==
  LET defs == DEFN_SEQ(p, TRUE)
  IN IF defs.r = "fail" THEN SUCCEED(defs.p, Nulltree)
     ELSE Then(defs, LAMBDA d : Accepting(d.p, {";"}, "exp_semicolon",
                                          LAMBDA q : SUCCEED(q, d.tree)))

BLOCKBODY(p0, args) ==
  LET sym == p0.env[1]
      res == Then(LocalList([p0 EXCEPT !.referred = {}]), LAMBDA l :
             Then(NonlocalList(l.p, args, l.tree), LAMBDA n :
             Then(Definitions([n.p EXCEPT !.nonlocs = Names(n.tree)]), LAMBDA d :
             Then(Need(EXPR_SEQ(d.p), "exp_eseq"), LAMBDA b :
             Accepting(b.p, {"}", "END"}, "exp_rcurly", LAMBDA q :
               SUCCEED([q EXCEPT !.tabs[sym].prop = "open"],
                       b_blockbody(l.tree, n.tree, d.tree, b.tree)))))))
  IN [res EXCEPT !.p.nonlocs = p0.nonlocs, !.p.referred = p0.referred]

BLOCK(p) ==
  Scoped(accept1(p), "closed", LAMBDA q :
    Then(BLOCKBODY(q, Nulltree),
         LAMBDA b : SUCCEED(b.p, b_block(q.env[1], b.p.localcnt, b.tree))))

\* Backs up when what it finds is not an expression, and takes an operation's atlas for none
EXPRESSION(p) ==
  Then(formfinder(p), LAMBDA a :
    IF a.k \in {"P", "S", "A"} THEN a ELSE FAIL(resettkn(a.p, p.i)))

OPERATION(p) == Then(formfinder(p), LAMBDA a : IF a.k = "O" THEN a ELSE FAIL(a.p))

OP_FORM(p) ==
  LET args == IDLIST(accept1(p), "formal")
      Body(q) ==
        LET new == Install(q, args.tree, "Rvar", q.env[1])
            Form(b) == SUCCEED(b.p, b_opform(q.env[1], b.p.localcnt, new.tree, b.tree))
        IN CASE next(new.p) = "(" -> Then(Need(EXPRESSION(new.p), "exp_body"), Form)
             [] next(new.p) \in {"{", "BEGIN"} ->
                  Then(BLOCKBODY([accept1(new.p) EXCEPT !.tabs[q.env[1]].prop = "closed"],
                                 new.tree), Form)
             [] OTHER -> error(new.p, "exp_body")
  IN IF args.tree.k = <<>> THEN error(args.p, "exp_ident")
     ELSE Scoped(args.p, "open", Body)

\* The operation parameters of a transformer have slots of their own
TR_FORM(p) ==
  LET args == IDLIST(accept1(p), "formal")
      Body(q) ==
        LET new == Install(q, args.tree, "Roptn", q.env[1])
        IN Then(Need(OPERATION([new.p EXCEPT !.localcnt = args.p.localcnt]), "exp_optn"),
                LAMBDA b : SUCCEED(b.p, b_trform(q.env[1], new.tree, b.tree)))
  IN IF args.tree.k = <<>> THEN error(args.p, "exp_ident")
     ELSE Scoped(args.p, "parameter", Body)

(***************************************************************************)
(* The stack machine for juxtaposition.  An entry of the stack has a state *)
(* and the items collected in it: P one operand, S a strand being made, A  *)
(* an argument, O an operation, OC a composition being made, T a           *)
(* transformer, TC one whose operation follows, LE and RE the ends of the  *)
(* form, N nothing.  back is an entry that shift gives back first.         *)
(***************************************************************************)
pushexpr(f, k, tree) == [f EXCEPT !.stk = Append(@, [k |-> k, items |-> <<tree>>])]
topexpr(f) == Last(f.stk)
drop(f) == [f EXCEPT !.stk = Front(@)]
state0(f) == Last(f.stk).k
state1(f) == f.stk[Len(f.stk) - 1].k
finishcollection(e) ==
  IF Len(e.items) = 1 THEN e.items[1]
  ELSE Node(IF e.k = "OC" THEN "composition" ELSE "strand", e.items)
popexpr(f) == finishcollection(topexpr(f))
additem(f, k) ==
  LET below == topexpr(drop(f))
  IN [f EXCEPT !.stk = Append(Front(Front(@)), [k |-> k, items |-> Append(below.items, popexpr(f))])]
backup(f, k) ==
  [drop(f) EXCEPT !.back = <<[k |-> state0(f), items |-> <<popexpr(f)>>]>>,
                  !.stk = Append(Front(Front(f.stk)), [topexpr(drop(f)) EXCEPT !.k = k])]
Failed(f, res) == [f EXCEPT !.r = "err", !.p = res.p]
combine(f, k, tree) == pushexpr(drop(drop(f)), k, tree)

Shifted(f, res) ==
  IF res.r = "ok" THEN pushexpr([f EXCEPT !.p = res.p], res.k, res.tree) ELSE Failed(f, res)
\* An operation form or a transformer form ends the form it is in
Ending(f, res, k) ==
  IF res.r = "ok" THEN pushexpr(pushexpr([f EXCEPT !.p = res.p], k, res.tree), "RE", Nulltree)
  ELSE Failed(f, res)

shift(f) ==
  LET p == f.p
      k == next(p)
  IN CASE f.back # <<>> -> [f EXCEPT !.stk = Append(@, f.back[1]), !.back = <<>>]
       [] f.back = <<>> /\ tokenprop(p) = "constprop" ->
            Shifted(f, Kind(accept1(p), "P", b_constant(k)))
       [] f.back = <<>> /\ tokenprop(p) = "identprop" -> Shifted(f, Named(p, Meant))
       [] f.back = <<>> /\ tokenprop(p) \notin {"constprop", "identprop"} ->
            CASE k \in {"{", "BEGIN"} -> Shifted(f, Then(BLOCK(p), LAMBDA b : Kind(b.p, "P", b.tree)))
              [] k = "(" -> Shifted(f, rec_form(p, FALSE))
              [] k \in {"OP", "OPERATION"} -> Ending(f, OP_FORM(p), "O")
              [] k \in {"TR", "TRANSFORMER"} -> Ending(f, TR_FORM(p), "T")
              [] k = "!" -> Shifted(f, quotepgm(p))
              [] k = "[" -> Shifted(f, brackets(p))
              [] OTHER -> pushexpr(f, "RE", Nulltree)

\* What to do, by the state below the top (the row) and at the top (the column)
column == [P |-> 1, S |-> 2, A |-> 3, O |-> 4, OC |-> 5, T |-> 6, TC |-> 7, LE |-> 8, RE |-> 9, N |-> 10]
strand == <<"Xpp", "cant", "cant", "Xp_", "cant", "Xp_", "Xp_", "shift", "Xp_", "X_n">>
reducetab ==
  [P  |-> strand,
   S  |-> strand,
   A  |-> <<"cant", "cant", "cant", "Xao", "cant", "shift", "shift", "shift", "XaRE", "X_n">>,
   O  |-> <<"shift", "shift", "Xoa", "Xoo", "cant", "shift", "shift", "shift", "XoRE", "X_n">>,
   OC |-> <<"Xocp", "cant", "cant", "Xoo", "cant", "Xoct", "cant", "shift", "XocRE", "X_n">>,
   T  |-> <<"shift", "shift", "shift", "Xto", "cant", "shift", "shift", "shift", "Xt_", "X_n">>,
   TC |-> [c \in 1..10 |-> IF c = 9 THEN "XtcRE" ELSE "cant"],
   LE |-> [c \in 1..10 |-> IF c = 9 THEN "XLERE" ELSE "shift"],
   RE |-> [c \in 1..10 |-> "cant"],
   N  |-> [c \in 1..10 |-> IF c = 8 THEN "shift" ELSE IF c = 9 THEN "XnRE"
                           ELSE IF c = 10 THEN "X_n" ELSE "Xn_"]]

\* The form is complete when what it came to lies between its two ends
XxRE(f, k) ==
  IF f.stk[Len(f.stk) - 2].k = "LE"
  THEN [combine(drop(f), k, popexpr(drop(f))) EXCEPT !.r = "done"]
  ELSE Failed(f, error(f.p, "exp_aot"))

Reduce(f) ==
  LET above == popexpr(f)
      below == popexpr(drop(f))
      act == reducetab[state1(f)][column[state0(f)]]
  IN CASE act = "shift" -> shift(f)
       [] act = "cant" -> Failed(f, error(f.p, "exp_aot"))
       [] act = "Xpp" -> additem(f, "S")
       [] act = "Xoo" -> additem(f, "OC")
       [] act = "Xp_" -> backup(f, "A")
       [] act = "Xt_" -> backup(f, "TC")
       [] act = "Xao" -> combine(f, "O", b_curried(above, below))
       [] act = "Xoa" -> combine(f, "A", b_opcall(below, above))
       [] act = "Xto" -> combine(f, "O", b_transform(below, above))
       [] act = "Xocp" -> pushexpr(combine(f, "O", below), "P", above)
       [] act = "Xoct" -> pushexpr(combine(f, "O", below), "T", above)
       [] act = "XaRE" -> XxRE(f, "P")
       [] act \in {"XoRE", "XocRE"} -> XxRE(f, "O")
       [] act = "XtcRE" -> XxRE(f, "T")
       [] act = "XnRE" -> XxRE(f, "N")
       [] act = "XLERE" -> [combine(f, "N", Nulltree) EXCEPT !.r = "done"]
       [] act = "X_n" -> combine(f, "N", Nulltree)
       [] act = "Xn_" -> drop(f)

RECURSIVE Reduced(_)
Reduced(f) ==
  CASE f.r = "ok" -> Reduced(Reduce(f))
    [] f.r = "done" -> Kind(f.p, state0(f), popexpr(f))
    [] f.r = "err" -> [FAIL(f.p) EXCEPT !.r = "err"]

formfinder(p) ==
  Reduced(shift(pushexpr([r |-> "ok", p |-> p, stk |-> <<>>, back |-> <<>>], "LE", Nulltree)))

\* An operand alone: what may follow the sign of an indexed variable
PRIMARY(p) ==
  LET k == next(p) IN
  CASE tokenprop(p) = "constprop" -> SUCCEED(accept1(p), b_constant(k))
    [] tokenprop(p) = "identprop" ->
         Then(Named(p, Meant), LAMBDA n : IF n.k = "P" THEN n ELSE error(n.p, "exp_primary"))
    [] tokenprop(p) \notin {"constprop", "identprop"} ->
         CASE k \in {"{", "BEGIN"} -> BLOCK(p)
           [] k = "(" -> rec_form(p, TRUE)
           [] k = "!" -> quotepgm(p)
           [] k = "[" -> brackets(p)
           [] OTHER -> FAIL(p)

(***************************************************************************)
(* Statements.                                                             *)
(***************************************************************************)
Gets(p) == next(p) \in {":=", "GETS"}

\* A name of the scope is assignable unless it was referred to as one of an outer scope
Assignable(p, var) ==
  IF var.t = "identifier"
  THEN IF symprop(p, var.at[1]) = "closed" /\ var.s \in p.referred THEN "ref_bfr_ass" ELSE ""
  ELSE IF get_role(p, var) \in {"Rvar", "Rident"} THEN "" ELSE "invalid_assign"

\* The variable that is assigned to, made now if there is none
Assigned(p, var) ==
  LET v == varinstall(p, var.s, "Rvar", var.at[1])
  IN IF var.t = "variable" THEN [p |-> SetRole(p, var, "Rvar"), var |-> var]
     ELSE IF symprop(p, var.at[1]) = "closed" THEN Slotted(v) ELSE v

RECURSIVE Targets(_, _, _)
Targets(p, ids, done) ==
  LET v == Assigned(p, Head(ids))
  IN IF ids = <<>> THEN SUCCEED(p, Node("idlist", done))
     ELSE IF Assignable(p, Head(ids)) # "" THEN error(p, Assignable(p, Head(ids)))
     ELSE Targets(v.p, Tail(ids), Append(done, v.var))

ASSIGN_EXPR(p) ==
  LET ids == IDLIST(p, "active") IN
  IF ids.tree.k = <<>> \/ ~Gets(ids.p) THEN FAIL(resettkn(ids.p, p.i))
  ELSE Then(Targets(accept1(ids.p), ids.tree.k, <<>>), LAMBDA t :
       Then(Need(STMT_EXPR(t.p), "exp_expr"), LAMBDA e :
         SUCCEED(e.p, b_assignexpr(t.tree, e.tree))))

IX_ASSIGN_EXPR(p) ==
  LET id == ID(p, "passive")
      left == IX_VAR(id.p, id.tree)
  IN IF id.r = "fail" \/ id.tree.t = "identifier" THEN FAIL(id.p)
     ELSE IF get_role(id.p, id.tree) # "Rvar" THEN FAIL(id.p)
     ELSE Then(left, LAMBDA l :
            IF ~Gets(l.p) THEN error(l.p, "incomplete_parse")
            ELSE Then(Need(STMT_EXPR(accept1(l.p)), "exp_expr"), LAMBDA e :
                   SUCCEED(e.p, b_indexedassign(l.tree, e.tree))))

\* The test and the body of a loop; an error in them is cleaned up at the form
Test(p) == ite_cleanup(Need(EXPRESSION(p), "exp_expr"), 0)
Loop(p) ==
  LET body == EXPR_SEQ([p EXCEPT !.loops = @ + 1])
  IN ite_cleanup(Need([body EXCEPT !.p.loops = p.loops], "exp_eseq"), 0)

WHILE_EXPR(p) ==
  Then(Test(accept1(p)), LAMBDA t : Accepting(t.p, {"DO"}, "exp_do", LAMBDA q :
  Then(Loop(q), LAMBDA b : Accepting(b.p, {"ENDWHILE"}, "exp_endwhile", LAMBDA z :
    SUCCEED(z, b_whileexpr(st_exprseq(t.tree), b.tree))))))

REPEAT_EXPR(p) ==
  Then(Loop(accept1(p)), LAMBDA b : Accepting(b.p, {"UNTIL"}, "exp_until", LAMBDA q :
  Then(Test(q), LAMBDA t : Accepting(t.p, {"ENDREPEAT"}, "exp_endrepeat", LAMBDA z :
    SUCCEED(z, b_repeatexpr(b.tree, st_exprseq(t.tree)))))))

EXIT_EXPR(p) ==
  IF p.loops <= 0 THEN error(accept1(p), "exit_context")
  ELSE Then(ite_cleanup(Need(EXPRESSION(accept1(p)), "exp_eseq"), 0),
            LAMBDA e : SUCCEED(e.p, b_exitexpr(e.tree)))

FOR_EXPR(p) ==
  Then(Need(ID(accept1(p), "active"), "exp_ident"), LAMBDA id :
  Accepting(id.p, {"WITH"}, "exp_with", LAMBDA w :
  Then(Targets(w, <<id.tree>>, <<>>), LAMBDA v :
  Then(Test(v.p), LAMBDA t : Accepting(t.p, {"DO"}, "exp_do", LAMBDA q :
  Then(Loop(q), LAMBDA b : Accepting(b.p, {"ENDFOR"}, "exp_endfor", LAMBDA z :
    SUCCEED(z, b_forexpr(v.tree, st_exprseq(t.tree), b.tree)))))))))

\* The parts of an IF are pushed as they are found, its tag before the first
Pushed(p, n) == [p EXCEPT !.top = @ + n]

IfPart(p, parts, Find(_), mess, F(_)) ==
  LET res == ite_cleanup(Need(Find(p), mess), Len(parts) + 1) IN Then(res, F)

RECURSIVE IfParts(_, _)
IfParts(p, parts) ==
  LET cnt == Len(parts) + 1
      Seqs(q, done) ==
        IfPart(q, done, EXPR_SEQ, "exp_eseq", LAMBDA b :
          SUCCEED(Pushed(b.p, 1), b_ifexpr(Append(done, b.tree))))
  IN CASE next(p) = (IF parts = <<>> THEN "IF" ELSE "ELSEIF") ->
            IfPart(accept1(p), parts, EXPRESSION, "exp_expr", LAMBDA t :
              LET done == Append(parts, st_exprseq(t.tree))
                  q == Pushed(t.p, 1)
              IN IF next(q) # "THEN" THEN ite_cleanup(error(q, "exp_then"), cnt + 1)
                 ELSE Then(Seqs(accept1(q), done), LAMBDA b : IfParts(b.p, b.tree.k)))
       [] next(p) = "ELSE" ->
            Then(Seqs(accept1(p), parts), LAMBDA b : SUCCEED(b.p, b.tree))
       [] OTHER -> SUCCEED(p, b_ifexpr(parts))

IF_EXPR(p) ==
  Then(IfParts(Pushed(p, 1), <<>>), LAMBDA a :
    LET cnt == Len(a.tree.k) + 1
    IN IF next(a.p) # "ENDIF" THEN ite_cleanup(error(a.p, "exp_endif"), cnt)
       ELSE SUCCEED(Pushed(accept1(a.p), -cnt), a.tree))

\* The labels of a CASE are constants; without an ELSE its last body is Nulltree
CaseBody(p) == ite_cleanup(Need(EXPR_SEQ(p), "exp_eseq"), 0)

RECURSIVE Cases(_, _, _)
Cases(p, labels, bodies) ==
  CASE tokenprop(p) = "constprop" ->
         Accepting(accept1(p), {":"}, "exp_colon", LAMBDA q :
         Then(CaseBody(q), LAMBDA b : Accepting(b.p, {"END"}, "exp_end", LAMBDA z :
           Cases(z, Append(labels, b_constant(next(p))), Append(bodies, b.tree)))))
    [] tokenprop(p) # "constprop" /\ next(p) = "ELSE" ->
         Then(CaseBody(accept1(p)), LAMBDA b :
           SUCCEED(b.p, b_caseexpr(Nulltree, labels, Append(bodies, b.tree))))
    [] OTHER -> SUCCEED(p, b_caseexpr(Nulltree, labels, Append(bodies, Nulltree)))

CASE_EXPR(p) ==
  Then(Test(accept1(p)), LAMBDA t : Accepting(t.p, {"FROM"}, "exp_from", LAMBDA q :
  Then(Cases(q, <<>>, <<>>), LAMBDA c : Accepting(c.p, {"ENDCASE"}, "exp_endcase", LAMBDA z :
    SUCCEED(z, [c.tree EXCEPT !.k[1] = st_exprseq(t.tree)])))))

COMMENT(p) ==
  IF tokenprop(p) = "commentprop" THEN SUCCEED(accept1(p), b_commentexpr(next(p))) ELSE FAIL(p)

\* An expression, an assignment to names or into a variable, or a form with a word of its own
Assignment(p, first) ==
  LET plain == ASSIGN_EXPR(p)
      indexed == IX_ASSIGN_EXPR(plain.p)
      Undefined(res) == IF res.p.lasterror = "undefined" THEN error(res.p, "undefined1") ELSE res
  IN CASE plain.r # "fail" -> (IF plain.r = "err" THEN Undefined(plain) ELSE plain)
       [] plain.r = "fail" /\ indexed.r # "fail" ->
            (IF indexed.r = "err" THEN Undefined(indexed) ELSE indexed)
       [] OTHER -> IF first = "err"
                   THEN error(resettkn(indexed.p, indexed.p.deferredsi), "undefined1")
                   ELSE FAIL(indexed.p)

STMT_EXPR(p) ==
  LET expr == EXPRESSION(p)
      back == resettkn([expr.p EXCEPT !.referred = p.referred], p.i)
      assign == Assignment(back, expr.r)
      q == resettkn(assign.p, p.i)
  IN IF token(p) = r_EOL THEN FAIL(p)
     ELSE IF \/ expr.r = "ok" /\ ~Gets(expr.p)
             \/ expr.r = "err" /\ expr.p.lasterror # "undefined" THEN expr
     ELSE IF assign.r # "fail" THEN assign
     ELSE CASE next(q) = "IF" -> IF_EXPR(q)
            [] next(q) = "WHILE" -> WHILE_EXPR(q)
            [] next(q) = "FOR" -> FOR_EXPR(q)
            [] next(q) = "CASE" -> CASE_EXPR(q)
            [] next(q) = "REPEAT" -> REPEAT_EXPR(q)
            [] next(q) = "EXIT" -> EXIT_EXPR(q)
            [] OTHER -> COMMENT(q)

\* Expressions separated by ";"; a last ";" leaves an empty one
RECURSIVE Expressions(_, _)
Expressions(p, done) ==
  IF next(p) # ";" THEN SUCCEED(p, Node("exprseq", done))
  ELSE LET e == STMT_EXPR(accept1(p))
       IN IF e.r = "fail" THEN SUCCEED(e.p, Node("exprseq", Append(done, Nulltree)))
          ELSE Then(e, LAMBDA a : Expressions(a.p, Append(done, a.tree)))

EXPR_SEQ(p) == Then(STMT_EXPR(p), LAMBDA e : Expressions(e.p, <<e.tree>>))

(***************************************************************************)
(* Definitions.  The name is entered before its body is parsed, so that    *)
(* the body may refer to it, and a name that is new is tried as that of an *)
(* expression, an operation and a transformer in turn.                     *)
(***************************************************************************)
Roles == <<"Rexpr", "Roptn", "Rtrans">>
RoleOf(k) == CASE k = "P" -> "Rexpr" [] k = "O" -> "Roptn" [] k = "T" -> "Rtrans" [] OTHER -> ""

RECURSIVE Tries(_, _, _, _)
Tries(p, var, oldrole, roles) ==
  LET again == oldrole = "Rident"
      role == Head(roles)
      form == formfinder(SetRole([p EXCEPT !.lasterror = ""], var, role))
      found == RoleOf(form.k)
      more == Tail(roles)
      dropped == IF form.r = "err" /\ form.p.lasterror # "undefined" THEN 1 ELSE 0
      Back(q) == SetRole(q, var, oldrole)
      retry == Tries(resettkn(Pushed(form.p, -dropped), p.i), var, oldrole, more)
  IN CASE form.r = "err" /\ more = <<>> ->
            (IF form.p.lasterror = "undefined"
             THEN error(resettkn(Back(form.p), form.p.deferredsi), "undefined1")
             ELSE pass(form, Back(form.p)))
       [] form.r = "ok" /\ form.k = "N" -> error(Back(form.p), "exp_def")
       [] form.r = "ok" /\ found = role -> form
       [] form.r = "ok" /\ form.k # "N" /\ found # role /\ ~again ->
            error(form.p, "role_error")
       [] OTHER -> IF more = <<>>
                   THEN error(SetRole(resettkn(form.p, p.i), var, "Rident"), "exp_defn")
                   ELSE retry

\* A body with a form of its own must be of the role the name has, or gives it one
OfRole(p, var, oldrole, role, Form(_)) ==
  LET q == IF oldrole = "Rident" THEN SetRole(p, var, role) ELSE p
      form == Form(q)
  IN IF oldrole \notin {"Rident", role} THEN error(p, "role_error")
     ELSE IF form.r = "ok" \/ oldrole # "Rident" THEN form
     ELSE pass([form EXCEPT !.r = "err"], SetRole(form.p, var, oldrole))

Body(p, var, oldrole) ==
  CASE next(p) \in {"OP", "OPERATION"} -> OfRole(p, var, oldrole, "Roptn", OP_FORM)
    [] next(p) = "{" -> OfRole(p, var, oldrole, "Rexpr", BLOCK)
    [] next(p) \in {"TR", "TRANSFORMER"} -> OfRole(p, var, oldrole, "Rtrans", TR_FORM)
    [] OTHER -> Tries(p, var, oldrole, IF oldrole = "Rident" THEN Roles ELSE <<oldrole>>)

ExternalRole(word) ==
  CASE word = "EXPRESSION" -> "Rexpr"
    [] word \in {"OP", "OPERATION"} -> "Roptn"
    [] word \in {"TR", "TRANSFORMER"} -> "Rtrans"
    [] word = "VARIABLE" -> "Rvar"
    [] OTHER -> ""

External(p, var, oldrole, inblock) ==
  LET role == ExternalRole(next(p))
      q == accept1(p)
      ids == Node("idlist", <<var>>)
  IN IF inblock THEN error(p, "inv_external")
     ELSE IF role = "" THEN error(p, "exp_external")
     ELSE IF oldrole = "Rident"
     THEN SUCCEED([SetRole(q, var, role) EXCEPT !.tabs[var.at[1]].ents[var.at[2]].val = no_code],
                  b_ext_declaration(ids, role))
     ELSE IF role # oldrole THEN error(q, "mismatch_ext")
     ELSE SUCCEED(q, b_ext_declaration(ids, role))

\* A global name has no definition from here until the definition is evaluated
Undefine(p, var) ==
  IF var.at[1] = global_symtab
  THEN [p EXCEPT !.tabs[var.at[1]].ents[var.at[2]].val = no_code] ELSE p

Defining(p, inblock, id) ==
  LET new == varinstall(p, id.s, "Rident", id.at[1])
      v == CASE id.t = "variable" -> [p |-> p, var |-> id]
             [] id.t = "identifier" /\ id.at[1] = global_symtab -> new
             [] OTHER -> Slotted(new)
      oldrole == get_role(v.p, v.var)
  IN IF id.t = "variable" /\ entry(p, id).sys THEN error(p, "is_defined")
     ELSE IF next(p) = "EXTERNAL" THEN External(accept1(v.p), v.var, oldrole, inblock)
     ELSE Then(Body(v.p, v.var, oldrole), LAMBDA b :
            SUCCEED(Undefine(b.p, v.var), b_definition(Node("idlist", <<v.var>>), b.tree)))

DEFN(p, inblock) ==
  LET ids == IDLIST(p, IF inblock THEN "statics" ELSE "dynamic") IN
  IF tokenprop(p) = "commentprop" THEN COMMENT(p)
  ELSE IF Len(ids.tree.k) # 1 \/ next(ids.p) # "IS" THEN FAIL(resettkn(ids.p, p.i))
  ELSE Defining(accept1(ids.p), inblock, ids.tree.k[1])

st_defns(tree) == IF tree.t = "defnseq" THEN tree ELSE st_defnseq(tree)

\* Backs up to before the ";" that no definition follows
RECURSIVE MoreDefns(_, _, _)
MoreDefns(p, inblock, tree) ==
  LET defn == DEFN(accept1(p), inblock)
  IN IF next(p) # ";" THEN SUCCEED(p, tree)
     ELSE IF defn.r = "fail" THEN SUCCEED(resettkn(defn.p, p.i), st_defns(tree))
     ELSE Then(defn, LAMBDA d : MoreDefns(d.p, inblock, nial_extend(st_defns(tree), d.tree)))

DEFN_SEQ(p, inblock) == Then(DEFN(p, inblock), LAMBDA d : MoreDefns(d.p, inblock, d.tree))

(***************************************************************************)
(* ACTION: definitions, then expressions; or expressions.  parse leaves a  *)
(* tree, or the message of an error, as the one value on the stack.        *)
(***************************************************************************)
Reported(res) ==
  IF res.r = "err" /\ res.p.lasterror = "undefined" THEN error(res.p, "undefined1") ELSE res

Action(p) ==
  LET defs == DEFN_SEQ(p, FALSE)
      rest == EXPR_SEQ(accept1(defs.p))
  IN IF tokenprop(p) # "commentprop" /\ ~(Len(p.line) >= 2 /\ p.line[2].s = "IS")
     THEN Reported(EXPR_SEQ(p))
     ELSE IF defs.r # "ok" THEN Reported(defs)
     ELSE IF next(defs.p) # ";" THEN defs
     ELSE IF token(accept1(defs.p)) = r_EOL THEN SUCCEED(accept1(defs.p), defs.tree)
     ELSE CASE rest.r = "ok" -> SUCCEED(rest.p, combinedaction(defs.tree, rest.tree))
            [] rest.r = "err" -> rest
            [] rest.r = "fail" -> SUCCEED(rest.p, defs.tree)

parse(tabs, line) ==
  LET p == Fresh(tabs, line)
      res == Program(p)
  IN IF line = <<>> THEN Quoted(SUCCEED(Pushed(p, 1), Nulltree))
     ELSE Then(res, LAMBDA a : IF token(a.p) = r_EOL THEN Quoted(pass(a, Pushed(a.p, 1)))
                               ELSE error(a.p, "incomplete_parse"))
=============================================================================
