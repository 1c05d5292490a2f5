------------------------------- MODULE Interp -------------------------------
(***************************************************************************)
(* What a line does: n_eval and apply (eval_fun.c, eval.c) walk its parse  *)
(* tree with the Nial stack, on which the local names of an activation     *)
(* have the slots that the parser gave them, and with one flag,            *)
(* nialexitflag, by which EXIT tells every sequence it is in to end.       *)
(*                                                                         *)
(* n_eval is compiled twice from the same text; the version d_eval, used   *)
(* when debugging is on, does not pass straight to the one expression of a *)
(* sequence of one.  Values are trees too, as they are arrays in the code. *)
(* Indexed variables are left out here: ArrayVars has them.                *)
(***************************************************************************)
EXTENDS Syntax

CONSTANTS
  Value(_),         \* of a constant's text
  applytab(_, _),   \* what a primitive answers for its argument
  FuelMax           \* bound: calls and rounds of loops in a line

Fault(s) == Leaf("fault", s)
Nullexpr == Fault("?noexpr")
Logical == Fault("?L")
no_value == Fault("no_value")
IntV(n) == Tree("int", "", <<>>, <<n>>)
BoolV(b) == Tree("bool", "", <<>>, <<b>>)
ListV(items) == Node("array", items)
ItemsOf(v) == IF v.t = "array" THEN v.k ELSE <<v>>

(***************************************************************************)
(* The machine: the stack, the stack pointer of each symbol table, the     *)
(* tables in scope, the tables with the values of global names, and the    *)
(* flag.  of, in a cell of the stack, is history: the variable stored in   *)
(* it; astray tells that a variable was looked for where another one is.   *)
(***************************************************************************)
Machine(tables, debugging) ==
  [stk |-> <<>>, sp |-> [t \in DOMAIN tables |-> -1], env |-> <<>>, tabs |-> tables,
   nialexitflag |-> FALSE, debugging |-> debugging, fuel |-> FuelMax, astray |-> FALSE]

Cell(v, of) == [v |-> v, of |-> of]
push(m, v) == [m EXCEPT !.stk = Append(@, Cell(v, <<>>))]
pop(m) == [m EXCEPT !.stk = Front(@)]
top(m) == Last(m.stk).v
topm1(m) == m.stk[Len(m.stk) - 1].v
swap(m) == [m EXCEPT !.stk = Front(Front(@)) \o <<Last(@), Last(Front(@))>>]
retop(m, v) == push(pop(m), v)
mklist(m, n) ==
  LET at == Len(m.stk) - n
  IN push([m EXCEPT !.stk = SubSeq(@, 1, at)], ListV([j \in 1..n |-> m.stk[at + j].v]))

\* A line that has spent its fuel stops where it is, as if it were interrupted
Stopped(m) == m.fuel = 0
Go(m, F(_)) == IF Stopped(m) THEN m ELSE F(m)
Burn(m) == [m EXCEPT !.fuel = @ - 1]

(***************************************************************************)
(* Variables.                                                              *)
(***************************************************************************)
slot(m, var) == m.sp[var.at[1]] + entry(m, var).slot

fetch_var(m, var) ==
  IF var.at[1] = global_symtab THEN entry(m, var).val
  ELSE IF m.sp[var.at[1]] = -1 THEN Fault("?variable out of context")
  ELSE m.stk[slot(m, var)].v

Astray(m, var) ==
  /\ var.at[1] # global_symtab /\ m.sp[var.at[1]] # -1
  /\ slot(m, var) \notin DOMAIN m.stk \/ m.stk[slot(m, var)].of \notin {<<>>, var.at}

\* What follows a read or a write of another variable's place is not followed
Lost(m) == [m EXCEPT !.astray = TRUE, !.fuel = 0]

CanStore(m, var) == var.at[1] = global_symtab \/ m.sp[var.at[1]] # -1

store_var(m, var, v) ==
  IF var.at[1] = global_symtab THEN [m EXCEPT !.tabs[var.at[1]].ents[var.at[2]].val = v]
  ELSE IF m.sp[var.at[1]] = -1 THEN m
  ELSE IF Astray(m, var) THEN Lost(m)
  ELSE [m EXCEPT !.stk[slot(m, var)] = Cell(v, var.at)]

\* assign: one name takes the value, several an item each; or nothing is assigned
Assignments(ids, v) ==
  IF Len(ids) = 1 THEN <<v>> ELSE IF v.t = "atlas" THEN v.k ELSE ItemsOf(v)
Assigns(m, ids, v) ==
  LET vs == Assignments(ids, v)
  IN Len(vs) = Len(ids) /\ (Len(ids) = 1 => CanStore(m, ids[1]))
assign(m, ids, v) ==
  LET vs == Assignments(ids, v)
  IN FoldLeft(LAMBDA a, j : store_var(a, ids[j], vs[j]), m,
              IF Assigns(m, ids, v) THEN [j \in DOMAIN ids |-> j] ELSE <<>>)

(***************************************************************************)
(* An activation on the stack: the place of its result, the stack pointer  *)
(* its table had before, and its slots.                                    *)
(***************************************************************************)
prologue(m, sym, nvars) ==
  LET cells == [j \in 1..nvars |-> Cell(no_value, <<>>)]
      m1 == push(push(m, no_value), IntV(m.sp[sym]))
  IN [m1 EXCEPT !.stk = @ \o cells, !.sp[sym] = Len(m1.stk) + 1, !.env = m.tabs[sym].env]

\* For a mutant: the stack pointer of the ended activation stays
EpilogueKept(m, senv, nvars) ==
  [m EXCEPT !.stk = SubSeq(@, 1, Len(@) - nvars - 3) \o <<Last(@)>>, !.env = senv]

epilogue(m, senv, nvars) ==
  LET space == Len(m.stk) - nvars - 2
  IN [m EXCEPT !.stk = SubSeq(@, 1, space - 1) \o <<Last(@)>>,
               !.sp[m.env[1]] = m.stk[space + 1].v.at[1], !.env = senv]

(***************************************************************************)
(* Operations as arguments: a local one takes its environment with it.     *)
(***************************************************************************)
RECURSIVE coerceop(_, _)
coerceop(m, op) ==
  CASE op.t = "parendobj" -> coerceop(m, op.k[1])
    [] op.t = "variable" -> coerceop(m, fetch_var(m, op))
    [] OTHER -> op

RECURSIVE b_closure(_, _)
b_closure(m, op) ==
  IF m.env = <<>> \/ op.t = "basic" THEN op
  ELSE IF op.t \in {"composition", "atlas"}
  THEN [op EXCEPT !.k = [j \in DOMAIN op.k |-> b_closure(m, op.k[j])]]
  ELSE Tree("closure", "", <<op>>, <<m.env, [j \in DOMAIN m.env |-> m.sp[m.env[j]]]>>)

setup_env(m, env, sps) ==
  [m EXCEPT !.env = env,
            !.sp = [t \in DOMAIN @ |-> IF t \in ToSet(env)
                                       THEN sps[CHOOSE j \in DOMAIN env : env[j] = t] ELSE @[t]]]
restore_env(m, was) == [m EXCEPT !.env = was.env, !.sp = was.sp]

-----------------------------------------------------------------------------
RECURSIVE n_eval(_, _), apply(_, _), apply_transform(_, _)

Evals(m, exps) == FoldLeft(LAMBDA a, e : Go(a, LAMBDA z : n_eval(z, e)), m, exps)
Eval(m, exp, F(_)) == Go(n_eval(m, exp), F)

\* For a mutant: a sequence goes on when the flag is up
SequencedOn(m, exps) ==
  FoldLeft(LAMBDA a, e : IF Stopped(a) THEN a ELSE n_eval(pop(a), e), push(m, Nullexpr), exps)

\* Each expression's value gives way to the next one's, until the flag is up
Sequenced(m, exps) ==
  FoldLeft(LAMBDA a, e : IF Stopped(a) \/ a.nialexitflag THEN a ELSE n_eval(pop(a), e),
           push(m, Nullexpr), exps)

Raised(m) == [m EXCEPT !.nialexitflag = TRUE]
\* For a mutant: a loop leaves the flag as it is
FlagKept(m) == m
Lowered(m) == [m EXCEPT !.nialexitflag = FALSE]

RECURSIVE Ifs(_, _, _)
Ifs(m, parts, n) ==
  CASE n > Len(parts) -> push(m, Nullexpr)
    [] n = Len(parts) -> n_eval(m, parts[n])
    [] OTHER -> Eval(m, parts[n], LAMBDA a :
                  IF top(a).t # "bool" THEN retop(a, Logical)
                  ELSE IF top(a) = BoolV(1) THEN n_eval(pop(a), parts[n + 1])
                  ELSE Ifs(pop(a), parts, n + 2))

\* The last round's value is on the stack while the test is made
RECURSIVE While(_, _, _)
While(m, test, body) ==
  Eval(m, test, LAMBDA a :
    IF top(a).t # "bool"
    THEN (IF a.nialexitflag THEN Lowered(pop(a)) ELSE retop(pop(a), Logical))
    ELSE IF top(a) # BoolV(1) THEN Lowered(pop(a))
    ELSE Go(n_eval(Burn(pop(pop(a))), body), LAMBDA b :
           IF b.nialexitflag THEN Lowered(b) ELSE While(b, test, body)))

RECURSIVE Repeat(_, _, _)
Repeat(m, body, test) ==
  Go(n_eval(Burn(pop(m)), body), LAMBDA b :
    IF b.nialexitflag THEN Lowered(b)
    ELSE Eval(b, test, LAMBDA a :
      IF top(a).t # "bool" THEN Lowered(retop(pop(a), Logical))
      ELSE IF top(a) = BoolV(1) THEN Lowered(pop(a)) ELSE Repeat(pop(a), body, test)))

RECURSIVE For(_, _, _, _)
For(m, ids, items, body) ==
  IF items = <<>> THEN Lowered(m)
  ELSE Go(n_eval(Burn(assign(pop(m), ids, Head(items))), body), LAMBDA b :
         IF b.nialexitflag THEN Lowered(b) ELSE For(b, ids, Tail(items), body))

CaseOf(m, v, labels) ==
  LET same == {j \in DOMAIN labels : Value(labels[j].s) = v}
  IN IF same = {} THEN Len(labels) + 1 ELSE Min(same)

\* The body of a block or an operation form, its definitions first
Bodied(m, body) ==
  IF body.t # "blockbody" THEN n_eval(m, body)
  ELSE IF body.k[3] = Nulltree THEN n_eval(m, body.k[4])
  ELSE Eval(m, body.k[3], LAMBDA a : n_eval(pop(a), body.k[4]))

Block(m, exp) ==
  Go(Bodied(prologue(m, exp.at[1], exp.at[2]), exp.k[1]),
     LAMBDA a : epilogue(a, m.env, exp.at[2]))

\* A variable of an operation that is active
ScopedVar(m, exp) ==
  LET sym == entry(m, exp.k[1]).val.at[1]
      e == Blookup(m.tabs, sym, exp.k[2].s)
  IN CASE m.sp[sym] = -1 -> Fault("?not active")
       [] m.sp[sym] # -1 /\ e = notfound -> Fault("?not accessible")
       [] m.sp[sym] # -1 /\ e # notfound ->
            IF m.tabs[sym].ents[e].role # "Rvar" THEN Fault("?not a variable")
            ELSE m.stk[m.sp[sym] + m.tabs[sym].ents[e].slot].v

OpCall(m, op, argexpr) ==
  CASE op.t = "basic" ->
         Eval(m, argexpr, LAMBDA a : retop(a, applytab(op.s, top(a))))
    [] op.t = "curried" ->
         Eval(m, op.k[2], LAMBDA l : Eval(l, argexpr, LAMBDA a :
           apply(mklist(a, 2), op.k[1])))
    [] OTHER -> Eval(m, argexpr, LAMBDA a : apply(a, op))

n_eval(m, exp) ==
  LET k == exp.k IN
  CASE Stopped(m) -> m
    [] ~Stopped(m) /\ exp.t = "fault" -> push(m, exp)
    [] ~Stopped(m) /\ exp.t # "fault" ->
       CASE exp.t = "nulltree" -> push(m, Nullexpr)
         [] exp.t = "parsetree" -> push(m, exp)
         [] exp.t = "constant" -> push(m, Value(exp.s))
         [] exp.t = "variable" ->
              IF Astray(m, exp) THEN Lost(m) ELSE push(m, fetch_var(m, exp))
         [] exp.t = "basic_binopcall" ->
              Eval(m, k[2], LAMBDA a : Eval(a, k[3], LAMBDA b :
                LET c == mklist(b, 2) IN retop(c, applytab(k[1].s, top(c)))))
         [] exp.t = "opcall" -> OpCall(m, k[1], k[2])
         [] exp.t \in {"list", "strand"} ->
              Go(Evals(m, k), LAMBDA a : mklist(a, Len(k)))
         [] exp.t \in {"exprseq", "defnseq"} ->
              IF ~m.debugging /\ Len(k) = 1 THEN n_eval(m, k[1]) ELSE Sequenced(m, k)
         [] exp.t = "exit" -> n_eval(Raised(m), k[1])
         [] exp.t = "assignexpr" ->
              Eval(m, k[2], LAMBDA a :
                IF Assigns(a, k[1].k, top(a)) THEN assign(a, k[1].k, top(a))
                ELSE retop(a, Fault("?assignment")))
         [] exp.t = "scoped_var" -> push(m, ScopedVar(m, exp))
         [] exp.t = "ifexpr" -> Ifs(m, k, 1)
         [] exp.t = "whileexpr" -> While(push(Lowered(m), Nullexpr), k[1], k[2])
         [] exp.t = "repeatexpr" -> Repeat(push(Lowered(m), Nullexpr), k[1], k[2])
         [] exp.t = "forexpr" ->
              Eval(Lowered(m), k[2], LAMBDA a :
                For(push(pop(a), Nullexpr), k[1].k, ItemsOf(top(a)), k[3]))
         [] exp.t = "caseexpr" ->
              Eval(m, k[1], LAMBDA a :
                n_eval(pop(a), k[3].k[CaseOf(a, top(a), k[2].k)]))
         [] exp.t \in {"ext_declaration", "commentexpr"} -> push(m, Nullexpr)
         [] exp.t = "definition" -> push(assign(m, k[1].k, k[2]), Nullexpr)
         [] exp.t = "block" -> Block(m, exp)
         [] exp.t = "expression" ->
              Eval(push(m, fetch_var(m, exp)), fetch_var(m, exp), LAMBDA a : pop(swap(a)))
         [] exp.t = "parendobj" -> n_eval(m, k[1])
         [] OTHER -> push(m, Fault("?invalid case in eval"))

OpFormCall(m, fn) ==
  LET v == top(m)
      ids == fn.k[1].k
      a == prologue(pop(m), fn.at[1], fn.at[2])
      defs == IF fn.k[2].t = "blockbody" THEN fn.k[2].k[3] ELSE Nulltree
      body == IF fn.k[2].t = "blockbody" THEN fn.k[2].k[4] ELSE fn.k[2]
      defined == IF defs = Nulltree THEN a ELSE Eval(a, defs, pop)
      Do(z) == IF Assigns(z, ids, v) THEN n_eval(assign(z, ids, v), body)
               ELSE push(z, Fault("?op_parameter"))
  IN Go(Go(defined, Do), LAMBDA z : epilogue(z, m.env, fn.at[2]))

\* Every operation is applied to the argument, which stays below their values
Atlas(m, fns) ==
  Go(FoldLeft(LAMBDA a, fn : Go(a, LAMBDA z : apply(push(z, top(m)), fn)), m, fns),
     LAMBDA a : pop(swap(mklist(a, Len(fns)))))

apply(m, fn) ==
  CASE Stopped(m) -> m
    [] ~Stopped(m) /\ fn.t = "variable" ->
         LET op == fetch_var(m, fn)
         IN IF Astray(m, fn) THEN Lost(m)
            ELSE Go(apply(swap(push(Burn(m), op)), op), LAMBDA a : pop(swap(a)))
    [] ~Stopped(m) /\ fn.t = "basic" -> retop(m, applytab(fn.s, top(m)))
    [] ~Stopped(m) /\ fn.t = "opform" -> OpFormCall(m, fn)
    [] ~Stopped(m) /\ fn.t = "composition" ->
         FoldLeft(LAMBDA a, f : Go(a, LAMBDA z : apply(z, f)), m, Reverse(fn.k))
    [] ~Stopped(m) /\ fn.t = "curried" ->
         Eval(m, fn.k[2], LAMBDA a : apply(mklist(swap(a), 2), fn.k[1]))
    [] ~Stopped(m) /\ fn.t = "atlas" -> Atlas(m, fn.k)
    [] ~Stopped(m) /\ fn.t = "transform" ->
         apply_transform(push(m, b_closure(m, coerceop(m, fn.k[2]))), fn.k[1])
    [] ~Stopped(m) /\ fn.t = "closure" ->
         Go(apply(setup_env(m, fn.at[1], fn.at[2]), fn.k[1]), LAMBDA a : restore_env(a, m))
    [] ~Stopped(m) /\ fn.t = "parendobj" -> apply(m, fn.k[1])
    [] OTHER -> retop(m, Fault("?invalid case in apply"))

\* EACH (trs.c): the operation is called for each item, in order
each(m, f) ==
  LET items == ItemsOf(top(m))
      Call(a, x) == Go(a, LAMBDA z : apply(push(z, x), f))
      done == FoldLeft(Call, pop(m), items)
  IN IF top(m).t # "array" THEN apply(m, f)
     ELSE Go(done, LAMBDA a : mklist(a, Len(items)))

TrFormCall(m, tr) ==
  LET f == top(m)
      v == topm1(m)
      ids == tr.k[1].k
      a == prologue(pop(pop(m)), tr.at[1], Len(ids))
  IN Go(IF Assigns(a, ids, f) THEN apply(push(assign(a, ids, f), v), tr.k[2])
        ELSE push(a, Fault("?tr_parameter")),
        LAMBDA z : epilogue(z, m.env, Len(ids)))

apply_transform(m, tr) ==
  CASE tr.t = "variable" ->
         LET op == fetch_var(m, tr)
             under == [Burn(m) EXCEPT !.stk = Front(Front(@)) \o <<Cell(op, <<>>)>>
                                                \o <<Last(Front(@)), Last(@)>>]
         IN Go(apply_transform(under, op), LAMBDA a : pop(swap(a)))
    [] tr.t = "basic" -> each(pop(m), top(m))
    [] tr.t = "trform" -> TrFormCall(m, tr)
    [] OTHER -> retop(pop(m), Fault("?invalid case in transform apply"))

Ran(tables, tree, debugging) == n_eval(Machine(tables, debugging), tree)

(***************************************************************************)
(* A line is typed as in Syntax, parsed, and evaluated by one version.     *)
(***************************************************************************)
Selectors == DOMAIN Signs \cup {"indexedassign"}

Run(debugging) ==
  /\ Open = {} /\ out = NoAnswer
  /\ LET res == Parsed(tabs, line)
         m == Ran(res.p.tabs, res.tree.k[1], debugging)
     IN /\ res.r = "ok"
        /\ out' = [r |-> "ran", tree |-> res.tree.k[1], m |-> m, was |-> res.p.tabs]
        /\ tabs' = m.tabs
  /\ UNCHANGED line

Warm == {FoldLeft(LAMBDA t, words :
                    LET res == Parsed(t, words)
                    IN Ran(res.p.tabs, res.tree.k[1], TRUE).tabs, Startup, s) : s \in Sessions}

InterpInit == tabs \in Warm /\ line = <<Start>> /\ out = NoAnswer
AnotherLine == (out # NoAnswer \/ Open = {}) /\ tabs' \in Warm /\ line' = <<Start>> /\ out' = NoAnswer
InterpNext == Type \/ (\E debugging \in BOOLEAN : Run(debugging)) \/ AnotherLine
InterpSpec == InterpInit /\ [][InterpNext]_vars

-----------------------------------------------------------------------------
RanOut == out.r = "ran" /\ ~Stopped(out.m)

(***************************************************************************)
(* Whatever a line does, its value is all that it leaves on the stack, and *)
(* no symbol table has an activation any more. No line goes astray: every  *)
(* name is read and assigned in a slot that has held only it, the slots    *)
(* the parser has counted being the ones prologue makes room for.          *)
(***************************************************************************)
Balanced ==
  out.r = "ran" =>
    /\ ~out.m.astray
    /\ RanOut => /\ Len(out.m.stk) = 1
                 /\ out.m.env = <<>>
                 /\ \A t \in DOMAIN out.m.sp : out.m.sp[t] = -1

\* The EXIT flag is down at the end of a line that has run to its end
ExitConfined == RanOut => ~out.m.nialexitflag

(***************************************************************************)
(* What a line means, without a stack, slots and a flag: s has the values  *)
(* of the names, whether a loop is being left, and the last value v.       *)
(***************************************************************************)
Meaning0(tables) == [tabs |-> tables, loc |-> <<>>, leaving |-> FALSE, v |-> Nullexpr]

Gives(s, v) == [s EXCEPT !.v = v]
Stays(s) == [s EXCEPT !.leaving = FALSE]
Holds(s, var) ==
  IF var.at[1] = global_symtab THEN entry(s, var).val
  ELSE IF var.at \in DOMAIN s.loc THEN s.loc[var.at] ELSE no_value
Binds(s, var, v) ==
  IF var.at[1] = global_symtab THEN [s EXCEPT !.tabs[1].ents[var.at[2]].val = v]
  ELSE [s EXCEPT !.loc = [at \in DOMAIN @ \cup {var.at} |-> IF at = var.at THEN v ELSE @[at]]]
BindsAll(s, ids, v) ==
  LET vs == Assignments(ids, v)
  IN IF Len(vs) # Len(ids) THEN s
     ELSE FoldLeft(LAMBDA a, j : Binds(a, ids[j], vs[j]), s, [j \in DOMAIN ids |-> j])

\* Within a scope its names begin without a value, and outside they keep theirs
Of(loc, sym) == {at \in DOMAIN loc : at[1] = sym}
Within(s, sym, F(_)) ==
  LET t == F([s EXCEPT !.loc = [at \in DOMAIN @ \ Of(@, sym) |-> @[at]]])
  IN [t EXCEPT !.loc = [at \in (DOMAIN @ \ Of(@, sym)) \cup Of(s.loc, sym) |->
                          IF at[1] = sym THEN s.loc[at] ELSE @[at]]]

RECURSIVE Mean(_, _), Does(_, _)
MeanAll(s, exps) ==
  FoldLeft(LAMBDA a, e : LET t == Mean(a.s, e) IN [s |-> t, vs |-> Append(a.vs, t.v)],
           [s |-> s, vs |-> <<>>], exps)
MeanList(s, exps) == LET a == MeanAll(s, exps) IN Gives(a.s, ListV(a.vs))

RECURSIVE MeanIf(_, _, _), MeanWhile(_, _, _), MeanRepeat(_, _, _), MeanFor(_, _, _, _)
MeanIf(s, parts, n) ==
  LET t == Mean(s, parts[n])
  IN IF n > Len(parts) THEN Gives(s, Nullexpr) ELSE IF n = Len(parts) THEN t
     ELSE IF t.v.t # "bool" THEN Gives(t, Logical)
     ELSE IF t.v = BoolV(1) THEN Mean(t, parts[n + 1]) ELSE MeanIf(t, parts, n + 2)
MeanWhile(s, test, body) ==
  LET t == Mean(s, test)
      b == Mean(t, body)
  IN IF t.v.t # "bool" THEN Gives(t, Logical)
     ELSE IF t.v # BoolV(1) THEN Gives(t, s.v)
     ELSE IF b.leaving THEN Stays(b) ELSE MeanWhile(b, test, body)
MeanRepeat(s, body, test) ==
  LET b == Mean(s, body)
      t == Mean(b, test)
  IN IF b.leaving THEN Stays(b)
     ELSE IF t.v.t # "bool" THEN Gives(t, Logical)
     ELSE IF t.v = BoolV(1) THEN Gives(t, b.v) ELSE MeanRepeat(t, body, test)
MeanFor(s, ids, items, body) ==
  LET b == Mean(BindsAll(s, ids, Head(items)), body)
  IN IF items = <<>> THEN s
     ELSE IF b.leaving THEN Stays(b) ELSE MeanFor(b, ids, Tail(items), body)

MeanBody(s, body) ==
  IF body.t = "blockbody" THEN Mean(Mean(s, body.k[3]), body.k[4]) ELSE Mean(s, body)

Mean(s, e) ==
  LET k == e.k IN
  CASE e.t = "constant" -> Gives(s, Value(e.s))
    [] e.t \in {"nulltree", "commentexpr", "ext_declaration"} -> Gives(s, Nullexpr)
    [] e.t = "parsetree" -> Gives(s, e)
    [] e.t = "variable" -> Gives(s, Holds(s, e))
    [] e.t = "expression" -> MeanBody(s, Holds(s, e))
    [] e.t \in {"list", "strand"} -> MeanList(s, k)
    [] e.t = "basic_binopcall" -> Does(MeanList(s, Tail(k)), k[1])
    [] e.t = "opcall" ->
         (IF k[1].t = "curried" THEN Does(MeanList(s, <<k[1].k[2], k[2]>>), k[1].k[1])
          ELSE Does(Mean(s, k[2]), k[1]))
    [] e.t \in {"exprseq", "defnseq"} ->
         FoldLeft(LAMBDA a, x : IF a.leaving THEN a ELSE Mean(a, x), s, k)
    [] e.t = "exit" -> [Mean(s, k[1]) EXCEPT !.leaving = TRUE]
    [] e.t = "assignexpr" ->
         LET t == Mean(s, k[2])
         IN IF Len(Assignments(k[1].k, t.v)) = Len(k[1].k) THEN BindsAll(t, k[1].k, t.v)
            ELSE Gives(t, Fault("?assignment"))
    [] e.t = "ifexpr" -> MeanIf(s, k, 1)
    [] e.t = "whileexpr" -> MeanWhile(Gives(s, Nullexpr), k[1], k[2])
    [] e.t = "repeatexpr" -> MeanRepeat(s, k[1], k[2])
    [] e.t = "forexpr" ->
         LET t == Mean(s, k[2]) IN MeanFor(Gives(t, Nullexpr), k[1].k, ItemsOf(t.v), k[3])
    [] e.t = "caseexpr" ->
         LET t == Mean(s, k[1]) IN Mean(t, k[3].k[CaseOf(s, t.v, k[2].k)])
    [] e.t = "definition" -> Gives(Binds(s, k[1].k[1], k[2]), Nullexpr)
    [] e.t = "block" -> Within(s, e.at[1], LAMBDA t : MeanBody(t, k[1]))
    [] e.t = "parendobj" -> Mean(s, k[1])

\* An operation applied to the last value
Does(s, f) ==
  LET Call(a, c) == LET t == Does(Gives(a.s, c[2]), c[1]) IN [s |-> t, vs |-> Append(a.vs, t.v)]
      All(calls) == LET a == FoldLeft(Call, [s |-> s, vs |-> <<>>], calls) IN Gives(a.s, ListV(a.vs))
      items == ItemsOf(s.v)
      args == f.k[1].k
  IN CASE f.t = "basic" -> Gives(s, applytab(f.s, s.v))
       [] f.t = "variable" -> Does(s, Holds(s, f))
       [] f.t = "parendobj" -> Does(s, f.k[1])
       [] f.t = "atlas" -> All([n \in DOMAIN f.k |-> <<f.k[n], s.v>>])
       [] f.t = "composition" -> FoldLeft(Does, s, Reverse(f.k))
       [] f.t = "curried" ->
            LET t == Mean(s, f.k[2]) IN Does(Gives(t, ListV(<<t.v, s.v>>)), f.k[1])
       [] f.t = "opform" ->
            Within(s, f.at[1], LAMBDA t :
              IF Len(Assignments(args, s.v)) = Len(args) THEN MeanBody(BindsAll(t, args, s.v), f.k[2])
              ELSE Gives(t, Fault("?op_parameter")))
       [] f.t = "transform" ->
            (IF f.k[1].t = "basic"
             THEN IF s.v.t = "array" THEN All([n \in DOMAIN items |-> <<f.k[2], items[n]>>])
                  ELSE Does(s, f.k[2])
             ELSE LET tr == Holds(s, f.k[1])
                  IN Within(s, tr.at[1], LAMBDA t : Does(Binds(t, tr.k[1].k[1], f.k[2]), tr.k[2])))

(***************************************************************************)
(* An EXIT stands where its loop can be left at once, and what it gives is *)
(* simple, so that no sequence and no loop meets the flag while the value  *)
(* is being found.                                                         *)
(***************************************************************************)
Simple(e) ==
  \A t \in Subtrees(e) : t.t \in {"constant", "variable", "basic", "strand", "list", "basic_binopcall"}
Exits(e) == {t \in Subtrees(e) : t.t = "exit"}

RECURSIVE AtOnce(_)
AtOnce(e) ==
  LET k == e.k IN
  CASE e.t \in {"exprseq", "parendobj", "bodies", "blockbody", "block"} -> \A n \in DOMAIN k : AtOnce(k[n])
    [] e.t = "ifexpr" -> \A n \in DOMAIN k : IF n % 2 = 1 /\ n < Len(k) THEN Exits(k[n]) = {} ELSE AtOnce(k[n])
    [] e.t \in {"whileexpr", "caseexpr"} -> Exits(k[1]) = {} /\ AtOnce(k[Len(k)])
    [] e.t = "forexpr" -> Exits(k[2]) = {} /\ AtOnce(k[3])
    [] e.t = "repeatexpr" -> AtOnce(k[1]) /\ Exits(k[2]) = {}
    [] e.t = "exit" -> Simple(k[1])
    [] OTHER -> Exits(e) = {}

(***************************************************************************)
(* Both versions give a line the value, and the global names the values,   *)
(* that it means. An EXIT in a test, an argument or the body of an         *)
(* operation, and one whose value is not simple, is outside it: there the  *)
(* next sequence or loop to look at the flag is the one that is left, and  *)
(* the two versions may differ.                                            *)
(***************************************************************************)
AsMeant ==
  RanOut /\ AtOnce(out.tree) =>
    LET s == Mean(Meaning0(out.was), out.tree)
    IN top(out.m) = s.v /\ out.m.tabs = s.tabs
=============================================================================
