------------------------------- MODULE Syntax -------------------------------
(***************************************************************************)
(* Lines typed at the prompt: each is parsed with the symbol tables that   *)
(* the lines before it left, its definitions are evaluated, and what has   *)
(* been defined is shown again (see) or erased.                            *)
(*                                                                         *)
(* A line is typed by expanding a grammar (Productions) from Start, and    *)
(* perhaps a token of it is left out when it is entered.                   *)
(***************************************************************************)
EXTENDS Parser, Deparser

CONSTANTS
  Parse(_, _),    \* what a line of tokens is read as: parse of Parser
  Start,          \* the symbol a line is expanded from
  Productions,    \* what each symbol may be replaced by
  Prop(_),        \* the property of a token
  MaxTokens,      \* bound: symbols in a line
  MaxSpoilt,      \* bound: tokens of a line that one may be left out of
  Basics,         \* the system's names: their roles and values
  Sessions        \* what was typed before: sequences of lines

VARIABLES
  tabs,           \* the symbol tables
  line,           \* the line being typed
  out             \* the answer to the last line

vars == <<tabs, line, out>>

NoAnswer == [r |-> "none", tree |-> Nulltree, top |-> 0, was |-> <<>>]
Answer(res, was) == [r |-> res.r, tree |-> res.tree, top |-> res.p.top, was |-> was]
Tokens(words) == [n \in DOMAIN words |-> [prop |-> Prop(words[n]), s |-> words[n]]]

\* Evaluating a definition gives the global name its value (t_definition in n_eval)
Define(tables, tree) ==
  IF tree.t = "definition" /\ tree.k[1].k[1].at[1] = global_symtab
  THEN [tables EXCEPT ![global_symtab].ents[tree.k[1].k[1].at[2]].val = tree.k[2]]
  ELSE tables

Evaluated(tables, tree) ==
  FoldLeft(Define, tables, IF tree.t = "defnseq" THEN tree.k ELSE <<tree>>)

Parsed(tables, words) == Parse(tables, Tokens(words))
After(tables, words) ==
  LET res == Parsed(tables, words)
  IN IF res.r = "ok" THEN Evaluated(res.p.tabs, res.tree.k[1]) ELSE res.p.tabs

Startup == <<[prop |-> "global", ents |-> Basics, env |-> <<>>]>>
Ready == {FoldLeft(After, Startup, s) : s \in Sessions}

Init ==
  /\ tabs \in Ready
  /\ line = <<Start>>
  /\ out = NoAnswer

Open == {n \in DOMAIN line : line[n] \in DOMAIN Productions}

Type ==
  /\ Open # {}
  /\ \E words \in Productions[line[Min(Open)]] :
       /\ Len(line) + Len(words) - 1 <= MaxTokens
       /\ line' = SubSeq(line, 1, Min(Open) - 1) \o words
                    \o SubSeq(line, Min(Open) + 1, Len(line))
  /\ UNCHANGED <<tabs, out>>

Enter(words) ==
  /\ Open = {} /\ out = NoAnswer
  /\ out' = Answer(Parsed(tabs, words), tabs)
  /\ tabs' = After(tabs, words)
  /\ line' = words

EnterAll == Enter(line)
EnterBut(n) == Len(line) <= MaxSpoilt /\ Enter(RemoveAt(line, n))

\* Only names that the line has given a definition are shown or erased
Touched(name) == out # NoAnswer /\ name \notin {e.name : e \in ToSet(out.was[global_symtab].ents)}

\* see: a name that has a definition; its tree is what is shown
See(name) ==
  /\ Touched(name)
  /\ igetdef(tabs, name) # <<>> /\ Global(tabs, name).val # no_code
  /\ out' = [NoAnswer EXCEPT !.r = "ok", !.tree = igetdef(tabs, name)[1], !.top = 1, !.was = tabs]
  /\ UNCHANGED <<tabs, line>>

Erase(name) ==
  /\ Touched(name)
  /\ Erasable(tabs, name)
  /\ tabs' = ierase(tabs, name)
  /\ out' = NoAnswer
  /\ UNCHANGED line

Bye ==
  /\ out # NoAnswer \/ Open = {}
  /\ tabs' \in Ready
  /\ line' = <<Start>>
  /\ out' = NoAnswer

UserNames == {row[1] : row \in isymbols(tabs, FALSE)}

Next ==
  \/ Type
  \/ EnterAll
  \/ \E n \in DOMAIN line : EnterBut(n)
  \/ \E name \in UserNames : See(name)
  \/ \E name \in UserNames : Erase(name)
  \/ Bye

Spec == Init /\ [][Next]_vars

-----------------------------------------------------------------------------
RECURSIVE Subtrees(_)
Subtrees(t) == {t} \cup UNION {Subtrees(t.k[n]) : n \in DOMAIN t.k}

(***************************************************************************)
(* A line leaves one value on the stack, whatever was tried while it was   *)
(* parsed and given up: errors that were put off, or pushed and dropped    *)
(* when a definition was tried in another role, and the parts of an IF.    *)
(***************************************************************************)
OneResult == out.r # "none" => out.top = 1 /\ out.r \in {"ok", "err"}

(***************************************************************************)
(* The frame of an operation or a block has a slot for each of its names,  *)
(* no two names share one, and a variable belongs to the global table or   *)
(* to a form that encloses it, however often its text was parsed.          *)
(***************************************************************************)
FrameFits(t) ==
  LET slots == [e \in DOMAIN tabs[t.at[1]].ents |-> tabs[t.at[1]].ents[e].slot]
  IN IsInjective(slots) /\ \A e \in DOMAIN slots : slots[e] \in 0..t.at[2] - 1

RECURSIVE WellScoped(_, _)
WellScoped(t, scopes) ==
  LET inner == IF t.t \in {"opform", "trform", "block"} THEN scopes \cup {t.at[1]} ELSE scopes
  IN /\ t.t \in {"opform", "block"} => FrameFits(t) /\ tabs[t.at[1]].prop = "open"
     /\ t.t \in {"variable", "expression"} => t.at[1] \in scopes /\ entry([tabs |-> tabs], t).name = t.s
     /\ \A n \in DOMAIN t.k : WellScoped(t.k[n], inner)

FramesFit == out.r = "ok" => WellScoped(out.tree, {global_symtab})

(***************************************************************************)
(* What a line leaves behind: one value, and trees whose names are found   *)
(* in the frames that are made for them.                                   *)
(***************************************************************************)
WellBuilt == OneResult /\ FramesFit

(***************************************************************************)
(* Every name is used in the role its entry has when the line is accepted, *)
(* and a defined name has the role of its definition, though it is given   *)
(* other roles while the definition is tried.                              *)
(***************************************************************************)
Role(t) == IF t.t = "basic" THEN Global(tabs, t.s).role ELSE get_role([tabs |-> tabs], t)

RECURSIVE Means(_)
Means(t) ==
  CASE t.t \in {"opform", "curried", "composition", "atlas", "transform"} -> "Roptn"
    [] t.t = "trform" -> "Rtrans"
    [] t.t = "parendobj" -> Means(t.k[1])
    [] t.t \in {"basic", "variable", "expression"} ->
         (IF Role(t) = "Rvar" THEN "Rexpr" ELSE Role(t))
    [] OTHER -> "Rexpr"

Operations(t) ==
  CASE t.t \in {"curried", "opcall", "basic_binopcall"} -> {t.k[1]}
    [] t.t \in {"composition", "atlas"} -> ToSet(t.k)
    [] t.t = "transform" -> {t.k[2]}
    [] OTHER -> {}
Operands(t) ==
  CASE t.t \in {"strand", "list"} -> ToSet(t.k)
    [] t.t \in {"opcall", "curried"} -> {t.k[2]}
    [] t.t = "basic_binopcall" -> {t.k[2], t.k[3]}
    [] t.t \in DOMAIN Signs -> ToSet(t.k)
    [] t.t = "assignexpr" -> ToSet(t.k[1].k) \cup {t.k[2]}
    [] OTHER -> {}

RolesAgree ==
  out.r = "ok" => \A t \in Subtrees(out.tree) :
    /\ \A o \in Operations(t) : Means(o) = "Roptn"
    /\ \A a \in Operands(t) : Means(a) = "Rexpr"
    /\ t.t = "definition" /\ t.k[2] # no_code => Role(t.k[1].k[1]) = Means(t.k[2])

(***************************************************************************)
(* What see shows of a line parses to the tree it was shown from: the same *)
(* forms, the same names in scopes of the same shape.  Left out are what   *)
(* the deparser cannot show: an operation whose body goes on after its     *)
(* parentheses, and a variable of another scope.                           *)
(***************************************************************************)
Showable(tree) ==
  \A t \in Subtrees(tree) :
    /\ t.t \notin {"none", "scoped_var"}
    /\ t.t = "opform" => t.k[2].t \in {"parendobj", "blockbody"}

RECURSIVE Bare(_)
Bare(t) ==
  IF t.t = "defnseq" /\ Len(t.k) = 1 THEN Bare(t.k[1])
  ELSE [t |-> t.t, s |-> t.s, k |-> [n \in DOMAIN t.k |-> Bare(t.k[n])],
        at |-> IF t.at = <<>> \/ t.at[1] = global_symtab THEN t.at ELSE Tail(t.at)]

Shown(tree) == SelectSeq(ideparse(tree), LAMBDA tkn : tkn.prop # "layout")

RoundTrip ==
  out.r = "ok" /\ Showable(out.tree) =>
    LET again == Parse(out.was, Shown(out.tree))
    IN again.r = "ok" /\ Bare(again.tree) = Bare(out.tree)
=============================================================================
