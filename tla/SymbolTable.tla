---------------------------- MODULE SymbolTable ----------------------------
(***************************************************************************)
(* Symbol tables and the search of names in scopes (symtab.c).             *)
(*                                                                         *)
(* A table has a property and its entries, in the order they were made.    *)
(* The C code keeps them in a binary tree that is never rebalanced and     *)
(* that takes a second entry of a name below the first one; a search finds *)
(* the one nearest the root, which is the first made.  An entry has a      *)
(* name, a role, the flag of a system name, and a value: the number of a   *)
(* slot in a local table, the tree of its definition in the global one.    *)
(* env, which the C code keeps in the tree of the form the table is for,   *)
(* has the tables in scope there.                                          *)
(***************************************************************************)
EXTENDS Trees, FiniteSetsExt

global_symtab == 1                       \* the number of the global table
notfound == 0

addsymtab(tabs, prop, env) ==
  Append(tabs, [prop |-> prop, ents |-> <<>>, env |-> <<Len(tabs) + 1>> \o env])

Entry(name, role, sysflag) ==
  [name |-> name, role |-> role, slot |-> -1, val |-> no_code, sys |-> sysflag]

mkSymtabEntry(tabs, sym, name, role, sysflag) ==
  [tabs EXCEPT ![sym].ents = Append(@, Entry(name, role, sysflag))]

Blookup(tabs, sym, name) ==
  LET same == {e \in DOMAIN tabs[sym].ents : tabs[sym].ents[e].name = name}
  IN IF same = {} THEN notfound ELSE Min(same)

(***************************************************************************)
(* lookup: the table and the entry a name stands for, or the last table    *)
(* searched and notfound.  env is the list of tables in scope, innermost   *)
(* first (empty outside every block), nonlocs the names the block being    *)
(* parsed declares NONLOCAL.                                               *)
(***************************************************************************)
lookup(tabs, env, nonlocs, name, searchtype) ==
  LET InFirst == /\ env # <<>>
                 /\ searchtype \notin {"globals", "nonlocal"}
                 /\ ~(tabs[env[1]].prop = "closed" /\ name \in nonlocs)
      Restricted == \/ searchtype = "statics"
                    \/ searchtype = "active" /\ tabs[env[1]].prop = "closed"
      first == Blookup(tabs, env[1], name)
      outer == IF searchtype \in {"globals", "dynamic"} THEN {}
               ELSE {n \in 2..Len(env) : Blookup(tabs, env[n], name) # notfound}
      sym == IF InFirst /\ (first # notfound \/ Restricted) THEN env[1]
             ELSE IF outer # {} THEN env[Min(outer)]
             ELSE global_symtab
  IN <<sym, Blookup(tabs, sym, name)>>

Global(tabs, name) == tabs[global_symtab].ents[Blookup(tabs, global_symtab, name)]

(***************************************************************************)
(* ierase: the global entry of a name gets the value that says "nothing".  *)
(* No is the answer that nothing was erased (a fault).                     *)
(***************************************************************************)
Erasable(tabs, name) ==
  /\ Blookup(tabs, global_symtab, name) # notfound
  /\ ~Global(tabs, name).sys

eraseSymtabEntry(tabs, name) ==
  LET e == Blookup(tabs, global_symtab, name)
  IN IF tabs[global_symtab].ents[e].role = "Rident" THEN tabs
     ELSE [tabs EXCEPT ![global_symtab].ents[e].val = no_code]

ierase(tabs, name) == IF Erasable(tabs, name) THEN eraseSymtabEntry(tabs, name) ELSE tabs

\* isymbols: the names with their roles, those of the system too if all
isymbols(tabs, all) ==
  {<<n, Global(tabs, n).role>> :
     n \in {e.name : e \in {d \in ToSet(tabs[global_symtab].ents) : all \/ ~d.sys}}}

\* igetdef: the definition of a name (<<>> when there is none to show)
igetdef(tabs, name) ==
  LET e == Blookup(tabs, global_symtab, name)
  IN IF Erasable(tabs, name) /\ Global(tabs, name).role \in {"Rexpr", "Roptn", "Rtrans"}
     THEN <<b_parsetree(b_definition(Node("idlist", <<b_variable(global_symtab, e, name)>>),
                                     Global(tabs, name).val))>>
     ELSE <<>>
=============================================================================
