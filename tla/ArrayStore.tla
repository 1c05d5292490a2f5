------------------------------ MODULE ArrayStore ------------------------------
(***************************************************************************)
(* Arrays in the heap with reference counts, and the statements that store *)
(* into them (insel.c): A@a := x, A@@p := x, A#s := x, A|s := x, update,   *)
(* place, deepplace and placeall.  An array with one reference is changed  *)
(* where it stands; with more it is copied first.                          *)
(*                                                                         *)
(* h[x] is the array at x: its kind, shape, elements, flag and count.  The *)
(* elements of an array of kind atype are the addresses of its items.  An  *)
(* operator that stands for a C function is given the heap and gives back  *)
(* a record of the heap (h) and the array it returns or pushes (z); using  *)
(* an array that was freed is an evaluation error.                         *)
(***************************************************************************)
EXTENDS Select

CONSTANTS Vars, Literals, Addresses, Paths, AddressLists, Slices, StoredPairs,
          MaxCells,     \* bound on the arrays and elements in the heap when a statement is read
          MaxPairCells  \* the bound when the statement is place of a stored pair

VARIABLES heap, symtab, pending,
          overheld,     \* has a store forgotten to give up a reference?
          leaked        \* has an array been left that nothing refers to?

vars == <<heap, symtab, pending, overheld, leaked>>

RECURSIVE Deep(_, _)
Deep(h, x) == [kind |-> h[x].kind, sh |-> h[x].sh, sorted |-> FALSE,
               els |-> IF h[x].kind = atype THEN [i \in DOMAIN h[x].els |-> Deep(h, h[x].els[i])]
                                            ELSE h[x].els]
value == [v \in Vars |-> Deep(heap, symtab[v])]
A == INSTANCE ArrayVars

incrrefcnt(h, x) == [h EXCEPT ![x].ref = @ + 1]
decrrefcnt(h, x) == [h EXCEPT ![x].ref = @ - 1]
\* (Joined with nothing, as TLC may not evaluate it otherwise.)
Remaining(h, x) == [i \in DOMAIN h \ {x} |-> h[i]] @@ <<>>
RECURSIVE freeup(_, _)
RECURSIVE ReleaseEach(_, _)
ReleaseEach(h, xs) ==
  IF xs = <<>> THEN h ELSE ReleaseEach(freeup(decrrefcnt(h, Head(xs)), Head(xs)), Tail(xs))
freeup(h, x) ==
  IF h[x].ref > 0 THEN h
  ELSE ReleaseEach(Remaining(h, x), IF h[x].kind = atype THEN h[x].els ELSE <<>>)
Release(h, x) == freeup(decrrefcnt(h, x), x)

\* The same for the heap of a result: an array freed, or a reference given up.
Freed(r, x)    == [r EXCEPT !.h = freeup(@, x)]
Released(r, x) == [r EXCEPT !.h = Release(@, x)]
Without(r, x, held) == IF held THEN Released(r, x) ELSE Freed(r, x)
Holding(h, x, held) == IF held THEN incrrefcnt(h, x) ELSE h

Unused(h) == CHOOSE i \in 1 .. Cardinality(DOMAIN h) + 1 :
               i \notin DOMAIN h /\ \A j \in 1 .. i - 1 : j \in DOMAIN h
RECURSIVE HoldEach(_, _)
HoldEach(h, xs) == IF xs = <<>> THEN h ELSE HoldEach(incrrefcnt(h, Head(xs)), Tail(xs))
CreateAt(h, z, k, sh, els) ==
  [h |-> (z :> [kind |-> k, sh |-> sh, els |-> els, sorted |-> FALSE, ref |-> 0])
           @@ (IF k = atype THEN HoldEach(h, els) ELSE h),
   z |-> z]
create(h, k, sh, els) == CreateAt(h, Unused(h), k, sh, els)
copy_array(h, a) == create(h, h[a].kind, h[a].sh, h[a].els)
fetch(h, x, i) ==
  IF atomic(h[x]) THEN [h |-> h, z |-> x]
  ELSE IF h[x].kind = atype THEN [h |-> h, z |-> h[x].els[i]]
  ELSE create(h, h[x].kind, <<>>, <<h[x].els[i]>>)

\* The items of x, those of a homogeneous array made.
AndItem(f, zs) == [h |-> f.h, zs |-> Append(zs, f.z)]
RECURSIVE FetchFrom(_, _, _)
FetchFrom(s, x, i) ==
  IF i > tally(s.h[x]) THEN s ELSE FetchFrom(AndItem(fetch(s.h, x, i), s.zs), x, i + 1)
Exploded(s, x, sh) == Freed(create(s.h, atype, sh, s.zs), x)
explodeIn(h, x) == Exploded(FetchFrom([h |-> h, zs |-> <<>>], x, 1), x, h[x].sh)
homotestIn(h, x) == homotest(Deep(h, x))
implodeIn(h, x) ==
  Freed(create(h, h[h[x].els[1]].kind, h[x].sh, [i \in DOMAIN h[x].els |-> h[h[x].els[i]].els[1]]), x)
SetElement(h, z, i, x) == [h EXCEPT ![z].els[i] = x]
HoldsOld(h, z, i, x) == SetElement(incrrefcnt(h, x), z, i, x)        \* mutant
replace_array(h, z, i, x) == Release(SetElement(incrrefcnt(h, x), z, i, x), h[z].els[i])

\* place: ok, whether a is another array now (ch), and a, pushed.
Failed(h, ch) == [ok |-> FALSE, h |-> h, z |-> 0, ch |-> ch]
Pushed(h, z, ch) == [ok |-> TRUE, h |-> incrrefcnt(h, z), z |-> z, ch |-> ch]
PushedAnew(s) == Pushed(s.h, s.z, TRUE)
SingleIn(h, x) == IF atomic(h[x]) THEN [h |-> h, z |-> x] ELSE create(h, atype, <<>>, <<x>>)
Anew(c) == [h |-> c.h, z |-> c.z, ch |-> TRUE]
StoresShared(h, a, x, ch) == [h |-> h, z |-> a, ch |-> ch]          \* mutant
\* The array place stores into: a, or one made of it that nobody else refers to.
Target(h, a, x, ch) ==
  IF homotype(h[a].kind) /\ (h[a].kind # h[x].kind \/ valence(h[x]) > 0) THEN Anew(explodeIn(h, a))
  ELSE IF ~ch /\ h[a].ref > 1 THEN Anew(copy_array(h, a))
  ELSE [h |-> h, z |-> a, ch |-> ch]
Unheld(m, x) == [m EXCEPT !.h = decrrefcnt(@, x)]
WithItem(t, g, x) ==
  IF homotestIn(g, t.z) THEN Anew(Unheld(implodeIn(incrrefcnt(g, x), t.z), x)) ELSE [t EXCEPT !.h = g]
Store(t, i, x) ==
  IF t.h[t.z].kind = atype THEN WithItem(t, replace_array(t.h, t.z, i, x), x)
  ELSE [t EXCEPT !.h = SetElement(@, t.z, i, t.h[x].els[1])]
set_sorted(h, z) == [h EXCEPT ![z].sorted = FALSE]
Stored(t) == Pushed(set_sorted(t.h, t.z), t.z, t.ch)
place(h, a, addr, x, ch) ==
  IF valence(h[a]) = 0 /\ tally(h[addr]) = 0
  THEN Freed(Freed(PushedAnew(SingleIn(h, x)), a), addr)
  ELSE IF PlaceOf(h[a], h[addr]) = 0 THEN Failed(freeup(freeup(h, addr), x), ch)
  ELSE Freed(Freed(Stored(Store(Target(h, a, x, ch), PlaceOf(h[a], h[addr]), x)), addr), x)

\* What pick pushes; No when the address is not valid.
pickIn(h, a, addr) ==
  IF valence(h[a]) = 0 /\ tally(h[addr]) = 0
  THEN fetch(h, a, 1)
  ELSE IF PlaceOf(h[a], h[addr]) = 0 THEN No ELSE fetch(h, a, PlaceOf(h[a], h[addr]))

Shared(h, a) == ~atomic(h[a]) /\ h[a].ref > 1
Unshared(n)  == IF Shared(n.h, n.z) THEN copy_array(n.h, n.z) ELSE n
RECURSIVE pathup(_, _, _, _, _, _)
\* Back from the rest of the path: r is what it left, at the address gone by.
WayUp(r, at, target, ch) ==
  IF r.ok THEN place(decrrefcnt(decrrefcnt(decrrefcnt(r.h, r.z), target), at), target, at, r.z, ch)
  ELSE Failed(Release(Release(r.h, target), at), ch)
WayDown(n, path, i, val) == pathup(n.h, n.z, path, i + 1, val, FALSE)
Through(g, n, at, target, path, i, val, ch) ==
  IF n = No THEN Failed(Release(Release(g, target), at), ch)
  ELSE WayUp(WayDown(Unshared(n), path, i, val), at, target, ch)
At(g, at, target, path, i, val, ch) == Through(g, pickIn(g, target, at), at, target, path, i, val, ch)
Along(f, target, path, i, val, ch) ==
  At(incrrefcnt(incrrefcnt(f.h, f.z), target), f.z, target, path, i, val, ch)
pathup(h, target, path, i, val, ch) ==
  IF i > tally(h[path]) THEN Freed(Pushed(h, val, ch \/ tally(h[path]) = 0), target)
  ELSE Along(fetch(h, path, i), target, path, i, val, ch)
DeepInto(c, path, x, share) ==
  Released(Released(pathup(incrrefcnt(c.h, path), c.z, path, 1, x, share), path), x)
deepplace(h, a, path, x) ==
  DeepInto(Unshared([h |-> incrrefcnt(h, x), z |-> a]), path, x, Shared(incrrefcnt(h, x), a))

\* The loop of placeall, a on the stack; one is the value for all addresses: an
\* atom, or the item of a single, or 0.
RECURSIVE PlaceEach(_, _, _, _, _, _)
OnceMore(r, p, addrs, vals, one, i, n) ==
  IF p.ok THEN PlaceEach(p, addrs, vals, one, i + 1, n)
  ELSE Failed(IF p.ch THEN freeup(p.h, r.z) ELSE p.h, p.ch)
PlaceFetched(r, f, x) == place(f.h, r.z, f.z, x, r.ch)
PlaceOne(r, v, addrs, i) == PlaceFetched(r, fetch(decrrefcnt(v.h, r.z), addrs, i), v.z)
NextValue(h, vals, one, i) == IF one # 0 THEN [h |-> h, z |-> one] ELSE fetch(h, vals, i)
PlaceEach(r, addrs, vals, one, i, n) ==
  IF i > n \/ ~r.ok THEN r
  ELSE OnceMore(r, PlaceOne(r, NextValue(r.h, vals, one, i), addrs, i), addrs, vals, one, i, n)
PlaceValues(h, a, addrs, vals, one) ==
  LET lone == atomic(h[addrs])
      all  == one = vals
  IN  Without(Without(PlaceEach(Pushed(Holding(Holding(h, vals, all), addrs, lone), a, FALSE),
                                addrs, vals, one, 1, tally(h[addrs])),
                      addrs, lone), vals, all)
placeall(h, a, addrs, vals) ==
  IF tally(h[addrs]) # tally(h[vals]) /\ valence(h[vals]) # 0
  THEN Failed(freeup(freeup(h, addrs), vals), FALSE)
  ELSE PlaceValues(h, a, addrs, vals,
         IF valence(h[vals]) # 0 THEN 0 ELSE IF atomic(h[vals]) THEN vals ELSE h[vals].els[1])

\* store_var, and the value of the statement popped and given up.
store_var(h, v, z) ==
  [h |-> Release(incrrefcnt(h, z), symtab[v]), st |-> [symtab EXCEPT ![v] = z]]
Kept(h) == [h |-> h, st |-> symtab]
Replaced(r, v) ==
  IF ~r.ok THEN Kept(r.h) ELSE Released(IF r.ch THEN store_var(r.h, v, r.z) ELSE Kept(r.h), r.z)
GivenUp(s, x, held) == IF held THEN Released(s, x) ELSE s
splace(h, v, addr, x) ==
  LET a == symtab[v]
  IN  GivenUp(Replaced(place(Holding(h, a, x = a), a, addr, x, FALSE), v), a, x = a)
sdeepplace(h, v, path, x) == Replaced(deepplace(h, symtab[v], path, x), v)
splaceall(h, v, addrs, x) == Replaced(placeall(h, symtab[v], addrs, x), v)

RECURSIVE Build(_, _)
RECURSIVE BuildEach(_, _)
BuildEach(s, xs) ==
  IF xs = <<>> THEN s ELSE BuildEach(AndItem(Build(s.h, Head(xs)), s.zs), Tail(xs))
BuildOf(s, x) == create(s.h, atype, x.sh, s.zs)
Build(h, x) ==
  IF x.kind = atype THEN BuildOf(BuildEach([h |-> h, zs |-> <<>>], x.els), x)
  ELSE create(h, x.kind, x.sh, x.els)

\* A list of the arrays at x and y, which the stack holds.
PairMade(h, x, y, l) == IF l.kind = atype THEN create(h, atype, <<2>>, <<x, y>>)
                        ELSE create(h, l.kind, l.sh, l.els)
PairPopped(h, x, y) ==
  Released(Released(PairMade(h, x, y, mklist(<<Deep(h, x), Deep(h, y)>>)), y), x)
\* eval: the array an expression leaves, popped.
RECURSIVE Eval(_, _)
AndSecond(x, y) == PairPopped(incrrefcnt(y.h, y.z), x.z, y.z)
AfterFirst(x, e) == AndSecond(x, Eval(incrrefcnt(x.h, x.z), e))
Eval(h, e) ==
  CASE e.t = "lit" -> Build(h, e.x)
    [] e.t = "var" -> [h |-> h, z |-> symtab[e.v]]
    [] e.t = "item" -> IF tally(h[symtab[e.v]]) = 0 THEN Build(h, Address) ELSE fetch(h, symtab[e.v], 1)
    [] e.t = "two" -> AfterFirst(Eval(h, e.d), e.e)
\* The value, then the address.
ValueAnd(x, a) == [h |-> a.h, x |-> x.z, at |-> a.z]
AfterValue(x, at) == ValueAnd(x, Eval(x.h, at))
Operands2(e, at) == AfterValue(Eval(heap, e), at)

\* A whole row or column stored element by element: what an item of a took the
\* place of keeps its reference.
LinePlace(a, at, k) ==
  IF at.els[1] = Nullexpr THEN Value(at.els[2]) + (k - 1) * a.sh[2] + 1
  ELSE Value(at.els[1]) * a.sh[2] + k
LineInside(a, at) == IF at.els[1] = Nullexpr THEN Value(at.els[2]) \in 0 .. a.sh[2] - 1
                                             ELSE Value(at.els[1]) \in 0 .. a.sh[1] - 1
\* The kth of the n elements copied; a is the array as it was.
RECURSIVE CopyEach(_, _, _, _, _, _, _)
CopyItem(h, z, isatype, at, el) ==
  Holding(SetElement(h, z, at, el), el, isatype)
CopyEach(h, z, y, a, at, k, n) ==
  IF k > n THEN h
  ELSE CopyEach(CopyItem(h, z, h[z].kind = atype, LinePlace(a, at, k), h[y].els[k]), z, y, a, at, k + 1, n)
\* A single value spread over the line.
SpreadOver(h, x, n) ==
  IF valence(h[x]) = 0 /\ n > 1 THEN Freed(create(h, h[x].kind, <<n>>, [i \in 1 .. n |-> h[x].els[1]]), x)
  ELSE [h |-> h, z |-> x]
LineStored(h, v, z, y) == Released(Freed(store_var(incrrefcnt(h, z), v, z), y), z)
LineFrom(z, y, v, a, at, n) == LineStored(CopyEach(y.h, z, y.z, a, at, 1, n), v, z, y.z)
LineInto(c, v, a, at, x, n) == LineFrom(c.z, SpreadOver(c.h, x, n), v, a, at, n)
StoreLine(h, v, at, x) ==
  LET a == symtab[v]
  IN  LineInto(IF h[a].ref > 1 THEN copy_array(h, a) ELSE [h |-> h, z |-> a],
               v, h[a], at, x, A!LineLength(h[a], at))
\* A slice with whole axes goes through its addresses.
AtAddresses(b, v, x) == splaceall(b.h, v, b.z, x)
ssliceall(h, v, at, x) ==
  LET addrs == slice_addrs(Deep(h, symtab[v]), at)
  IN  IF addrs = No THEN Kept(h) ELSE AtAddresses(Build(h, addrs), v, x)
sslice(h, v, at, x) ==
  IF A!WholeLine(h[symtab[v]], at, h[x])
  THEN IF LineInside(h[symtab[v]], at) THEN StoreLine(h, v, at, x) ELSE Kept(freeup(h, x))
  ELSE ssliceall(h, v, at, x)

\* iplace, ideepplace, iplaceall: the pair of pairs taken apart.
PlaceBy(op, y, a, at) ==
  CASE op = "place"     -> place(y.h, a, at, y.z, FALSE)
    [] op = "deepplace" -> deepplace(y.h, a, at, y.z)
    [] op = "placeall"  -> placeall(y.h, a, at, y.z)
\* The fault where it failed, and what was taken apart given up.
Answered(r, op) ==
  IF r.ok THEN r ELSE PushedAnew(Build(r.h, IF op = "place" THEN Address ELSE Bad))
CleanedUp(p, xaddr, z) == Freed(IF xaddr \in DOMAIN p.h THEN Freed(p, xaddr) ELSE p, z)
Values(h, op, x, at) ==
  IF op = "placeall" /\ tally(h[x]) # tally(h[at])
  THEN Freed(Build(h, reshapeTo(<<tally(h[at])>>, Deep(h, x))), x)
  ELSE [h |-> h, z |-> x]
\* z is [xaddr, a] and xaddr is [x, at].
WithAt(at, x, a, xaddr, op, z) ==
  CleanedUp(Answered(PlaceBy(op, Values(at.h, op, x, at.z), a, at.z), op), xaddr, z)
WithX(x, a, xaddr, op, z) == WithAt(fetch(x.h, xaddr, 2), x.z, a, xaddr, op, z)
WithA(a, xaddr, op, z) == WithX(fetch(a.h, xaddr, 1), a.z, xaddr, op, z)
NoPairs(h, z) == Freed(PushedAnew(Build(h, Bad)), z)
WithXaddr(h, f, op, z) ==
  IF tally(f.h[f.z]) # 2 THEN NoPairs(h, z) ELSE WithA(fetch(f.h, z, 2), f.z, op, z)
TakenApart(h, op, z) ==
  IF Passes(h[z]) THEN Pushed(h, z, TRUE)
  ELSE IF tally(h[z]) # 2 THEN NoPairs(h, z) ELSE WithXaddr(h, fetch(h, z, 1), op, z)

\* The arrays the variables reach, in the order they reach them, renumbered;
\* an array nothing reaches any more is left out.
RECURSIVE Reached(_, _, _)
Reached(h, todo, seen) ==
  IF todo = <<>> THEN seen
  ELSE LET x == Head(todo)
       IN  IF \E i \in DOMAIN seen : seen[i] = x THEN Reached(h, Tail(todo), seen)
           ELSE Reached(h, (IF h[x].kind = atype THEN h[x].els ELSE <<>>) \o Tail(todo), Append(seen, x))
Order == SetToSeq(Vars)
Finished(s, over) ==
  LET seen == Reached(s.h, [i \in DOMAIN Order |-> s.st[Order[i]]], <<>>)
      at(x) == CHOOSE i \in DOMAIN seen : seen[i] = x
      moved(n) == IF n.kind = atype THEN [n EXCEPT !.els = [i \in DOMAIN @ |-> at(@[i])]] ELSE n
  IN  /\ heap' = [i \in DOMAIN seen |-> moved(s.h[seen[i]])]
      /\ symtab' = [v \in Vars |-> at(s.st[v])]
      /\ leaked' = (leaked \/ Cardinality(DOMAIN s.h) > Len(seen))
      /\ overheld' = (overheld \/ over)
      /\ pending' = A!Idle

Init == /\ heap = (1 :> [kind |-> atype, sh |-> <<0>>, els |-> <<>>, sorted |-> FALSE, ref |-> Cardinality(Vars)])
        /\ symtab = [v \in Vars |-> 1]
        /\ pending = A!Idle /\ overheld = FALSE /\ leaked = FALSE

\* Statements that read what is no longer there, or past the end of an array, are
\* not run: a whole line from too short a list, the items of an item of v stored into
\* v, and v stored into at the addresses that are its items.
Defined(s) ==
  LET a == value[s.v]   x == A!Meaning(s.e)
  IN  s.op \in {"choose", "slice"} =>
        /\ s.e = A!Item(s.v, 1) => atomic(x)
        /\ s.at = A!Var(s.v) => heap[symtab[s.v]].kind # atype
        /\ s.op = "slice" /\ A!WholeLine(a, s.at.x, x) =>
             (valence(x) = 0 \/ tally(x) >= A!LineLength(a, s.at.x))
Cells == FoldFunction(LAMBDA x, n : n + 1 + Len(x.els), 0, heap)
Read == /\ pending = A!Idle /\ ~overheld
        /\ pending' \in {s \in A!Statements :
                           /\ Cells <= IF A!TakesStored(s) THEN MaxPairCells ELSE MaxCells
                           /\ Defined(s)}
        /\ UNCHANGED <<heap, symtab, overheld, leaked>>

Finish(s) == Finished(s, FALSE)
Assign ==
  /\ pending.op = "assign"
  /\ LET Set(x) == store_var(x.h, pending.v, x.z)
     IN  Finish(Set(Eval(heap, pending.e)))
InsertItem ==
  /\ pending.op = "pickplace"
  /\ LET Set(o) == splace(o.h, pending.v, o.at, o.x)
     IN  Finish(Set(Operands2(pending.e, pending.at)))
InsertDeep ==
  /\ pending.op = "reachput"
  /\ LET Set(o) == sdeepplace(o.h, pending.v, o.at, o.x)
     IN  Finish(Set(Operands2(pending.e, pending.at)))
InsertAll ==
  /\ pending.op = "choose"
  /\ LET Set(o) == splaceall(o.h, pending.v, o.at, o.x)
     IN  Finish(Set(Operands2(pending.e, pending.at)))
InsertSlice ==
  /\ pending.op = "slice"
  /\ LET a == heap[symtab[pending.v]]   at == pending.at.x
         Over(x) == (A!WholeLine(a, at, x.h[x.z]) /\ a.kind = atype) \/ tally(at) # valence(a)
         Set(x) == Finished(sslice(x.h, pending.v, at, x.z), Over(x))
     IN  Set(Eval(heap, pending.e))
\* The list of arguments holds the address and the value.
Update ==
  /\ pending.op = "update"
  /\ LET Held(o) == incrrefcnt(incrrefcnt(o.h, o.at), o.x)
         Set(o) == Released(Released(splace(Held(o), pending.v, o.at, o.x), o.at), o.x)
     IN  Finish(Set(Operands2(pending.e, pending.at)))
\* v := place e, and the like.
PlaceIn ==
  /\ pending.op \in {"place", "deepplace", "placeall"}
  /\ LET Set(p) == Released(store_var(p.h, pending.v, p.z), p.z)
         Taken(x) == TakenApart(x.h, pending.op, x.z)
     IN  Finish(Set(Taken(Eval(heap, pending.e))))
\* diverse v notes that the items of v stand in order.
Diverse ==
  /\ pending.op = "diverse"
  /\ LET x == symtab[pending.v]
         known == check_sorted([Deep(heap, x) EXCEPT !.sorted = heap[x].sorted]).sorted
     IN  Finished(Kept([heap EXCEPT ![x].sorted = known]), FALSE)

Next == Read \/ Assign \/ InsertItem \/ InsertDeep \/ InsertAll \/ InsertSlice \/ Update \/ PlaceIn \/ Diverse
Spec == Init /\ [][Next]_vars
-----------------------------------------------------------------------------
Holders(x) ==
  Cardinality({v \in Vars : symtab[v] = x})
    + Cardinality(UNION {{<<y, i>> : i \in {j \in DOMAIN heap[y].els : heap[y].els[j] = x}} :
                           y \in {z \in DOMAIN heap : heap[z].kind = atype}})
\* An array is never held by more than its count says, or it would be freed or
\* changed under a holder; and no count is too high, and no array left behind, but
\* where a slice stored over items.
RefsExact ==
  \A x \in DOMAIN heap : /\ heap[x].ref >= Holders(x)
                         /\ ~overheld => heap[x].ref = Holders(x) /\ ~leaked


\* Changing arrays where they stand is not to be seen: the statements do what they
\* do to values, and no variable changes but the one a statement names.
ImplementsArrayVars == A!Spec
=============================================================================
