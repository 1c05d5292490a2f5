------------------------------ MODULE ArrayVars ------------------------------
(***************************************************************************)
(* What Nial promises of indexed assignment and of place, deepplace and    *)
(* placeall: arrays are values, a variable holds one, and a statement      *)
(* changes the variable it names and no other.                             *)
(***************************************************************************)
EXTENDS Select

CONSTANTS Vars,         \* the variables
          Literals,     \* the arrays a program may write down
          Addresses,    \* the addresses, paths, lists of addresses and slices
          Paths,        \* it may write down
          AddressLists,
          Slices,
          StoredPairs   \* the pairs [[x, at], a] a variable may be set to, for place

VARIABLES value,        \* the array each variable holds
          pending       \* the statement about to be run, or none

Idle == [op |-> "none"]

\* Expressions: a literal, a variable, an item of one, a list of two.
Lit(x)      == [t |-> "lit", x |-> x]
Var(v)      == [t |-> "var", v |-> v]
Item(v, i)  == [t |-> "item", v |-> v, i |-> i]
Two(d, e)   == [t |-> "two", d |-> d, e |-> e]
Operands    == {Lit(x) : x \in Literals} \cup {Var(v) : v \in Vars} \cup {Item(v, 1) : v \in Vars}
Pairs       == {Two(Var(v), Var(w)) : v, w \in Vars}
\* The argument [[x, at], v] of place and its kin.
Triples(ats) == {Two(Two(x, Lit(a)), Var(v)) : x \in Operands, a \in ats, v \in Vars}

Placings == {"place", "deepplace", "placeall"}

Indexed(op, ats) == {[op |-> op, v |-> v, at |-> at, e |-> e] :
                       v \in Vars, at \in {Lit(x) : x \in ats} \cup {Var(w) : w \in Vars}, e \in Operands}
Statements ==
  {[op |-> "assign", v |-> v, e |-> e] :
     v \in Vars, e \in Operands \cup Pairs \cup {Lit(z) : z \in StoredPairs}}
    \cup Indexed("pickplace", Addresses)
    \cup {[op |-> "update", v |-> v, at |-> Lit(x), e |-> e] : v \in Vars, x \in Addresses, e \in Operands}
    \cup Indexed("reachput", Paths) \cup Indexed("choose", AddressLists)
    \cup {[op |-> "slice", v |-> v, at |-> Lit(x), e |-> e] : v \in Vars, x \in Slices, e \in Operands}
    \cup {[op |-> "place", v |-> v, e |-> e] : v \in Vars, e \in Triples(Addresses)}
    \cup {[op |-> "deepplace", v |-> v, e |-> e] : v \in Vars, e \in Triples(Paths)}
    \cup {[op |-> "placeall", v |-> v, e |-> e] : v \in Vars, e \in Triples(AddressLists)}
    \cup {[op |-> op, v |-> v, e |-> Var(w)] : op \in Placings, v, w \in Vars}
    \cup {[op |-> "diverse", v |-> v] : v \in Vars}

RECURSIVE Meaning(_)
Meaning(e) ==
  CASE e.t = "lit"  -> e.x
    [] e.t = "var"  -> value[e.v]
    [] e.t = "item" -> first(value[e.v])
    [] e.t = "two"  -> mklist(<<Meaning(e.d), Meaning(e.e)>>)

\* a with x at addr, or No.
PlacedAt(a, addr, x) ==
  IF valence(a) = 0 /\ tally(addr) = 0 THEN single(x)
  ELSE IF PlaceOf(a, addr) = 0 THEN No
  ELSE Imploded(new_create_array(atype, a.sh, [Items(a) EXCEPT ![PlaceOf(a, addr)] = x]))
RECURSIVE PlacedDeep(_, _, _)
PlacedDeep(a, path, x) ==
  IF path = <<>> THEN x
  ELSE LET t == pick(a, Head(path))
           r == IF t = No THEN No ELSE PlacedDeep(t, Tail(path), x)
       IN  IF r = No THEN No ELSE PlacedAt(a, Head(path), r)
\* The items of xs at the addresses, or No.
PlacedAll(a, addrs, xs) ==
  FoldLeft(LAMBDA b, i : IF b = No THEN No ELSE PlacedAt(b, addrs[i], xs[i]), a, [i \in DOMAIN addrs |-> i])
Spread(x, n) == IF valence(x) = 0 THEN [i \in 1 .. n |-> first(x)] ELSE Items(x)

\* What a variable that holds a may hold after x was stored at these addresses.
\* With an address that is not valid: a, or a with some of the first values stored,
\* and then perhaps as a list of items where it should be a list of integers.
AllResults(a, addrs, x) ==
  LET as == Items(addrs)   xs == Spread(x, tally(addrs))
      some == {PlacedAll(a, SubSeq(as, 1, k), xs) : k \in 0 .. Len(as)} \ {No}
      whole == PlacedAll(a, as, xs)
  IN  IF valence(x) # 0 /\ tally(x) # tally(addrs) THEN {a}
      ELSE IF whole # No THEN {whole} ELSE some \cup {explode(b, b.sh) : b \in some}
\* A whole row or column takes the first items of x, if a and x are of a kind.
WholeLine(a, at, x) == valence(a) = 2 /\ at.kind = atype /\ a.kind = x.kind
                       /\ \/ at.els[1] = Nullexpr /\ isint(at.els[2])
                          \/ at.els[2] = Nullexpr /\ isint(at.els[1])
LineLength(a, at) == IF at.els[1] = Nullexpr THEN a.sh[1] ELSE a.sh[2]
LineValues(a, at, x) == IF valence(x) = 0 THEN x ELSE Imploded(Piece(x, 0, LineLength(a, at)))
SliceResults(a, at, x) ==
  LET addrs == slice_addrs(a, at)
  IN  IF addrs = No THEN {a}
      ELSE IF WholeLine(a, at, x)
      THEN IF \E i \in 1 .. tally(addrs) : PlaceOf(a, fetchasarray(addrs, i)) = 0 THEN {a}
           ELSE AllResults(a, list(addrs), LineValues(a, at, x))
      ELSE AllResults(a, addrs, x)
OneResult(a, r) == IF r = No THEN a ELSE r

\* place and its kin, as functions of one array.
Placing(op, z) ==
  LET xaddr == fetchasarray(z, 1)   a == fetchasarray(z, 2)
      x == fetchasarray(xaddr, 1)   addr == fetchasarray(xaddr, 2)
      y == IF tally(x) # tally(addr) THEN reshapeTo(<<tally(addr)>>, x) ELSE x
      placed == PlacedAll(a, Items(addr), Spread(y, tally(addr)))
  IN  IF Passes(z) THEN z
      ELSE IF tally(z) # 2 \/ tally(xaddr) # 2 THEN Bad
      ELSE CASE op = "place"     -> OrElse(PlacedAt(a, addr, x), Address)
             [] op = "deepplace" -> OrElse(PlacedDeep(a, Items(addr), x), Bad)
             [] op = "placeall"  -> OrElse(placed, Bad)

Results(s) ==
  LET a == value[s.v]   x == Meaning(s.e)   at == Meaning(s.at)
  IN  CASE s.op = "assign" -> {x}
        [] s.op \in {"pickplace", "update"} -> {OneResult(a, PlacedAt(a, at, x))}
        [] s.op = "reachput" -> {OneResult(a, PlacedDeep(a, Items(at), x))}
        [] s.op = "choose" -> AllResults(a, at, x)
        [] s.op = "slice" -> SliceResults(a, at, x)
        [] s.op \in Placings -> {Placing(s.op, x)}
        [] s.op = "diverse" -> {a}

\* Values, or addresses, taken one by one from the array they are stored in:
\* what the variable holds in the end is not said.
Uses(e, v) == e.t \in {"var"} /\ value[e.v] = value[v]
FromItself(s) == s.op \in {"choose", "slice"} /\ (Uses(s.e, s.v) \/ Uses(s.at, s.v))

\* place and its kin of a pair that a variable holds may change the array in it: they
\* count the references of the array and not those of the pair.  A variable that has
\* that pair in its value then has another array in it, which is not said.
TakesStored(s) == s.op \in Placings /\ s.e.t = "var"
RECURSIVE Within(_, _)
Within(x, z) == x = z \/ (x.kind = atype /\ \E i \in DOMAIN x.els : Within(x.els[i], z))
Disturbed(s, w) == TakesStored(s) /\ ~Passes(Meaning(s.e)) /\ Within(value[w], Meaning(s.e))

Init == value = [v \in Vars |-> Null] /\ pending = Idle
Read == pending = Idle /\ pending' \in Statements /\ UNCHANGED value
Run  == /\ pending # Idle
        /\ pending' = Idle
        /\ IF FromItself(pending) THEN TRUE ELSE value'[pending.v] \in Results(pending)
        /\ \A w \in Vars \ {pending.v} : value'[w] = value[w] \/ Disturbed(pending, w)
Next == Read \/ Run
Spec == Init /\ [][Next]_<<value, pending>>
==============================================================================
