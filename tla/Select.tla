-------------------------------- MODULE Select --------------------------------
(***************************************************************************)
(* Selection (insel.c): pick, reach, choose and the indexing expressions   *)
(* A@a, A@@p, A#s and A|[i,j].  An operation that can fail stands for what *)
(* the C function pushes, or for No, when it returns false.                *)
(***************************************************************************)
EXTENDS AtOps

No == [no |-> TRUE]
OrElse(r, x) == IF r = No THEN x ELSE r

\* The place (from 1) a valid address stands for, 0 when it is not valid.
PlaceOf(a, addr) ==
  IF tally(addr) # valence(a) \/ addr.kind # inttype THEN 0
  ELSE LET n == Numbers(addr)
       IN  IF \A j \in DOMAIN n : n[j] \in 0 .. a.sh[j] - 1 THEN ToIndex(n, a.sh) + 1 ELSE 0

pick(a, addr) ==
  IF valence(a) = 0 /\ tally(addr) = 0 THEN first(a)
  ELSE IF PlaceOf(a, addr) = 0 THEN No ELSE fetchasarray(a, PlaceOf(a, addr))
b_pick(x, y) == OrElse(pick(y, x), Address)

second(x) == IF tally(x) >= 2 THEN fetchasarray(x, 2) ELSE Address
third(x)  == IF tally(x) >= 3 THEN fetchasarray(x, 3) ELSE Address

reach(a, path) ==
  FoldLeft(LAMBDA b, addr : IF b = No THEN No ELSE pick(b, addr), a, Items(path))
b_reach(x, y) == OrElse(reach(y, x), Bad)

choose(a, addrs) ==
  LET got == [i \in 1 .. tally(addrs) |-> pick(a, fetchasarray(addrs, i))]
  IN  IF \E i \in DOMAIN got : got[i] = No THEN No
      ELSE IF valence(addrs) = 0 THEN single(got[1])
      ELSE Collected(addrs.sh, got)

\* int_eachboth, eachboth: items in pairs, an argument of one item spread.
EachBoth(F(_, _), x, y) ==
  LET left  == tally(x) = 1
      right == tally(y) = 1
      sh == IF left /\ right THEN IF valence(x) > valence(y) THEN x.sh ELSE y.sh
            ELSE IF left THEN y.sh ELSE x.sh
      z == [i \in 1 .. (IF left THEN tally(y) ELSE tally(x)) |->
              F(fetchasarray(x, IF left THEN 1 ELSE i), fetchasarray(y, IF right THEN 1 ELSE i))]
  IN  IF ~left /\ ~right /\ x.sh # y.sh THEN Bad
      ELSE IF sh = <<>> /\ atomic(z[1]) THEN z[1]
      ELSE Collected(sh, z)

b_choose(x, y) ==
  LET r == choose(y, x) IN IF r # No THEN r ELSE EachBoth(b_pick, x, single(y))

\* The addresses a slice stands for: each ?noexpr is a whole axis.
slice_addrs(a, addr) ==
  IF tally(addr) # valence(a) THEN No
  ELSE LET l == AsList(addr)
       IN  IF l.kind # atype THEN cart(l)
           ELSE cart([l EXCEPT !.els =
                        [i \in DOMAIN @ |-> IF @[i] = Nullexpr THEN generateints(a.sh[i]) ELSE @[i]]])
isint(x) == x.kind = inttype /\ atomic(x)

\* One column or one row of a matrix, with the matrix's kind.
Column(a, i) == ListOf(a.kind, [k \in 1 .. a.sh[1] |-> a.els[(k - 1) * a.sh[2] + i + 1]])
Row(a, i)    == Piece(a, i * a.sh[2], (i + 1) * a.sh[2])
select_slice(a, addr) ==
  LET i == addr.els[1]   j == addr.els[2]
      matrix == valence(a) = 2 /\ addr.kind = atype
      addrs == slice_addrs(a, addr)
  IN  IF matrix /\ i = Nullexpr /\ isint(j)
      THEN IF Value(j) \in 0 .. a.sh[2] - 1 THEN Column(a, Value(j)) ELSE Address
      ELSE IF matrix /\ j = Nullexpr /\ isint(i)
      THEN IF Value(i) \in 0 .. a.sh[1] - 1 THEN Row(a, Value(i)) ELSE Address
      ELSE IF addrs = No THEN Bad ELSE OrElse(choose(a, addrs), Bad)
===============================================================================
