----------------------------- MODULE Comparisons -----------------------------
(***************************************************************************)
(* The comparisons (compare.c), the logical operations (logicops.c) and    *)
(* the operations on the bits of words (bitops.c).  They take the items of *)
(* their arguments in pairs, down to the atoms.                            *)
(***************************************************************************)
EXTENDS Numbers, Bitwise

typeno(k) == IF numeric(k) THEN 0 ELSE k

\* <= and < of two atoms.
LteAtoms(x, y) ==
  IF x.kind = y.kind /\ x.kind # faulttype THEN Value(x) <= Value(y)
  ELSE IF x = Nadir \/ y = Zenith \/ x = y THEN TRUE
  ELSE IF x = Zenith \/ y = Nadir THEN FALSE
  ELSE IF x.kind = y.kind THEN Value(x) <= Value(y)
  ELSE typeno(x.kind) < typeno(y.kind)
LtAtoms(x, y) ==
  IF x.kind = y.kind /\ x.kind # faulttype THEN Value(x) < Value(y)
  ELSE IF x = Nadir \/ y = Zenith THEN TRUE
  ELSE IF x = Zenith \/ y = Nadir THEN FALSE
  ELSE IF x.kind = y.kind THEN Value(x) < Value(y)
  ELSE typeno(x.kind) < typeno(y.kind)
MatchAtoms(x, y) == x.kind = y.kind /\ Value(x) = Value(y)
MaxAtoms(x, y) ==
  IF x.kind = y.kind /\ homotype(x.kind) THEN IF Value(x) >= Value(y) THEN x ELSE y
  ELSE IF x = Nadir /\ y.kind # faulttype THEN y
  ELSE IF y = Nadir /\ x.kind # faulttype THEN x
  ELSE IF x.kind = phrasetype /\ y.kind = phrasetype THEN IF LtAtoms(x, y) THEN y ELSE x
  ELSE FaultOf(x, y, Zenith)
MinAtoms(x, y) ==
  IF x.kind = y.kind /\ homotype(x.kind) THEN IF Value(x) <= Value(y) THEN x ELSE y
  ELSE IF x = Zenith /\ y.kind # faulttype THEN y
  ELSE IF y = Zenith /\ x.kind # faulttype THEN x
  ELSE IF x.kind = phrasetype /\ y.kind = phrasetype THEN IF LtAtoms(x, y) THEN x ELSE y
  ELSE FaultOf(x, y, Nadir)
LogicAtoms(op, x, y) ==
  IF x.kind = booltype /\ y.kind = booltype
  THEN createbool(CASE op = "and" -> Value(x) = 1 /\ Value(y) = 1
                    [] op = "or"  -> Value(x) = 1 \/ Value(y) = 1
                    [] op = "xor" -> Value(x) # Value(y))
  ELSE FaultOf(x, y, LogicFault)

OfAtoms(op, x, y) ==
  CASE op = "lte"   -> createbool(LteAtoms(x, y))
    [] op = "lt"    -> createbool(LtAtoms(x, y))
    [] op \in {"mate", "match"} -> createbool(MatchAtoms(x, y))
    [] op = "max"   -> MaxAtoms(x, y)
    [] op = "min"   -> MinAtoms(x, y)
    [] OTHER        -> LogicAtoms(op, x, y)
\* The logical operations and match do not convert numbers.
Converts(op) == op \in {"lte", "lt", "mate", "max", "min"}
Joined(op, x, y) ==
  IF Converts(op) /\ numeric(x.kind) /\ numeric(y.kind)
  THEN IF x.kind > y.kind THEN x.kind ELSE y.kind ELSE atype
Fast(op, k) == IF op \in {"and", "or", "xor"} THEN k = booltype ELSE homotype(k)

RECURSIVE Pervade(_, _, _)
Pervade(op, x0, y0) ==
  LET k == Joined(op, x0, y0)
      x == AsKind(x0, k)   y == AsKind(y0, k)
      longer == IF atomic(x) THEN y ELSE x
      P(p, q) == Pervade(op, p, q)
      At(i) == OfAtoms(op, IF atomic(x) THEN x ELSE fetchasarray(x, i),
                           IF atomic(y) THEN y ELSE fetchasarray(y, i))
  IN  IF atomic(x) /\ atomic(y) THEN OfAtoms(op, x, y)
      ELSE IF x.kind = y.kind /\ Fast(op, x.kind) /\ (atomic(x) \/ atomic(y) \/ equalshape(x, y))
      THEN new_create_array(At(1).kind, longer.sh, [i \in 1 .. tally(longer) |-> At(i).els[1]])
      ELSE EachBoth(P, x, y)
lte(x, y)   == Pervade("lte", x, y)
lt(x, y)    == Pervade("lt", x, y)
gte(x, y)   == lte(y, x)
gt(x, y)    == lt(y, x)
mate(x, y)  == Pervade("mate", x, y)
match(x, y) == Pervade("match", x, y)
max(x, y)   == Pervade("max", x, y)
min(x, y)   == Pervade("min", x, y)
and(x, y)   == Pervade("and", x, y)
or(x, y)    == Pervade("or", x, y)
xor(x, y)   == Pervade("xor", x, y)
igte(z) == IF z.kind = faulttype THEN z ELSE IF tally(z) # 2 THEN Bad ELSE OfPair(lte, reverse(z))
igt(z)  == IF z.kind = faulttype THEN z ELSE IF tally(z) # 2 THEN Bad ELSE OfPair(lt, reverse(z))

allEqual(z) ==
  createbool(\A i \in 2 .. tally(z) : equal(fetchasarray(z, 1), fetchasarray(z, i)))

\* iand, ior, ixor, imax, imin of one array.
Unit(op) == CASE op = "and" -> createbool(TRUE)
              [] op \in {"or", "xor"} -> createbool(FALSE)
              [] op = "max" -> Nadir
              [] op = "min" -> Zenith
Standard(op) == CASE op = "max" -> Zenith [] op = "min" -> Nadir [] OTHER -> LogicFault
Extreme(op) == op \in {"max", "min"}
RECURSIVE Gathered(_, _)
Gathered(op, x) ==
  LET G(y) == Gathered(op, y)
      Two(a, b) == Pervade(op, a, b)
      b == IF op = "max" THEN "or" ELSE IF op = "min" THEN "and" ELSE op
      All(o) == FoldLeft(LAMBDA r, i : Pervade(o, r, fetchasarray(x, i + 1)), fetchasarray(x, 1),
                         [i \in 1 .. tally(x) - 1 |-> i])
  IN  CASE x.kind = booltype -> All(b)
        [] homotype(x.kind) /\ x.kind # booltype -> IF Extreme(op) THEN All(op) ELSE LogicFault
        [] x.kind = phrasetype -> Standard(op)
        [] x.kind = faulttype -> x
        [] x.kind = atype /\ tally(x) = 0 -> Unit(op)
        [] x.kind = atype /\ tally(x) > 0 /\ simple(x) ->
             IF Extreme(op) THEN All(op) ELSE testfaults(x, LogicFault)
        [] x.kind = atype /\ ~simple(x) /\ tally(x) = 2 -> Two(x.els[1], x.els[2])
        [] OTHER -> Each(G, pack(x))

RECURSIVE not(_)
not(x) ==
  CASE x.kind = booltype -> [x EXCEPT !.els = [i \in DOMAIN @ |-> Cell(1 - @[i].n)], !.sorted = FALSE]
    [] homotype(x.kind) /\ x.kind # booltype -> IF atomic(x) THEN LogicFault ELSE Each(not, x)
    [] x.kind = phrasetype -> LogicFault
    [] x.kind = faulttype -> x
    [] OTHER -> Each(not, x)
\* The running exclusive or of truth values.
acc_xor(x) ==
  IF x.kind # booltype THEN Bad
  ELSE [x EXCEPT !.els = [i \in DOMAIN @ |->
          Cell(Cardinality({j \in 1 .. i : x.els[j].n = 1}) % 2)], !.sorted = FALSE]

\* Bits of words, those of characters left out: integers in two's complement, truth values one a bit from the
\* high end of a word, so that a word with the truth value o first is below 2^(W-1).
ToWord(n)   == n % (2 ^ W)
Bits(op, a, b) ==
  LET both == a & b
  IN  CASE op = "and" -> both [] op = "or" -> a + b - both [] op = "xor" -> a + b - 2 * both
IntBits(op, m, n) == Wrap(Bits(op, ToWord(m), ToWord(n)))
\* A single integer is spread over the other argument.  A single truth value on
\* the left is; truth values on the right are taken as they stand in their first word.
BoolMask(left, mask, i) ==
  IF left THEN mask.els[1].n
  ELSE LET j == ((i - 1) % W) + 1 IN IF j <= tally(mask) THEN mask.els[j].n ELSE 0
bitops_all(op, a, b) ==
  LET one  == tally(a) # tally(b)
      left == tally(a) = 1
      long == IF left THEN b ELSE a
      mask == IF left THEN a ELSE b
      At(i) == IF ~one
               THEN IF a.kind = booltype THEN Bits(op, a.els[i].n, b.els[i].n)
                    ELSE IntBits(op, a.els[i].n, b.els[i].n)
               ELSE IF a.kind = booltype THEN Bits(op, BoolMask(left, mask, i), long.els[i].n)
               ELSE IntBits(op, mask.els[1].n, long.els[i].n)
  IN  new_create_array(a.kind, long.sh, [i \in 1 .. tally(long) |-> Cell(At(i))])
\* The test of the tallies reads the header of block 1: junk is what it finds.
ibit(op, x, junk) ==
  LET a == fetchasarray(x, 1)   b == fetchasarray(x, 2)
  IN  IF tally(x) # 2 THEN Bad
      ELSE IF x.kind \in {inttype, booltype} THEN bitops_all(op, a, b)
      ELSE IF x.kind # atype THEN Bad
      ELSE IF a.kind # b.kind \/ (junk /\ tally(b) > 1 /\ tally(a) # tally(b)) THEN Bad
      ELSE IF a.kind \in {inttype, booltype} THEN bitops_all(op, a, b) ELSE Bad
==============================================================================
