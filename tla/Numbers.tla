------------------------------- MODULE Numbers -------------------------------
(***************************************************************************)
(* Arithmetic (arith.c) and the conversions it uses (utils.c).  An integer *)
(* is a machine word of W bits; a real is a whole number without a bound,  *)
(* and the result of a real division is kept to its whole part.            *)
(***************************************************************************)
EXTENDS Select

CONSTANT W
ASSUME WordSize == W \in Nat /\ W >= 3

LARGEINT == 2 ^ (W - 1) - 1
SMALLINT == -(2 ^ (W - 1))
Wrap(n)  == ((n - SMALLINT) % (2 ^ W)) + SMALLINT

\* The tests for overflow look at the wrapped result.
AddOverflows(x, y) ==
  LET s == Wrap(x + y)
  IN  (x >= 0 /\ y > 0 /\ s < 0) \/ (x <= 0 /\ y < 0 /\ s > 0) \/ (x = SMALLINT /\ y = SMALLINT)
SubOverflows(x, y) ==
  LET s == Wrap(x - y)
  IN  (x >= 0 /\ y < 0 /\ s < 0) \/ (x <= 0 /\ y > 0 /\ s > 0)
Negated(x) == Wrap(IF x < 0 THEN -x ELSE x)
MultOverflows(x, y) ==
  LET z == Wrap(Negated(x) * Negated(y))
  IN  z < 0 \/ (z > 0 /\ (z < Negated(x) \/ z < Negated(y)))
Product2(x, y) ==
  LET z == Wrap(Negated(x) * Negated(y))
  IN  IF (x >= 0 /\ y >= 0) \/ (x < 0 /\ y < 0) THEN z ELSE Wrap(-z)

safeintadd(x, y)  == IF AddOverflows(x, y) THEN Bad ELSE createint(Wrap(x + y))
safeintsub(x, y)  == IF SubOverflows(x, y) THEN Bad ELSE createint(Wrap(x - y))
safeintmult(x, y) == IF MultOverflows(x, y) THEN Bad ELSE createint(Product2(x, y))
safeintabs(x)     == IF x = SMALLINT THEN Bad ELSE createint(Negated(x))
\* The test is of the integer, after the conversion: a real out of range became
\* the smallest integer, which passes.
safefloor(r) == createint(IF r \in SMALLINT .. LARGEINT THEN r ELSE SMALLINT)

nial_quotient(x, y) == IF y = 0 THEN 0 ELSE x \div y
nial_mod(x, y)      == IF y = 0 THEN x ELSE x % y
RealQuotient(x, y)  == IF y < 0 THEN (-x) \div (-y) ELSE x \div y

\* What an operation answers for two numbers of the kind both were made.
OfInts(op, x, y) ==
  CASE op = "plus"  -> safeintadd(x, y)
    [] op = "minus" -> safeintsub(x, y)
    [] op = "times" -> safeintmult(x, y)
    [] op = "quotient" -> IF y < 0 THEN Bad ELSE createint(nial_quotient(x, y))
    [] op = "mod"      -> IF y < 0 THEN Bad ELSE createint(nial_mod(x, y))
OfReals(op, x, y) ==
  CASE op = "plus"   -> createreal(x + y)
    [] op = "minus"  -> createreal(x - y)
    [] op = "times"  -> createreal(x * y)
    [] op = "divide" -> IF y = 0 THEN DivFault ELSE createreal(RealQuotient(x, y))
    [] OTHER -> ArithFault
\* Both are made the stronger kind; truth values are made integers.
CommonKind(op, x, y) ==
  IF ~numeric(x.kind) \/ ~numeric(y.kind) THEN atype
  ELSE IF op = "divide" \/ realtype \in {x.kind, y.kind} THEN realtype
  ELSE inttype
AsKind(x, k) == IF k = atype THEN x ELSE [x EXCEPT !.kind = k]
FaultOf(x, y, standard) ==
  CASE x.kind = faulttype /\ y.kind = faulttype -> IF x = y THEN x ELSE standard
    [] x.kind = faulttype /\ y.kind # faulttype -> x
    [] x.kind # faulttype /\ y.kind = faulttype -> y
    [] OTHER -> standard

\* nial_plus, nial_minus, nial_times, nial_divide, b_quotient, b_mod: the loops over
\* vectors are left for EACHBOTH as soon as one result is a fault.
RECURSIVE Arith(_, _, _)
Arith(op, x0, y0) ==
  LET k == CommonKind(op, x0, y0)
      x == AsKind(x0, k)   y == AsKind(y0, k)
      longer == IF atomic(x) THEN y ELSE x
      r == [i \in 1 .. tally(longer) |->
              LET a == x.els[IF atomic(x) THEN 1 ELSE i].n
                  b == y.els[IF atomic(y) THEN 1 ELSE i].n
              IN  IF k = inttype THEN OfInts(op, a, b) ELSE OfReals(op, a, b)]
      A(p, q) == Arith(op, p, q)
  IN  IF k # atype /\ atomic(x) /\ atomic(y) THEN r[1]
      ELSE IF k # atype /\ (atomic(x) \/ atomic(y) \/ equalshape(x, y))
      THEN IF \E i \in DOMAIN r : r[i].kind = faulttype THEN EachBoth(A, x, y)
           ELSE new_create_array(k, longer.sh, [i \in DOMAIN r |-> r[i].els[1]])
      ELSE IF atomic(x) /\ atomic(y) THEN FaultOf(x, y, ArithFault)
      ELSE EachBoth(A, x, y)
plus(x, y)     == Arith("plus", x, y)
minus(x, y)    == Arith("minus", x, y)
times(x, y)    == Arith("times", x, y)
divide(x, y)   == Arith("divide", x, y)
quotient(x, y) == Arith("quotient", x, y)
mod(x, y)      == Arith("mod", x, y)

\* testfaults: the one fault all faults of a simple array are, if no character
\* or phrase stands among them.
testfaults(x, standard) ==
  LET fs == {x.els[i] : i \in {j \in 1 .. tally(x) : x.els[j].kind = faulttype}}
  IN  IF (\E i \in 1 .. tally(x) : x.els[i].kind \in {chartype, phrasetype}) \/ Cardinality(fs) # 1
      THEN standard ELSE CHOOSE f \in fs : TRUE
testbinfaults(x, standard) ==
  LET a == fetchasarray(x, 1)   b == fetchasarray(x, 2)
  IN  CASE numeric(a.kind) -> b
        [] a.kind = faulttype /\ (numeric(b.kind) \/ a = b) -> a
        [] OTHER -> standard

\* isum, iproduct.  A list of truth values that still has kind atype is
\* converted over and over: the operation does not return.
Loops == Atom(losttype, 1)
SafeFold(Op(_, _), unit, s) ==
  FoldLeft(LAMBDA r, n : IF r.kind = faulttype THEN r ELSE Op(Value(r), n), createint(unit), s)
RECURSIVE Reduction(_, _)
Reduction(op, x) ==
  LET unit == IF op = "plus" THEN 0 ELSE 1
      RealOp(a, b) == IF op = "plus" THEN a + b ELSE a * b
      IntOp(a, b) == OfInts(op, a, b)
      R(y) == Reduction(op, y)
  IN  CASE x.kind \in {booltype, inttype} -> SafeFold(IntOp, unit, Numbers(x))
        [] x.kind = realtype -> createreal(FoldLeft(RealOp, unit, Numbers(x)))
        [] x.kind \in {chartype, phrasetype} -> ArithFault
        [] x.kind = faulttype -> x
        [] x.kind = atype /\ tally(x) = 0 -> createint(unit)
        [] x.kind = atype /\ tally(x) > 0 /\ simple(x) ->
             IF ConvertedKind(x) = booltype THEN Loops
             ELSE IF ConvertedKind(x) \in {inttype, realtype} THEN R(arithconvert(x))
             ELSE IF ConvertedKind(x) = faulttype THEN testfaults(x, ArithFault)
             ELSE ArithFault
        [] x.kind = atype /\ ~simple(x) /\ tally(x) = 2 -> Arith(op, x.els[1], x.els[2])
        [] OTHER -> Each(R, pack(x))
sum(x)     == Reduction("plus", x)
product(x) == Reduction("times", x)

boolstoints(x) == new_create_array(inttype, x.sh, x.els)

\* iabs.  After a smallest integer among others the loop is left, not the
\* operation: the array given up is pushed and the argument freed again.
Corrupts == Atom(losttype, 2)
RECURSIVE abs(_)
abs(x) ==
  CASE x.kind = booltype -> boolstoints(x)
    [] x.kind = inttype /\ valence(x) = 0 -> safeintabs(Value(x))
    [] x.kind = inttype /\ valence(x) > 0 ->
         IF \E i \in 1 .. tally(x) : x.els[i].n = SMALLINT THEN Corrupts
         ELSE [x EXCEPT !.els = [i \in DOMAIN @ |-> Cell(Negated(@[i].n))], !.sorted = FALSE]
    [] x.kind = realtype -> [x EXCEPT !.els = [i \in DOMAIN @ |-> Cell(Magnitude(@[i].n))], !.sorted = FALSE]
    [] x.kind = chartype -> IF atomic(x) THEN ArithFault ELSE Each(abs, x)
    [] x.kind = phrasetype -> ArithFault
    [] x.kind = faulttype -> x
    [] OTHER -> Each(abs, x)
RECURSIVE floor(_)
floor(x) ==
  CASE x.kind = booltype -> boolstoints(x)
    [] x.kind = inttype -> x
    [] x.kind = realtype ->
         new_create_array(inttype, x.sh, [i \in DOMAIN x.els |-> safefloor(x.els[i].n).els[1]])
    [] x.kind = chartype -> IF atomic(x) THEN ArithFault ELSE Each(floor, x)
    [] x.kind = phrasetype -> ArithFault
    [] x.kind = faulttype -> x
    [] OTHER -> Each(floor, x)

\* The cells of an array of kind k converted, and every other atom a fault.
RECURSIVE CellsConverted(_, _, _)
CellsConverted(x, k, to) ==
  LET C(y) == CellsConverted(y, k, to)
  IN  IF x.kind = k THEN new_create_array(to, x.sh, x.els)
      ELSE IF ~atomic(x) THEN Each(C, x)
      ELSE IF x.kind = faulttype THEN x ELSE Bad
char(x)    == CellsConverted(x, inttype, chartype)
charrep(x) == CellsConverted(x, chartype, inttype)

RECURSIVE opposite(_)
opposite(x) == IF atomic(x) THEN OfPair(minus, pair(createint(0), x)) ELSE Each(opposite, x)
RECURSIVE reciprocal(_)
reciprocal(x) == IF atomic(x) THEN OfPair(divide, pair(createint(1), x)) ELSE Each(reciprocal, x)
ceiling(x) == opposite(floor(opposite(x)))

\* ipower of two atoms.
IntPower(b, e) ==
  FoldLeft(LAMBDA r, i : LET p == safeintmult(b, r.p)
                         IN  IF p = Bad THEN [r EXCEPT !.over = TRUE] ELSE [r EXCEPT !.p = Value(p)],
           [p |-> 1, over |-> FALSE], [i \in 1 .. Magnitude(e) |-> i])
RealPower(b, e) ==
  IF e = 0 THEN createreal(1)
  ELSE IF e < 0 THEN IF b = 0 THEN Bad ELSE createreal(RealQuotient(1, b ^ (-e))) ELSE createreal(b ^ e)
PowerOf(k, b, e) ==
  CASE k = booltype -> createint(IF e = 0 THEN 1 ELSE b)
    [] k = inttype ->
         LET r == IntPower(b, e)
         IN  IF r.over THEN Bad
             ELSE IF e >= 0 THEN createint(r.p)
             ELSE IF r.p = 0 THEN DivFault ELSE createreal(RealQuotient(1, r.p))
    \* A negative base goes through the integer power, and is negated once more.
    [] k = realtype ->
         IF b = 0 THEN createreal(IF e = 0 THEN 1 ELSE 0)
         ELSE IF b < 0 /\ e > 0 /\ e % 2 = 1 THEN createreal(-(b ^ e))
         ELSE RealPower(b, e)
    [] OTHER -> ArithFault
RECURSIVE ipower(_)
power(x, y) == ipower(pair(x, y))
ipower(x) ==
  LET a == fetchasarray(x, 1)   b == fetchasarray(x, 2)
      P(u, v) == ipower(pair(u, v))
  IN  IF x.kind = faulttype THEN x
      ELSE IF tally(x) # 2 THEN Bad
      ELSE IF x.kind # atype THEN PowerOf(x.kind, Value(a), Value(b))
      ELSE IF ~simple(x) THEN EachBoth(P, a, b)
      ELSE IF b.kind = inttype
      THEN (CASE a.kind = booltype -> createint(IF Value(b) = 0 THEN 1 ELSE Value(a))
              [] a.kind = inttype  -> Bad
              [] a.kind = realtype -> RealPower(Value(a), Value(b))
              [] a.kind = faulttype -> a
              [] OTHER -> ArithFault)
      ELSE IF MaxKind(x) \in {inttype, realtype} THEN PowerOf(MaxKind(x), Value(a), Value(b))
      ELSE IF MaxKind(x) = faulttype THEN testbinfaults(x, ArithFault)
      ELSE ArithFault

\* innerproduct of vectors and matrices; a scalar is repeated.
Rows(x)    == IF valence(x) = 2 THEN x.sh[1] ELSE 1
Numeric(x) == numeric(x.kind) \/ (x.kind = atype /\ \A i \in 1 .. tally(x) : atomic(x.els[i]) /\ numeric(x.els[i].kind))
innerproduct(a, b) ==
  LET n  == IF valence(a) = 0 THEN 1 ELSE Last(a.sh)
      bn == IF valence(b) = 0 THEN 1 ELSE b.sh[1]
      p  == IF valence(b) = 2 THEN b.sh[2] ELSE 1
      steps == IF valence(a) = 0 THEN bn ELSE n
      A(i, k) == Value(fetchasarray(a, IF valence(a) = 0 THEN 1 ELSE n * i + k + 1))
      B(k, j) == Value(fetchasarray(b, IF valence(b) = 0 THEN 1 ELSE p * k + j + 1))
      At(i, j) == FoldLeft(LAMBDA s, k : s + A(i, k - 1) * B(k - 1, j), 0, [k \in 1 .. steps |-> k])
      sh == (IF valence(a) = 2 THEN <<a.sh[1]>> ELSE <<>>) \o (IF valence(b) = 2 THEN <<b.sh[2]>> ELSE <<>>)
  IN  IF valence(a) > 2 \/ valence(b) > 2 \/ ~Numeric(a) \/ ~Numeric(b) THEN Bad
      ELSE IF valence(a) # 0 /\ valence(b) # 0 /\ n # bn THEN Bad
      ELSE new_create_array(realtype, sh,
             [q \in 1 .. Product(sh) |-> Cell(At((q - 1) \div p, (q - 1) % p))])
==============================================================================
