------------------------------- MODULE Arrays -------------------------------
(***************************************************************************)
(* The representation of Nial arrays (absmach.c, absmach.h) and the        *)
(* operations every array routine is written with: creating, copying,      *)
(* exploding, imploding, comparing and ordering arrays.                    *)
(*                                                                         *)
(* An array is a record: its kind, its shape, its elements in row order    *)
(* and the flag "sorted" of its header.  An element of an array of kind    *)
(* atype is an array.  An element of a homogeneous array, and the one      *)
(* element of an atom, is a cell, the machine word [n |-> value]: an       *)
(* integer, a truth value, a real (a whole one), a character (its place in *)
(* the collating sequence) or the text of a phrase or fault (its place in  *)
(* the order tkncompare gives).                                            *)
(***************************************************************************)
EXTENDS Integers, Sequences, FiniteSets, SequencesExt

atype == 1
booltype == 2
inttype == 3
realtype == 4
chartype == 6
phrasetype == 7
faulttype == 8

\* Marks, in the place of an array, that the C code went wrong: it does not
\* return, frees what it still uses, or leaves the stack askew.
losttype == 9

homotype(k) == k \in booltype .. chartype
numeric(k)  == k \in booltype .. realtype

tally(x)   == Len(x.els)
valence(x) == Len(x.sh)
atomic(x)  == x.kind >= booltype /\ x.sh = <<>>

RECURSIVE Product(_)
Product(s) == IF s = <<>> THEN 1 ELSE Head(s) * Product(Tail(s))

\* An array without elements loses its kind; one that is a list is Null.
new_create_array(k, sh, els) ==
  [kind |-> IF Product(sh) = 0 THEN atype ELSE k,
   sh   |-> sh, els |-> els, sorted |-> FALSE]

Null      == new_create_array(atype, <<0>>, <<>>)
IsNull(x) == x.sh = <<0>>

Cell(n)       == [n |-> n]
Atom(k, n)    == new_create_array(k, <<>>, <<Cell(n)>>)
createint(n)  == Atom(inttype, n)
createbool(b) == Atom(booltype, IF b THEN 1 ELSE 0)
createreal(n) == Atom(realtype, n)
createchar(n) == Atom(chartype, n)
Value(x)      == x.els[1].n

\* The faults the code tells apart, and one for every other message.
Address  == Atom(faulttype, 1)
ArithFault == Atom(faulttype, 2)
DivFault == Atom(faulttype, 3)
Eoffault   == Atom(faulttype, 4)
Fill     == Atom(faulttype, 5)
Zenith     == Atom(faulttype, 6)
LogicFault == Atom(faulttype, 7)
Nullexpr   == Atom(faulttype, 8)
Nadir    == Atom(faulttype, 9)
Bad        == Atom(faulttype, 10)

Typicalphrase == Atom(phrasetype, 0)
Cipher == Atom(faulttype, 0)
Blank  == 0

\* A fault handed to an operation is its result, the four that are data excepted.
Passes(x) == x.kind = faulttype /\ x \notin {Nullexpr, Eoffault, Zenith, Nadir}

fetchasarray(x, i) ==
  IF atomic(x) THEN x
  ELSE IF x.kind = atype THEN x.els[i]
  ELSE new_create_array(x.kind, <<>>, <<x.els[i]>>)

Items(x) == [i \in 1 .. tally(x) |-> fetchasarray(x, i)]

ListOf(k, els) == new_create_array(k, <<Len(els)>>, els)
Ints(s)        == ListOf(inttype, [i \in DOMAIN s |-> Cell(s[i])])
Numbers(x)     == [i \in 1 .. tally(x) |-> x.els[i].n]
Set_sorted(z, b) == IF IsNull(z) THEN z ELSE [z EXCEPT !.sorted = b]

\* Are the elements of x all atoms of one homogeneous kind?
homotest(x) ==
  /\ x.kind = atype /\ tally(x) > 0
  /\ homotype(x.els[1].kind)
  /\ \A i \in 1 .. tally(x) : atomic(x.els[i]) /\ x.els[i].kind = x.els[1].kind

implode(x) ==
  new_create_array(x.els[1].kind, x.sh, [i \in 1 .. tally(x) |-> x.els[i].els[1]])
Imploded(x) == IF homotest(x) THEN implode(x) ELSE x

explode(x, sh) == new_create_array(atype, sh, Items(x))

\* mklist: what the stack's top entries, the oldest first, become.
mklist(s) ==
  IF s = <<>> THEN Null
  ELSE IF /\ homotype(s[1].kind)
          /\ \A i \in DOMAIN s : atomic(s[i]) /\ s[i].kind = s[1].kind
       THEN ListOf(s[1].kind, [i \in DOMAIN s |-> s[i].els[1]])
       ELSE ListOf(atype, s)

equalshape(x, y) == x.sh = y.sh

RECURSIVE equal(_, _)
equal(x, y) ==
  /\ x.kind = y.kind
  /\ x.sh = y.sh
  /\ IF x.kind = atype
     THEN \A i \in 1 .. tally(x) : equal(x.els[i], y.els[i])
     ELSE x.els = y.els

Bump(x) == IF homotype(x.kind) THEN explode(x, x.sh) ELSE x
Least(a, b) == IF a <= b THEN a ELSE b
FirstDiff(n, Same(_)) ==
  LET d == {i \in 1 .. n : ~Same(i)}
  IN  IF d = {} THEN 0 ELSE CHOOSE i \in d : \A j \in d : i <= j

\* up at "joinshape": the shapes decide.
UpShape(a, b) ==
  LET v == Least(valence(a), valence(b))
      i == FirstDiff(v, LAMBDA j : a.sh[j] = b.sh[j])
  IN  IF i = 0 THEN valence(a) <= valence(b) ELSE a.sh[i] < b.sh[i]

RECURSIVE up(_, _)
UpItems(a, b) ==
  LET t == Least(tally(a), tally(b))
      i == FirstDiff(t, LAMBDA j : IF a.kind = atype THEN equal(a.els[j], b.els[j])
                                                     ELSE a.els[j] = b.els[j])
  IN  IF i # 0
      THEN IF a.kind = atype THEN up(a.els[i], b.els[i]) ELSE a.els[i].n < b.els[i].n
      ELSE IF tally(a) # tally(b) THEN tally(a) < tally(b) ELSE UpShape(a, b)

UpMixed(a, b) ==
  LET p == Bump(a)   q == Bump(b)
  IN  CASE p.kind = atype /\ q.kind \in {phrasetype, faulttype} ->
             ~equal(p.els[1], q) /\ up(p.els[1], q)
        [] q.kind = atype /\ p.kind \in {phrasetype, faulttype} -> up(p, q.els[1])
        [] OTHER -> UpItems(p, q)

up(a, b) ==
  IF atomic(a) /\ atomic(b)
  THEN IF a.kind # b.kind THEN a.kind < b.kind ELSE Value(a) <= Value(b)
  ELSE IF tally(a) = 0 \/ tally(b) = 0
       THEN IF tally(a) = tally(b) THEN UpShape(a, b) ELSE tally(a) = 0
  ELSE IF a.kind = b.kind THEN UpItems(a, b)
  ELSE IF homotype(a.kind) /\ homotype(b.kind) THEN a.kind < b.kind
  ELSE UpMixed(a, b)

b_up(x, y)    == createbool(up(x, y))
b_equal(x, y) == createbool(equal(x, y))

\* A binary operation called with one array: iup, iappend, ihitch, ...
OfPair(F(_, _), z) ==
  IF Passes(z) THEN z
  ELSE IF tally(z) # 2 THEN Bad
  ELSE F(fetchasarray(z, 1), fetchasarray(z, 2))

\* Strengthening of kinds for arithmetic (utils.c).
Convert(x, k) == [x EXCEPT !.kind = k]
MaxKind(x) == LET ks == {x.els[i].kind : i \in 1 .. tally(x)}
              IN  CHOOSE k \in ks : \A j \in ks : j <= k
\* to_int and to_real read the first word of each element.
ToKind(x, k) == new_create_array(k, x.sh, [i \in 1 .. tally(x) |-> x.els[i].els[1]])
arithconvert(x) ==
  IF tally(x) > 0 /\ MaxKind(x) \in {inttype, realtype} THEN ToKind(x, MaxKind(x)) ELSE x
ConvertedKind(x) == IF tally(x) = 0 THEN x.kind ELSE MaxKind(x)
=============================================================================
