------------------------------- MODULE Algebra -------------------------------
(***************************************************************************)
(* The array engine at work: arrays on the Nial stack, and the calls of    *)
(* basic operations and transformers the evaluator makes on them, in any   *)
(* order.  Arrays are values here; who else holds them is the subject of   *)
(* ArrayStore.                                                             *)
(***************************************************************************)
EXTENDS Transformers

CONSTANTS Literals,   \* the arrays a program may write down
          Ones,       \* the operations of one argument it calls
          Twos,       \* the operations of two arguments it calls
          Under,      \* the operations it applies transformers to
          MaxCalls,   \* bound on the calls of one expression
          Again,      \* bound: the operations called after the first
          MaxSize     \* bound on the size of an argument of a call

VARIABLES stack,      \* the Nial stack, the top last
          call,       \* the last call: operation, arguments, result
          calls       \* the calls so far

vars == <<stack, call, calls>>

RECURSIVE Size(_)
Size(x) == IF x.kind = atype
           THEN FoldLeft(LAMBDA n, i : n + Size(x.els[i]), 1, [i \in DOMAIN x.els |-> i])
           ELSE 1 + tally(x)

NoCall == [op |-> "", f |-> "", args |-> <<>>, res |-> Null]

Init == stack = <<>> /\ call = NoCall /\ calls = 0

top    == Last(stack)
below  == stack[Len(stack) - 1]
Room(f) == /\ calls = 0 \/ (calls < MaxCalls /\ f \in Again)
           /\ \A i \in DOMAIN stack : Size(stack[i]) <= MaxSize

\* An operand goes on top; one found below a result was pushed before the call.
Push ==
  /\ Len(stack) < 2
  /\ \E x \in Literals : stack' \in {<<x>> \o stack, stack \o <<x>>}
  /\ call' = NoCall
  /\ UNCHANGED calls

\* The result of a call takes the place of its n arguments.  A call the code
\* does not come back from is not made.
RECURSIVE Whole(_)
Whole(x) == x.kind # losttype /\ (x.kind = atype => \A i \in DOMAIN x.els : Whole(x.els[i]))
Called(op, f, n, res) ==
  /\ Whole(res)
  /\ stack' = Append(SubSeq(stack, 1, Len(stack) - n), res)
  /\ call' = [op |-> op, f |-> f, args |-> SubSeq(stack, Len(stack) - n + 1, Len(stack)), res |-> res]
  /\ calls' = calls + 1

Apply1 == /\ Len(stack) = 1
          /\ \E f \in Ones : Room(f) /\ Called("apply", f, 1, Apply(f, <<top>>))
Apply2 == /\ Len(stack) = 2
          /\ \E f \in Twos : Room(f) /\ Called("binary", f, 2, Apply(f, <<below, top>>))

\* sort and grade take any comparison.
Comparing == {"up", "lte", "gte", "lt"}
Answers(f, x) ==
  [i \in 1 .. tally(x) |-> [j \in 1 .. tally(x) |-> Apply(f, <<fetchasarray(x, i), fetchasarray(x, j)>>)]]
Sort ==
  /\ Len(stack) = 1
  /\ \E f \in Comparing, gradesw \in BOOLEAN :
       /\ Room(f)
       /\ Called(IF gradesw THEN "grade" ELSE "sort", f, 1, sort(f, Answers(f, top), top, gradesw))

\* A transformer of one operation, applied to one array.
Transformed(t, f, x) ==
  CASE t = "each"    -> ieach(f, x)
    [] t = "eachall" -> ieachall(f, x)
    [] t = "leaf"    -> leaf(f, x)
    [] t = "twig"    -> twig(f, x)
    [] t = "reduce"  -> ireduce(f, x)
    [] t = "accumulate" -> iaccumulate(f, x)
    [] t = "iterate" -> iterate(f, x)
OneTransformers == {"each", "eachall", "leaf", "twig", "reduce", "accumulate", "iterate"}
Transform1 ==
  /\ Len(stack) = 1
  /\ \E t \in OneTransformers, f \in Under : Room(f) /\ Called(t, f, 1, Transformed(t, f, top))

\* A transformer that looks for a pair, applied to the top two arrays.
TransformedPair(t, f, z) ==
  CASE t = "eachboth"  -> IF HasTwo(f) THEN ieachboth(f, z) ELSE eachboth(f, z)
    [] t = "eachleft"  -> IF HasTwo(f) THEN ieachleft(f, z) ELSE eachleft(f, z)
    [] t = "eachright" -> IF HasTwo(f) THEN ieachright(f, z) ELSE eachright(f, z)
    [] t = "outer"     -> iouter(f, z)
    [] t = "converse"  -> converse(f, z)
    [] t = "fold"      -> fold(f, z)
    [] t = "rank"      -> irank(f, z)
    [] t = "bykey"     -> bykey(f, z)
PairTransformers == {"eachboth", "eachleft", "eachright", "outer", "converse", "fold", "rank", "bykey"}
Transform2 ==
  /\ Len(stack) = 2
  /\ \E t \in PairTransformers, f \in Under :
       Room(f) /\ Called(t, f, 2, TransformedPair(t, f, pair(below, top)))

\* The recursive transformers, with the atlases their users give them.
Recursive1(t, f, x) ==
  CASE t = "fork"   -> fork(<<"atomic", "pass", "simple", f, "reverse">>, x)
    [] t = "recur"  -> recur("empty", f, "first", "hitch", "rest", x)
    [] t = "across" -> across(f, "pass", "hitch", x)
    [] t = "down"   -> down("atomic", f, "pass", "pass", x)
    [] t = "team"   -> team(<<f, "reverse">>, x)
Recursives == {"fork", "recur", "across", "down", "team"}
Recur ==
  /\ Len(stack) = 1
  /\ \E t \in Recursives, f \in Under : Room(f) /\ Called(t, f, 1, Recursive1(t, f, top))

\* A|[i,j] with a whole axis where the address says ?noexpr.
Slice ==
  /\ Room("slice") /\ Len(stack) = 2
  /\ valence(below) = 2 /\ tally(top) = 2
  /\ Called("slice", "", 2, select_slice(below, top))

\* FUSE, and the operations on the bits of words, read a header by mistake: what
\* stands there is not of the program's making.
Fuse == /\ Room("fuse") /\ Len(stack) = 2
        /\ \E junk \in BOOLEAN : Called("binary", "fuse", 2, fuse(below, top, junk))
BitsDefined(x, y) == chartype \notin {x.kind, y.kind}
BitOperation == /\ Room("bits") /\ Len(stack) = 2
                /\ BitsDefined(below, top)
                /\ \E op \in {"and", "or", "xor"}, junk \in BOOLEAN :
                     Called("bits", op, 2, ibit(op, pair(below, top), junk))
InnerProduct == /\ Room("innerproduct") /\ Len(stack) = 2
                /\ Called("binary", "innerproduct", 2, innerproduct(below, top))

Finish == /\ stack # <<>>
          /\ stack' = <<>> /\ call' = NoCall /\ calls' = 0

Next ==
  \/ Push
  \/ Apply1 \/ Apply2
  \/ Sort
  \/ Transform1 \/ Transform2 \/ Recur
  \/ Slice \/ Fuse \/ BitOperation \/ InnerProduct
  \/ Finish

Spec == Init /\ [][Next]_vars
--------------------------------------------------------------------------------
\* Every value is an array: as many elements as its shape says, cells in a
\* homogeneous array, and an atom or an array without elements is no array of atoms.
RECURSIVE IsArray(_)
IsArray(x) ==
  /\ x.sh \in Seq(Nat) /\ Len(x.els) = Product(x.sh)
  /\ x.kind \in {atype, booltype, inttype, realtype, chartype, phrasetype, faulttype}
  /\ tally(x) = 0 => x.kind = atype
  /\ x.kind \in {phrasetype, faulttype} => x.sh = <<>>
  /\ IF x.kind = atype THEN \A i \in DOMAIN x.els : IsArray(x.els[i])
     ELSE \A i \in DOMAIN x.els : x.els[i].n \in Int
TypeOK == \A i \in DOMAIN stack : IsArray(stack[i])

\* The flag the sorted searches and merges go by is only set on arrays whose
\* items are in order, whatever operations an array went through.
RECURSIVE Honest(_)
Honest(x) == /\ x.sorted => InOrder(x)
             /\ x.kind = atype => \A i \in DOMAIN x.els : Honest(x.els[i])
SortedHonest == \A i \in DOMAIN stack : Honest(stack[i])

\* An array of atoms of one kind is homogeneous, and a single never holds an
\* atom: the kinds decide which loop an operation takes and what equal answers.
\* cut, cutall, fuse, OUTER, RANK and slices make arrays that are not so; no
\* other operation does, from arrays that are.
RECURSIVE Canonical(_)
Canonical(x) == x.kind = atype => /\ ~homotest(x)
                                  /\ x.sh = <<>> => ~atomic(x.els[1])
                                  /\ \A i \in DOMAIN x.els : Canonical(x.els[i])
Loose == call.op \in {"outer", "rank", "slice"} \/ call.f \in {"cut", "cutall", "fuse"}
ResultCanonical ==
  (~Loose /\ \A i \in DOMAIN call.args : Canonical(call.args[i])) => Canonical(call.res)

\* The two facts about its arguments that an operation relies on hold of every
\* result: the flag of order, and the representation.
WellMade == SortedHonest /\ ResultCanonical

Was(op, f) == call.op = op /\ call.f = f
x1 == call.args[1]
x2 == call.args[2]
Plain(x) == [x EXCEPT !.sorted = FALSE]
SameItems(x, y) == equal(list(x), list(y))

\* The binary searches of an array known to be sorted find what the linear search
\* finds: the first place for seek, find and in, every place for findall.
SearchAgrees ==
  /\ Was("binary", "findall") => equal(call.res, findall(x1, Plain(x2)))
  /\ Was("binary", "seek")    => equal(call.res, nseek(x1, Plain(x2)))
  /\ Was("binary", "find")    => equal(call.res, find(x1, Plain(x2)))
  /\ Was("binary", "in")      => equal(call.res, in(x1, Plain(x2)))

\* The three ways of taking items away, by the sorted merge, by the merge of the
\* grades, and by searching the list, leave the same items in the same order.
ExceptAgrees ==
  Was("binary", "except") =>
    LET kept == oldexcept(x1, x2)
    IN  /\ equal(call.res, kept)
        /\ equal(exceptMerge(x1, x2), kept)
        /\ equal(sexcept(SortUp(x1), SortUp(x2)), SortUp(kept))

\* Searching and excluding do not depend on whether an array is known to be sorted.
Searches == SearchAgrees /\ ExceptAgrees

\* up orders arrays: of any two one is up the other, both only when they are
\* equal, and it is transitive with every array the program may write down.
UpOrders ==
  Was("binary", "up") =>
    /\ up(x1, x2) \/ up(x2, x1)
    /\ (up(x1, x2) /\ up(x2, x1)) => equal(x1, x2)
    /\ \A z \in Literals : (up(x1, x2) /\ up(x2, z)) => up(x1, z)

\* SORT of up is a permutation of the items in order, GRADE gives the addresses
\* it takes them from, and items that are equal keep their order.
Sorts ==
  (call.op = "grade" /\ call.f = "up" /\ valence(x1) > 0) =>
    LET z == SortUp(x1)
        at == [i \in 1 .. tally(x1) |-> PlaceOf(x1, fetchasarray(call.res, i))]
    IN  /\ InOrder(z)
        /\ {at[i] : i \in DOMAIN at} = 1 .. tally(x1)
        /\ \A i \in DOMAIN at : equal(fetchasarray(z, i), fetchasarray(x1, at[i]))
        /\ \A i, j \in DOMAIN at :
             (i < j /\ equal(fetchasarray(z, i), fetchasarray(z, j))) => at[i] < at[j]

\* cull keeps the first of equal items, in the order they stand in, and diverse
\* says whether cull would drop one.
Culls ==
  LET kept(x) == SelectSeq([i \in 1 .. tally(x) |-> i],
                   LAMBDA i : \A j \in 1 .. i - 1 : ~equal(fetchasarray(x, i), fetchasarray(x, j)))
      n(x) == Len(kept(x))
  IN  /\ Was("apply", "cull") =>
           equal(call.res, mklist([m \in 1 .. n(x1) |-> fetchasarray(x1, kept(x1)[m])]))
      /\ Was("apply", "diverse") => (Value(call.res) = 1 <=> n(x1) = tally(x1))

\* Sorting, culling and the comparison they use fit together.
Orders == UpOrders /\ Sorts /\ Culls

\* A transformer that calls a basic operation directly, by its property letter,
\* answers what it would for a defined operation with the same body.  (Among
\* faults, characters and phrases the routine of two arguments and the one of one
\* argument of a reductive operation do not answer the same fault.)
RECURSIVE Numerical(_)
Numerical(x) == IF x.kind = atype THEN \A i \in DOMAIN x.els : Numerical(x.els[i]) ELSE numeric(x.kind)
Shortcuts ==
  (prop(call.f) = "R" => \A i \in DOMAIN call.args : Numerical(call.args[i])) =>
  LET f == call.f
      z == IF Len(call.args) = 2 THEN pair(x1, x2) ELSE x1
  IN  /\ call.op = "each"      => equal(call.res, each(f, z))
      /\ call.op = "eachboth"  => equal(call.res, eachboth(f, z))
      /\ call.op = "eachleft"  => equal(call.res, eachleft(f, z))
      /\ call.op = "eachright" => equal(call.res, eachright(f, z))
      /\ call.op = "eachall"   => equal(call.res, each(f, pack(z)))
      /\ call.op = "outer"     => SameItems(call.res, outer(f, z))

\* What find answers is where pick finds it; choosing by all addresses gives the
\* array; and a row or column picked as a slice has the items choose picks.
Selections ==
  /\ Was("binary", "find") => \/ Value(in(x1, x2)) = 0
                              \/ equal(b_pick(call.res, x2), x1)
  /\ Was("apply", "grid") => equal(choose(x1, call.res), x1)
  /\ call.op = "slice" => LET addrs == slice_addrs(x1, x2)
                          IN  addrs # No /\ choose(x1, addrs) # No =>
                                SameItems(call.res, choose(x1, addrs))

\* Moving axes about: transposing twice is nothing, an array is the mix of its
\* raised slices, and pack twice is nothing.
Alike(x) == LET shapes == {fetchasarray(x, i).sh : i \in 1 .. tally(x)}
            IN  Cardinality(shapes) = 1 /\ \A sh \in shapes : sh # <<>> /\ Product(sh) > 0
Axes ==
  /\ Was("apply", "transpose") => equal(transpose(call.res), x1)
  /\ (Was("binary", "fuse") /\ valence(x2) = 2 /\ equal(x1, Ints(<<1, 0>>))) =>
       equal(call.res, transpose(x2))
  /\ (Was("binary", "raise") /\ call.res # Bad /\ tally(x2) > 0) => equal(mix(call.res), x2)
  /\ (Was("apply", "pack") /\ valence(x1) > 0 /\ tally(x1) > 0 /\ Alike(x1)) => equal(pack(call.res), x1)

\* Taking a list apart and linking the parts gives the list: what take and drop
\* leave, and the pieces of cutall.
Parts ==
  /\ (Was("binary", "take") /\ isint(x1) /\ valence(x2) = 1 /\ Value(x1) \in 0 .. tally(x2)) =>
       equal(link(pair(call.res, drop(x1, x2))), x2)
  /\ (Was("binary", "cutall") /\ ~BadFlags(x1, x2)) => equal(link(call.res), list(x2))

\* Integer addition and subtraction answer the sum or difference when a word can
\* hold it, and a fault when it cannot.
Exact ==
  LET True(n) == IF n \in SMALLINT .. LARGEINT THEN createint(n) ELSE Bad
  IN  (call.op = "binary" /\ isint(x1) /\ isint(x2)) =>
        /\ call.f = "plus"  => call.res = True(Value(x1) + Value(x2))
        /\ call.f = "minus" => call.res = True(Value(x1) - Value(x2))

\* The recursive transformers: DOWN with its two stacks is LEAF, RECUR by first
\* and rest rebuilds the list, ACROSS the items.
Recursions ==
  /\ call.op = "down"  => equal(call.res, leaf(call.f, x1))
  /\ call.op = "recur" => LET end == Apply(call.f, <<IF tally(x1) = 0 THEN x1 ELSE Null>>)
                          IN  SameItems(call.res, link(pair(list(x1), list(end))))

\* What takes an array apart and what puts it together are each other's inverse.
Structure == Selections /\ Axes /\ Parts /\ Recursions

\* The short ways answer what the long ones would: transformers of basic
\* operations, and additions in a machine word.
Agreement == Shortcuts /\ Exact
================================================================================
