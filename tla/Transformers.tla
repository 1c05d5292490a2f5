----------------------------- MODULE Transformers -----------------------------
(***************************************************************************)
(* The transformers (trs.c).  f is the name of the operation a transformer *)
(* is applied to, a routine from one array to one array; a basic operation *)
(* may have a routine of two arguments besides, and its property letter    *)
(* lets the transformers call it directly: R for reductive pervasive, C for*)
(* pervasive with two arguments, B for binary, P for pervasive.            *)
(***************************************************************************)
EXTENDS Basics

\* The routine the table of basic operations has for a name, called with one
\* array or with two.
CONSTANTS Apply(_, _)

OfTwo(f, x, y) == Apply(f, <<pair(x, y)>>)
HasTwo(f) == prop(f) \in {"B", "C", "R"}
ApplyTwo(f, x, y) == IF HasTwo(f) THEN Apply(f, <<x, y>>) ELSE OfTwo(f, x, y)

\* EACH of a pervasive basic operation is the operation.
each(f, x)  == Each(LAMBDA y : Apply(f, <<y>>), x)
ieach(f, x) == IF prop(f) = "P" THEN Apply(f, <<x>>) ELSE each(f, x)

\* A transformer of pairs passes on atoms and empty arrays.
NoPair(z) == IF Passes(z) THEN z ELSE Bad
IsPair(z) == ~Passes(z) /\ tally(z) = 2

\* EACHBOTH, EACHLEFT and EACHRIGHT, in general and for a basic operation.
Both(f, x, y)  == EachBoth(LAMBDA a, b : OfTwo(f, a, b), x, y)
iBoth(f, x, y) == EachBoth(LAMBDA a, b : ApplyTwo(f, a, b), x, y)
eachboth(f, z) ==
  IF IsPair(z) THEN Both(f, fetchasarray(z, 1), fetchasarray(z, 2)) ELSE NoPair(z)
eachleft(f, z) ==
  IF IsPair(z) THEN Both(f, fetchasarray(z, 1), single(fetchasarray(z, 2))) ELSE NoPair(z)
eachright(f, z) ==
  IF IsPair(z) THEN Both(f, single(fetchasarray(z, 1)), fetchasarray(z, 2)) ELSE NoPair(z)

Pairwise(f, letters, x, y) == IF prop(f) \in letters THEN Apply(f, <<x, y>>) ELSE iBoth(f, x, y)
ieachboth(f, z) ==
  IF IsPair(z) THEN Pairwise(f, {"C"}, fetchasarray(z, 1), fetchasarray(z, 2)) ELSE NoPair(z)
ieachleft(f, z) ==
  IF IsPair(z) THEN Pairwise(f, {"C", "R"}, fetchasarray(z, 1), single(fetchasarray(z, 2)))
  ELSE NoPair(z)
ieachright(f, z) ==
  IF IsPair(z) THEN Pairwise(f, {"C", "R"}, single(fetchasarray(z, 1)), fetchasarray(z, 2))
  ELSE NoPair(z)

\* OUTER of a basic operation and a pair: one result for each pair of items, in
\* the joined shapes; otherwise the cartesian product first.
iouter(f, c) ==
  LET a == fetchasarray(c, 1)   b == fetchasarray(c, 2)
      sh == a.sh \o b.sh
      At(k) == ApplyTwo(f, fetchasarray(a, ((k - 1) \div tally(b)) + 1),
                           fetchasarray(b, ((k - 1) % tally(b)) + 1))
  IN  IF Product(sh) = 0 THEN new_create_array(atype, sh, <<>>)
      ELSE Collected(sh, [k \in 1 .. Product(sh) |-> At(k)])
outer(f, c) == each(f, cart(c))

leaf(f, x) ==
  LET RECURSIVE L(_)
      L(y) == IF atomic(y) THEN Apply(f, <<y>>) ELSE Each(L, y)
  IN  L(x)
twig(f, x) ==
  LET RECURSIVE T(_)
      T(y) == IF simple(y) THEN Apply(f, <<y>>) ELSE Each(T, y)
  IN  T(x)

ieachall(f, x) == IF prop(f) = "R" THEN Apply(f, <<x>>) ELSE each(f, pack(x))

fold(f, z) ==
  LET n == fetchasarray(z, 1)
  IN  IF ~IsPair(z) THEN NoPair(z)
      ELSE IF ~isint(n) THEN Bad
      ELSE FoldLeft(LAMBDA y, i : Apply(f, <<y>>), fetchasarray(z, 2), [i \in 1 .. Value(n) |-> i])

converse(f, x) == IF tally(x) # 2 THEN Bad ELSE Apply(f, <<reverse(x)>>)

\* FORK: fs are the operations of the atlas, tests and results in turn.
fork(fs, x) ==
  LET RECURSIVE Go(_)
      Go(i) == IF i > Len(fs) THEN Nullexpr
               ELSE IF i = Len(fs) THEN Apply(fs[i], <<x>>)
               ELSE LET z == Apply(fs[i], <<x>>)
                    IN  IF ~(z.kind = booltype /\ valence(z) = 0) THEN LogicFault
                        ELSE IF Value(z) = 1 THEN Apply(fs[i + 1], <<x>>) ELSE Go(i + 2)
  IN  IF Len(fs) < 2 THEN Bad ELSE Go(1)

\* The parts joined to the end, the last made first.
JoinParts(join, end, parts) == FoldLeft(LAMBDA z, p : ApplyTwo(join, p, z), end, parts)

\* RECUR: the parts kept on the way down are joined on the way up.
recur(test, endf, parta, join, partb, x0) ==
  LET RECURSIVE Down(_, _)
      Down(x, parts) ==
        LET t == Apply(test, <<x>>)
        IN  IF t.kind # booltype THEN [bad |-> TRUE, x |-> x, parts |-> parts]
            ELSE IF Value(t) = 1 THEN [bad |-> FALSE, x |-> x, parts |-> parts]
            ELSE Down(Apply(partb, <<x>>), <<Apply(parta, <<x>>)>> \o parts)
      d == Down(x0, <<>>)
  IN  IF d.bad THEN Bad ELSE JoinParts(join, Apply(endf, <<d.x>>), d.parts)

across(endf, parta, join, a) ==
  FoldLeft(LAMBDA z, i : ApplyTwo(join, Apply(parta, <<fetchasarray(a, i)>>), z),
           Apply(endf, <<Null>>), Reverse([i \in 1 .. tally(a) |-> i]))

\* DOWN keeps a stack of candidates and a stack of results; a shape under a
\* marker says how many results to gather and in what shape.
Candidate(b) == [shape |-> FALSE, x |-> b]
Gather(s)    == [shape |-> TRUE, x |-> s]
down(test, endf, structf, join, x0) ==
  LET RECURSIVE Go(_, _)
      Assembled(s, its) == Apply(join, <<reshape(s, mklist(its))>>)
      Go(cands, results) ==
        IF cands = <<>> THEN IF Len(results) = 1 THEN results[1] ELSE Bad
        ELSE LET c == Last(cands)   left == Front(cands)
             IN  IF c.shape
                 THEN LET n == Len(results) - Product(Numbers(c.x))
                      IN  Go(left, Append(SubSeq(results, 1, n),
                                          Assembled(c.x, SubSeq(results, n + 1, Len(results)))))
                 ELSE IF Apply(test, <<c.x>>).kind # booltype THEN Bad
                 ELSE IF Value(Apply(test, <<c.x>>)) = 1
                 THEN Go(left, Append(results, Apply(endf, <<c.x>>)))
                 ELSE LET s == Apply(structf, <<c.x>>)
                      IN  Go(left \o <<Gather(shape(s))>> \o
                               Reverse([i \in 1 .. tally(s) |-> Candidate(fetchasarray(s, i))]), results)
  IN  Go(<<Candidate(x0)>>, <<>>)

team(fs, x) ==
  IF Len(fs) # tally(x) THEN Bad
  ELSE Collected(x.sh, [i \in 1 .. tally(x) |-> Apply(fs[i], <<fetchasarray(x, i)>>)])

iterate(f, x) == IF tally(x) = 0 THEN Nullexpr ELSE Apply(f, <<fetchasarray(x, tally(x))>>)

\* REDUCE from the right, but for the operations that do it themselves.
reduce(f, x) ==
  IF tally(x) = 0 THEN Bad
  ELSE FoldLeft(LAMBDA r, i : OfTwo(f, fetchasarray(x, i), r), fetchasarray(x, tally(x)),
                Reverse([i \in 1 .. tally(x) - 1 |-> i]))
ireduce(f, x) ==
  CASE f = "plus"  -> Apply("sum", <<x>>)
    [] f = "times" -> Apply("product", <<x>>)
    [] prop(f) = "R" \/ f = "link" -> Apply(f, <<x>>)
    [] OTHER -> reduce(f, x)

Prefix(x, n) == [x EXCEPT !.sh = <<n>>, !.els = SubSeq(@, 1, n)]
accumulate(f, x) ==
  IF tally(x) <= 1 THEN x
  ELSE Collected(x.sh, [i \in 1 .. tally(x) |-> reduce(f, Prefix(x, i))])
leftaccumulate(f, x) ==
  LET From(i) == FoldLeft(LAMBDA r, j : OfTwo(f, r, fetchasarray(x, j)), fetchasarray(x, 1),
                          [j \in 1 .. i - 1 |-> j + 1])
  IN  IF tally(x) <= 1 THEN x
      ELSE Collected(x.sh, [i \in 1 .. tally(x) |-> From(i)])
iaccumulate(f, x) ==
  IF prop(f) = "R" \/ f \in {"plus", "times", "link"} THEN leftaccumulate(f, x) ELSE accumulate(f, x)

\* RANK: f of each subarray of the last n axes, as one array.  The subarrays
\* have a's kind, whatever their items are.
RankItem(a, n, i) ==
  LET sh == SubSeq(a.sh, valence(a) - n + 1, valence(a))
  IN  new_create_array(a.kind, sh, SubSeq(a.els, (i - 1) * Product(sh) + 1, i * Product(sh)))
rank(f, n, a) ==
  LET os == SubSeq(a.sh, 1, valence(a) - n)
      res == [i \in 1 .. Product(os) |-> Apply(f, <<RankItem(a, n, i)>>)]
      r1 == res[1]
      kres == IF r1.kind >= phrasetype THEN atype ELSE r1.kind
      Els(r) == IF kres = r.kind THEN r.els ELSE <<r>>
  IN  IF atomic(a) THEN single(Apply(f, <<a>>))
      ELSE IF tally(a) = 0 THEN a
      ELSE IF n = 0 THEN mix(each(f, Each(single, a)))
      ELSE IF Product(os \o r1.sh) # 0 /\ \E i \in DOMAIN res : res[i].kind # r1.kind \/ res[i].sh # r1.sh
      THEN Bad
      ELSE new_create_array(kres, os \o r1.sh, FlattenSeq([i \in DOMAIN res |-> Els(res[i])]))
irank(f, x) ==
  LET n == fetchasarray(x, 1)   a == fetchasarray(x, 2)
  IN  IF ~IsPair(x) THEN NoPair(x)
      ELSE IF ~(n.kind = inttype /\ tally(n) = 1) THEN Bad
      ELSE IF Value(n) \notin 0 .. valence(a) THEN Bad ELSE rank(f, Value(n), a)

\* BYKEY does not look at what choose answers: with values of another shape than
\* the keys' it goes on with what the stack holds.
StackSlips == Atom(losttype, 3)
Grouped(f, keys, sa, bo) ==
  IF bo = No THEN StackSlips
  ELSE Collected(<<tally(keys)>>,
         [i \in 1 .. tally(keys) |-> Apply(f, <<choose(bo, findall(fetchasarray(keys, i), sa))>>)])
GroupedBy(f, a, b, ind) ==
  Grouped(f, cullUnsorted(a), Set_sorted(choose(a, ind), TRUE), choose(b, ind))
bykey(f, x) ==
  IF tally(x) # 2 THEN Bad
  ELSE GroupedBy(f, fetchasarray(x, 1), fetchasarray(x, 2), GradeUp(fetchasarray(x, 1)))
===============================================================================
