------------------------------- MODULE Sorting -------------------------------
(***************************************************************************)
(* SORT and GRADE (trs.c), and the operations that go by the order of the  *)
(* items: cull, diverse and except.                                        *)
(***************************************************************************)
EXTENDS Select

\* sort, grade.  le[i][j] is the comparison's answer for the items at i and j.
\* The array L of list heads and links, and the two loops, are those of the
\* list merge in the code: L[0] and L[n + 1] head two lists of ordered runs, a
\* link that is not positive ends a run.
Runs(le, n) ==
  LET step(r, p) == IF le[p][p + 1] THEN [r EXCEPT !.L[p] = p + 1]
                    ELSE [r EXCEPT !.L[r.t] = -(p + 1), !.t = p]
      r == FoldLeft(step, [L |-> [i \in 0 .. n + 1 |-> IF i = 0 THEN 1 ELSE 0], t |-> n + 1],
                    [p \in 1 .. n - 1 |-> p])
      L == [r.L EXCEPT ![r.t] = 0, ![n] = 0]
  IN  [L EXCEPT ![n + 1] = -@]
Signed(old, new) == IF old < 0 THEN -new ELSE new

RECURSIVE EndOfRun(_, _, _)
EndOfRun(L, t, q) == IF L[q] > 0 THEN EndOfRun(L, q, L[q]) ELSE [t |-> q, q |-> L[q]]

RECURSIVE MergePass(_, _, _, _, _, _)
MergePass(le, L, s, t, p, q) ==
  IF le[p][q]
  THEN LET L1 == [L EXCEPT ![s] = Signed(@, p)]
       IN  IF L1[p] > 0 THEN MergePass(le, L1, p, t, L1[p], q)
           ELSE LET L2 == [L1 EXCEPT ![p] = q]
                    e == EndOfRun(L2, t, q)
                    p2 == -L1[p]   q2 == -e.q
                IN  IF q2 # 0 THEN MergePass(le, L2, t, e.t, p2, q2)
                    ELSE [[L2 EXCEPT ![t] = Signed(@, p2)] EXCEPT ![e.t] = 0]
  ELSE LET L1 == [L EXCEPT ![s] = Signed(@, q)]
       IN  IF L1[q] > 0 THEN MergePass(le, L1, q, t, p, L1[q])
           ELSE LET L2 == [L1 EXCEPT ![q] = p]
                    e == EndOfRun(L2, t, p)
                    p2 == -e.q   q2 == -L1[q]
                IN  IF q2 # 0 THEN MergePass(le, L2, t, e.t, p2, q2)
                    ELSE [[L2 EXCEPT ![t] = Signed(@, p2)] EXCEPT ![e.t] = 0]

RECURSIVE MergeAll(_, _, _)
MergeAll(le, L, n) ==
  IF L[n + 1] = 0 THEN L
  ELSE MergeAll(le, MergePass(le, L, 0, n + 1, L[0], L[n + 1]), n)

RECURSIVE Chain(_, _, _)
Chain(L, t, n) == IF n = 0 THEN <<>> ELSE <<L[t]>> \o Chain(L, L[t], n - 1)

\* Mutant: items are compared strictly.
SortOrderStrict(le, n) ==
  LET lt == [i \in 1 .. n |-> [j \in 1 .. n |-> ~le[j][i]]]
  IN  IF n < 2 THEN [i \in 1 .. n |-> i] ELSE Chain(MergeAll(lt, Runs(lt, n), n), 0, n)
\* The places of the items in the order the comparison asks for.
SortOrder(le, n) ==
  IF n < 2 THEN [i \in 1 .. n |-> i] ELSE Chain(MergeAll(le, Runs(le, n), n), 0, n)

\* f is the comparison's name; answers[i][j] is what it answers for the items at
\* i and j, where the code does not take up in its place.
IsUp(f, x) == f = "up" \/ (f = "lte" /\ x.kind \in {inttype, realtype})
Compare(f, answers, x) ==
  LET fast == f = "up" \/ (f = "lte" /\ simple(x))
      i0(i) == fetchasarray(x, i)
  IN  [i \in 1 .. tally(x) |-> [j \in 1 .. tally(x) |->
        IF fast THEN b_up(i0(i), i0(j))
        ELSE IF f = "gte" /\ homotype(x.kind) THEN b_up(i0(j), i0(i))
        ELSE answers[i][j]]]
\* The items, and their addresses, in the order s.
Reordered(x, s) == Imploded(new_create_array(x.kind, x.sh, [i \in DOMAIN s |-> x.els[s[i]]]))
GradeOf(x, s) ==
  new_create_array(IF valence(x) = 1 THEN inttype ELSE atype, x.sh,
    [i \in DOMAIN s |-> IF valence(x) = 1 THEN Cell(s[i] - 1) ELSE AddressIn(x, s[i] - 1)])
InThatOrder(f, x, s, gradesw) ==
  IF gradesw THEN GradeOf(x, s)
  ELSE IF IsUp(f, x) THEN Set_sorted(Reordered(x, s), TRUE) ELSE Reordered(x, s)

SortedBy(f, le, x, gradesw) ==
  IF atomic(x) THEN IF gradesw THEN single(Null) ELSE x
  ELSE IF IsUp(f, x) /\ KnownSorted(x)
  THEN IF gradesw THEN tell(gage(shape(x))) ELSE x
  ELSE IF \E i, j \in 1 .. tally(x) : i # j /\ (le[i][j].kind # booltype \/ ~atomic(le[i][j])) THEN Bad
  ELSE InThatOrder(f, x, SortOrder([i \in 1 .. tally(x) |-> [j \in 1 .. tally(x) |-> Value(le[i][j]) = 1]],
                                   tally(x)), gradesw)
sort(f, answers, x, gradesw) ==
  SortedBy(f, Compare(f, answers, check_sorted(x)), check_sorted(x), gradesw)
SortUp(x)  == sort("up", <<>>, x, FALSE)
GradeUp(x) == sort("up", <<>>, x, TRUE)
SortLte(x) == sort("lte", <<>>, x, FALSE)

\* cull, diverse: through the grade when the items are not in order.
PatternOf(ordered) == ListOf(booltype, scullPattern(ordered))
CullPattern(a) == PatternOf(choose(a, GradeUp(a)))
FirstOnes(a, pattern, grade) == choose(a, SortLte(sublist(pattern, grade)))
cullUnsorted(a) == FirstOnes(list(a), CullPattern(list(a)), GradeUp(list(a)))
cull(z)    == IF KnownSorted(z) THEN scull(check_sorted(z)) ELSE cullUnsorted(z)
diverse(z) == IF KnownSorted(z) THEN sdiverse(z)
              ELSE createbool(\A i \in 1 .. tally(z) : CullPattern(list(z)).els[i].n = 1)

KeptOf(a, ord, kept) == choose(a, SortLte(Ints([m \in DOMAIN kept |-> ord.els[kept[m]].n])))
ExceptBy(a, ord, b) == KeptOf(a, ord, ExceptMerge(choose(a, ord), SortUp(cull(b)), 1, 1))
exceptMerge(a, b) == ExceptBy(list(a), GradeUp(list(a)), b)

\* CROSSOVER is where except takes the merge.
except(x, y, crossover) ==
  IF KnownSorted(x) THEN sexcept(check_sorted(x), IF KnownSorted(y) THEN y ELSE SortUp(y))
  ELSE IF tally(x) = 1 \/ tally(x) * tally(y) <= crossover THEN oldexcept(x, y)
  ELSE exceptMerge(x, y)
===============================================================================
