-------------------------------- MODULE AtOps --------------------------------
(***************************************************************************)
(* The array theoretic operations of atops.c.  Each definition is named    *)
(* for the C routine, takes the arguments the routine pops and stands for  *)
(* the array it pushes; the data movement of a loop over addresses is      *)
(* written as the function from addresses to items it fills in.            *)
(***************************************************************************)
EXTENDS Arrays

shape(x) == IF valence(x) = 0 THEN Null ELSE Ints(x.sh)
first(x) == IF atomic(x) THEN x ELSE IF tally(x) > 0 THEN fetchasarray(x, 1) ELSE Address

nial_solitary(x) ==
  LET z == IF homotype(x.kind) /\ atomic(x) THEN ListOf(x.kind, x.els) ELSE ListOf(atype, <<x>>)
  IN  [z EXCEPT !.sorted = x.sorted]

isSingle(x) == x.kind = atype /\ x.sh = <<>>
single(x) == IF atomic(x) THEN x ELSE new_create_array(atype, <<>>, <<x>>)

\* Elements a+1 .. b of x in a list of x's kind, imploded when it can be.
Piece(x, a, b) == ListOf(x.kind, SubSeq(x.els, a + 1, b))

rest(x) == Set_sorted(Imploded(IF tally(x) <= 1 THEN Null ELSE Piece(x, 1, tally(x))), x.sorted)

list(x) ==
  IF valence(x) = 1 THEN x
  ELSE IF atomic(x) THEN nial_solitary(x)
  ELSE Set_sorted(ListOf(x.kind, x.els), x.sorted)

pair(x, y) ==
  IF x.kind = y.kind /\ homotype(x.kind) /\ atomic(x) /\ atomic(y)
  THEN ListOf(x.kind, x.els \o y.els)
  ELSE ListOf(atype, <<x, y>>)

\* Mutant: the result has the flag of the array appended to.
AppendFlagged(x, y) ==
  IF tally(x) = 0 THEN nial_solitary(y)
  ELSE Set_sorted(Imploded(ListOf(atype, Append(Items(x), y))), x.sorted)
append(x, y) ==
  CASE tally(x) = 0 -> nial_solitary(y)
    [] tally(x) > 0 /\ atomic(x) -> pair(x, y)
    [] tally(x) > 0 /\ ~atomic(x) /\ x.kind = y.kind /\ valence(y) = 0 /\ x.kind # atype ->
         ListOf(x.kind, x.els \o y.els)
    [] OTHER -> ListOf(atype, Append(Items(x), y))

HitchLast(x, y) == append(y, x)   \* Mutant: at the wrong end.
hitch(x, y) ==
  CASE tally(y) = 0 -> nial_solitary(x)
    [] tally(y) > 0 /\ atomic(y) -> pair(x, y)
    [] tally(y) > 0 /\ ~atomic(y) /\ x.kind = y.kind /\ valence(x) = 0 /\ y.kind # atype ->
         ListOf(y.kind, x.els \o y.els)
    [] OTHER -> ListOf(atype, <<x>> \o Items(y))

validshape(x) == IsNull(x) \/ (x.kind = inttype /\ \A i \in 1 .. tally(x) : x.els[i].n >= 0)

Cycled(s, n) == [i \in 1 .. n |-> s[((i - 1) % Len(s)) + 1]]
reshapeTo(sh, y0) ==
  LET y1  == IF y0.kind \in {phrasetype, faulttype} THEN nial_solitary(y0) ELSE y0
      cnt == Product(sh)
      y   == IF tally(y1) = 0 /\ cnt # 0 THEN nial_solitary(Fill) ELSE y1
  IN  IF sh = <<>> THEN IF tally(y1) = 0 THEN Fill ELSE single(first(y1))
      ELSE IF cnt = 0 THEN new_create_array(atype, sh, <<>>)
      ELSE Imploded(new_create_array(y.kind, sh, Cycled(y.els, cnt)))
reshape(x, y) == IF validshape(x) THEN reshapeTo(Numbers(x), y) ELSE Bad

\* int_each, each: F of every item, in x's shape.
Collected(sh, s) == Imploded(new_create_array(atype, sh, s))
Each(F(_), x) ==
  IF tally(x) = 0 THEN x
  ELSE IF valence(x) = 0 THEN single(F(fetchasarray(x, 1)))
  ELSE Collected(x.sh, [i \in 1 .. tally(x) |-> F(fetchasarray(x, i))])

simple(x) == x.kind # atype \/ \A i \in 1 .. tally(x) : atomic(x.els[i])

ElementsAsItems(x) == IF x.kind = atype THEN x.els ELSE Items(x)
link(x) ==
  IF x.kind # atype THEN list(x)
  ELSE IF tally(x) > 0 /\ homotype(x.els[1].kind) /\ \A i \in 1 .. tally(x) : x.els[i].kind = x.els[1].kind
       THEN ListOf(x.els[1].kind, FlattenSeq([i \in 1 .. tally(x) |-> x.els[i].els]))
       ELSE Imploded(ListOf(atype, FlattenSeq([i \in 1 .. tally(x) |-> ElementsAsItems(x.els[i])])))

RECURSIVE content(_)
content(x) == IF simple(x) THEN list(x) ELSE link(Each(content, x))

pairOf(x) == IF tally(x) = 2 /\ valence(x) = 1 THEN x ELSE reshapeTo(<<2>>, x)
isstring(x) == x.kind = chartype /\ valence(x) = 1
tallyOf(x) == createint(tally(x))
void(x) == Null

isboolean(x)  == createbool(atomic(x) /\ x.kind = booltype)
isinteger(x)  == createbool(atomic(x) /\ x.kind = inttype)
isreal(x)     == createbool(atomic(x) /\ x.kind = realtype)
ischar(x)     == createbool(atomic(x) /\ x.kind = chartype)
isphrase(x)   == createbool(x.kind = phrasetype)
isfault(x)    == createbool(x.kind = faulttype)
isnumeric(x)  == createbool(numeric(x.kind) /\ valence(x) = 0)
allbools(x)   == createbool(x.kind = booltype)
allints(x)    == createbool(x.kind = inttype)
allreals(x)   == createbool(x.kind = realtype)
allchars(x)   == createbool(x.kind = chartype)
allnumeric(x) == createbool(numeric(x.kind))

\* The address at place i (from 0) of an array of shape sh.
ToAddress(i, sh) ==
  [j \in DOMAIN sh |->
     IF sh[j] = 0 THEN 0 ELSE (i \div Product(SubSeq(sh, j + 1, Len(sh)))) % sh[j]]
\* The place (from 0) of an address.
ToIndex(a, sh) == FoldLeft(LAMBDA acc, j : acc * sh[j] + a[j], 0, [j \in DOMAIN sh |-> j])

\* gage: make a shape of x as far as that can be done.
SizeOf(it) == IF it.kind = inttype /\ Value(it) >= 0 THEN Value(it) ELSE 0
SizesIn(d) == new_create_array(IF tally(d) = 0 THEN atype ELSE inttype, d.sh,
                               [i \in 1 .. tally(d) |-> Cell(SizeOf(fetchasarray(d, i)))])
SizesOf(c) == SizesIn(IF tally(c) = 1 THEN single(first(c)) ELSE c)
gage(x) ==
  IF x.kind = inttype /\ tally(x) = 1
  THEN createint(IF Value(x) <= 0 THEN 0 ELSE Value(x))
  ELSE IF x.kind = inttype /\ \A i \in 1 .. tally(x) : x.els[i].n >= 0
  THEN IF valence(x) > 1 THEN list(x) ELSE x
  ELSE SizesOf(content(x))

cart(x) ==
  IF atomic(x) THEN x
  ELSE IF tally(x) = 0 \/ homotype(x.kind) THEN single(x)
  ELSE IF valence(x) = 0 THEN Each(single, x.els[1])
  ELSE LET sc == FlattenSeq([j \in 1 .. tally(x) |-> x.els[j].sh])
           fs == [j \in 1 .. tally(x) |-> tally(x.els[j])]
           At(i) == Collected(x.sh, [j \in 1 .. tally(x) |->
                                       fetchasarray(x.els[j], ToAddress(i - 1, fs)[j] + 1)])
       IN  new_create_array(atype, sc, [i \in 1 .. Product(sc) |-> At(i)])

generateints(n) == IF n = 0 THEN Null ELSE Ints([i \in 1 .. n |-> i - 1])
RECURSIVE tell(_)
tell(x) ==
  IF ~validshape(x) THEN Bad
  ELSE IF atomic(x) THEN Set_sorted(generateints(Value(x)), TRUE)
  ELSE Set_sorted(cart(Each(tell, x)), TRUE)
grid(x) == LET s == shape(x) IN tell(IF tally(s) = 1 THEN first(s) ELSE s)

RECURSIVE type(_)
type(x) ==
  IF ~atomic(x) THEN Each(type, x)
  ELSE CASE x.kind = phrasetype -> Typicalphrase
         [] x.kind = faulttype  -> Cipher
         [] x.kind = chartype   -> createchar(Blank)
         [] OTHER -> Atom(x.kind, 0)

\* One axis of take and drop: where it starts in y and how long it is.
Magnitude(n) == IF n < 0 THEN -n ELSE n
Start(n, extent, istake) ==
  IF istake THEN IF n >= 0 THEN 0 ELSE extent + n
  ELSE IF n >= 0 THEN Least(n, extent) ELSE 0
Length(n, extent, istake) ==
  IF istake THEN Magnitude(n) ELSE IF extent >= Magnitude(n) THEN extent - Magnitude(n) ELSE 0

\* The window of y with those starts and lengths, filled where it leaves y.
Window(y, starts, lengths) ==
  LET fill == IF tally(y) > 0 THEN type(fetchasarray(y, 1)) ELSE Fill
      At(i) == LET a == ToAddress(i - 1, lengths)
                   b == [j \in DOMAIN a |-> a[j] + starts[j]]
               IN  IF \A j \in DOMAIN b : b[j] \in 0 .. y.sh[j] - 1
                   THEN y.els[ToIndex(b, y.sh) + 1]
                   ELSE IF y.kind = atype THEN fill ELSE fill.els[1]
  IN  Imploded(new_create_array(y.kind, lengths, [i \in 1 .. Product(lengths) |-> At(i)]))

AbsInts(x) == IF tally(x) = 0 THEN x
              ELSE [x EXCEPT !.els = [i \in DOMAIN @ |-> Cell(Magnitude(@[i].n))]]

takedrop(x, y, istake) ==
  LET n == Numbers(x)
      starts  == [j \in DOMAIN n |-> Start(n[j], y.sh[j], istake)]
      lengths == [j \in DOMAIN n |-> Length(n[j], y.sh[j], istake)]
  IN  IF x.kind # inttype /\ tally(x) > 0 THEN Bad
      ELSE IF valence(y) = 0
      THEN IF istake THEN OfPair(reshape, pair(AbsInts(x), y))
           ELSE IF tally(x) = 0 THEN y ELSE Null
      ELSE IF tally(x) # valence(y) THEN Bad
      ELSE IF Product(lengths) = 0 THEN reshape(IF valence(y) = 1 THEN createint(0) ELSE Ints(lengths), y)
      ELSE Window(y, starts, lengths)
take(x, y) == takedrop(x, y, TRUE)
drop(x, y) == takedrop(x, y, FALSE)

\* x as one truth value for each of n places.
Flags(x, n) == IF tally(x) = n THEN x ELSE reshapeTo(<<n>>, x)
BadFlags(x, y) == (x.kind # booltype /\ tally(x) # 0) \/ (tally(x) = 0 /\ tally(y) # 0)
AsList(y) == IF atomic(y) THEN list(y) ELSE y

\* cut, cutall: the pieces of y between (from) the places x marks; no piece is
\* looked at again, whatever the items it got are.
CutBounds(b, n, cutprim) ==
  LET marks == SelectSeq([i \in 1 .. n |-> i - 1], LAMBDA i : b.els[i + 1].n = 1)
      ends  == Append(marks, n)
  IN  [m \in DOMAIN ends |-> <<IF m = 1 THEN 0 ELSE ends[m - 1] + (IF cutprim THEN 1 ELSE 0), ends[m]>>]
CutPiece(y, a, b) == Piece(y, a, b)
cutorcutall(x, y0, cutprim) ==
  LET n == tally(y0)
      y == IF y0.kind \in {phrasetype, faulttype} THEN list(y0) ELSE y0
      pieces == SelectSeq(CutBounds(Flags(x, n), n, cutprim), LAMBDA p : p[1] < p[2])
  IN  IF BadFlags(x, y0) THEN Bad
      ELSE ListOf(atype, [m \in DOMAIN pieces |-> CutPiece(y, pieces[m][1], pieces[m][2])])
cut(x, y)    == cutorcutall(x, y, TRUE)
cutall(x, y) == cutorcutall(x, y, FALSE)

Marked(flags) == SelectSeq([i \in 1 .. tally(flags) |-> i], LAMBDA i : flags.els[i].n = 1)
ItemsAt(l, keep) ==
  IF keep = <<>> THEN Null
  ELSE Set_sorted(Imploded(ListOf(l.kind, [m \in DOMAIN keep |-> l.els[keep[m]]])), l.sorted)
sublist(x, y) == IF BadFlags(x, y) THEN Bad ELSE ItemsAt(AsList(y), Marked(Flags(x, tally(y))))

issimple(x) == createbool(simple(x))

\* pack: an array of arrays turned inside out; items of one element are spread.
PackShape(x) ==
  LET big == {i \in 1 .. tally(x) : tally(x.els[i]) # 1}
      deep == CHOOSE i \in 1 .. tally(x) :
                /\ \A j \in 1 .. tally(x) : valence(x.els[j]) <= valence(x.els[i])
                /\ \A j \in 1 .. i - 1 : valence(x.els[j]) < valence(x.els[i])
  IN  x.els[IF big = {} THEN deep ELSE CHOOSE i \in big : \A j \in big : i <= j].sh
Conform(x) ==
  \/ \A i, j \in 1 .. tally(x) : x.els[i].sh = x.els[j].sh
  \/ \A i \in 1 .. tally(x) : tally(x.els[i]) = 1 \/ x.els[i].sh = PackShape(x)
packNested(x) ==
  LET sh == PackShape(x)
      Nth(it, i) == fetchasarray(it, IF tally(it) = 1 THEN 1 ELSE i)
      At(i) == LET s == [j \in 1 .. tally(x) |-> Nth(x.els[j], i)]
               IN  IF valence(x) = 0 /\ atomic(s[1]) THEN s[1] ELSE Collected(x.sh, s)
  IN  IF ~Conform(x) THEN Bad
      ELSE Collected(sh, [i \in 1 .. Product(sh) |-> At(i)])
pack(x) == IF atomic(x) THEN x ELSE IF simple(x) THEN single(x) ELSE packNested(x)

\* The address of place i (from 0), and what seek answers when there is none.
AddressIn(y, i) == IF valence(y) = 1 THEN createint(i)
                   ELSE IF valence(y) = 0 THEN Null ELSE Ints(ToAddress(i, y.sh))
NoAddress(y)    == IF valence(y) = 1 THEN createint(tally(y)) ELSE shape(y)
Found(y, i)     == mklist(<<createbool(TRUE), AddressIn(y, i)>>)
NotFound(y)     == mklist(<<createbool(FALSE), NoAddress(y)>>)
Places(x, y)    == SelectSeq([i \in 1 .. tally(y) |-> i - 1],
                             LAMBDA i : equal(x, fetchasarray(y, i + 1)))
AddressList(y, s) == IF s = <<>> THEN Null
                     ELSE IF valence(y) = 1 THEN Ints(s)
                     ELSE ListOf(atype, [m \in DOMAIN s |-> AddressIn(y, s[m])])

\* The two loops of sfindallint, sfindallreal and sfindallatype: cmp(i) is how
\* the item at i (from 0) compares with the target, -1, 0 or 1.
RECURSIVE SearchLow(_, _, _, _)
SearchLow(cmp, n, low, midlow) ==
  LET probe == (low + midlow) \div 2
  IN  IF cmp[low] = 1 THEN [low |-> n, absent |-> TRUE]
      ELSE IF cmp[probe] = 0
      THEN IF low = probe THEN [low |-> low, absent |-> FALSE] ELSE SearchLow(cmp, n, low, probe)
      ELSE IF cmp[probe] = -1
      THEN IF probe + 1 > n - 1 THEN [low |-> probe + 1, absent |-> FALSE]
           ELSE SearchLow(cmp, n, probe + 1, midlow)
      ELSE IF probe - 1 < low THEN [low |-> low, absent |-> FALSE]
           ELSE SearchLow(cmp, n, low, probe - 1)
\* Mutant: the last equal item is not searched for.
SearchHighFirst(cmp, low, high, midhigh) == [low |-> low, high |-> midhigh]
RECURSIVE SearchHigh(_, _, _, _)
SearchHigh(cmp, low, high, midhigh) ==
  LET probe == (high + midhigh + 1) \div 2
  IN  IF cmp[high] = -1 THEN [low |-> high + 1, high |-> high]
      ELSE IF cmp[probe] = 0
      THEN IF high = probe THEN [low |-> low, high |-> high] ELSE SearchHigh(cmp, low, high, probe)
      ELSE IF cmp[probe] = 1
      THEN IF probe - 1 < 0 THEN [low |-> low, high |-> probe - 1]
           ELSE SearchHigh(cmp, low, probe - 1, midhigh)
      ELSE IF probe + 1 > high THEN [low |-> low, high |-> high]
           ELSE SearchHigh(cmp, low, high, probe + 1)

Compared(x, y) ==
  [i \in 0 .. tally(y) - 1 |->
     LET it == fetchasarray(y, i + 1)
     IN  IF equal(it, x) THEN 0 ELSE IF up(it, x) THEN -1 ELSE 1]
sseek(x, y) ==
  LET low == SearchLow(Compared(x, y), tally(y), 0, tally(y) - 1).low
  IN  IF low <= tally(y) - 1 THEN Found(y, low) ELSE NotFound(y)
FromTo(y, b) == AddressList(y, [m \in 1 .. b.high - b.low + 1 |-> b.low + m - 1])
HighFrom(cmp, n, r) ==
  IF r.absent THEN [low |-> n, high |-> n - 1] ELSE SearchHigh(cmp, r.low, n - 1, r.low)
SearchBoth(cmp, n) == HighFrom(cmp, n, SearchLow(cmp, n, 0, n - 1))
sfindall(x, y) == FromTo(y, SearchBoth(Compared(x, y), tally(y)))

\* When the sorted search is used.
UseSorted(x, y) ==
  /\ y.sorted /\ x.kind # booltype /\ tally(y) # 0
  /\ IF atomic(x) /\ x.kind \in {inttype, realtype} THEN y.kind = x.kind
     ELSE ~(atomic(x) /\ x.kind = chartype) /\ y.kind = atype

linearSeek(x, y) == IF Places(x, y) # <<>> THEN Found(y, Places(x, y)[1]) ELSE NotFound(y)
nseek(x, y) ==
  IF atomic(y) THEN pair(createbool(equal(x, y)), Null)
  ELSE IF UseSorted(x, y) THEN sseek(x, y) ELSE linearSeek(x, y)
find(x, y) == fetchasarray(nseek(x, y), 2)
in(x, y)   == first(nseek(x, y))
findall(x, y) ==
  IF atomic(y) THEN IF equal(x, y) THEN nial_solitary(Null) ELSE Null
  ELSE IF UseSorted(x, y) THEN sfindall(x, y)
  ELSE AddressList(y, Places(x, y))

\* check_sorted also sets the flag of an array it finds in order.
InOrder(x) == \A i \in 1 .. tally(x) - 1 : up(fetchasarray(x, i), fetchasarray(x, i + 1))
check_sorted(x) == IF tally(x) >= 2 /\ InOrder(x) THEN [x EXCEPT !.sorted = TRUE] ELSE x
KnownSorted(x) == x.sorted \/ InOrder(x)

scullPattern(a) ==
  [i \in 1 .. tally(a) |-> Cell(IF i = 1 \/ ~equal(fetchasarray(a, i), fetchasarray(a, i - 1)) THEN 1 ELSE 0)]
scull(a) == sublist(ListOf(booltype, scullPattern(a)), a)
sdiverse(a) == createbool(\A i \in 1 .. tally(a) : scullPattern(a)[i].n = 1)

\* The merges of except and sexcept: the places of a kept when b is taken away.
RECURSIVE ExceptMerge(_, _, _, _)
ExceptMerge(a, b, i, j) ==
  IF i > tally(a) THEN <<>>
  ELSE IF j > tally(b) THEN <<i>> \o ExceptMerge(a, b, i + 1, j)
  ELSE LET x == fetchasarray(a, i)   y == fetchasarray(b, j)
       IN  IF up(x, y)
           THEN (IF equal(x, y) THEN <<>> ELSE <<i>>) \o ExceptMerge(a, b, i + 1, j)
           ELSE ExceptMerge(a, b, i, j + 1)
sexcept(a0, b) ==
  LET a == list(a0)
      kept == ExceptMerge(a, b, 1, 1)
      k == IF a.kind = b.kind THEN a.kind ELSE atype
      its == Items(a)
  IN  IF tally(b) = 0 THEN a
      ELSE Set_sorted(Imploded(ListOf(k, [m \in DOMAIN kept |->
                                            IF k = atype THEN its[kept[m]] ELSE a.els[kept[m]]])), TRUE)
oldexcept(arr, x) ==
  LET a == IF tally(arr) = 0 THEN list(arr) ELSE AsList(arr)
      kept == SelectSeq([i \in 1 .. tally(a) |-> i],
                        LAMBDA i : \A j \in 1 .. tally(x) : ~equal(fetchasarray(x, j), fetchasarray(a, i)))
      z == ListOf(a.kind, [m \in DOMAIN kept |-> a.els[kept[m]]])
  IN  IF tally(arr) = 0 THEN a ELSE IF Len(kept) = tally(a) THEN z ELSE Imploded(z)

isatomic(x)  == createbool(atomic(x))
pass(x)      == x
valenceOf(x) == createint(valence(x))
isempty(x)   == createbool(tally(x) = 0)

nial_raise(x, n) ==
  LET sh == SubSeq(x.sh, n + 1, valence(x))
      m  == Product(sh)
      BlockOf(i) == Imploded(new_create_array(x.kind, sh, SubSeq(x.els, (i - 1) * m + 1, i * m)))
      os == SubSeq(x.sh, 1, n)
  IN  IF atomic(x) THEN x
      ELSE IF n = valence(x) THEN IF homotype(x.kind) THEN x ELSE Each(single, x)
      ELSE new_create_array(atype, os, [i \in 1 .. Product(os) |-> BlockOf(i)])
raise(x, y) ==
  IF x.kind # inttype \/ Value(x) < 0 \/ Value(x) > valence(y) THEN Bad
  ELSE nial_raise(y, Value(x))

\* fuse: axes of b permuted, or merged into diagonals.
AxisGroups(a) == [i \in 1 .. tally(a) |-> IF a.kind = inttype THEN <<a.els[i].n>> ELSE Numbers(a.els[i])]
ValidAxes(a, v) ==
  LET flat == FlattenSeq(AxisGroups(a))
  IN  /\ a.kind \in {inttype, atype}
      /\ a.kind = inttype \/ \A i \in 1 .. tally(a) : a.els[i].kind = inttype
      /\ Len(flat) = v
      /\ {flat[i] : i \in DOMAIN flat} = 0 .. v - 1
FuseResult(kb, ns, els) == new_create_array(kb, ns, els)
fused(a, b) ==
  LET g == AxisGroups(a)
      strides == [j \in 1 .. valence(b) |-> Product(SubSeq(b.sh, j + 1, valence(b)))]
      ns == [i \in DOMAIN g |-> FoldLeft(Least, b.sh[g[i][1] + 1], [m \in DOMAIN g[i] |-> b.sh[g[i][m] + 1]])]
      step == [i \in DOMAIN g |-> FoldLeft(LAMBDA acc, ax : acc + strides[ax + 1], 0, g[i])]
      At(i) == LET ad == ToAddress(i - 1, ns)
               IN  FoldLeft(LAMBDA acc, m : acc + ad[m] * step[m], 0, [m \in DOMAIN g |-> m])
  IN  IF tally(b) = 0 THEN new_create_array(atype, ns, <<>>)
      ELSE FuseResult(b.kind, ns, [i \in 1 .. Product(ns) |-> b.els[At(i) + 1]])
\* The test of a nested left argument for a scalar reads the header of block 0,
\* before the heap: junk is what it finds there.
fuse(a, b, junk) ==
  CASE valence(b) = 0 ->
         IF tally(a) = 0 \/ (a.kind = atype /\ tally(a) = 1 /\ junk) THEN b ELSE Bad
    [] valence(b) = 1 ->
         IF tally(a) = 1 /\ a.kind = inttype /\ Value(a) = 0 THEN b ELSE Bad
    [] OTHER -> IF ValidAxes(a, valence(b)) THEN fused(a, b) ELSE Bad

transpose(x) ==
  IF valence(x) <= 1 THEN x
  ELSE IF valence(x) = 2
  THEN LET r == x.sh[1]   c == x.sh[2]
       IN  new_create_array(x.kind, <<c, r>>,
             [p \in 1 .. tally(x) |-> x.els[((p - 1) % r) * c + ((p - 1) \div r) + 1]])
  ELSE fuse(Ints([i \in 1 .. valence(x) |-> valence(x) - i]), x, TRUE)

reverse(x) ==
  IF valence(x) = 0 \/ tally(x) = 0 THEN x
  ELSE new_create_array(x.kind, x.sh, Reverse(x.els))

\* mix: an array of equally shaped items as one array.
mix(x) ==
  LET shapes == {fetchasarray(x, i).sh : i \in 1 .. tally(x)}
      sh == shape(x)
  IN  IF tally(x) = 0 THEN reshape(append(sh, createint(0)), Null)
      ELSE IF Cardinality(shapes) # 1 THEN Bad
      ELSE reshape(link(pair(sh, shape(fetchasarray(x, 1)))), link(x))
==============================================================================
