------------------------------ MODULE HeapProofs ------------------------------
(***************************************************************************)
(* Proofs about the memory manager, for every size of the heap, of its     *)
(* blocks and of the requests.                                             *)
(***************************************************************************)
EXTENDS Heap, TLAPS

-------------------------------------------------------------------------------
(* The doubly linked list of absmach.c as a shape: members F between a     *)
(* header h and a last cell e, the links being the functions f (fwdlink)   *)
(* and b (bcklink) on the addresses A, or T where there is no link.        *)

Doubly(F, f, b, h, e) ==
  /\ h \notin F /\ e \notin F /\ h # e
  /\ \A x \in F \cup {h} : f[x] \in F \cup {e} /\ b[f[x]] = x
  /\ \A x \in F \cup {e} : b[x] \in F \cup {h} /\ f[b[x]] = x

(* The forward links follow the order r: the list has no cycle. *)
Ranked(r, F, f, h) == \A x \in F \cup {h} : r[x] < r[f[x]]

Cells(A, T, F, f, b, h, e) ==
  /\ F \in SUBSET A /\ h \in A /\ e \in A /\ T \notin A
  /\ f \in [A -> A \cup {T}] /\ b \in [A -> A \cup {T}]

List(A, T, F, f, b, h, e) ==
  /\ Cells(A, T, F, f, b, h, e)
  /\ Doubly(F, f, b, h, e)
  /\ \E r \in [A -> Int] : Ranked(r, F, f, h)

(* The three ways absmach.c changes the list, from f and b to g and c. *)
Unlinked(f, b, p, g, c) ==
  /\ g = [f EXCEPT ![b[p]] = f[p]]
  /\ c = [b EXCEPT ![f[p]] = b[p]]

Replaced(f, b, q, p, g, c) ==
  /\ g = [f EXCEPT ![p] = f[q], ![b[q]] = p]
  /\ c = [[b EXCEPT ![p] = b[q]] EXCEPT ![f[q]] = p]

Pushed(f, b, h, p, g, c) ==
  /\ g = [f EXCEPT ![p] = f[h], ![h] = p]
  /\ c = [[b EXCEPT ![p] = h] EXCEPT ![f[h]] = p]

(* The neighbours of a member, of the header and of the last cell. *)
LEMMA ListFacts ==
  ASSUME NEW A, NEW T, NEW F, NEW f, NEW b, NEW h, NEW e, List(A, T, F, f, b, h, e)
  PROVE  /\ h \notin F /\ e \notin F /\ h # e
         /\ \A x \in F \cup {h} : f[x] \in F \cup {e} /\ f[x] \in A /\ f[x] # T
         /\ \A x \in F \cup {e} : b[x] \in F \cup {h} /\ b[x] \in A
BY DEF List, Cells, Doubly

(* The list only depends on the links of its cells: words elsewhere may    *)
(* change.                                                                 *)
LEMMA Frame ==
  ASSUME NEW A, NEW T, NEW F, NEW f, NEW b, NEW h, NEW e, NEW g, NEW c,
         List(A, T, F, f, b, h, e),
         g \in [A -> A \cup {T}], c \in [A -> A \cup {T}],
         \A x \in F \cup {h} : g[x] = f[x],
         \A x \in F \cup {e} : c[x] = b[x]
  PROVE  List(A, T, F, g, c, h, e)
<1>1. PICK r \in [A -> Int] : Ranked(r, F, f, h)
  BY DEF List
<1>2. Ranked(r, F, g, h)
  BY <1>1 DEF Ranked
<1>3. Cells(A, T, F, g, c, h, e)
  BY DEF List, Cells
<1>4. Doubly(F, g, c, h, e)
  BY DEF List, Doubly
<1>. QED
  BY <1>2, <1>3, <1>4 DEF List

(* Taking member p out: its neighbours are linked to each other.           *)
LEMMA UnlinkOK ==
  ASSUME NEW A, NEW T, NEW F, NEW f, NEW b, NEW h, NEW e, NEW p \in F, NEW g, NEW c,
         List(A, T, F, f, b, h, e), Unlinked(f, b, p, g, c)
  PROVE  List(A, T, F \ {p}, g, c, h, e) /\ g[e] = f[e]
<1> DEFINE P == b[p]
           N == f[p]
           G == F \ {p}
<1>0. Cells(A, T, F, f, b, h, e) /\ Doubly(F, f, b, h, e)
  BY DEF List
<1>1. /\ P \in F \cup {h} /\ N \in F \cup {e} /\ f[P] = p /\ b[N] = p
      /\ P \in A /\ N \in A /\ p \in A
      /\ g = [f EXCEPT ![P] = N] /\ c = [b EXCEPT ![N] = P]
  BY <1>0 DEF Cells, Doubly, Unlinked
<1>r. PICK r \in [A -> Int] : Ranked(r, F, f, h)
  BY DEF List
<1>2. r[p] < r[N] /\ r[P] < r[p]
  BY <1>1, <1>r DEF Ranked
<1>3. P # p /\ N # p /\ P # N
  BY <1>1, <1>2, <1>r
<1>. HIDE DEF P, N
<1>4. \A x \in G \cup {h} : g[x] \in G \cup {e} /\ c[g[x]] = x
  BY <1>0, <1>1, <1>3 DEF Cells, Doubly
<1>5. \A x \in G \cup {e} : c[x] \in G \cup {h} /\ g[c[x]] = x
  BY <1>0, <1>1, <1>3 DEF Cells, Doubly
<1>6. \A x \in G \cup {h} : r[x] < r[g[x]]
  BY <1>0, <1>1, <1>2, <1>3, <1>r DEF Cells, Ranked, Doubly
<1>7. h \notin G /\ e \notin G /\ h # e
  BY <1>0 DEF Doubly
<1>8. Cells(A, T, G, g, c, h, e) /\ g[e] = f[e]
  BY <1>0, <1>1 DEF Cells, Doubly
<1>9. Doubly(G, g, c, h, e)
  BY <1>4, <1>5, <1>7 DEF Doubly
<1>10. Ranked(r, G, g, h)
  BY <1>6 DEF Ranked
<1>. QED
  BY <1>8, <1>9, <1>10 DEF List

(* Putting p, which is not in the list, in the place of member q.          *)
LEMMA ReplaceOK ==
  ASSUME NEW A, NEW T, NEW F, NEW f, NEW b, NEW h, NEW e, NEW q \in F, NEW g, NEW c,
         List(A, T, F, f, b, h, e), NEW p \in A, p \notin F, p # h, p # e,
         Replaced(f, b, q, p, g, c)
  PROVE  List(A, T, (F \ {q}) \cup {p}, g, c, h, e) /\ g[e] = f[e]
<1> DEFINE P == b[q]
           N == f[q]
           G == (F \ {q}) \cup {p}
<1>0. Cells(A, T, F, f, b, h, e) /\ Doubly(F, f, b, h, e)
  BY DEF List
<1>1. /\ P \in F \cup {h} /\ N \in F \cup {e} /\ f[P] = q /\ b[N] = q
      /\ P \in A /\ N \in A /\ q \in A
      /\ g = [f EXCEPT ![p] = N, ![P] = p]
      /\ c = [[b EXCEPT ![p] = P] EXCEPT ![N] = p]
  BY <1>0 DEF Cells, Doubly, Replaced
<1>r. PICK r \in [A -> Int] : Ranked(r, F, f, h)
  BY DEF List
<1> DEFINE s == [r EXCEPT ![p] = r[q]]
<1>2. r[q] < r[N] /\ r[P] < r[q]
  BY <1>1, <1>r DEF Ranked
<1>3. P # q /\ N # q /\ P # N /\ P # p /\ N # p
  BY <1>1, <1>2, <1>r
<1>. HIDE DEF P, N
<1>4. \A x \in G \cup {h} : g[x] \in G \cup {e} /\ c[g[x]] = x
  BY <1>0, <1>1, <1>3 DEF Cells, Doubly
<1>5. \A x \in G \cup {e} : c[x] \in G \cup {h} /\ g[c[x]] = x
  BY <1>0, <1>1, <1>3 DEF Cells, Doubly
<1>6. \A x \in G \cup {h} : s[x] < s[g[x]]
  BY <1>0, <1>1, <1>2, <1>3, <1>r DEF Cells, Ranked, Doubly
<1>7. h \notin G /\ e \notin G /\ h # e
  BY <1>0 DEF Doubly
<1>8. Cells(A, T, G, g, c, h, e) /\ g[e] = f[e] /\ s \in [A -> Int]
  BY <1>0, <1>1 DEF Cells, Doubly
<1>9. Doubly(G, g, c, h, e)
  BY <1>4, <1>5, <1>7 DEF Doubly
<1>10. Ranked(s, G, g, h)
  BY <1>6 DEF Ranked
<1>. HIDE DEF s
<1>. QED
  BY <1>8, <1>9, <1>10 DEF List

(* Putting p behind the header.                                            *)
LEMMA PushOK ==
  ASSUME NEW A, NEW T, NEW F, NEW f, NEW b, NEW h, NEW e, NEW g, NEW c,
         List(A, T, F, f, b, h, e), NEW p \in A, p \notin F, p # h, p # e,
         Pushed(f, b, h, p, g, c)
  PROVE  List(A, T, F \cup {p}, g, c, h, e) /\ g[e] = f[e]
<1> DEFINE N == f[h]
           G == F \cup {p}
<1>0. Cells(A, T, F, f, b, h, e) /\ Doubly(F, f, b, h, e)
  BY DEF List
<1>1. /\ N \in F \cup {e} /\ b[N] = h /\ N \in A /\ N # p /\ N # h /\ h \in A
      /\ g = [f EXCEPT ![p] = N, ![h] = p] /\ c = [[b EXCEPT ![p] = h] EXCEPT ![N] = p]
  BY <1>0 DEF Cells, Doubly, Pushed
<1>r. PICK r \in [A -> Int] : Ranked(r, F, f, h)
  BY DEF List
<1> DEFINE s == [r EXCEPT ![p] = r[h], ![h] = r[h] - 1]
<1>2. r[h] < r[N]
  BY <1>1, <1>r DEF Ranked
<1>. HIDE DEF N
<1>4. \A x \in G \cup {h} : g[x] \in G \cup {e} /\ c[g[x]] = x
  BY <1>0, <1>1 DEF Cells, Doubly, N
<1>5. \A x \in G \cup {e} : c[x] \in G \cup {h} /\ g[c[x]] = x
  BY <1>0, <1>1 DEF Cells, Doubly, N
<1>6. \A x \in G \cup {h} : s[x] < s[g[x]]
  BY <1>0, <1>1, <1>2, <1>r DEF Cells, Ranked, Doubly
<1>7. h \notin G /\ e \notin G /\ h # e
  BY <1>0 DEF Doubly
<1>8. Cells(A, T, G, g, c, h, e) /\ g[e] = f[e] /\ s \in [A -> Int]
  BY <1>0, <1>1 DEF Cells, Doubly
<1>9. Doubly(G, g, c, h, e)
  BY <1>4, <1>5, <1>7 DEF Doubly
<1>10. Ranked(s, G, g, h)
  BY <1>6 DEF Ranked
<1>. HIDE DEF s
<1>. QED
  BY <1>8, <1>9, <1>10 DEF List

-------------------------------------------------------------------------------
USE DEF FREETAG, TERMINATOR, LOCKEDBLOCK, freelisthdr, endblock, membase,
        Addr, LastWord

(* Where the loop of reserve stands: nextfree is the successor of a member *)
(* of the list, and a request is never below the minimum size.             *)
SearchOK ==
  pc = "search" =>
    /\ req \in Requests
    /\ \/ freeptr \in Free \cup {freelisthdr} /\ nextfree = fwd[freeptr]
       \/ freeptr = endblock /\ nextfree = TERMINATOR

(* Where clearheap stands: on a block, or on the header a merge has left   *)
(* behind, whose size still leads to the start of a block.                 *)
WalkOK ==
  pc = "clear" =>
    \/ walk \in starts
    \/ tag[walk] = FREETAG /\ walk + size[walk] \in starts \cup {memsize}

(* The free list in some order: linked both ways, and without a cycle.     *)
ListOK == List(Addr, TERMINATOR, Free, fwd, bck, freelisthdr, endblock)

ArenaOK == Tiled /\ Trailers /\ Coalesced /\ Sentinels /\ ListOK

IInv == TypeOK /\ ArenaOK /\ SearchOK /\ WalkOK

-------------------------------------------------------------------------------
(* The types of the memory alone. *)
MemTypeOK ==
  /\ size \in [Addr -> 0 .. MaxMem]
  /\ tag \in [Addr -> {FREETAG, LOCKEDBLOCK, 0, 1}]
  /\ fwd \in [Addr -> Addr \cup {TERMINATOR}]
  /\ bck \in [Addr -> Addr \cup {TERMINATOR}]
  /\ trl \in [Addr -> {-a : a \in Addr}]
  /\ starts \subseteq Addr

(* What release relies on when it is given the n words at x: x is a live   *)
(* block, or the words expand_heap has just added.                         *)
Sizes(ms) ==
  /\ FlhSize \in Nat /\ 0 < FlhSize /\ MinSize \in Nat /\ FlhSize < MinSize
  /\ ms \in Nat /\ MaxMem \in Nat /\ ms <= MaxMem

Given(x, n, ms) ==
  /\ x \in Nat /\ 2 * FlhSize <= x /\ x < ms /\ x \notin Free
  /\ n \in Nat /\ n >= MinSize
  /\ x + n \in starts \cup {ms} /\ x + n <= ms

BlockOK(b, x, ms) ==
  /\ b \in Nat /\ 2 * FlhSize <= b /\ b < ms
  /\ size[b] \in Nat /\ size[b] >= MinSize /\ tag[b] # LOCKEDBLOCK
  /\ b + size[b] \in starts \cup {x, ms} /\ b + size[b] <= ms

Others(x, n, ms) ==
  /\ membase \in starts \cup {x}
  /\ \A b \in starts \ {x} : BlockOK(b, x, ms)
  /\ \A b, c \in starts \ {x} : b < c => b + size[b] <= c
  /\ \A b \in starts \ {x} : /\ b < x => b + size[b] <= x
                             /\ x < b => x + n <= b
  /\ \A e \in starts \cup {x, ms} :
       \/ e = membase
       \/ e = x + n
       \/ \E b \in starts \ {x} : b + size[b] = e

PreRelease(x, n, ms) ==
  /\ Sizes(ms) /\ Given(x, n, ms) /\ Others(x, n, ms)
  /\ MemTypeOK /\ Trailers /\ Coalesced /\ Sentinels /\ ListOK

(* The tags at the two ends of x find its free neighbours, and only them.  *)
LEMMA Neighbours ==
  ASSUME NEW x, NEW n, NEW ms, PreRelease(x, n, ms)
  PROVE  /\ FollowingFree(x, n, ms) => x + n \in Free
         /\ ~FollowingFree(x, n, ms) => x + n \notin Free
         /\ PrecedingFree(x, ms) => /\ PrevBlk(x) \in Free
                                    /\ PrevBlk(x) + size[PrevBlk(x)] = x
         /\ ~PrecedingFree(x, ms) => \A b \in Free : b + size[b] # x
<1> USE DEF PreRelease
<1>0. /\ x \in Nat /\ ms \in Nat /\ n \in Nat /\ n > 0 /\ x # ms
      /\ \A b \in Free : b \in starts \ {x} /\ tag[b] = FREETAG
  BY DEF Given, Sizes, Free
<1>1. FollowingFree(x, n, ms) => x + n \in Free
  BY DEF FollowingFree, Free, Given
<1>2. x + n \in Free => FollowingFree(x, n, ms)
  <2>1. x + n \in Free => x + n \in starts \ {x}
    BY <1>0
  <2>2. x + n \in starts \ {x} => x + n < ms
    BY <1>0 DEF Others, BlockOK
  <2>. QED
    BY <1>0, <2>1, <2>2 DEF FollowingFree
<1>3. ASSUME NEW b \in Free, b + size[b] = x
      PROVE  PrevBlk(x) = b /\ PrecedingFree(x, ms)
  <2>1. b \in starts \ {x}
    BY <1>0
  <2>2. b \in Nat /\ 0 < b /\ b < ms /\ size[b] \in Nat
    BY <2>1 DEF Others, BlockOK, Sizes
  <2>3. trl[b + size[b] - 1] = -b
    BY <2>1 DEF Trailers
  <2>. QED
    BY <1>3, <2>2, <2>3 DEF PrevBlk, PrecedingFree
<1>4. ASSUME x # membase, \A b \in Free : b + size[b] # x
      PROVE  trl[x - 1] = 0
  <2>1. PICK b \in starts \ {x} : b + size[b] = x
    BY <1>0, <1>4 DEF Others
  <2>2. b \notin Free
    BY <1>4, <2>1
  <2>3. trl[b + size[b] - 1] = 0
    BY <2>2 DEF Trailers
  <2>4. b \in Nat /\ size[b] \in Nat
    BY <2>1 DEF Others, BlockOK
  <2>5. b + size[b] - 1 = x - 1
    BY <2>1, <2>4
  <2>. QED
    BY <2>3, <2>5
<1>5. ASSUME x = membase
      PROVE  trl[x - 1] = 0 /\ \A b \in Free : b + size[b] # x
  <2>1. trl[x - 1] = 0
    <3> HIDE DEF membase
    <3>. QED
      BY <1>5 DEF Trailers
  <2>2. \A b \in starts \ {x} : b \in Nat /\ x <= b /\ size[b] \in Nat
    BY <1>5 DEF Others, BlockOK
  <2>3. ASSUME NEW b \in starts \ {x}
        PROVE  b + size[b] # x
    <3>1. b \in Nat /\ x <= b /\ size[b] \in Nat /\ b # x
      BY <2>2
    <3>. QED
      BY <1>0, <3>1
  <2>. QED
    BY <1>0, <2>1, <2>3
<1>6. trl[x - 1] = 0 => ~PrecedingFree(x, ms)
  BY <1>0 DEF PrecedingFree, PrevBlk
<1>7. PrecedingFree(x, ms) => \E b \in Free : b + size[b] = x
  BY <1>4, <1>5, <1>6
<1>. QED
  BY <1>1, <1>2, <1>3, <1>7

(* What release leaves in memory: one free block from a to z, made of the  *)
(* words given and of the free neighbours, if any.                         *)
Eaten(x, n, a, z) == {b \in {x, x + n} : a < b /\ b < z}

Merged(x, n, ms, a, z) ==
  /\ memsize' = ms
  /\ starts' = (starts \cup {a}) \ Eaten(x, n, a, z)
  /\ \A b \in starts' : size'[b] = IF b = a THEN z - a ELSE size[b]
  /\ Free' = (Free \cup {a}) \ Eaten(x, n, a, z)
  /\ \A b \in starts' : tag'[b] # LOCKEDBLOCK
  /\ trl' = [trl EXCEPT ![z - 1] = -a]
  /\ \/ a = x /\ \A b \in Free : b + size[b] # x
     \/ a \in Free /\ a + size[a] = x
  /\ \/ z = x + n /\ z \notin Free
     \/ x + n \in Free /\ z = x + n + size[x + n]

LEMMA MergedOK ==
  ASSUME NEW x, NEW n, NEW ms, NEW a, NEW z,
         PreRelease(x, n, ms), Merged(x, n, ms, a, z)
  PROVE  Tiled' /\ Trailers' /\ Coalesced'
<1> USE DEF PreRelease
<1>0. /\ x \in Nat /\ n \in Nat /\ ms \in Nat /\ n > 0 /\ x + n <= ms /\ x # ms
      /\ \A b \in Free : b \in starts \ {x}
      /\ \A b \in starts \ {x} : BlockOK(b, x, ms)
  BY DEF Given, Sizes, Others, Free
<1>1. /\ a \in Nat /\ a \in starts \cup {x} /\ 2 * FlhSize <= a /\ a <= x
      /\ \A b \in Free : b + size[b] # a
  <2>1. CASE a = x /\ \A b \in Free : b + size[b] # x
    BY <1>0, <2>1 DEF Given
  <2>2. CASE a \in Free /\ a + size[a] = x
    <3>1. BlockOK(a, x, ms) /\ a \in starts
      BY <1>0, <2>2
    <3>2. \A b \in Free : b + size[b] # a
      BY <2>2 DEF Coalesced, BlockEnd
    <3>. QED
      BY <1>0, <2>2, <3>1, <3>2 DEF BlockOK
  <2>. QED
    BY <2>1, <2>2 DEF Merged
<1>2. /\ z \in Nat /\ z \in starts \cup {ms} /\ x + n <= z /\ z <= ms /\ z \notin Free
      /\ \A b \in starts \ {x} : a < b /\ b < z => b = x + n /\ b + size[b] = z
  <2>1. ASSUME NEW b \in starts \ {x}, a < b PROVE x + n <= b
    <3>1. BlockOK(b, x, ms)
      BY <1>0
    <3>2. x < b => x + n <= b
      BY DEF Others
    <3>3. CASE a = x
      BY <2>1, <3>2, <3>3
    <3>4. CASE a # x
      <4>1. a \in starts \ {x} /\ a + size[a] = x
        BY <1>1, <3>4 DEF Merged
      <4>2. a + size[a] <= b
        BY <2>1, <4>1 DEF Others
      <4>. QED
        BY <1>0, <3>1, <3>2, <4>1, <4>2 DEF BlockOK
    <3>. QED
      BY <3>3, <3>4
  <2>2. CASE z = x + n /\ z \notin Free
    <3>1. z \in starts \cup {ms}
      BY <2>2 DEF Given
    <3>2. ASSUME NEW b \in starts \ {x}, a < b, b < z PROVE FALSE
      BY <1>0, <2>1, <2>2, <3>2 DEF BlockOK
    <3>. QED
      BY <1>0, <2>2, <3>1, <3>2
  <2>3. CASE x + n \in Free /\ z = x + n + size[x + n]
    <3>1. BlockOK(x + n, x, ms) /\ x + n \in starts \ {x}
      BY <1>0, <2>3
    <3>2. z \notin Free
      BY <2>3 DEF Coalesced, BlockEnd
    <3>3. z \in starts \cup {ms} /\ z \in Nat /\ x + n <= z /\ z <= ms
      BY <1>0, <2>3, <3>1 DEF BlockOK
    <3>4. ASSUME NEW b \in starts \ {x}, a < b, b < z PROVE b = x + n /\ b + size[b] = z
      <4>1. x + n <= b /\ BlockOK(b, x, ms)
        BY <1>0, <2>1, <3>4
      <4>2. x + n < b => x + n + size[x + n] <= b
        BY <3>1, <3>4 DEF Others
      <4>3. b = x + n
        BY <1>0, <2>3, <3>3, <3>4, <4>1, <4>2 DEF BlockOK
      <4>. QED
        BY <2>3, <4>3
    <3>. QED
      BY <3>2, <3>3, <3>4
  <2>. QED
    BY <2>2, <2>3 DEF Merged
<1>s. /\ starts' = {b \in starts \cup {x} : b <= a \/ z <= b}
      /\ Free' = {b \in Free : b <= a \/ z <= b} \cup {a}
  <2>1. \A b \in starts \cup {x} : b \in Nat
    BY <1>0 DEF BlockOK
  <2>2. \A b \in starts \cup {x} : b \in Eaten(x, n, a, z) <=> a < b /\ b < z
    BY <1>2, <2>1 DEF Eaten
  <2>3. \A b \in starts \cup {x} : (a < b /\ b < z) <=> ~(b <= a \/ z <= b)
    BY <1>1, <1>2, <2>1
  <2>4. x \notin starts => a = x \/ x \in Eaten(x, n, a, z)
    BY <1>0, <1>1, <1>2, <2>2
  <2>5. /\ starts' = (starts \cup {a}) \ Eaten(x, n, a, z)
        /\ Free' = (Free \cup {a}) \ Eaten(x, n, a, z)
    BY DEF Merged
  <2>6. a \in starts \cup {x} /\ a <= a /\ Free \subseteq starts
    BY <1>0, <1>1
  <2>7. \A b \in starts \cup {x} : b \in Eaten(x, n, a, z) <=> ~(b <= a \/ z <= b)
    BY <2>2, <2>3
  <2> DEFINE E == Eaten(x, n, a, z)
             In(b) == b <= a \/ z <= b
  <2>8. /\ \A b \in starts \cup {x} : b \in E <=> ~In(b)
        /\ In(a) /\ starts' = (starts \cup {a}) \ E /\ Free' = (Free \cup {a}) \ E
        /\ x \notin starts => a = x \/ x \in E
    BY <2>4, <2>5, <2>6, <2>7
  <2> HIDE DEF E, In
  <2>9. starts' = {b \in starts \cup {x} : In(b)}
    BY <2>6, <2>8
  <2>10. Free' = {b \in Free : In(b)} \cup {a}
    BY <2>6, <2>8
  <2>. QED
    BY <2>9, <2>10 DEF In
<1>3. ASSUME NEW b \in starts', b # a
      PROVE  /\ b \in starts \ {x} /\ BlockOK(b, x, ms) /\ size'[b] = size[b]
             /\ b + size[b] <= a \/ z <= b
             /\ b < a => b + size[b] <= a
             /\ b > a => z <= b
  <2>1. b \in starts \cup {x} /\ (b <= a \/ z <= b) /\ size'[b] = size[b]
    BY <1>s, <1>3 DEF Merged
  <2>2. b # x
    BY <1>0, <1>1, <1>2, <1>3, <2>1
  <2>3. BlockOK(b, x, ms)
    BY <1>0, <2>1, <2>2
  <2>4. b < a => b + size[b] <= a
    BY <1>1, <2>1, <2>2 DEF Others
  <2>. QED
    BY <1>0, <1>1, <1>2, <1>3, <2>1, <2>2, <2>3, <2>4 DEF BlockOK
<1>4. /\ a \in starts' /\ a < z /\ size'[a] = z - a /\ a + size'[a] = z
      /\ z \in starts' \cup {ms} /\ size'[a] >= MinSize /\ a \in Free'
  <2>1. a \in starts' /\ size'[a] = z - a /\ a \in Free' /\ z \in starts' \cup {ms}
    BY <1>s, <1>0, <1>1, <1>2 DEF Merged
  <2>2. n >= MinSize /\ MinSize \in Nat
    BY DEF Given, Sizes
  <2>. QED
    BY <1>0, <1>1, <1>2, <2>1, <2>2
<1>5. Tiled'
  <2>1. membase' \in starts' /\ starts' \subseteq (membase .. memsize - 1)'
    <3>1. \A b \in starts' : b \in Nat /\ 2 * FlhSize <= b /\ b < ms
      BY <1>0, <1>1, <1>2, <1>3, <1>4 DEF BlockOK
    <3>2. 2 * FlhSize \in starts' /\ memsize' = ms
      BY <1>s, <1>1 DEF Merged, Others, Sizes
    <3>. QED
      BY <3>1, <3>2, <1>0 DEF Sizes
  <2>2. ASSUME NEW b \in starts'
        PROVE  size'[b] >= MinSize /\ b + size'[b] \in starts' \cup {ms}
    <3>1. CASE b = a
      BY <1>4, <3>1
    <3>2. CASE b # a
      <4>1. /\ BlockOK(b, x, ms) /\ size'[b] = size[b] /\ b + size[b] \in Nat
            /\ b + size[b] <= a \/ z <= b + size[b]
        BY <1>2, <1>3, <3>2 DEF BlockOK
      <4>2. b + size[b] \in starts \cup {x, ms}
        BY <4>1 DEF BlockOK
      <4>. QED
        BY <1>s, <4>1, <4>2 DEF Merged, BlockOK
    <3>. QED
      BY <3>1, <3>2
  <2>3. ASSUME NEW b \in starts', NEW c \in starts', b < c
        PROVE  b + size'[b] <= c
    <3>1. CASE b = a
      BY <1>1, <1>3, <1>4, <2>3, <3>1
    <3>2. CASE c = a
      BY <1>1, <1>3, <2>3, <3>2
    <3>3. CASE b # a /\ c # a
      BY <1>3, <2>3, <3>3 DEF Others
    <3>. QED
      BY <3>1, <3>2, <3>3
  <2>4. ASSUME NEW e \in starts' \cup {ms}, e # membase
        PROVE  \E b \in starts' : b + size'[b] = e
    <3>1. CASE e = z
      BY <1>4, <3>1
    <3>2. CASE e # z
      <4>1. e \in starts \cup {x, ms} /\ e \in Nat /\ (e <= a \/ z < e) /\ e # x + n
        BY <1>s, <1>0, <1>1, <1>2, <1>3, <3>2 DEF Merged, BlockOK
      <4>2. PICK b \in starts \ {x} : b + size[b] = e
        BY <2>4, <4>1 DEF Others
      <4>3. BlockOK(b, x, ms)
        BY <1>0
      <4>4. b <= a \/ z <= b
        BY <1>1, <1>2, <3>2, <4>2, <4>3 DEF BlockOK
      <4>5. b # a
        <5>1. a = x \/ a + size[a] = x
          BY <1>s DEF Merged
        <5>2. e # x \/ a = x
          BY <1>0, <1>1, <1>2, <4>1
        <5>. QED
          BY <4>2, <5>1, <5>2
      <4>6. b \in starts'
        BY <1>s, <4>4 DEF Merged
      <4>7. size'[b] = size[b]
        BY <1>3, <4>5, <4>6
      <4>. QED
        BY <4>2, <4>6, <4>7
    <3>. QED
      BY <3>1, <3>2
  <2>5. \A b \in starts' : tag'[b] # LOCKEDBLOCK
    BY <1>s DEF Merged
  <2>6. memsize' = ms
    BY <1>s DEF Merged
  <2>. QED
    BY <2>1, <2>2, <2>3, <2>4, <2>5, <2>6 DEF Tiled, BlockEnd
<1>6. Trailers'
  <2>0. trl \in [Addr -> {-w : w \in Addr}] /\ trl' = [trl EXCEPT ![z - 1] = -a] /\ z - 1 \in Addr
        /\ FlhSize \in Nat /\ 0 < FlhSize /\ ms <= MaxMem /\ MaxMem \in Nat
    <3>1. FlhSize \in Nat /\ 0 < FlhSize /\ ms <= MaxMem /\ MaxMem \in Nat
      BY DEF Sizes
    <3>2. z - 1 \in Addr
      BY <1>1, <1>2, <1>4, <1>0, <3>1
    <3>. QED
      BY <1>s, <3>1, <3>2 DEF Merged, MemTypeOK
  <2>1. trl'[2 * FlhSize - 1] = 0
    <3>1. 2 * FlhSize - 1 \in Addr /\ 2 * FlhSize - 1 # z - 1
      BY <1>1, <1>2, <1>4, <1>0, <2>0
    <3>2. trl[2 * FlhSize - 1] = 0
      BY DEF Trailers
    <3>. QED
      BY <2>0, <3>1, <3>2
  <2>2. ASSUME NEW b \in starts'
        PROVE  trl'[b + size'[b] - 1] = IF b \in Free' THEN -b ELSE 0
    <3>1. CASE b = a
      <4>1. trl'[z - 1] = -a
        BY <2>0
      <4>. QED
        <5>1. a + size'[a] - 1 = z - 1
          BY <1>1, <1>2, <1>4
        <5>. QED
          BY <1>4, <3>1, <4>1, <5>1
    <3>2. CASE b # a
      <4>1. /\ b \in starts /\ b \in Nat /\ size[b] \in Nat /\ size'[b] = size[b] /\ size[b] > 0
            /\ b + size[b] <= ms /\ (b + size[b] <= a \/ z <= b)
        BY <1>3, <3>2 DEF BlockOK, Sizes
      <4>2. b + size[b] - 1 \in Addr /\ b + size[b] - 1 # z - 1
        <5>1. b + size[b] # z
          BY <1>1, <1>2, <1>4, <4>1
        <5>. QED
          <6>1. ms \in Nat /\ MaxMem \in Nat /\ ms <= MaxMem
            BY <1>0, <2>0
          <6>2. b + size[b] - 1 \in 0 .. MaxMem - 1
            BY <4>1, <6>1
          <6>3. b + size[b] - 1 # z - 1
            BY <1>2, <4>1, <5>1
          <6>. QED
            BY <6>2, <6>3
      <4>3. trl'[b + size[b] - 1] = trl[b + size[b] - 1]
        BY <2>0, <4>2
      <4>4. b \in Free' <=> b \in Free
        BY <1>s, <3>2 DEF Merged
      <4>. QED
        BY <4>1, <4>3, <4>4 DEF Trailers
    <3>. QED
      BY <3>1, <3>2
  <2>. QED
    BY <2>1, <2>2 DEF Trailers
<1>7. Coalesced'
  <2> SUFFICES ASSUME NEW b \in Free'
               PROVE  b + size'[b] \notin Free'
    BY DEF Coalesced, BlockEnd
  <2>1. CASE b = a
    BY <1>s, <1>1, <1>2, <1>4, <2>1 DEF Merged
  <2>2. CASE b # a
    <3>1. b \in Free /\ b \in starts'
      BY <1>s, <2>2, <1>0 DEF Merged
    <3>2. size'[b] = size[b] /\ b + size[b] \notin Free /\ b + size[b] # a
      BY <1>1, <1>3, <2>2, <3>1 DEF Coalesced, BlockEnd
    <3>. QED
      BY <1>s, <3>2 DEF Merged
  <2>. QED
    BY <2>1, <2>2
<1>. QED
  BY <1>5, <1>6, <1>7

(* Where the blocks that release touches are.                              *)
LEMMA Places ==
  ASSUME NEW x, NEW n, NEW ms, PreRelease(x, n, ms)
  PROVE  /\ x \in Addr /\ x # freelisthdr /\ x # endblock /\ x \notin Free
         /\ x \in Nat /\ n \in Nat /\ n \in 0 .. MaxMem /\ x + n <= MaxMem
         /\ x + n - 1 \in Addr /\ n > 0
         /\ freelisthdr \in Addr /\ endblock \in Addr
         /\ \A b \in Free : /\ b \in starts \ {x} /\ b \in Addr /\ b \in Nat
                            /\ b # freelisthdr /\ b # endblock
                            /\ size[b] \in Nat /\ b + size[b] <= MaxMem /\ size[b] > 0
                            /\ tag[b] = FREETAG
         /\ \A b \in starts \ {x} : b \in Addr /\ tag[b] # LOCKEDBLOCK
<1>1. /\ FlhSize \in Nat /\ 0 < FlhSize /\ MinSize \in Nat /\ FlhSize < MinSize
      /\ ms \in Nat /\ MaxMem \in Nat /\ ms <= MaxMem
      /\ x \in Nat /\ 2 * FlhSize <= x /\ x < ms /\ x \notin Free
      /\ n \in Nat /\ n >= MinSize /\ x + n <= ms
  BY DEF PreRelease, Sizes, Given
<1>2. \A b \in starts \ {x} : BlockOK(b, x, ms)
  BY DEF PreRelease, Others
<1>3. \A b \in Free : b \in starts \ {x} /\ tag[b] = FREETAG
  BY <1>1 DEF Free
<1>4. /\ x \in Addr /\ n \in 0 .. MaxMem /\ x + n <= MaxMem /\ x + n - 1 \in Addr
      /\ freelisthdr \in Addr /\ endblock \in Addr /\ x # freelisthdr /\ x # endblock
  BY <1>1
<1>5. \A b \in starts \ {x} : /\ b \in Addr /\ b \in Nat /\ tag[b] # LOCKEDBLOCK
                              /\ b # freelisthdr /\ b # endblock
                              /\ size[b] \in Nat /\ b + size[b] <= MaxMem /\ size[b] > 0
  BY <1>1, <1>2 DEF BlockOK
<1>. QED
  BY <1>1, <1>3, <1>4, <1>5

(* The four outcomes of release, each a Merged with the list it leaves.    *)
LEMMA PushFrontOK ==
  ASSUME NEW x, NEW n, NEW ms,
         PreRelease(x, n, ms), PushFront(x, n, ms), memsize' = ms
  PROVE  MemTypeOK' /\ ArenaOK'
<1>0. MemTypeOK /\ ListOK /\ Sentinels
  BY DEF PreRelease
<1>1. x + n \notin Free /\ \A b \in Free : b + size[b] # x
  BY Neighbours DEF PushFront
<1>2. /\ size' = [size EXCEPT ![x] = n]
      /\ tag' = [tag EXCEPT ![x] = FREETAG]
      /\ trl' = [trl EXCEPT ![x + n - 1] = -x]
      /\ starts' = starts \cup {x}
  BY DEF PushFront
<1>3. /\ \A b \in Addr : b # x => tag'[b] = tag[b] /\ size'[b] = size[b]
      /\ tag'[x] = FREETAG /\ size'[x] = n
  BY <1>0, <1>2, Places DEF MemTypeOK
<1>4. Free' = Free \cup {x}
  BY <1>0, <1>2, <1>3, Places DEF Free, MemTypeOK
<1> DEFINE z == x + n
<1>5. Merged(x, n, ms, x, z)
  <2>1. Eaten(x, n, x, z) = {}
    BY Places DEF Eaten
  <2>2. \A b \in starts' : size'[b] = IF b = x THEN z - x ELSE size[b]
    BY <1>2, <1>3, Places
  <2>3. \A b \in starts' : tag'[b] # LOCKEDBLOCK
    BY <1>2, <1>3, Places
  <2>4. /\ starts' = (starts \cup {x}) \ Eaten(x, n, x, z)
        /\ Free' = (Free \cup {x}) \ Eaten(x, n, x, z)
    BY <1>2, <1>4, <2>1
  <2>5. trl' = [trl EXCEPT ![z - 1] = -x]
    <3>1. z - 1 = x + n - 1
      BY Places
    <3> HIDE DEF z
    <3>. QED
      BY <1>2, <3>1
  <2>6. z = x + n /\ z \notin Free
    BY <1>1
  <2> HIDE DEF z
  <2>. QED
    BY <1>1, <2>2, <2>3, <2>4, <2>5, <2>6 DEF Merged
<1> HIDE DEF z
<1>6. Tiled' /\ Trailers' /\ Coalesced'
  BY <1>5, MergedOK
<1>7. ListOK' /\ fwd'[endblock] = fwd[endblock]
  <2>1. x \in Addr /\ x # freelisthdr /\ x # endblock /\ x \notin Free
    BY Places
  <2> HIDE DEF Addr, TERMINATOR, freelisthdr, endblock
  <2>2. fwd[freelisthdr] # TERMINATOR
    BY <1>0, ListFacts DEF ListOK
  <2>3. Pushed(fwd, bck, freelisthdr, x, fwd', bck')
    BY <2>2 DEF PushFront, Pushed
  <2>4. /\ List(Addr, TERMINATOR, Free', fwd', bck', freelisthdr, endblock)
        /\ fwd'[endblock] = fwd[endblock]
    BY <1>0, <1>4, <2>1, <2>3, PushOK DEF ListOK
  <2>. QED
    BY <2>4 DEF ListOK, freelisthdr, endblock, Addr, TERMINATOR
<1>8. MemTypeOK'
  <2>0. x \in Addr /\ n \in 0 .. MaxMem
    BY Places
  <2> HIDE DEF Addr
  <2>1. size' \in [Addr -> 0 .. MaxMem]
    BY <1>0, <1>2, <2>0 DEF MemTypeOK
  <2>2. tag' \in [Addr -> {FREETAG, LOCKEDBLOCK, 0, 1}]
    BY <1>0, <1>2, <2>0 DEF MemTypeOK
  <2>3. trl' \in [Addr -> {-a : a \in Addr}]
    BY <1>0, <1>2, <2>0 DEF MemTypeOK
  <2>4. starts' \subseteq Addr
    BY <1>0, <1>2, <2>0 DEF MemTypeOK
  <2>. QED
    BY <1>7, <2>1, <2>2, <2>3, <2>4 DEF MemTypeOK, ListOK, List, Cells
<1>9. Sentinels'
  BY <1>0, <1>3, <1>7, Places DEF Sentinels
<1>. QED
  BY <1>6, <1>7, <1>8, <1>9 DEF ArenaOK

LEMMA MergePrecedingOK ==
  ASSUME NEW x, NEW n, NEW ms,
         PreRelease(x, n, ms), MergePreceding(x, n, ms), memsize' = ms
  PROVE  MemTypeOK' /\ ArenaOK'
<1> DEFINE p == PrevBlk(x)
           sz == size[p] + n
           z == x + n
<1>0. MemTypeOK /\ ListOK /\ Sentinels
  BY DEF PreRelease
<1>1. z \notin Free /\ p \in Free /\ p + size[p] = x
  BY Neighbours DEF MergePreceding
<1>2. /\ size' = [size EXCEPT ![p] = sz, ![x] = n]
      /\ tag' = [tag EXCEPT ![x] = 0]
      /\ trl' = [trl EXCEPT ![LastWord(p, sz)] = -p]
      /\ starts' = starts \ {x}
      /\ fwd' = fwd /\ bck' = bck
  BY DEF MergePreceding, links
<1>f. /\ p \in Addr /\ p \in Nat /\ x \in Nat /\ n \in Nat /\ size[p] \in Nat /\ size[p] > 0
      /\ p \in starts /\ p # x /\ x + n <= MaxMem /\ x + n - 1 \in Addr
  <2> HIDE DEF p
  <2>. QED
    BY <1>1, Places
<1>p. /\ p \in Addr /\ p \in Nat /\ x \in Nat /\ n \in Nat /\ size[p] \in Nat /\ size[p] > 0
      /\ p < x /\ z - p = sz /\ LastWord(p, sz) = z - 1 /\ z - 1 \in Addr
      /\ sz \in 0 .. MaxMem /\ p \in starts /\ p # x /\ z = x + n
  <2> HIDE DEF p
  <2>1. sz \in Nat /\ sz <= MaxMem /\ MaxMem \in Nat
    BY <1>1, <1>f, HeapConstants
  <2>2. z - p = sz /\ LastWord(p, sz) = z - 1 /\ z - 1 \in Addr /\ p < x
    BY <1>1, <1>f
  <2>. QED
    BY <1>f, <2>1, <2>2
<1> HIDE DEF p, sz, z
<1>3. /\ \A b \in Addr : b # x => tag'[b] = tag[b]
      /\ \A b \in Addr : b # x /\ b # p => size'[b] = size[b]
      /\ size'[p] = sz
  BY <1>0, <1>2, <1>p, Places DEF MemTypeOK
<1>4. Free' = Free
  BY <1>0, <1>2, <1>3, Places DEF Free, MemTypeOK
<1>5. Merged(x, n, ms, p, z)
  <2>1. Eaten(x, n, p, z) = {x}
    BY <1>p, Places DEF Eaten
  <2>2. \A b \in starts' : size'[b] = IF b = p THEN z - p ELSE size[b]
    BY <1>2, <1>3, <1>p, Places
  <2>3. \A b \in starts' : tag'[b] # LOCKEDBLOCK
    BY <1>2, <1>3, Places
  <2>4. /\ starts' = (starts \cup {p}) \ Eaten(x, n, p, z)
        /\ Free' = (Free \cup {p}) \ Eaten(x, n, p, z)
    BY <1>1, <1>2, <1>4, <1>p, <2>1, Places
  <2>5. trl' = [trl EXCEPT ![z - 1] = -p]
    BY <1>2, <1>p
  <2>. QED
    BY <1>1, <1>p, <2>2, <2>3, <2>4, <2>5 DEF Merged
<1>6. Tiled' /\ Trailers' /\ Coalesced'
  BY <1>5, MergedOK
<1>7. ListOK' /\ fwd'[endblock] = fwd[endblock]
  BY <1>0, <1>2, <1>4 DEF ListOK
<1>8. MemTypeOK'
  <2>0. x \in Addr /\ n \in 0 .. MaxMem
    BY Places
  <2>q. LastWord(p, sz) \in Addr
    BY <1>p
  <2> HIDE DEF Addr, LastWord
  <2>1. size' \in [Addr -> 0 .. MaxMem]
    BY <1>0, <1>2, <1>p, <2>0 DEF MemTypeOK
  <2>2. tag' \in [Addr -> {FREETAG, LOCKEDBLOCK, 0, 1}]
    BY <1>0, <1>2, <2>0 DEF MemTypeOK
  <2>3. trl' \in [Addr -> {-a : a \in Addr}]
    BY <1>0, <1>2, <1>p, <2>q DEF MemTypeOK
  <2>4. starts' \subseteq Addr
    BY <1>0, <1>2, <2>0 DEF MemTypeOK
  <2>. QED
    BY <1>7, <2>1, <2>2, <2>3, <2>4 DEF MemTypeOK, ListOK, List, Cells
<1>9. Sentinels'
  BY <1>0, <1>1, <1>3, <1>7, Places DEF Sentinels
<1>. QED
  BY <1>6, <1>7, <1>8, <1>9 DEF ArenaOK

LEMMA MergeFollowingOK ==
  ASSUME NEW x, NEW n, NEW ms,
         PreRelease(x, n, ms), MergeFollowing(x, n, ms), memsize' = ms
  PROVE  MemTypeOK' /\ ArenaOK'
<1> DEFINE q == x + n
           sz == size[q] + n
           z == q + size[q]
<1>0. MemTypeOK /\ ListOK /\ Sentinels
  BY DEF PreRelease
<1>1. q \in Free /\ \A b \in Free : b + size[b] # x
  BY Neighbours DEF MergeFollowing
<1>2. /\ size' = [size EXCEPT ![x] = sz]
      /\ tag' = [tag EXCEPT ![x] = FREETAG]
      /\ trl' = [trl EXCEPT ![LastWord(x, sz)] = -x]
      /\ starts' = (starts \cup {x}) \ {q}
  BY DEF MergeFollowing
<1>f. /\ q \in Addr /\ q \in Nat /\ size[q] \in Nat /\ size[q] > 0
      /\ q \in starts /\ q # x /\ q + size[q] <= MaxMem
  <2> HIDE DEF q
  <2>. QED
    BY <1>1, Places
<1>g. x \in Nat /\ n \in Nat /\ n > 0 /\ MaxMem \in Nat /\ q = x + n
  BY Places, HeapConstants
<1>p. /\ q \in Addr /\ q \in Nat /\ x \in Nat /\ n \in Nat /\ size[q] \in Nat /\ size[q] > 0
      /\ x < q /\ q < z /\ z - x = sz /\ LastWord(x, sz) = z - 1 /\ z - 1 \in Addr
      /\ sz \in 0 .. MaxMem /\ q \in starts /\ q # x /\ q = x + n /\ z = q + size[q]
  <2> HIDE DEF q
  <2>1. sz \in Nat /\ sz <= MaxMem /\ x < q /\ q < z
    BY <1>f, <1>g
  <2>2. z - x = sz /\ LastWord(x, sz) = z - 1 /\ z - 1 \in Addr
    BY <1>f, <1>g
  <2>. QED
    BY <1>f, <1>g, <2>1, <2>2
<1> HIDE DEF q, sz, z
<1>3. /\ \A b \in Addr : b # x => tag'[b] = tag[b] /\ size'[b] = size[b]
      /\ size'[x] = sz /\ tag'[x] = FREETAG
  BY <1>0, <1>2, <1>p, Places DEF MemTypeOK
<1>4. Free' = (Free \ {q}) \cup {x}
  <2>1. starts' = (starts \cup {x}) \ {q} /\ starts \subseteq Addr /\ x \in Addr /\ q # x
    BY <1>0, <1>2, <1>p, Places DEF MemTypeOK
  <2>2. \A b \in Addr : b # x => tag'[b] = tag[b]
    BY <1>3
  <2>3. tag'[x] = FREETAG
    BY <1>3
  <2>. HIDE DEF FREETAG, Addr
  <2>. QED
    BY <2>1, <2>2, <2>3 DEF Free
<1>5. Merged(x, n, ms, x, z)
  <2>1. Eaten(x, n, x, z) = {q}
    BY <1>p, Places DEF Eaten
  <2>2. \A b \in starts' : size'[b] = IF b = x THEN z - x ELSE size[b]
    BY <1>2, <1>3, <1>p, Places
  <2>3. \A b \in starts' : tag'[b] # LOCKEDBLOCK
    BY <1>2, <1>3, Places
  <2>4. /\ starts' = (starts \cup {x}) \ Eaten(x, n, x, z)
        /\ Free' = (Free \cup {x}) \ Eaten(x, n, x, z)
    BY <1>1, <1>2, <1>4, <1>p, <2>1, Places
  <2>5. trl' = [trl EXCEPT ![z - 1] = -x]
    BY <1>2, <1>p
  <2>. QED
    BY <1>1, <1>p, <2>2, <2>3, <2>4, <2>5 DEF Merged
<1>6. Tiled' /\ Trailers' /\ Coalesced'
  BY <1>5, MergedOK
<1>7. ListOK' /\ fwd'[endblock] = fwd[endblock]
  <2>1. x \in Addr /\ x # freelisthdr /\ x # endblock /\ x \notin Free
    BY Places
  <2> HIDE DEF Addr, TERMINATOR, freelisthdr, endblock
  <2>2. fwd[q] # TERMINATOR
    BY <1>0, <1>1, ListFacts DEF ListOK
  <2>3. Replaced(fwd, bck, q, x, fwd', bck')
    BY <2>2 DEF MergeFollowing, Replaced, q
  <2>4. /\ List(Addr, TERMINATOR, Free', fwd', bck', freelisthdr, endblock)
        /\ fwd'[endblock] = fwd[endblock]
    BY <1>0, <1>1, <1>4, <2>1, <2>3, ReplaceOK DEF ListOK
  <2>. QED
    BY <2>4 DEF ListOK, freelisthdr, endblock, Addr, TERMINATOR
<1>8. MemTypeOK'
  <2>0. x \in Addr
    BY Places
  <2>q. LastWord(x, sz) \in Addr
    BY <1>p
  <2> HIDE DEF Addr, LastWord
  <2>1. size' \in [Addr -> 0 .. MaxMem]
    BY <1>0, <1>2, <1>p, <2>0 DEF MemTypeOK
  <2>2. tag' \in [Addr -> {FREETAG, LOCKEDBLOCK, 0, 1}]
    BY <1>0, <1>2, <2>0 DEF MemTypeOK
  <2>3. trl' \in [Addr -> {-a : a \in Addr}]
    BY <1>0, <1>2, <2>0, <2>q DEF MemTypeOK
  <2>4. starts' \subseteq Addr
    BY <1>0, <1>2, <2>0 DEF MemTypeOK
  <2>. QED
    BY <1>7, <2>1, <2>2, <2>3, <2>4 DEF MemTypeOK, ListOK, List, Cells
<1>9. Sentinels'
  BY <1>0, <1>3, <1>7, Places DEF Sentinels
<1>. QED
  BY <1>6, <1>7, <1>8, <1>9 DEF ArenaOK

LEMMA MergeThreeOK ==
  ASSUME NEW x, NEW n, NEW ms,
         PreRelease(x, n, ms), MergeThree(x, n, ms), memsize' = ms
  PROVE  MemTypeOK' /\ ArenaOK'
<1> DEFINE q == x + n
           p == PrevBlk(x)
           sz == size[p] + n + size[q]
           z == q + size[q]
<1>0. MemTypeOK /\ ListOK /\ Sentinels
  BY DEF PreRelease
<1>1. q \in Free /\ p \in Free /\ p + size[p] = x
  BY Neighbours DEF MergeThree
<1>2. /\ size' = [size EXCEPT ![p] = sz, ![x] = n]
      /\ tag' = [tag EXCEPT ![x] = 0]
      /\ trl' = [trl EXCEPT ![LastWord(p, sz)] = -p]
      /\ starts' = starts \ {x, q}
  BY DEF MergeThree
<1>f. /\ q \in Addr /\ q \in Nat /\ size[q] \in Nat /\ size[q] > 0
      /\ q \in starts /\ q # x /\ q + size[q] <= MaxMem
      /\ p \in Addr /\ p \in Nat /\ size[p] \in Nat /\ size[p] > 0
      /\ p \in starts /\ p # x
  <2> HIDE DEF p, q
  <2>. QED
    BY <1>1, Places
<1>g. x \in Nat /\ n \in Nat /\ n > 0 /\ MaxMem \in Nat /\ q = x + n
  BY Places, HeapConstants
<1>p. /\ p \in Addr /\ p \in Nat /\ x \in Nat /\ n \in Nat /\ size[p] \in Nat /\ size[p] > 0
      /\ q \in Addr /\ q \in Nat /\ size[q] \in Nat /\ size[q] > 0 /\ q \in starts
      /\ p < x /\ x < q /\ q < z /\ z - p = sz /\ LastWord(p, sz) = z - 1 /\ z - 1 \in Addr
      /\ sz \in 0 .. MaxMem /\ p \in starts /\ p # x /\ p # q /\ q = x + n /\ z = q + size[q]
  <2> HIDE DEF p, q
  <2>1. sz \in Nat /\ sz <= MaxMem /\ x < q /\ q < z /\ p < x /\ p # q
    BY <1>1, <1>f, <1>g
  <2>2. z - p = sz /\ LastWord(p, sz) = z - 1 /\ z - 1 \in Addr
    BY <1>1, <1>f, <1>g
  <2>. QED
    BY <1>f, <1>g, <2>1, <2>2
<1> HIDE DEF p, q, sz, z
<1>3. /\ \A b \in Addr : b # x => tag'[b] = tag[b]
      /\ \A b \in Addr : b # x /\ b # p => size'[b] = size[b]
      /\ size'[p] = sz
  BY <1>0, <1>2, <1>p, Places DEF MemTypeOK
<1>4. Free' = Free \ {q}
  BY <1>0, <1>2, <1>3, Places DEF Free, MemTypeOK
<1>5. Merged(x, n, ms, p, z)
  <2>1. Eaten(x, n, p, z) = {x, q}
    BY <1>p, Places DEF Eaten
  <2>2. \A b \in starts' : size'[b] = IF b = p THEN z - p ELSE size[b]
    BY <1>2, <1>3, <1>p, Places
  <2>3. \A b \in starts' : tag'[b] # LOCKEDBLOCK
    BY <1>2, <1>3, Places
  <2>4. /\ starts' = (starts \cup {p}) \ Eaten(x, n, p, z)
        /\ Free' = (Free \cup {p}) \ Eaten(x, n, p, z)
    BY <1>1, <1>2, <1>4, <1>p, <2>1, Places
  <2>5. trl' = [trl EXCEPT ![z - 1] = -p]
    BY <1>2, <1>p
  <2>. QED
    BY <1>1, <1>p, <2>2, <2>3, <2>4, <2>5 DEF Merged
<1>6. Tiled' /\ Trailers' /\ Coalesced'
  BY <1>5, MergedOK
<1>7. ListOK' /\ fwd'[endblock] = fwd[endblock]
  <2> DEFINE f1 == [fwd EXCEPT ![bck[p]] = fwd[p]]
             b1 == [bck EXCEPT ![fwd[p]] = bck[p]]
  <2>1. p \in Addr /\ p # freelisthdr /\ p # endblock
    BY <1>1, Places
  <2> HIDE DEF Addr, TERMINATOR, freelisthdr, endblock
  <2>2. Unlinked(fwd, bck, p, f1, b1)
    BY DEF Unlinked
  <2>3. /\ List(Addr, TERMINATOR, Free \ {p}, f1, b1, freelisthdr, endblock)
        /\ f1[endblock] = fwd[endblock]
    <3> HIDE DEF f1, b1
    <3>. QED
      BY <1>0, <1>1, <2>2, UnlinkOK DEF ListOK
  <2>4. p \notin Free \ {p} /\ q \in Free \ {p} /\ fwd[p] # TERMINATOR /\ f1[q] # TERMINATOR
    BY <1>0, <1>1, <1>p, <2>3, ListFacts DEF ListOK
  <2>5. Replaced(f1, b1, q, p, fwd', bck')
    BY <2>4 DEF MergeThree, Replaced, p, q
  <2> HIDE DEF f1, b1
  <2>6. Free' = ((Free \ {p}) \ {q}) \cup {p}
    BY <1>1, <1>4, <1>p
  <2>7. /\ List(Addr, TERMINATOR, Free', fwd', bck', freelisthdr, endblock)
        /\ fwd'[endblock] = f1[endblock]
    BY <2>1, <2>3, <2>4, <2>5, <2>6, ReplaceOK
  <2>. QED
    BY <2>3, <2>7 DEF ListOK, freelisthdr, endblock, Addr, TERMINATOR
<1>8. MemTypeOK'
  <2>0. x \in Addr /\ n \in 0 .. MaxMem
    BY Places
  <2>q. LastWord(p, sz) \in Addr
    BY <1>p
  <2> HIDE DEF Addr, LastWord
  <2>1. size' \in [Addr -> 0 .. MaxMem]
    BY <1>0, <1>2, <1>p, <2>0 DEF MemTypeOK
  <2>2. tag' \in [Addr -> {FREETAG, LOCKEDBLOCK, 0, 1}]
    BY <1>0, <1>2, <2>0 DEF MemTypeOK
  <2>3. trl' \in [Addr -> {-a : a \in Addr}]
    BY <1>0, <1>2, <1>p, <2>q DEF MemTypeOK
  <2>4. starts' \subseteq Addr
    BY <1>0, <1>2, <2>0 DEF MemTypeOK
  <2>. QED
    BY <1>7, <2>1, <2>2, <2>3, <2>4 DEF MemTypeOK, ListOK, List, Cells
<1>9. Sentinels'
  BY <1>0, <1>1, <1>3, <1>7, Places DEF Sentinels
<1>. QED
  BY <1>6, <1>7, <1>8, <1>9 DEF ArenaOK

LEMMA ReleaseOK ==
  ASSUME NEW x, NEW n, NEW ms,
         PreRelease(x, n, ms), Release(x, n, ms), memsize' = ms
  PROVE  MemTypeOK' /\ ArenaOK'
BY MergeThreeOK, MergeFollowingOK, MergePrecedingOK, PushFrontOK DEF Release

-------------------------------------------------------------------------------
(* The types of what is not memory. *)
CtlTypeOK ==
  /\ memsize \in membase .. MaxMem
  /\ pc \in {"idle", "search", "clear"}
  /\ req \in Requests \cup {0}
  /\ freeptr \in Addr /\ nextfree \in Addr \cup {TERMINATOR}
  /\ walk \in Addr

LEMMA TypeSplit == TypeOK <=> MemTypeOK /\ CtlTypeOK
BY DEF TypeOK, MemTypeOK, CtlTypeOK

LEMMA TypeSplitPrime == TypeOK' <=> MemTypeOK' /\ CtlTypeOK'
BY DEF TypeOK, MemTypeOK, CtlTypeOK

(* A heap just set up satisfies the invariant. *)
LEMMA InitOK == Init => IInv
<1> SUFFICES ASSUME Init PROVE IInv
  OBVIOUS
<1>0. /\ FlhSize \in Nat /\ MinSize \in Nat /\ 0 < FlhSize /\ FlhSize < MinSize
      /\ InitSize \in Nat /\ MaxMem \in Nat
      /\ 2 * FlhSize + MinSize <= InitSize /\ InitSize <= MaxMem
  BY HeapConstants
<1>1. /\ freelisthdr \in Addr /\ endblock \in Addr /\ membase \in Addr /\ InitSize - 1 \in Addr
      /\ freelisthdr # endblock /\ freelisthdr # membase /\ endblock # membase
      /\ membase - 1 \in Addr /\ membase - 1 # InitSize - 1 /\ InitSize > membase
  BY <1>0
<1>2. MemTypeOK /\ CtlTypeOK
  <2>1. CtlTypeOK
    BY <1>0, <1>1 DEF Init, CtlTypeOK
  <2>2. size \in [Addr -> 0 .. MaxMem]
    <3>1. FlhSize \in 0 .. MaxMem /\ InitSize - membase \in 0 .. MaxMem /\ 0 \in 0 .. MaxMem
      BY <1>0
    <3> DEFINE W == 0 .. MaxMem
               D == InitSize - membase
    <3>2. FlhSize \in W /\ D \in W /\ 0 \in W
      BY <3>1
    <3>3. size = [a \in Addr |-> CASE a = freelisthdr -> FlhSize
                                   [] a = endblock    -> FlhSize
                                   [] a = membase     -> D
                                   [] OTHER           -> 0]
      BY DEF Init
    <3> HIDE DEF W, D, Addr, freelisthdr, endblock, membase
    <3>4. size \in [Addr -> W]
      BY <3>2, <3>3
    <3>. QED
      BY <3>4 DEF W
  <2>3. fwd \in [Addr -> Addr \cup {TERMINATOR}] /\ bck \in [Addr -> Addr \cup {TERMINATOR}]
    <3> HIDE DEF Addr, TERMINATOR, freelisthdr, endblock, membase
    <3>. QED
      BY <1>1 DEF Init
  <2>4. tag \in [Addr -> {FREETAG, LOCKEDBLOCK, 0, 1}]
    BY DEF Init
  <2>5. trl \in [Addr -> {-a : a \in Addr}]
    <3>1. -membase \in {-a : a \in Addr} /\ 0 \in {-a : a \in Addr}
      BY <1>1
    <3> HIDE DEF Addr, membase
    <3>. QED
      BY <3>1 DEF Init
  <2>. QED
    BY <1>1, <2>1, <2>2, <2>3, <2>4, <2>5 DEF MemTypeOK, Init
<1> HIDE DEF Addr
<1>3. /\ starts = {membase} /\ Free = {membase} /\ memsize = InitSize
      /\ size[membase] = InitSize - membase /\ size[endblock] = FlhSize
      /\ size[freelisthdr] = FlhSize
      /\ tag[membase] = FREETAG /\ tag[endblock] = LOCKEDBLOCK
      /\ fwd[freelisthdr] = membase /\ fwd[membase] = endblock /\ fwd[endblock] = TERMINATOR
      /\ bck[membase] = freelisthdr /\ bck[endblock] = membase
      /\ trl[InitSize - 1] = -membase /\ trl[membase - 1] = 0
  <2> HIDE DEF freelisthdr, endblock, membase
  <2>1. starts = {membase} /\ memsize = InitSize
    BY DEF Init
  <2>2. tag[membase] = FREETAG /\ tag[endblock] = LOCKEDBLOCK
    BY <1>1 DEF Init
  <2>3. /\ size[membase] = InitSize - membase /\ size[endblock] = FlhSize
        /\ size[freelisthdr] = FlhSize
    BY <1>1 DEF Init
  <2>4. /\ fwd[freelisthdr] = membase /\ fwd[membase] = endblock /\ fwd[endblock] = TERMINATOR
        /\ bck[membase] = freelisthdr /\ bck[endblock] = membase
    BY <1>1 DEF Init
  <2>5. trl[InitSize - 1] = -membase /\ trl[membase - 1] = 0
    BY <1>1 DEF Init
  <2>6. Free = {membase}
    BY <2>1, <2>2 DEF Free
  <2>. QED
    BY <2>1, <2>2, <2>3, <2>4, <2>5, <2>6
<1>4. Tiled
  BY <1>0, <1>3 DEF Tiled, BlockEnd
<1>5. Trailers /\ Coalesced /\ Sentinels
  <2>1. Trailers
    BY <1>0, <1>3 DEF Trailers
  <2>2. Coalesced
    BY <1>0, <1>3 DEF Coalesced, BlockEnd
  <2>. QED
    BY <1>3, <2>1, <2>2 DEF Sentinels
<1>6. ListOK
  <2> DEFINE r == [a \in Addr |-> IF a = freelisthdr THEN 0 ELSE IF a = membase THEN 1 ELSE 2]
  <2>1. r[freelisthdr] = 0 /\ r[membase] = 1 /\ r[endblock] = 2 /\ r \in [Addr -> Int]
    BY <1>1
  <2>2. Cells(Addr, TERMINATOR, Free, fwd, bck, freelisthdr, endblock)
    <3>1. TERMINATOR \notin Addr
      BY <1>0 DEF Addr
    <3>. QED
      BY <1>1, <1>2, <1>3, <3>1 DEF Cells, MemTypeOK
  <2> HIDE DEF r, freelisthdr, endblock, membase
  <2>3. Doubly(Free, fwd, bck, freelisthdr, endblock)
    BY <1>1, <1>3 DEF Doubly
  <2>4. Ranked(r, Free, fwd, freelisthdr)
    BY <1>3, <2>1 DEF Ranked
  <2>. QED
    BY <2>1, <2>2, <2>3, <2>4 DEF ListOK, List
<1>7. SearchOK /\ WalkOK
  BY DEF Init, SearchOK, WalkOK
<1>. QED
  BY <1>2, <1>4, <1>5, <1>6, <1>7, TypeSplit DEF IInv, ArenaOK

-------------------------------------------------------------------------------
(* A live block may be released.                                           *)
LEMMA LivePre ==
  ASSUME MemTypeOK, CtlTypeOK, ArenaOK, NEW b \in Live
  PROVE  PreRelease(b, size[b], memsize)
<1> USE DEF ArenaOK
<1>1. /\ b \in starts /\ b \notin Free /\ tag[b] # FREETAG
      /\ memsize \in Nat /\ MaxMem \in Nat /\ memsize <= MaxMem
      /\ FlhSize \in Nat /\ 0 < FlhSize /\ MinSize \in Nat /\ FlhSize < MinSize
  BY HeapConstants DEF Live, Allocated, Free, CtlTypeOK
<1>2. \A c \in starts : /\ c \in Addr /\ c \in Nat /\ 2 * FlhSize <= c /\ c < memsize
                        /\ size[c] \in Nat /\ size[c] >= MinSize /\ tag[c] # LOCKEDBLOCK
                        /\ c + size[c] \in starts \cup {memsize}
                        /\ c + size[c] <= memsize
  <2> TAKE c \in starts
  <2>1. c \in Addr /\ c \in Nat /\ 2 * FlhSize <= c /\ c < memsize
    BY <1>1 DEF Tiled, MemTypeOK
  <2>2. size[c] \in Nat
    BY <2>1 DEF MemTypeOK
  <2>3. size[c] >= MinSize /\ tag[c] # LOCKEDBLOCK /\ c + size[c] \in starts \cup {memsize}
    BY DEF Tiled, BlockEnd
  <2>4. \A d \in starts : d \in Nat /\ d < memsize
    BY <1>1 DEF Tiled
  <2>. QED
    BY <1>1, <2>1, <2>2, <2>3, <2>4
<1>3. Sizes(memsize) /\ Given(b, size[b], memsize)
  BY <1>1, <1>2 DEF Sizes, Given
<1>4. Others(b, size[b], memsize)
  <2>1. membase \in starts \cup {b}
    BY DEF Tiled
  <2>2. \A c \in starts \ {b} : BlockOK(c, b, memsize)
    BY <1>2 DEF BlockOK
  <2>3. \A c, d \in starts : c < d => c + size[c] <= d
    BY DEF Tiled, BlockEnd
  <2>4. ASSUME NEW e \in starts \cup {b, memsize}
        PROVE  \/ e = membase
               \/ e = b + size[b]
               \/ \E c \in starts \ {b} : c + size[c] = e
    <3>1. e = membase \/ \E c \in starts : c + size[c] = e
      BY <1>1 DEF Tiled, BlockEnd
    <3>. QED
      BY <3>1
  <2>. QED
    BY <1>1, <2>1, <2>2, <2>3, <2>4 DEF Others
<1>. QED
  BY <1>3, <1>4 DEF PreRelease

(* What expand_heap adds is at least a block. *)
LEMMA IncrOK ==
  ASSUME NEW n \in Nat, memsize \in Nat
  PROVE  MemIncr(n) \in Nat /\ MemIncr(n) >= MinSize
<1>1. MinHeapSpace \in Nat /\ MinSize \in Nat /\ SmallExtra \in Nat /\ DfMemSize \in Nat
      /\ MinSize <= MinHeapSpace
  BY HeapConstants
<1>2. memsize \div 5 \in Nat /\ DfMemSize \div 2 \in Nat
  BY <1>1
<1>. QED
  BY <1>1, <1>2 DEF MemIncr, SmallIncr

(* The words at the end of a heap that grows may be released.              *)
LEMMA ExpandPre ==
  ASSUME MemTypeOK, CtlTypeOK, ArenaOK, NEW n \in Nat, n >= MinSize, memsize + n <= MaxMem
  PROVE  PreRelease(memsize, n, memsize + n)
<1> USE DEF ArenaOK
<1>1. /\ memsize \in Nat /\ MaxMem \in Nat /\ 2 * FlhSize <= memsize
      /\ FlhSize \in Nat /\ 0 < FlhSize /\ MinSize \in Nat /\ FlhSize < MinSize
  BY HeapConstants DEF CtlTypeOK
<1>2. \A c \in starts : /\ c \in Addr /\ c \in Nat /\ 2 * FlhSize <= c /\ c < memsize
                        /\ size[c] \in Nat /\ size[c] >= MinSize /\ tag[c] # LOCKEDBLOCK
                        /\ c + size[c] \in starts \cup {memsize}
                        /\ c + size[c] <= memsize
  <2> TAKE c \in starts
  <2>1. c \in Addr /\ c \in Nat /\ 2 * FlhSize <= c /\ c < memsize
    BY <1>1 DEF Tiled, MemTypeOK
  <2>2. size[c] \in Nat
    BY <2>1 DEF MemTypeOK
  <2>3. size[c] >= MinSize /\ tag[c] # LOCKEDBLOCK /\ c + size[c] \in starts \cup {memsize}
    BY DEF Tiled, BlockEnd
  <2>4. \A d \in starts : d \in Nat /\ d < memsize
    BY <1>1 DEF Tiled
  <2>. QED
    BY <1>1, <2>1, <2>2, <2>3, <2>4
<1>3. memsize \notin starts /\ memsize \notin Free
  BY <1>1, <1>2 DEF Free
<1>4. Sizes(memsize + n) /\ Given(memsize, n, memsize + n)
  BY <1>1, <1>3 DEF Sizes, Given
<1>5. Others(memsize, n, memsize + n)
  <2>1. membase \in starts \cup {memsize}
    BY DEF Tiled
  <2>2. \A c \in starts \ {memsize} : BlockOK(c, memsize, memsize + n)
    BY <1>1, <1>2 DEF BlockOK
  <2>3. \A c, d \in starts : c < d => c + size[c] <= d
    BY DEF Tiled, BlockEnd
  <2>4. ASSUME NEW e \in starts \cup {memsize, memsize + n}
        PROVE  \/ e = membase
               \/ e = memsize + n
               \/ \E c \in starts \ {memsize} : c + size[c] = e
    BY <1>3 DEF Tiled, BlockEnd
  <2>5. \A c \in starts : c + size[c] <= memsize /\ ~(memsize < c)
    BY <1>1, <1>2
  <2>. QED
    BY <1>1, <2>1, <2>2, <2>3, <2>4, <2>5 DEF Others
<1>. QED
  BY <1>4, <1>5 DEF PreRelease

-------------------------------------------------------------------------------
(* A step that leaves the memory alone keeps the arena.                    *)
LEMMA Untouched ==
  ASSUME MemTypeOK, ArenaOK, UNCHANGED <<memsize, mem>>
  PROVE  MemTypeOK' /\ ArenaOK'
<1>1. UNCHANGED <<memsize, size, tag, fwd, bck, trl, starts>>
  BY DEF mem
<1>2. Free' = Free
  BY <1>1 DEF Free
<1>3. MemTypeOK' /\ Tiled' /\ Sentinels'
  BY <1>1 DEF MemTypeOK, ArenaOK, Tiled, BlockEnd, Sentinels
<1>4. Trailers' /\ Coalesced' /\ ListOK'
  BY <1>1, <1>2 DEF ArenaOK, Trailers, Coalesced, BlockEnd, ListOK
<1>. QED
  BY <1>3, <1>4 DEF ArenaOK

(* The count of a container changes between 0 and 1.                       *)
LEMMA CountOK ==
  ASSUME MemTypeOK, ArenaOK, NEW b \in Live, NEW k \in {0, 1},
         tag' = [tag EXCEPT ![b] = k],
         UNCHANGED <<memsize, size, fwd, bck, trl, starts>>
  PROVE  MemTypeOK' /\ ArenaOK'
<1> USE DEF ArenaOK
<1>1. b \in starts /\ b \in Addr /\ tag[b] # FREETAG /\ 2 * FlhSize <= b /\ b # endblock
      /\ FlhSize \in Nat
  <2>1. b \in starts /\ b \in Addr /\ tag[b] # FREETAG
    BY DEF Live, Allocated, MemTypeOK
  <2>2. 2 * FlhSize <= b /\ FlhSize \in Nat /\ FlhSize > 0
    BY <2>1, HeapConstants DEF Tiled
  <2>. QED
    BY <2>1, <2>2
<1>2. /\ tag'[b] = k /\ \A a \in Addr : a # b => tag'[a] = tag[a]
      /\ tag' \in [Addr -> {FREETAG, LOCKEDBLOCK, 0, 1}]
  BY <1>1 DEF MemTypeOK
<1>3. endblock \in Addr
  BY <1>1, HeapConstants
<1> HIDE DEF Addr, endblock
<1>4. Free' = Free
  BY <1>1, <1>2 DEF Free, MemTypeOK
<1>5. Tiled'
  BY <1>2 DEF Tiled, BlockEnd, MemTypeOK
<1>6. Sentinels'
  BY <1>1, <1>2, <1>3 DEF Sentinels
<1>7. Trailers' /\ Coalesced' /\ ListOK'
  BY <1>4 DEF Trailers, Coalesced, BlockEnd, ListOK
<1>8. MemTypeOK'
  BY <1>2 DEF MemTypeOK
<1>. QED
  BY <1>4, <1>5, <1>6, <1>7, <1>8

(* The block the search has found is a free one, and freeptr is before it. *)
LEMMA Found ==
  ASSUME MemTypeOK, ArenaOK, SearchOK, pc = "search", Fits
  PROVE  /\ nextfree \in Free /\ freeptr = bck[nextfree] /\ req \in Requests
         /\ freeptr \in Free \cup {freelisthdr}
         /\ fwd[nextfree] # TERMINATOR /\ fwd[nextfree] \in Free \cup {endblock}
         /\ req \in Nat /\ req >= MinSize
<1>1. /\ req \in Requests /\ freeptr \in Free \cup {freelisthdr} /\ nextfree = fwd[freeptr]
      /\ nextfree # TERMINATOR /\ size[nextfree] >= req
  BY DEF SearchOK, Fits
<1>2. req \in Nat /\ req >= MinSize /\ FlhSize \in Nat /\ MinSize \in Nat /\ FlhSize < MinSize
  BY <1>1, HeapConstants
<1> HIDE DEF TERMINATOR, Addr, freelisthdr, endblock
<1>3. Doubly(Free, fwd, bck, freelisthdr, endblock)
  BY DEF ArenaOK, ListOK, List
<1>4. nextfree \in Free \cup {endblock} /\ bck[nextfree] = freeptr
  BY <1>1, <1>3 DEF Doubly
<1>5. nextfree # endblock
  BY <1>1, <1>2 DEF ArenaOK, Sentinels
<1>6. fwd[nextfree] # TERMINATOR /\ fwd[nextfree] \in Free \cup {endblock}
  BY <1>4, <1>5, ListFacts DEF ArenaOK, ListOK
<1>. QED
  BY <1>1, <1>2, <1>4, <1>5, <1>6

(* Where block f is, and that every other block is beside it.              *)
LEMMA Extent ==
  ASSUME MemTypeOK, CtlTypeOK, ArenaOK, NEW f \in starts
  PROVE  /\ f \in Nat /\ f \in Addr /\ size[f] \in Nat /\ size[f] >= MinSize
         /\ f + size[f] <= MaxMem /\ MaxMem \in Nat /\ MinSize \in Nat /\ MinSize > 0
         /\ freelisthdr \in Addr /\ endblock \in Addr /\ freelisthdr < f /\ endblock < f
         /\ membase - 1 \in Addr /\ membase - 1 < f
         /\ \A b \in starts \ {f} :
              /\ b \in Nat /\ b \in Addr /\ size[b] \in Nat /\ size[b] >= MinSize
              /\ b + size[b] <= MaxMem
              /\ b + size[b] <= f \/ f + size[f] <= b
<1>1. /\ memsize \in Nat /\ MaxMem \in Nat /\ memsize <= MaxMem /\ FlhSize \in Nat /\ 0 < FlhSize
      /\ MinSize \in Nat /\ MinSize > 0
  BY HeapConstants DEF CtlTypeOK
<1>2. \A b \in starts : /\ b \in Nat /\ b \in Addr /\ size[b] \in Nat /\ size[b] >= MinSize
                        /\ b + size[b] <= MaxMem /\ 2 * FlhSize <= b
  <2> TAKE b \in starts
  <2>1. b \in Addr /\ b \in Nat /\ 2 * FlhSize <= b
    BY <1>1 DEF MemTypeOK, ArenaOK, Tiled
  <2>2. size[b] \in Nat /\ size[b] >= MinSize
    BY <2>1 DEF MemTypeOK, ArenaOK, Tiled
  <2>3. b + size[b] \in starts \cup {memsize} /\ \A d \in starts : d \in Nat /\ d <= MaxMem
    BY <1>1 DEF ArenaOK, Tiled, BlockEnd
  <2>. QED
    BY <1>1, <2>1, <2>2, <2>3
<1>3. \A b \in starts \ {f} : b + size[b] <= f \/ f + size[f] <= b
  <2> TAKE b \in starts \ {f}
  <2>1. (b < f => b + size[b] <= f) /\ (f < b => f + size[f] <= b)
    BY DEF ArenaOK, Tiled, BlockEnd
  <2>. QED
    BY <1>2, <2>1
<1>4. /\ freelisthdr \in Addr /\ endblock \in Addr /\ freelisthdr < f /\ endblock < f
      /\ membase - 1 \in Addr /\ membase - 1 < f
  BY <1>1, <1>2
<1>. QED
  BY <1>1, <1>2, <1>3, <1>4

(* The words a client gets: what is outside of them does not change.       *)
LEMMA HandOut ==
  ASSUME MemTypeOK, NEW f \in Addr, NEW n \in Nat, n > 0, f + n <= MaxMem, MaxMem \in Nat,
         f \in Nat
  PROVE  /\ HandSize(f, n) \in [Addr -> 0 .. MaxMem]
         /\ HandTag(f, n) \in [Addr -> {FREETAG, LOCKEDBLOCK, 0, 1}]
         /\ HandTrl(f, n) \in [Addr -> Int]
         /\ f # 0 => HandTrl(f, n) \in [Addr -> {-a : a \in Addr}]
         /\ HandLink(fwd, f, n) \in [Addr -> Addr \cup {TERMINATOR}]
         /\ HandLink(bck, f, n) \in [Addr -> Addr \cup {TERMINATOR}]
         /\ HandSize(f, n)[f] = n /\ HandTag(f, n)[f] = 0
         /\ HandTrl(f, n)[f + n - 1] = 0
         /\ \A a \in Addr : a < f \/ f + n <= a =>
              /\ HandSize(f, n)[a] = size[a] /\ HandTag(f, n)[a] = tag[a]
              /\ HandTrl(f, n)[a] = trl[a]
              /\ HandLink(fwd, f, n)[a] = fwd[a] /\ HandLink(bck, f, n)[a] = bck[a]
<1>0. n \in 0 .. MaxMem /\ f + n - 1 \in Addr
  OBVIOUS
<1>1. HandSize(f, n) \in [Addr -> 0 .. MaxMem]
  BY <1>0 DEF HandSize, MemTypeOK
<1>2. HandTag(f, n) \in [Addr -> {FREETAG, LOCKEDBLOCK, 0, 1}]
  BY DEF HandTag, MemTypeOK
<1>3. /\ HandTrl(f, n) \in [Addr -> Int]
      /\ f # 0 => HandTrl(f, n) \in [Addr -> {-a : a \in Addr}]
  <2>1. HandTrl(f, n) \in [Addr -> Int]
    BY DEF HandTrl, MemTypeOK
  <2>2. ASSUME f # 0 PROVE HandTrl(f, n) \in [Addr -> {-a : a \in Addr}]
    <3>1. 0 \in Addr /\ 1 \in Addr
      BY <1>0, <2>2
    <3>2. 0 \in {-a : a \in Addr} /\ -1 \in {-a : a \in Addr}
      BY <3>1
    <3> DEFINE W == {-a : a \in Addr}
    <3>3. 0 \in W /\ -1 \in W /\ trl \in [Addr -> W]
      BY <3>2 DEF MemTypeOK
    <3> HIDE DEF W
    <3>4. HandTrl(f, n) \in [Addr -> W]
      BY <3>3 DEF HandTrl
    <3>. QED
      BY <3>4 DEF W
  <2>. QED
    BY <2>1, <2>2
<1>4. /\ HandLink(fwd, f, n) \in [Addr -> Addr \cup {TERMINATOR}]
      /\ HandLink(bck, f, n) \in [Addr -> Addr \cup {TERMINATOR}]
  BY DEF HandLink, MemTypeOK
<1>5. HandSize(f, n)[f] = n /\ HandTag(f, n)[f] = 0 /\ HandTrl(f, n)[f + n - 1] = 0
  BY <1>0 DEF HandSize, HandTag, HandTrl
<1>6. ASSUME NEW a \in Addr, a < f \/ f + n <= a
      PROVE  /\ HandSize(f, n)[a] = size[a] /\ HandTag(f, n)[a] = tag[a]
             /\ HandTrl(f, n)[a] = trl[a]
             /\ HandLink(fwd, f, n)[a] = fwd[a] /\ HandLink(bck, f, n)[a] = bck[a]
  <2>1. a # f /\ a \notin Inside(f, n) /\ a # LastWord(f, n) /\ a \notin f .. LastWord(f, n)
    BY <1>6 DEF Inside
  <2> HIDE DEF Addr, LastWord
  <2>. QED
    BY <2>1 DEF HandSize, HandTag, HandTrl, HandLink
<1>. QED
  BY <1>1, <1>2, <1>3, <1>4, <1>5, <1>6

LEMMA TakeWholeOK ==
  ASSUME MemTypeOK, CtlTypeOK, ArenaOK, SearchOK, TakeWhole
  PROVE  MemTypeOK' /\ ArenaOK' /\ memsize' = memsize
<1> DEFINE f == nextfree
           n == size[nextfree]
           f1 == [fwd EXCEPT ![bck[f]] = fwd[f]]
           b1 == [bck EXCEPT ![fwd[f]] = bck[f]]
           hf == HandLink(fwd, f, n)
           hb == HandLink(bck, f, n)
<1> USE DEF ArenaOK
<1>1. /\ f \in Free /\ f \in starts /\ freeptr = bck[f] /\ freeptr \in Free \cup {freelisthdr}
      /\ fwd[f] # TERMINATOR /\ fwd[f] \in Free \cup {endblock}
  BY Found DEF TakeWhole, Free
<1>2. /\ size' = HandSize(f, n) /\ tag' = HandTag(f, n) /\ trl' = HandTrl(f, n)
      /\ fwd' = [hf EXCEPT ![freeptr] = fwd[f]]
      /\ bck' = [hb EXCEPT ![fwd[f]] = freeptr]
      /\ starts' = starts /\ memsize' = memsize
  <2> HIDE DEF hf, hb
  <2>. QED
    BY <1>1 DEF TakeWhole, EndSearch, hf, hb
<1> HIDE DEF f, n
<1>3. /\ f \in Nat /\ f \in Addr /\ n \in Nat /\ n >= MinSize /\ n = size[f]
      /\ f + n <= MaxMem /\ MaxMem \in Nat /\ MinSize \in Nat /\ MinSize > 0
      /\ freelisthdr \in Addr /\ endblock \in Addr /\ freelisthdr < f /\ endblock < f
      /\ membase - 1 \in Addr /\ membase - 1 < f /\ f # 0 /\ n > 0
      /\ \A b \in starts \ {f} :
           /\ b \in Nat /\ b \in Addr /\ size[b] \in Nat /\ size[b] >= MinSize
           /\ b + size[b] <= MaxMem
           /\ b + size[b] <= f \/ f + n <= b
  <2>1. n = size[f]
    BY DEF n, f
  <2>. QED
    BY <1>1, <2>1, Extent
<1>4. /\ size' \in [Addr -> 0 .. MaxMem] /\ tag' \in [Addr -> {FREETAG, LOCKEDBLOCK, 0, 1}]
      /\ trl' \in [Addr -> {-a : a \in Addr}]
      /\ hf \in [Addr -> Addr \cup {TERMINATOR}] /\ hb \in [Addr -> Addr \cup {TERMINATOR}]
      /\ size'[f] = n /\ tag'[f] = 0 /\ trl'[f + n - 1] = 0
      /\ \A a \in Addr : a < f \/ f + n <= a =>
           /\ size'[a] = size[a] /\ tag'[a] = tag[a] /\ trl'[a] = trl[a]
           /\ hf[a] = fwd[a] /\ hb[a] = bck[a]
  <2>1. f \in Nat /\ f \in Addr /\ n \in Nat /\ n > 0 /\ f + n <= MaxMem /\ MaxMem \in Nat /\ f # 0
    BY <1>3
  <2> HIDE DEF Addr, LastWord
  <2>. QED
    BY <1>2, <2>1, HandOut
<1>5. \A b \in starts \ {f} : b < f \/ f + n <= b
  BY <1>3
<1>6. /\ \A b \in starts : size'[b] = size[b]
      /\ \A b \in starts \ {f} : tag'[b] = tag[b]
  BY <1>3, <1>4, <1>5
<1>7. Free' = Free \ {f}
  BY <1>1, <1>2, <1>4, <1>6 DEF Free
<1>8. Tiled'
  <2>0. \A b \in starts : tag[b] # LOCKEDBLOCK
    BY DEF Tiled
  <2>1. \A b \in starts : tag'[b] # LOCKEDBLOCK
    BY <1>4, <1>6, <2>0
  <2>. QED
    BY <1>2, <1>6, <2>1 DEF Tiled, BlockEnd
<1>9. Trailers'
  <2>1. trl'[membase - 1] = 0
    <3> HIDE DEF Addr, membase
    <3>. QED
      BY <1>3, <1>4 DEF Trailers
  <2>2. ASSUME NEW b \in starts
        PROVE  trl'[b + size'[b] - 1] = IF b \in Free' THEN -b ELSE 0
    <3>1. CASE b = f
      BY <1>3, <1>4, <1>7, <3>1
    <3>2. CASE b # f
      <4>1. /\ size'[b] = size[b] /\ (b \in Free' <=> b \in Free)
            /\ b \in Nat /\ size[b] \in Nat /\ size[b] > 0 /\ b + size[b] <= MaxMem
            /\ b + size[b] <= f \/ f + n <= b
        BY <1>3, <1>6, <1>7, <3>2
      <4>2. b + size[b] - 1 \in Addr
        BY <1>3, <4>1
      <4>3. b + size[b] - 1 < f \/ f + n <= b + size[b] - 1
        BY <1>3, <4>1
      <4>4. trl'[b + size[b] - 1] = trl[b + size[b] - 1]
        BY <1>4, <4>2, <4>3
      <4>. QED
        BY <4>1, <4>4 DEF Trailers
    <3>. QED
      BY <3>1, <3>2
  <2>. QED
    BY <1>2, <2>1, <2>2 DEF Trailers
<1>10. Coalesced'
  <2>1. \A b \in Free : b \in starts
    BY DEF Free
  <2>. QED
    BY <1>6, <1>7, <2>1 DEF Coalesced, BlockEnd
<1>11. ListOK' /\ fwd'[endblock] = fwd[endblock]
  <2>0. /\ \A x \in Free : x \in Addr /\ (x # f => x < f \/ f + n <= x)
        /\ \A x \in (Free \ {f}) \cup {freelisthdr, endblock} : x \in Addr /\ hf[x] = fwd[x] /\ hb[x] = bck[x]
        /\ bck[f] # endblock
    <3>1. \A x \in Free : x \in starts
      BY DEF Free
    <3>2. \A x \in Free : x \in Addr /\ (x # f => x < f \/ f + n <= x)
      BY <1>3, <1>5, <3>1
    <3>3. bck[f] # endblock
      <4> HIDE DEF Addr, TERMINATOR, freelisthdr, endblock
      <4>. QED
        BY <1>1, ListFacts DEF ListOK
    <3> HIDE DEF Addr, TERMINATOR, freelisthdr, endblock, hf, hb
    <3>. QED
      BY <1>3, <1>4, <3>2, <3>3
  <2> HIDE DEF Addr, TERMINATOR, freelisthdr, endblock
  <2>1. Unlinked(fwd, bck, f, f1, b1)
    BY DEF Unlinked
  <2>2. /\ List(Addr, TERMINATOR, Free \ {f}, f1, b1, freelisthdr, endblock)
        /\ f1[endblock] = fwd[endblock]
    <3> HIDE DEF f1, b1
    <3>. QED
      BY <1>1, <2>1, UnlinkOK DEF ListOK
  <2> DEFINE P == bck[f]
             N == fwd[f]
  <2>3. P \in Addr /\ N \in Addr /\ N # TERMINATOR
    BY <1>1, ListFacts DEF ListOK
  <2>4. /\ fwd' = [hf EXCEPT ![P] = N] /\ bck' = [hb EXCEPT ![N] = P]
        /\ f1 = [fwd EXCEPT ![P] = N] /\ b1 = [bck EXCEPT ![N] = P]
        /\ fwd \in [Addr -> Addr \cup {TERMINATOR}] /\ bck \in [Addr -> Addr \cup {TERMINATOR}]
    BY <1>1, <1>2 DEF MemTypeOK
  <2>b. P # endblock
    BY <2>0
  <2> HIDE DEF P, N, hf, hb, f1, b1
  <2>5. /\ fwd' \in [Addr -> Addr \cup {TERMINATOR}] /\ bck' \in [Addr -> Addr \cup {TERMINATOR}]
    BY <1>4, <2>3, <2>4
  <2>6. /\ \A x \in (Free \ {f}) \cup {freelisthdr} : fwd'[x] = f1[x]
        /\ \A x \in (Free \ {f}) \cup {endblock} : bck'[x] = b1[x]
        /\ fwd'[endblock] = fwd[endblock]
    BY <1>4, <2>0, <2>b, <2>3, <2>4
  <2>7. List(Addr, TERMINATOR, Free', fwd', bck', freelisthdr, endblock)
    BY <1>7, <2>2, <2>5, <2>6, Frame
  <2>. QED
    BY <2>6, <2>7 DEF ListOK, freelisthdr, endblock, Addr, TERMINATOR
<1>12. MemTypeOK'
  BY <1>2, <1>4, <1>11 DEF MemTypeOK, ListOK, List, Cells
<1>13. Sentinels'
  <2> HIDE DEF Addr, freelisthdr, endblock
  <2>. QED
    BY <1>3, <1>4, <1>11 DEF Sentinels
<1>. QED
  BY <1>2, <1>8, <1>9, <1>10, <1>11, <1>12, <1>13

LEMMA TakeFrontOK ==
  ASSUME MemTypeOK, CtlTypeOK, ArenaOK, SearchOK, TakeFront
  PROVE  MemTypeOK' /\ ArenaOK' /\ memsize' = memsize
<1> DEFINE f == nextfree
           m == req
           n == size[nextfree]
           rest == nextfree + req
           k == size[nextfree] - req
           f1 == [fwd EXCEPT ![rest] = fwd[f], ![bck[f]] = rest]
           b1 == [[bck EXCEPT ![rest] = bck[f]] EXCEPT ![fwd[f]] = rest]
           hf == HandLink(fwd, f, m)
           hb == HandLink(bck, f, m)
           hs == HandSize(f, m)
           ht == HandTag(f, m)
           hr == HandTrl(f, m)
<1> USE DEF ArenaOK
<1>1. /\ f \in Free /\ f \in starts /\ freeptr = bck[f] /\ freeptr \in Free \cup {freelisthdr}
      /\ fwd[f] # TERMINATOR /\ fwd[f] \in Free \cup {endblock}
      /\ m \in Nat /\ m >= MinSize
  BY Found DEF TakeFront, Free
<1>2. /\ size' = [hs EXCEPT ![rest] = k]
      /\ tag' = [ht EXCEPT ![rest] = FREETAG]
      /\ trl' = [hr EXCEPT ![LastWord(rest, k)] = -rest]
      /\ fwd' = [hf EXCEPT ![rest] = fwd[f], ![freeptr] = rest]
      /\ bck' = [[hb EXCEPT ![rest] = freeptr] EXCEPT ![fwd[f]] = rest]
      /\ starts' = starts \cup {rest} /\ memsize' = memsize /\ k >= MinSize
  <2> HIDE DEF hf, hb, hs, ht, hr
  <2>. QED
    BY <1>1 DEF TakeFront, EndSearch, hf, hb, hs, ht, hr
<1>e. n = size[f] /\ rest = f + m /\ k = n - m
  OBVIOUS
<1> HIDE DEF f, n, m, rest, k
<1>3. /\ f \in Nat /\ f \in Addr /\ n \in Nat
      /\ f + n <= MaxMem /\ MaxMem \in Nat /\ MinSize \in Nat /\ MinSize > 0
      /\ freelisthdr \in Addr /\ endblock \in Addr /\ freelisthdr < f /\ endblock < f
      /\ membase - 1 \in Addr /\ membase - 1 < f /\ f # 0
      /\ \A b \in starts \ {f} :
           /\ b \in Nat /\ b \in Addr /\ size[b] \in Nat /\ size[b] >= MinSize
           /\ b + size[b] <= MaxMem
           /\ b + size[b] <= f \/ f + n <= b
  BY <1>1, <1>e, Extent
<1>k. /\ k \in Nat /\ rest \in Nat /\ rest + k = f + n /\ f < rest /\ rest < f + n
      /\ m > 0 /\ k > 0 /\ rest \in Addr /\ rest + k - 1 \in Addr /\ k \in 0 .. MaxMem
      /\ f + m <= MaxMem /\ LastWord(rest, k) = rest + k - 1
  <2>1. /\ k \in Nat /\ rest \in Nat /\ rest + k = f + n /\ f < rest /\ rest < f + n
        /\ m > 0 /\ k > 0
    BY <1>1, <1>2, <1>3, <1>e
  <2>. QED
    BY <1>3, <1>e, <2>1
<1>n. rest \notin starts
  BY <1>3, <1>k
<1>4. /\ hs \in [Addr -> 0 .. MaxMem] /\ ht \in [Addr -> {FREETAG, LOCKEDBLOCK, 0, 1}]
      /\ hr \in [Addr -> {-a : a \in Addr}]
      /\ hf \in [Addr -> Addr \cup {TERMINATOR}] /\ hb \in [Addr -> Addr \cup {TERMINATOR}]
      /\ hs[f] = m /\ ht[f] = 0 /\ hr[f + m - 1] = 0
      /\ \A a \in Addr : a < f \/ f + m <= a =>
           /\ hs[a] = size[a] /\ ht[a] = tag[a] /\ hr[a] = trl[a]
           /\ hf[a] = fwd[a] /\ hb[a] = bck[a]
  <2>1. /\ f \in Nat /\ f \in Addr /\ m \in Nat /\ m > 0 /\ f + m <= MaxMem
        /\ MaxMem \in Nat /\ f # 0
    BY <1>1, <1>3, <1>k
  <2> HIDE DEF Addr, LastWord
  <2>. QED
    BY <2>1, HandOut
<1> HIDE DEF hs, ht, hr, hf, hb
<1>t. /\ size' \in [Addr -> 0 .. MaxMem] /\ tag' \in [Addr -> {FREETAG, LOCKEDBLOCK, 0, 1}]
      /\ trl' \in [Addr -> {-a : a \in Addr}]
  <2>1. -rest \in {-a : a \in Addr}
    BY <1>k
  <2>2. LastWord(rest, k) \in Addr
    BY <1>k
  <2> HIDE DEF Addr, LastWord
  <2>. QED
    BY <1>2, <1>4, <1>k, <2>1, <2>2
<1>5. \A b \in starts \ {f} : b \in Addr /\ (b < f \/ f + m <= b) /\ b # rest
  BY <1>3, <1>k, <1>e, <1>n, <1>1
<1>6. /\ \A b \in starts \ {f} : size'[b] = size[b] /\ tag'[b] = tag[b]
      /\ size'[f] = m /\ tag'[f] = 0 /\ size'[rest] = k /\ tag'[rest] = FREETAG
  <2>1. f \in Addr /\ rest \in Addr /\ f # rest
    BY <1>3, <1>k
  <2> HIDE DEF Addr, LastWord
  <2>. QED
    BY <1>2, <1>4, <1>5, <2>1
<1>7. Free' = (Free \ {f}) \cup {rest}
  BY <1>1, <1>2, <1>n, <1>6 DEF Free
<1>8. Tiled'
  <2>0. /\ \A b \in starts : tag[b] # LOCKEDBLOCK
        /\ \A b \in starts : b + size[b] \in starts \cup {memsize}
        /\ \A b, c \in starts : b < c => b + size[b] <= c
        /\ \A e \in starts \cup {memsize} :
             e # membase => \E b \in starts : b + size[b] = e
        /\ membase \in starts
    BY DEF Tiled, BlockEnd
  <2>1. membase \in starts' /\ starts' \subseteq membase .. memsize - 1
    <3>1. starts \subseteq membase .. memsize - 1
      BY DEF Tiled
    <3>2. f + n \in starts \cup {memsize} /\ memsize \in Nat /\ membase \in Nat
      BY <1>1, <1>e, <2>0, HeapConstants DEF CtlTypeOK
    <3>3. f + n <= memsize
      BY <3>1, <3>2, <1>3
    <3>4. rest \in membase .. memsize - 1
      BY <1>1, <1>3, <1>k, <3>1, <3>2, <3>3
    <3>. QED
      BY <1>2, <2>0, <3>1, <3>4
  <2>2. ASSUME NEW b \in starts'
        PROVE  size'[b] >= MinSize /\ b + size'[b] \in starts' \cup {memsize} /\ tag'[b] # LOCKEDBLOCK
    <3>1. CASE b = f
      BY <1>1, <1>2, <1>6, <1>e, <3>1
    <3>2. CASE b = rest
      BY <1>1, <1>2, <1>6, <1>e, <1>k, <2>0, <3>2
    <3>3. CASE b # f /\ b # rest
      BY <1>2, <1>3, <1>6, <2>0, <3>3
    <3>. QED
      BY <3>1, <3>2, <3>3
  <2>3. ASSUME NEW b \in starts', NEW c \in starts', b < c
        PROVE  b + size'[b] <= c
    <3>1. CASE b = f
      <4>1. c = rest \/ c \in starts \ {f}
        BY <1>2, <1>3, <2>3, <3>1
      <4>. QED
        BY <1>1, <1>3, <1>5, <1>6, <1>e, <1>k, <2>3, <3>1, <4>1
    <3>2. CASE b = rest
      <4>1. c \in starts \ {f}
        BY <1>2, <1>3, <1>k, <2>3, <3>2
      <4>. QED
        BY <1>1, <1>3, <1>5, <1>6, <1>e, <1>k, <2>3, <3>2, <4>1
    <3>3. CASE b # f /\ b # rest
      <4>1. b \in starts \ {f} /\ size'[b] = size[b]
        BY <1>2, <1>6, <3>3
      <4>2. c \in starts \/ c = rest
        BY <1>2
      <4>. QED
        BY <1>3, <1>k, <2>0, <2>3, <4>1, <4>2
    <3>. QED
      BY <3>1, <3>2, <3>3
  <2>4. ASSUME NEW e \in starts' \cup {memsize}, e # membase
        PROVE  \E b \in starts' : b + size'[b] = e
    <3>1. CASE e = rest
      BY <1>1, <1>2, <1>6, <1>e, <3>1
    <3>2. CASE e = f + n
      BY <1>2, <1>6, <1>k, <3>2
    <3>3. CASE e # rest /\ e # f + n
      <4>1. PICK b \in starts : b + size[b] = e
        BY <1>2, <2>0, <2>4, <3>3
      <4>2. b # f
        BY <1>e, <3>3, <4>1
      <4>. QED
        BY <1>2, <1>6, <4>1, <4>2
    <3>. QED
      BY <3>1, <3>2, <3>3
  <2>. QED
    BY <1>2, <2>1, <2>2, <2>3, <2>4 DEF Tiled, BlockEnd
<1>9. Trailers'
  <2>r. /\ trl'[rest + k - 1] = -rest
        /\ \A a \in Addr : a # rest + k - 1 => trl'[a] = hr[a]
    BY <1>2, <1>4, <1>k
  <2>1. trl'[membase - 1] = 0
    <3>1. membase - 1 # rest + k - 1
      BY <1>3, <1>k
    <3> HIDE DEF Addr, membase
    <3>. QED
      BY <1>3, <1>4, <2>r, <3>1 DEF Trailers
  <2>2. ASSUME NEW b \in starts'
        PROVE  trl'[b + size'[b] - 1] = IF b \in Free' THEN -b ELSE 0
    <3>1. CASE b = f
      <4>1. f + m - 1 \in Addr /\ f + m - 1 # rest + k - 1
        BY <1>1, <1>3, <1>e, <1>k
      <4>2. trl'[f + m - 1] = 0
        BY <1>4, <2>r, <4>1
      <4>3. f \notin Free'
        BY <1>3, <1>7, <1>k
      <4>. QED
        BY <1>6, <3>1, <4>2, <4>3
    <3>2. CASE b = rest
      BY <1>6, <1>7, <2>r, <3>2
    <3>3. CASE b # f /\ b # rest
      <4>1. /\ size'[b] = size[b] /\ (b \in Free' <=> b \in Free) /\ b \in starts
            /\ b \in Nat /\ size[b] \in Nat /\ size[b] > 0 /\ b + size[b] <= MaxMem
            /\ b + size[b] <= f \/ f + n <= b
        BY <1>2, <1>3, <1>6, <1>7, <3>3
      <4>2. b + size[b] - 1 \in Addr
        BY <1>3, <4>1
      <4>3. b + size[b] - 1 < f \/ f + m <= b + size[b] - 1
        BY <1>1, <1>3, <1>e, <1>k, <4>1
      <4>4. b + size[b] - 1 # rest + k - 1
        BY <1>3, <1>k, <4>1
      <4>5. trl'[b + size[b] - 1] = trl[b + size[b] - 1]
        BY <1>4, <2>r, <4>2, <4>3, <4>4
      <4>. QED
        BY <4>1, <4>5 DEF Trailers
    <3>. QED
      BY <3>1, <3>2, <3>3
  <2>. QED
    BY <2>1, <2>2 DEF Trailers
<1>10. Coalesced'
  <2> SUFFICES ASSUME NEW b \in Free' PROVE b + size'[b] \notin Free'
    BY DEF Coalesced, BlockEnd
  <2>1. \A c \in Free : c \in starts /\ c + size[c] \notin Free
    BY DEF Free, Coalesced, BlockEnd
  <2>2. CASE b = rest
    <3>1. f + n \notin Free
      BY <1>1, <1>e, <2>1
    <3>. QED
      BY <1>6, <1>7, <1>k, <2>2, <3>1
  <2>3. CASE b # rest
    <3>1. b \in Free /\ b \in starts \ {f} /\ size'[b] = size[b]
      BY <1>6, <1>7, <2>1, <2>3
    <3>2. b + size[b] # rest
      BY <1>3, <1>k, <3>1
    <3>. QED
      BY <1>7, <2>1, <3>1, <3>2
  <2>. QED
    BY <2>2, <2>3
<1>11. ListOK' /\ fwd'[endblock] = fwd[endblock]
  <2>0. /\ \A x \in (Free \ {f}) \cup {freelisthdr, endblock} :
             x \in Addr /\ hf[x] = fwd[x] /\ hb[x] = bck[x]
        /\ rest \notin Free /\ rest # freelisthdr /\ rest # endblock
    <3>1. \A x \in Free : x \in starts
      BY DEF Free
    <3>2. \A x \in Free \ {f} : x \in Addr /\ (x < f \/ f + m <= x)
      BY <1>5, <3>1
    <3>3. rest \notin Free /\ rest # freelisthdr /\ rest # endblock
      BY <1>3, <1>k, <1>n, <3>1
    <3> HIDE DEF Addr, TERMINATOR, freelisthdr, endblock
    <3>. QED
      BY <1>3, <1>4, <3>2, <3>3
  <2> HIDE DEF Addr, TERMINATOR, freelisthdr, endblock
  <2>1. Replaced(fwd, bck, f, rest, f1, b1)
    BY DEF Replaced
  <2>2. /\ List(Addr, TERMINATOR, (Free \ {f}) \cup {rest}, f1, b1, freelisthdr, endblock)
        /\ f1[endblock] = fwd[endblock]
    <3> HIDE DEF f1, b1
    <3>. QED
      BY <1>1, <1>k, <2>0, <2>1, ReplaceOK DEF ListOK
  <2> DEFINE P == bck[f]
             N == fwd[f]
  <2>3. P \in Addr /\ N \in Addr /\ N # TERMINATOR /\ P # endblock /\ rest \in Addr
    BY <1>1, <1>k, ListFacts DEF ListOK
  <2>4. /\ fwd' = [hf EXCEPT ![rest] = N, ![P] = rest]
        /\ bck' = [[hb EXCEPT ![rest] = P] EXCEPT ![N] = rest]
        /\ f1 = [fwd EXCEPT ![rest] = N, ![P] = rest]
        /\ b1 = [[bck EXCEPT ![rest] = P] EXCEPT ![N] = rest]
        /\ fwd \in [Addr -> Addr \cup {TERMINATOR}] /\ bck \in [Addr -> Addr \cup {TERMINATOR}]
    BY <1>1, <1>2 DEF MemTypeOK
  <2> HIDE DEF P, N, hf, hb, f1, b1
  <2>5. /\ fwd' \in [Addr -> Addr \cup {TERMINATOR}] /\ bck' \in [Addr -> Addr \cup {TERMINATOR}]
    BY <1>4, <2>3, <2>4
  <2>6. /\ \A x \in ((Free \ {f}) \cup {rest}) \cup {freelisthdr} : fwd'[x] = f1[x]
        /\ \A x \in ((Free \ {f}) \cup {rest}) \cup {endblock} : bck'[x] = b1[x]
        /\ fwd'[endblock] = fwd[endblock]
    BY <1>4, <2>0, <2>3, <2>4
  <2>7. List(Addr, TERMINATOR, Free', fwd', bck', freelisthdr, endblock)
    BY <1>7, <2>2, <2>5, <2>6, Frame
  <2>. QED
    BY <2>6, <2>7 DEF ListOK, freelisthdr, endblock, Addr, TERMINATOR
<1>12. MemTypeOK'
  <2>1. starts' \subseteq Addr
    BY <1>2, <1>k DEF MemTypeOK
  <2>. QED
    BY <1>t, <1>11, <2>1 DEF MemTypeOK, ListOK, List, Cells
<1>13. Sentinels'
  <2>1. freelisthdr # rest /\ endblock # rest /\ freelisthdr # f /\ endblock # f
    BY <1>3, <1>k
  <2> HIDE DEF Addr, freelisthdr, endblock
  <2>. QED
    BY <1>2, <1>3, <1>4, <1>11, <2>1 DEF Sentinels
<1>. QED
  BY <1>2, <1>8, <1>9, <1>10, <1>11, <1>12, <1>13

-------------------------------------------------------------------------------
(* The walk of clearheap *)

(* A release takes nothing live from the heap but the block it is given.   *)
LEMMA Survivors ==
  ASSUME NEW x, NEW n, NEW ms, Release(x, n, ms), NEW w \in starts, w # x, tag[w] # FREETAG
  PROVE  w \in starts'
<1>1. FollowingFree(x, n, ms) => w # x + n
  BY DEF FollowingFree
<1>. QED
  BY <1>1 DEF Release, MergeThree, MergeFollowing, MergePreceding, PushFront

(* Where the walk stands if it goes on from w. *)
Onward(w, ms) ==
  \/ w \in starts' \cup {ms}
  \/ tag'[w] = FREETAG /\ w + size'[w] \in starts' \cup {ms}

(* The size that the release of x leaves at x leads to a block, or to the  *)
(* old header of the one that followed x, which is still marked free and   *)
(* whose size leads to a block.                                            *)
LEMMA OnwardOK ==
  ASSUME NEW x, NEW n, NEW ms,
         PreRelease(x, n, ms), Release(x, n, ms), memsize' = ms
  PROVE  Onward(x + size'[x], ms)
<1>0. /\ Tiled' /\ MemTypeOK /\ x \in Addr /\ x \in Nat /\ n \in Nat /\ n > 0
      /\ x \notin Free /\ memsize' = ms
      /\ \A b \in Free : b \in starts \ {x} /\ b \in Addr /\ b \in Nat /\ size[b] \in Nat /\ size[b] > 0
  BY ReleaseOK, Places DEF PreRelease, ArenaOK
<1>1. \A b \in starts' : b + size'[b] \in starts' \cup {ms}
  BY <1>0 DEF Tiled, BlockEnd
<1>2. CASE PushFront(x, n, ms) \/ MergeFollowing(x, n, ms)
  <2>1. x \in starts'
    <3>1. x # x + n
      BY <1>0
    <3>. QED
      BY <1>2, <3>1 DEF PushFront, MergeFollowing
  <2>. QED
    BY <1>1, <2>1 DEF Onward
<1>3. CASE MergePreceding(x, n, ms)
  <2> DEFINE p == PrevBlk(x)
             sz == size[p] + n
  <2>1. p \in Free /\ p + size[p] = x
    BY <1>3, Neighbours DEF MergePreceding
  <2>2. size' = [size EXCEPT ![p] = sz, ![x] = n] /\ starts' = starts \ {x}
    BY <1>3 DEF MergePreceding
  <2>p. p \in Nat /\ size[p] \in Nat /\ p \in Addr /\ p \in starts /\ p # x /\ sz = size[p] + n
    <3> HIDE DEF p
    <3>. QED
      BY <1>0, <2>1
  <2> HIDE DEF p, sz
  <2>3. size'[p] = sz /\ size'[x] = n /\ p \in starts'
    BY <1>0, <2>2, <2>p DEF MemTypeOK
  <2>4. p + sz = x + n
    BY <1>0, <2>1, <2>p
  <2>. QED
    BY <1>1, <2>3, <2>4 DEF Onward
<1>4. CASE MergeThree(x, n, ms)
  <2> DEFINE p == PrevBlk(x)
             q == x + n
             sz == size[p] + n + size[q]
  <2>1. q \in Free /\ p \in Free /\ p + size[p] = x
    BY <1>4, Neighbours DEF MergeThree
  <2>2. /\ size' = [size EXCEPT ![p] = sz, ![x] = n] /\ starts' = starts \ {x, q}
        /\ tag' = [tag EXCEPT ![x] = 0]
    BY <1>4 DEF MergeThree
  <2>p. p \in Nat /\ size[p] \in Nat /\ size[p] > 0 /\ p \in Addr /\ p \in starts /\ p # x
    <3> HIDE DEF p
    <3>. QED
      BY <1>0, <2>1
  <2>q. q \in Nat /\ size[q] \in Nat /\ q \in Addr /\ q \in starts /\ q # x /\ tag[q] = FREETAG
    <3> HIDE DEF q
    <3>. QED
      BY <1>0, <2>1 DEF Free
  <2>e. sz = size[p] + n + size[q] /\ q = x + n
    OBVIOUS
  <2> HIDE DEF p, sz, q
  <2>r. p # q
    BY <1>0, <2>1, <2>p, <2>e
  <2>3. /\ size'[p] = sz /\ size'[x] = n /\ p \in starts' /\ size'[q] = size[q]
        /\ tag'[q] = FREETAG
    BY <1>0, <2>2, <2>p, <2>q, <2>r DEF MemTypeOK
  <2>4. p + sz = q + size[q]
    BY <1>0, <2>1, <2>p, <2>q, <2>e
  <2>. QED
    BY <1>1, <2>3, <2>4, <2>e DEF Onward
<1>. QED
  BY <1>2, <1>3, <1>4 DEF Release

(* Going on from a place that is on the way keeps the walk on the way. *)
LEMMA AdvanceOK ==
  ASSUME pc = "clear", walk \in Addr, Advance, memsize' = memsize, memsize \in Nat,
         MaxMem \in Nat, memsize <= MaxMem,
         MemTypeOK', Tiled', Onward(walk + size'[walk], memsize)
  PROVE  WalkOK' /\ walk' \in Addr /\ pc' \in {"clear", "idle"} /\ loop' = loop
<1> DEFINE next == walk + size'[walk]
<1>0. size'[walk] \in Nat /\ walk \in Nat /\ membase \in starts' /\ starts' \subseteq Addr
  BY DEF MemTypeOK, Tiled
<1>1. CASE next < memsize
  <2>1. walk' = next /\ UNCHANGED <<pc, loop>>
    BY <1>1 DEF Advance
  <2>2. next \in Addr /\ next # memsize /\ next \in Nat
    BY <1>0, <1>1
  <2> HIDE DEF next
  <2>3. next \in starts' \/ (tag'[next] = FREETAG /\ next + size'[next] \in starts' \cup {memsize})
    BY <2>2 DEF Onward, next
  <2>. QED
    BY <2>1, <2>2, <2>3 DEF WalkOK
<1>2. CASE ~(next < memsize)
  <2>1. walk' = membase /\ pc' = "idle" /\ loop' = loop
    BY <1>2 DEF Advance
  <2>. QED
    BY <1>0, <2>1 DEF WalkOK
<1>. QED
  BY <1>1, <1>2

-------------------------------------------------------------------------------
(* Every step keeps the invariant, one lemma for each of its actions.      *)
Kept == MemTypeOK' /\ CtlTypeOK' /\ ArenaOK' /\ SearchOK' /\ WalkOK'

LEMMA ReserveKeeps ==
  ASSUME IInv, NEW n \in Requests, Reserve(n)
  PROVE  Kept
<1>1. MemTypeOK /\ CtlTypeOK /\ ArenaOK
  BY TypeSplit DEF IInv
<1>2. MemTypeOK' /\ ArenaOK' /\ mem' = mem /\ memsize' = memsize
  BY <1>1, Untouched DEF Reserve
<1>3. fwd' = fwd /\ freelisthdr \in Addr
  BY <1>1, <1>2, HeapConstants DEF mem, links, CtlTypeOK
<1>4. CtlTypeOK' /\ SearchOK'
  <2>1. freeptr' = freelisthdr /\ nextfree' = fwd[freelisthdr] /\ pc' = "search" /\ req' = n
        /\ walk' = walk /\ memsize' = memsize
    BY <1>3 DEF Reserve, StartSearch
  <2>2. fwd[freelisthdr] \in Addr \cup {TERMINATOR}
    BY <1>1, <1>3 DEF MemTypeOK
  <2> HIDE DEF Addr, freelisthdr, TERMINATOR
  <2>. QED
    BY <1>1, <1>3, <2>1, <2>2 DEF CtlTypeOK, SearchOK
<1>5. WalkOK'
  BY DEF Reserve, WalkOK
<1>. QED
  BY <1>2, <1>4, <1>5 DEF Kept

LEMMA SearchNextKeeps ==
  ASSUME IInv, SearchNext
  PROVE  Kept
<1>1. MemTypeOK /\ CtlTypeOK /\ ArenaOK /\ SearchOK
  BY TypeSplit DEF IInv
<1>2. MemTypeOK' /\ ArenaOK' /\ mem' = mem /\ memsize' = memsize
  BY <1>1, Untouched DEF SearchNext
<1>3. /\ fwd' = fwd /\ Free' = Free /\ pc = "search" /\ pc' = "search" /\ req' = req
      /\ walk' = walk /\ freeptr' = nextfree /\ nextfree' = fwd[nextfree]
      /\ nextfree # TERMINATOR
  BY <1>2 DEF mem, links, SearchNext, Free
<1>4. /\ req \in Requests /\ nextfree \in Free \cup {endblock} /\ nextfree \in Addr
      /\ fwd[nextfree] \in Addr \cup {TERMINATOR} /\ fwd[endblock] = TERMINATOR
  <2> HIDE DEF Addr, TERMINATOR, freelisthdr, endblock
  <2>1. req \in Requests /\ freeptr \in Free \cup {freelisthdr} /\ nextfree = fwd[freeptr]
    BY <1>1, <1>3 DEF SearchOK
  <2>2. nextfree \in Free \cup {endblock} /\ nextfree \in Addr
    BY <1>1, <2>1, ListFacts DEF ArenaOK, ListOK
  <2>. QED
    BY <1>1, <2>1, <2>2 DEF MemTypeOK, ArenaOK, Sentinels
<1>5. CtlTypeOK' /\ SearchOK' /\ WalkOK'
  <2> HIDE DEF Addr, TERMINATOR, freelisthdr, endblock
  <2>. QED
    BY <1>1, <1>2, <1>3, <1>4 DEF CtlTypeOK, SearchOK, WalkOK
<1>. QED
  BY <1>2, <1>5 DEF Kept

LEMMA TakeKeeps ==
  ASSUME IInv, TakeWhole \/ TakeFront
  PROVE  Kept
<1>1. MemTypeOK /\ CtlTypeOK /\ ArenaOK /\ SearchOK
  BY TypeSplit DEF IInv
<1>2. MemTypeOK' /\ ArenaOK' /\ memsize' = memsize
  BY <1>1, TakeWholeOK, TakeFrontOK
<1>3. /\ pc' = "idle" /\ req' = 0 /\ freeptr' = freelisthdr /\ nextfree' = TERMINATOR
      /\ walk' = walk
  BY DEF TakeWhole, TakeFront, EndSearch
<1>4. freelisthdr \in Addr
  BY <1>1, HeapConstants DEF CtlTypeOK
<1> HIDE DEF Addr, TERMINATOR, freelisthdr
<1>5. CtlTypeOK' /\ SearchOK' /\ WalkOK'
  BY <1>1, <1>2, <1>3, <1>4 DEF CtlTypeOK, SearchOK, WalkOK
<1>. QED
  BY <1>2, <1>5 DEF Kept

(* A jump to the top level puts the walk on the first block.               *)
LEMMA StartClearKeeps ==
  ASSUME MemTypeOK', ArenaOK', memsize' \in membase .. MaxMem, StartClear
  PROVE  CtlTypeOK' /\ SearchOK' /\ WalkOK'
<1>1. /\ pc' = "clear" /\ req' = 0 /\ walk' = membase
      /\ freeptr' = freelisthdr /\ nextfree' = TERMINATOR
  BY DEF StartClear
<1>2. membase \in starts' /\ membase \in Addr
  <2> HIDE DEF Addr, membase
  <2>. QED
    BY DEF ArenaOK, Tiled, MemTypeOK
<1>3. freelisthdr \in Addr
  BY <1>2, HeapConstants
<1> HIDE DEF Addr, TERMINATOR, freelisthdr, membase
<1>. QED
  BY <1>1, <1>2, <1>3 DEF CtlTypeOK, SearchOK, WalkOK

LEMMA ExpandHeapKeeps ==
  ASSUME IInv, ExpandHeap
  PROVE  Kept
<1>1. MemTypeOK /\ CtlTypeOK /\ ArenaOK /\ SearchOK /\ pc = "search"
  BY TypeSplit DEF IInv, ExpandHeap
<1> DEFINE n == MemIncr(req)
<1>2. n \in Nat /\ n >= MinSize /\ memsize \in Nat /\ req \in Requests
  BY <1>1, IncrOK, HeapConstants DEF CtlTypeOK, SearchOK
<1>3. memsize + n <= MaxMem /\ memsize' = memsize + n /\ Release(memsize, n, memsize + n)
  BY DEF ExpandHeap
<1>e. \/ pc' = "search" /\ StartSearch /\ UNCHANGED <<req, walk>>
      \/ StartClear
  BY DEF ExpandHeap
<1> HIDE DEF n
<1>4. PreRelease(memsize, n, memsize + n)
  BY <1>1, <1>2, <1>3, ExpandPre
<1>5. MemTypeOK' /\ ArenaOK'
  BY <1>3, <1>4, ReleaseOK
<1>6. memsize' \in membase .. MaxMem
  <2>1. memsize + n \in membase .. MaxMem
    BY <1>1, <1>2, <1>3, HeapConstants DEF CtlTypeOK
  <2> HIDE DEF membase
  <2>. QED
    BY <1>3, <2>1
<1>7. CASE StartClear
  BY <1>5, <1>6, <1>7, StartClearKeeps DEF Kept
<1>8. CASE pc' = "search" /\ StartSearch /\ UNCHANGED <<req, walk>>
  <2>1. /\ pc' = "search" /\ freeptr' = freelisthdr /\ nextfree' = fwd'[freelisthdr]
        /\ req' = req /\ walk' = walk
    BY <1>8 DEF StartSearch
  <2>2. freelisthdr \in Addr
    BY <1>1, HeapConstants DEF CtlTypeOK
  <2> HIDE DEF Addr, TERMINATOR, freelisthdr, membase
  <2>3. fwd'[freelisthdr] \in Addr \cup {TERMINATOR}
    BY <1>5, <2>2 DEF MemTypeOK
  <2>4. CtlTypeOK' /\ SearchOK' /\ WalkOK'
    BY <1>1, <1>2, <1>6, <2>1, <2>2, <2>3 DEF CtlTypeOK, SearchOK, WalkOK
  <2>. QED
    BY <1>5, <2>4 DEF Kept
<1>. QED
  BY <1>e, <1>7, <1>8

(* realloc fails, or a fault ends what was running. *)
LEMMA JumpKeeps ==
  ASSUME IInv, ExpandFails \/ Jump
  PROVE  Kept
<1>1. MemTypeOK /\ CtlTypeOK /\ ArenaOK
  BY TypeSplit DEF IInv
<1>2. StartClear /\ UNCHANGED <<memsize, mem>>
  BY DEF ExpandFails, Jump
<1>3. MemTypeOK' /\ ArenaOK'
  BY <1>1, <1>2, Untouched
<1>4. memsize' \in membase .. MaxMem
  <2> HIDE DEF membase
  <2>. QED
    BY <1>1, <1>2 DEF CtlTypeOK
<1>. QED
  BY <1>2, <1>3, <1>4, StartClearKeeps DEF Kept

(* While no search and no walk goes on, the rest of the invariant is idle. *)
LEMMA IdleKeeps ==
  ASSUME CtlTypeOK, pc = "idle", UNCHANGED <<memsize, pc, loop, walk>>
  PROVE  CtlTypeOK' /\ SearchOK' /\ WalkOK'
<1>1. /\ memsize' = memsize /\ pc' = pc /\ req' = req /\ freeptr' = freeptr
      /\ nextfree' = nextfree /\ walk' = walk
  BY DEF loop
<1> HIDE DEF Addr, TERMINATOR, membase
<1>. QED
  BY <1>1 DEF CtlTypeOK, SearchOK, WalkOK

LEMMA ClientKeeps ==
  ASSUME IInv, NEW b \in Live, Hold(b) \/ Drop(b) \/ FreeUp(b)
  PROVE  Kept
<1>1. MemTypeOK /\ CtlTypeOK /\ ArenaOK
  BY TypeSplit DEF IInv
<1>2. CASE Hold(b) \/ Drop(b)
  <2>1. /\ \E k \in {0, 1} : tag' = [tag EXCEPT ![b] = k]
        /\ UNCHANGED <<memsize, size, fwd, bck, trl, starts>>
        /\ pc = "idle" /\ UNCHANGED <<memsize, pc, loop, walk>>
    BY <1>2 DEF Hold, Drop, links
  <2>2. MemTypeOK' /\ ArenaOK'
    BY <1>1, <2>1, CountOK
  <2>. QED
    BY <1>1, <2>1, <2>2, IdleKeeps DEF Kept
<1>3. CASE FreeUp(b)
  <2>1. Release(b, size[b], memsize) /\ pc = "idle" /\ UNCHANGED <<memsize, pc, loop, walk>>
    BY <1>3 DEF FreeUp
  <2>2. MemTypeOK' /\ ArenaOK'
    BY <1>1, <2>1, LivePre, ReleaseOK
  <2>. QED
    BY <1>1, <2>1, <2>2, IdleKeeps DEF Kept
<1>. QED
  BY <1>2, <1>3

LEMMA ClearItemKeeps ==
  ASSUME IInv, NEW b \in Live, ClearItem(b)
  PROVE  Kept
<1>1. MemTypeOK /\ CtlTypeOK /\ ArenaOK /\ WalkOK
  BY TypeSplit DEF IInv
<1>2. /\ Release(b, size[b], memsize) /\ pc = "clear" /\ tag[walk] = 0 /\ b # walk
      /\ memsize' = memsize /\ pc' = pc /\ req' = req /\ freeptr' = freeptr
      /\ nextfree' = nextfree /\ walk' = walk
  BY DEF ClearItem, loop
<1>3. MemTypeOK' /\ ArenaOK'
  BY <1>1, <1>2, LivePre, ReleaseOK
<1>4. walk \in starts' /\ tag[walk] # FREETAG
  BY <1>1, <1>2, Survivors DEF WalkOK
<1>5. CtlTypeOK' /\ SearchOK' /\ WalkOK'
  <2> HIDE DEF Addr, TERMINATOR, membase
  <2>. QED
    BY <1>1, <1>2, <1>4 DEF CtlTypeOK, SearchOK, WalkOK
<1>. QED
  BY <1>3, <1>5 DEF Kept

(* Both ways to step on to the next block of the walk. *)
LEMMA StepOnKeeps ==
  ASSUME CtlTypeOK, pc = "clear", MemTypeOK', ArenaOK', memsize' = memsize,
         Advance, Onward(walk + size'[walk], memsize)
  PROVE  Kept
<1>1. memsize \in Nat /\ MaxMem \in Nat /\ memsize <= MaxMem /\ walk \in Addr
  BY HeapConstants DEF CtlTypeOK
<1>2. WalkOK' /\ walk' \in Addr /\ pc' \in {"clear", "idle"} /\ loop' = loop
  <2> HIDE DEF Addr, membase, FREETAG
  <2>. QED
    BY <1>1, AdvanceOK DEF ArenaOK
<1>3. req' = req /\ freeptr' = freeptr /\ nextfree' = nextfree
  BY <1>2 DEF loop
<1>4. CtlTypeOK' /\ SearchOK'
  <2> HIDE DEF Addr, TERMINATOR, membase
  <2>. QED
    BY <1>2, <1>3 DEF CtlTypeOK, SearchOK
<1>. QED
  BY <1>2, <1>4 DEF Kept

LEMMA ClearBlockKeeps ==
  ASSUME IInv, ClearBlock
  PROVE  Kept
<1>1. MemTypeOK /\ CtlTypeOK /\ ArenaOK /\ WalkOK
  BY TypeSplit DEF IInv
<1>2. /\ Release(walk, size[walk], memsize) /\ pc = "clear" /\ Allocated(walk)
      /\ memsize' = memsize /\ Advance
  BY DEF ClearBlock
<1>3. walk \in Live
  BY <1>1, <1>2 DEF WalkOK, Live, Allocated
<1>4. PreRelease(walk, size[walk], memsize)
  BY <1>1, <1>3, LivePre
<1>5. MemTypeOK' /\ ArenaOK' /\ Onward(walk + size'[walk], memsize)
  BY <1>2, <1>4, ReleaseOK, OnwardOK
<1>. QED
  BY <1>1, <1>2, <1>5, StepOnKeeps

LEMMA ClearSkipKeeps ==
  ASSUME IInv, ClearSkip
  PROVE  Kept
<1>1. MemTypeOK /\ CtlTypeOK /\ ArenaOK /\ WalkOK
  BY TypeSplit DEF IInv
<1>2. /\ pc = "clear" /\ memsize' = memsize /\ Advance /\ UNCHANGED <<memsize, mem>>
      /\ size' = size /\ starts' = starts
  BY DEF ClearSkip, mem
<1>3. MemTypeOK' /\ ArenaOK'
  BY <1>1, <1>2, Untouched
<1>4. walk + size[walk] \in starts \cup {memsize}
  BY <1>1, <1>2 DEF WalkOK, ArenaOK, Tiled, BlockEnd
<1>5. Onward(walk + size'[walk], memsize)
  BY <1>2, <1>4 DEF Onward
<1>. QED
  BY <1>1, <1>2, <1>3, <1>5, StepOnKeeps

LEMMA StutterKeeps ==
  ASSUME IInv, UNCHANGED vars
  PROVE  Kept
<1>1. MemTypeOK /\ CtlTypeOK /\ ArenaOK /\ SearchOK /\ WalkOK
  BY TypeSplit DEF IInv
<1>2. /\ UNCHANGED <<memsize, mem>>
      /\ memsize' = memsize /\ pc' = pc /\ req' = req /\ freeptr' = freeptr
      /\ nextfree' = nextfree /\ walk' = walk /\ fwd' = fwd /\ tag' = tag /\ size' = size
      /\ starts' = starts
  BY DEF vars, mem, loop, links
<1>3. MemTypeOK' /\ ArenaOK'
  BY <1>1, <1>2, Untouched
<1>4. Free' = Free
  BY <1>2 DEF Free
<1>5. CtlTypeOK' /\ SearchOK' /\ WalkOK'
  <2> HIDE DEF Addr, TERMINATOR, membase
  <2>. QED
    BY <1>1, <1>2, <1>4 DEF CtlTypeOK, SearchOK, WalkOK
<1>. QED
  BY <1>3, <1>5 DEF Kept

LEMMA NextOK == IInv /\ [Next]_vars => IInv'
<1> SUFFICES ASSUME IInv, [Next]_vars PROVE IInv'
  OBVIOUS
<1>0. Kept => IInv'
  BY TypeSplitPrime DEF Kept, IInv
<1>1. CASE Search
  BY <1>0, <1>1, SearchNextKeeps, TakeKeeps, ExpandHeapKeeps, JumpKeeps DEF Search
<1>2. CASE Clear
  BY <1>0, <1>2, ClearItemKeeps, ClearBlockKeeps, ClearSkipKeeps DEF Clear
<1>3. CASE Client
  BY <1>0, <1>3, ReserveKeeps, ClientKeeps, JumpKeeps DEF Client
<1>4. CASE UNCHANGED vars
  BY <1>0, <1>4, StutterKeeps
<1>. QED
  BY <1>1, <1>2, <1>3, <1>4 DEF Next

THEOREM Invariance == Spec => []IInv
BY InitOK, NextOK, PTL DEF Spec

(* Every variable of the memory manager keeps its type: no link, size or   *)
(* walk ever leaves the heap.                                              *)
THEOREM TypeCorrect == Spec => []TypeOK
<1>1. IInv => TypeOK
  BY DEF IInv
<1>. QED
  BY <1>1, Invariance, PTL

LEMMA ListLinked == ListOK => Linked
<1> HIDE DEF Addr, TERMINATOR, freelisthdr, endblock
<1>. QED
  BY DEF ListOK, List, Doubly, Linked

(* After any sequence of reserves, releases, growths and clears the heap   *)
(* is tiled, marked at both ends of each block, merged and linked: what    *)
(* memchk and chkfl test at run time holds for every size of the heap, of  *)
(* its blocks and of the requests.                                         *)
THEOREM HeapCorrect == Spec => []HeapOK
<1>1. IInv => HeapOK
  BY ListLinked DEF IInv, ArenaOK, HeapOK
<1>. QED
  BY <1>1, Invariance, PTL

===============================================================================
