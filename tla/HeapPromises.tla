----------------------------- MODULE HeapPromises -----------------------------
(***************************************************************************)
(* The memory manager does what HeapSpec promises: a step of reserve that  *)
(* hands out a block is a Reserve of the intervals the clients hold, a     *)
(* step that frees a block in use a Release, and all others change none.   *)
(* And a walk of clearheap that comes to its end has freed every block     *)
(* without a reference.  And the free list, followed from its header, is   *)
(* all the free blocks.                                                    *)
(***************************************************************************)
EXTENDS HeapProofs, FiniteSetTheorems, WellFoundedInduction

(* What release() does to the blocks in use, whatever it merges: it takes  *)
(* x from them and leaves the others where they are, as long as they are   *)
(* and with their references (absmach.c:748-830).                          *)
LEMMA ReleaseLive ==
  ASSUME NEW x, NEW n, NEW ms, PreRelease(x, n, ms), Release(x, n, ms)
  PROVE  /\ Live' = Live \ {x}
         /\ \A b \in Live \ {x} : size'[b] = size[b] /\ tag'[b] = tag[b]
<1> DEFINE p == PrevBlk(x)
           q == x + n
<1>1. /\ FollowingFree(x, n, ms) => q \in Free
      /\ PrecedingFree(x, ms) => p \in Free
  BY Neighbours
<1>2. x \in Addr /\ \A b \in starts \ {x} : b \in Addr
  BY Places
<1>3. \A b \in Live \ {x} : b \in Addr /\ b \in starts /\ b \notin Free /\ b # x
  BY <1>2 DEF Live, Free, Allocated
<1>4. tag \in [Addr -> {FREETAG, LOCKEDBLOCK, 0, 1}] /\ size \in [Addr -> 0 .. MaxMem]
  BY DEF PreRelease, MemTypeOK
<1>5. \A b : b \in Live <=> b \in starts /\ tag[b] # FREETAG /\ tag[b] # LOCKEDBLOCK
  BY DEF Live, Allocated
<1>6. \A b : b \in Live' <=> b \in starts' /\ tag'[b] # FREETAG /\ tag'[b] # LOCKEDBLOCK
  BY DEF Live, Allocated
<1>7. \A b \in Free : tag[b] = FREETAG /\ b \in starts
  BY DEF Free
<1>8. SUFFICES /\ \A b : b \in Live' <=> b \in Live /\ b # x
               /\ \A b \in Live \ {x} : size'[b] = size[b] /\ tag'[b] = tag[b]
  BY Zenon
<1>. HIDE DEF p, q
<1>a. CASE MergeThree(x, n, ms)
  <2>1. /\ starts' = starts \ {x, q} /\ q \in Free /\ p \in Free
        /\ tag' = [tag EXCEPT ![x] = 0]
    BY <1>a, <1>1 DEF MergeThree, p, q
  <2>2. \E s, t : size' = [size EXCEPT ![p] = s, ![x] = t]
    BY <1>a DEF MergeThree, p, q
  <2>3. \A b \in Live \ {x} : size'[b] = size[b] /\ tag'[b] = tag[b]
    BY <2>1, <2>2, <1>2, <1>3, <1>4
  <2>4. \A b : b \in Live' <=> b \in Live /\ b # x
    BY <2>1, <1>2, <1>4, <1>5, <1>6, <1>7
  <2>. QED
    BY <2>3, <2>4
<1>b. CASE MergeFollowing(x, n, ms)
  <2>1. /\ starts' = (starts \cup {x}) \ {q} /\ q \in Free
        /\ tag' = [tag EXCEPT ![x] = FREETAG]
    BY <1>b, <1>1 DEF MergeFollowing, q
  <2>2. \E s : size' = [size EXCEPT ![x] = s]
    BY <1>b DEF MergeFollowing
  <2>3. \A b \in Live \ {x} : size'[b] = size[b] /\ tag'[b] = tag[b]
    BY <2>1, <2>2, <1>2, <1>3, <1>4
  <2>4. \A b : b \in Live' <=> b \in Live /\ b # x
    BY <2>1, <1>2, <1>4, <1>5, <1>6, <1>7
  <2>. QED
    BY <2>3, <2>4
<1>c. CASE MergePreceding(x, n, ms)
  <2>1. /\ starts' = starts \ {x} /\ p \in Free
        /\ tag' = [tag EXCEPT ![x] = 0]
    BY <1>c, <1>1 DEF MergePreceding, p
  <2>2. \E s, t : size' = [size EXCEPT ![p] = s, ![x] = t]
    BY <1>c DEF MergePreceding, p
  <2>3. \A b \in Live \ {x} : size'[b] = size[b] /\ tag'[b] = tag[b]
    BY <2>1, <2>2, <1>2, <1>3, <1>4
  <2>4. \A b : b \in Live' <=> b \in Live /\ b # x
    BY <2>1, <1>2, <1>4, <1>5, <1>6
  <2>. QED
    BY <2>3, <2>4
<1>d. CASE PushFront(x, n, ms)
  <2>1. /\ starts' = starts \cup {x}
        /\ tag' = [tag EXCEPT ![x] = FREETAG]
        /\ size' = [size EXCEPT ![x] = n]
    BY <1>d DEF PushFront
  <2>3. \A b \in Live \ {x} : size'[b] = size[b] /\ tag'[b] = tag[b]
    BY <2>1, <1>2, <1>3, <1>4
  <2>4. \A b : b \in Live' <=> b \in Live /\ b # x
    BY <2>1, <1>2, <1>4, <1>5, <1>6
  <2>. QED
    BY <2>3, <2>4
<1>. QED
  BY <1>a, <1>b, <1>c, <1>d DEF Release

(* What the clients see of a release: x's interval goes, if it was one.    *)
LEMMA ReleaseSeen ==
  ASSUME NEW x, NEW n, NEW ms, PreRelease(x, n, ms), Release(x, n, ms)
  PROVE  /\ x \in Live => Containers' = Containers \ {[at |-> x, len |-> size[x]]}
         /\ x \notin Live => Containers' = Containers
<1> DEFINE I(b) == [at |-> b, len |-> size[b]]
           J(b) == [at |-> b, len |-> size'[b]]
<1>1. Live' = Live \ {x} /\ \A b \in Live \ {x} : J(b) = I(b)
  BY ReleaseLive
<1>2. Containers = {I(b) : b \in Live} /\ Containers' = {J(b) : b \in Live'}
  BY DEF Containers
<1>3. \A b, c : I(b) = I(c) => b = c
  BY Zenon, \A b : I(b).at = b
<1> HIDE DEF I, J
<1>4. Containers' = {I(b) : b \in Live \ {x}}
  BY <1>1, <1>2
<1>5. x \in Live => Containers' = Containers \ {I(x)}
  BY <1>2, <1>3, <1>4
<1>6. x \notin Live => Containers' = Containers
  BY <1>2, <1>4
<1>. QED
  BY <1>5, <1>6 DEF I

(* A client's block is an interval of words, and no two of them overlap.   *)
LEMMA LiveApart ==
  ASSUME MemTypeOK, CtlTypeOK, ArenaOK
  PROVE  /\ \A f \in starts : /\ f \in 0 .. MaxMem /\ size[f] \in 0 .. MaxMem
                              /\ f \in Nat /\ size[f] \in Nat
         /\ \A f \in starts : \A b \in starts \ {f} :
              b + size[b] <= f \/ f + size[f] <= b
<1>1. ASSUME NEW f \in starts
      PROVE  /\ f \in Nat /\ f \in 0 .. MaxMem /\ size[f] \in Nat /\ size[f] \in 0 .. MaxMem
             /\ \A b \in starts \ {f} : b + size[b] <= f \/ f + size[f] <= b
  <2>1. /\ f \in Nat /\ size[f] \in Nat /\ f + size[f] <= MaxMem /\ MaxMem \in Nat
        /\ \A b \in starts \ {f} : b + size[b] <= f \/ f + size[f] <= b
    BY Extent
  <2>. QED
    BY <2>1
<1>. QED
  BY <1>1

(* reserve() hands out an interval of the heap beside all that are in use: *)
(* the front of a free block, or all of it (absmach.c:607-660).            *)
LEMMA HandOutReserves ==
  ASSUME MemTypeOK, CtlTypeOK, ArenaOK, NEW f \in Free, NEW n \in Nat, n <= size[f],
         Live' = Live \cup {f}, size'[f] = n, \A b \in Live : size'[b] = size[b]
  PROVE  Abs!Reserve
<1> DEFINE I(b) == [at |-> b, len |-> size[b]]
           J(b) == [at |-> b, len |-> size'[b]]
           new  == [at |-> f, len |-> n]
<1>1. f \in starts /\ \A b \in Live : b \in starts \ {f}
  BY DEF Free, Live, Allocated
<1>2. /\ f \in Nat /\ size[f] \in Nat /\ f \in 0 .. MaxMem /\ size[f] \in 0 .. MaxMem
      /\ \A b \in Live : /\ b \in Nat /\ size[b] \in Nat
                         /\ b + size[b] <= f \/ f + size[f] <= b
  BY <1>1, LiveApart
<1>3. new \in [at : 0 .. MaxMem, len : 0 .. MaxMem]
  <2>1. n \in 0 .. MaxMem
    BY <1>2, HeapConstants
  <2>. QED
    BY <1>2, <2>1
<1>4. Containers = {I(b) : b \in Live} /\ Containers' = {J(b) : b \in Live \cup {f}}
  BY DEF Containers
<1>5. J(f) = new /\ \A b \in Live : J(b) = I(b)
  OBVIOUS
<1>6. Containers' = Containers \cup {new}
  <2> HIDE DEF I, J, new
  <2>. QED
    BY <1>4, <1>5
<1>7. \A a \in Containers : a.at + a.len <= new.at \/ new.at + new.len <= a.at
  <2> SUFFICES ASSUME NEW b \in Live
               PROVE  b + size[b] <= f \/ f + n <= b
    BY <1>4
  <2>. QED
    BY <1>2
<1>. HIDE DEF new
<1>. QED
  BY <1>3, <1>6, <1>7 DEF Abs!Reserve, Abs!Interval, Abs!Apart

(* A block that is handed out as a whole joins those in use.               *)
LEMMA TakeWholeReserves ==
  ASSUME MemTypeOK, CtlTypeOK, ArenaOK, SearchOK, TakeWhole
  PROVE  Abs!Reserve
<1> DEFINE f == nextfree
           n == size[f]
<1>1. f \in Free /\ f \in starts
  BY Found DEF TakeWhole, Free
<1>2. /\ size' = HandSize(f, n) /\ tag' = HandTag(f, n) /\ starts' = starts
  BY DEF TakeWhole
<1>. HIDE DEF f
<1>3. /\ f \in Nat /\ f \in Addr /\ n \in Nat /\ n > 0 /\ f + n <= MaxMem /\ MaxMem \in Nat
      /\ \A b \in starts \ {f} : b \in Addr /\ (b < f \/ f + n <= b)
  <2>1. /\ f \in Nat /\ f \in Addr /\ size[f] \in Nat /\ size[f] >= MinSize
        /\ f + size[f] <= MaxMem /\ MaxMem \in Nat /\ MinSize \in Nat /\ MinSize > 0
        /\ \A b \in starts \ {f} :
             /\ b \in Nat /\ b \in Addr /\ size[b] \in Nat /\ size[b] >= MinSize
             /\ b + size[b] <= f \/ f + size[f] <= b
    BY <1>1, Extent
  <2>. QED
    BY <2>1
<1>. HIDE DEF n
<1>4. /\ size'[f] = n /\ tag'[f] = 0
      /\ \A b \in starts \ {f} : size'[b] = size[b] /\ tag'[b] = tag[b]
  <2>1. /\ HandSize(f, n)[f] = n /\ HandTag(f, n)[f] = 0
        /\ \A a \in Addr : a < f \/ f + n <= a =>
             HandSize(f, n)[a] = size[a] /\ HandTag(f, n)[a] = tag[a]
    BY <1>3, HandOut
  <2>. QED
    BY <1>2, <1>3, <2>1
<1>5. \A b : b \in Live' <=> b \in Live \/ b = f
  BY <1>1, <1>2, <1>4 DEF Live, Allocated, FREETAG, LOCKEDBLOCK
<1>6. Live' = Live \cup {f}
  BY <1>5
<1>7. \A b \in Live : size'[b] = size[b]
  BY <1>1, <1>4 DEF Live, Allocated, Free
<1>8. n <= size[f]
  BY <1>3 DEF n
<1>. QED
  BY <1>1, <1>3, <1>4, <1>6, <1>7, <1>8, HandOutReserves

(* The front of a block that is split joins those in use; its tail does    *)
(* not, and is none of the blocks there were.                              *)
LEMMA TakeFrontReserves ==
  ASSUME MemTypeOK, CtlTypeOK, ArenaOK, SearchOK, TakeFront
  PROVE  Abs!Reserve
<1> DEFINE f == nextfree
           r == f + req
           k == size[f] - req
<1>1. f \in Free /\ f \in starts /\ req \in Nat /\ req >= MinSize
  BY Found DEF TakeFront, Free
<1>2. /\ size' = [HandSize(f, req) EXCEPT ![r] = k]
      /\ tag' = [HandTag(f, req) EXCEPT ![r] = FREETAG]
      /\ starts' = starts \cup {r}
      /\ k >= MinSize
  BY DEF TakeFront
<1>. HIDE DEF f
<1>3. /\ f \in Nat /\ f \in Addr /\ req > 0 /\ f + req <= MaxMem /\ MaxMem \in Nat
      /\ r \in Addr /\ r # f /\ req <= size[f]
      /\ \A b \in starts \ {f} : b \in Addr /\ b # r /\ (b < f \/ f + req <= b)
  <2>1. /\ f \in Nat /\ f \in Addr /\ size[f] \in Nat /\ size[f] >= MinSize
        /\ f + size[f] <= MaxMem /\ MaxMem \in Nat /\ MinSize \in Nat /\ MinSize > 0
        /\ \A b \in starts \ {f} :
             /\ b \in Nat /\ b \in Addr /\ size[b] \in Nat /\ size[b] >= MinSize
             /\ b + size[b] <= f \/ f + size[f] <= b
    BY <1>1, Extent
  <2>. QED
    BY <1>1, <1>2, <2>1 DEF Addr
<1>. HIDE DEF r, k
<1>4. /\ HandSize(f, req) \in [Addr -> 0 .. MaxMem]
      /\ HandTag(f, req) \in [Addr -> {FREETAG, LOCKEDBLOCK, 0, 1}]
      /\ HandSize(f, req)[f] = req /\ HandTag(f, req)[f] = 0
      /\ \A b \in starts \ {f} : /\ HandSize(f, req)[b] = size[b]
                                 /\ HandTag(f, req)[b] = tag[b]
  BY <1>1, <1>3, HandOut
<1>5. /\ size'[f] = req /\ tag'[f] = 0 /\ tag'[r] = FREETAG
      /\ \A b \in starts \ {f} : size'[b] = size[b] /\ tag'[b] = tag[b]
  BY <1>2, <1>3, <1>4
<1>6. \A b : b \in Live' <=> b \in Live \/ b = f
  <2>1. \A b : b \in Live' <=> b \in starts' /\ tag'[b] # FREETAG /\ tag'[b] # LOCKEDBLOCK
    BY DEF Live, Allocated
  <2>2. \A b : b \in Live <=> b \in starts /\ tag[b] # FREETAG /\ tag[b] # LOCKEDBLOCK
    BY DEF Live, Allocated
  <2>3. tag[f] = FREETAG /\ 0 # FREETAG /\ 0 # LOCKEDBLOCK
    BY <1>1 DEF Free, FREETAG, LOCKEDBLOCK
  <2>. QED
    BY <1>1, <1>2, <1>5, <2>1, <2>2, <2>3
<1>7. Live' = Live \cup {f}
  BY <1>6
<1>8. \A b \in Live : size'[b] = size[b]
  BY <1>1, <1>5 DEF Live, Allocated, Free
<1>. QED
  BY <1>1, <1>3, <1>5, <1>7, <1>8, HandOutReserves

(* Each step of the memory manager is one of the promised steps or changes *)
(* nothing a client sees.                                                  *)
LEMMA StepImplements == IInv /\ [Next]_vars => [Abs!Next]_Containers
<1> SUFFICES ASSUME IInv, [Next]_vars
             PROVE  Abs!Reserve \/ Abs!Release \/ UNCHANGED Containers
  BY DEF Abs!Next
<1> USE TypeSplit DEF IInv
<1>1. ASSUME UNCHANGED <<size, tag, starts>>
      PROVE  UNCHANGED Containers
  BY <1>1 DEF Containers, Live, Allocated
<1>2. ASSUME NEW b \in Live, NEW n, n = size[b], Release(b, n, memsize)
      PROVE  Abs!Release
  <2>1. PreRelease(b, n, memsize)
    BY <1>2, LivePre
  <2>2. Containers' = Containers \ {[at |-> b, len |-> size[b]]}
    BY <1>2, <2>1, ReleaseSeen
  <2>3. [at |-> b, len |-> size[b]] \in Containers
    BY DEF Containers
  <2>. QED
    BY <2>2, <2>3 DEF Abs!Release
<1>3. ASSUME NEW b \in Live, NEW c \in {0, 1}, tag' = [tag EXCEPT ![b] = c],
             UNCHANGED <<size, starts>>
      PROVE  UNCHANGED Containers
  <2>1. tag \in [Addr -> {FREETAG, LOCKEDBLOCK, 0, 1}] /\ b \in Addr
    BY DEF MemTypeOK, Live
  <2>2. \A a \in starts : Allocated(a)' <=> Allocated(a)
    <3>1. \A a \in starts : a \in Addr
      BY DEF MemTypeOK
    <3>2. 0 # FREETAG /\ 1 # FREETAG /\ 0 # LOCKEDBLOCK /\ 1 # LOCKEDBLOCK
      BY DEF FREETAG, LOCKEDBLOCK
    <3>3. tag[b] # FREETAG /\ tag[b] # LOCKEDBLOCK
      BY DEF Live, Allocated
    <3>. QED
      BY <1>3, <2>1, <3>1, <3>2, <3>3 DEF Allocated
  <2>3. Live' = Live
    BY <1>3, <2>2 DEF Live
  <2>. QED
    BY <1>3, <2>3 DEF Containers
<1>4. CASE Search
  <2>1. CASE SearchNext \/ ExpandFails
    BY <1>1, <2>1 DEF SearchNext, ExpandFails, mem
  <2>2. CASE TakeWhole
    BY <2>2, TakeWholeReserves
  <2>3. CASE TakeFront
    BY <2>3, TakeFrontReserves
  <2>4. CASE ExpandHeap
    <3>1. req \in Nat /\ req >= MinSize /\ memsize \in Nat
      <4>1. req \in Requests /\ memsize \in membase .. MaxMem
        BY <2>4 DEF ExpandHeap, SearchOK, CtlTypeOK
      <4>. QED
        BY <4>1, HeapConstants DEF membase, endblock
    <3>2. MemIncr(req) \in Nat /\ MemIncr(req) >= MinSize
      BY <3>1, IncrOK
    <3>3. PreRelease(memsize, MemIncr(req), memsize + MemIncr(req))
      BY <2>4, <3>2, ExpandPre DEF ExpandHeap
    <3>4. Release(memsize, MemIncr(req), memsize + MemIncr(req))
      BY <2>4 DEF ExpandHeap
    <3>5. memsize \notin Live
      BY <3>1 DEF Live, ArenaOK, Tiled
    <3>. QED
      BY <3>3, <3>4, <3>5, ReleaseSeen
  <2>. QED
    BY <1>4, <2>1, <2>2, <2>3, <2>4 DEF Search
<1>5. CASE Clear
  <2>1. ASSUME NEW b \in Live, ClearItem(b)
        PROVE  Abs!Release
    BY <1>2, <2>1 DEF ClearItem
  <2>2. CASE ClearBlock
    <3>1. tag[walk] = 0 /\ Allocated(walk) /\ pc = "clear" /\ Release(walk, size[walk], memsize)
      BY <2>2 DEF ClearBlock
    <3>2. walk \in starts
      BY <3>1 DEF WalkOK, Allocated
    <3>. QED
      BY <1>2, <3>1, <3>2 DEF Live
  <2>3. CASE ClearSkip
    BY <1>1, <2>3 DEF ClearSkip, mem
  <2>. QED
    BY <1>5, <2>1, <2>2, <2>3 DEF Clear
<1>6. CASE Client
  <2>1. ASSUME NEW n \in Requests, Reserve(n)
        PROVE  UNCHANGED Containers
    BY <1>1, <2>1 DEF Reserve, mem
  <2>2. ASSUME NEW b \in Live, Hold(b) \/ Drop(b)
        PROVE  UNCHANGED Containers
    BY <1>3, <2>2 DEF Hold, Drop
  <2>3. ASSUME NEW b \in Live, FreeUp(b)
        PROVE  Abs!Release
    BY <1>2, <2>3 DEF FreeUp
  <2>4. CASE Jump
    BY <1>1, <2>4 DEF Jump, mem
  <2>. QED
    BY <1>6, <2>1, <2>2, <2>3, <2>4 DEF Client
<1>7. CASE UNCHANGED vars
  BY <1>1, <1>7 DEF vars, mem
<1>. QED
  BY <1>4, <1>5, <1>6, <1>7 DEF Next

(* A heap just set up has no block in use.                                 *)
LEMMA InitImplements == Init => Abs!Init
<1> SUFFICES ASSUME Init PROVE Live = {}
  BY DEF Abs!Init, Containers
<1>1. starts = {membase} /\ IInv
  BY InitOK DEF Init
<1>2. tag[membase] = FREETAG
  BY <1>1, HeapConstants DEF Init, Addr, membase, endblock
<1>. QED
  BY <1>1, <1>2 DEF Live, Allocated

(* The memory manager implements HeapSpec for every size of heap and of    *)
(* request: what reserve hands out never overlaps what is in use, and a    *)
(* container keeps its place and its length until it is released           *)
(* (absmach.c:560-840).                                                    *)
THEOREM HeapRefines == Spec => ImplementsHeapSpec
<1>1. IInv /\ [Next]_vars => [Abs!Next]_Containers
  BY StepImplements
<1>. QED
  BY InitImplements, <1>1, Invariance, PTL DEF Spec, ImplementsHeapSpec, Abs!Spec
-------------------------------------------------------------------------------
(* Behind clearheap's walk every block in use is referred to, and no block *)
(* in use begins between the place it has come to and the next: it may     *)
(* read the header of a block that a release has merged away, whose size   *)
(* still leads past free words only.                                       *)
Swept ==
  pc = "clear" =>
    \A b \in Live : /\ b < walk => tag[b] # 0
                    /\ ~(walk < b /\ b < walk + size[walk])

(* No block in use begins between x and where the size that is left in the *)
(* header of x leads after its release, nor, if that is not the start of a *)
(* block any more, behind it as far as the size there leads.               *)
LEMMA ReleaseNext ==
  ASSUME NEW x, NEW n, NEW ms, PreRelease(x, n, ms), Release(x, n, ms)
  PROVE  LET nx == x + size'[x]
         IN  /\ \A b \in Live \ {x} : b < nx => b < x
             /\ \/ nx \in starts' \cup {ms}
                \/ \A b \in Live \ {x} : ~(nx < b /\ b < nx + size'[nx])
<1> DEFINE p == PrevBlk(x)
           q == x + n
           nx == x + size'[x]
<1>1. /\ x \in Nat /\ n \in Nat /\ n > 0 /\ ms \in Nat /\ x \in Addr /\ MaxMem \in Nat
      /\ size \in [Addr -> 0 .. MaxMem]
      /\ q \in starts \cup {ms}
  BY Places DEF PreRelease, Given, Sizes, MemTypeOK
<1>2. \A b \in starts \ {x} : b \in Nat /\ b \in Addr /\ size[b] \in Nat /\ size[b] > 0
                              /\ (b < x \/ q <= b) /\ b + size[b] \in starts \cup {x, ms}
  <2> TAKE b \in starts \ {x}
  <2>1. BlockOK(b, x, ms) /\ (b < x => b + size[b] <= x) /\ (x < b => x + n <= b) /\ b \in Addr
    BY Places DEF PreRelease, Others
  <2>2. MinSize \in Nat /\ MinSize > 0
    BY DEF PreRelease, Sizes
  <2>. QED
    BY <1>1, <2>1, <2>2 DEF BlockOK
<1>3. \A b, c \in starts \ {x} : b < c => b + size[b] <= c
  BY DEF PreRelease, Others
<1>4. \A b \in Live \ {x} : b \in starts \ {x} /\ b \notin Free
  BY DEF Live, Free, Allocated
<1>5. /\ FollowingFree(x, n, ms) => q \in Free
      /\ PrecedingFree(x, ms) => p \in Free /\ p + size[p] = x
      /\ \A b \in Free : b \in starts \ {x}
  BY Neighbours, Places
<1>6. SUFFICES /\ \A b \in Live \ {x} : b < nx => b < x
               /\ \/ nx \in starts' \cup {ms}
                  \/ \A b \in Live \ {x} : ~(nx < b /\ b < nx + size'[nx])
  OBVIOUS
<1>. HIDE DEF p
<1>a. CASE MergeThree(x, n, ms)
  <2>1. \E s : size' = [size EXCEPT ![p] = s, ![x] = n]
    BY <1>a DEF MergeThree, p
  <2>2. q \in Free /\ q \in starts \ {x} /\ p \in starts \ {x} /\ p < x /\ q > x
    BY <1>a, <1>1, <1>2, <1>5 DEF MergeThree
  <2>3. size'[x] = n /\ size'[q] = size[q]
    BY <2>1, <2>2, <1>1, <1>2
  <2>4. \A b \in Live \ {x} : b \in Nat /\ (b < x \/ q <= b) /\ b # q /\ (q < b => q + size[q] <= b)
    BY <1>2, <1>3, <1>4, <2>2
  <2>5. nx = q
    BY <2>3
  <2>. QED
    BY <1>1, <1>2, <2>2, <2>3, <2>4, <2>5
<1>b. CASE MergeFollowing(x, n, ms)
  <2>1. size' = [size EXCEPT ![x] = size[q] + n] /\ starts' = (starts \cup {x}) \ {q}
    BY <1>b DEF MergeFollowing
  <2>2. q \in Free /\ q \in starts \ {x} /\ q > x
    BY <1>b, <1>1, <1>2, <1>5 DEF MergeFollowing
  <2>3. nx = q + size[q]
    BY <2>1, <2>2, <1>1, <1>2
  <2>4. nx \in starts' \cup {ms}
    BY <1>1, <1>2, <2>1, <2>2, <2>3
  <2>5. \A b \in Live \ {x} : b \in Nat /\ (b < x \/ q <= b) /\ b # q /\ (q < b => q + size[q] <= b)
    BY <1>2, <1>3, <1>4, <2>2
  <2>. QED
    BY <1>1, <1>2, <2>2, <2>3, <2>4, <2>5
<1>c. CASE MergePreceding(x, n, ms)
  <2>1. (\E s : size' = [size EXCEPT ![p] = s, ![x] = n]) /\ starts' = starts \ {x}
    BY <1>c DEF MergePreceding, p
  <2>2. nx = q
    BY <2>1, <1>1
  <2>. QED
    BY <1>1, <1>2, <1>4, <2>1, <2>2
<1>d. CASE PushFront(x, n, ms)
  <2>1. size' = [size EXCEPT ![x] = n] /\ starts' = starts \cup {x}
    BY <1>d DEF PushFront
  <2>2. nx = q
    BY <2>1, <1>1
  <2>. QED
    BY <1>1, <1>2, <1>4, <2>1, <2>2
<1>. QED
  BY <1>a, <1>b, <1>c, <1>d DEF Release

(* Going on to the next block, when what is passed is referred to.         *)
LEMMA AdvanceSwept ==
  ASSUME pc = "clear", Advance, memsize' = memsize, memsize \in Nat, walk \in Addr,
         MemTypeOK', Tiled', MaxMem \in Nat, memsize <= MaxMem,
         \A b \in Live' : b < walk + size'[walk] => tag'[b] # 0,
         \/ walk + size'[walk] \in starts' \cup {memsize}
         \/ \A b \in Live' : ~(walk + size'[walk] < b
                             /\ b < walk + size'[walk] + size'[walk + size'[walk]])
  PROVE  Swept' /\ (pc' = "idle" => \A b \in Live' : tag'[b] # 0)
<1> DEFINE nx == walk + size'[walk]
<1>1. /\ nx \in Nat
      /\ \A b \in Live' : b \in starts' /\ b \in Nat /\ b < memsize
      /\ \A b, c \in starts' : b < c => b + size'[b] <= c
  BY DEF MemTypeOK, Tiled, BlockEnd, Live, Addr, membase
<1>2. CASE nx < memsize
  <2>1. walk' = nx /\ pc' = pc
    BY <1>2 DEF Advance
  <2>2. \A b \in Live' : ~(nx < b /\ b < nx + size'[nx])
    <3>1. CASE nx \in starts'
      <4>1. nx \in Addr /\ size'[nx] \in Nat
        BY <3>1 DEF MemTypeOK
      <4>2. \A b \in Live' : nx < b => nx + size'[nx] <= b
        BY <1>1, <3>1
      <4>. HIDE DEF nx
      <4>. QED
        BY <1>1, <4>1, <4>2
    <3>2. CASE nx \notin starts'
      BY <1>1, <1>2, <3>2
    <3>. QED
      BY <3>1, <3>2
  <2>. QED
    BY <2>1, <2>2 DEF Swept
<1>3. CASE ~(nx < memsize)
  <2>1. pc' = "idle"
    BY <1>3 DEF Advance
  <2>2. \A b \in Live' : b < nx
    BY <1>1, <1>3
  <2>. QED
    BY <2>1, <2>2 DEF Swept
<1>. QED
  BY <1>2, <1>3

(* At the start of the walk nothing is behind it.                          *)
LEMMA StartSwept ==
  ASSUME MemTypeOK', Tiled', memsize' \in Nat, StartClear
  PROVE  Swept'
<1>1. walk' = membase /\ membase \in starts' /\ membase \in Nat
  BY HeapConstants DEF StartClear, Tiled, membase
<1>2. \A b \in Live' : b \in starts' /\ b \in Nat /\ membase <= b
  <2>1. starts' \subseteq membase .. memsize' - 1
    BY DEF Tiled
  <2>2. Live' \subseteq starts'
    BY DEF Live
  <2>3. \A b \in membase .. memsize' - 1 : b \in Nat /\ membase <= b
    BY <1>1
  <2>. QED
    BY <2>1, <2>2, <2>3
<1>3. membase \in Addr /\ size'[membase] \in Nat
  BY <1>1 DEF MemTypeOK
<1>4. \A b \in starts' : membase < b => membase + size'[membase] <= b
  BY <1>1 DEF Tiled, BlockEnd
<1>. HIDE DEF membase
<1>. QED
  BY <1>1, <1>2, <1>3, <1>4 DEF Swept

(* Every step keeps the walk clean behind, and one that ends it leaves no  *)
(* block without a reference.                                              *)
LEMMA SweptNext ==
  ASSUME IInv, Swept, [Next]_vars
  PROVE  Swept' /\ (pc = "clear" /\ pc' = "idle" => \A b \in Live' : tag'[b] # 0)
<1>1. /\ MemTypeOK /\ CtlTypeOK /\ ArenaOK /\ SearchOK /\ WalkOK
      /\ MemTypeOK' /\ CtlTypeOK' /\ ArenaOK' /\ Tiled'
  BY NextOK, TypeSplit, TypeSplitPrime DEF IInv, ArenaOK
<1>2. /\ memsize \in Nat /\ memsize' \in Nat /\ memsize <= MaxMem /\ MaxMem \in Nat
      /\ walk \in Addr /\ walk \in Nat
  BY <1>1, HeapConstants DEF CtlTypeOK, membase, Addr
<1>3. CASE StartClear
  BY <1>1, <1>2, <1>3, StartSwept DEF StartClear
<1>4. CASE pc' # "clear" /\ pc # "clear"
  BY <1>4 DEF Swept
<1>5. ASSUME NEW b \in Live, ClearItem(b)
      PROVE  Swept' /\ pc' = "clear"
  <2>1. /\ pc = "clear" /\ pc' = "clear" /\ walk' = walk /\ tag[walk] = 0
        /\ Release(b, size[b], memsize) /\ b # walk
    BY <1>5 DEF ClearItem
  <2>2. PreRelease(b, size[b], memsize)
    BY <1>1, LivePre
  <2>3. /\ Live' = Live \ {b}
        /\ \A c \in Live \ {b} : size'[c] = size[c] /\ tag'[c] = tag[c]
    BY <2>1, <2>2, ReleaseLive
  <2>4. walk \in Live
    BY <1>1, <2>1 DEF WalkOK, Live, Allocated, FREETAG, LOCKEDBLOCK
  <2>. QED
    BY <2>1, <2>3, <2>4 DEF Swept
<1>6. CASE ClearBlock
  <2>1. /\ pc = "clear" /\ Allocated(walk) /\ tag[walk] = 0 /\ memsize' = memsize /\ Advance
        /\ Release(walk, size[walk], memsize)
    BY <1>6 DEF ClearBlock
  <2>2. walk \in Live
    BY <1>1, <2>1 DEF WalkOK, Live, Allocated
  <2>3. PreRelease(walk, size[walk], memsize)
    BY <1>1, <2>2, LivePre
  <2>4. /\ Live' = Live \ {walk}
        /\ \A c \in Live \ {walk} : size'[c] = size[c] /\ tag'[c] = tag[c]
    BY <2>1, <2>3, ReleaseLive
  <2>5. \A b \in Live' : b < walk + size'[walk] => tag'[b] # 0
    BY <2>1, <2>3, <2>4, ReleaseNext DEF Swept
  <2>6. \/ walk + size'[walk] \in starts' \cup {memsize}
        \/ \A b \in Live' : ~(walk + size'[walk] < b
                            /\ b < walk + size'[walk] + size'[walk + size'[walk]])
    BY <2>1, <2>3, <2>4, ReleaseNext
  <2>. QED
    BY <1>1, <1>2, <2>1, <2>5, <2>6, AdvanceSwept
<1>7. CASE ClearSkip
  <2>1. /\ pc = "clear" /\ ~(Allocated(walk) /\ tag[walk] = 0) /\ memsize' = memsize /\ Advance
        /\ size' = size /\ tag' = tag /\ starts' = starts
    BY <1>7 DEF ClearSkip, mem
  <2>2. Live' = Live
    BY <2>1 DEF Live, Allocated
  <2>3. size[walk] \in Nat
    BY <1>1, <1>2 DEF MemTypeOK
  <2>4. \A b \in Live' : b < walk + size'[walk] => tag'[b] # 0
    <3> SUFFICES ASSUME NEW b \in Live, b < walk + size[walk]
                 PROVE  tag[b] # 0
      BY <2>1, <2>2
    <3>1. b \in Nat /\ Allocated(b)
      BY <1>1 DEF Live, MemTypeOK, Addr
    <3>2. CASE b = walk
      BY <2>1, <3>1, <3>2
    <3>3. CASE b # walk
      BY <1>2, <2>1, <2>3, <3>1, <3>3 DEF Swept
    <3>. QED
      BY <3>2, <3>3
  <2>5. walk + size'[walk] \in starts' \cup {memsize}
    BY <1>1, <2>1 DEF WalkOK, ArenaOK, Tiled, BlockEnd
  <2>. QED
    BY <1>1, <1>2, <2>1, <2>4, <2>5, AdvanceSwept
<1>8. CASE Clear
  BY <1>5, <1>6, <1>7, <1>8 DEF Clear
<1>9. CASE Search \/ Client
  <2>1. pc # "clear"
    BY <1>9 DEF Search, Client, SearchNext, TakeWhole, TakeFront, ExpandHeap, ExpandFails,
                Reserve, Hold, Drop, FreeUp, Jump
  <2>2. StartClear \/ pc' # "clear"
    BY <1>9, <2>1 DEF Search, Client, SearchNext, TakeWhole, TakeFront, ExpandHeap, ExpandFails,
                Reserve, Hold, Drop, FreeUp, Jump, EndSearch
  <2>. QED
    BY <1>3, <1>4, <2>1, <2>2
<1>10. CASE UNCHANGED vars
  BY <1>10 DEF vars, mem, Swept, Live, Allocated
<1>. QED
  BY <1>8, <1>9, <1>10 DEF Next

(* However often a walk frees the block it stands on, an item of it beside *)
(* it or blocks that merge with both, clearheap leaves no temporary behind *)
(* (absmach.c:1006-1030).                                                  *)
THEOREM ClearsAll == Spec => ClearsTemporaries
<1>1. Init => Swept
  BY DEF Init, Swept
<1>2. IInv /\ Swept /\ [Next]_vars => Swept'
  BY SweptNext
<1>3. IInv /\ Swept /\ [Next]_vars =>
        [pc = "clear" /\ pc' = "idle" => \A b \in Live' : tag'[b] # 0]_vars
  BY SweptNext
<1>. QED
  BY <1>1, <1>2, <1>3, Invariance, PTL DEF Spec, ClearsTemporaries

-------------------------------------------------------------------------------
(* A property of numbers that fails fails first somewhere. *)
LEMMA Least ==
  ASSUME NEW S \in SUBSET Nat, S # {}
  PROVE  \E x \in S : \A y \in S : x <= y
<1>1. IsWellFoundedOn(OpToRel(<, Nat), Nat)
  BY NatLessThanWellFounded
<1>2. \E x \in S : \A y \in S : ~ (<<y, x>> \in OpToRel(<, Nat))
  BY <1>1, WFMin
<1>3. \E x \in S : \A y \in S : ~ (y < x)
  BY <1>2 DEF OpToRel
<1>. QED
  BY <1>3

(* Among addresses one has the greatest rank. *)
LEMMA Greatest ==
  ASSUME NEW N \in Nat, NEW r \in [0 .. N - 1 -> Int],
         NEW V \in SUBSET (0 .. N - 1), V # {}
  PROVE  \E x \in V : \A y \in V : r[y] <= r[x]
<1> DEFINE Top(W)  == \E x \in W : \A y \in W : r[y] <= r[x]
           Lacks(n) == \E W \in SUBSET (0 .. n - 1) : W # {} /\ ~ Top(W)
           Fails   == {n \in Nat : n <= N /\ Lacks(n)}
<1>1. SUFFICES ASSUME ~ Top(V) PROVE FALSE
  OBVIOUS
<1>2. Fails \in SUBSET Nat /\ Fails # {}
  <2>1. Lacks(N)
    BY <1>1
  <2> HIDE DEF Lacks
  <2>. QED
    BY <2>1
<1>3. \E m \in Fails : \A n \in Fails : m <= n
  <2> HIDE DEF Fails
  <2>. QED
    BY <1>2, Least
<1>4. PICK m \in Nat : m <= N /\ Lacks(m) /\ \A n \in Nat : n < m => ~ Lacks(n)
  <2> HIDE DEF Lacks
  <2>. QED
    BY <1>3
<1>5. PICK W \in SUBSET (0 .. m - 1) : W # {} /\ ~ Top(W)
  BY <1>4
<1>6. m - 1 \in Nat /\ 0 .. m - 1 \subseteq 0 .. N - 1
  <2>1. PICK x : x \in W
    BY <1>5
  <2>2. x \in 0 .. m - 1
    BY <2>1
  <2>. QED
    BY <1>4, <2>2
<1> DEFINE U == W \ {m - 1}
<1>7. U \in SUBSET (0 .. (m - 1) - 1)
  BY <1>6
<1>8. U = {} \/ Top(U)
  <2>1. m - 1 < m
    BY <1>6
  <2>2. ~ Lacks(m - 1)
    <3> HIDE DEF Lacks
    <3>. QED
      BY <1>4, <1>6, <2>1
  <2> HIDE DEF U, Top
  <2>. QED
    BY <1>7, <2>2
<1>9. \A x \in W : r[x] \in Int
  BY <1>5, <1>6
<1>a. CASE U = {}
  <2>1. W = {m - 1}
    BY <1>5, <1>a
  <2>. QED
    BY <1>5, <1>9, <2>1
<1>b. CASE Top(U)
  <2>1. PICK x \in U : \A y \in U : r[y] <= r[x]
    BY <1>b
  <2>2. x \in W /\ \A y \in W : y = m - 1 \/ y \in U
    OBVIOUS
  <2>3. CASE m - 1 \notin W
    BY <1>5, <2>1, <2>2, <2>3
  <2>4. CASE m - 1 \in W /\ r[m - 1] <= r[x]
    BY <1>5, <2>1, <2>2, <2>4
  <2>5. CASE m - 1 \in W /\ ~ (r[m - 1] <= r[x])
    <3>1. ASSUME NEW y \in W PROVE r[y] <= r[m - 1]
      <4>1. r[m - 1] \in Int /\ r[x] \in Int /\ r[y] \in Int
        BY <1>9, <2>2, <2>5
      <4>. QED
        BY <4>1, <2>1, <2>2, <2>5
    <3>. QED
      BY <1>5, <2>5, <3>1
  <2>. QED
    BY <2>3, <2>4, <2>5
<1>. QED
  BY <1>8, <1>a, <1>b

(* There is a function that goes along the links as chain does, so that    *)
(* chain is one.                                                           *)
Along(c, k) == IF c[k - 1] = TERMINATOR THEN TERMINATOR ELSE fwd[c[k - 1]]

LEMMA ChainSteps ==
  ASSUME MaxMem \in Nat
  PROVE  /\ chain[0] = freelisthdr
         /\ \A k \in 1 .. MaxMem : chain[k] = Along(chain, k)
<1> HIDE DEF TERMINATOR, freelisthdr
<1> DEFINE Goes(c, n) == /\ c = [k \in 0 .. n |-> c[k]]
                         /\ c[0] = freelisthdr
                         /\ \A k \in 1 .. n : c[k] = Along(c, k)
           Fails == {n \in Nat : ~ \E c : Goes(c, n)}
<1>1. 0 \notin Fails
  <2> DEFINE c == [k \in 0 .. 0 |-> freelisthdr]
  <2>1. Goes(c, 0)
    OBVIOUS
  <2>. QED
    BY <2>1
<1>2. Fails = {}
  <2>1. SUFFICES ASSUME Fails # {} PROVE FALSE
    OBVIOUS
  <2>2. PICK m \in Fails : \A n \in Fails : m <= n
    BY <2>1, Least
  <2>3. m \in Nat /\ m # 0 /\ m - 1 \in Nat /\ m - 1 \notin Fails
    <3>1. m \in Nat /\ m # 0
      BY <1>1
    <3>2. m - 1 \in Nat /\ ~ (m <= m - 1)
      BY <3>1
    <3> HIDE DEF Fails
    <3>. QED
      BY <2>2, <3>1, <3>2
  <2>4. PICK c : Goes(c, m - 1)
    BY <2>3
  <2> DEFINE d == [k \in 0 .. m |-> IF k = m THEN Along(c, m) ELSE c[k]]
  <2>5. \A k \in 0 .. m - 1 : d[k] = c[k]
    BY <2>3
  <2>6. d[m] = Along(c, m) /\ d[m - 1] = c[m - 1]
    BY <2>3
  <2>7. d = [k \in 0 .. m |-> d[k]] /\ d[0] = freelisthdr
    BY <2>3, <2>4
  <2>8. \A k \in 1 .. m : k - 1 \in 0 .. m - 1 /\ (k = m \/ k \in 1 .. m - 1)
    BY <2>3
  <2> HIDE DEF d
  <2>9. ASSUME NEW k \in 1 .. m PROVE d[k] = Along(d, k)
    <3>1. d[k - 1] = c[k - 1]
      BY <2>5, <2>8
    <3>2. d[k] = Along(c, k)
      BY <2>4, <2>5, <2>6, <2>8, <2>3
    <3>. QED
      BY <3>1, <3>2 DEF Along
  <2>10. Goes(d, m)
    BY <2>7, <2>9
  <2>. QED
    BY <2>10
<1>3. PICK c : Goes(c, MaxMem)
  BY <1>2
<1>4. \A k \in 0 .. MaxMem : k = 0 \/ k \in 1 .. MaxMem
  OBVIOUS
<1>5. \A k \in 0 .. MaxMem : c[k] = IF k = 0 THEN freelisthdr
                               ELSE IF c[k - 1] = TERMINATOR THEN TERMINATOR ELSE fwd[c[k - 1]]
  BY <1>3, <1>4 DEF Along
<1>6. c = [k \in 0 .. MaxMem |-> IF k = 0 THEN freelisthdr
                               ELSE IF c[k - 1] = TERMINATOR THEN TERMINATOR ELSE fwd[c[k - 1]]]
  BY <1>3, <1>5
<1>7. chain = [k \in 0 .. MaxMem |-> IF k = 0 THEN freelisthdr
                               ELSE IF chain[k - 1] = TERMINATOR THEN TERMINATOR ELSE fwd[chain[k - 1]]]
  BY <1>6 DEF chain
<1>8. 0 \in 0 .. MaxMem /\ \A k \in 1 .. MaxMem : k \in 0 .. MaxMem /\ k # 0
  OBVIOUS
<1>. QED
  BY <1>7, <1>8 DEF Along

(* Following fwdlink from the header stays among the cells of the list and *)
(* the mark behind them, and goes up in the order of the list.             *)
LEMMA ChainWalk ==
  ASSUME MaxMem \in Nat, ListOK, fwd[endblock] = TERMINATOR,
         NEW r \in [Addr -> Int], Ranked(r, Free, fwd, freelisthdr)
  PROVE  /\ \A k \in 0 .. MaxMem : chain[k] \in Free \cup {freelisthdr, endblock, TERMINATOR}
         /\ \A j, k \in 0 .. MaxMem :
              j <= k /\ chain[j] = TERMINATOR => chain[k] = TERMINATOR
         /\ \A j, k \in 0 .. MaxMem :
              j < k /\ chain[k] # TERMINATOR => r[chain[j]] < r[chain[k]]
<1> HIDE DEF Addr, TERMINATOR, freelisthdr, endblock
<1>0. /\ chain[0] = freelisthdr
      /\ \A k \in 1 .. MaxMem : chain[k] = Along(chain, k)
  BY ChainSteps
<1>1. /\ Free \subseteq Addr /\ freelisthdr \in Addr /\ endblock \in Addr
      /\ TERMINATOR \notin Addr /\ TERMINATOR \notin Free
      /\ TERMINATOR # freelisthdr /\ TERMINATOR # endblock
      /\ \A x \in Free \cup {freelisthdr} : fwd[x] \in Free \cup {endblock}
  BY DEF ListOK, List, Cells, Doubly
<1>2. \A k \in Nat : k # 0 => k - 1 \in Nat /\ k - 1 < k
  OBVIOUS
<1>3. \A k \in 0 .. MaxMem : k # 0 => k - 1 \in 0 .. MaxMem /\ k \in 1 .. MaxMem
  OBVIOUS
<1>4. \A k \in 0 .. MaxMem : chain[k] \in Free \cup {freelisthdr, endblock, TERMINATOR}
  <2> DEFINE S == {k \in 0 .. MaxMem : chain[k] \notin Free \cup {freelisthdr, endblock, TERMINATOR}}
  <2>1. SUFFICES ASSUME S # {} PROVE FALSE
    OBVIOUS
  <2>2. S \in SUBSET Nat
    OBVIOUS
  <2> HIDE DEF S
  <2>3. PICK k \in S : \A i \in S : k <= i
    BY <2>1, <2>2, Least
  <2>4. k \in 0 .. MaxMem /\ chain[k] \notin Free \cup {freelisthdr, endblock, TERMINATOR}
    BY DEF S
  <2>5. k # 0 /\ k \in Nat
    BY <1>0, <2>4
  <2>6. k - 1 \in 0 .. MaxMem /\ ~ (k <= k - 1) /\ k \in 1 .. MaxMem
    BY <1>2, <1>3, <2>4, <2>5
  <2>7. chain[k - 1] \in Free \cup {freelisthdr, endblock, TERMINATOR}
    BY <2>3, <2>6 DEF S
  <2>8. chain[k] = Along(chain, k)
    BY <1>0, <2>6
  <2>. QED
    BY <1>1, <2>4, <2>7, <2>8 DEF Along
<1>5. \A j, k \in 0 .. MaxMem :
        j <= k /\ chain[j] = TERMINATOR => chain[k] = TERMINATOR
  <2>1. SUFFICES ASSUME NEW j \in 0 .. MaxMem, chain[j] = TERMINATOR
                 PROVE  \A k \in 0 .. MaxMem : j <= k => chain[k] = TERMINATOR
    OBVIOUS
  <2> DEFINE S == {k \in 0 .. MaxMem : j <= k /\ chain[k] # TERMINATOR}
  <2>2. SUFFICES ASSUME S # {} PROVE FALSE
    OBVIOUS
  <2>3. S \in SUBSET Nat
    OBVIOUS
  <2> HIDE DEF S
  <2>4. PICK k \in S : \A i \in S : k <= i
    BY <2>2, <2>3, Least
  <2>5. k \in 0 .. MaxMem /\ j <= k /\ chain[k] # TERMINATOR
    BY DEF S
  <2>6. k # j /\ j \in Nat /\ k \in Nat
    BY <2>1, <2>5
  <2>7. k # 0 /\ j <= k - 1
    BY <2>5, <2>6
  <2>8. k - 1 \in 0 .. MaxMem /\ ~ (k <= k - 1) /\ k \in 1 .. MaxMem
    BY <1>2, <1>3, <2>5, <2>6, <2>7
  <2>9. chain[k - 1] = TERMINATOR
    BY <2>4, <2>7, <2>8 DEF S
  <2>10. chain[k] = Along(chain, k)
    BY <1>0, <2>8
  <2>. QED
    BY <2>5, <2>9, <2>10 DEF Along
<1>6. \A k \in 0 .. MaxMem : chain[k] # TERMINATOR => chain[k] \in Addr
  BY <1>1, <1>4
<1>7. \A j, k \in 0 .. MaxMem :
        j < k /\ chain[k] # TERMINATOR => r[chain[j]] < r[chain[k]]
  <2>1. SUFFICES ASSUME NEW j \in 0 .. MaxMem
                 PROVE  \A k \in 0 .. MaxMem :
                          j < k /\ chain[k] # TERMINATOR => r[chain[j]] < r[chain[k]]
    OBVIOUS
  <2> DEFINE S == {k \in 0 .. MaxMem :
                     j < k /\ chain[k] # TERMINATOR /\ ~ (r[chain[j]] < r[chain[k]])}
  <2>2. SUFFICES ASSUME S # {} PROVE FALSE
    OBVIOUS
  <2>3. S \in SUBSET Nat
    OBVIOUS
  <2> HIDE DEF S
  <2>4. PICK k \in S : \A i \in S : k <= i
    BY <2>2, <2>3, Least
  <2>5. k \in 0 .. MaxMem /\ j < k /\ chain[k] # TERMINATOR /\ ~ (r[chain[j]] < r[chain[k]])
    BY DEF S
  <2>6. j \in Nat /\ k \in Nat /\ j <= k
    BY <2>1, <2>5
  <2>7. k # 0 /\ (j = k - 1 \/ j < k - 1) /\ k - 1 <= k
    BY <2>5, <2>6
  <2>8. k - 1 \in 0 .. MaxMem /\ ~ (k <= k - 1) /\ k \in 1 .. MaxMem
    BY <1>2, <1>3, <2>5, <2>6, <2>7
  <2>9. chain[j] # TERMINATOR /\ chain[k - 1] # TERMINATOR
    BY <1>5, <2>1, <2>5, <2>6, <2>7, <2>8
  <2>10. chain[k] = fwd[chain[k - 1]]
    BY <1>0, <2>8, <2>9 DEF Along
  <2>11. chain[k - 1] # endblock
    BY <2>5, <2>10
  <2>12. chain[k - 1] \in Free \cup {freelisthdr}
    BY <1>4, <2>8, <2>9, <2>11
  <2>13. r[chain[k - 1]] < r[chain[k]]
    BY <2>10, <2>12 DEF Ranked
  <2>14. j < k - 1 => r[chain[j]] < r[chain[k - 1]]
    BY <2>4, <2>8, <2>9 DEF S
  <2>15. r[chain[j]] \in Int /\ r[chain[k - 1]] \in Int /\ r[chain[k]] \in Int
    BY <1>6, <2>1, <2>5, <2>8, <2>9
  <2>. QED
    BY <2>5, <2>7, <2>13, <2>14, <2>15
<1>. QED
  BY <1>4, <1>5, <1>7

(* The walk comes to the mark: it meets no cell twice, and there are fewer *)
(* cells than steps.                                                       *)
LEMMA ChainEnds ==
  ASSUME MaxMem \in Nat, ListOK, fwd[endblock] = TERMINATOR,
         NEW r \in [Addr -> Int], Ranked(r, Free, fwd, freelisthdr)
  PROVE  \E k \in 0 .. MaxMem : chain[k] = TERMINATOR
<1>1. SUFFICES ASSUME \A k \in 0 .. MaxMem : chain[k] # TERMINATOR PROVE FALSE
  OBVIOUS
<1>2. \A j, k \in 0 .. MaxMem : j < k => r[chain[j]] < r[chain[k]]
  BY <1>1, ChainWalk, Zenon
<1>3. \A k \in 0 .. MaxMem : chain[k] \in Addr
  <2>1. \A k \in 0 .. MaxMem : chain[k] \in Free \cup {freelisthdr, endblock, TERMINATOR}
    BY ChainWalk, Zenon
  <2>2. Free \subseteq Addr /\ freelisthdr \in Addr /\ endblock \in Addr
    <3> HIDE DEF Addr, TERMINATOR, freelisthdr, endblock
    <3>. QED
      BY DEF ListOK, List, Cells
  <2> HIDE DEF Addr, TERMINATOR, freelisthdr, endblock
  <2>. QED
    BY <1>1, <2>1, <2>2
<1>4. \A j, k \in 0 .. MaxMem : j # k => chain[j] # chain[k]
  <2> HIDE DEF Addr
  <2>1. \A j, k \in 0 .. MaxMem : j < k => chain[j] # chain[k]
    BY <1>2, <1>3
  <2>2. \A j, k \in 0 .. MaxMem : j # k => j < k \/ k < j
    OBVIOUS
  <2>. QED
    BY <2>1, <2>2
<1> DEFINE c == [k \in 0 .. MaxMem |-> chain[k]]
<1>5. c \in [0 .. MaxMem -> Addr]
  BY <1>3
<1>6. IsFiniteSet(0 .. MaxMem) /\ Cardinality(0 .. MaxMem) = MaxMem + 1
  <2>1. 0 \in Int /\ MaxMem \in Int /\ ~ (0 > MaxMem) /\ MaxMem - 0 + 1 = MaxMem + 1
    OBVIOUS
  <2>. QED
    BY <2>1, FS_Interval
<1>7. IsFiniteSet(Addr) /\ Cardinality(Addr) = MaxMem
  <2>1. 0 \in Int /\ MaxMem - 1 \in Int
    OBVIOUS
  <2>2. ~ (0 > MaxMem - 1) /\ (MaxMem - 1) - 0 + 1 = MaxMem
    <3>1. MaxMem # 0
      BY HeapConstants
    <3>. QED
      BY <3>1
  <2>3. IsFiniteSet(0 .. MaxMem - 1)
    BY <2>1, FS_Interval
  <2>4. Cardinality(0 .. MaxMem - 1) = IF 0 > MaxMem - 1 THEN 0 ELSE (MaxMem - 1) - 0 + 1
    BY <2>1, FS_Interval
  <2>5. Cardinality(0 .. MaxMem - 1) = (MaxMem - 1) - 0 + 1
    BY <2>2, <2>4
  <2>6. Cardinality(0 .. MaxMem - 1) = MaxMem
    BY <2>2, <2>5
  <2>. QED
    BY <2>3, <2>6 DEF Addr
<1>8. Cardinality(Addr) < Cardinality(0 .. MaxMem)
  <2> HIDE DEF Addr
  <2>. QED
    BY <1>6, <1>7
<1>9. \E x, y \in 0 .. MaxMem : x # y /\ c[x] = c[y]
  <2> HIDE DEF Addr, c
  <2>. QED
    BY <1>5, <1>6, <1>7, <1>8, FS_PigeonHole
<1>. QED
  BY <1>4, <1>9

(* ... and leaves no free block out: the last of those it left out would   *)
(* have a successor that it left out.                                      *)
LEMMA ChainComplete ==
  ASSUME MaxMem \in Nat, ListOK, fwd[endblock] = TERMINATOR
  PROVE  FreeListComplete
<1>1. PICK r \in [Addr -> Int] : Ranked(r, Free, fwd, freelisthdr)
  BY DEF ListOK, List
<1> DEFINE Met == {chain[k] : k \in 0 .. MaxMem}
<1> HIDE DEF Addr, TERMINATOR, freelisthdr, endblock
<1>2. /\ Free \subseteq Addr /\ freelisthdr \in Addr /\ endblock \in Addr
      /\ TERMINATOR \notin Addr
      /\ endblock # freelisthdr /\ endblock \notin Free /\ freelisthdr \notin Free
      /\ \A x \in Free \cup {freelisthdr} : fwd[x] \in Free \cup {endblock} /\ bck[fwd[x]] = x
      /\ \A x \in Free \cup {endblock} : bck[x] \in Free \cup {freelisthdr} /\ fwd[bck[x]] = x
  BY DEF ListOK, List, Cells, Doubly
<1>3. /\ chain[0] = freelisthdr
      /\ \A k \in 1 .. MaxMem : chain[k] = Along(chain, k)
  BY ChainSteps
<1>4. \A k \in 0 .. MaxMem : chain[k] \in Free \cup {freelisthdr, endblock, TERMINATOR}
  BY <1>1, ChainWalk, Zenon
<1>5. Met \subseteq Free \cup {freelisthdr, endblock, TERMINATOR}
  BY <1>4
<1>6. TERMINATOR \in Met
  BY <1>1, ChainEnds
<1>7. freelisthdr \in Met
  BY <1>3
<1>8. \A k \in 0 .. MaxMem : k # 0 => k - 1 \in 0 .. MaxMem /\ k \in 1 .. MaxMem
  OBVIOUS
<1>9. \A x \in Met \ {freelisthdr} : x # TERMINATOR => bck[x] \in Met
  <2>1. SUFFICES ASSUME NEW k \in 0 .. MaxMem, chain[k] # freelisthdr, chain[k] # TERMINATOR
                 PROVE  bck[chain[k]] \in Met
    OBVIOUS
  <2>2. k # 0
    BY <1>3, <2>1
  <2>3. k - 1 \in 0 .. MaxMem /\ k \in 1 .. MaxMem
    BY <1>8, <2>2
  <2>4. chain[k - 1] # TERMINATOR /\ chain[k] = fwd[chain[k - 1]]
    BY <1>3, <2>1, <2>3 DEF Along
  <2>5. chain[k - 1] # endblock
    BY <2>1, <2>4
  <2>6. chain[k - 1] \in Free \cup {freelisthdr}
    BY <1>4, <2>3, <2>4, <2>5
  <2>7. bck[chain[k]] = chain[k - 1]
    BY <1>2, <2>4, <2>6
  <2>. QED
    BY <2>3, <2>7
<1>10. endblock \in Met
  <2>1. PICK k \in 0 .. MaxMem : chain[k] = TERMINATOR
    BY <1>6
  <2> DEFINE S == {i \in 0 .. MaxMem : chain[i] = TERMINATOR}
  <2>2. S \in SUBSET Nat /\ S # {}
    BY <2>1
  <2> HIDE DEF S
  <2>3. PICK i \in S : \A j \in S : i <= j
    BY <2>2, Least
  <2>4. i \in 0 .. MaxMem /\ chain[i] = TERMINATOR
    BY DEF S
  <2>5. i # 0
    BY <1>2, <1>3, <2>4
  <2>6. i - 1 \in 0 .. MaxMem /\ i \in 1 .. MaxMem /\ ~ (i <= i - 1)
    BY <1>8, <2>4, <2>5
  <2>7. chain[i - 1] # TERMINATOR
    BY <2>3, <2>6 DEF S
  <2>8. fwd[chain[i - 1]] = TERMINATOR
    BY <1>3, <2>4, <2>6, <2>7 DEF Along
  <2>9. chain[i - 1] = endblock
    BY <1>2, <1>4, <2>6, <2>7, <2>8
  <2>. QED
    BY <2>6, <2>9
<1> DEFINE Missed == Free \ Met
<1>11. \A x \in Missed : fwd[x] \in Missed
  <2> HIDE DEF Met
  <2>1. SUFFICES ASSUME NEW x \in Missed, fwd[x] \in Met PROVE FALSE
    BY <1>2, <1>10
  <2>2. fwd[x] \in Free \cup {endblock} /\ bck[fwd[x]] = x
    BY <1>2
  <2>3. bck[fwd[x]] \in Met
    BY <1>2, <1>9, <2>1, <2>2
  <2>. QED
    BY <2>2, <2>3
<1> HIDE DEF Met
<1>12. Missed = {}
  <2>1. SUFFICES ASSUME Missed # {} PROVE FALSE
    OBVIOUS
  <2>2. Missed \in SUBSET Addr
    BY <1>2
  <2> HIDE DEF Missed
  <2>3. \E x \in Missed : \A y \in Missed : r[y] <= r[x]
    <3>1. MaxMem \in Nat /\ r \in [0 .. MaxMem - 1 -> Int] /\ Missed \in SUBSET (0 .. MaxMem - 1)
      BY <2>2 DEF Addr
    <3>. QED
      BY <3>1, <2>1, Greatest
  <2>4. PICK x \in Missed : \A y \in Missed : r[y] <= r[x]
    BY <2>3
  <2>5. fwd[x] \in Missed
    BY <1>11
  <2>6. r[x] < r[fwd[x]]
    BY <1>1 DEF Ranked, Missed
  <2>7. r[x] \in Int /\ r[fwd[x]] \in Int
    BY <2>2, <2>5
  <2>. QED
    BY <2>4, <2>5, <2>6, <2>7
<1>. QED
  BY <1>5, <1>6, <1>7, <1>10, <1>12 DEF FreeListComplete, Met

(* The search of reserve sees all the free space: following fwdlink from   *)
(* the header meets every free block, no block in use, and comes to an     *)
(* end, after any sequence of reserves, releases, growths and clears and   *)
(* for every size of the heap.                                             *)
THEOREM FreeListSeen == Spec => []FreeListComplete
<1>1. IInv => FreeListComplete
  BY ChainComplete, HeapConstants DEF IInv, ArenaOK, Sentinels
<1>. QED
  BY <1>1, Invariance, PTL

===============================================================================
