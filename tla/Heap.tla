--------------------------------- MODULE Heap ---------------------------------
(***************************************************************************)
(* The memory manager of absmach.c: setup_heap, reserve, release,          *)
(* expand_heap and the walk of clearheap.  The heap is one array of words  *)
(* cut into blocks.  A free block is marked at its front (a reference      *)
(* count of FREETAG) and at its last word (minus its own address), and all *)
(* free blocks are on a doubly linked list that is not in address order.   *)
(*                                                                         *)
(* A word address indexes the fields a block header would have there and,  *)
(* apart, the value of that word when it is the last one of a block.  The  *)
(* header of a block that was merged away stays in memory, as in the code: *)
(* clearheap reads such headers.  Words handed to a client are overwritten *)
(* by its data, with the values that would mislead a reader most: headers  *)
(* that look free and last words that look like trailers.                  *)
(***************************************************************************)
EXTENDS Integers

CONSTANTS
  FlhSize,        \* minsize - mindatasize: the size of the two list sentinels
  MinSize,        \* minsize, the least size of a block
  InitSize,       \* the words allocate_heap obtains
  MaxMem,         \* realloc refuses to go above this many words
  Requests,       \* the sizes clients ask reserve() for
  MinHeapSpace,   \* MINHEAPSPACE
  SmallExtra,     \* the 100 words of the "slight expansion"
  DfMemSize,      \* dfmemsize
  Expansion       \* the flag expansion: FALSE when +size was given

ASSUME HeapConstants ==
  /\ FlhSize \in Nat /\ MinSize \in Nat /\ 0 < FlhSize /\ FlhSize < MinSize
  /\ InitSize \in Nat /\ MaxMem \in Nat
  /\ 2 * FlhSize + MinSize <= InitSize /\ InitSize <= MaxMem
  /\ MinHeapSpace \in Nat /\ SmallExtra \in Nat /\ DfMemSize \in Nat
  /\ MinSize <= MinHeapSpace
  /\ Requests \subseteq {n \in Nat : MinSize <= n}
  /\ Expansion \in BOOLEAN

FREETAG     == -1
TERMINATOR  == -3
LOCKEDBLOCK == -5

Addr == 0 .. MaxMem - 1

freelisthdr == 0
endblock    == FlhSize
membase     == 2 * FlhSize

VARIABLES
  memsize,        \* words the heap has now
  size,           \* blksize(a)
  tag,            \* the reference count field at a, or a tag
  fwd, bck,       \* fwdlink(a), bcklink(a)
  trl,            \* word a, read as the last word of a block
  pc,             \* "idle", in reserve's loop: "search", in clearheap: "clear"
  req,            \* the n of the reserve() that is running
  freeptr,        \* reserve's freeptr ...
  nextfree,       \* ... and nextfree
  walk,           \* clearheap's next
  starts          \* history: the addresses at which a block starts

links == <<fwd, bck>>
mem   == <<size, tag, fwd, bck, trl, starts>>
loop  == <<req, freeptr, nextfree>>
vars  == <<memsize, mem, pc, loop, walk>>

Allocated(b) == tag[b] # FREETAG /\ tag[b] # LOCKEDBLOCK

Live == {b \in starts : Allocated(b)}
Free == {b \in starts : tag[b] = FREETAG}

LastWord(b, n) == b + n - 1

(***************************************************************************)
(* setup_heap: the list header, a locked block that ends the list, and one *)
(* free block with the rest of the space.  The sentinels are not blocks of *)
(* the arena, so starts does not hold them.                                *)
(***************************************************************************)
Init ==
  /\ memsize = InitSize
  /\ size = [a \in Addr |-> CASE a = freelisthdr -> FlhSize
                              [] a = endblock    -> FlhSize
                              [] a = membase     -> InitSize - membase
                              [] OTHER           -> 0]
  /\ tag = [a \in Addr |-> CASE a = endblock -> LOCKEDBLOCK
                             [] OTHER        -> FREETAG]
  /\ fwd = [a \in Addr |-> CASE a = freelisthdr -> membase
                             [] a = membase     -> endblock
                             [] OTHER           -> TERMINATOR]
  /\ bck = [a \in Addr |-> CASE a = membase  -> freelisthdr
                             [] a = endblock -> membase
                             [] OTHER        -> TERMINATOR]
  /\ trl = [a \in Addr |-> IF a = InitSize - 1 THEN -membase ELSE 0]
  /\ starts = {membase}
  /\ pc = "idle" /\ req = 0
  /\ freeptr = freelisthdr /\ nextfree = TERMINATOR
  /\ walk = membase

-------------------------------------------------------------------------------
(* reserve() *)

StartSearch ==
  /\ freeptr' = freelisthdr
  /\ nextfree' = fwd'[freelisthdr]

(* The call: the search starts at the header of the free list. *)
Reserve(n) ==
  /\ pc = "idle"
  /\ pc' = "search" /\ req' = n
  /\ UNCHANGED <<memsize, mem, walk>>
  /\ StartSearch

Fits == nextfree # TERMINATOR /\ size[nextfree] >= req

(* Mutant: freeptr does not move with nextfree. *)
SearchNextStuck ==
  /\ pc = "search"
  /\ nextfree # TERMINATOR /\ ~Fits
  /\ nextfree' = fwd[freeptr]
  /\ UNCHANGED <<memsize, mem, pc, req, freeptr, walk>>

(* One turn of the search loop. *)
SearchNext ==
  /\ pc = "search"
  /\ nextfree # TERMINATOR /\ ~Fits
  /\ freeptr' = nextfree
  /\ nextfree' = fwd[nextfree]
  /\ UNCHANGED <<memsize, mem, pc, req, walk>>

(* The n words of block b pass to the client.  Its count is 0 and its last *)
(* word is 0; the client's data will fill the words in between.            *)
Inside(b, n) == (b + 1) .. LastWord(b, n)

(* Mutant: the size of the block is one too large. *)
HandSizeOff(b, n) ==
  [a \in Addr |-> IF a = b THEN n + 1 ELSE IF a \in Inside(b, n) THEN 0 ELSE size[a]]

HandSize(b, n) ==
  [a \in Addr |-> IF a = b THEN n ELSE IF a \in Inside(b, n) THEN 0 ELSE size[a]]

HandTag(b, n) ==
  [a \in Addr |-> IF a = b THEN 0
                  ELSE IF a \in Inside(b, n) THEN FREETAG ELSE tag[a]]

(* Mutant: the mark of a free block is not taken off the last word. *)
HandTrlStale(b, n) ==
  [a \in Addr |-> IF a \in b .. LastWord(b, n) - 1 THEN -1 ELSE trl[a]]

HandTrl(b, n) ==
  [a \in Addr |-> IF a = LastWord(b, n) THEN 0
                  ELSE IF a \in b .. LastWord(b, n) THEN -1 ELSE trl[a]]

(* The link words of the block's header become its flags and its tally. *)
HandLink(f, b, n) ==
  [a \in Addr |-> IF a \in b .. LastWord(b, n) THEN TERMINATOR ELSE f[a]]

EndSearch ==
  /\ pc' = "idle" /\ req' = 0
  /\ freeptr' = freelisthdr /\ nextfree' = TERMINATOR
  /\ UNCHANGED <<memsize, walk>>

(* The block is too small to split: all of it leaves the free list. *)
TakeWhole ==
  LET next == fwd[nextfree]
      n    == size[nextfree]
  IN  /\ pc = "search" /\ Fits
      /\ n - req < MinSize
      /\ fwd' = [HandLink(fwd, nextfree, n) EXCEPT ![freeptr] = next]
      /\ bck' = LET b == HandLink(bck, nextfree, n)
                IN  IF next = TERMINATOR THEN b ELSE [b EXCEPT ![next] = freeptr]
      /\ size' = HandSize(nextfree, n)
      /\ tag' = HandTag(nextfree, n)
      /\ trl' = HandTrl(nextfree, n)
      /\ EndSearch
      /\ UNCHANGED starts

(* The tail of the block takes its place in the free list. *)
TakeFront ==
  LET next == fwd[nextfree]
      rest == nextfree + req
      k    == size[nextfree] - req
  IN  /\ pc = "search" /\ Fits
      /\ k >= MinSize
      /\ fwd' = [HandLink(fwd, nextfree, req) EXCEPT ![rest] = next,
                                                     ![freeptr] = rest]
      /\ bck' = LET b == [HandLink(bck, nextfree, req) EXCEPT ![rest] = bck[nextfree]]
                IN  IF next = TERMINATOR THEN b ELSE [b EXCEPT ![next] = rest]
      /\ size' = [HandSize(nextfree, req) EXCEPT ![rest] = k]
      /\ tag' = [HandTag(nextfree, req) EXCEPT ![rest] = FREETAG]
      /\ trl' = [HandTrl(nextfree, req) EXCEPT ![LastWord(rest, k)] = -rest]
      /\ starts' = starts \cup {rest}
      /\ EndSearch

-------------------------------------------------------------------------------
(* release(): block x of n words goes back to the free list of a heap of *)
(* ms words.                                                              *)

(* Mutant: a following block counts as free if no reference to it is left. *)
FollowingUnheld(x, n, ms) == x + n < ms /\ tag[x + n] <= 0

FollowingFree(x, n, ms) == x + n < ms /\ tag[x + n] = FREETAG
PrevBlk(x)          == -trl[x - 1]
PrecedingFree(x, ms)    == PrevBlk(x) > 0 /\ PrevBlk(x) < ms

(* Both neighbours are free: the three become one, in the place the        *)
(* following block had in the list.  The header of x keeps its size and a  *)
(* count of 0.                                                             *)
MergeThree(x, n, ms) ==
  LET q  == x + n
      p  == PrevBlk(x)
      sz == size[p] + n + size[q]
      nextp == fwd[p]
      f1 == [fwd EXCEPT ![bck[p]] = nextp]
      b1 == IF nextp = TERMINATOR THEN bck ELSE [bck EXCEPT ![nextp] = bck[p]]
      nextq == f1[q]
  IN  /\ FollowingFree(x, n, ms) /\ PrecedingFree(x, ms)
      /\ size' = [size EXCEPT ![p] = sz, ![x] = n]
      /\ fwd' = [f1 EXCEPT ![p] = nextq, ![b1[q]] = p]
      /\ bck' = LET b2 == [b1 EXCEPT ![p] = b1[q]]
                IN  IF nextq = TERMINATOR THEN b2 ELSE [b2 EXCEPT ![nextq] = p]
      /\ trl' = [trl EXCEPT ![LastWord(p, sz)] = -p]
      /\ tag' = [tag EXCEPT ![x] = 0]
      /\ starts' = starts \ {x, q}

(* Only the following block is free: x takes its place in the list. *)
MergeFollowing(x, n, ms) ==
  LET q  == x + n
      sz == size[q] + n
      next == fwd[q]
  IN  /\ FollowingFree(x, n, ms) /\ ~PrecedingFree(x, ms)
      /\ size' = [size EXCEPT ![x] = sz]
      /\ fwd' = [fwd EXCEPT ![x] = next, ![bck[q]] = x]
      /\ bck' = LET b == [bck EXCEPT ![x] = bck[q]]
                IN  IF next = TERMINATOR THEN b ELSE [b EXCEPT ![next] = x]
      /\ tag' = [tag EXCEPT ![x] = FREETAG]
      /\ trl' = [trl EXCEPT ![LastWord(x, sz)] = -x]
      /\ starts' = (starts \cup {x}) \ {q}

(* Only the preceding block is free: it grows over x, where it stands. *)
MergePreceding(x, n, ms) ==
  LET p  == PrevBlk(x)
      sz == size[p] + n
  IN  /\ ~FollowingFree(x, n, ms) /\ PrecedingFree(x, ms)
      /\ size' = [size EXCEPT ![p] = sz, ![x] = n]
      /\ trl' = [trl EXCEPT ![LastWord(p, sz)] = -p]
      /\ tag' = [tag EXCEPT ![x] = 0]
      /\ starts' = starts \ {x}
      /\ UNCHANGED links

(* No free neighbour: x becomes the first block of the list. *)
PushFront(x, n, ms) ==
  LET next == fwd[freelisthdr]
  IN  /\ ~FollowingFree(x, n, ms) /\ ~PrecedingFree(x, ms)
      /\ size' = [size EXCEPT ![x] = n]
      /\ fwd' = [fwd EXCEPT ![x] = next, ![freelisthdr] = x]
      /\ bck' = LET b == [bck EXCEPT ![x] = freelisthdr]
                IN  IF next = TERMINATOR THEN b ELSE [b EXCEPT ![next] = x]
      /\ tag' = [tag EXCEPT ![x] = FREETAG]
      /\ trl' = [trl EXCEPT ![LastWord(x, n)] = -x]
      /\ starts' = starts \cup {x}

Release(x, n, ms) ==
  \/ MergeThree(x, n, ms)
  \/ MergeFollowing(x, n, ms)
  \/ MergePreceding(x, n, ms)
  \/ PushFront(x, n, ms)

-------------------------------------------------------------------------------
(* expand_heap() *)

SmallIncr == MinHeapSpace + SmallExtra

(* The words added for a request of n: a fifth of the heap, at most half   *)
(* the default heap, at least what the request needs and MINHEAPSPACE more.*)
MemIncr(n) ==
  LET fifth == memsize \div 5
      half  == DfMemSize \div 2
      grow  == IF fifth > half THEN half ELSE fifth
  IN  IF ~Expansion THEN SmallIncr
      ELSE IF grow < n + MinHeapSpace THEN n + MinHeapSpace ELSE grow

(* Mutant: the walk starts at the first block of the free list. *)
StartClearAtFree ==
  /\ pc' = "clear" /\ req' = 0 /\ walk' = fwd[freelisthdr]
  /\ freeptr' = freelisthdr /\ nextfree' = TERMINATOR

(* clearheap is entered: a longjmp has reached the top level. *)
StartClear ==
  /\ pc' = "clear" /\ req' = 0 /\ walk' = membase
  /\ freeptr' = freelisthdr /\ nextfree' = TERMINATOR

(* No block fits.  The space at the end becomes a block and is released;   *)
(* checksignal then lets the search start again or jumps to the top level. *)
ExpandHeap ==
  /\ pc = "search" /\ nextfree = TERMINATOR
  /\ memsize + MemIncr(req) <= MaxMem
  /\ memsize' = memsize + MemIncr(req)
  /\ Release(memsize, MemIncr(req), memsize + MemIncr(req))
  /\ \/ pc' = "search" /\ StartSearch /\ UNCHANGED <<req, walk>>
     \/ StartClear

(* realloc gives nothing: the jump to the top level. *)
ExpandFails ==
  /\ pc = "search" /\ nextfree = TERMINATOR
  /\ StartClear
  /\ UNCHANGED <<memsize, mem>>

-------------------------------------------------------------------------------
(* The clients: incrrefcnt, decrrefcnt and freeup on a container. *)

Hold(b) ==
  /\ pc = "idle" /\ tag[b] = 0
  /\ tag' = [tag EXCEPT ![b] = 1]
  /\ UNCHANGED <<memsize, size, links, trl, starts, pc, loop, walk>>

Drop(b) ==
  /\ pc = "idle" /\ tag[b] = 1
  /\ tag' = [tag EXCEPT ![b] = 0]
  /\ UNCHANGED <<memsize, size, links, trl, starts, pc, loop, walk>>

FreeUp(b) ==
  /\ pc = "idle" /\ tag[b] = 0
  /\ UNCHANGED <<memsize, pc, loop, walk>>
  /\ Release(b, size[b], memsize)

(* A fault or an interrupt: the main loop runs clearheap. *)
Jump ==
  /\ pc = "idle"
  /\ StartClear
  /\ UNCHANGED <<memsize, mem>>

-------------------------------------------------------------------------------
(* clearheap(): a walk from membase, block by block, that frees what has   *)
(* reference count 0.                                                      *)

(* Mutants: the walk goes on at the end of memory; it stays on a free block. *)
AdvanceToEnd ==
  LET next == walk + size'[walk]
  IN  IF next <= memsize
      THEN walk' = next /\ UNCHANGED <<pc, loop>>
      ELSE walk' = membase /\ pc' = "idle" /\ UNCHANGED loop

Advance ==
  LET next == walk + size'[walk]
  IN  IF next < memsize
      THEN walk' = next /\ UNCHANGED <<pc, loop>>
      ELSE walk' = membase /\ pc' = "idle" /\ UNCHANGED loop

(* freeit of the block first frees an item whose last reference it held. *)
ClearItem(b) ==
  /\ pc = "clear" /\ Allocated(walk) /\ tag[walk] = 0
  /\ b # walk /\ tag[b] = 1
  /\ UNCHANGED <<memsize, pc, loop, walk>>
  /\ Release(b, size[b], memsize)

ClearBlock ==
  /\ pc = "clear" /\ Allocated(walk) /\ tag[walk] = 0
  /\ UNCHANGED memsize
  /\ Release(walk, size[walk], memsize)
  /\ Advance

ClearSkip ==
  /\ pc = "clear" /\ ~(Allocated(walk) /\ tag[walk] = 0)
  /\ UNCHANGED <<memsize, mem>>
  /\ Advance

-------------------------------------------------------------------------------
Search == SearchNext \/ TakeWhole \/ TakeFront \/ ExpandHeap \/ ExpandFails

Clear == (\E b \in Live : ClearItem(b)) \/ ClearBlock \/ ClearSkip

Client ==
  \/ \E n \in Requests : Reserve(n)
  \/ \E b \in Live : Hold(b) \/ Drop(b) \/ FreeUp(b)
  \/ Jump

Next == Search \/ Clear \/ Client

(* A call of reserve or of clearheap runs on: nothing else is scheduled    *)
(* between its steps.                                                      *)
Fairness == WF_vars(Search) /\ WF_vars(Clear)

Spec == Init /\ [][Next]_vars

FairSpec == Spec /\ Fairness

-------------------------------------------------------------------------------
(* Properties *)

(* Every variable keeps its type, the addresses in it inside the heap. *)
TypeOK ==
  /\ memsize \in membase .. MaxMem
  /\ size \in [Addr -> 0 .. MaxMem]
  /\ tag \in [Addr -> {FREETAG, LOCKEDBLOCK, 0, 1}]
  /\ fwd \in [Addr -> Addr \cup {TERMINATOR}]
  /\ bck \in [Addr -> Addr \cup {TERMINATOR}]
  /\ trl \in [Addr -> {-a : a \in Addr}]
  /\ pc \in {"idle", "search", "clear"}
  /\ req \in Requests \cup {0}
  /\ freeptr \in Addr /\ nextfree \in Addr \cup {TERMINATOR}
  /\ walk \in Addr
  /\ starts \subseteq Addr

BlockEnd(b) == b + size[b]

(* The blocks cover the arena from membase to memsize without a gap or an  *)
(* overlap, and none is below the minimum size, so that memory can be      *)
(* walked block by block (memchk, clearheap, wsdump do).                   *)
Tiled ==
  /\ membase \in starts /\ starts \subseteq membase .. memsize - 1
  /\ \A b \in starts : /\ size[b] >= MinSize
                       /\ BlockEnd(b) \in starts \cup {memsize}
                       /\ tag[b] # LOCKEDBLOCK
  /\ \A b, c \in starts : b < c => BlockEnd(b) <= c
  /\ \A e \in starts \cup {memsize} :
       e # membase => \E b \in starts : BlockEnd(b) = e

(* The last word of a block says what its front says: minus the address of *)
(* a free block, and nothing negative for a live one.                      *)
Trailers ==
  /\ trl[membase - 1] = 0
  /\ \A b \in starts :
       IF b \in Free THEN trl[LastWord(b, size[b])] = -b
                     ELSE trl[LastWord(b, size[b])] = 0

(* release merges: no free block is followed by a free block. *)
Coalesced == \A b \in Free : BlockEnd(b) \notin Free

(* The two sentinels of the free list stay as setup_heap made them, too    *)
(* small for any request and never merged.                                 *)
Sentinels ==
  /\ tag[endblock] = LOCKEDBLOCK
  /\ size[endblock] = FlhSize /\ size[freelisthdr] = FlhSize
  /\ fwd[endblock] = TERMINATOR

(* The two links of each member of the free list agree with each other,    *)
(* from the header to the locked block that ends the list (chkfl).         *)
Linked ==
  /\ \A b \in Free \cup {freelisthdr} :
       fwd[b] \in Free \cup {endblock} /\ bck[fwd[b]] = b
  /\ \A b \in Free \cup {endblock} :
       bck[b] \in Free \cup {freelisthdr} /\ fwd[bck[b]] = b

(* The arena is what reserve, release and clearheap take it for: tiled,    *)
(* marked at both ends, merged and linked.                                 *)
HeapOK == Tiled /\ Trailers /\ Coalesced /\ Sentinels /\ Linked

(* The k-th member of the free list. *)
chain[k \in 0 .. MaxMem] ==
  IF k = 0 THEN freelisthdr
  ELSE IF chain[k - 1] = TERMINATOR THEN TERMINATOR ELSE fwd[chain[k - 1]]

(* Following fwdlink from the header meets every free block, once, and no  *)
(* other but the two sentinels (memchk): the search of reserve sees all    *)
(* the free space there is, and it ends.                                   *)
FreeListComplete ==
  {chain[k] : k \in 0 .. MaxMem} = Free \cup {freelisthdr, endblock, TERMINATOR}

(* The search of reserve ends, by handing out a block or by a jump to the  *)
(* top level, however often the heap must grow first.                      *)
SearchEnds == pc = "search" ~> pc # "search"

(* The walk of clearheap comes to the end of memory, although it frees the *)
(* block it stands on and reads the header that the merge leaves behind.   *)
ClearEnds == pc = "clear" ~> pc = "idle"

(* Both loops over the blocks end.                                         *)
LoopsEnd == SearchEnds /\ ClearEnds

(* ... and when it does, no temporary is left: every block with reference  *)
(* count 0 has been freed.                                                 *)
ClearsTemporaries ==
  [][pc = "clear" /\ pc' = "idle" => \A b \in Live' : tag'[b] # 0]_vars

(* Clients see intervals that do not overlap and do not move. *)
Containers == {[at |-> b, len |-> size[b]] : b \in Live}

Abs == INSTANCE HeapSpec WITH Words <- 0 .. MaxMem, alive <- Containers

ImplementsHeapSpec == Abs!Spec
===============================================================================
