------------------------------- MODULE Workspace -------------------------------
(***************************************************************************)
(* Saving and loading a workspace (wsdump and wsload in wsmanage.c) over   *)
(* the arena of absmach.c.  Module Heap has the arena in detail; here it is*)
(* a function from the addresses where its blocks start, membase taken as  *)
(* 0, and the free list is only there while a load builds it.  A block is  *)
(* free or an array with some data, one of them the Nial stack: G, which   *)
(* the file has a copy of, holds its place as stkareabase, the pointer     *)
(* stkarea is what apush and apop use, and it is not in G.                 *)
(***************************************************************************)
EXTENDS Integers, Sequences, FiniteSets

CONSTANTS
  Data,           \* contents of an array
  StackData,      \* the contents of the Nial stack
  Free,           \* the content of a free block
  Requests,       \* the sizes of arrays
  StackSize,      \* the size of the Nial stack of a new workspace
  GrownStack,     \* its size after growstack
  MinSize, InitSize, MinHeapSpace,
  MaxMem,         \* realloc refuses to go above
  none            \* there is no file

ASSUME WorkspaceConstants ==
  /\ StackData \notin Data /\ Free \notin Data \cup {StackData}
  /\ {MinSize, InitSize, MinHeapSpace, MaxMem} \subseteq Nat
  /\ Requests \cup {StackSize, GrownStack} \subseteq MinSize .. MaxMem
  /\ 0 < MinSize /\ MinSize <= MinHeapSpace
  /\ StackSize + MinSize <= InitSize /\ InitSize <= MaxMem

VARIABLES
  pc,             \* "run", "dump", "load", "loaded", or "torn": a load failed
  memsize, heap,
  stkareabase,    \* of G
  stkarea,        \* the pointer
  file,           \* the workspace file: wssize, stkareabase, its records and
                  \* whether the count of 0 that ends it was written
  addr, startaddr, cnt,  \* the locals of wsdump
  nextaddr, list, \* the locals of wsload: nextaddr, and the free list up to
                  \* lastfree
  read,           \* records of the file that wsload has read
  saved           \* history: the arrays there were when the file was written

dump == <<addr, startaddr, cnt>>
load == <<nextaddr, list, read>>
mem  == <<memsize, heap, stkareabase, stkarea>>
vars == <<pc, mem, file, dump, load, saved>>

-------------------------------------------------------------------------------
(* The arena *)

Block(n, d) == [size |-> n, data |-> d]

Live(h)    == {b \in DOMAIN h : h[b].data # Free}
FreeIn(h)  == DOMAIN h \ Live(h)

Arrays(h)  == [b \in Live(h) |-> h[b]]

Without(h, S) == [b \in DOMAIN h \ S |-> h[b]]

With(h, b, v) == [c \in DOMAIN h \cup {b} |-> IF c = b THEN v ELSE h[c]]

(* reserve: n words of the free block b, or all of it. *)
Fitting(h, n) == {b \in FreeIn(h) : h[b].size >= n}

Taken(h, b, n, d) ==
  LET k == h[b].size - n
  IN  IF k < MinSize THEN With(h, b, Block(h[b].size, d))
      ELSE With(With(h, b, Block(n, d)), b + n, Block(k, Free))

(* release: the block is merged with the free blocks around it. *)
Released(h, x) ==
  LET before == {p \in FreeIn(h) : p + h[p].size = x}
      after  == {q \in FreeIn(h) : q = x + h[x].size}
      at     == IF before = {} THEN x ELSE CHOOSE p \in before : TRUE
      end    == IF after = {} THEN x + h[x].size
                ELSE LET q == CHOOSE q \in after : TRUE IN q + h[q].size
  IN  With(Without(h, {x} \cup after), at, Block(end - at, Free))

(* expand_heap(n), with expansion on; half the default heap, the limit of  *)
(* the fifth, is taken to be out of reach.  The new space is a block, and  *)
(* released.                                                               *)
MemIncr(n) ==
  IF memsize \div 5 < n + MinHeapSpace THEN n + MinHeapSpace ELSE memsize \div 5

Expanded(h, ms, n) == Released(With(h, ms, Block(n, Free)), ms)

NewHeap == With([b \in {0} |-> Block(StackSize, StackData)], StackSize,
                Block(InitSize - StackSize, Free))

Idle == addr = 0 /\ startaddr = 0 /\ cnt = 0 /\ nextaddr = 0 /\ list = <<>> /\ read = 0

Init ==
  /\ pc = "run" /\ memsize = InitSize /\ heap = NewHeap
  /\ stkareabase = 0 /\ stkarea = 0
  /\ file = none /\ saved = none
  /\ Idle

-------------------------------------------------------------------------------
(* The session *)

Create(n, d) ==
  /\ pc = "run"
  /\ \E b \in Fitting(heap, n) : heap' = Taken(heap, b, n, d)
  /\ UNCHANGED <<pc, memsize, stkareabase, stkarea, file, dump, load, saved>>

Destroy(x) ==
  /\ pc = "run" /\ x \in Live(heap) /\ x # stkareabase
  /\ heap' = Released(heap, x)
  /\ UNCHANGED <<pc, memsize, stkareabase, stkarea, file, dump, load, saved>>

ExpandHeap(n) ==
  /\ pc = "run" /\ Fitting(heap, n) = {} /\ memsize + MemIncr(n) <= MaxMem
  /\ memsize' = memsize + MemIncr(n)
  /\ heap' = Expanded(heap, memsize, MemIncr(n))
  /\ UNCHANGED <<pc, stkareabase, stkarea, file, dump, load, saved>>

(* growstack: a new place for the stack; the old one is released. *)
GrowStack ==
  /\ pc = "run" /\ heap[stkareabase].size < GrownStack
  /\ \E b \in Fitting(heap, GrownStack) :
       /\ heap' = Released(Taken(heap, b, GrownStack, StackData), stkareabase)
       /\ stkareabase' = b /\ stkarea' = b
  /\ UNCHANGED <<pc, memsize, file, dump, load, saved>>

(* The interpreter is started again. *)
Restart ==
  /\ pc \in {"run", "torn"} /\ pc' = "run"
  /\ memsize' = InitSize /\ heap' = NewHeap
  /\ stkareabase' = 0 /\ stkarea' = 0
  /\ UNCHANGED <<file, dump, load, saved>>

-------------------------------------------------------------------------------
(* wsdump *)

HighestFree == CHOOSE b \in FreeIn(heap) : \A c \in FreeIn(heap) : c <= b

WsSize ==
  IF FreeIn(heap) # {} /\ HighestFree + heap[HighestFree].size = memsize
  THEN HighestFree ELSE memsize

StartDump ==
  /\ pc = "run" /\ pc' = "dump"
  /\ file' = [wssize |-> WsSize, stkareabase |-> stkareabase, recs |-> <<>>,
              ended |-> FALSE]
  /\ saved' = Arrays(heap)
  /\ addr' = 0 /\ startaddr' = 0 /\ cnt' = 0
  /\ UNCHANGED <<mem, load>>

(* A record: the words from startaddr, with the blocks in them. *)
Record ==
  [cnt |-> cnt, addr |-> startaddr,
   blocks |-> [b \in {b \in Live(heap) : b \in startaddr .. startaddr + cnt - 1} |-> heap[b]]]

Write(rec) == file' = [file EXCEPT !.recs = Append(@, rec)]

(* The walk: a live block is counted, a free one ends a record. *)
DumpLive ==
  /\ pc = "dump" /\ addr < memsize /\ heap[addr].data # Free
  /\ cnt' = cnt + heap[addr].size /\ addr' = addr + heap[addr].size
  /\ UNCHANGED <<pc, mem, file, startaddr, load, saved>>

DumpFree ==
  /\ pc = "dump" /\ addr < memsize /\ heap[addr].data = Free
  /\ Write(Record)
  /\ addr' = addr + heap[addr].size /\ startaddr' = addr' /\ cnt' = 0
  /\ UNCHANGED <<pc, mem, load, saved>>

(* The last record, if there is one, and the count that ends the file. *)
EndDump ==
  /\ pc = "dump" /\ addr = memsize
  /\ file' = [file EXCEPT !.recs = IF startaddr # memsize THEN Append(@, Record) ELSE @,
                          !.ended = TRUE]
  /\ pc' = "run" /\ addr' = 0 /\ startaddr' = 0 /\ cnt' = 0
  /\ UNCHANGED <<mem, load, saved>>

(* The host writes no further. *)
DumpFails ==
  /\ pc = "dump" /\ pc' = "run"
  /\ addr' = 0 /\ startaddr' = 0 /\ cnt' = 0
  /\ UNCHANGED <<mem, file, load, saved>>

-------------------------------------------------------------------------------
(* wsload *)

(* Mutant: the heap need only hold the workspace. *)
TooSmallBare(wssize) == wssize > memsize

TooSmall(wssize) == wssize + MinHeapSpace > memsize

(* The globals are read, and the heap is expanded if the workspace does not*)
(* fit; if it moves, reset_absmach sets stkarea.  The blocks that are there*)
(* are written over.                                                       *)
StartLoad ==
  LET incr == MemIncr(file.wssize - memsize)
  IN  /\ pc = "run" /\ file # none
      /\ stkareabase' = file.stkareabase
      /\ \/ ~TooSmall(file.wssize) /\ UNCHANGED <<memsize, stkarea>> /\ pc' = "load"
         \/ /\ TooSmall(file.wssize) /\ memsize + incr <= MaxMem
            /\ memsize' = memsize + incr /\ pc' = "load"
            /\ stkarea' \in {stkarea, stkareabase'}
         \/ /\ TooSmall(file.wssize) /\ memsize + incr > MaxMem
            /\ UNCHANGED <<memsize, stkarea>> /\ pc' = "torn"
      /\ heap' = [b \in {} |-> 0]
      /\ nextaddr' = 0 /\ list' = <<>> /\ read' = 0
      /\ UNCHANGED <<file, dump, saved>>

(* Mutant: a block goes to the front of the list. *)
LinkedFront(b) == <<b>> \o list

Gap(rec) == rec.addr - nextaddr

Linked(b) == Append(list, b)

(* The next record, and before all but the first the free block between. *)
LoadRecord ==
  LET rec == file.recs[read + 1]
      h   == IF read = 0 THEN heap
             ELSE With(heap, nextaddr, Block(Gap(rec), Free))
  IN  /\ pc = "load" /\ read < Len(file.recs) /\ rec.cnt # 0
      /\ heap' = [b \in DOMAIN h \cup DOMAIN rec.blocks |->
                    IF b \in DOMAIN rec.blocks THEN rec.blocks[b] ELSE h[b]]
      /\ list' = IF read = 0 THEN list ELSE Linked(nextaddr)
      /\ nextaddr' = rec.addr + rec.cnt /\ read' = read + 1
      /\ UNCHANGED <<pc, memsize, stkareabase, stkarea, file, dump, saved>>

SpaceLeft == nextaddr < memsize

(* A count of 0, the last or that of a record: what is left is free. *)
EndLoad ==
  /\ pc = "load"
  /\ IF read < Len(file.recs) THEN file.recs[read + 1].cnt = 0 ELSE file.ended
  /\ heap' = IF SpaceLeft THEN With(heap, nextaddr, Block(memsize - nextaddr, Free))
             ELSE heap
  /\ list' = IF SpaceLeft THEN Linked(nextaddr) ELSE list
  /\ pc' = "loaded"
  /\ UNCHANGED <<memsize, stkareabase, stkarea, file, dump, nextaddr, read, saved>>

(* The file ends early. *)
LoadFails ==
  /\ pc = "load" /\ read = Len(file.recs) /\ ~file.ended
  /\ pc' = "torn"
  /\ UNCHANGED <<mem, file, dump, load, saved>>

(* Back at the prompt.  The model ends where apush would not store in the  *)
(* array that holds the Nial stack.                                        *)
Resume ==
  /\ pc = "loaded" /\ stkarea = stkareabase /\ stkareabase \in Live(heap)
  /\ pc' = "run"
  /\ nextaddr' = 0 /\ list' = <<>> /\ read' = 0
  /\ UNCHANGED <<mem, file, dump, saved>>

-------------------------------------------------------------------------------
Session ==
  \/ \E n \in Requests : ExpandHeap(n) \/ \E d \in Data : Create(n, d)
  \/ \E x \in DOMAIN heap : Destroy(x)
  \/ GrowStack \/ Restart

Next ==
  \/ Session
  \/ StartDump \/ DumpLive \/ DumpFree \/ EndDump \/ DumpFails
  \/ StartLoad \/ LoadRecord \/ EndLoad \/ LoadFails \/ Resume

Spec == Init /\ [][Next]_vars

-------------------------------------------------------------------------------
(* Properties *)

Addr == 0 .. MaxMem

TypeOK ==
  /\ pc \in {"run", "dump", "load", "loaded", "torn"}
  /\ memsize \in InitSize .. MaxMem
  /\ \A b \in DOMAIN heap :
       b \in Addr /\ heap[b] \in [size : 1 .. MaxMem, data : Data \cup {StackData, Free}]
  /\ stkareabase \in Addr /\ stkarea \in Addr
  /\ {addr, startaddr, cnt, nextaddr} \subseteq Addr
  /\ list \in Seq(Addr) /\ read \in Nat

(* The arena can be walked block by block, from membase to memsize, and no *)
(* free block follows another: while the session runs, and when a load has *)
(* put it together from the records of a file and the gaps between them.   *)
Walkable ==
  pc \in {"run", "dump", "loaded"} =>
    LET ends == {b + heap[b].size : b \in DOMAIN heap}
    IN  /\ ends = (DOMAIN heap \ {0}) \cup {memsize} /\ 0 \in DOMAIN heap
        /\ \A b \in FreeIn(heap) : b + heap[b].size \notin FreeIn(heap)

(* The free list wsload has linked has every free block of the arena on it,*)
(* once, in the order of their addresses.                                  *)
FreeListLinked ==
  pc = "loaded" =>
    /\ {list[i] : i \in DOMAIN list} = FreeIn(heap)
    /\ \A i, j \in DOMAIN list : i < j => list[i] < list[j]

(* The arena and its free list are in order, in the session and after the  *)
(* load has built both from records and gaps (wsmanage.c:188-240).         *)
InOrder == Walkable /\ FreeListLinked

(* A workspace whose first block is not free comes back, in whatever heap  *)
(* it is loaded: the same arrays in the same places, above them room to go *)
(* on, and nothing of a file that was not written to its end.              *)
Restored ==
  pc = "loaded" /\ file.recs[1].cnt # 0 =>
    /\ Arrays(heap) = saved
    /\ file.wssize + MinHeapSpace <= memsize
    /\ file.ended

(* A load replaces the current workspace with the saved one (docs/V7 QNial *)
(* Dictionary.html:9126), whatever that one is.                            *)
LoadRestores == pc = "loaded" /\ file.ended => Arrays(heap) = saved

(* stkarea is the place of the stack (lib_main.h:68, absmach.c:1734): after*)
(* a load too, apush stores into the array stkareabase.                    *)
StackPlaced == pc = "loaded" /\ Arrays(heap) = saved => stkarea = stkareabase
===============================================================================
