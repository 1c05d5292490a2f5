---------------------------- MODULE WorkspaceProofs ----------------------------
(***************************************************************************)
(* What wsdump and wsload of wsmanage.c do to the arena, proved for every  *)
(* size of heap, of arrays and of the Nial stack: blocks fill the arena    *)
(* (Tiles) and free ones are merged (Arena); every step of a dump keeps    *)
(* the records of the file in order (FileOK, DumpInv) and every step of a  *)
(* load keeps what is in memory equal to the records read (LoadInv).       *)
(***************************************************************************)
EXTENDS Workspace, WellFoundedInduction, TLAPS

(* The blocks of h fill the words from lo to hi - 1, without overlap. *)
Tiles(h, lo, hi) ==
  /\ h = [b \in DOMAIN h |-> h[b]]
  /\ lo \in Nat /\ hi \in Nat /\ lo <= hi
  /\ lo < hi => lo \in DOMAIN h /\ \E c \in DOMAIN h : c + h[c].size = hi
  /\ \A b \in DOMAIN h :
       /\ b \in Nat /\ lo <= b
       /\ h[b].size \in Nat /\ h[b].size > 0 /\ b + h[b].size <= hi
       /\ b + h[b].size \in DOMAIN h \cup {hi}
       /\ b = lo \/ \E c \in DOMAIN h : c + h[c].size = b
  /\ \A b, c \in DOMAIN h : b < c => b + h[b].size <= c

(* No free block follows another. *)
Merged(h) == \A b \in FreeIn(h) : b + h[b].size \notin FreeIn(h)

Arena(h, n) == Tiles(h, 0, n) /\ Merged(h)

(* The list has the free blocks of h on it, in the order of their addresses. *)
Lists(l, h) ==
  /\ l \in Seq(DOMAIN h)
  /\ {l[i] : i \in DOMAIN l} = FreeIn(h)
  /\ \A i, j \in DOMAIN l : i < j => l[i] < l[j]

(* The first n records are what there is of h in arrays. *)
Holds(recs, n, h) ==
  /\ \A i \in 1 .. n : \A b \in DOMAIN recs[i].blocks : b \in DOMAIN h /\ h[b] = recs[i].blocks[b]
  /\ \A b \in DOMAIN h : \E i \in 1 .. n : b \in DOMAIN recs[i].blocks

End(rec) == rec.addr + rec.cnt

RecordOK(rec) ==
  /\ rec.cnt \in Nat /\ rec.addr \in Nat
  /\ Tiles(rec.blocks, rec.addr, End(rec))
  /\ FreeIn(rec.blocks) = {}

(* What is in the file, of a dump that is not over too: its records come in *)
(* the order of their addresses with a free block before each but the first,*)
(* which alone may be empty.                                                *)
FileOK ==
  /\ file \in [wssize : Nat, stkareabase : {file.stkareabase}, recs : {file.recs},
               ended : BOOLEAN]
  /\ Len(file.recs) \in Nat /\ DOMAIN file.recs = 1 .. Len(file.recs)
  /\ \A i \in DOMAIN file.recs : RecordOK(file.recs[i]) /\ End(file.recs[i]) <= file.wssize
  /\ Len(file.recs) > 0 => file.recs[1].addr = 0
  /\ \A i \in DOMAIN file.recs :
       i > 1 => file.recs[i].cnt > 0 /\ End(file.recs[i - 1]) < file.recs[i].addr
  /\ file.ended =>
       /\ Len(file.recs) > 0 /\ Holds(file.recs, Len(file.recs), saved)
       /\ saved = [b \in DOMAIN saved |-> saved[b]]

FileInv == file = none \/ FileOK

ArenaInv ==
  /\ memsize \in Nat /\ memsize > 0
  /\ pc \in {"run", "dump", "loaded"} => Arena(heap, memsize)
  /\ pc \in {"run", "dump"} => stkareabase \in Live(heap)

Ended(n) == [b \in {b \in Live(heap) : b < n} |-> heap[b]]

DumpInv ==
  pc = "dump" =>
    /\ FileOK /\ ~file.ended /\ file.wssize = WsSize
    /\ saved = Arrays(heap)
    /\ addr \in DOMAIN heap \cup {memsize}
    /\ startaddr \in DOMAIN heap \cup {memsize}
    /\ cnt \in Nat /\ startaddr + cnt = addr
    /\ \A b \in DOMAIN heap : startaddr <= b /\ b < addr => b \in Live(heap)
    /\ Len(file.recs) = 0 => startaddr = 0
    /\ Len(file.recs) > 0 =>
         LET e == End(file.recs[Len(file.recs)])
         IN  e \in FreeIn(heap) /\ e + heap[e].size = startaddr
    /\ Holds(file.recs, Len(file.recs), Ended(startaddr))

LoadInv ==
  pc = "load" =>
    /\ FileOK /\ file.wssize + MinHeapSpace <= memsize
    /\ read \in 0 .. Len(file.recs)
    /\ nextaddr = IF read = 0 THEN 0 ELSE End(file.recs[read])
    /\ Arena(heap, nextaddr)
    /\ \A b \in FreeIn(heap) : b + heap[b].size # nextaddr
    /\ Lists(list, heap)
    /\ read > 0 => file.recs[1].cnt # 0
    /\ Holds(file.recs, read, Arrays(heap))

LoadedInv == pc = "loaded" => Lists(list, heap) /\ Restored

IInv == FileInv /\ ArenaInv /\ DumpInv /\ LoadInv /\ LoadedInv

-------------------------------------------------------------------------------
(* One block after what is there already; a record after it. *)
LEMMA JoinTiles ==
  ASSUME NEW f, NEW g, NEW lo, NEW mid, NEW hi, Tiles(f, lo, mid), Tiles(g, mid, hi),
         NEW h, h = [b \in DOMAIN f \cup DOMAIN g |-> IF b \in DOMAIN g THEN g[b] ELSE f[b]]
  PROVE  /\ Tiles(h, lo, hi)
         /\ \A b \in DOMAIN f : b \notin DOMAIN g /\ h[b] = f[b]
         /\ \A b \in DOMAIN g : h[b] = g[b]
<1>1. /\ lo \in Nat /\ mid \in Nat /\ hi \in Nat /\ lo <= mid /\ mid <= hi
  BY DEF Tiles
<1>2. \A b \in DOMAIN f :
        /\ b \in Nat /\ lo <= b
        /\ f[b].size \in Nat /\ f[b].size > 0 /\ b + f[b].size <= mid
        /\ b + f[b].size \in DOMAIN f \cup {mid}
        /\ b = lo \/ \E c \in DOMAIN f : c + f[c].size = b
  BY DEF Tiles
<1>3. \A b \in DOMAIN g :
        /\ b \in Nat /\ mid <= b
        /\ g[b].size \in Nat /\ g[b].size > 0 /\ b + g[b].size <= hi
        /\ b + g[b].size \in DOMAIN g \cup {hi}
        /\ b = mid \/ \E c \in DOMAIN g : c + g[c].size = b
  BY DEF Tiles
<1>4. \A b \in DOMAIN f : b < mid /\ b \notin DOMAIN g
  BY <1>1, <1>2, <1>3
<1>5. /\ DOMAIN h = DOMAIN f \cup DOMAIN g
      /\ \A b \in DOMAIN f : h[b] = f[b]
      /\ \A b \in DOMAIN g : h[b] = g[b]
  BY <1>4
<1>6. h = [b \in DOMAIN h |-> h[b]]
  OBVIOUS
<1>7. lo < hi => lo \in DOMAIN h /\ \E c \in DOMAIN h : c + h[c].size = hi
  <2>1. lo < mid => lo \in DOMAIN f /\ \E c \in DOMAIN f : c + f[c].size = mid
    BY DEF Tiles
  <2>2. mid < hi => mid \in DOMAIN g /\ \E c \in DOMAIN g : c + g[c].size = hi
    BY DEF Tiles
  <2>3. lo = mid \/ lo < mid
    BY <1>1
  <2>4. mid = hi \/ mid < hi
    BY <1>1
  <2>. QED
    BY <2>1, <2>2, <2>3, <2>4, <1>5
<1>8. \A b \in DOMAIN h :
        /\ b \in Nat /\ lo <= b
        /\ h[b].size \in Nat /\ h[b].size > 0 /\ b + h[b].size <= hi
  BY <1>1, <1>2, <1>3, <1>5
<1>9. \A b \in DOMAIN h : b + h[b].size \in DOMAIN h \cup {hi}
  <2>1. mid \in DOMAIN g \/ mid = hi
    BY <1>1 DEF Tiles
  <2>. QED
    BY <2>1, <1>2, <1>3, <1>5
<1>10. \A b \in DOMAIN h : b = lo \/ \E c \in DOMAIN h : c + h[c].size = b
  <2>1. mid = lo \/ \E c \in DOMAIN f : c + f[c].size = mid
    BY <1>1 DEF Tiles
  <2>2. \A b \in DOMAIN f : b = lo \/ \E c \in DOMAIN h : c + h[c].size = b
    BY <1>2, <1>5
  <2>3. \A b \in DOMAIN g : b = lo \/ \E c \in DOMAIN h : c + h[c].size = b
    BY <1>3, <1>5, <2>1
  <2>. QED
    BY <2>2, <2>3, <1>5
<1>11. \A b, c \in DOMAIN h : b < c => b + h[b].size <= c
  <2>1. \A b, c \in DOMAIN f : b < c => b + f[b].size <= c
    BY DEF Tiles
  <2>2. \A b, c \in DOMAIN g : b < c => b + g[b].size <= c
    BY DEF Tiles
  <2>3. \A b \in DOMAIN f, c \in DOMAIN g : b + f[b].size <= c
    BY <1>1, <1>2, <1>3
  <2>4. \A b \in DOMAIN g, c \in DOMAIN f : ~ (b < c)
    BY <1>1, <1>2, <1>3, <1>4
  <2>. QED
    BY <2>1, <2>2, <2>3, <2>4, <1>5
<1>12. lo <= hi
  BY <1>1
<1>13. Tiles(h, lo, hi)
  BY <1>1, <1>6, <1>7, <1>8, <1>9, <1>10, <1>11, <1>12, Zenon DEF Tiles
<1>. QED
  BY <1>4, <1>5, <1>13

LEMMA OneTile ==
  ASSUME NEW lo \in Nat, NEW v, v.size \in Nat, v.size > 0,
         NEW g, g = [b \in {lo} |-> v]
  PROVE  Tiles(g, lo, lo + v.size)
<1>1. DOMAIN g = {lo} /\ g[lo] = v /\ g = [b \in DOMAIN g |-> g[b]]
  OBVIOUS
<1>. QED
  BY <1>1 DEF Tiles

LEMMA AppendTile ==
  ASSUME NEW h, NEW lo, NEW hi, Tiles(h, lo, hi),
         NEW w, w = [b \in DOMAIN w |-> w[b]], DOMAIN w = DOMAIN h \cup {hi},
         \A b \in DOMAIN h : b # hi => w[b] = h[b],
         w[hi].size \in Nat, w[hi].size > 0
  PROVE  /\ Tiles(w, lo, hi + w[hi].size) /\ hi \notin DOMAIN h
         /\ \A b \in DOMAIN h : w[b] = h[b]
<1> DEFINE g == [b \in {hi} |-> w[hi]]
<1>1. hi \in Nat /\ hi \notin DOMAIN h
  BY DEF Tiles
<1>2. Tiles(g, hi, hi + w[hi].size)
  BY <1>1, OneTile
<1>3. w = [b \in DOMAIN h \cup DOMAIN g |-> IF b \in DOMAIN g THEN g[b] ELSE h[b]]
  BY <1>1
<1>. HIDE DEF g
<1>4. Tiles(w, lo, hi + w[hi].size)
  BY <1>2, <1>3, JoinTiles
<1>. QED
  BY <1>1, <1>4


(* The blocks between two places where blocks begin. *)
LEMMA CutTiles ==
  ASSUME NEW h, NEW m, Tiles(h, 0, m),
         NEW lo \in DOMAIN h \cup {m}, NEW hi \in DOMAIN h \cup {m}, lo <= hi,
         NEW g, g = [b \in {b \in DOMAIN h : lo <= b /\ b < hi} |-> h[b]]
  PROVE  Tiles(g, lo, hi)
<1>1. m \in Nat /\ lo \in Nat /\ hi \in Nat
  BY DEF Tiles
<1>2. \A b \in DOMAIN h :
        /\ b \in Nat
        /\ h[b].size \in Nat /\ h[b].size > 0 /\ b + h[b].size <= m
        /\ b + h[b].size \in DOMAIN h \cup {m}
        /\ b = 0 \/ \E c \in DOMAIN h : c + h[c].size = b
  BY DEF Tiles
<1>3. \A b, c \in DOMAIN h : b < c => b + h[b].size <= c
  BY DEF Tiles
<1>4. /\ \A b : b \in DOMAIN g <=> b \in DOMAIN h /\ lo <= b /\ b < hi
      /\ \A b \in DOMAIN g : g[b] = h[b]
      /\ g = [b \in DOMAIN g |-> g[b]]
  OBVIOUS
<1>5. \A b \in DOMAIN h : b < hi => b + h[b].size <= hi
  BY <1>1, <1>2, <1>3
<1>6. \A b \in DOMAIN h : lo < b + h[b].size => lo <= b
  BY <1>1, <1>2, <1>3
<1>7. \A b \in DOMAIN g : b + g[b].size \in DOMAIN g \cup {hi}
  <2>. SUFFICES ASSUME NEW b \in DOMAIN g PROVE b + g[b].size \in DOMAIN g \cup {hi}
    OBVIOUS
  <2>1. b \in DOMAIN h /\ lo <= b /\ b < hi /\ g[b] = h[b]
    BY <1>4
  <2>2. b + h[b].size <= hi /\ b + h[b].size \in Nat /\ lo <= b + h[b].size
    BY <2>1, <1>1, <1>2, <1>5
  <2>3. CASE b + h[b].size = hi
    BY <2>1, <2>3
  <2>4. CASE b + h[b].size < hi
    <3>1. b + h[b].size \in DOMAIN h
      BY <2>1, <2>4, <1>1, <1>2
    <3>. QED
      BY <3>1, <2>1, <2>2, <2>4, <1>4
  <2>. QED
    BY <2>2, <2>3, <2>4, <1>1
<1>8. \A b \in DOMAIN g : b = lo \/ \E c \in DOMAIN g : c + g[c].size = b
  <2>. SUFFICES ASSUME NEW b \in DOMAIN g, b # lo PROVE \E c \in DOMAIN g : c + g[c].size = b
    OBVIOUS
  <2>1. b \in DOMAIN h /\ lo < b /\ b < hi /\ b \in Nat
    BY <1>1, <1>2, <1>4
  <2>2. PICK c \in DOMAIN h : c + h[c].size = b
    BY <2>1, <1>1, <1>2
  <2>3. lo <= c /\ c < hi
    BY <2>1, <2>2, <1>1, <1>2, <1>6
  <2>. QED
    BY <2>2, <2>3, <1>4
<1>9. lo < hi => lo \in DOMAIN g /\ \E c \in DOMAIN g : c + g[c].size = hi
  <2>. SUFFICES ASSUME lo < hi PROVE lo \in DOMAIN g /\ \E c \in DOMAIN g : c + g[c].size = hi
    OBVIOUS
  <2>1. lo \in DOMAIN h
    BY <1>1, <1>2
  <2>2. \E c \in DOMAIN h : c + h[c].size = hi
    BY <1>1, <1>2 DEF Tiles
  <2>3. PICK c \in DOMAIN h : c + h[c].size = hi
    BY <2>2
  <2>4. lo <= c /\ c < hi
    BY <2>3, <1>1, <1>2, <1>6
  <2>. QED
    BY <2>1, <2>3, <2>4, <1>1, <1>4
<1>. QED
  BY <1>1, <1>2, <1>3, <1>4, <1>5, <1>7, <1>8, <1>9 DEF Tiles

LEMMA Sizes ==
  /\ MinSize \in Nat /\ MinSize > 0 /\ InitSize \in Nat /\ MinHeapSpace \in Nat /\ MaxMem \in Nat
  /\ MinHeapSpace > 0
  /\ StackSize \in Nat /\ StackSize >= MinSize /\ StackSize + MinSize <= InitSize
  /\ GrownStack \in Nat /\ GrownStack >= MinSize
  /\ \A n \in Requests : n \in Nat /\ n >= MinSize
  /\ StackData # Free /\ \A d \in Data : d # Free
BY WorkspaceConstants

(* What Tiles says of the blocks, in the forms the proofs cite. *)
LEMMA TileFacts ==
  ASSUME NEW h, NEW m, Tiles(h, 0, m)
  PROVE  /\ m \in Nat
         /\ \A b \in DOMAIN h :
              /\ b \in Nat
              /\ h[b].size \in Nat /\ h[b].size > 0 /\ b + h[b].size <= m
              /\ b + h[b].size \in DOMAIN h \cup {m}
              /\ b = 0 \/ \E c \in DOMAIN h : c + h[c].size = b
         /\ \A b, c \in DOMAIN h : b < c => b + h[b].size <= c
         /\ m > 0 => 0 \in DOMAIN h /\ \E c \in DOMAIN h : c + h[c].size = m
BY DEF Tiles

(* reserve: a part of a free block becomes an array, the rest stays free. *)
LEMMA TakenArena ==
  ASSUME NEW h, NEW m, Arena(h, m), NEW n \in Nat, n >= MinSize, NEW d, d # Free,
         NEW b \in Fitting(h, n)
  PROVE  /\ Arena(Taken(h, b, n, d), m)
         /\ b \in Live(Taken(h, b, n, d))
         /\ \A c \in Live(h) : c # b /\ c \in Live(Taken(h, b, n, d))
<1> DEFINE k == h[b].size - n
           t == Taken(h, b, n, d)
<1>1. /\ m \in Nat
      /\ \A c \in DOMAIN h :
           /\ c \in Nat
           /\ h[c].size \in Nat /\ h[c].size > 0 /\ c + h[c].size <= m
           /\ c + h[c].size \in DOMAIN h \cup {m}
           /\ c = 0 \/ \E e \in DOMAIN h : e + h[e].size = c
      /\ \A c, e \in DOMAIN h : c < e => c + h[c].size <= e
      /\ m > 0 => 0 \in DOMAIN h /\ \E c \in DOMAIN h : c + h[c].size = m
  BY TileFacts DEF Arena
<1>2. /\ b \in DOMAIN h /\ h[b].data = Free /\ h[b].size >= n
      /\ \A c \in DOMAIN h : h[c].data = Free => ~(/\ c + h[c].size \in DOMAIN h
                                                  /\ h[c + h[c].size].data = Free)
  BY DEF Fitting, FreeIn, Live, Arena, Merged
<1>3. /\ \A f, c : c \in Live(f) <=> c \in DOMAIN f /\ f[c].data # Free
      /\ \A f, c : c \in FreeIn(f) <=> c \in DOMAIN f /\ f[c].data = Free
  BY DEF Live, FreeIn
<1>4. CASE k < MinSize
  <2> DEFINE v == Block(h[b].size, d)
  <2>1. t = [c \in DOMAIN h \cup {b} |-> IF c = b THEN v ELSE h[c]]
    BY <1>4 DEF Taken, With
  <2>2. v.size = h[b].size /\ v.data = d
    BY DEF Block
  <2>. HIDE DEF t, v
  <2>3. /\ DOMAIN t = DOMAIN h /\ t = [c \in DOMAIN t |-> t[c]]
        /\ t[b] = v /\ \A c \in DOMAIN h : c # b => t[c] = h[c]
    BY <2>1, <1>2
  <2>4. \A c \in DOMAIN h : t[c].size = h[c].size
    BY <2>2, <2>3
  <2>5. Tiles(t, 0, m)
    BY <2>3, <2>4, <1>1 DEF Tiles
  <2>6. \A c \in DOMAIN t : t[c].data = Free => c # b /\ h[c].data = Free
    BY <2>2, <2>3
  <2>7. Merged(t)
    BY <2>3, <2>4, <2>6, <1>2, <1>3 DEF Merged
  <2>. QED
    BY <2>2, <2>3, <2>5, <2>7, <1>2, <1>3 DEF Arena, t
<1>5. CASE k >= MinSize
  <2> DEFINE v == Block(n, d)
             w == Block(k, Free)
             q == b + n
  <2>1. t = With(With(h, b, v), q, w)
    BY <1>1, <1>2, <1>5, Sizes DEF Taken
  <2>2. v.size = n /\ v.data = d /\ w.size = k /\ w.data = Free
    BY DEF Block
  <2>3. /\ k \in Nat /\ k > 0 /\ n > 0 /\ q \in Nat /\ b < q /\ q < b + h[b].size
        /\ q + k = b + h[b].size
    BY <1>1, <1>2, <1>5, Sizes
  <2>4. q \notin DOMAIN h
    BY <2>3, <1>1, <1>2
  <2>5. With(h, b, v) = [c \in DOMAIN h |-> IF c = b THEN v ELSE h[c]]
    BY <1>2 DEF With
  <2>. HIDE DEF v, w, q, k, t
  <2>6. /\ DOMAIN t = DOMAIN h \cup {q} /\ t = [c \in DOMAIN t |-> t[c]]
        /\ t[q] = w /\ t[b] = v /\ \A c \in DOMAIN h : c # b => t[c] = h[c]
    BY <2>1, <2>4, <2>5, <1>2 DEF With
  <2>7. /\ t[q].size = k /\ t[b].size = n /\ \A c \in DOMAIN h : c # b => t[c].size = h[c].size
        /\ b + t[b].size = q /\ q + t[q].size = b + h[b].size
    BY <2>2, <2>3, <2>6 DEF q
  <2>8. Tiles(t, 0, m)
    <3>1. \A c \in DOMAIN t :
            /\ c \in Nat
            /\ t[c].size \in Nat /\ t[c].size > 0 /\ c + t[c].size <= m
            /\ c + t[c].size \in DOMAIN t \cup {m}
      BY <2>3, <2>6, <2>7, <1>1, <1>2
    <3>2. \A c \in DOMAIN t : c = 0 \/ \E e \in DOMAIN t : e + t[e].size = c
      <4>. SUFFICES ASSUME NEW c \in DOMAIN t, c # 0
                    PROVE  \E e \in DOMAIN t : e + t[e].size = c
        OBVIOUS
      <4>1. CASE c = q
        BY <4>1, <2>6, <2>7, <1>2
      <4>2. CASE c # q
        <5>1. PICK e \in DOMAIN h : e + h[e].size = c
          BY <4>2, <2>6, <1>1
        <5>2. CASE e = b
          BY <5>1, <5>2, <2>6, <2>7
        <5>3. CASE e # b
          BY <5>1, <5>3, <2>6, <2>7
        <5>. QED
          BY <5>2, <5>3
      <4>. QED
        BY <4>1, <4>2
    <3>3. \A c, e \in DOMAIN t : c < e => c + t[c].size <= e
      <4>. SUFFICES ASSUME NEW c \in DOMAIN t, NEW e \in DOMAIN t, c < e
                    PROVE  c + t[c].size <= e
        OBVIOUS
      <4>1. CASE c = q
        <5>1. e \in DOMAIN h /\ b < e
          BY <4>1, <2>3, <2>6, <1>1, <1>2
        <5>. QED
          BY <4>1, <5>1, <2>7, <1>1, <1>2
      <4>2. CASE e = q
        BY <4>2, <2>3, <2>6, <2>7, <1>1, <1>2
      <4>3. CASE c # q /\ e # q
        BY <4>3, <2>3, <2>6, <2>7, <1>1, <1>2
      <4>. QED
        BY <4>1, <4>2, <4>3
    <3>4. 0 < m => 0 \in DOMAIN t /\ \E c \in DOMAIN t : c + t[c].size = m
      <4>. SUFFICES ASSUME 0 < m
                    PROVE  0 \in DOMAIN t /\ \E c \in DOMAIN t : c + t[c].size = m
        OBVIOUS
      <4>1. PICK c \in DOMAIN h : c + h[c].size = m
        BY <1>1
      <4>2. CASE c = b
        BY <4>1, <4>2, <2>6, <2>7, <1>1
      <4>3. CASE c # b
        BY <4>1, <4>3, <2>6, <2>7, <1>1
      <4>. QED
        BY <4>2, <4>3
    <3>. QED
      BY <3>1, <3>2, <3>3, <3>4, <2>6, <1>1 DEF Tiles
  <2>9. Merged(t)
    <3>. SUFFICES ASSUME NEW c \in FreeIn(t), c + t[c].size \in FreeIn(t)
                  PROVE  FALSE
      BY DEF Merged
    <3>1. CASE c = q
      <4>1. c + t[c].size = b + h[b].size /\ b + h[b].size \in DOMAIN t /\ b + h[b].size # q
        BY <3>1, <2>3, <2>7, <1>1, <1>2, <1>3
      <4>2. b + h[b].size \in DOMAIN h /\ b + h[b].size # b /\ h[b + h[b].size].data = Free
        BY <4>1, <2>6, <1>1, <1>2, <1>3
      <4>. QED
        BY <4>2, <1>2
    <3>2. CASE c # q
      <4>1. c \in DOMAIN h /\ c # b /\ h[c].data = Free /\ t[c] = h[c]
        BY <3>2, <2>2, <2>6, <1>3
      <4>2. c + h[c].size # q
        BY <4>1, <2>3, <1>1, <1>2
      <4>3. c + h[c].size \in DOMAIN h /\ h[c + h[c].size].data = Free
        BY <4>1, <4>2, <2>2, <2>6, <1>2, <1>3
      <4>. QED
        BY <4>1, <4>3, <1>2
    <3>. QED
      BY <3>1, <3>2
  <2>. QED
    BY <2>2, <2>6, <2>8, <2>9, <2>4, <1>2, <1>3 DEF Arena, t
<1>6. k \in Int /\ MinSize \in Nat
  BY <1>1, <1>2, Sizes
<1>. QED
  BY <1>4, <1>5, <1>6

(* Neighbouring blocks become one. *)
LEMMA MergeTiles ==
  ASSUME NEW h, NEW m, Tiles(h, 0, m),
         NEW at \in DOMAIN h, NEW end \in DOMAIN h \cup {m}, at < end,
         NEW r, r = [c \in DOMAIN r |-> r[c]],
         DOMAIN r = {c \in DOMAIN h : c <= at \/ end <= c},
         r[at].size = end - at, \A c \in DOMAIN r : c # at => r[c] = h[c]
  PROVE  Tiles(r, 0, m)
<1>1. /\ m \in Nat
      /\ \A c \in DOMAIN h :
           /\ c \in Nat
           /\ h[c].size \in Nat /\ h[c].size > 0 /\ c + h[c].size <= m
           /\ c + h[c].size \in DOMAIN h \cup {m}
           /\ c = 0 \/ \E e \in DOMAIN h : e + h[e].size = c
      /\ \A c, e \in DOMAIN h : c < e => c + h[c].size <= e
      /\ m > 0 => 0 \in DOMAIN h /\ \E c \in DOMAIN h : c + h[c].size = m
  BY TileFacts
<1>2. /\ at \in Nat /\ end \in Nat /\ end <= m /\ at < end
      /\ \A c \in DOMAIN h : c < at => c + h[c].size <= at
      /\ \A c \in DOMAIN h : c < end => c + h[c].size <= end
  BY <1>1
<1>3. /\ at \in DOMAIN r /\ at + r[at].size = end /\ r[at].size \in Nat /\ r[at].size > 0
      /\ \A c \in DOMAIN r : c \in DOMAIN h /\ (c <= at \/ end <= c)
      /\ \A c \in DOMAIN h : c <= at \/ end <= c => c \in DOMAIN r
      /\ \A c \in DOMAIN r : c # at => r[c].size = h[c].size
  BY <1>2
<1>4. \A c \in DOMAIN r :
        /\ c \in Nat
        /\ r[c].size \in Nat /\ r[c].size > 0 /\ c + r[c].size <= m
  BY <1>1, <1>2, <1>3
<1>5. \A c \in DOMAIN r : c + r[c].size \in DOMAIN r \cup {m}
  <2>. SUFFICES ASSUME NEW c \in DOMAIN r PROVE c + r[c].size \in DOMAIN r \cup {m}
    OBVIOUS
  <2>1. CASE c = at
    BY <2>1, <1>2, <1>3
  <2>2. CASE c # at
    <3>1. c \in DOMAIN h /\ c + h[c].size \in DOMAIN h \cup {m} /\ c + r[c].size = c + h[c].size
      BY <2>2, <1>1, <1>3
    <3>2. c + h[c].size <= at \/ end <= c + h[c].size
      BY <2>2, <1>1, <1>2, <1>3
    <3>. QED
      BY <3>1, <3>2, <1>3
  <2>. QED
    BY <2>1, <2>2
<1>6. \A b : b \in DOMAIN h \cup {m} /\ (b <= at \/ end <= b) /\ b # 0
             => \E c \in DOMAIN r : c + r[c].size = b
  <2>. SUFFICES ASSUME NEW b, b \in DOMAIN h \cup {m}, b <= at \/ end <= b, b # 0
                PROVE  \E c \in DOMAIN r : c + r[c].size = b
    OBVIOUS
  <2>1. PICK c \in DOMAIN h : c + h[c].size = b
    BY <1>1
  <2>2. CASE c < at \/ end <= c
    <3>1. c \in DOMAIN r /\ c # at
      BY <2>2, <1>1, <1>2, <1>3
    <3>. QED
      BY <3>1, <2>1, <1>3
  <2>3. CASE at <= c /\ c < end
    <3>1. b = end
      BY <2>1, <2>3, <1>1, <1>2
    <3>. QED
      BY <3>1, <1>3
  <2>4. c \in Nat /\ at \in Nat /\ end \in Nat
    BY <1>1, <1>2
  <2>5. (c < at \/ end <= c) \/ (at <= c /\ c < end)
    BY <2>4
  <2>. QED
    BY <2>2, <2>3, <2>5
<1>7. \A c, e \in DOMAIN r : c < e => c + r[c].size <= e
  BY <1>1, <1>2, <1>3
<1>8. 0 < m => 0 \in DOMAIN r /\ \E c \in DOMAIN r : c + r[c].size = m
  <2>. SUFFICES ASSUME 0 < m PROVE 0 \in DOMAIN r /\ \E c \in DOMAIN r : c + r[c].size = m
    OBVIOUS
  <2>1. 0 \in DOMAIN h /\ 0 <= at
    BY <1>1, <1>2
  <2>2. 0 \in DOMAIN r
    BY <2>1, <1>3
  <2>. QED
    BY <2>2, <1>2, <1>6
<1>9. \A c \in DOMAIN r : c = 0 \/ \E e \in DOMAIN r : e + r[e].size = c
  BY <1>3, <1>6
<1>. QED
  BY <1>1, <1>4, <1>5, <1>7, <1>8, <1>9 DEF Tiles

(* release: the block becomes one with the free blocks around it. *)
LEMMA ReleasedArena ==
  ASSUME NEW h, NEW m, Tiles(h, 0, m), NEW x \in DOMAIN h,
         \A b \in FreeIn(h) \ {x} : b + h[b].size \notin FreeIn(h) \ {x}
  PROVE  /\ Arena(Released(h, x), m)
         /\ Live(Released(h, x)) = Live(h) \ {x}
         /\ \A b \in Live(h) \ {x} : Released(h, x)[b] = h[b]
<1> DEFINE B   == {p \in FreeIn(h) : p + h[p].size = x}
           A   == {q \in FreeIn(h) : q = x + h[x].size}
           q0  == CHOOSE q \in A : TRUE
           at  == IF B = {} THEN x ELSE CHOOSE p \in B : TRUE
           end == IF A = {} THEN x + h[x].size ELSE q0 + h[q0].size
           v   == Block(end - at, Free)
           r   == Released(h, x)
<1>1. /\ m \in Nat
      /\ \A c \in DOMAIN h :
           /\ c \in Nat
           /\ h[c].size \in Nat /\ h[c].size > 0 /\ c + h[c].size <= m
           /\ c + h[c].size \in DOMAIN h \cup {m}
           /\ c = 0 \/ \E e \in DOMAIN h : e + h[e].size = c
      /\ \A c, e \in DOMAIN h : c < e => c + h[c].size <= e
  BY TileFacts
<1>2. /\ \A f, c : c \in Live(f) <=> c \in DOMAIN f /\ f[c].data # Free
      /\ \A f, c : c \in FreeIn(f) <=> c \in DOMAIN f /\ f[c].data = Free
  BY DEF Live, FreeIn
<1>3. \/ B = {} /\ at = x
      \/ B = {at} /\ at \in FreeIn(h) /\ at # x /\ at + h[at].size = x
  <2>1. CASE B = {}
    BY <2>1
  <2>2. CASE B # {}
    <3>1. at \in B
      BY <2>2
    <3>2. at \in FreeIn(h) /\ at + h[at].size = x /\ at \in DOMAIN h
      BY <3>1, <1>2
    <3>3. \A p \in B : p = at
      <4>. SUFFICES ASSUME NEW p \in B PROVE p = at
        OBVIOUS
      <4>1. p \in DOMAIN h /\ p + h[p].size = x
        BY <1>2
      <4>. HIDE DEF B, at
      <4>. QED
        BY <4>1, <3>2, <1>1
    <3>4. at # x
      <4>. HIDE DEF B, at
      <4>. QED
        BY <3>2, <1>1
    <3>. QED
      BY <3>1, <3>2, <3>3, <3>4
  <2>. QED
    BY <2>1, <2>2
<1>4. \/ A = {} /\ end = x + h[x].size
      \/ /\ A = {x + h[x].size} /\ x + h[x].size \in FreeIn(h)
         /\ end = x + h[x].size + h[x + h[x].size].size
  <2>1. CASE A = {}
    BY <2>1
  <2>2. CASE A # {}
    <3>1. q0 \in A
      BY <2>2
    <3>2. q0 = x + h[x].size /\ q0 \in FreeIn(h) /\ A = {q0}
      BY <3>1
    <3>3. end = q0 + h[q0].size
      BY <2>2
    <3>. HIDE DEF q0, A, end
    <3>. QED
      BY <3>2, <3>3
  <2>. QED
    BY <2>1, <2>2
<1>5. r = With(Without(h, {x} \cup A), at, v)
  BY Zenon DEF Released
<1>6. v.size = end - at /\ v.data = Free
  BY DEF Block
<1>. HIDE DEF at, end, v, r, q0
<1>7. \A q \in A : q = x + h[x].size /\ q \in FreeIn(h)
  OBVIOUS
<1>8. \A p \in FreeIn(h) : p + h[p].size = x => p \in B
  OBVIOUS
<1>9. x + h[x].size \in FreeIn(h) => x + h[x].size \in A
  OBVIOUS
<1>. HIDE DEF A, B
<1>10. /\ at \in DOMAIN h /\ at \in Nat /\ at <= x /\ x \in Nat
       /\ at = x \/ at + h[at].size = x
  BY <1>1, <1>2, <1>3
<1>11. /\ end \in DOMAIN h \cup {m} /\ end \in Nat /\ x < end
       /\ end = x + h[x].size \/ (x + h[x].size \in A /\ end = x + h[x].size + h[x + h[x].size].size)
  <2>1. CASE A = {} /\ end = x + h[x].size
    BY <2>1, <1>1
  <2>2. CASE /\ A = {x + h[x].size} /\ x + h[x].size \in FreeIn(h)
             /\ end = x + h[x].size + h[x + h[x].size].size
    <3>1. x + h[x].size \in DOMAIN h
      BY <2>2, <1>2
    <3>. QED
      BY <2>2, <3>1, <1>1
  <2>. QED
    BY <2>1, <2>2, <1>4
<1>12. \A c \in DOMAIN h : at < c /\ c < end <=> c # at /\ c \in {x} \cup A
  <2>. SUFFICES ASSUME NEW c \in DOMAIN h
                PROVE  at < c /\ c < end <=> c # at /\ c \in {x} \cup A
    OBVIOUS
  <2>1. c \in A => c = x + h[x].size /\ c \in DOMAIN h
    BY <1>2, <1>7
  <2>2. c \in {x} \cup A /\ c # at => at < c /\ c < end
    <3>1. CASE c = x
      BY <3>1, <1>10, <1>11
    <3>2. CASE c \in A
      <4>1. end = c + h[c].size
        BY <3>2, <2>1, <1>4
      <4>. QED
        BY <4>1, <3>2, <2>1, <1>1, <1>10
    <3>. QED
      BY <3>1, <3>2
  <2>3. at < c /\ c < end => c \in {x} \cup A
    <3>. SUFFICES ASSUME at < c, c < end, c # x PROVE c \in A
      BY <1>10
    <3>1. x < c
      BY <1>1, <1>10
    <3>2. x + h[x].size <= c
      BY <3>1, <1>1
    <3>3. x + h[x].size \in A /\ end = x + h[x].size + h[x + h[x].size].size
      BY <3>2, <1>1, <1>11
    <3>4. x + h[x].size \in DOMAIN h
      BY <3>3, <1>2, <1>7
    <3>5. ~(x + h[x].size < c)
      BY <3>3, <3>4, <1>1
    <3>. QED
      BY <3>2, <3>3, <3>5, <1>1
  <2>. QED
    BY <2>2, <2>3, <1>10
<1>13. /\ DOMAIN r = {c \in DOMAIN h : c <= at \/ end <= c}
       /\ r = [c \in DOMAIN r |-> r[c]]
       /\ r[at] = v
       /\ \A c \in DOMAIN r : c # at => r[c] = h[c]
  <2>1. /\ DOMAIN r = (DOMAIN h \ ({x} \cup A)) \cup {at}
        /\ r = [c \in DOMAIN r |-> r[c]]
        /\ r[at] = v
        /\ \A c \in DOMAIN r : c # at => r[c] = h[c]
    BY <1>5 DEF With, Without
  <2>2. at < end
    BY <1>10, <1>11
  <2>3. \A c \in DOMAIN h : c \in DOMAIN r <=> c <= at \/ end <= c
    BY <2>1, <2>2, <1>1, <1>10, <1>11, <1>12
  <2>4. DOMAIN r \subseteq DOMAIN h
    BY <2>1, <1>10
  <2>. QED
    BY <2>1, <2>3, <2>4
<1>14. Tiles(r, 0, m)
  <2>1. at < end /\ r[at].size = end - at
    BY <1>6, <1>10, <1>11, <1>13
  <2>. QED
    BY <2>1, <1>10, <1>11, <1>13, MergeTiles
<1>15. \A c : c \in FreeIn(r) /\ c # at => c \in FreeIn(h) \ {x}
  BY <1>2, <1>10, <1>11, <1>12, <1>13
<1>16. Merged(r)
  <2>. SUFFICES ASSUME NEW c \in FreeIn(r), c + r[c].size \in FreeIn(r)
                PROVE  FALSE
    BY DEF Merged
  <2>1. CASE c = at
    <3>1. c + r[c].size = end /\ at < end
      BY <2>1, <1>6, <1>10, <1>11, <1>13
    <3>2. end \in FreeIn(h) \ {x}
      BY <3>1, <1>15, <1>10
    <3>3. CASE end = x + h[x].size
      <4>1. end \in A
        BY <3>2, <3>3, <1>9
      <4>2. end = x + h[x].size + h[end].size
        BY <4>1, <3>3, <1>4
      <4>. QED
        BY <4>2, <3>2, <3>3, <1>1, <1>2
    <3>4. CASE x + h[x].size \in A /\ end = x + h[x].size + h[x + h[x].size].size
      <4>1. x + h[x].size \in FreeIn(h) \ {x}
        BY <3>4, <1>1, <1>7
      <4>. QED
        BY <4>1, <3>2, <3>4
    <3>. QED
      BY <3>3, <3>4, <1>11
  <2>2. CASE c # at
    <3>1. c \in FreeIn(h) \ {x} /\ r[c] = h[c] /\ c \in DOMAIN h
      BY <2>2, <1>2, <1>13, <1>15
    <3>2. CASE c + h[c].size # at
      <4>1. c + h[c].size \in FreeIn(h) \ {x}
        BY <3>1, <3>2, <1>15
      <4>. QED
        BY <3>1, <4>1
    <3>3. CASE c + h[c].size = at
      <4>1. CASE B = {} /\ at = x
        BY <4>1, <3>1, <3>3, <1>8
      <4>2. CASE B = {at} /\ at \in FreeIn(h) /\ at # x /\ at + h[at].size = x
        BY <4>2, <3>1, <3>3
      <4>. QED
        BY <4>1, <4>2, <1>3
    <3>. QED
      BY <3>2, <3>3
  <2>. QED
    BY <2>1, <2>2
<1>17. \A b \in Live(h) \ {x} : b \in DOMAIN r /\ b # at
  <2>. SUFFICES ASSUME NEW b \in Live(h) \ {x} PROVE b \in DOMAIN r /\ b # at
    OBVIOUS
  <2>1. b \in DOMAIN h /\ b \notin FreeIn(h)
    BY <1>2
  <2>2. b # at /\ b \notin {x} \cup A
    BY <2>1, <1>3, <1>7
  <2>3. ~(at < b /\ b < end) /\ b \in Nat
    BY <2>1, <2>2, <1>12, <1>1
  <2>. QED
    BY <2>1, <2>2, <2>3, <1>10, <1>11, <1>13
<1>18. \A b \in Live(r) : b \in Live(h) \ {x}
  <2>. SUFFICES ASSUME NEW b \in Live(r) PROVE b \in Live(h) \ {x}
    OBVIOUS
  <2>1. b \in DOMAIN r /\ b # at /\ r[b].data # Free
    BY <1>2, <1>6, <1>13
  <2>2. b \in DOMAIN h /\ r[b] = h[b] /\ (b <= at \/ end <= b)
    BY <2>1, <1>13
  <2>3. b # x
    BY <2>1, <2>2, <1>10, <1>11
  <2>. QED
    BY <2>1, <2>2, <2>3, <1>2
<1>19. \A b \in Live(h) \ {x} : b \in Live(r) /\ r[b] = h[b]
  BY <1>2, <1>13, <1>17
<1>20. Live(r) = Live(h) \ {x}
  BY <1>18, <1>19
<1>. QED
  BY <1>14, <1>16, <1>19, <1>20 DEF Arena, r


-------------------------------------------------------------------------------
(* The steps of the session *)

LEMMA ExpandedArena ==
  ASSUME NEW h, NEW m, Arena(h, m), NEW n \in Nat, n > 0
  PROVE  Arena(Expanded(h, m, n), m + n) /\ Live(Expanded(h, m, n)) = Live(h)
<1> DEFINE v == Block(n, Free)
           g == With(h, m, v)
<1>1. Tiles(h, 0, m)
  BY DEF Arena
<1>2. v.size = n /\ v.data = Free
  BY DEF Block
<1>3. Expanded(h, m, n) = Released(g, m)
  BY DEF Expanded
<1>. HIDE DEF v
<1>4. /\ Tiles(g, 0, m + v.size) /\ m \notin DOMAIN h
      /\ DOMAIN g = DOMAIN h \cup {m}
      /\ \A b \in DOMAIN h : g[b] = h[b]
      /\ g[m] = v
  <2>1. /\ g = [c \in DOMAIN g |-> g[c]] /\ DOMAIN g = DOMAIN h \cup {m}
        /\ \A c \in DOMAIN h : c # m => g[c] = h[c]
        /\ g[m] = v
    BY DEF With
  <2>. HIDE DEF g
  <2>2. g[m].size \in Nat /\ g[m].size > 0
    BY <1>2, <2>1
  <2>3. \A c \in DOMAIN h : c # m => g[c] = h[c]
    BY <2>1
  <2>4. g = [c \in DOMAIN g |-> g[c]] /\ DOMAIN g = DOMAIN h \cup {m}
    BY <2>1
  <2>5. Tiles(g, 0, m + g[m].size)
    BY <1>1, <2>2, <2>3, <2>4, AppendTile
  <2>6. m \notin DOMAIN h
    BY <1>1 DEF Tiles
  <2>. QED
    BY <2>1, <2>5, <2>6
<1>. HIDE DEF g
<1>5. FreeIn(g) \ {m} = FreeIn(h) /\ Live(g) \ {m} = Live(h) /\ m \notin Live(g)
  BY <1>2, <1>4 DEF FreeIn, Live
<1>6. \A b \in FreeIn(g) \ {m} : b + g[b].size \notin FreeIn(g) \ {m}
  BY <1>4, <1>5 DEF Arena, Merged, FreeIn, Live
<1>7. m \in DOMAIN g
  BY <1>4
<1>8. /\ Arena(Released(g, m), m + v.size)
      /\ Live(Released(g, m)) = Live(g) \ {m}
  BY <1>4, <1>6, <1>7, ReleasedArena
<1>. QED
  BY <1>2, <1>3, <1>5, <1>8

LEMMA NewArena == Arena(NewHeap, InitSize) /\ 0 \in Live(NewHeap)
<1> DEFINE u == Block(StackSize, StackData)
           g == [b \in {0} |-> u]
           v == Block(InitSize - StackSize, Free)
<1>1. u.size = StackSize /\ u.data = StackData /\ v.size = InitSize - StackSize /\ v.data = Free
  BY DEF Block
<1>2. NewHeap = With(g, StackSize, v)
  BY DEF NewHeap
<1>. HIDE DEF u, v
<1>3. /\ u.size \in Nat /\ u.size > 0 /\ 0 + u.size = StackSize /\ u.data # Free
      /\ v.size \in Nat /\ v.size > 0 /\ StackSize + v.size = InitSize
  BY <1>1, Sizes
<1>4. DOMAIN g = {0} /\ g[0] = u
  OBVIOUS
<1>5. Tiles(g, 0, 0 + u.size)
  BY <1>3, OneTile
<1>. HIDE DEF g
<1>6. Tiles(g, 0, StackSize)
  BY <1>3, <1>5
<1>7. /\ Tiles(NewHeap, 0, StackSize + v.size)
      /\ StackSize \notin DOMAIN g
      /\ DOMAIN NewHeap = DOMAIN g \cup {StackSize}
      /\ \A b \in DOMAIN g : NewHeap[b] = g[b]
      /\ NewHeap[StackSize] = v
  <2>1. /\ NewHeap = [c \in DOMAIN NewHeap |-> NewHeap[c]]
        /\ DOMAIN NewHeap = DOMAIN g \cup {StackSize}
        /\ \A c \in DOMAIN g : c # StackSize => NewHeap[c] = g[c]
        /\ NewHeap[StackSize] = v
    BY <1>2 DEF With
  <2>2. NewHeap[StackSize].size \in Nat /\ NewHeap[StackSize].size > 0
    BY <1>3, <2>1
  <2>3. NewHeap = [c \in DOMAIN NewHeap |-> NewHeap[c]]
    BY <2>1
  <2>4. DOMAIN NewHeap = DOMAIN g \cup {StackSize}
    BY <2>1
  <2>5. \A c \in DOMAIN g : c # StackSize => NewHeap[c] = g[c]
    BY <2>1
  <2>6. Tiles(NewHeap, 0, StackSize + NewHeap[StackSize].size)
    BY <1>6, <2>2, <2>3, <2>4, <2>5, AppendTile
  <2>7. StackSize \notin DOMAIN g
    BY <1>3, <1>4
  <2>. QED
    BY <2>1, <2>6, <2>7
<1>8. 0 \in Live(NewHeap)
  BY <1>3, <1>4, <1>7 DEF Live
<1>9. \A b \in FreeIn(NewHeap) : b = StackSize
  BY <1>3, <1>4, <1>7 DEF FreeIn, Live
<1>10. Merged(NewHeap)
  <2>1. StackSize + v.size # StackSize
    BY <1>3, Sizes
  <2>. QED
    BY <2>1, <1>7, <1>9 DEF Merged
<1>. QED
  BY <1>3, <1>7, <1>8, <1>10 DEF Arena

(* The heap grows by some words, by enough for what is asked for. *)
LEMMA Increase ==
  ASSUME memsize \in Nat, NEW n \in Int, n + MinHeapSpace > 0
  PROVE  MemIncr(n) \in Nat /\ MemIncr(n) > 0 /\ MemIncr(n) >= n + MinHeapSpace
<1>1. memsize \div 5 \in Int
  OBVIOUS
<1>. QED
  BY <1>1, Sizes DEF MemIncr

LEMMA CreateStep ==
  ASSUME ArenaInv, NEW n \in Requests, NEW d \in Data, Create(n, d)
  PROVE  ArenaInv'
<1>1. n \in Nat /\ n >= MinSize /\ d # Free
  BY Sizes
<1>2. Arena(heap, memsize) /\ stkareabase \in Live(heap) /\ memsize \in Nat /\ memsize > 0
  BY DEF ArenaInv, Create
<1>3. PICK b \in Fitting(heap, n) : heap' = Taken(heap, b, n, d)
  BY DEF Create
<1>4. /\ Arena(Taken(heap, b, n, d), memsize)
      /\ \A c \in Live(heap) : c # b /\ c \in Live(Taken(heap, b, n, d))
  BY <1>1, <1>2, TakenArena
<1>5. memsize' = memsize /\ stkareabase' = stkareabase
  BY DEF Create
<1>. QED
  BY <1>2, <1>3, <1>4, <1>5 DEF ArenaInv

LEMMA DestroyStep ==
  ASSUME ArenaInv, NEW x, Destroy(x)
  PROVE  ArenaInv'
<1>1. /\ Arena(heap, memsize) /\ stkareabase \in Live(heap) /\ memsize \in Nat /\ memsize > 0
      /\ x \in DOMAIN heap /\ x # stkareabase
  BY DEF ArenaInv, Destroy, Live
<1>2. \A b \in FreeIn(heap) \ {x} : b + heap[b].size \notin FreeIn(heap) \ {x}
  BY <1>1 DEF Arena, Merged
<1>3. Tiles(heap, 0, memsize)
  BY <1>1 DEF Arena
<1>4. /\ Arena(Released(heap, x), memsize)
      /\ Live(Released(heap, x)) = Live(heap) \ {x}
  BY <1>1, <1>2, <1>3, ReleasedArena
<1>5. memsize' = memsize /\ stkareabase' = stkareabase /\ heap' = Released(heap, x)
  BY DEF Destroy
<1>. QED
  BY <1>1, <1>4, <1>5 DEF ArenaInv

LEMMA ExpandStep ==
  ASSUME ArenaInv, NEW n \in Requests, ExpandHeap(n)
  PROVE  ArenaInv'
<1>1. Arena(heap, memsize) /\ stkareabase \in Live(heap) /\ memsize \in Nat /\ memsize > 0
  BY DEF ArenaInv, ExpandHeap
<1>2. n \in Int /\ n + MinHeapSpace > 0
  BY Sizes
<1>3. MemIncr(n) \in Nat /\ MemIncr(n) > 0
  BY <1>1, <1>2, Increase
<1>4. /\ Arena(Expanded(heap, memsize, MemIncr(n)), memsize + MemIncr(n))
      /\ Live(Expanded(heap, memsize, MemIncr(n))) = Live(heap)
  <2>. HIDE DEF MemIncr
  <2>. QED
    BY <1>1, <1>3, ExpandedArena
<1>5. /\ memsize' = memsize + MemIncr(n) /\ stkareabase' = stkareabase
      /\ heap' = Expanded(heap, memsize, MemIncr(n))
  BY DEF ExpandHeap
<1>6. memsize' \in Nat /\ memsize' > 0
  BY <1>1, <1>3, <1>5
<1>. QED
  BY <1>1, <1>4, <1>5, <1>6 DEF ArenaInv

(* The old stack is released, and is not where the new one is. *)
LEMMA GrowStep ==
  ASSUME ArenaInv, GrowStack
  PROVE  ArenaInv'
<1>1. /\ Arena(heap, memsize) /\ stkareabase \in Live(heap) /\ memsize \in Nat /\ memsize > 0
      /\ memsize' = memsize
  BY DEF ArenaInv, GrowStack
<1>2. PICK b \in Fitting(heap, GrownStack) :
        /\ heap' = Released(Taken(heap, b, GrownStack, StackData), stkareabase)
        /\ stkareabase' = b
  BY DEF GrowStack
<1> DEFINE t == Taken(heap, b, GrownStack, StackData)
<1>3. GrownStack \in Nat /\ GrownStack >= MinSize /\ StackData # Free
  BY Sizes
<1>4. /\ Arena(t, memsize) /\ b \in Live(t)
      /\ \A c \in Live(heap) : c # b /\ c \in Live(t)
  BY <1>1, <1>3, TakenArena
<1>. HIDE DEF t
<1>5. Tiles(t, 0, memsize) /\ stkareabase \in DOMAIN t /\ stkareabase # b
  BY <1>1, <1>4 DEF Arena, Live
<1>6. \A c \in FreeIn(t) \ {stkareabase} : c + t[c].size \notin FreeIn(t) \ {stkareabase}
  BY <1>4 DEF Arena, Merged
<1>7. /\ Arena(Released(t, stkareabase), memsize)
      /\ Live(Released(t, stkareabase)) = Live(t) \ {stkareabase}
  BY <1>5, <1>6, ReleasedArena
<1>8. heap' = Released(t, stkareabase)
  BY <1>2 DEF t
<1>9. b \in Live(heap')
  BY <1>4, <1>5, <1>7, <1>8
<1>10. Arena(heap', memsize')
  BY <1>1, <1>7, <1>8
<1>. QED
  BY <1>1, <1>2, <1>9, <1>10 DEF ArenaInv


-------------------------------------------------------------------------------
(* Dumps *)

(* A set of natural numbers up to m has a greatest member. *)
LEMMA Greatest ==
  ASSUME NEW m \in Nat, NEW S, S # {}, \A b \in S : b \in Nat /\ b <= m
  PROVE  \E b \in S : \A c \in S : c <= b
<1> DEFINE T == {m - b : b \in S}
<1>1. T \subseteq Nat /\ T # {}
  OBVIOUS
<1>2. PICK t \in T : \A u \in T : <<u, t>> \notin OpToRel(<, Nat)
  <2>. HIDE DEF T
  <2>. QED
    BY <1>1, NatLessThanWellFounded, WFMin
<1>3. \A u \in T : ~(u < t)
  BY <1>1, <1>2 DEF OpToRel
<1>4. PICK b \in S : t = m - b
  OBVIOUS
<1>5. \A c \in S : ~(m - c < m - b)
  BY <1>3, <1>4
<1>. QED
  BY <1>4, <1>5

(* The file need not have the words above HighestFree: what is written ends  *)
(* where a free block begins or at an array.                                 *)
LEMMA SizeOfFile ==
  ASSUME Arena(heap, memsize)
  PROVE  /\ WsSize \in Nat
         /\ \A e \in FreeIn(heap) : e <= WsSize
         /\ (\E s \in DOMAIN heap : \A b \in DOMAIN heap : s <= b => b \in Live(heap))
              => memsize <= WsSize
<1>1. /\ memsize \in Nat
      /\ \A b \in DOMAIN heap :
           /\ b \in Nat
           /\ heap[b].size \in Nat /\ heap[b].size > 0 /\ b + heap[b].size <= memsize
      /\ \A b, c \in DOMAIN heap : b < c => b + heap[b].size <= c
  BY TileFacts DEF Arena
<1>2. FreeIn(heap) \subseteq DOMAIN heap /\ FreeIn(heap) \cap Live(heap) = {}
  BY DEF FreeIn
<1>3. CASE FreeIn(heap) = {}
  BY <1>1, <1>3 DEF WsSize
<1>4. CASE FreeIn(heap) # {}
  <2>1. \A b \in FreeIn(heap) : b \in Nat /\ b <= memsize
    BY <1>1, <1>2
  <2>2. \E b \in FreeIn(heap) : \A c \in FreeIn(heap) : c <= b
    BY <1>1, <1>4, <2>1, Greatest
  <2>3. HighestFree \in FreeIn(heap) /\ \A c \in FreeIn(heap) : c <= HighestFree
    BY <2>2 DEF HighestFree
  <2>. HIDE DEF HighestFree
  <2>4. WsSize = IF HighestFree + heap[HighestFree].size = memsize THEN HighestFree ELSE memsize
    BY <1>4 DEF WsSize
  <2>5. HighestFree \in DOMAIN heap /\ HighestFree \in Nat
    BY <2>3, <1>1, <1>2
  <2>6. \A e \in FreeIn(heap) : e <= WsSize
    BY <2>1, <2>3, <2>4
  <2>7. ASSUME NEW s \in DOMAIN heap, \A b \in DOMAIN heap : s <= b => b \in Live(heap)
        PROVE  memsize <= WsSize
    <3>1. HighestFree \notin Live(heap)
      BY <2>3, <1>2
    <3>2. HighestFree < s
      BY <3>1, <2>5, <2>7, <1>1
    <3>3. HighestFree + heap[HighestFree].size <= s /\ s < memsize
      BY <3>2, <2>5, <1>1
    <3>4. HighestFree + heap[HighestFree].size # memsize
      BY <3>3, <2>5, <1>1
    <3>. QED
      BY <3>4, <2>4, <1>1
  <2>8. WsSize \in Nat
    BY <2>4, <2>5, <1>1
  <2>. QED
    BY <2>6, <2>7, <2>8
<1>. QED
  BY <1>3, <1>4

(* The record wsdump writes: the arrays from startaddr to addr. *)
LEMMA RecordTiles ==
  ASSUME Arena(heap, memsize), DumpInv, pc = "dump"
  PROVE  /\ RecordOK(Record) /\ Record.addr = startaddr /\ Record.cnt = cnt /\ End(Record) = addr
         /\ \A b : b \in DOMAIN Record.blocks <=> b \in Live(heap) /\ startaddr <= b /\ b < addr
         /\ \A b \in DOMAIN Record.blocks : Record.blocks[b] = heap[b]
<1> DEFINE g == Record.blocks
<1>1. /\ memsize \in Nat
      /\ \A b \in DOMAIN heap : b \in Nat
      /\ Tiles(heap, 0, memsize)
  BY TileFacts DEF Arena
<1>2. /\ addr \in DOMAIN heap \cup {memsize} /\ startaddr \in DOMAIN heap \cup {memsize}
      /\ cnt \in Nat /\ startaddr + cnt = addr
      /\ \A b \in DOMAIN heap : startaddr <= b /\ b < addr => b \in Live(heap)
  BY DEF DumpInv
<1>3. addr \in Nat /\ startaddr \in Nat /\ startaddr <= addr
  BY <1>1, <1>2
<1>4. Record.addr = startaddr /\ Record.cnt = cnt /\ End(Record) = addr
  BY <1>2 DEF Record, End
<1>5. Live(heap) \subseteq DOMAIN heap
  BY DEF Live
<1>6. {b \in Live(heap) : b \in startaddr .. startaddr + cnt - 1}
        = {b \in DOMAIN heap : startaddr <= b /\ b < addr}
  BY <1>1, <1>2, <1>3, <1>5
<1>7. g = [b \in {b \in DOMAIN heap : startaddr <= b /\ b < addr} |-> heap[b]]
  BY <1>6 DEF Record
<1>. HIDE DEF g
<1>8. Tiles(g, startaddr, addr)
  BY <1>1, <1>2, <1>3, <1>7, CutTiles
<1>9. /\ \A b : b \in DOMAIN g <=> b \in DOMAIN heap /\ startaddr <= b /\ b < addr
      /\ \A b \in DOMAIN g : g[b] = heap[b]
  BY <1>7
<1>10. \A b \in DOMAIN g : b \in Live(heap)
  BY <1>2, <1>9
<1>11. FreeIn(g) = {}
  BY <1>9, <1>10 DEF FreeIn, Live
<1>12. RecordOK(Record)
  BY <1>2, <1>3, <1>4, <1>8, <1>11 DEF RecordOK, g
<1>13. \A b : b \in DOMAIN g <=> b \in Live(heap) /\ startaddr <= b /\ b < addr
  BY <1>5, <1>9, <1>10
<1>. QED
  BY <1>4, <1>9, <1>12, <1>13 DEF g

(* The records so far and one more hold the arrays up to addr. *)
LEMMA HoldsMore ==
  ASSUME Arena(heap, memsize), DumpInv, pc = "dump", FileOK,
         NEW recs, recs = Append(file.recs, Record)
  PROVE  /\ Len(recs) = Len(file.recs) + 1 /\ DOMAIN recs = 1 .. Len(recs)
         /\ recs[Len(recs)] = Record
         /\ \A i \in 1 .. Len(file.recs) : recs[i] = file.recs[i]
         /\ Holds(recs, Len(recs), Ended(addr))
<1> DEFINE n == Len(file.recs)
<1>1. n \in Nat /\ DOMAIN file.recs = 1 .. n
  BY DEF FileOK
<1>2. /\ Len(recs) = n + 1 /\ DOMAIN recs = 1 .. n + 1
      /\ recs[n + 1] = Record /\ \A i \in 1 .. n : recs[i] = file.recs[i]
  BY <1>1
<1>. HIDE DEF n
<1>3. /\ \A b : b \in DOMAIN Record.blocks <=> b \in Live(heap) /\ startaddr <= b /\ b < addr
      /\ \A b \in DOMAIN Record.blocks : Record.blocks[b] = heap[b]
  BY RecordTiles
<1>4. Holds(file.recs, n, Ended(startaddr))
  BY DEF DumpInv, n
<1>5. /\ memsize \in Nat
      /\ \A b \in DOMAIN heap : b \in Nat
  BY TileFacts DEF Arena
<1>6. /\ addr \in Nat /\ startaddr \in Nat /\ startaddr <= addr
  BY <1>5 DEF DumpInv
<1>7. \A k : /\ DOMAIN Ended(k) = {b \in Live(heap) : b < k}
             /\ \A b \in DOMAIN Ended(k) : Ended(k)[b] = heap[b]
  BY DEF Ended
<1>8. Live(heap) \subseteq DOMAIN heap
  BY DEF Live
<1>9. \A i \in 1 .. n + 1 : i \in 1 .. n \/ i = n + 1
  BY <1>1
<1>10. ASSUME NEW i \in 1 .. n + 1, NEW b \in DOMAIN recs[i].blocks
       PROVE  b \in DOMAIN Ended(addr) /\ Ended(addr)[b] = recs[i].blocks[b]
  <2>1. CASE i \in 1 .. n
    <3>1. recs[i] = file.recs[i] /\ b \in DOMAIN file.recs[i].blocks
      BY <2>1, <1>2
    <3>2. b \in DOMAIN Ended(startaddr) /\ Ended(startaddr)[b] = file.recs[i].blocks[b]
      BY <2>1, <3>1, <1>4 DEF Holds
    <3>3. b \in Live(heap) /\ b < startaddr /\ b \in Nat
      BY <3>2, <1>5, <1>7, <1>8
    <3>4. b < addr
      BY <3>3, <1>6
    <3>5. b \in DOMAIN Ended(addr)
      BY <3>3, <3>4, <1>7
    <3>. QED
      BY <3>1, <3>2, <3>5, <1>7
  <2>2. CASE i = n + 1
    <3>1. recs[i] = Record /\ b \in DOMAIN Record.blocks
      BY <2>2, <1>2
    <3>2. b \in DOMAIN Ended(addr)
      BY <3>1, <1>3, <1>7
    <3>. QED
      BY <3>1, <3>2, <1>3, <1>7
  <2>. QED
    BY <2>1, <2>2, <1>9
<1>11. ASSUME NEW b \in DOMAIN Ended(addr)
       PROVE  \E i \in 1 .. n + 1 : b \in DOMAIN recs[i].blocks
  <2>1. b \in Live(heap) /\ b < addr /\ b \in Nat
    BY <1>5, <1>7, <1>8
  <2>2. CASE b < startaddr
    <3>1. b \in DOMAIN Ended(startaddr)
      BY <2>1, <2>2, <1>7
    <3>2. PICK i \in 1 .. n : b \in DOMAIN file.recs[i].blocks
      BY <3>1, <1>4 DEF Holds
    <3>3. i \in 1 .. n + 1 /\ recs[i] = file.recs[i]
      BY <1>1, <1>2
    <3>. QED
      BY <3>2, <3>3
  <2>3. CASE startaddr <= b
    <3>1. b \in DOMAIN Record.blocks
      BY <2>1, <2>3, <1>3
    <3>2. n + 1 \in 1 .. n + 1
      BY <1>1
    <3>. QED
      BY <3>1, <3>2, <1>2
  <2>4. b < startaddr \/ startaddr <= b
    BY <2>1, <1>6
  <2>. QED
    BY <2>2, <2>3, <2>4
<1>12. Holds(recs, n + 1, Ended(addr))
  BY <1>10, <1>11 DEF Holds
<1>. QED
  BY <1>2, <1>12 DEF n

LEMMA StartDumpStep ==
  ASSUME ArenaInv, StartDump
  PROVE  FileOK' /\ DumpInv' /\ ArenaInv'
<1>1. /\ pc = "run" /\ memsize' = memsize /\ heap' = heap /\ stkareabase' = stkareabase
      /\ pc' = "dump" /\ saved' = Arrays(heap)
      /\ addr' = 0 /\ startaddr' = 0 /\ cnt' = 0
      /\ file' = [wssize |-> WsSize, stkareabase |-> stkareabase, recs |-> <<>>, ended |-> FALSE]
  BY DEF StartDump, mem
<1>2. Arena(heap, memsize) /\ stkareabase \in Live(heap) /\ memsize \in Nat /\ memsize > 0
  BY <1>1 DEF ArenaInv
<1>3. ArenaInv'
  BY <1>1, <1>2 DEF ArenaInv
<1>4. WsSize \in Nat
  BY <1>2, SizeOfFile
<1>5. file'.wssize = WsSize /\ file'.recs = <<>> /\ file'.ended = FALSE
  BY <1>1
<1>6. Len(file'.recs) = 0 /\ DOMAIN file'.recs = {} /\ 1 .. 0 = {}
  BY <1>5
<1>7. FileOK'
  <2>1. file' \in [wssize : Nat, stkareabase : {file'.stkareabase}, recs : {file'.recs},
                   ended : BOOLEAN]
    BY <1>1, <1>4
  <2>2. /\ Len(file'.recs) \in Nat /\ DOMAIN file'.recs = 1 .. Len(file'.recs)
        /\ ~(Len(file'.recs) > 0)
        /\ \A i \in DOMAIN file'.recs : FALSE
    BY <1>6
  <2>. QED
    BY <2>1, <2>2, <1>5 DEF FileOK
<1>8. WsSize' = WsSize
  BY <1>1 DEF WsSize, HighestFree
<1>9. 0 \in DOMAIN heap
  BY <1>2, TileFacts DEF Arena
<1>10. \A b \in DOMAIN heap : b \in Nat
  BY <1>2, TileFacts DEF Arena
<1>11. DOMAIN Ended(0) = {}
  <2>1. \A b \in Live(heap) : b \in Nat
    BY <1>10 DEF Live
  <2>. QED
    BY <2>1 DEF Ended
<1>12. Ended(startaddr)' = Ended(0)
  BY <1>1 DEF Ended
<1>13. Holds(file'.recs, 0, Ended(startaddr)')
  BY <1>6, <1>11, <1>12 DEF Holds
<1>14. \A b \in DOMAIN heap : ~(0 <= b /\ b < 0)
  BY <1>10
<1>15. Arrays(heap)' = Arrays(heap)
  BY <1>1
<1>. QED
  BY <1>1, <1>3, <1>5, <1>6, <1>7, <1>8, <1>9, <1>13, <1>14, <1>15 DEF DumpInv

LEMMA DumpLiveStep ==
  ASSUME ArenaInv, DumpInv, DumpLive
  PROVE  FileOK' /\ DumpInv' /\ ArenaInv'
<1>1. /\ pc = "dump" /\ pc' = pc /\ memsize' = memsize /\ heap' = heap /\ stkareabase' = stkareabase
      /\ file' = file /\ saved' = saved /\ startaddr' = startaddr
      /\ addr < memsize /\ heap[addr].data # Free
      /\ cnt' = cnt + heap[addr].size /\ addr' = addr + heap[addr].size
  BY DEF DumpLive, mem
<1>2. Arena(heap, memsize) /\ memsize \in Nat
  BY <1>1 DEF ArenaInv
<1>3. ArenaInv'
  BY <1>1 DEF ArenaInv
<1>4. FileOK' /\ FileOK
  BY <1>1 DEF FileOK, DumpInv
<1>5. /\ \A b \in DOMAIN heap :
           /\ b \in Nat /\ heap[b].size \in Nat
           /\ b + heap[b].size \in DOMAIN heap \cup {memsize}
      /\ \A b, c \in DOMAIN heap : b < c => b + heap[b].size <= c
  BY <1>2, TileFacts DEF Arena
<1>6. /\ addr \in DOMAIN heap /\ addr \in Nat
      /\ startaddr \in DOMAIN heap \cup {memsize} /\ startaddr \in Nat
      /\ cnt \in Nat /\ startaddr + cnt = addr
      /\ \A b \in DOMAIN heap : startaddr <= b /\ b < addr => b \in Live(heap)
  BY <1>1, <1>2, <1>5 DEF DumpInv
<1>7. addr' \in DOMAIN heap \cup {memsize} /\ cnt' \in Nat /\ startaddr + cnt' = addr'
  BY <1>1, <1>5, <1>6
<1>8. \A b \in DOMAIN heap : startaddr <= b /\ b < addr' => b \in Live(heap)
  <2>. SUFFICES ASSUME NEW b \in DOMAIN heap, startaddr <= b, b < addr' PROVE b \in Live(heap)
    OBVIOUS
  <2>1. b < addr \/ b = addr
    BY <1>1, <1>5, <1>6
  <2>. QED
    BY <2>1, <1>1, <1>6 DEF Live
<1>9. WsSize' = WsSize /\ Ended(startaddr)' = Ended(startaddr) /\ Arrays(heap)' = Arrays(heap)
  BY <1>1 DEF WsSize, HighestFree, Ended
<1>10. DumpInv'
  BY <1>1, <1>4, <1>6, <1>7, <1>8, <1>9 DEF DumpInv
<1>. QED
  BY <1>3, <1>4, <1>10


(* The file with one record more is in order: the record begins after a free *)
(* block, and is not empty, unless it is the first.                          *)
LEMMA MoreOK ==
  ASSUME ArenaInv, DumpInv, pc = "dump",
         NEW recs, recs = Append(file.recs, Record), addr <= WsSize
  PROVE  /\ \A i \in DOMAIN recs : RecordOK(recs[i]) /\ End(recs[i]) <= file.wssize
         /\ recs[1].addr = 0
         /\ \A i \in DOMAIN recs :
              i > 1 => recs[i].cnt > 0 \/ i = Len(recs)
         /\ \A i \in DOMAIN recs : i > 1 => End(recs[i - 1]) < recs[i].addr
         /\ Len(recs) > 0 /\ Len(recs) \in Nat /\ DOMAIN recs = 1 .. Len(recs)
<1> DEFINE n == Len(file.recs)
<1>1. FileOK /\ Arena(heap, memsize)
  BY DEF DumpInv, ArenaInv
<1>2. /\ n \in Nat /\ file.wssize = WsSize
      /\ \A i \in 1 .. n : RecordOK(file.recs[i]) /\ End(file.recs[i]) <= file.wssize
      /\ n > 0 => file.recs[1].addr = 0
      /\ \A i \in 1 .. n : i > 1 => file.recs[i].cnt > 0 /\ End(file.recs[i - 1]) < file.recs[i].addr
  BY <1>1 DEF FileOK, DumpInv
<1>3. /\ RecordOK(Record) /\ Record.addr = startaddr /\ Record.cnt = cnt /\ End(Record) = addr
  BY <1>1, RecordTiles
<1>4. /\ n = 0 => startaddr = 0
      /\ n > 0 => End(file.recs[n]) < startaddr
  <2>1. n = 0 => startaddr = 0
    BY DEF DumpInv
  <2>2. ASSUME n > 0 PROVE End(file.recs[n]) < startaddr
    <3>1. /\ End(file.recs[n]) \in FreeIn(heap)
          /\ End(file.recs[n]) + heap[End(file.recs[n])].size = startaddr
      BY <2>2 DEF DumpInv
    <3>2. End(file.recs[n]) \in DOMAIN heap
      BY <3>1 DEF FreeIn
    <3>3. \A b \in DOMAIN heap : b \in Nat /\ heap[b].size \in Nat /\ heap[b].size > 0
      BY <1>1, TileFacts DEF Arena
    <3>. HIDE DEF n
    <3>. QED
      BY <3>1, <3>2, <3>3
  <2>. QED
    BY <2>1, <2>2
<1>5. /\ Len(recs) = n + 1 /\ DOMAIN recs = 1 .. n + 1
      /\ recs[n + 1] = Record
      /\ \A i \in 1 .. n : recs[i] = file.recs[i]
  BY <1>1, HoldsMore
<1>. HIDE DEF n
<1>6. \A i \in 1 .. n + 1 : i \in 1 .. n \/ i = n + 1
  BY <1>2
<1>7. \A i \in DOMAIN recs : RecordOK(recs[i]) /\ End(recs[i]) <= file.wssize
  BY <1>2, <1>3, <1>5, <1>6
<1>8. recs[1].addr = 0
  <2>1. CASE n = 0
    BY <2>1, <1>3, <1>4, <1>5
  <2>2. CASE n > 0
    BY <2>2, <1>2, <1>5
  <2>. QED
    BY <2>1, <2>2, <1>2
<1>9. \A i \in 1 .. n + 1 : i > 1 => End(recs[i - 1]) < recs[i].addr
  <2>. SUFFICES ASSUME NEW i \in 1 .. n + 1, i > 1 PROVE End(recs[i - 1]) < recs[i].addr
    OBVIOUS
  <2>1. i - 1 \in 1 .. n
    BY <1>2
  <2>2. recs[i - 1] = file.recs[i - 1]
    BY <2>1, <1>5
  <2>3. CASE i \in 1 .. n
    <3>1. recs[i] = file.recs[i]
      BY <2>3, <1>5
    <3>. QED
      BY <2>2, <2>3, <3>1, <1>2
  <2>4. CASE i = n + 1
    <3>1. i - 1 = n /\ n > 0
      BY <2>4, <2>1, <1>2
    <3>2. recs[i] = Record
      BY <2>4, <1>5
    <3>. QED
      BY <3>1, <3>2, <2>2, <1>3, <1>4
  <2>. QED
    BY <2>3, <2>4, <1>6
<1>10. \A i \in DOMAIN recs : i > 1 => recs[i].cnt > 0 \/ i = Len(recs)
  BY <1>2, <1>5, <1>6
<1>11. Len(recs) > 0 /\ Len(recs) \in Nat /\ DOMAIN recs = 1 .. Len(recs)
  BY <1>2, <1>5
<1>. QED
  BY <1>5, <1>7, <1>8, <1>9, <1>10, <1>11

LEMMA DumpFreeStep ==
  ASSUME ArenaInv, DumpInv, DumpFree
  PROVE  FileOK' /\ DumpInv' /\ ArenaInv'
<1> DEFINE n == Len(file.recs)
<1>1. /\ pc = "dump" /\ pc' = pc /\ memsize' = memsize /\ heap' = heap /\ stkareabase' = stkareabase
      /\ saved' = saved
      /\ addr < memsize /\ heap[addr].data = Free
      /\ addr' = addr + heap[addr].size /\ startaddr' = addr' /\ cnt' = 0
      /\ file' = [file EXCEPT !.recs = Append(file.recs, Record)]
  BY DEF DumpFree, mem, Write
<1>2. Arena(heap, memsize) /\ memsize \in Nat /\ FileOK /\ ~file.ended
  BY <1>1 DEF ArenaInv, DumpInv
<1>3. ArenaInv'
  BY <1>1 DEF ArenaInv
<1>4. /\ \A b \in DOMAIN heap :
           /\ b \in Nat /\ heap[b].size \in Nat /\ heap[b].size > 0
           /\ b + heap[b].size \in DOMAIN heap \cup {memsize}
      /\ \A b, c \in DOMAIN heap : b < c => b + heap[b].size <= c
  BY <1>2, TileFacts DEF Arena
<1>5. /\ addr \in DOMAIN heap /\ addr \in Nat
      /\ startaddr \in DOMAIN heap \cup {memsize} /\ startaddr \in Nat
      /\ cnt \in Nat /\ startaddr + cnt = addr
      /\ saved = Arrays(heap) /\ file.wssize = WsSize
  BY <1>1, <1>2, <1>4 DEF DumpInv
<1>6. addr \in FreeIn(heap)
  BY <1>1, <1>5 DEF FreeIn, Live
<1>7. addr <= WsSize
  BY <1>2, <1>6, SizeOfFile
<1>8. file'.wssize = file.wssize /\ file'.ended = file.ended /\ file'.recs = Append(file.recs, Record)
  BY <1>1, <1>2 DEF FileOK
<1>9. /\ n \in Nat
      /\ Len(file'.recs) = n + 1 /\ DOMAIN file'.recs = 1 .. n + 1
      /\ file'.recs[n + 1] = Record
      /\ Holds(file'.recs, n + 1, Ended(addr))
  <2>1. n \in Nat
    BY <1>2 DEF FileOK
  <2>. QED
    BY <2>1, <1>1, <1>2, <1>8, HoldsMore
<1>10. /\ \A i \in DOMAIN file'.recs : RecordOK(file'.recs[i]) /\ End(file'.recs[i]) <= file.wssize
       /\ file'.recs[1].addr = 0
       /\ \A i \in DOMAIN file'.recs : i > 1 => file'.recs[i].cnt > 0 \/ i = Len(file'.recs)
       /\ \A i \in DOMAIN file'.recs : i > 1 => End(file'.recs[i - 1]) < file'.recs[i].addr
  BY <1>1, <1>7, <1>8, MoreOK
<1>11. Record.cnt = cnt /\ End(Record) = addr
  BY <1>1, <1>2, RecordTiles
<1>12. n > 0 => cnt > 0
  <2>. SUFFICES ASSUME n > 0, cnt = 0 PROVE FALSE
    BY <1>5
  <2>1. addr = startaddr
    BY <1>5
  <2>2. /\ End(file.recs[n]) \in FreeIn(heap)
        /\ End(file.recs[n]) + heap[End(file.recs[n])].size = startaddr
    BY <1>1 DEF DumpInv
  <2>. QED
    BY <2>1, <2>2, <1>2, <1>6 DEF Arena, Merged
<1>. HIDE DEF n
<1>13. \A i \in DOMAIN file'.recs : i > 1 => file'.recs[i].cnt > 0
  <2>. SUFFICES ASSUME NEW i \in DOMAIN file'.recs, i > 1 PROVE file'.recs[i].cnt > 0
    OBVIOUS
  <2>1. CASE i = n + 1
    <3>1. n > 0
      BY <2>1, <1>9
    <3>. QED
      BY <3>1, <2>1, <1>9, <1>11, <1>12
  <2>2. CASE i # n + 1
    BY <2>2, <1>9, <1>10
  <2>. QED
    BY <2>1, <2>2
<1>14. FileOK'
  <2>1. file' \in [wssize : Nat, stkareabase : {file'.stkareabase}, recs : {file'.recs},
                   ended : BOOLEAN]
    BY <1>1, <1>2 DEF FileOK
  <2>2. Len(file'.recs) \in Nat /\ DOMAIN file'.recs = 1 .. Len(file'.recs)
    BY <1>9
  <2>3. /\ \A i \in DOMAIN file'.recs : RecordOK(file'.recs[i]) /\ End(file'.recs[i]) <= file'.wssize
        /\ \A i \in DOMAIN file'.recs :
             i > 1 => file'.recs[i].cnt > 0 /\ End(file'.recs[i - 1]) < file'.recs[i].addr
    BY <1>8, <1>10, <1>13
  <2>4. ~file'.ended
    BY <1>2, <1>8
  <2>. QED
    BY <2>1, <2>2, <2>3, <2>4, <1>10 DEF FileOK
<1>15. Ended(startaddr)' = Ended(addr)
  <2>1. Live(heap) \subseteq DOMAIN heap /\ addr \notin Live(heap)
    BY <1>6 DEF Live, FreeIn
  <2>2. \A b \in DOMAIN heap : b # addr => (b < addr + heap[addr].size <=> b < addr)
    BY <1>4, <1>5
  <2>4. \A b \in Live(heap) : b < startaddr' <=> b < addr
    BY <2>1, <2>2, <1>1
  <2>3. {b \in Live(heap) : b < startaddr'} = {b \in Live(heap) : b < addr}
    BY <2>4
  <2>. QED
    BY <2>3, <1>1 DEF Ended
<1>16. addr' \in DOMAIN heap \cup {memsize} /\ addr' \in Nat /\ startaddr' + cnt' = addr'
  BY <1>1, <1>4, <1>5
<1>17. \A b \in DOMAIN heap : ~(addr' <= b /\ b < addr')
  BY <1>4, <1>16
<1>18. WsSize' = WsSize /\ Arrays(heap)' = Arrays(heap)
  BY <1>1 DEF WsSize, HighestFree
<1>19. /\ Len(file'.recs) # 0
       /\ End(file'.recs[Len(file'.recs)]) = addr
       /\ Holds(file'.recs, Len(file'.recs), Ended(startaddr)')
  BY <1>9, <1>11, <1>15
<1>20. DumpInv'
  <2>1. ~file'.ended /\ file'.wssize = WsSize' /\ saved' = Arrays(heap)'
    BY <1>1, <1>2, <1>5, <1>8, <1>18
  <2>2. /\ addr' \in DOMAIN heap' \cup {memsize'} /\ startaddr' \in DOMAIN heap' \cup {memsize'}
        /\ cnt' \in Nat /\ startaddr' + cnt' = addr'
        /\ \A b \in DOMAIN heap' : startaddr' <= b /\ b < addr' => b \in Live(heap')
    BY <1>1, <1>16, <1>17
  <2>3. LET e == End(file'.recs[Len(file'.recs)])
        IN  e \in FreeIn(heap') /\ e + heap'[e].size = startaddr'
    BY <1>1, <1>6, <1>19
  <2>. QED
    BY <2>1, <2>2, <2>3, <1>14, <1>19 DEF DumpInv
<1>. QED
  BY <1>3, <1>14, <1>20

(* What is in the file of a dump that went to its end is what was saved. *)
LEMMA EndDumpStep ==
  ASSUME ArenaInv, DumpInv, EndDump
  PROVE  FileOK' /\ ArenaInv'
<1> DEFINE n == Len(file.recs)
           m == Len(file'.recs)
<1>1. /\ pc = "dump" /\ pc' = "run" /\ memsize' = memsize /\ heap' = heap /\ stkareabase' = stkareabase
      /\ saved' = saved /\ addr = memsize
      /\ file' = [file EXCEPT !.recs = IF startaddr # memsize THEN Append(file.recs, Record) ELSE file.recs,
                              !.ended = TRUE]
  BY DEF EndDump, mem
<1>2. Arena(heap, memsize) /\ memsize \in Nat /\ memsize > 0 /\ FileOK /\ ~file.ended
  BY <1>1 DEF ArenaInv, DumpInv
<1>3. ArenaInv'
  BY <1>1 DEF ArenaInv
<1>4. /\ \A b \in DOMAIN heap :
           /\ b \in Nat /\ heap[b].size \in Nat /\ heap[b].size > 0
           /\ b + heap[b].size <= memsize
      /\ \A b, c \in DOMAIN heap : b < c => b + heap[b].size <= c
  BY <1>2, TileFacts DEF Arena
<1>5. /\ startaddr \in DOMAIN heap \cup {memsize} /\ startaddr \in Nat
      /\ cnt \in Nat /\ startaddr + cnt = memsize
      /\ saved = Arrays(heap) /\ file.wssize = WsSize
      /\ \A b \in DOMAIN heap : startaddr <= b /\ b < memsize => b \in Live(heap)
      /\ n = 0 => startaddr = 0
      /\ Holds(file.recs, n, Ended(startaddr))
  BY <1>1, <1>2, <1>4 DEF DumpInv
<1>6. Ended(memsize) = saved /\ saved = [b \in DOMAIN saved |-> saved[b]]
  <2>1. \A b \in Live(heap) : b < memsize
    BY <1>4, <1>2 DEF Live
  <2>2. {b \in Live(heap) : b < memsize} = Live(heap)
    BY <2>1
  <2>. QED
    BY <2>2, <1>5 DEF Ended, Arrays
<1>7. /\ file'.wssize = file.wssize /\ file'.ended
      /\ file' \in [wssize : Nat, stkareabase : {file'.stkareabase}, recs : {file'.recs},
                    ended : BOOLEAN]
      /\ file'.recs = IF startaddr # memsize THEN Append(file.recs, Record) ELSE file.recs
  BY <1>1, <1>2 DEF FileOK
<1>8. CASE startaddr = memsize
  <2>1. file'.recs = file.recs
    BY <1>7, <1>8
  <2>2. n > 0
    BY <1>2, <1>5, <1>8 DEF FileOK
  <2>3. Holds(file.recs, n, saved)
    BY <1>5, <1>6, <1>8
  <2>. QED
    BY <2>1, <2>2, <2>3, <1>1, <1>2, <1>3, <1>6, <1>7 DEF FileOK
<1>9. CASE startaddr # memsize
  <2>1. startaddr \in DOMAIN heap /\ startaddr < memsize
    BY <1>4, <1>5, <1>9
  <2>2. \A b \in DOMAIN heap : startaddr <= b => b \in Live(heap)
    BY <1>2, <1>4, <1>5
  <2>3. addr <= WsSize
    BY <2>1, <2>2, <1>1, <1>2, SizeOfFile
  <2>4. file'.recs = Append(file.recs, Record)
    BY <1>7, <1>9
  <2>5. /\ m = n + 1 /\ n \in Nat /\ DOMAIN file'.recs = 1 .. m
        /\ file'.recs[m] = Record
        /\ Holds(file'.recs, m, saved)
    <3>1. n \in Nat
      BY <1>2 DEF FileOK
    <3>. QED
      BY <2>4, <3>1, <1>1, <1>2, <1>6, HoldsMore
  <2>6. /\ \A i \in DOMAIN file'.recs : RecordOK(file'.recs[i]) /\ End(file'.recs[i]) <= file.wssize
        /\ file'.recs[1].addr = 0
        /\ \A i \in DOMAIN file'.recs : i > 1 => file'.recs[i].cnt > 0 \/ i = Len(file'.recs)
        /\ \A i \in DOMAIN file'.recs : i > 1 => End(file'.recs[i - 1]) < file'.recs[i].addr
    BY <2>3, <2>4, <1>1, MoreOK
  <2>7. Record.cnt > 0
    <3>1. Record.cnt = cnt
      BY <1>1, <1>2, RecordTiles
    <3>. QED
      BY <3>1, <2>1, <1>2, <1>5
  <2>8. \A i \in DOMAIN file'.recs : i > 1 => file'.recs[i].cnt > 0
    BY <2>5, <2>6, <2>7
  <2>9. m \in Nat /\ m > 0
    BY <2>5
  <2>10. /\ saved' = saved
         /\ \A i \in DOMAIN file'.recs : RecordOK(file'.recs[i]) /\ End(file'.recs[i]) <= file'.wssize
         /\ \A i \in DOMAIN file'.recs :
              i > 1 => file'.recs[i].cnt > 0 /\ End(file'.recs[i - 1]) < file'.recs[i].addr
    BY <2>6, <2>8, <1>1, <1>7
  <2>. QED
    BY <2>5, <2>6, <2>9, <2>10, <1>3, <1>6, <1>7 DEF FileOK
<1>. QED
  BY <1>8, <1>9

LEMMA DumpFailsStep ==
  ASSUME ArenaInv, DumpInv, DumpFails
  PROVE  FileOK' /\ ArenaInv'
<1>1. /\ pc = "dump" /\ pc' = "run" /\ memsize' = memsize /\ heap' = heap /\ stkareabase' = stkareabase
      /\ saved' = saved /\ file' = file
  BY DEF DumpFails, mem
<1>. QED
  BY <1>1 DEF ArenaInv, DumpInv, FileOK


-------------------------------------------------------------------------------
(* Loads *)

LEMMA StartLoadStep ==
  ASSUME FileInv, ArenaInv, StartLoad
  PROVE  FileOK' /\ ArenaInv' /\ LoadInv' /\ pc' \in {"load", "torn"}
<1> DEFINE n == file.wssize - memsize
<1>1. /\ FileOK /\ memsize \in Nat /\ memsize > 0
      /\ file' = file /\ saved' = saved
      /\ heap' = [b \in {} |-> 0] /\ nextaddr' = 0 /\ list' = <<>> /\ read' = 0
      /\ \/ ~TooSmall(file.wssize) /\ memsize' = memsize /\ pc' = "load"
         \/ TooSmall(file.wssize) /\ memsize' = memsize + MemIncr(n) /\ pc' = "load"
         \/ memsize' = memsize /\ pc' = "torn"
  BY DEF StartLoad, FileInv, ArenaInv
<1>2. file.wssize \in Nat
  BY <1>1 DEF FileOK
<1>3. /\ pc' \in {"load", "torn"} /\ memsize' \in Nat /\ memsize' > 0
      /\ pc' = "load" => file.wssize + MinHeapSpace <= memsize'
  <2>1. CASE ~TooSmall(file.wssize) /\ memsize' = memsize /\ pc' = "load"
    BY <2>1, <1>1, <1>2, Sizes DEF TooSmall
  <2>2. CASE TooSmall(file.wssize) /\ memsize' = memsize + MemIncr(n) /\ pc' = "load"
    <3>1. n \in Int /\ n + MinHeapSpace > 0
      BY <2>2, <1>1, <1>2, Sizes DEF TooSmall
    <3>2. MemIncr(n) \in Nat /\ MemIncr(n) > 0 /\ MemIncr(n) >= n + MinHeapSpace
      <4>. HIDE DEF n
      <4>. QED
        BY <3>1, <1>1, Increase
    <3>. QED
      BY <2>2, <3>1, <3>2, <1>1, <1>2, Sizes
  <2>3. CASE memsize' = memsize /\ pc' = "torn"
    BY <2>3, <1>1
  <2>. QED
    BY <2>1, <2>2, <2>3, <1>1
<1>4. FileOK'
  BY <1>1 DEF FileOK
<1>5. ArenaInv'
  BY <1>3 DEF ArenaInv
<1>6. DOMAIN heap' = {}
  BY <1>1
<1>7. Tiles(heap', 0, 0)
  BY <1>1, <1>6 DEF Tiles
<1>8. FreeIn(heap') = {} /\ DOMAIN Arrays(heap') = {}
  BY <1>6 DEF FreeIn, Live, Arrays
<1>9. Arena(heap', 0)
  BY <1>7, <1>8 DEF Arena, Merged
<1>10. Lists(list', heap')
  <2>1. list' \in Seq(DOMAIN heap') /\ DOMAIN list' = {}
    BY <1>1
  <2>. QED
    BY <2>1, <1>8 DEF Lists
<1>11. Holds(file'.recs, 0, Arrays(heap'))
  BY <1>8 DEF Holds
<1>12. 0 \in 0 .. Len(file'.recs)
  BY <1>4 DEF FileOK
<1>. QED
  BY <1>1, <1>3, <1>4, <1>5, <1>8, <1>9, <1>10, <1>11, <1>12 DEF LoadInv

(* A free block is linked at the end of the list. *)
LEMMA LinkOne ==
  ASSUME NEW l, NEW h, NEW m, Tiles(h, 0, m), Lists(l, h),
         NEW g, NEW x, x \in FreeIn(g), FreeIn(g) \subseteq FreeIn(h) \cup {x},
         FreeIn(h) \subseteq FreeIn(g), x = m
  PROVE  Lists(Append(l, x), g)
<1> DEFINE k == Append(l, x)
           n == Len(l)
<1>1. l \in Seq(FreeIn(h))
  BY DEF Lists
<1>2. \A b \in FreeIn(h) : b \in Nat /\ b < x /\ x \in Nat
  BY TileFacts DEF FreeIn
<1>3. /\ n \in Nat /\ DOMAIN l = 1 .. n
      /\ k \in Seq(FreeIn(g)) /\ DOMAIN k = 1 .. n + 1 /\ k[n + 1] = x
      /\ \A i \in 1 .. n : k[i] = l[i] /\ l[i] \in FreeIn(h)
  BY <1>1
<1>4. \A i \in 1 .. n + 1 : i \in 1 .. n \/ i = n + 1
  BY <1>3
<1>5. {l[i] : i \in 1 .. n} = FreeIn(h) /\ \A i, j \in 1 .. n : i < j => l[i] < l[j]
  BY <1>3 DEF Lists
<1>. HIDE DEF k, n
<1>6. {k[i] : i \in DOMAIN k} = FreeIn(g)
  <2>1. \A i \in DOMAIN k : k[i] \in FreeIn(g)
    BY <1>3, <1>4
  <2>2. \A b \in FreeIn(g) : \E i \in DOMAIN k : k[i] = b
    <3>. SUFFICES ASSUME NEW b \in FreeIn(g) PROVE \E i \in DOMAIN k : k[i] = b
      OBVIOUS
    <3>1. CASE b = x
      <4>1. n + 1 \in DOMAIN k
        BY <1>3
      <4>. QED
        BY <3>1, <4>1, <1>3
    <3>2. CASE b \in FreeIn(h)
      <4>1. PICK i \in 1 .. n : l[i] = b
        BY <3>2, <1>5
      <4>2. i \in DOMAIN k
        BY <1>3
      <4>. QED
        BY <4>1, <4>2, <1>3
    <3>. QED
      BY <3>1, <3>2
  <2>. QED
    BY <2>1, <2>2
<1>7. \A i, j \in DOMAIN k : i < j => k[i] < k[j]
  <2>. SUFFICES ASSUME NEW i \in 1 .. n + 1, NEW j \in 1 .. n + 1, i < j PROVE k[i] < k[j]
    BY <1>3
  <2>1. i \in 1 .. n
    BY <1>3
  <2>2. CASE j \in 1 .. n
    BY <2>1, <2>2, <1>3, <1>5
  <2>3. CASE j = n + 1
    BY <2>1, <2>3, <1>2, <1>3
  <2>. QED
    BY <2>2, <2>3, <1>4
<1>8. k \in Seq(DOMAIN g)
  BY <1>3 DEF FreeIn
<1>. QED
  BY <1>6, <1>7, <1>8 DEF Lists, k

(* A free block, where no free block ends, is put after what is there. *)
LEMMA AppendFree ==
  ASSUME NEW h, NEW m, Arena(h, m), \A b \in FreeIn(h) : b + h[b].size # m,
         NEW w, w = [b \in DOMAIN w |-> w[b]], DOMAIN w = DOMAIN h \cup {m},
         \A b \in DOMAIN h : b # m => w[b] = h[b],
         w[m].size \in Nat, w[m].size > 0, w[m].data = Free
  PROVE  Arena(w, m + w[m].size)
<1>1. Tiles(h, 0, m) /\ m \in Nat
  BY TileFacts DEF Arena
<1>2. /\ Tiles(w, 0, m + w[m].size) /\ m \notin DOMAIN h
      /\ \A b \in DOMAIN h : w[b] = h[b]
  <2>1. Tiles(w, 0, m + w[m].size)
    BY <1>1, AppendTile
  <2>2. m \notin DOMAIN h
    BY <1>1 DEF Tiles
  <2>. QED
    BY <2>1, <2>2
<1>3. Live(w) = Live(h) /\ FreeIn(w) = FreeIn(h) \cup {m}
  BY <1>2 DEF Live, FreeIn
<1>4. Merged(w)
  <2>1. m + w[m].size \notin DOMAIN w
    <3>1. \A b \in DOMAIN w :
            /\ b \in Nat /\ w[b].size \in Nat /\ w[b].size > 0
            /\ b + w[b].size <= m + w[m].size
      BY <1>2 DEF Tiles
    <3>. QED
      BY <3>1, <1>1
  <2>2. FreeIn(w) \subseteq DOMAIN w /\ FreeIn(h) \subseteq DOMAIN h
    BY DEF FreeIn
  <2>3. \A b \in FreeIn(h) : b + w[b].size \notin FreeIn(w)
    BY <2>2, <1>2, <1>3 DEF Arena, Merged
  <2>. QED
    BY <2>1, <2>2, <2>3, <1>3 DEF Merged
<1>. QED
  BY <1>2, <1>4 DEF Arena

(* What holds the same records is the same. *)
LEMMA HoldsSame ==
  ASSUME NEW recs, NEW n, NEW f, NEW g, Holds(recs, n, f), Holds(recs, n, g),
         f = [b \in DOMAIN f |-> f[b]], g = [b \in DOMAIN g |-> g[b]]
  PROVE  f = g
<1>1. DOMAIN f = DOMAIN g
  BY DEF Holds
<1>2. \A b \in DOMAIN f : f[b] = g[b]
  BY DEF Holds
<1>. QED
  BY <1>1, <1>2

LEMMA EndLoadStep ==
  ASSUME ArenaInv, LoadInv, EndLoad
  PROVE  FileOK' /\ ArenaInv' /\ LoadedInv' /\ pc' = "loaded"
<1> DEFINE v == Block(memsize - nextaddr, Free)
<1>1. /\ pc = "load" /\ pc' = "loaded" /\ memsize' = memsize /\ file' = file /\ saved' = saved
      /\ IF read < Len(file.recs) THEN file.recs[read + 1].cnt = 0 ELSE file.ended
      /\ heap' = IF SpaceLeft THEN With(heap, nextaddr, v) ELSE heap
      /\ list' = IF SpaceLeft THEN Linked(nextaddr) ELSE list
  BY DEF EndLoad
<1>2. /\ FileOK /\ file.wssize + MinHeapSpace <= memsize
      /\ read \in 0 .. Len(file.recs)
      /\ nextaddr = IF read = 0 THEN 0 ELSE End(file.recs[read])
      /\ Arena(heap, nextaddr)
      /\ \A b \in FreeIn(heap) : b + heap[b].size # nextaddr
      /\ Lists(list, heap)
      /\ Holds(file.recs, read, Arrays(heap))
  BY <1>1 DEF LoadInv
<1>3. /\ memsize \in Nat /\ memsize > 0 /\ file.wssize \in Nat
      /\ Len(file.recs) \in Nat /\ DOMAIN file.recs = 1 .. Len(file.recs)
      /\ \A i \in DOMAIN file.recs : End(file.recs[i]) <= file.wssize
      /\ \A i \in DOMAIN file.recs : i > 1 => file.recs[i].cnt > 0
      /\ file.ended =>
           /\ Len(file.recs) > 0 /\ Holds(file.recs, Len(file.recs), saved)
           /\ saved = [b \in DOMAIN saved |-> saved[b]]
  BY <1>2 DEF FileOK, ArenaInv
<1>4. Tiles(heap, 0, nextaddr) /\ nextaddr \in Nat
  BY <1>2, TileFacts DEF Arena
<1>5. nextaddr < memsize
  <2>1. CASE read = 0
    BY <2>1, <1>2, <1>3
  <2>2. CASE read # 0
    <3>1. nextaddr <= file.wssize
      BY <2>2, <1>2, <1>3
    <3>. QED
      BY <3>1, <1>2, <1>3, <1>4, Sizes
  <2>. QED
    BY <2>1, <2>2
<1>6. heap' = With(heap, nextaddr, v) /\ list' = Append(list, nextaddr)
  BY <1>1, <1>5 DEF SpaceLeft, Linked
<1>7. v.size = memsize - nextaddr /\ v.data = Free
  BY DEF Block
<1>. HIDE DEF v
<1>8. heap' = [b \in DOMAIN heap' |-> heap'[b]] /\ heap'[nextaddr] = v
  BY <1>6 DEF With
<1>9. DOMAIN heap' = DOMAIN heap \cup {nextaddr}
  BY <1>6 DEF With
<1>10. \A b \in DOMAIN heap : b # nextaddr => heap'[b] = heap[b]
  BY <1>6 DEF With
<1>11. heap'[nextaddr].size \in Nat /\ heap'[nextaddr].size > 0 /\ nextaddr + heap'[nextaddr].size = memsize
  BY <1>3, <1>4, <1>5, <1>7, <1>8
<1>12. heap' = [b \in DOMAIN heap' |-> heap'[b]]
  BY <1>8
<1>13. heap'[nextaddr].size \in Nat /\ heap'[nextaddr].size > 0
  BY <1>11
<1> DEFINE w == heap'
<1>14. w = [b \in DOMAIN w |-> w[b]] /\ DOMAIN w = DOMAIN heap \cup {nextaddr}
  BY <1>9, <1>12
<1>15. \A b \in DOMAIN heap : b # nextaddr => w[b] = heap[b]
  BY <1>10
<1>16. w[nextaddr].size \in Nat /\ w[nextaddr].size > 0
  BY <1>13
<1>. HIDE DEF w
<1>17. w[nextaddr].data = Free /\ nextaddr + w[nextaddr].size = memsize
  BY <1>7, <1>8, <1>11 DEF w
<1>18. \A b \in FreeIn(heap) : b + heap[b].size # nextaddr
  BY <1>2
<1>19. /\ Arena(w, nextaddr + w[nextaddr].size) /\ Live(w) = Live(heap)
       /\ \A b \in DOMAIN heap : w[b] = heap[b]
       /\ Lists(Append(list, nextaddr), w)
  <2>1. nextaddr \notin DOMAIN heap
    BY <1>4 DEF Tiles
  <2>2. /\ \A b \in DOMAIN heap : w[b] = heap[b]
        /\ Live(w) = Live(heap) /\ FreeIn(w) = FreeIn(heap) \cup {nextaddr}
    BY <2>1, <1>14, <1>15, <1>17 DEF Live, FreeIn
  <2>3. Arena(heap, nextaddr) /\ w[nextaddr].data = Free
    BY <1>2, <1>17
  <2>4. Arena(w, nextaddr + w[nextaddr].size)
    BY <2>3, <1>14, <1>15, <1>16, <1>18, AppendFree
  <2>5. /\ nextaddr \in FreeIn(w) /\ FreeIn(w) \subseteq FreeIn(heap) \cup {nextaddr}
        /\ FreeIn(heap) \subseteq FreeIn(w)
    BY <2>2
  <2>6. Lists(Append(list, nextaddr), w)
    BY <2>5, <1>2, <1>4, LinkOne
  <2>. QED
    BY <2>2, <2>4, <2>6
<1>20. ASSUME file.recs[1].cnt # 0
       PROVE  Arrays(w) = saved /\ file.ended
  <2>1. ~(read < Len(file.recs))
    <3>. SUFFICES ASSUME read < Len(file.recs) PROVE FALSE
      OBVIOUS
    <3>1. file.recs[read + 1].cnt = 0
      BY <1>1
    <3>2. read # 0
      BY <3>1, <1>20
    <3>3. read + 1 \in DOMAIN file.recs /\ read + 1 > 1
      BY <3>2, <1>2, <1>3
    <3>. QED
      BY <3>1, <3>3, <1>3
  <2>2. file.ended /\ read = Len(file.recs)
    BY <2>1, <1>1, <1>2, <1>3
  <2>3. Arrays(w) = Arrays(heap)
    BY <1>19 DEF Arrays, Live
  <2>4. Holds(file.recs, read, saved) /\ saved = [b \in DOMAIN saved |-> saved[b]]
    BY <2>2, <1>3
  <2>5. Arrays(heap) = [b \in DOMAIN Arrays(heap) |-> Arrays(heap)[b]]
    BY DEF Arrays
  <2>6. Arrays(heap) = saved
    BY <2>4, <2>5, <1>2, HoldsSame
  <2>. QED
    BY <2>2, <2>3, <2>6
<1>21. FileOK'
  BY <1>1, <1>2 DEF FileOK
<1>22. ArenaInv'
  BY <1>1, <1>3, <1>17, <1>19 DEF ArenaInv, w
<1>23. Restored'
  BY <1>1, <1>2, <1>20 DEF Restored, w
<1>24. Lists(list', heap')
  BY <1>6, <1>19 DEF w
<1>. QED
  BY <1>1, <1>21, <1>22, <1>23, <1>24 DEF LoadedInv


(* A record and the gap before it are put after what is loaded already. *)
LEMMA LoadRecordStep ==
  ASSUME ArenaInv, LoadInv, LoadRecord
  PROVE  FileOK' /\ ArenaInv' /\ LoadInv'
<1> DEFINE rec == file.recs[read + 1]
           g   == rec.blocks
           v   == Block(Gap(rec), Free)
           h   == IF read = 0 THEN heap ELSE With(heap, nextaddr, v)
           w   == heap'
<1>1. /\ pc = "load" /\ pc' = pc /\ memsize' = memsize /\ file' = file /\ saved' = saved
      /\ read < Len(file.recs) /\ rec.cnt # 0
      /\ w = [b \in DOMAIN h \cup DOMAIN g |-> IF b \in DOMAIN g THEN g[b] ELSE h[b]]
      /\ list' = IF read = 0 THEN list ELSE Append(list, nextaddr)
      /\ nextaddr' = rec.addr + rec.cnt /\ read' = read + 1
  BY DEF LoadRecord, Linked
<1>2. /\ FileOK /\ file.wssize + MinHeapSpace <= memsize
      /\ read \in 0 .. Len(file.recs)
      /\ nextaddr = IF read = 0 THEN 0 ELSE End(file.recs[read])
      /\ Arena(heap, nextaddr)
      /\ \A b \in FreeIn(heap) : b + heap[b].size # nextaddr
      /\ Lists(list, heap)
      /\ read > 0 => file.recs[1].cnt # 0
      /\ Holds(file.recs, read, Arrays(heap))
  BY <1>1 DEF LoadInv
<1>3. /\ Len(file.recs) \in Nat /\ DOMAIN file.recs = 1 .. Len(file.recs)
      /\ \A i \in DOMAIN file.recs : RecordOK(file.recs[i])
      /\ Len(file.recs) > 0 => file.recs[1].addr = 0
      /\ \A i \in DOMAIN file.recs : i > 1 => End(file.recs[i - 1]) < file.recs[i].addr
  BY <1>2 DEF FileOK
<1>4. read \in Nat /\ read + 1 \in DOMAIN file.recs /\ read + 1 \in 1 .. Len(file.recs)
  BY <1>1, <1>2, <1>3
<1>5. /\ RecordOK(rec)
      /\ read = 0 => rec.addr = 0
      /\ read # 0 => nextaddr < rec.addr
  <2>1. RecordOK(rec)
    BY <1>3, <1>4
  <2>2. read = 0 => rec.addr = 0
    BY <1>3, <1>4
  <2>3. ASSUME read # 0 PROVE nextaddr < rec.addr
    <3>1. read + 1 > 1 /\ (read + 1) - 1 = read
      BY <2>3, <1>4
    <3>2. End(file.recs[(read + 1) - 1]) < rec.addr
      BY <3>1, <1>3, <1>4
    <3>. QED
      BY <2>3, <3>1, <3>2, <1>2
  <2>. QED
    BY <2>1, <2>2, <2>3
<1>6. /\ rec.cnt \in Nat /\ rec.addr \in Nat /\ rec.cnt > 0
      /\ Tiles(g, rec.addr, rec.addr + rec.cnt) /\ FreeIn(g) = {}
  <2>1. RecordOK(rec)
    BY <1>3, <1>4
  <2>. HIDE DEF rec
  <2>. QED
    BY <2>1, <1>1 DEF RecordOK, End
<1>7. Tiles(heap, 0, nextaddr) /\ nextaddr \in Nat
  BY <1>2, TileFacts DEF Arena
<1>8. v.size = rec.addr - nextaddr /\ v.data = Free
  BY DEF Block, Gap
<1>9. h = IF read = 0 THEN heap ELSE With(heap, nextaddr, v)
  OBVIOUS
<1>10. /\ read = 0 => rec.addr = 0
       /\ read # 0 => nextaddr < rec.addr
  BY <1>5
<1>. HIDE DEF v, h
<1>11. /\ Arena(h, rec.addr) /\ Lists(list', h)
       /\ Live(h) = Live(heap) /\ \A b \in Live(heap) : h[b] = heap[b]
  <2>1. CASE read = 0
    <3>1. nextaddr = rec.addr /\ h = heap
      BY <2>1, <1>2, <1>9, <1>10
    <3>2. list' = list
      BY <2>1, <1>1
    <3>. QED
      BY <3>1, <3>2, <1>2
  <2>2. CASE read # 0
    <3>1. h = With(heap, nextaddr, v) /\ list' = Append(list, nextaddr)
      BY <2>2, <1>1, <1>9
    <3>2. h = [b \in DOMAIN h |-> h[b]] /\ DOMAIN h = DOMAIN heap \cup {nextaddr}
      BY <3>1 DEF With
    <3>3. \A b \in DOMAIN heap : b # nextaddr => h[b] = heap[b]
      BY <3>1 DEF With
    <3>4. h[nextaddr] = v
      BY <3>1 DEF With
    <3>5. h[nextaddr].size \in Nat /\ h[nextaddr].size > 0 /\ nextaddr + h[nextaddr].size = rec.addr
      BY <2>2, <3>4, <1>6, <1>7, <1>8, <1>10
    <3>6. h[nextaddr].size \in Nat /\ h[nextaddr].size > 0 /\ h[nextaddr].data = Free
      BY <3>4, <3>5, <1>8
    <3>7. /\ Arena(h, nextaddr + h[nextaddr].size) /\ Live(h) = Live(heap)
          /\ \A b \in DOMAIN heap : h[b] = heap[b]
          /\ Lists(Append(list, nextaddr), h)
      <4>1. nextaddr \notin DOMAIN heap
        BY <1>7 DEF Tiles
      <4>2. /\ \A b \in DOMAIN heap : h[b] = heap[b]
            /\ Live(h) = Live(heap) /\ FreeIn(h) = FreeIn(heap) \cup {nextaddr}
        BY <4>1, <3>2, <3>3, <3>6 DEF Live, FreeIn
      <4>3. Arena(heap, nextaddr) /\ \A b \in FreeIn(heap) : b + heap[b].size # nextaddr
        BY <1>2
      <4>4. Arena(h, nextaddr + h[nextaddr].size)
        BY <4>3, <3>2, <3>3, <3>6, AppendFree
      <4>5. /\ nextaddr \in FreeIn(h) /\ FreeIn(h) \subseteq FreeIn(heap) \cup {nextaddr}
            /\ FreeIn(heap) \subseteq FreeIn(h)
        BY <4>2
      <4>6. Lists(Append(list, nextaddr), h)
        BY <4>5, <1>2, <1>7, LinkOne
      <4>. QED
        BY <4>2, <4>4, <4>6
    <3>. QED
      BY <3>1, <3>5, <3>7 DEF Live
  <2>. QED
    BY <2>1, <2>2
<1>12. Tiles(h, 0, rec.addr) /\ Merged(h)
  BY <1>11 DEF Arena
<1> DEFINE at  == rec.addr
           end == rec.addr + rec.cnt
<1>13. /\ at \in Nat /\ end \in Nat /\ at < end /\ nextaddr' = end
       /\ Tiles(h, 0, at) /\ Tiles(g, at, end)
       /\ w = [b \in DOMAIN h \cup DOMAIN g |-> IF b \in DOMAIN g THEN g[b] ELSE h[b]]
  BY <1>1, <1>6, <1>12
<1>14. FreeIn(g) = {}
  BY <1>6
<1>. HIDE DEF w, g, at, end
<1>15. /\ Tiles(w, 0, end)
       /\ \A b \in DOMAIN h : b \notin DOMAIN g /\ w[b] = h[b]
       /\ \A b \in DOMAIN g : w[b] = g[b]
  BY <1>13, JoinTiles
<1>16. /\ FreeIn(w) = FreeIn(h)
       /\ \A b : b \in Live(w) <=> b \in Live(h) \/ b \in DOMAIN g
  <2>1. DOMAIN w = DOMAIN h \cup DOMAIN g
    BY <1>13
  <2>2. \A b \in DOMAIN g : g[b].data # Free
    BY <1>14 DEF FreeIn, Live
  <2>. QED
    BY <2>1, <2>2, <1>15 DEF FreeIn, Live
<1>17. Merged(w)
  <2>1. FreeIn(h) \subseteq DOMAIN h
    BY DEF FreeIn
  <2>. QED
    BY <2>1, <1>12, <1>15, <1>16 DEF Merged
<1>18. \A b \in FreeIn(w) : b + w[b].size # end
  <2>1. \A b \in DOMAIN h : b \in Nat /\ h[b].size \in Nat /\ b + h[b].size <= at
    BY <1>13 DEF Tiles
  <2>2. FreeIn(h) \subseteq DOMAIN h
    BY DEF FreeIn
  <2>. QED
    BY <2>1, <2>2, <1>13, <1>15, <1>16
<1>19. Lists(list', w)
  <2>1. list' \in Seq(DOMAIN h)
    BY <1>11 DEF Lists
  <2>2. DOMAIN h \subseteq DOMAIN w
    BY <1>13
  <2>3. list' \in Seq(DOMAIN w)
    BY <2>1, <2>2
  <2>. QED
    BY <2>3, <1>11, <1>16 DEF Lists
<1>20. Holds(file.recs, read + 1, Arrays(w))
  <2>1. /\ DOMAIN Arrays(w) = Live(w) /\ \A b \in Live(w) : Arrays(w)[b] = w[b]
        /\ DOMAIN Arrays(heap) = Live(heap) /\ \A b \in Live(heap) : Arrays(heap)[b] = heap[b]
    BY DEF Arrays
  <2>2. \A b \in Live(heap) : b \in Live(w) /\ w[b] = heap[b]
    <3>1. Live(h) \subseteq DOMAIN h
      BY DEF Live
    <3>. QED
      BY <3>1, <1>11, <1>15, <1>16
  <2>3. \A b \in DOMAIN g : b \in Live(w) /\ w[b] = g[b]
    BY <1>15, <1>16
  <2>4. \A b \in Live(w) : b \in Live(heap) \/ b \in DOMAIN g
    BY <1>11, <1>16
  <2>5. \A i \in 1 .. read + 1 : i \in 1 .. read \/ i = read + 1
    BY <1>4
  <2>6. /\ \A i \in 1 .. read : \A b \in DOMAIN file.recs[i].blocks :
             b \in Live(heap) /\ heap[b] = file.recs[i].blocks[b]
        /\ \A b \in Live(heap) : \E i \in 1 .. read : b \in DOMAIN file.recs[i].blocks
    BY <2>1, <1>2 DEF Holds
  <2>7. file.recs[read + 1].blocks = g /\ read + 1 \in 1 .. read + 1
    BY <1>4 DEF g
  <2>8. \A i \in 1 .. read : i \in 1 .. read + 1
    BY <1>4
  <2>9. ASSUME NEW i \in 1 .. read + 1, NEW b \in DOMAIN file.recs[i].blocks
        PROVE  b \in Live(w) /\ w[b] = file.recs[i].blocks[b]
    <3>1. CASE i \in 1 .. read
      BY <3>1, <2>2, <2>6
    <3>2. CASE i = read + 1
      BY <3>2, <2>3, <2>7
    <3>. QED
      BY <3>1, <3>2, <2>5
  <2>10. ASSUME NEW b \in Live(w)
         PROVE  \E i \in 1 .. read + 1 : b \in DOMAIN file.recs[i].blocks
    <3>1. CASE b \in Live(heap)
      BY <3>1, <2>6, <2>8
    <3>2. CASE b \in DOMAIN g
      BY <3>2, <2>7
    <3>. QED
      BY <3>1, <3>2, <2>4
  <2>. QED
    BY <2>1, <2>9, <2>10 DEF Holds
<1>21. read + 1 > 0 /\ read + 1 # 0 /\ read + 1 \in 0 .. Len(file.recs)
  BY <1>3, <1>4
<1>22. End(file.recs[read + 1]) = end
  BY DEF End, end
<1>23. file.recs[1].cnt # 0
  <2>1. CASE read = 0
    BY <2>1, <1>1
  <2>2. CASE read # 0
    BY <2>2, <1>2, <1>4
  <2>. QED
    BY <2>1, <2>2
<1>24. FileOK'
  BY <1>1, <1>2 DEF FileOK
<1>25. ArenaInv'
  BY <1>1 DEF ArenaInv
<1>26. Arena(w, end)
  BY <1>15, <1>17 DEF Arena
<1>27. heap' = w
  BY DEF w
<1>28. LoadInv'
  BY <1>1, <1>2, <1>13, <1>18, <1>19, <1>20, <1>21, <1>22, <1>23, <1>24, <1>26, <1>27 DEF LoadInv
<1>. QED
  BY <1>24, <1>25, <1>28


-------------------------------------------------------------------------------
(* IInv is an invariant: the records of a dump, of the loads that follow it  *)
(* and the arena they leave stay in step (wsmanage.c:51-285).                *)
LEMMA InitInv ==
  ASSUME Init PROVE IInv
<1>1. /\ pc = "run" /\ memsize = InitSize /\ heap = NewHeap /\ stkareabase = 0 /\ file = none
  BY DEF Init
<1>2. InitSize \in Nat /\ InitSize > 0
  BY Sizes
<1>3. ArenaInv
  BY <1>1, <1>2, NewArena DEF ArenaInv
<1>. QED
  BY <1>1, <1>3 DEF IInv, FileInv, DumpInv, LoadInv, LoadedInv

(* A step that ends in the session or in a failed load, with the file in     *)
(* order, has nothing else to keep.                                          *)
LEMMA Between ==
  ASSUME FileInv', ArenaInv', pc' \in {"run", "torn"}
  PROVE  IInv'
BY DEF IInv, DumpInv, LoadInv, LoadedInv

LEMMA NextInv ==
  ASSUME IInv, [Next]_vars
  PROVE  IInv'
<1>1. FileInv /\ ArenaInv /\ DumpInv /\ LoadInv /\ LoadedInv
  BY DEF IInv
<1>2. ASSUME file' = file, saved' = saved PROVE FileInv'
  BY <1>1, <1>2 DEF FileInv, FileOK
<1>3. CASE Session
  <2>1. file' = file /\ saved' = saved /\ pc' = "run" /\ ArenaInv'
    <3>1. ASSUME NEW n \in Requests, ExpandHeap(n)
          PROVE  file' = file /\ saved' = saved /\ pc' = "run" /\ ArenaInv'
      BY <3>1, <1>1, ExpandStep DEF ExpandHeap
    <3>2. ASSUME NEW n \in Requests, NEW d \in Data, Create(n, d)
          PROVE  file' = file /\ saved' = saved /\ pc' = "run" /\ ArenaInv'
      BY <3>2, <1>1, CreateStep DEF Create
    <3>3. ASSUME NEW x \in DOMAIN heap, Destroy(x)
          PROVE  file' = file /\ saved' = saved /\ pc' = "run" /\ ArenaInv'
      BY <3>3, <1>1, DestroyStep DEF Destroy
    <3>4. CASE GrowStack
      BY <3>4, <1>1, GrowStep DEF GrowStack
    <3>5. CASE Restart
      <4>1. /\ file' = file /\ saved' = saved /\ pc' = "run"
            /\ memsize' = InitSize /\ heap' = NewHeap /\ stkareabase' = 0
        BY <3>5 DEF Restart
      <4>2. InitSize \in Nat /\ InitSize > 0
        BY Sizes
      <4>. QED
        BY <4>1, <4>2, NewArena DEF ArenaInv
    <3>. QED
      BY <1>3, <3>1, <3>2, <3>3, <3>4, <3>5 DEF Session
  <2>. QED
    BY <2>1, <1>2, Between
<1>4. CASE StartDump
  <2>1. FileOK' /\ DumpInv' /\ ArenaInv' /\ pc' = "dump"
    BY <1>4, <1>1, StartDumpStep DEF StartDump
  <2>. QED
    BY <2>1 DEF IInv, FileInv, LoadInv, LoadedInv
<1>5. CASE DumpLive
  <2>1. FileOK' /\ DumpInv' /\ ArenaInv' /\ pc' = "dump"
    BY <1>5, <1>1, DumpLiveStep DEF DumpLive
  <2>. QED
    BY <2>1 DEF IInv, FileInv, LoadInv, LoadedInv
<1>6. CASE DumpFree
  <2>1. FileOK' /\ DumpInv' /\ ArenaInv' /\ pc' = "dump"
    BY <1>6, <1>1, DumpFreeStep DEF DumpFree
  <2>. QED
    BY <2>1 DEF IInv, FileInv, LoadInv, LoadedInv
<1>7. CASE EndDump
  <2>1. FileOK' /\ ArenaInv' /\ pc' = "run"
    BY <1>7, <1>1, EndDumpStep DEF EndDump
  <2>. QED
    BY <2>1, Between DEF FileInv
<1>8. CASE DumpFails
  <2>1. FileOK' /\ ArenaInv' /\ pc' = "run"
    BY <1>8, <1>1, DumpFailsStep DEF DumpFails
  <2>. QED
    BY <2>1, Between DEF FileInv
<1>9. CASE StartLoad
  <2>1. FileOK' /\ ArenaInv' /\ LoadInv' /\ pc' \in {"load", "torn"}
    BY <1>9, <1>1, StartLoadStep
  <2>. QED
    BY <2>1 DEF IInv, FileInv, DumpInv, LoadedInv
<1>10. CASE LoadRecord
  <2>1. FileOK' /\ ArenaInv' /\ LoadInv' /\ pc' = "load"
    BY <1>10, <1>1, LoadRecordStep DEF LoadRecord
  <2>. QED
    BY <2>1 DEF IInv, FileInv, DumpInv, LoadedInv
<1>11. CASE EndLoad
  <2>1. FileOK' /\ ArenaInv' /\ LoadedInv' /\ pc' = "loaded"
    BY <1>11, <1>1, EndLoadStep
  <2>. QED
    BY <2>1 DEF IInv, FileInv, DumpInv, LoadInv
<1>12. CASE LoadFails
  <2>1. file' = file /\ saved' = saved /\ pc' = "torn" /\ memsize' = memsize
    BY <1>12 DEF LoadFails, mem
  <2>2. ArenaInv'
    BY <2>1, <1>1 DEF ArenaInv
  <2>. QED
    BY <2>1, <2>2, <1>2, Between
<1>13. CASE Resume
  <2>1. /\ file' = file /\ saved' = saved /\ pc = "loaded" /\ pc' = "run" /\ memsize' = memsize
        /\ heap' = heap /\ stkareabase' = stkareabase /\ stkareabase \in Live(heap)
    BY <1>13 DEF Resume, mem
  <2>2. ArenaInv'
    BY <2>1, <1>1 DEF ArenaInv
  <2>. QED
    BY <2>1, <2>2, <1>2, Between
<1>14. CASE UNCHANGED vars
  <2>1. /\ pc' = pc /\ memsize' = memsize /\ heap' = heap /\ stkareabase' = stkareabase
        /\ file' = file /\ saved' = saved /\ addr' = addr /\ startaddr' = startaddr /\ cnt' = cnt
        /\ nextaddr' = nextaddr /\ list' = list /\ read' = read
    BY <1>14 DEF vars, mem, dump, load
  <2>2. FileInv' /\ FileOK' = FileOK
    BY <2>1, <1>1 DEF FileInv, FileOK
  <2>3. ArenaInv'
    BY <2>1, <1>1 DEF ArenaInv
  <2>4. WsSize' = WsSize /\ Ended(startaddr)' = Ended(startaddr) /\ Arrays(heap)' = Arrays(heap)
    BY <2>1 DEF WsSize, HighestFree, Ended
  <2>5. DumpInv'
    BY <2>1, <2>2, <2>4, <1>1 DEF DumpInv
  <2>6. LoadInv'
    BY <2>1, <2>2, <1>1 DEF LoadInv
  <2>7. LoadedInv'
    BY <2>1, <1>1 DEF LoadedInv, Restored
  <2>. QED
    BY <2>2, <2>3, <2>5, <2>6, <2>7 DEF IInv
<1>. QED
  BY <1>3, <1>4, <1>5, <1>6, <1>7, <1>8, <1>9, <1>10, <1>11, <1>12, <1>13, <1>14 DEF Next

THEOREM WorkspaceInvariance == Spec => []IInv
<1>1. Init => IInv
  BY InitInv
<1>2. IInv /\ [Next]_vars => IInv'
  BY NextInv
<1>. QED
  BY <1>1, <1>2, PTL DEF Spec

(* The arena can be walked and its free blocks are merged, in the session    *)
(* and after every load, and the free list a load has built is that of the   *)
(* arena it has built (wsmanage.c:188-240).                                  *)
THEOREM LoadsInOrder == Spec => []InOrder
<1>1. IInv => InOrder
  <2>. SUFFICES ASSUME IInv PROVE Walkable /\ FreeListLinked
    BY DEF InOrder
  <2>1. Walkable
    <3>. SUFFICES ASSUME pc \in {"run", "dump", "loaded"}
                  PROVE  /\ {b + heap[b].size : b \in DOMAIN heap} = (DOMAIN heap \ {0}) \cup {memsize}
                         /\ 0 \in DOMAIN heap
                         /\ \A b \in FreeIn(heap) : b + heap[b].size \notin FreeIn(heap)
      BY DEF Walkable
    <3>1. Arena(heap, memsize) /\ memsize > 0
      BY DEF IInv, ArenaInv
    <3>2. /\ memsize \in Nat
          /\ \A b \in DOMAIN heap :
               /\ b \in Nat
               /\ heap[b].size \in Nat /\ heap[b].size > 0 /\ b + heap[b].size <= memsize
               /\ b + heap[b].size \in DOMAIN heap \cup {memsize}
               /\ b = 0 \/ \E c \in DOMAIN heap : c + heap[c].size = b
          /\ 0 \in DOMAIN heap /\ \E c \in DOMAIN heap : c + heap[c].size = memsize
      BY <3>1, TileFacts DEF Arena
    <3>3. \A b \in DOMAIN heap : b + heap[b].size # 0
      BY <3>2
    <3>4. memsize # 0
      BY <3>1, <3>2
    <3>5. {b + heap[b].size : b \in DOMAIN heap} = (DOMAIN heap \ {0}) \cup {memsize}
      BY <3>2, <3>3, <3>4
    <3>. QED
      BY <3>1, <3>2, <3>5 DEF Arena, Merged
  <2>2. FreeListLinked
    BY DEF IInv, LoadedInv, Lists, FreeListLinked
  <2>. QED
    BY <2>1, <2>2
<1>. QED
  BY <1>1, WorkspaceInvariance, PTL

(* A load of a workspace that does not begin with a free block gives back    *)
(* the arrays that were saved, with room above them, and only from a file    *)
(* that was written to its end, for every size of heap, of arrays and of the *)
(* stack (wsmanage.c:51-285).                                                *)
THEOREM LoadsRestore == Spec => []Restored
<1>1. IInv => Restored
  BY DEF IInv, LoadedInv, Restored
<1>. QED
  BY <1>1, WorkspaceInvariance, PTL
================================================================================
