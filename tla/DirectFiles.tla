---------------------------- MODULE DirectFiles -----------------------------
(***************************************************************************)
(* Direct access files (fileio.c): components kept in a record file, found *)
(* through an index file.  The index file is a header of four words (the   *)
(* count of components, the length of the record file, the free space in   *)
(* it, the kind of components) and for each component where it starts and  *)
(* how long it is.                                                         *)
(*                                                                         *)
(* An operation is a job: its host calls are steps of their own, so that   *)
(* the process may end, or the host refuse a write, between any two.  What *)
(* is then in the buffers of the streams may reach the files or not.       *)
(*                                                                         *)
(* A word stands for a character, a C int or a C long alike.  An array to  *)
(* be written is [kind, sh, els]: its elements are arrays when its kind is *)
(* atype, and else words (the characters of a phrase).                     *)
(***************************************************************************)
EXTENDS FileTable

CONSTANTS
  block_array(_),     \* the words of an array, and
  unblock_array(_, _), \* the array found in words at a place, with its end
  Records, Arrays0,   \* the records and the arrays written
  NumberLists,        \* the component numbers written together
  MaxWrites,          \* bound: components written and erased
  CompressOver,       \* the length above which the file is compressed: 10000
  File                \* the direct file looked at

VARIABLES
  job,                \* the write or erasure in progress
  down,               \* the process was ended in a job, or before its buffers were sent
  lost,               \* the components that this may have cost
  writes,             \* the components written and erased so far
  shown               \* history: File's components when the last job was done

dvars == <<table, io, job, down, lost, writes, shown>>

atype == 1
inttype == 3
phrasetype == 7
undeclared_type == 0
array_type == 1
record_type == 2
headersize == 4
indexpairsize == 2

Missing == <<>>     \* also the empty record: the docs say they are one

\* The words of the two files behind a port, as the port reads them.
Seen(i, s)    == Placed(i.disk[i.streams[s]], i.unsent[s])
Index(i, p)   == Seen(i, i.index[p])
Content(i, p) == Seen(i, i.ports[p])

\* The header, and the pair of a component, read from the words x of an index.
Header(x)   == [recordcnt |-> x[1], totallen |-> x[2], space_free |-> x[3], status |-> x[4]]
Words(h)    == <<h.recordcnt, h.totallen, h.space_free, h.status>>
Position(n) == headersize + n * indexpairsize
Pair(x, n)  == [recstart |-> x[Position(n) + 1], reclength |-> x[Position(n) + 2]]
Total(s) == FoldLeft(LAMBDA a, b : a + b, 0, s)

\* A call of writeblock in a job: "reads" are the streams read from before it.
WriteAt(reads, s, at, words, of) ==
  [reads |-> reads, s |-> s, at |-> at, words |-> words, of |-> of]
WriteHeader(i, p, h) == WriteAt({}, i.index[p], 0, Words(h), -1)
WritePair(i, p, n, start, len) ==
  WriteAt({}, i.index[p], Position(n), <<start, len>>, -1)

-----------------------------------------------------------------------------
(* readrec, on the words x of the index file and r of the record file *)

eof == "eof"
readrec(x, r, isarray, n) ==
  LET h == Header(x)  q == Pair(x, n) IN
  IF n >= h.recordcnt
  THEN \* the index describes one of the blocks that the record file consists of
       IF h.recordcnt > 0 /\ ~isarray
       THEN LET b    == Pair(x, n % h.recordcnt)
                from == (n \div h.recordcnt) * h.totallen + b.recstart
            IN  IF from + b.reclength > Len(r) /\ b.reclength > 0 THEN eof
                ELSE SubSeq(r, from + 1, from + b.reclength)
       ELSE eof
  ELSE IF q.reclength = 0 THEN Missing
  ELSE IF q.recstart + q.reclength > Len(r) THEN eof
  ELSE IF isarray THEN unblock_array(r, q.recstart).x
  ELSE SubSeq(r, q.recstart + 1, q.recstart + q.reclength)

\* The words that the program reads, or would when it has opened it, of the file
\* with this extension; a file that is not there or new has no words.
WordsOf(i, e) == LET f == i.dir[<<File, e>>] IN IF f = 0 THEN <<>> ELSE Received(i, Streams, f)
IndexOf(i, e) == LET w == WordsOf(i, e) IN IF w = <<>> THEN <<0, 0, 0, undeclared_type>> ELSE w

\* The components as they are read by an index and a file of records.
Reads(x, r, n) == readrec(x, r, Header(x).status = array_type, n)
Components(x, r) ==
  [kind |-> Header(x).status,
   recs |-> [k \in 1 .. Header(x).recordcnt |-> Reads(x, r, k - 1)]]

-----------------------------------------------------------------------------
(* writerec and eraserecord: the writes they make *)

Kind(isarray) == IF isarray THEN array_type ELSE record_type
Agrees(i, p, isarray) == Header(Index(i, p)).status \in {undeclared_type, Kind(isarray)}

\* Is the component written again in its place?
\* Mutant: whatever its new length.
AnyLength(x, isarray, n, value) == ~isarray /\ n < Header(x).recordcnt
InPlace(x, isarray, n, value) ==
  ~isarray /\ n < Header(x).recordcnt /\ Len(value) <= Pair(x, n).reclength

\* The space that the old value of the component gives back.
\* Mutant: a shorter value in its place gives back nothing.
FreedElsewhere(x, isarray, n, value) ==
  IF n >= Header(x).recordcnt \/ InPlace(x, isarray, n, value) THEN 0 ELSE Pair(x, n).reclength
Freed(x, isarray, n, value) ==
  IF n >= Header(x).recordcnt THEN 0
  ELSE IF InPlace(x, isarray, n, value) THEN Pair(x, n).reclength - Len(value)
  ELSE Pair(x, n).reclength

writerec(i, isarray, p, n, value) ==
  LET x   == Index(i, p)
      h   == Header(x)
      new == n >= h.recordcnt
      at  == IF InPlace(x, isarray, n, value) THEN Pair(x, n).recstart ELSE h.totallen
      gap == IF new THEN n - h.recordcnt ELSE 0
  IN  <<WriteAt({}, i.ports[p], at, value, n)>>
      \o [k \in 1 .. gap |-> WritePair(i, p, h.recordcnt + k - 1, h.totallen, 0)]
      \o <<WritePair(i, p, n, at, Len(value)),
           WriteHeader(i, p,
             [recordcnt  |-> IF new THEN n + 1 ELSE h.recordcnt,
              totallen   |-> IF at = h.totallen THEN at + Len(value) ELSE h.totallen,
              space_free |-> h.space_free + Freed(x, isarray, n, value),
              status     |-> Kind(isarray)])>>

\* The last component in use before n, -1 when there is none.
\* Mutant: the components missing before the last one stay.
OneBefore(x, n)  == n - 1
LastBefore(x, n) == Max({k \in 0 .. n - 1 : Pair(x, k).reclength # 0} \cup {-1})

eraserecord(i, p, n) ==
  LET x == Index(i, p)
      q == Pair(x, n)
  IN  <<WritePair(i, p, n, q.recstart, 0),
        WriteHeader(i, p,
          [Header(x) EXCEPT !.space_free = @ + q.reclength,
                            !.recordcnt = IF n = @ - 1 THEN LastBefore(x, n) + 1 ELSE @])>>

-----------------------------------------------------------------------------
(* Jobs: iwrec writes the components of a list of numbers one by one, and   *)
(* each of them, as an erasure, ends in compressfile.                        *)

\* stage: "idle", "write", and those of compressfile: "copy", and while the
\* files are exchanged "noindex", "newindex", "norecords".
NoJob == [stage |-> "idle", port |-> 0, isarray |-> FALSE, calls |-> <<>>, parts |-> <<>>,
          numbers |-> {}, spare |-> <<0, 0>>]
Idle == job.stage = "idle" /\ ~down

\* The header is read, which sends what the index stream has in its buffer.
HeaderRead(i, p) == Flushed(i, {i.index[p]})

DirectPort(p) == Idle /\ ispopen(p) /\ isdirect(p)

Begin(p, isarray, calls, parts, numbers) ==
  /\ io' = HeaderRead(io, p)
  /\ job' = [NoJob EXCEPT !.stage = "write", !.port = p, !.isarray = isarray,
                          !.calls = calls, !.parts = parts, !.numbers = numbers]
  /\ writes' = writes + 1 + Len(parts) /\ writes' <= MaxWrites
  /\ UNCHANGED <<table, down, lost, shown>>

Numbers   == UNION {Range(ns) : ns \in NumberLists}
Values(isarray) == IF isarray THEN Arrays0 ELSE Records
ValueLists(isarray, k) == IF k = 1 THEN {<<v>> : v \in Values(isarray)}
                          ELSE Values(isarray) \X Values(isarray)

Write(isarray, p) ==
  /\ DirectPort(p) /\ Agrees(io, p, isarray)
  /\ \E ns \in NumberLists : \E vs \in ValueLists(isarray, Len(ns)) :
       LET Part(k) == [n |-> ns[k], words |-> IF isarray THEN block_array(vs[k]) ELSE vs[k]]
       IN  Begin(p, isarray, writerec(io, isarray, p, ns[1], Part(1).words),
                 [k \in 1 .. Len(ns) - 1 |-> Part(k + 1)], Range(ns))

ieraserecord(p, n) ==
  /\ DirectPort(p) /\ n < Header(Index(io, p)).recordcnt
  /\ Begin(p, FALSE, eraserecord(io, p, n), <<>>, {n})

\* The next component of the list, or the end of the job, from i on.
PartEnds(i) ==
  LET p == job.port
      c == Head(job.parts)
      j == HeaderRead(i, p)
  IN  IF job.parts = <<>>
      THEN io' = i /\ job' = NoJob /\ shown' = Components(IndexOf(i, "ndx"), WordsOf(i, "rec"))
      ELSE /\ io' = j /\ UNCHANGED shown
           /\ job' = [job EXCEPT !.stage = "write", !.parts = Tail(job.parts),
                                 !.spare = <<0, 0>>,
                                 !.calls = writerec(j, job.isarray, p, c.n, c.words)]

HostWrite ==
  /\ job.stage \in {"write", "copy"} /\ job.calls # <<>>
  /\ LET c == Head(job.calls)
     IN  io' = writeblock(Flushed(io, c.reads), c.s, c.at, c.words, c.of)
  /\ job' = [job EXCEPT !.calls = Tail(job.calls)]
  /\ UNCHANGED <<table, down, lost, writes, shown>>

-----------------------------------------------------------------------------
(* compressfile: the components in order in new files, which take the place  *)
(* of the old ones.                                                          *)

Wasteful(h) == h.totallen > CompressOver /\ 2 * h.space_free > h.totallen

Path(e) == <<filenames[job.port], e>>

\* The index is written from the old one with the places moved together.
Copied(i, p, newndx, newrec) ==
  LET x        == Index(i, p)
      h        == Header(x)
      pairs    == [n \in 1 .. h.recordcnt |-> Pair(x, n - 1)]
      start(n) == Total([k \in 1 .. n - 1 |-> pairs[k].reclength])
      Copy(n)  ==
        LET q    == pairs[n]
            data == SubSeq(Content(i, p), q.recstart + 1, q.recstart + q.reclength)
            pair == WriteAt({}, newndx, Position(n - 1), <<start(n), q.reclength>>, -1)
        IN  IF q.reclength = 0 THEN <<pair>>
            ELSE <<WriteAt({i.ports[p]}, newrec, start(n), data, n - 1), pair>>
  IN  <<WriteAt({}, newndx, 0, Words(h), -1)>>
      \o FlattenSeq([n \in 1 .. h.recordcnt |-> Copy(n)])
      \o <<WriteAt({}, newndx, 0, Words([h EXCEPT !.totallen = start(h.recordcnt + 1),
                                                  !.space_free = 0]), -1)>>

\* The host may refuse either new file: then the first one, if opened, stays
\* open, and nothing is compressed.
compressfile ==
  /\ job.stage = "write" /\ job.calls = <<>>
  /\ LET p   == job.port
         i   == HeaderRead(io, p)
         ndx == NewStream(i)
         i1  == opendirect(i, Path("tdx"))
         rec == NewStream(i1)
         i2  == opendirect(i1, Path("trc"))
     IN  \/ PartEnds(i)
         \/ /\ Wasteful(Header(Index(i, p))) /\ CanOpen(i, Path("tdx"))
            /\ \/ PartEnds(i1)
               \/ /\ CanOpen(i1, Path("trc"))
                  /\ io' = i2
                  /\ job' = [job EXCEPT !.stage = "copy", !.spare = <<ndx, rec>>,
                                        !.calls = Copied(i2, p, ndx, rec)]
                  /\ UNCHANGED shown
  /\ UNCHANGED <<table, down, lost, writes>>

\* A read or a write of the copying fails: the new files are given up, and the
\* operation goes on as if it were done.
CopyFails ==
  /\ job.stage = "copy" /\ job.calls # <<>>
  /\ PartEnds(CloseAll([io EXCEPT !.dir[Path("tdx")] = 0, !.dir[Path("trc")] = 0],
                       Range(job.spare)))
  /\ UNCHANGED <<table, down, lost, writes>>

\* An old file and the new one in its place are closed, and the old one goes.
Unlinked(s, new, path) ==
  LET i == CloseAll(io, {s, new}) IN Swept([i EXCEPT !.dir[path] = 0])
\* The new file takes its name, and is opened again.
Renamed(new, path) ==
  opendirect([io EXCEPT !.dir[path] = io.dir[new], !.dir[new] = 0], path)

UnlinkIndex ==
  /\ job.stage = "copy" /\ job.calls = <<>>
  /\ io' = Unlinked(io.index[job.port], job.spare[1], Path("ndx"))
  /\ job' = [job EXCEPT !.stage = "noindex"]
  /\ UNCHANGED <<table, down, lost, writes, shown>>

RenameIndex ==
  /\ job.stage = "noindex"
  /\ io' = [Renamed(Path("tdx"), Path("ndx")) EXCEPT !.index[job.port] = NewStream(io)]
  /\ job' = [job EXCEPT !.stage = "newindex"]
  /\ UNCHANGED <<table, down, lost, writes, shown>>

UnlinkRecords ==
  /\ job.stage = "newindex"
  /\ io' = Unlinked(io.ports[job.port], job.spare[2], Path("rec"))
  /\ job' = [job EXCEPT !.stage = "norecords"]
  /\ UNCHANGED <<table, down, lost, writes, shown>>

RenameRecords ==
  /\ job.stage = "norecords"
  /\ PartEnds([Renamed(Path("trc"), Path("rec")) EXCEPT !.ports[job.port] = NewStream(io)])
  /\ UNCHANGED <<table, down, lost, writes>>

-----------------------------------------------------------------------------
(* The process ends, or a write that the host refuses ends the job, as a    *)
(* jump to the top level.  Of what each stream has in its buffer nothing has *)
(* come to the file, or all, or of a component a first part.  Nothing is     *)
(* followed after that.                                                      *)

Sending == {s \in Streams : io.unsent[s] # NoWrite}
Landings(b) ==
  {[b EXCEPT !.words = SubSeq(@, 1, k)] :
     k \in IF b.of = -1 THEN {0, Len(b.words)} ELSE 0 .. Len(b.words)}

Cut ==
  /\ ~down /\ (job.stage # "idle" \/ Sending # {})
  /\ down' = TRUE /\ job' = NoJob
  /\ lost' = job.numbers \cup ({io.unsent[s].of : s \in Sending} \ {-1})
  /\ \E landed \in [Sending -> UNION {Landings(io.unsent[s]) : s \in Sending}] :
       /\ \A s \in Sending : landed[s] \in Landings(io.unsent[s])
       /\ Restarted([io EXCEPT !.unsent = landed @@ @])
  /\ UNCHANGED <<writes, shown>>

AfterCut == down /\ UNCHANGED dvars

Init == TableInit /\ job = NoJob /\ down = FALSE /\ lost = {} /\ writes = 0
        /\ shown = [kind |-> undeclared_type, recs |-> <<>>]

Next ==
  \/ Idle /\ TableNext /\ UNCHANGED <<job, down, lost, writes, shown>>
  \/ \E p \in Slots : Write(TRUE, p) \/ Write(FALSE, p)
  \/ \E p \in Slots, n \in Numbers : ieraserecord(p, n)
  \/ HostWrite \/ compressfile \/ CopyFails
  \/ UnlinkIndex \/ RenameIndex \/ UnlinkRecords \/ RenameRecords
  \/ Cut \/ AfterCut

Spec == Init /\ [][Next]_dvars

-----------------------------------------------------------------------------
\* A direct file is the list of components RecordFile describes, through gaps,
\* records rewritten in place or at the end, erasures, compressions and those that
\* fail (writerec, eraserecord, compressfile), until an operation is cut short.
Abstract == INSTANCE RecordFile WITH
  kind <- IF down THEN 0 ELSE shown.kind,
  recs <- IF down THEN <<>> ELSE shown.recs,
  lost <- down
ImplementsRecordFile == Abstract!RSpec

\* Between jobs the program reads what the last one left, whoever has opened or
\* closed the file since; the places of the components do not overlap and lie in the
\* record file, whose length and free space the header states: so writerec may use the
\* end of the file and compressfile may trust the sums.
Extents ==
  Idle =>
    LET x == IndexOf(io, "ndx")
        r == WordsOf(io, "rec")
        h == Header(x)
        Places(k) == Pair(x, k - 1).recstart + 1 ..
                       Pair(x, k - 1).recstart + Pair(x, k - 1).reclength
    IN  /\ Components(x, r) = shown
        /\ h.totallen = Len(r)
        /\ h.space_free + Total([k \in 1 .. h.recordcnt |-> Pair(x, k - 1).reclength])
             = h.totallen
        /\ \A k \in 1 .. h.recordcnt :
             /\ Places(k) \subseteq 1 .. h.totallen
             /\ \A j \in 1 .. k - 1 : Places(j) \cap Places(k) = {}

\* Every port in use owns its streams alone, also after compressfile has opened
\* others for it; while it exchanges them, nothing else runs.
Exchanging == job.stage \in {"noindex", "newindex", "norecords"}
PortsOwned == job.stage \notin {"noindex", "norecords"} => OneOwner

\* The end of the process or a refused write, at any point and with any part of the
\* buffers sent, costs no component but those of the job, and one whose words were still
\* in a buffer: that is the last one written, as nothing sends a record before
\* the index leads to it.  While compressfile exchanges the files the components are
\* whole in the new index and the new record file, under whatever names these have then;
\* one of them may be the last copied one, whose words were still in a buffer.
NewIndex == IF io.dir[<<File, "tdx">>] # 0 THEN "tdx" ELSE "ndx"
OthersKept ==
  [][down' # down =>
       LET x == IndexOf(io', IF Exchanging THEN NewIndex ELSE "ndx")
           r == WordsOf(io', IF Exchanging THEN "trc" ELSE "rec")
       IN  \A n \in Numbers \ lost' :
             n < Len(shown.recs) /\ shown.recs[n + 1] # Missing =>
               n < Header(x).recordcnt /\ Reads(x, r, n) = shown.recs[n + 1]]_dvars
=============================================================================
