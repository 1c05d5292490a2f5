------------------------------- MODULE Streams ------------------------------
(***************************************************************************)
(* The byte streams of the extension SPROCESS (nstreams.c).  A stream is a *)
(* chain of buffers that is read at its first and written at its last one, *)
(* with an optional descriptor of the host: an operation that fills or     *)
(* empties the chain through it waits in select, and other processes run   *)
(* and signals come meanwhile.                                             *)
(*                                                                         *)
(* A cell of a buffer is a byte of text or a whole word of an encoded      *)
(* array: the host hands over any number of cells, so an array arrives in  *)
(* parts, but a word does not.                                             *)
(***************************************************************************)
EXTENDS Integers, Sequences, FiniteSets, FiniteSetsExt, SequencesExt

CONSTANTS
  BuffSize,     \* SP_BUFFSIZE, in cells
  MaxStreams,   \* MAX_STREAMS
  MaxBuffers,   \* buffers malloc can give
  MaxFds,       \* descriptors the host lets the session have, numbered from 0
  MaxQueues,    \* queues (pipes, or one direction of a socket) in the host
  Capacity,     \* cells the host keeps in a queue
  Texts,        \* the character lists that are written
  Arrays,       \* the arrays that are encoded: [kind, shape, items]
  MaxParts,     \* bound: the arrays in one, at any depth and itself too
  Programs      \* what the Nial program does: [ops, max], the operations it
                \* calls and how many

ASSUME StreamsAssumption ==
  /\ BuffSize \in Nat \ {0} /\ Capacity >= BuffSize
  /\ MaxStreams \in Nat /\ MaxQueues \in Nat

VARIABLES
  pool,      \* the buffers, sp_freelist, and how many malloc has given
  streams,   \* nio_streams
  queues,    \* the cells in each queue of the host
  fds,       \* the end of the host behind each descriptor of the session
  held,      \* the ends that other processes hold
  call,      \* the operation in progress, for one that waits
  result,    \* what the last operation gave
  sent,      \* history: the arrays on their way through each queue
  mixed,     \* history: the queues that had other data, or an array cut short
  program, calls

host  == <<queues, fds, held>>
traced == <<sent, mixed>>
svars == <<pool, streams, host, call, result, traced, program, calls>>

NIndex  == 0 .. MaxStreams - 1
Fds     == 0 .. MaxFds - 1
Queues  == 1 .. MaxQueues
newline == 0
IOS_NORMAL  == 0
IOS_EOF     == -1
IOS_NOLIMIT == -1
no_fd       == -1

-----------------------------------------------------------------------------
(* Buffers and chains.  A buffer has its d_start and the cells from there  *)
(* on: count is their number and d_end is where they end.  A stream's      *)
(* chain is never empty, so an empty one stands for NULL in nio_streams.   *)

NoStream == [fd |-> no_fd, status |-> IOS_NORMAL, count |-> 0, chain |-> <<>>]
VALID_STREAM(s) == s \in NIndex /\ streams[s].chain # <<>>

d_end(b) == b.start + Len(b.data)
Blank    == [start |-> 0, data |-> <<>>]

NoMemory(p) == p.free = <<>> /\ p.made = MaxBuffers
\* The address createBuffer gives, and the pool without it.
NewBuffer(p) == IF p.free # <<>> THEN Head(p.free) ELSE p.made + 1
CreateUncleared(p) ==
  [p EXCEPT !.free = IF @ # <<>> THEN Tail(@) ELSE @,
            !.made = IF p.free # <<>> THEN @ ELSE @ + 1]
createBuffer(p) ==
  [buff |-> [p.buff EXCEPT ![NewBuffer(p)] = Blank],
   free |-> IF p.free # <<>> THEN Tail(p.free) ELSE <<>>,
   made |-> IF p.free # <<>> THEN p.made ELSE p.made + 1]
freeBuffer(p, b) == [p EXCEPT !.free = <<b>> \o @]
freeBuffers(p, chain) == [p EXCEPT !.free = Reverse(chain) \o @]

packBuffer(b) == [b EXCEPT !.start = 0]

\* m is a pool with one stream's chain and count; the cells are put there one
\* by one, as far as there is memory.
appendChars(m, cells) ==
  LET Put(n, cell) ==
        LET last == Last(n.chain)
            b    == packBuffer(n.pool.buff[last])
            next == NewBuffer(n.pool)
        IN  CASE n.failed -> n
              [] ~n.failed /\ Len(b.data) < BuffSize ->
                   [n EXCEPT !.pool.buff[last] = [b EXCEPT !.data = Append(@, cell)],
                             !.count = @ + 1]
              [] ~n.failed /\ Len(b.data) = BuffSize /\ NoMemory(n.pool) -> [n EXCEPT !.failed = TRUE]
              [] OTHER ->
                   [n EXCEPT !.pool = [createBuffer(n.pool) EXCEPT !.buff[next].data = <<cell>>],
                             !.chain = Append(@, next), !.count = @ + 1]
  IN  FoldLeft(Put, m, cells)

\* The cells of the first k buffers of the chain of m.
Upto(m, k) == FlattenSeq([i \in 1 .. k |-> m.pool.buff[m.chain[i]].data])
Advanced(b, n) == [start |-> b.start + n, data |-> SubSeq(b.data, n + 1, Len(b.data))]

\* The first n cells are taken, and the buffers before the one with the last of
\* them are given up; got is what was taken.
nio_getchars(m, n) ==
  IF n = 0 THEN m ELSE
  LET k    == Min({j \in 1 .. Len(m.chain) : Len(Upto(m, j)) >= n})
      gone == SubSeq(m.chain, 1, k - 1)
      emptied == [b \in DOMAIN m.pool.buff |->
                    LET whole == m.pool.buff[b] IN
                    IF b \in Range(gone) THEN Advanced(whole, Len(whole.data))
                    ELSE IF b = m.chain[k] THEN Advanced(whole, n - Len(Upto(m, k - 1)))
                    ELSE whole]
  IN  [m EXCEPT !.pool = freeBuffers([@ EXCEPT !.buff = emptied], gone),
                !.chain = SubSeq(@, k, Len(@)), !.count = @ - n,
                !.got = SubSeq(Upto(m, k), 1, n)]

Opened(s)  == [pool |-> pool, chain |-> streams[s].chain, count |-> streams[s].count,
               failed |-> FALSE, got |-> <<>>]
Stored(s, m) == [streams EXCEPT ![s].chain = m.chain, ![s].count = m.count]
Contents(s) == FlattenSeq([i \in 1 .. Len(streams[s].chain) |->
                             pool.buff[streams[s].chain[i]].data])

\* The cells up to the first end of line, 0 when there is none.
findLine(cells) ==
  IF \E i \in 1 .. Len(cells) : cells[i] = newline
  THEN Min({i \in 1 .. Len(cells) : cells[i] = newline}) ELSE 0

-----------------------------------------------------------------------------
(* The host.  An end is read from the queue in and written to the queue    *)
(* out, 0 when it cannot be; a descriptor without one is not open.         *)

NoEnd   == [in |-> 0, out |-> 0]
Ends    == Range(fds) \cup held
Writers(q) == {e \in Ends : e.out = q}
Readers(q) == {e \in Ends : e.in = q}
IsOpen(fd) == fd \in Fds /\ fds[fd] # NoEnd
\* With the descriptors f of the session: those that are free, and the
\* queues nobody has.  The host gives the lowest.
Unused(f) == {d \in Fds : f[d] = NoEnd}
Has(f, h, q) == \E e \in Range(f) \cup h : e.in = q \/ e.out = q
Idle(f)   == {q \in Queues : ~Has(f, held, q)}
Rest(S)   == S \ {Min(S)}
Lowest(S, k) == CASE k = 1 -> Min(S) [] k = 2 -> Min(Rest(S))
                  [] k = 3 -> Min(Rest(Rest(S))) [] k = 4 -> Min(Rest(Rest(Rest(S))))
\* The queues when the ends left are those of f and h.
Swept(f, h) == [q \in Queues |-> IF Has(f, h, q) THEN queues[q] ELSE <<>>]

\* What select says of a descriptor that is open; a pipe is ready for
\* writing when a whole buffer fits.
Readable(fd)  == LET q == fds[fd].in IN q # 0 /\ (queues[q] # <<>> \/ Writers(q) = {})
AtEnd(fd)     == LET q == fds[fd].in IN q # 0 /\ queues[q] = <<>> /\ Writers(q) = {}
Writeable(fd) == LET q == fds[fd].out IN
                 q # 0 /\ (Readers(q) = {} \/ Len(queues[q]) + BuffSize <= Capacity)

-----------------------------------------------------------------------------
(* The encoding of arrays *)

atype == 1
phrasetype == 7
IsToken(k) == k = phrasetype
\* The types of arrays when there are no complex numbers.
Kinds == {1, 2, 3, 4, 6, 7, 8}

\* One turn writes the first array of a list up to its items, and puts these,
\* when they are arrays, in front of the rest.
BlockFirst(w) ==
  LET x == Head(w.todo)
      cells == <<x.kind, Len(x.shape), Len(x.items)>> \o x.shape
  IN  IF w.todo = <<>> THEN w
      ELSE IF x.kind = atype THEN [cells |-> w.cells \o cells, todo |-> x.items \o Tail(w.todo)]
      ELSE [cells |-> w.cells \o cells \o <<Len(x.items)>> \o x.items, todo |-> Tail(w.todo)]
block_array(x) ==
  LET blocked[n \in 0 .. MaxParts] ==
        IF n = 0 THEN [cells |-> <<>>, todo |-> <<x>>] ELSE BlockFirst(blocked[n - 1])
  IN  blocked[MaxParts].cells

\* The arrays that unblock_array is in the middle of, the outermost first;
\* next is what it reads next, of the size Need.
Fresh == [next |-> "kind", kind |-> 0, v |-> 0, t |-> 0, n |-> 0, shape |-> <<>>, items |-> <<>>]
Need(f) == CASE f.next = "shape" -> f.v [] f.next = "data" -> f.n [] OTHER -> 1
AfterShape(f) == [f EXCEPT !.next = IF f.kind = atype THEN "items" ELSE "size"]
FieldSwapped(f, got) ==
  CASE f.next = "kind" -> [f EXCEPT !.next = "tally", !.kind = got[1]]
    [] f.next = "tally" -> [f EXCEPT !.next = "valence", !.t = got[1]]
    [] f.next = "valence" -> IF got[1] > 0 THEN [f EXCEPT !.next = "shape", !.v = got[1]]
                             ELSE AfterShape([f EXCEPT !.v = got[1]])
    [] f.next = "shape" -> AfterShape([f EXCEPT !.shape = got])
    [] f.next = "size" -> [f EXCEPT !.next = "data", !.n = got[1]]
    [] f.next = "data" -> [f EXCEPT !.next = "done", !.items = got]
Field(f, got) ==
  CASE f.next = "kind" -> [f EXCEPT !.next = "valence", !.kind = got[1]]
    [] f.next = "valence" -> [f EXCEPT !.next = "tally", !.v = got[1]]
    [] f.next = "tally" -> IF f.v > 0 THEN [f EXCEPT !.next = "shape", !.t = got[1]]
                           ELSE AfterShape([f EXCEPT !.t = got[1]])
    [] f.next = "shape" -> AfterShape([f EXCEPT !.shape = got])
    [] f.next = "size" -> [f EXCEPT !.next = "data", !.n = got[1]]
    [] f.next = "data" -> [f EXCEPT !.next = "done", !.items = got]
\* What is read is no encoding: the header asks for an array there cannot be.
Nonsense(f) ==
  \/ f.next # "kind" /\ f.kind \notin Kinds
  \/ f.next \in {"size", "items"} /\ ~IsToken(f.kind) /\ FoldLeft(LAMBDA a, b : a * b, 1, f.shape) # f.t

Whole(f) == f.next = "done" \/ (f.next = "items" /\ Len(f.items) = f.t)
AsArray(f) == [kind |-> f.kind, shape |-> f.shape, items |-> f.items]
\* Finished arrays become items of the ones around them; an unfinished list
\* goes on with its next item.
Settled(frames) ==
  LET Closed(fs, f) ==
        IF Whole(Last(fs)) /\ Len(fs) > 1
        THEN [Front(fs) EXCEPT ![Len(fs) - 1].items = Append(@, AsArray(Last(fs)))]
        ELSE fs
      left == FoldLeft(Closed, frames, frames)
  IN  IF Last(left).next = "items" /\ ~Whole(Last(left)) THEN Append(left, Fresh) ELSE left

-----------------------------------------------------------------------------
(* The operations *)

NoCall  == [op |-> "none", st |-> 0, limit |-> 0, forever |-> FALSE, frames |-> <<>>, moved |-> 0]
NoValue == [op |-> "none", st |-> 0, cells |-> <<>>, number |-> 0, missing |-> FALSE]
Fault(op, s)     == [NoValue EXCEPT !.op = op, !.st = s, !.missing = TRUE]
Number(op, s, n) == [NoValue EXCEPT !.op = op, !.st = s, !.number = n]
Cells(op, s, c)  == [NoValue EXCEPT !.op = op, !.st = s, !.cells = c, !.missing = c = <<>>]

Called(op) ==
  /\ call.op = "none" /\ calls < program.max /\ op \in program.ops
  /\ calls' = calls + 1 /\ UNCHANGED program
Goes   == UNCHANGED <<calls, program>>
Begins(op, s, limit, forever) ==
  /\ Called(op)
  /\ call' = [NoCall EXCEPT !.op = op, !.st = s, !.limit = limit, !.forever = forever]
  /\ UNCHANGED <<pool, streams, host, result, traced>>
Gives(r) == call' = NoCall /\ result' = r

\* The queues the descriptor of a stream leads to.
Touched(s) == IF IsOpen(streams[s].fd)
              THEN {fds[streams[s].fd].in, fds[streams[s].fd].out} \ {0} ELSE {}
Mixes(s) == mixed' = mixed \cup Touched(s) /\ UNCHANGED sent

\* The table with the stream s gone, its descriptor closed.
Shut(f, fd) == IF fd \in Fds THEN [f EXCEPT ![fd] = NoEnd] ELSE f
nio_freeStream(t, s) ==
  IF s \in NIndex /\ t.streams[s].chain # <<>>
  THEN [pool |-> freeBuffers(t.pool, t.streams[s].chain),
        streams |-> [t.streams EXCEPT ![s] = NoStream],
        fds |-> Shut(t.fds, t.streams[s].fd)]
  ELSE t
\* made is the index of the new stream, -1 when there is none.
nio_createStream(t) ==
  LET free == {s \in NIndex : t.streams[s].chain = <<>>} IN
  IF NoMemory(t.pool) THEN [made |-> -1, table |-> t]
  ELSE IF free = {} THEN [made |-> -1, table |-> [t EXCEPT !.pool = createBuffer(@)]]
  ELSE [made |-> Min(free),
        table |-> [t EXCEPT !.pool = createBuffer(@),
                            !.streams[Min(free)] = [NoStream EXCEPT !.chain = <<NewBuffer(t.pool)>>]]]
Table == [pool |-> pool, streams |-> streams, fds |-> fds]
\* The table becomes t; a closed end may take what was in its queue along.
Becomes(t) ==
  /\ pool' = t.pool /\ streams' = t.streams /\ fds' = t.fds
  /\ queues' = Swept(t.fds, held) /\ UNCHANGED held

nio_open(fd) ==
  LET c == nio_createStream(Table) IN
  /\ Called("open")
  /\ pool' = c.table.pool
  /\ streams' = IF c.made = -1 THEN streams ELSE [c.table.streams EXCEPT ![c.made].fd = fd]
  /\ Gives(IF c.made = -1 THEN Fault("open", 0) ELSE Number("open", c.made, c.made))
  /\ UNCHANGED <<host, traced>>

nio_close(s) ==
  /\ Called("close")
  /\ Becomes(nio_freeStream(Table, s))
  /\ Gives(Number("close", s, 1))
  /\ IF VALID_STREAM(s) THEN Mixes(s) ELSE UNCHANGED traced

\* nio_write and nio_writeln tell nobody when there is no memory left.
nio_write(s, text) ==
  LET m == appendChars(Opened(s), text) IN
  /\ Called("write") /\ VALID_STREAM(s)
  /\ pool' = m.pool /\ streams' = Stored(s, m)
  /\ Gives(Number("write", s, Len(text)))
  /\ Mixes(s) /\ UNCHANGED host
nio_writeln(s, text) ==
  LET m == appendChars(appendChars(Opened(s), text), <<newline>>) IN
  /\ Called("write") /\ VALID_STREAM(s)
  /\ pool' = m.pool /\ streams' = Stored(s, m)
  /\ Gives(Number("write", s, Len(text) + 1))
  /\ Mixes(s) /\ UNCHANGED host

nio_block_array(s, x) ==
  LET m == appendChars(Opened(s), block_array(x)) IN
  /\ Called("block") /\ VALID_STREAM(s)
  /\ pool' = m.pool /\ streams' = Stored(s, m)
  /\ Gives(IF m.failed THEN Fault("block", s) ELSE Number("block", s, 1))
  /\ IF m.failed THEN Mixes(s)
     ELSE /\ sent' = [q \in Queues |-> IF q \in Touched(s) THEN Append(sent[q], x) ELSE sent[q]]
          /\ UNCHANGED mixed
  /\ UNCHANGED host

-----------------------------------------------------------------------------
(* poll_input: reads what there is until there is enough.  An operation    *)
(* that polls is one step for each read, and one in which the poll ends    *)
(* and the operation with it.                                              *)

Polling == {"readln", "read", "fill", "unblock"}
sp      == streams[call.st]

Satisfied ==
  \/ sp.fd = no_fd \/ sp.status = IOS_EOF
  \/ call.limit # IOS_NOLIMIT /\ sp.count >= call.limit
InSelect == /\ call.op \in Polling /\ ~Satisfied
            /\ IsOpen(sp.fd) /\ ~Readable(sp.fd)
            
Fetch ==
  /\ call.op \in Polling /\ ~Satisfied
  /\ IsOpen(sp.fd) /\ Readable(sp.fd) /\ ~AtEnd(sp.fd)
  /\ LET q   == fds[sp.fd].in
         nch == Min({BuffSize, Len(queues[q])})
         m   == appendChars(Opened(call.st), SubSeq(queues[q], 1, nch))
     IN  /\ queues' = [queues EXCEPT ![q] = SubSeq(@, nch + 1, Len(@))]
         /\ pool' = m.pool /\ streams' = Stored(call.st, m)
         /\ mixed' = IF m.failed THEN mixed \cup {q} ELSE mixed
  /\ Goes /\ UNCHANGED <<fds, held, call, result, sent>>

\* The statuses with which the poll may end now; a signal ends a select.
PollEnds(signal) ==
  IF Satisfied \/ ~IsOpen(sp.fd) THEN {sp.status}
  ELSE IF AtEnd(sp.fd) THEN {IOS_EOF}
  ELSE IF ~Readable(sp.fd) /\ (signal \/ ~call.forever) THEN {sp.status}
  ELSE {}

\* The poll ended with the status st and the operation takes n cells.
Takes(st, n) ==
  LET m == nio_getchars(Opened(call.st), n) IN
  /\ pool' = m.pool /\ streams' = [Stored(call.st, m) EXCEPT ![call.st].status = st]
Taken(n) == nio_getchars(Opened(call.st), n).got

ReadDone(signal) ==
  /\ call.op \in {"readln", "read", "fill"}
  /\ \E st \in PollEnds(signal) :
       LET n == CASE call.op = "readln" -> findLine(Contents(call.st))
                  [] call.op = "read" -> Min({call.limit, sp.count})
                  [] call.op = "fill" -> 0
       IN  /\ Takes(st, n)
           /\ Gives(IF call.op = "fill" THEN Number("fill", call.st, sp.count)
                    ELSE Cells(call.op, call.st, Taken(n)))
  /\ IF call.op = "fill" THEN UNCHANGED traced ELSE Mixes(call.st)
  /\ Goes /\ UNCHANGED host

Undefined == call' = [NoCall EXCEPT !.op = "undefined"] /\ UNCHANGED result

\* The next field of the array at hand is there.
UnblockField(signal) ==
  /\ call.op = "unblock" /\ sp.count >= call.limit
  /\ \E st \in PollEnds(signal) :
       LET frames == call.frames
           f  == Field(Last(frames), Taken(call.limit))
           fs == Settled([frames EXCEPT ![Len(frames)] = f])
       IN  /\ Takes(st, call.limit)
           /\ CASE Nonsense(f) -> Undefined /\ UNCHANGED traced
                [] ~Nonsense(f) /\ Len(fs) = 1 /\ Whole(fs[1]) ->
                     /\ Gives(Cells("unblock", call.st, block_array(AsArray(fs[1]))))
                     /\ sent' = [q \in Queues |-> IF q \in Touched(call.st) /\ sent[q] # <<>>
                                                 THEN Tail(sent[q]) ELSE sent[q]]
                     /\ UNCHANGED mixed
                [] OTHER -> /\ call' = [call EXCEPT !.frames = fs, !.limit = Need(Last(fs))]
                            /\ UNCHANGED <<result, traced>>
  /\ Goes /\ UNCHANGED host
\* It is not, and never will be; inside a list the missing item is stored.
UnblockCut(signal) ==
  /\ call.op = "unblock" /\ sp.count < call.limit
  /\ \E st \in PollEnds(signal) :
       /\ streams' = [streams EXCEPT ![call.st].status = IOS_EOF]
       /\ IF Len(call.frames) = 1 THEN Gives(Fault("unblock", call.st)) ELSE Undefined
  /\ Mixes(call.st) /\ Goes /\ UNCHANGED <<pool, host>>

nio_readln(s)      == VALID_STREAM(s) /\ Begins("readln", s, IOS_NOLIMIT, FALSE)
nio_read(s, n)     == VALID_STREAM(s) /\ Begins("read", s, n, FALSE)
nio_read_stream(s, climit, forever) == VALID_STREAM(s) /\ Begins("fill", s, climit, forever)
\* A stream that can write may have its own cells to send read back.
nio_unblock_array(s) ==
  /\ VALID_STREAM(s) /\ Called("unblock")
  /\ call' = [NoCall EXCEPT !.op = "unblock", !.st = s, !.limit = 1, !.forever = TRUE,
                            !.frames = <<Fresh>>]
  /\ IF IsOpen(streams[s].fd) /\ fds[streams[s].fd].out # 0 THEN Mixes(s) ELSE UNCHANGED traced
  /\ UNCHANGED <<pool, streams, host, result>>

-----------------------------------------------------------------------------
(* writeStream: one step for each buffer *)

nio_write_stream(s, forever) == VALID_STREAM(s) /\ Begins("flush", s, 0, forever)

WriteSome ==
  /\ call.op = "flush" /\ sp.count > 0
  /\ IsOpen(sp.fd) /\ Writeable(sp.fd)
  /\ LET q == fds[sp.fd].out
         b == pool.buff[sp.chain[1]]
         drained == [start |-> d_end(b), data |-> <<>>]
         p == [pool EXCEPT !.buff[sp.chain[1]] = drained]
     IN  /\ b.data # <<>>
         /\ IF Readers(q) = {}
            THEN \* SIGPIPE
                 /\ call' = [NoCall EXCEPT !.op = "dead"]
                 /\ UNCHANGED <<pool, streams, queues>>
            ELSE /\ queues' = [queues EXCEPT ![q] = @ \o b.data]
                 /\ pool' = IF Len(sp.chain) > 1 THEN freeBuffer(p, sp.chain[1]) ELSE p
                 /\ streams' = [streams EXCEPT
                       ![call.st].count = @ - Len(b.data),
                       ![call.st].chain = IF Len(@) > 1 THEN Tail(@) ELSE @]
                 /\ call' = [call EXCEPT !.moved = @ + Len(b.data)]
  /\ Goes /\ UNCHANGED <<fds, held, result, traced>>

WriteDone(signal) ==
  /\ call.op = "flush"
  /\ \/ /\ sp.fd = no_fd \/ sp.count = 0
        /\ Gives(Number("flush", call.st, call.moved)) /\ UNCHANGED streams
     \/ /\ sp.fd # no_fd /\ sp.count > 0 /\ ~IsOpen(sp.fd)
        /\ Gives(Fault("flush", call.st)) /\ UNCHANGED streams
     \/ /\ sp.count > 0 /\ IsOpen(sp.fd) /\ ~Writeable(sp.fd) /\ (signal \/ ~call.forever)
        /\ Gives(Number("flush", call.st, call.moved)) /\ UNCHANGED streams
     \/ \* a buffer that reading has emptied: write of nothing gives 0
        /\ sp.count > 0 /\ IsOpen(sp.fd) /\ Writeable(sp.fd)
        /\ pool.buff[sp.chain[1]].data = <<>>
        /\ Gives(Number("flush", call.st, call.moved))
        /\ streams' = [streams EXCEPT ![call.st].status = IOS_EOF]
  /\ Goes /\ UNCHANGED <<pool, host, traced>>

-----------------------------------------------------------------------------
(* nio_is_readable and nio_is_writeable; descriptors *)

IsReady(s, writing) ==
  LET fd == streams[s].fd IN
  /\ Called("ready") /\ VALID_STREAM(s)
  /\ streams' = IF fd # no_fd /\ ~IsOpen(fd) THEN [streams EXCEPT ![s].status = IOS_EOF] ELSE streams
  /\ Gives(Number("ready", s,
         CASE fd = no_fd -> IF writing \/ streams[s].count > 0 THEN 1 ELSE 0
           [] fd # no_fd /\ ~IsOpen(fd) -> -1
           [] OTHER -> IF (writing /\ Writeable(fd)) \/ (~writing /\ Readable(fd)) THEN 1 ELSE 0))
  /\ UNCHANGED <<pool, host, traced>>

\* Two descriptors on a pipe, or on the two ends of a socket pair.
Pipe(f) ==
  LET q == Lowest(Idle(f), 1)
  IN  [f EXCEPT ![Lowest(Unused(f), 1)] = [in |-> q, out |-> 0],
                ![Lowest(Unused(f), 2)] = [in |-> 0, out |-> q]]
PairOfSockets(f) ==
  LET q == Lowest(Idle(f), 1)
      r == Lowest(Idle(f), 2)
  IN  [f EXCEPT ![Lowest(Unused(f), 1)] = [in |-> q, out |-> r],
                ![Lowest(Unused(f), 2)] = [in |-> r, out |-> q]]
Room(f, d, q) == Cardinality(Unused(f)) >= d /\ Cardinality(Idle(f)) >= q
nio_newpipe ==
  /\ Called("pipe")
  /\ fds' = IF Room(fds, 2, 1) THEN Pipe(fds) ELSE fds
  /\ Gives(IF Room(fds, 2, 1) THEN Number("pipe", 0, Lowest(Unused(fds), 1)) ELSE Fault("pipe", 0))
  /\ sent' = [q \in Queues |-> IF Has(fds, held, q) THEN sent[q] ELSE <<>>]
  /\ mixed' = {q \in mixed : Has(fds, held, q)}
  /\ UNCHANGED <<pool, streams, queues, held>>
nio_socketpair ==
  /\ Called("pipe")
  /\ fds' = IF Room(fds, 2, 2) THEN PairOfSockets(fds) ELSE fds
  /\ Gives(IF Room(fds, 2, 2) THEN Number("pipe", 0, Lowest(Unused(fds), 1)) ELSE Fault("pipe", 0))
  /\ sent' = [q \in Queues |-> IF Has(fds, held, q) THEN sent[q] ELSE <<>>]
  /\ mixed' = {q \in mixed : Has(fds, held, q)}
  /\ UNCHANGED <<pool, streams, queues, held>>

nio_status(s) == IF streams[s].count > 0 THEN IOS_NORMAL ELSE streams[s].status

-----------------------------------------------------------------------------

\* A session with nothing open, or with a pipe and a stream at each end of
\* it: what channels are made of.
Linked == "channel" \in program.ops
SInit ==
  /\ program \in Programs /\ calls = 0
  /\ queues = [q \in Queues |-> <<>>] /\ held = {}
  /\ fds = LET none == [d \in Fds |-> NoEnd] IN
           IF Linked THEN [none EXCEPT ![0].in = 1, ![1].out = 1] ELSE none
  /\ streams = [s \in NIndex |-> IF Linked /\ s \in {0, 1}
                                THEN [NoStream EXCEPT !.fd = s, !.chain = <<s + 1>>] ELSE NoStream]
  /\ pool = [buff |-> [b \in 1 .. MaxBuffers |-> Blank], free |-> <<>>, made |-> IF Linked THEN 2 ELSE 0]
  /\ call = NoCall /\ result = NoValue
  /\ sent = [q \in Queues |-> <<>>] /\ mixed = {}

Waits == \/ Fetch \/ ReadDone(FALSE) \/ UnblockField(FALSE) \/ UnblockCut(FALSE)
         \/ WriteSome \/ WriteDone(FALSE)

StreamCalls ==
  \/ \E fd \in {no_fd} \cup Fds : nio_open(fd)
  \/ nio_newpipe \/ nio_socketpair
  \/ \E s \in NIndex :
       \/ nio_close(s) \/ nio_readln(s) \/ nio_unblock_array(s)
       \/ \E text \in Texts : nio_write(s, text) \/ nio_writeln(s, text)
       \/ \E x \in Arrays : nio_block_array(s, x)
       \/ \E n \in 1 .. BuffSize + 1 : nio_read(s, n)
       \/ \E n \in {IOS_NOLIMIT, BuffSize} : \E forever \in BOOLEAN : nio_read_stream(s, n, forever)
       \/ \E b \in BOOLEAN : nio_write_stream(s, b) \/ IsReady(s, b)

-----------------------------------------------------------------------------

Chains == UNION {Range(streams[s].chain) : s \in NIndex}

\* appendChars, nio_getchars, writeStream and createBuffer (nstreams.c:226-
\* 400, 587) keep the buffers apart: each malloc'd buffer is in one chain or
\* on sp_freelist, once; its data does not pass its end; a stream's count is
\* that of its buffers; and no buffer but the first is empty while others
\* have data, so that reading never frees the last one.
BuffersApart ==
  /\ \A b \in 1 .. MaxBuffers : d_end(pool.buff[b]) <= BuffSize
  /\ \A s, t \in NIndex : s # t => Range(streams[s].chain) \cap Range(streams[t].chain) = {}
  /\ \A s \in NIndex : IsInjective(streams[s].chain)
  /\ IsInjective(pool.free) /\ Range(pool.free) \cap Chains = {}
  /\ Range(pool.free) \cup Chains \subseteq 1 .. pool.made
  /\ \A s \in NIndex : streams[s].count = Len(Contents(s))
  /\ \A s \in NIndex : \A i \in 2 .. Len(streams[s].chain) :
       streams[s].count > 0 => pool.buff[streams[s].chain[i]].data # <<>>

Bytes == INSTANCE ByteStreams WITH
           Streams <- NIndex, Closed <- <<-1>>,
           bytes <- [s \in NIndex |-> IF streams[s].chain = <<>> THEN <<-1>> ELSE Contents(s)]

\* A stream is a queue of bytes, whatever is read, written, encoded, sent,
\* received, closed or cut short by a signal (no byte is negative).
ImplementsByteStreams == Bytes!BSpec

\* What nio_unblock_array gives is the array that was encoded next for the
\* queue it reads, though it arrives in parts (nstreams.c:1156), and never a
\* header that asks for more than follows, as long as nothing else went
\* through that queue and no array was cut.
ArraysCross ==
  [][\A q \in Queues :
       call.op = "unblock" /\ q \in Touched(call.st) /\ q \notin mixed'
       => /\ call'.op # "undefined"
          /\ result' # result /\ call'.op = "none" /\ ~result'.missing
             => sent[q] # <<>> /\ result'.cells = block_array(Head(sent[q]))]_svars
=============================================================================
