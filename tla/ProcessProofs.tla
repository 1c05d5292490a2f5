----------------------------- MODULE ProcessProofs ----------------------------
(***************************************************************************)
(* What the session is told of its children is true and is told once, for  *)
(* any number of children, entries, streams and statuses, in whatever      *)
(* order processes are started, end, are interrupted and are asked after.  *)
(*                                                                         *)
(* ReportsTrue is not inductive alone: an entry that has ended must have   *)
(* the status of its process (EntriesTrue), no two entries may have one    *)
(* process (EntriesApart), and between the fork of a child and the entry   *)
(* of its number, when its end may be handled already, the entry waits and *)
(* nobody else has the number (ForkAtHand).                                *)
(***************************************************************************)
EXTENDS Processes, FiniteSetTheorems, WellFoundedInduction, TLAPS

States   == {"none", "running", "zombie", "reaped"}
EndCodes == Codes \cup {NoCode, Signalled}

Entry == [status : {0, ACTIVE_CHILD, TERMINATED_CHILD}, child : Pids \cup {NoPid},
          code : EndCodes, unmanaged : BOOLEAN, rd : Int, wr : Int]

(* Of a process, only its state and code matter: the rest is as it may. *)
Process(r) ==
  r \in [state : States, code : EndCodes, ends : {r.ends}, stdin : {r.stdin},
         stdout : {r.stdout}, served : {r.served}, out : {r.out}]

TableType ==
  /\ children \in [NSlots -> Entry]
  /\ procs = [p \in Pids |-> procs[p]]
  /\ \A p \in Pids : Process(procs[p])
  /\ reported \in Seq([child : Pids, code : EndCodes])
  /\ "op" \in DOMAIN call

Names(i) == children[i].status # 0 /\ children[i].child # NoPid

EntriesTrue ==
  \A i \in NSlots :
    /\ Names(i) => procs[children[i].child].state # "none"
    /\ Ended(children[i]) => /\ children[i].child # NoPid
                             /\ procs[children[i].child].state = "reaped"
                             /\ procs[children[i].child].code = children[i].code

EntriesApart ==
  \A i, j \in NSlots : Names(i) /\ Names(j) /\ children[i].child = children[j].child => i = j

ForkAtHand ==
  call.op \in Spawns =>
    /\ call.slot \in NSlots /\ call.pid \in Pids /\ call.unmanaged \in BOOLEAN
    /\ children[call.slot].status = ACTIVE_CHILD /\ children[call.slot].child = NoPid
    /\ procs[call.pid].state # "none"
    /\ \A i \in NSlots : Names(i) => children[i].child # call.pid
    /\ \A n \in 1 .. Len(reported) : reported[n].child # call.pid

ProcInv == TableType /\ EntriesTrue /\ EntriesApart /\ ForkAtHand /\ ReportsTrue

-------------------------------------------------------------------------------
(* The least element of a set of numbers. *)
LEMMA LeastOf ==
  ASSUME NEW S \in SUBSET Nat, S # {}
  PROVE  Min(S) \in S
<1>1. IsWellFoundedOn(OpToRel(<, Nat), Nat)
  BY NatLessThanWellFounded
<1>2. \E x \in S : \A y \in S : ~ (<<y, x>> \in OpToRel(<, Nat))
  BY <1>1, WFMin
<1>3. \E x \in S : \A y \in S : ~ (y < x)
  BY <1>2 DEF OpToRel
<1>4. \E x \in S : \A y \in S : x <= y
  BY <1>3
<1>. QED
  BY <1>4 DEF Min

LEMMA SlotsAreNumbers == NSlots \in SUBSET Nat /\ NIndex \in SUBSET Nat
BY ProcessesAssumption, StreamsAssumption DEF NSlots, NIndex

LEMMA PidsAreNumbers == Pids \in SUBSET Nat /\ NoPid \notin Pids
BY ProcessesAssumption DEF NoPid

(* A stream that is made has an index. *)
LEMMA StreamMade ==
  ASSUME NEW t
  PROVE  nio_createStream(t).made \in Int
<1>. DEFINE free == {s \in NIndex : t.streams[s].chain = <<>>}
<1>1. free \in SUBSET Nat
  BY SlotsAreNumbers
<1>2. free # {} => Min(free) \in Int
  BY <1>1, LeastOf
<1>3. CASE NoMemory(t.pool)
  BY <1>3 DEF nio_createStream
<1>4. CASE ~NoMemory(t.pool) /\ free = {}
  BY <1>4 DEF nio_createStream
<1>5. CASE ~NoMemory(t.pool) /\ free # {}
  <2>1. nio_createStream(t).made = Min(free)
    BY <1>5 DEF nio_createStream
  <2>. QED
    BY <2>1, <1>2, <1>5
<1>. QED
  BY <1>3, <1>4, <1>5

LEMMA EntryChanged ==
  ASSUME NEW c \in Entry
  PROVE  /\ \A v \in {0, ACTIVE_CHILD, TERMINATED_CHILD} :
              [c EXCEPT !.status = v] \in Entry /\ [c EXCEPT !.status = v].status = v
              /\ [c EXCEPT !.status = v].child = c.child
         /\ \A v \in Int : [c EXCEPT !.rd = v] \in Entry /\ [c EXCEPT !.rd = v].status = c.status
                           /\ [c EXCEPT !.rd = v].child = c.child
         /\ \A v \in Int : [c EXCEPT !.wr = v] \in Entry /\ [c EXCEPT !.wr = v].status = c.status
                           /\ [c EXCEPT !.wr = v].child = c.child
BY DEF Entry

LEMMA NewEntries ==
  /\ NoChild \in Entry /\ NoChild.status = 0 /\ NoChild.child = NoPid
  /\ \A rd, wr \in Int :
       LET c == [NoChild EXCEPT !.status = ACTIVE_CHILD, !.rd = rd, !.wr = wr]
       IN  c \in Entry /\ c.status = ACTIVE_CHILD /\ c.child = NoPid
<1>1. NoChild \in Entry /\ NoChild.status = 0 /\ NoChild.child = NoPid
  BY DEF Entry, EndCodes, NoChild, NoPid
<1>2. ASSUME NEW rd \in Int, NEW wr \in Int
      PROVE  LET c == [NoChild EXCEPT !.status = ACTIVE_CHILD, !.rd = rd, !.wr = wr]
             IN  c \in Entry /\ c.status = ACTIVE_CHILD /\ c.child = NoPid
  <2>. DEFINE a == [NoChild EXCEPT !.status = ACTIVE_CHILD]
              b == [a EXCEPT !.rd = rd]
              c == [b EXCEPT !.wr = wr]
  <2>1. a \in Entry /\ a.status = ACTIVE_CHILD /\ a.child = NoPid
    BY <1>1, EntryChanged
  <2>. HIDE DEF a
  <2>2. b \in Entry /\ b.status = ACTIVE_CHILD /\ b.child = NoPid
    BY <2>1, EntryChanged
  <2>. HIDE DEF b
  <2>3. c \in Entry /\ c.status = ACTIVE_CHILD /\ c.child = NoPid
    BY <2>2, EntryChanged
  <2>. QED
    BY <2>3 DEF a, b
<1>. QED
  BY <1>1, <1>2

(* The table d is c with some entries given up or given to a child without *)
(* a number.                                                               *)
Reassigned(c, d) ==
  /\ d \in [NSlots -> Entry]
  /\ \A j \in NSlots : d[j] = c[j] \/ (d[j].child = NoPid /\ d[j].status # TERMINATED_CHILD)

(* Looking for an entry changes at most one, which is then that of a child *)
(* without a number.                                                       *)
LEMMA EntryAssigned ==
  ASSUME children \in [NSlots -> Entry]
  PROVE  /\ Reassigned(children, assignChild.children)
         /\ assignChild.slot # -1 =>
              /\ assignChild.slot \in NSlots
              /\ assignChild.children[assignChild.slot].status = ACTIVE_CHILD
              /\ assignChild.children[assignChild.slot].child = NoPid
<1>1. CASE Assignable = {}
  <2>1. assignChild = NotAssigned(Table, children)
    BY <1>1 DEF assignChild
  <2>. QED
    BY <2>1 DEF NotAssigned, Reassigned
<1>2. CASE Assignable # {}
  <2>. DEFINE i  == Min(Assignable)
              t  == IF children[i].status # 0 THEN releaseChild(Table, children[i]) ELSE Table
              rd == nio_createStream(t)
              wr == nio_createStream(rd.table)
              entry == [NoChild EXCEPT !.status = ACTIVE_CHILD, !.rd = rd.made, !.wr = wr.made]
              left == nio_freeStream(nio_freeStream(wr.table, rd.made), wr.made)
  <2>1. i \in Assignable
    BY <1>2, LeastOf, SlotsAreNumbers DEF Assignable
  <2>2. i \in NSlots
    BY <2>1 DEF Assignable
  <2>3. rd.made \in Int /\ wr.made \in Int
    BY StreamMade
  <2>4. assignChild = IF rd.made = -1 \/ wr.made = -1
                      THEN NotAssigned(left, [children EXCEPT ![i] = NoChild])
                      ELSE [slot |-> i, table |-> wr.table,
                            children |-> [children EXCEPT ![i] = entry]]
    BY <1>2 DEF assignChild
  <2>5. entry \in Entry /\ entry.status = ACTIVE_CHILD /\ entry.child = NoPid
    BY <2>3, NewEntries
  <2>6. NoChild \in Entry /\ NoChild.status = 0 /\ NoChild.child = NoPid
    BY NewEntries
  <2>. HIDE DEF i, t, rd, wr, entry, left
  <2>7. CASE rd.made = -1 \/ wr.made = -1
    <3>1. assignChild.children = [children EXCEPT ![i] = NoChild] /\ assignChild.slot = -1
      BY <2>4, <2>7 DEF NotAssigned
    <3>2. Reassigned(children, [children EXCEPT ![i] = NoChild])
      BY <2>2, <2>6 DEF Reassigned, TERMINATED_CHILD
    <3>. QED
      BY <3>1, <3>2
  <2>8. CASE ~(rd.made = -1 \/ wr.made = -1)
    <3>1. assignChild.children = [children EXCEPT ![i] = entry] /\ assignChild.slot = i
      BY <2>4, <2>8
    <3>2. Reassigned(children, [children EXCEPT ![i] = entry])
      BY <2>2, <2>5 DEF Reassigned, TERMINATED_CHILD, ACTIVE_CHILD
    <3>3. [children EXCEPT ![i] = entry][i] = entry
      BY <2>2
    <3>. QED
      BY <3>1, <3>2, <3>3, <2>2, <2>5
  <2>. QED
    BY <2>7, <2>8
<1>. QED
  BY <1>1, <1>2

-------------------------------------------------------------------------------
(* Processes go on: what has started stays so, and what is reaped stays as *)
(* it is.                                                                  *)
Later ==
  /\ procs' = [p \in Pids |-> procs'[p]]
  /\ \A p \in Pids :
       /\ Process(procs'[p])
       /\ procs'[p].state = "none" => procs[p].state = "none"
       /\ procs[p].state = "reaped" => procs'[p].state = "reaped" /\ procs'[p].code = procs[p].code

TableInv == TableType /\ EntriesTrue /\ EntriesApart /\ ReportsTrue

LEMMA ReportedPids ==
  ASSUME TableType
  PROVE  \A n \in 1 .. Len(reported) : reported[n].child \in Pids
<1>. DEFINE Told == [child : Pids, code : EndCodes]
<1>1. reported \in Seq(Told)
  BY DEF TableType
<1>. HIDE DEF Told
<1>2. \A n \in 1 .. Len(reported) : reported[n] \in Told
  BY <1>1
<1>. QED
  BY <1>2 DEF Told

(* The table keeps its part of the invariant while processes go on and     *)
(* entries go, or are made for children without a number.                  *)
LEMMA TableGoesOn ==
  ASSUME TableInv, Reassigned(children, children'), Later, reported' = reported,
         "op" \in DOMAIN call'
  PROVE  TableInv'
<1>1. TableType'
  BY DEF TableInv, TableType, Reassigned, Later
<1>2. ASSUME NEW i \in NSlots, children'[i] # children[i]
      PROVE  children'[i].child = NoPid /\ ~Ended(children'[i])
  BY <1>2 DEF Reassigned, Ended
<1>3. EntriesTrue'
  <2>. SUFFICES ASSUME NEW i \in NSlots
                PROVE  /\ Names(i)' => procs'[children'[i].child].state # "none"
                       /\ Ended(children'[i]) =>
                            /\ children'[i].child # NoPid
                            /\ procs'[children'[i].child].state = "reaped"
                            /\ procs'[children'[i].child].code = children'[i].code
    BY DEF EntriesTrue
  <2>1. CASE children'[i] # children[i]
    BY <2>1, <1>2 DEF Names
  <2>2. CASE children'[i] = children[i]
    <3>1. children[i].child # NoPid => children[i].child \in Pids
      BY DEF TableInv, TableType, Entry
    <3>. QED
      BY <2>2, <3>1 DEF TableInv, EntriesTrue, Names, Later
  <2>. QED
    BY <2>1, <2>2
<1>4. \A i \in NSlots : Names(i)' => Names(i) /\ children'[i] = children[i]
  BY <1>2 DEF Names
<1>5. EntriesApart'
  BY <1>4 DEF TableInv, EntriesApart
<1>6. \A n \in 1 .. Len(reported) : reported[n].child \in Pids
  BY ReportedPids DEF TableInv
<1>7. \A n \in 1 .. Len(reported) :
        procs'[reported[n].child].state = "reaped" /\ procs'[reported[n].child].code = reported[n].code
  BY <1>6 DEF TableInv, ReportsTrue, Later
<1>8. ASSUME NEW n \in 1 .. Len(reported), NEW i \in NSlots, VALID_CHILD(i)'
      PROVE  children'[i].child # reported[n].child
  <2>1. CASE children'[i] # children[i]
    BY <2>1, <1>2, <1>6, PidsAreNumbers
  <2>2. CASE children'[i] = children[i]
    BY <2>2, <1>8 DEF TableInv, ReportsTrue, VALID_CHILD
  <2>. QED
    BY <2>1, <2>2
<1>9. ReportsTrue'
  BY <1>7, <1>8 DEF TableInv, ReportsTrue
<1>. QED
  BY <1>1, <1>3, <1>5, <1>9 DEF TableInv

(* No entry waits for a number: nothing more is asked. *)
LEMMA NotAtHand ==
  ASSUME TableInv', call'.op \notin Spawns
  PROVE  ProcInv'
BY DEF ProcInv, TableInv, ForkAtHand

(* The fork that is at hand stays so while processes go on. *)
LEMMA StaysAtHand ==
  ASSUME ProcInv, TableInv', Later, UNCHANGED <<children, reported, call>>
  PROVE  ProcInv'
<1>1. ForkAtHand'
  BY DEF ProcInv, ForkAtHand, Later, Names
<1>. QED
  BY <1>1 DEF ProcInv, TableInv

LEMMA SameTable ==
  ASSUME TableInv
  PROVE  Reassigned(children, children)
BY DEF TableInv, TableType, Reassigned

LEMMA SameProcesses ==
  ASSUME TableInv, procs' = procs
  PROVE  Later
BY DEF TableInv, TableType, Later

(* A step that leaves the table alone and starts nothing. *)
LEMMA QuietStep ==
  ASSUME ProcInv, UNCHANGED pvars, call'.op \notin Spawns, "op" \in DOMAIN call'
  PROVE  ProcInv'
<1>1. TableInv /\ Reassigned(children, children') /\ Later /\ reported' = reported
  BY SameTable, SameProcesses DEF ProcInv, TableInv, pvars
<1>. QED
  BY <1>1, TableGoesOn, NotAtHand

-------------------------------------------------------------------------------
(* The operations on streams start no child. *)
Starts(c) == c.op \in Spawns \/ "op" \notin DOMAIN c

LEMMA NoCallStarts ==
  /\ ~Starts(NoCall)
  /\ \A op, s, limit, forever :
       op \notin Spawns => ~Starts([NoCall EXCEPT !.op = op, !.st = s, !.limit = limit, !.forever = forever])
  /\ \A op : op \notin Spawns => ~Starts([NoCall EXCEPT !.op = op])
BY DEF Starts, NoCall, Spawns

LEMMA ChangedCall ==
  ASSUME NEW c, ~Starts(c)
  PROVE  /\ \A fs, n : ~Starts([c EXCEPT !.frames = fs, !.limit = n])
         /\ \A n : ~Starts([c EXCEPT !.moved = n])
BY DEF Starts

LEMMA WaitsStartNothing ==
  ASSUME "op" \in DOMAIN call, Waits \/ ReadDone(TRUE) \/ UnblockField(TRUE) \/ UnblockCut(TRUE) \/ WriteDone(TRUE)
  PROVE  ~Starts(call')
<1>1. ASSUME call.op \in {"readln", "read", "fill", "unblock", "flush"}
      PROVE  ~Starts(call)
  BY <1>1 DEF Starts, Spawns
<1>2. ASSUME NEW r, Gives(r)
      PROVE  ~Starts(call')
  BY <1>2, NoCallStarts DEF Gives
<1>3. ASSUME Fetch PROVE ~Starts(call')
  BY <1>3, <1>1 DEF Fetch, Polling
<1>4. ASSUME NEW b, ReadDone(b) PROVE ~Starts(call')
  <2>1. \E r : Gives(r)
    BY <1>4 DEF ReadDone
  <2>. QED
    BY <2>1, <1>2
<1>5. ASSUME NEW b, UnblockField(b) PROVE ~Starts(call')
  <2>1. \/ \E r : Gives(r)
        \/ Undefined
        \/ \E fs, n : call' = [call EXCEPT !.frames = fs, !.limit = n]
    BY <1>5 DEF UnblockField
  <2>2. ~Starts(call)
    BY <1>5, <1>1 DEF UnblockField
  <2>3. \A fs, n : ~Starts([call EXCEPT !.frames = fs, !.limit = n])
    BY <2>2, ChangedCall
  <2>4. Undefined => ~Starts(call')
    BY NoCallStarts DEF Undefined, Spawns
  <2>5. (\E r : Gives(r)) => ~Starts(call')
    BY <1>2
  <2>6. ASSUME NEW fs, NEW n, call' = [call EXCEPT !.frames = fs, !.limit = n]
        PROVE  ~Starts(call')
    <3>1. ~Starts([call EXCEPT !.frames = fs, !.limit = n])
      BY <2>3
    <3>. QED
      BY <3>1, <2>6, Zenon
  <2>. QED
    BY <2>1, <2>4, <2>5, <2>6
<1>6. ASSUME NEW b, UnblockCut(b) PROVE ~Starts(call')
  <2>1. (\E r : Gives(r)) \/ Undefined
    BY <1>6 DEF UnblockCut
  <2>. QED
    BY <2>1, <1>2, NoCallStarts DEF Undefined, Spawns
<1>7. ASSUME NEW b, WriteDone(b) PROVE ~Starts(call')
  <2>1. \E r : Gives(r)
    BY <1>7 DEF WriteDone
  <2>. QED
    BY <2>1, <1>2
<1>8. ASSUME WriteSome PROVE ~Starts(call')
  <2>1. call' = [NoCall EXCEPT !.op = "dead"] \/ \E n : call' = [call EXCEPT !.moved = n]
    BY <1>8 DEF WriteSome
  <2>2. ~Starts(call)
    BY <1>8, <1>1 DEF WriteSome
  <2>3. \A n : ~Starts([call EXCEPT !.moved = n])
    BY <2>2, ChangedCall
  <2>4. ~Starts([NoCall EXCEPT !.op = "dead"])
    BY NoCallStarts DEF Spawns
  <2>. QED
    BY <2>1, <2>3, <2>4
<1>. QED
  BY <1>3, <1>4, <1>5, <1>6, <1>7, <1>8 DEF Waits

LEMMA CallsStartNothing ==
  ASSUME StreamCalls
  PROVE  ~Starts(call')
<1>1. ASSUME NEW r, Gives(r)
      PROVE  ~Starts(call')
  BY <1>1, NoCallStarts DEF Gives
<1>2. ASSUME NEW op, NEW s, NEW limit, NEW forever, op \notin Spawns, Begins(op, s, limit, forever)
      PROVE  ~Starts(call')
  BY <1>2, NoCallStarts DEF Begins
<1>3. ASSUME NEW fd, nio_open(fd) PROVE ~Starts(call')
  <2>1. \E r : Gives(r)
    BY <1>3 DEF nio_open
  <2>. QED
    BY <2>1, <1>1
<1>4. ASSUME nio_newpipe \/ nio_socketpair PROVE ~Starts(call')
  <2>1. \E r : Gives(r)
    BY <1>4 DEF nio_newpipe, nio_socketpair
  <2>. QED
    BY <2>1, <1>1
<1>5. ASSUME NEW s, nio_close(s) \/ \E b \in BOOLEAN : IsReady(s, b) PROVE ~Starts(call')
  <2>1. \E r : Gives(r)
    BY <1>5 DEF nio_close, IsReady
  <2>. QED
    BY <2>1, <1>1
<1>6. ASSUME NEW s, \/ \E text \in Texts : nio_write(s, text) \/ nio_writeln(s, text)
                    \/ \E x \in Arrays : nio_block_array(s, x)
      PROVE  ~Starts(call')
  <2>1. \E r : Gives(r)
    BY <1>6 DEF nio_write, nio_writeln, nio_block_array
  <2>. QED
    BY <2>1, <1>1
<1>7. ASSUME NEW s, nio_readln(s) PROVE ~Starts(call')
  BY <1>7, <1>2 DEF nio_readln, Spawns
<1>8. ASSUME NEW s, NEW n, nio_read(s, n) PROVE ~Starts(call')
  BY <1>8, <1>2 DEF nio_read, Spawns
<1>9. ASSUME NEW s, NEW n, NEW b, nio_read_stream(s, n, b) PROVE ~Starts(call')
  BY <1>9, <1>2 DEF nio_read_stream, Spawns
<1>10. ASSUME NEW s, NEW b, nio_write_stream(s, b) PROVE ~Starts(call')
  BY <1>10, <1>2 DEF nio_write_stream, Spawns
<1>11. ASSUME NEW s, nio_unblock_array(s) PROVE ~Starts(call')
  <2>1. call' = [NoCall EXCEPT !.op = "unblock", !.st = s, !.limit = 1, !.forever = TRUE,
                               !.frames = <<Fresh>>]
    BY <1>11 DEF nio_unblock_array
  <2>. QED
    BY <2>1 DEF Starts, NoCall, Spawns
<1>. QED
  BY <1>3, <1>4, <1>5, <1>6, <1>7, <1>8, <1>9, <1>10, <1>11 DEF StreamCalls

-------------------------------------------------------------------------------
(* Processes change field by field. *)
LEMMA ProcessChanged ==
  ASSUME NEW r, Process(r)
  PROVE  /\ \A v \in States : LET q == [r EXCEPT !.state = v]
                              IN  Process(q) /\ q.state = v /\ q.code = r.code
         /\ \A v \in EndCodes : LET q == [r EXCEPT !.code = v]
                                IN  Process(q) /\ q.state = r.state /\ q.code = v
         /\ \A v : LET q == [r EXCEPT !.ends = v]
                   IN  Process(q) /\ q.state = r.state /\ q.code = r.code
         /\ \A v : LET q == [r EXCEPT !.stdin = v]
                   IN  Process(q) /\ q.state = r.state /\ q.code = r.code
         /\ \A v : LET q == [r EXCEPT !.stdout = v]
                   IN  Process(q) /\ q.state = r.state /\ q.code = r.code
         /\ \A v : LET q == [r EXCEPT !.out = v]
                   IN  Process(q) /\ q.state = r.state /\ q.code = r.code
         /\ \A v : LET q == [r EXCEPT !.served = v]
                   IN  Process(q) /\ q.state = r.state /\ q.code = r.code
BY DEF Process

LEMMA NoProcess == Process(NoProc) /\ NoProc.state = "none"
BY DEF NoProc, Process, States, EndCodes

LEMMA RunningProcess ==
  ASSUME NEW to, NEW from, NEW ends
  PROVE  LET q == [NoProc EXCEPT !.state = "running", !.stdin = to, !.stdout = from, !.ends = ends]
         IN  Process(q) /\ q.state = "running"
<1>. DEFINE a == [NoProc EXCEPT !.state = "running"]
            b == [a EXCEPT !.stdin = to]
            c == [b EXCEPT !.stdout = from]
            d == [c EXCEPT !.ends = ends]
<1>1. Process(a) /\ a.state = "running"
  BY NoProcess, ProcessChanged DEF States
<1>. HIDE DEF a
<1>2. Process(b) /\ b.state = "running"
  BY <1>1, ProcessChanged
<1>. HIDE DEF b
<1>3. Process(c) /\ c.state = "running"
  BY <1>2, ProcessChanged
<1>. HIDE DEF c
<1>4. Process(d) /\ d.state = "running"
  BY <1>3, ProcessChanged
<1>. QED
  BY <1>4 DEF a, b, c, d

LEMMA FallenProcess ==
  ASSUME NEW r, Process(r), NEW code \in EndCodes
  PROVE  LET q == [r EXCEPT !.state = "zombie", !.code = code, !.ends = {}, !.out = <<>>]
         IN  Process(q) /\ q.state = "zombie" /\ q.code = code
<1>. DEFINE a == [r EXCEPT !.state = "zombie"]
            b == [a EXCEPT !.code = code]
            c == [b EXCEPT !.ends = {}]
            d == [c EXCEPT !.out = <<>>]
<1>1. Process(a) /\ a.state = "zombie"
  BY ProcessChanged DEF States
<1>. HIDE DEF a
<1>2. Process(b) /\ b.state = "zombie" /\ b.code = code
  BY <1>1, ProcessChanged
<1>. HIDE DEF b
<1>3. Process(c) /\ c.state = "zombie" /\ c.code = code
  BY <1>2, ProcessChanged
<1>. HIDE DEF c
<1>4. Process(d) /\ d.state = "zombie" /\ d.code = code
  BY <1>3, ProcessChanged
<1>. QED
  BY <1>4 DEF a, b, c, d

(* One process that is not reaped goes on to q, which has started. *)
LEMMA OneGoesOn ==
  ASSUME TableType, NEW p \in Pids, NEW q, Process(q), q.state # "none",
         procs[p].state # "reaped", procs' = [procs EXCEPT ![p] = q]
  PROVE  Later
BY DEF TableType, Later

LEMMA FallsLater ==
  ASSUME TableType, NEW p \in Pids, NEW code \in EndCodes, procs[p].state = "running", Falls(p, code)
  PROVE  Later
<1>. DEFINE q == [procs[p] EXCEPT !.state = "zombie", !.code = code, !.ends = {}, !.out = <<>>]
<1>1. Process(procs[p])
  BY DEF TableType
<1>2. Process(q) /\ q.state = "zombie"
  BY <1>1, FallenProcess
<1>3. procs' = [procs EXCEPT ![p] = q]
  BY DEF Falls
<1>. HIDE DEF q
<1>. QED
  BY <1>2, <1>3, OneGoesOn

(* A child sends or writes. *)
LEMMA SentLater ==
  ASSUME TableType, NEW p \in Pids, procs[p].state = "running",
         \/ \E v, w : procs' = [procs EXCEPT ![p].out = v, ![p].served = w]
         \/ \E v : procs' = [procs EXCEPT ![p].out = v]
  PROVE  Later
<1>1. Process(procs[p])
  BY DEF TableType
<1>2. ASSUME NEW v PROVE LET a == [procs[p] EXCEPT !.out = v] IN Process(a) /\ a.state = "running"
  BY <1>1, ProcessChanged
<1>3. ASSUME NEW v, procs' = [procs EXCEPT ![p].out = v] PROVE Later
  <2>. DEFINE a == [procs[p] EXCEPT !.out = v]
  <2>1. Process(a) /\ a.state = "running"
    BY <1>2
  <2>2. procs' = [procs EXCEPT ![p] = a]
    BY <1>3
  <2>. HIDE DEF a
  <2>. QED
    BY <2>1, <2>2, OneGoesOn
<1>4. ASSUME NEW v, NEW w, procs' = [procs EXCEPT ![p].out = v, ![p].served = w] PROVE Later
  <2>. DEFINE a == [procs[p] EXCEPT !.out = v]
              b == [a EXCEPT !.served = w]
              ps == [procs EXCEPT ![p] = a]
  <2>1. Process(a) /\ a.state = "running"
    BY <1>2
  <2>2. ps[p] = a
    BY DEF TableType
  <2>3. procs' = [ps EXCEPT ![p] = [ps[p] EXCEPT !.served = w]]
    BY <1>4
  <2>4. procs' = [ps EXCEPT ![p] = b]
    BY <2>2, <2>3
  <2>. HIDE DEF a
  <2>5. Process(b) /\ b.state = "running"
    BY <2>1, ProcessChanged
  <2>. HIDE DEF b
  <2>6. procs' = [procs EXCEPT ![p] = b]
    BY <2>4
  <2>. QED
    BY <2>5, <2>6, OneGoesOn
<1>. QED
  BY <1>3, <1>4

-------------------------------------------------------------------------------
(* Starting a child *)

LEMMA AssignShape ==
  DOMAIN assignChild = {"slot", "table", "children"}
<1>1. \A t, c : DOMAIN NotAssigned(t, c) = {"slot", "table", "children"}
  BY DEF NotAssigned
<1>2. \A i, t, c : DOMAIN [slot |-> i, table |-> t, children |-> c] = {"slot", "table", "children"}
  OBVIOUS
<1>3. \/ \E t, c : assignChild = NotAssigned(t, c)
      \/ \E i, t, c : assignChild = [slot |-> i, table |-> t, children |-> c]
  BY DEF assignChild
<1>. QED
  BY <1>1, <1>2, <1>3

(* A child that is not started leaves at most an entry without a number. *)
LEMMA NotStarted ==
  ASSUME ProcInv, Reassigned(children, children'), UNCHANGED <<procs, reported>>, ~Starts(call')
  PROVE  ProcInv'
<1>1. TableInv /\ Later
  BY SameProcesses DEF ProcInv, TableInv
<1>2. "op" \in DOMAIN call' /\ call'.op \notin Spawns
  BY DEF Starts
<1>. QED
  BY <1>1, <1>2, TableGoesOn, NotAtHand

LEMMA SpawnFailsStep ==
  ASSUME ProcInv, NEW op \in Spawns,
         (\E b \in BOOLEAN : SpawnFails(op, b)) \/ SecondPipeFails(op) \/ ForkFails(op)
  PROVE  ProcInv'
<1>0. children \in [NSlots -> Entry]
  BY DEF ProcInv, TableType
<1>1. ASSUME NEW a, NEW r, SpawnEnds(a, r), Reassigned(children, a.children)
      PROVE  ProcInv'
  <2>1. ~Starts(call')
    BY <1>1, NoCallStarts DEF SpawnEnds, Gives
  <2>. QED
    BY <1>1, <2>1, NotStarted DEF SpawnEnds
<1>2. Reassigned(children, assignChild.children)
  BY <1>0, EntryAssigned
<1>3. ASSUME NEW b, SpawnFails(op, b) PROVE ProcInv'
  BY <1>3, <1>1, <1>2 DEF SpawnFails
<1>4. ASSUME SecondPipeFails(op) PROVE ProcInv'
  <2>. DEFINE a == [assignChild EXCEPT !.table.fds = Pipe(@)]
  <2>1. a.children = assignChild.children
    BY AssignShape
  <2>2. SpawnEnds(a, Fault(op, 0))
    BY <1>4 DEF SecondPipeFails
  <2>. HIDE DEF a
  <2>. QED
    BY <1>1, <1>2, <2>1, <2>2
<1>5. ASSUME ForkFails(op) PROVE ProcInv'
  <2>. DEFINE a == assignChild
              given == [a EXCEPT !.table = releaseChild(a.table, a.children[a.slot]),
                                 !.children[a.slot] = NoChild]
  <2>1. a.slot # -1 /\ SpawnEnds(IF op = "spawn_shell" THEN a ELSE given, Fault(op, 0))
    BY <1>5 DEF ForkFails
  <2>2. a.slot \in NSlots
    BY <2>1, <1>0, EntryAssigned
  <2>3. given.children = [a.children EXCEPT ![a.slot] = NoChild]
    BY AssignShape
  <2>4. NoChild \in Entry /\ NoChild.status = 0 /\ NoChild.child = NoPid
    BY NewEntries
  <2>. HIDE DEF given, a
  <2>5. Reassigned(children, a.children)
    BY <1>2 DEF a
  <2>6. Reassigned(children, given.children)
    BY <2>2, <2>3, <2>4, <2>5 DEF Reassigned, TERMINATED_CHILD
  <2>. QED
    BY <1>1, <2>1, <2>5, <2>6
<1>. QED
  BY <1>3, <1>4, <1>5

(* The fork: a new process, whose number no entry and no report has. *)
LEMMA ForkStep ==
  ASSUME ProcInv, NEW op \in Spawns, NEW flag \in BOOLEAN, Fork(op, flag)
  PROVE  ProcInv'
<1>. DEFINE a   == assignChild
            pid == Min(NewPids)
            to    == Lowest(Idle(a.table.fds), 1)
            from  == Lowest(Idle(a.table.fds), 2)
            ends  == {[in |-> to, out |-> 0], [in |-> 0, out |-> from]} \cup (Range(a.table.fds) \ {NoEnd})
            q == [NoProc EXCEPT !.state = "running", !.stdin = to, !.stdout = from, !.ends = ends]
<1>1. TableInv /\ TableType /\ children \in [NSlots -> Entry]
  BY DEF ProcInv, TableInv, TableType
<1>2. pid \in NewPids
  BY LeastOf, PidsAreNumbers DEF Fork, NewPids
<1>3. pid \in Pids /\ procs[pid].state = "none"
  BY <1>2 DEF NewPids
<1>4. procs' = [procs EXCEPT ![pid] = q]
  BY DEF Fork
<1>5. Process(q) /\ q.state = "running"
  BY RunningProcess
<1>6. \E x, y : call' = Starting(op, pid, a.slot, flag, x, y)
  BY DEF Fork
<1>7. a.slot # -1 /\ children' = a.children /\ reported' = reported
  BY DEF Fork
<1>8. Reassigned(children, a.children)
  BY <1>1, EntryAssigned
<1>9. /\ a.slot \in NSlots
      /\ a.children[a.slot].status = ACTIVE_CHILD /\ a.children[a.slot].child = NoPid
  BY <1>1, <1>7, EntryAssigned
<1>. HIDE DEF pid, q, a
<1>10. Later
  BY <1>1, <1>3, <1>4, <1>5, OneGoesOn
<1>11. /\ "op" \in DOMAIN call' /\ call'.slot = a.slot /\ call'.pid = pid /\ call'.unmanaged = flag
  BY <1>6 DEF Starting
<1>12. TableInv'
  BY <1>1, <1>7, <1>8, <1>10, <1>11, TableGoesOn
<1>13. procs'[pid].state # "none"
  BY <1>1, <1>3, <1>4, <1>5 DEF TableType
<1>14. ASSUME NEW i \in NSlots, Names(i)' PROVE children'[i].child # pid
  <2>1. children'[i] = children[i] \/ children'[i].child = NoPid
    BY <1>7, <1>8 DEF Reassigned
  <2>2. children'[i] = children[i]
    BY <2>1, <1>14 DEF Names
  <2>3. procs[children[i].child].state # "none"
    BY <2>2, <1>1, <1>14 DEF Names, TableInv, EntriesTrue
  <2>. QED
    BY <2>2, <2>3, <1>3
<1>15. ASSUME NEW n \in 1 .. Len(reported) PROVE reported[n].child # pid
  BY <1>1, <1>3 DEF TableInv, ReportsTrue
<1>16. ForkAtHand'
  BY <1>3, <1>7, <1>9, <1>11, <1>13, <1>14, <1>15 DEF ForkAtHand
<1>. QED
  BY <1>12, <1>16 DEF ProcInv, TableInv

(* The number of the child is entered, its end handled already or not: the *)
(* entry is active.                                                        *)
LEMMA RecordStep ==
  ASSUME ProcInv, Record
  PROVE  ProcInv'
<1>. DEFINE k == call.slot
            named == [children[k] EXCEPT !.child = call.pid]
            entered == [named EXCEPT !.unmanaged = call.unmanaged]
<1>1. /\ k \in NSlots /\ call.pid \in Pids /\ call.unmanaged \in BOOLEAN
      /\ children[k].status = ACTIVE_CHILD /\ procs[call.pid].state # "none"
      /\ \A i \in NSlots : Names(i) => children[i].child # call.pid
      /\ \A n \in 1 .. Len(reported) : reported[n].child # call.pid
  BY DEF Record, ProcInv, ForkAtHand
<1>2. children \in [NSlots -> Entry] /\ TableInv
  BY DEF ProcInv, TableType, TableInv
<1>3. named \in Entry /\ named.status = ACTIVE_CHILD /\ named.child = call.pid
  BY <1>1, <1>2 DEF Entry
<1>4. children' = [children EXCEPT ![k] = entered]
  <2>. DEFINE cs == [children EXCEPT ![k] = named]
  <2>1. cs[k] = named
    BY <1>1, <1>2
  <2>2. children' = [children EXCEPT ![k].child = call.pid, ![k].unmanaged = call.unmanaged]
    BY DEF Record
  <2>3. children' = [cs EXCEPT ![k] = [cs[k] EXCEPT !.unmanaged = call.unmanaged]]
    BY <2>2
  <2>4. children' = [cs EXCEPT ![k] = entered]
    BY <2>1, <2>3
  <2>. HIDE DEF named, entered
  <2>. QED
    BY <2>4
<1>5. \A c \in Entry : \A b \in BOOLEAN :
        LET e == [c EXCEPT !.unmanaged = b] IN e \in Entry /\ e.status = c.status /\ e.child = c.child
  BY DEF Entry
<1>. HIDE DEF named
<1>6. entered \in Entry /\ entered.status = ACTIVE_CHILD /\ entered.child = call.pid
  BY <1>1, <1>3, <1>5
<1>. HIDE DEF entered, k
<1>7. UNCHANGED <<procs, reported>> /\ ~Starts(call')
  BY NoCallStarts DEF Record, Gives
<1>8. \A i \in NSlots : children'[i] = IF i = k THEN entered ELSE children[i]
  BY <1>1, <1>2, <1>4
<1>9. TableType'
  BY <1>1, <1>2, <1>4, <1>6, <1>7 DEF TableInv, TableType, Starts
<1>10. EntriesTrue'
  <2>. SUFFICES ASSUME NEW i \in NSlots
                PROVE  /\ Names(i)' => procs[children'[i].child].state # "none"
                       /\ Ended(children'[i]) =>
                            /\ children'[i].child # NoPid
                            /\ procs[children'[i].child].state = "reaped"
                            /\ procs[children'[i].child].code = children'[i].code
    BY <1>7 DEF EntriesTrue
  <2>1. CASE i = k
    BY <2>1, <1>1, <1>6, <1>8 DEF Ended, ACTIVE_CHILD, TERMINATED_CHILD
  <2>2. CASE i # k
    BY <2>2, <1>2, <1>8 DEF TableInv, EntriesTrue, Names
  <2>. QED
    BY <2>1, <2>2
<1>11. \A i \in NSlots : i # k /\ Names(i)' => Names(i) /\ children'[i].child # call.pid
  BY <1>1, <1>8 DEF Names
<1>12. EntriesApart'
  <2>. SUFFICES ASSUME NEW i \in NSlots, NEW j \in NSlots, Names(i)', Names(j)',
                       children'[i].child = children'[j].child
                PROVE  i = j
    BY DEF EntriesApart
  <2>. QED
    BY <1>2, <1>6, <1>8, <1>11 DEF TableInv, EntriesApart
<1>13. ReportsTrue'
  BY <1>1, <1>2, <1>6, <1>7, <1>8 DEF TableInv, ReportsTrue, VALID_CHILD
<1>14. TableInv' /\ call'.op \notin Spawns
  BY <1>7, <1>9, <1>10, <1>12, <1>13 DEF TableInv, Starts
<1>. QED
  BY <1>14, NotAtHand

(* An end is told: of an entry that has ended, which goes. *)
LEMMA ReportStep ==
  ASSUME ProcInv, any_child_status
  PROVE  ProcInv'
<1>. DEFINE S == {i \in NSlots : Ended(children[i]) /\ ~children[i].unmanaged}
            k == Min(S)
            told == [child |-> children[k].child, code |-> children[k].code]
<1>1. TableInv /\ TableType /\ children \in [NSlots -> Entry]
  BY DEF ProcInv, TableInv, TableType
<1>2. ~Starts(call')
  BY NoCallStarts DEF any_child_status, Gives
<1>3. CASE S = {}
  <2>1. UNCHANGED pvars
    BY <1>3 DEF any_child_status
  <2>. QED
    BY <2>1, <1>2, QuietStep DEF Starts
<1>4. CASE S # {}
  <2>1. k \in S
    BY <1>4, LeastOf, SlotsAreNumbers
  <2>2. /\ children' = [children EXCEPT ![k] = NoChild]
        /\ reported' = Append(reported, told)
        /\ procs' = procs
    BY <1>4 DEF any_child_status
  <2>3. k \in NSlots /\ Ended(children[k])
    BY <2>1
  <2>. HIDE DEF S, k
  <2>4. /\ children[k].child \in Pids /\ children[k].code \in EndCodes
        /\ procs[children[k].child].state = "reaped"
        /\ procs[children[k].child].code = children[k].code
    BY <1>1, <2>3 DEF TableInv, EntriesTrue, Entry
  <2>5. Names(k)
    BY <2>3, <2>4, PidsAreNumbers DEF Names, Ended, TERMINATED_CHILD
  <2>6. told \in [child : Pids, code : EndCodes] /\ told.child = children[k].child
        /\ told.code = children[k].code
    BY <2>4
  <2>. HIDE DEF told
  <2>7. NoChild \in Entry /\ NoChild.status = 0 /\ NoChild.child = NoPid
    BY NewEntries
  <2>8. \A i \in NSlots : children'[i] = IF i = k THEN NoChild ELSE children[i]
    BY <1>1, <2>2, <2>3
  <2>9. children' \in [NSlots -> Entry]
    BY <1>1, <2>2, <2>7
  <2>10. /\ Len(reported) \in Nat /\ Len(reported') = Len(reported) + 1
         /\ reported'[Len(reported) + 1] = told
         /\ \A n \in 1 .. Len(reported) : reported'[n] = reported[n]
         /\ reported' \in Seq([child : Pids, code : EndCodes])
    <3>. DEFINE T == [child : Pids, code : EndCodes]
    <3>1. reported \in Seq(T) /\ told \in T
      BY <1>1, <2>6 DEF TableType
    <3>. HIDE DEF T
    <3>2. Append(reported, told) \in Seq(T)
      BY <3>1
    <3>3. /\ Len(reported) \in Nat /\ Len(Append(reported, told)) = Len(reported) + 1
          /\ Append(reported, told)[Len(reported) + 1] = told
          /\ \A n \in 1 .. Len(reported) : Append(reported, told)[n] = reported[n]
      BY <3>1
    <3>. QED
      BY <3>2, <3>3, <2>2 DEF T
  <2>11. \A i \in NSlots : Names(i)' => i # k /\ Names(i) /\ children'[i] = children[i]
    BY <2>7, <2>8 DEF Names
  <2>12. TableType'
    BY <1>1, <1>2, <2>2, <2>9, <2>10 DEF TableType, Starts
  <2>13. EntriesTrue'
    <3>1. \A i \in NSlots : Ended(children'[i]) => children'[i] = children[i]
      BY <2>7, <2>8 DEF Ended, TERMINATED_CHILD
    <3>. QED
      BY <1>1, <2>2, <2>11, <3>1 DEF TableInv, EntriesTrue
  <2>14. EntriesApart'
    BY <1>1, <2>11 DEF TableInv, EntriesApart
  <2>15. \A n \in 1 .. Len(reported) : reported[n].child # told.child
    <3>1. VALID_CHILD(k)
      BY <2>3 DEF VALID_CHILD, Ended, TERMINATED_CHILD
    <3>. QED
      BY <1>1, <2>3, <2>6, <3>1 DEF TableInv, ReportsTrue
  <2>16. \A i \in NSlots : VALID_CHILD(i)' => children'[i].child # told.child
    <3>. SUFFICES ASSUME NEW i \in NSlots, VALID_CHILD(i)', children'[i].child = told.child
                  PROVE  FALSE
      OBVIOUS
    <3>1. Names(i)'
      BY <2>4, <2>6, PidsAreNumbers DEF Names, VALID_CHILD
    <3>2. i # k /\ Names(i) /\ children[i].child = children[k].child
      BY <3>1, <2>6, <2>11
    <3>. QED
      BY <3>2, <2>3, <2>5, <1>1 DEF TableInv, EntriesApart
  <2>17. ReportsTrue'
    <3>1. \A n \in 1 .. Len(reported') : n \in 1 .. Len(reported) \/ n = Len(reported) + 1
      BY <2>10
    <3>2. \A n \in 1 .. Len(reported') :
            /\ procs'[reported'[n].child].state = "reaped"
            /\ procs'[reported'[n].child].code = reported'[n].code
      BY <1>1, <2>2, <2>4, <2>6, <2>10, <3>1 DEF TableInv, ReportsTrue
    <3>3. \A m, n \in 1 .. Len(reported') : reported'[m].child = reported'[n].child => m = n
      BY <1>1, <2>10, <2>15, <3>1 DEF TableInv, ReportsTrue
    <3>4. ASSUME NEW n \in 1 .. Len(reported'), NEW i \in NSlots, VALID_CHILD(i)'
          PROVE  children'[i].child # reported'[n].child
      <4>1. CASE n = Len(reported) + 1
        BY <4>1, <2>10, <2>16, <3>4
      <4>2. CASE n \in 1 .. Len(reported)
        <5>1. i # k
          BY <3>4, <2>7, <2>8 DEF VALID_CHILD
        <5>2. VALID_CHILD(i) /\ children'[i] = children[i]
          BY <5>1, <3>4, <2>8 DEF VALID_CHILD
        <5>. QED
          BY <5>2, <4>2, <2>10, <1>1 DEF TableInv, ReportsTrue
      <4>. QED
        BY <3>1, <4>1, <4>2
    <3>. QED
      BY <3>2, <3>3, <3>4 DEF ReportsTrue
  <2>18. TableInv' /\ call'.op \notin Spawns
    BY <1>2, <2>12, <2>13, <2>14, <2>17 DEF TableInv, Starts
  <2>. QED
    BY <2>18, NotAtHand
<1>. QED
  BY <1>3, <1>4

-------------------------------------------------------------------------------
(* The handler, which may run at any time, the fork at hand or not.        *)
LEMMA HandlerKeepsTable ==
  ASSUME ProcInv, handle_sigchld, "op" \in DOMAIN call'
  PROVE  /\ TableInv' /\ Later
         /\ \A i \in NSlots : /\ children'[i].child = children[i].child
                              /\ ~Names(i) => children'[i] = children[i]
                              /\ Names(i)' <=> Names(i)
         /\ reported' = reported
<1>. DEFINE dead == {p \in Pids : procs[p].state = "zombie"}
            shown(i) == [children[i] EXCEPT !.status = TERMINATED_CHILD,
                                            !.code = procs[children[i].child].code]
<1>1. TableInv /\ TableType /\ children \in [NSlots -> Entry]
  BY DEF ProcInv, TableInv, TableType
<1>2. /\ procs' = [p \in Pids |-> IF p \in dead THEN [procs[p] EXCEPT !.state = "reaped"] ELSE procs[p]]
      /\ children' = [i \in NSlots |-> IF IsOneOf(children[i], dead) THEN shown(i) ELSE children[i]]
      /\ reported' = reported
  BY DEF handle_sigchld
<1>3. \A p \in Pids : Process(procs[p])
  BY <1>1 DEF TableType
<1>4. \A p \in Pids : /\ Process([procs[p] EXCEPT !.state = "reaped"])
                      /\ [procs[p] EXCEPT !.state = "reaped"].state = "reaped"
                      /\ [procs[p] EXCEPT !.state = "reaped"].code = procs[p].code
  BY <1>3, ProcessChanged DEF States
<1>5. \A p \in Pids :
        /\ Process(procs'[p]) /\ procs'[p].code = procs[p].code
        /\ p \in dead => procs'[p].state = "reaped"
        /\ p \notin dead => procs'[p] = procs[p]
  BY <1>2, <1>3, <1>4
<1>6. procs' = [p \in Pids |-> procs'[p]]
  BY <1>2
<1>7. \A p \in Pids : p \in dead <=> procs[p].state = "zombie"
  OBVIOUS
<1>8. ASSUME NEW i \in NSlots, IsOneOf(children[i], dead)
      PROVE  /\ children'[i] \in Entry /\ children'[i].status = TERMINATED_CHILD
             /\ children'[i].child = children[i].child
             /\ children'[i].code = procs[children[i].child].code
             /\ children[i].child \in dead /\ children[i].child \in Pids /\ Names(i)
  <2>1. children[i].child \in dead /\ children[i].child \in Pids /\ children[i].status # 0
    BY <1>8 DEF IsOneOf
  <2>2. procs[children[i].child].code \in EndCodes
    BY <2>1, <1>3 DEF Process
  <2>3. \A c \in Entry : \A v \in EndCodes :
          LET e == [c EXCEPT !.status = TERMINATED_CHILD, !.code = v]
          IN  e \in Entry /\ e.status = TERMINATED_CHILD /\ e.child = c.child /\ e.code = v
    <3>. SUFFICES ASSUME NEW c \in Entry, NEW v \in EndCodes
                  PROVE  LET e == [c EXCEPT !.status = TERMINATED_CHILD, !.code = v]
                         IN  e \in Entry /\ e.status = TERMINATED_CHILD /\ e.child = c.child /\ e.code = v
      OBVIOUS
    <3>. DEFINE b == [c EXCEPT !.status = TERMINATED_CHILD]
                e == [b EXCEPT !.code = v]
    <3>1. b \in Entry /\ b.status = TERMINATED_CHILD /\ b.child = c.child
      BY EntryChanged
    <3>. HIDE DEF b
    <3>2. e \in Entry /\ e.status = b.status /\ e.child = b.child /\ e.code = v
      BY <3>1 DEF Entry
    <3>. QED
      BY <3>1, <3>2 DEF b
  <2>4. children'[i] = shown(i)
    BY <1>2, <1>8
  <2>5. shown(i) \in Entry /\ shown(i).status = TERMINATED_CHILD
        /\ shown(i).child = children[i].child /\ shown(i).code = procs[children[i].child].code
    BY <1>1, <2>2, <2>3
  <2>6. Names(i)
    BY <2>1, PidsAreNumbers DEF Names
  <2>. HIDE DEF shown
  <2>. QED
    BY <2>1, <2>4, <2>5, <2>6
<1>9. ASSUME NEW i \in NSlots, ~IsOneOf(children[i], dead)
      PROVE  children'[i] = children[i] /\ (Names(i) => children[i].child \in Pids \ dead)
  <2>1. children'[i] = children[i]
    BY <1>2, <1>9
  <2>2. Names(i) => children[i].child \in Pids
    BY <1>1 DEF Names, Entry
  <2>. QED
    BY <2>1, <2>2, <1>9 DEF Names, IsOneOf
<1>. HIDE DEF dead, shown
<1>10. Later
  BY <1>5, <1>6, <1>7 DEF Later
<1>11. \A i \in NSlots : /\ children'[i] \in Entry /\ children'[i].child = children[i].child
                         /\ ~Names(i) => children'[i] = children[i]
                         /\ Names(i)' <=> Names(i)
  <2>. SUFFICES ASSUME NEW i \in NSlots
                PROVE  /\ children'[i] \in Entry /\ children'[i].child = children[i].child
                       /\ ~Names(i) => children'[i] = children[i]
                       /\ Names(i)' <=> Names(i)
    OBVIOUS
  <2>1. CASE IsOneOf(children[i], dead)
    BY <2>1, <1>8 DEF Names, TERMINATED_CHILD
  <2>2. CASE ~IsOneOf(children[i], dead)
    BY <2>2, <1>1, <1>9 DEF Names
  <2>. QED
    BY <2>1, <2>2
<1>12. children' = [i \in NSlots |-> children'[i]]
  BY <1>2
<1>13. children' \in [NSlots -> Entry]
  BY <1>11, <1>12
<1>14. TableType'
  BY <1>1, <1>2, <1>5, <1>6, <1>13 DEF TableType
<1>15. EntriesTrue'
  <2>. SUFFICES ASSUME NEW i \in NSlots
                PROVE  /\ Names(i)' => procs'[children'[i].child].state # "none"
                       /\ Ended(children'[i]) =>
                            /\ children'[i].child # NoPid
                            /\ procs'[children'[i].child].state = "reaped"
                            /\ procs'[children'[i].child].code = children'[i].code
    BY DEF EntriesTrue
  <2>1. CASE IsOneOf(children[i], dead)
    BY <2>1, <1>5, <1>8, PidsAreNumbers
  <2>2. CASE ~IsOneOf(children[i], dead)
    <3>1. Ended(children[i]) => Names(i)
      BY <1>1 DEF TableInv, EntriesTrue, Names, Ended, TERMINATED_CHILD
    <3>. QED
      BY <2>2, <3>1, <1>1, <1>5, <1>9, <1>11 DEF TableInv, EntriesTrue
  <2>. QED
    BY <2>1, <2>2
<1>16. EntriesApart'
  BY <1>1, <1>11 DEF TableInv, EntriesApart
<1>17. \A n \in 1 .. Len(reported) : reported[n].child \in Pids
  BY <1>1, ReportedPids
<1>18. \A i \in NSlots : VALID_CHILD(i)' => VALID_CHILD(i) \/ ~Names(i)'
  <2>1. \A i \in NSlots : Names(i) => VALID_CHILD(i)
    BY DEF Names, VALID_CHILD
  <2>. QED
    BY <2>1, <1>11
<1>19. ReportsTrue'
  <2>1. \A n \in 1 .. Len(reported) :
          procs'[reported[n].child].state = "reaped" /\ procs'[reported[n].child].code = reported[n].code
    BY <1>1, <1>10, <1>17 DEF TableInv, ReportsTrue, Later
  <2>2. ASSUME NEW n \in 1 .. Len(reported), NEW i \in NSlots, VALID_CHILD(i)'
        PROVE  children'[i].child # reported[n].child
    <3>1. CASE Names(i)
      <4>1. VALID_CHILD(i)
        BY <3>1 DEF Names, VALID_CHILD
      <4>. QED
        BY <4>1, <1>1, <1>11 DEF TableInv, ReportsTrue
    <3>2. CASE ~Names(i)
      <4>1. children'[i].child = NoPid
        BY <3>2, <2>2, <1>11 DEF Names, VALID_CHILD
      <4>. QED
        BY <4>1, <1>17, PidsAreNumbers
    <3>. QED
      BY <3>1, <3>2
  <2>. QED
    BY <2>1, <2>2, <1>1, <1>2 DEF TableInv, ReportsTrue
<1>20. TableInv'
  BY <1>14, <1>15, <1>16, <1>19 DEF TableInv
<1>. QED
  BY <1>2, <1>10, <1>11, <1>20

LEMMA SignalStep ==
  ASSUME ProcInv, Signal
  PROVE  ProcInv'
<1>1. handle_sigchld /\ "op" \in DOMAIN call
  BY DEF Signal, ProcInv, TableType
<1>2. CASE UNCHANGED svars
  <2>1. call' = call
    BY <1>2 DEF svars
  <2>2. TableInv' /\ Later /\ reported' = reported
        /\ \A i \in NSlots : /\ children'[i].child = children[i].child
                             /\ ~Names(i) => children'[i] = children[i]
                             /\ Names(i)' <=> Names(i)
    BY <1>1, <2>1, HandlerKeepsTable
  <2>3. ForkAtHand'
    <3>. SUFFICES ASSUME call.op \in Spawns
                  PROVE  ForkAtHand'
      BY <2>1 DEF ForkAtHand
    <3>1. /\ call.slot \in NSlots /\ call.pid \in Pids /\ call.unmanaged \in BOOLEAN
          /\ children[call.slot].status = ACTIVE_CHILD /\ children[call.slot].child = NoPid
          /\ procs[call.pid].state # "none"
          /\ \A i \in NSlots : Names(i) => children[i].child # call.pid
          /\ \A n \in 1 .. Len(reported) : reported[n].child # call.pid
      BY DEF ProcInv, ForkAtHand
    <3>2. children'[call.slot] = children[call.slot]
      BY <3>1, <2>2 DEF Names
    <3>3. procs'[call.pid].state # "none"
      BY <3>1, <2>2 DEF Later
    <3>4. \A i \in NSlots : Names(i)' => children'[i].child # call.pid
      BY <3>1, <2>2
    <3>. QED
      BY <2>1, <2>2, <3>1, <3>2, <3>3, <3>4 DEF ForkAtHand
  <2>. QED
    BY <2>2, <2>3 DEF ProcInv, TableInv
<1>3. CASE ReadDone(TRUE) \/ UnblockField(TRUE) \/ UnblockCut(TRUE) \/ WriteDone(TRUE)
  <2>1. ~Starts(call')
    BY <1>1, <1>3, WaitsStartNothing
  <2>2. "op" \in DOMAIN call' /\ call'.op \notin Spawns
    BY <2>1 DEF Starts
  <2>3. TableInv'
    BY <1>1, <2>2, HandlerKeepsTable
  <2>. QED
    BY <2>2, <2>3, NotAtHand
<1>. QED
  BY <1>2, <1>3 DEF Signal

-------------------------------------------------------------------------------
(* Asking, interrupting, and what the processes do by themselves *)

LEMMA AskStep ==
  ASSUME ProcInv, NEW i \in NSlots,
         child_status(i) \/ \E b \in BOOLEAN : child_stream(i, b)
  PROVE  ProcInv'
<1>1. UNCHANGED pvars /\ \E r : Gives(r)
  BY DEF child_status, child_stream
<1>2. ~Starts(call')
  BY <1>1, NoCallStarts DEF Gives
<1>. QED
  BY <1>1, <1>2, QuietStep DEF Starts

LEMMA InterruptStep ==
  ASSUME ProcInv, NEW i \in NSlots, NEW kill \in BOOLEAN, interrupt_child(i, kill)
  PROVE  ProcInv'
<1>. DEFINE p == children[i].child
<1>1. TableInv /\ TableType /\ p \in Pids \cup {NoPid}
  BY DEF ProcInv, TableInv, TableType, Entry
<1>2. ~Starts(call')
  <2>1. call' = [NoCall EXCEPT !.op = "dead"] \/ \E r : Gives(r)
    BY DEF interrupt_child
  <2>2. ~Starts([NoCall EXCEPT !.op = "dead"])
    BY NoCallStarts DEF Spawns
  <2>3. ASSUME NEW r, Gives(r) PROVE ~Starts(call')
    BY <2>3, NoCallStarts DEF Gives
  <2>. QED
    BY <2>1, <2>2, <2>3
<1>3. \/ UNCHANGED pvars
      \/ /\ p # NoPid /\ procs[p].state = "running"
         /\ Falls(p, Signalled) /\ UNCHANGED <<children, reported>>
  BY DEF interrupt_child
<1>. HIDE DEF p
<1>4. CASE UNCHANGED pvars
  BY <1>2, <1>4, QuietStep DEF Starts
<1>5. CASE /\ p # NoPid /\ procs[p].state = "running"
           /\ Falls(p, Signalled) /\ UNCHANGED <<children, reported>>
  <2>1. Later
    BY <1>1, <1>5, FallsLater DEF EndCodes
  <2>2. Reassigned(children, children')
    BY <1>1, <1>5, SameTable
  <2>3. "op" \in DOMAIN call' /\ call'.op \notin Spawns
    BY <1>2 DEF Starts
  <2>4. TableInv'
    BY <1>1, <1>5, <2>1, <2>2, <2>3, TableGoesOn
  <2>. QED
    BY <2>3, <2>4, NotAtHand
<1>. QED
  BY <1>3, <1>4, <1>5

(* Other processes leave the call in progress as it is. *)
LEMMA OthersStep ==
  ASSUME ProcInv, Others
  PROVE  ProcInv'
<1>1. TableInv /\ TableType
  BY DEF ProcInv, TableInv
<1>2. PICK p \in Pids : \/ ChildEnds(p) \/ ChildWrites(p) \/ ChildReads(p)
                        \/ \E x \in Arrays : ChildSends(p, x)
  BY DEF Others
<1>3. UNCHANGED <<children, reported, call>>
  BY <1>2 DEF ChildEnds, ChildWrites, ChildReads, ChildSends, pvars
<1>4. procs[p].state = "running"
  BY <1>2 DEF ChildEnds, ChildWrites, ChildReads, ChildSends
<1>5. Later
  <2>1. CASE ChildEnds(p)
    <3>1. PICK code \in Codes : Falls(p, code)
      BY <2>1 DEF ChildEnds
    <3>2. code \in EndCodes
      BY DEF EndCodes
    <3>. QED
      BY <3>1, <3>2, <1>1, <1>4, FallsLater
  <2>2. CASE ChildWrites(p)
    <3>1. \E v : procs' = [procs EXCEPT ![p].out = v]
      BY <2>2 DEF ChildWrites
    <3>. QED
      BY <3>1, <1>1, <1>4, SentLater
  <2>3. CASE ChildReads(p)
    <3>1. procs' = procs
      BY <2>3 DEF ChildReads, pvars
    <3>. QED
      BY <3>1, <1>1, SameProcesses
  <2>4. CASE \E x \in Arrays : ChildSends(p, x)
    <3>1. \E v, w : procs' = [procs EXCEPT ![p].out = v, ![p].served = w]
      BY <2>4 DEF ChildSends
    <3>. QED
      BY <3>1, <1>1, <1>4, SentLater
  <2>. QED
    BY <1>2, <2>1, <2>2, <2>3, <2>4
<1>6. Reassigned(children, children') /\ "op" \in DOMAIN call'
  BY <1>1, <1>3, SameTable DEF TableType
<1>7. TableInv'
  BY <1>1, <1>3, <1>5, <1>6, TableGoesOn
<1>. QED
  BY <1>3, <1>5, <1>7, StaysAtHand

-------------------------------------------------------------------------------
LEMMA InitProcInv == Init => ProcInv
<1>. SUFFICES ASSUME Init
              PROVE  ProcInv
  OBVIOUS
<1>1. /\ children = [i \in NSlots |-> NoChild] /\ procs = [p \in Pids |-> NoProc]
      /\ reported = <<>> /\ call = NoCall
  BY DEF Init, SInit
<1>2. NoChild \in Entry /\ NoChild.status = 0 /\ NoChild.child = NoPid
  BY NewEntries
<1>3. \A i \in NSlots : children[i] = NoChild
  BY <1>1
<1>4. \A i \in NSlots : ~Names(i) /\ ~Ended(children[i])
  BY <1>2, <1>3 DEF Names, Ended, TERMINATED_CHILD
<1>5. ~Starts(call)
  BY <1>1, NoCallStarts
<1>6. TableType
  <2>1. children \in [NSlots -> Entry]
    BY <1>1, <1>2
  <2>2. procs = [p \in Pids |-> procs[p]] /\ \A p \in Pids : Process(procs[p])
    BY <1>1, NoProcess
  <2>3. reported \in Seq([child : Pids, code : EndCodes])
    BY <1>1
  <2>. QED
    BY <1>5, <2>1, <2>2, <2>3 DEF TableType, Starts
<1>7. EntriesTrue /\ EntriesApart
  BY <1>4 DEF EntriesTrue, EntriesApart
<1>8. ForkAtHand
  BY <1>5 DEF ForkAtHand, Starts
<1>9. ReportsTrue
  <2>1. Len(reported) = 0
    BY <1>1
  <2>. QED
    BY <2>1 DEF ReportsTrue
<1>. QED
  BY <1>6, <1>7, <1>8, <1>9 DEF ProcInv

LEMMA NextProcInv == ProcInv /\ [Next]_vars => ProcInv'
<1>. SUFFICES ASSUME ProcInv, [Next]_vars
              PROVE  ProcInv'
  OBVIOUS
<1>0. "op" \in DOMAIN call
  BY DEF ProcInv, TableType
<1>1. CASE (Waits \/ StreamCalls) /\ UNCHANGED pvars
  <2>1. ~Starts(call')
    BY <1>0, <1>1, WaitsStartNothing, CallsStartNothing
  <2>. QED
    BY <1>1, <2>1, QuietStep DEF Starts
<1>2. CASE Record
  BY <1>2, RecordStep
<1>3. CASE any_child_status
  BY <1>3, ReportStep
<1>4. ASSUME NEW op \in Spawns,
             (\E b \in BOOLEAN : SpawnFails(op, b)) \/ SecondPipeFails(op) \/ ForkFails(op)
      PROVE  ProcInv'
  BY <1>4, SpawnFailsStep
<1>5. ASSUME NEW op \in Spawns, NEW flag \in {FALSE, "detached" \in program.ops}, Fork(op, flag)
      PROVE  ProcInv'
  <2>1. ("detached" \in program.ops) \in BOOLEAN
    OBVIOUS
  <2>2. \A d \in BOOLEAN : \A f \in {FALSE, d} : f \in BOOLEAN
    OBVIOUS
  <2>3. flag \in BOOLEAN
    BY <2>1, <2>2, Zenon
  <2>. QED
    BY <1>5, <2>3, ForkStep
<1>6. ASSUME NEW i \in NSlots, child_status(i) \/ \E b \in BOOLEAN : child_stream(i, b)
      PROVE  ProcInv'
  BY <1>6, AskStep
<1>7. ASSUME NEW i \in NSlots, NEW b \in BOOLEAN, interrupt_child(i, b)
      PROVE  ProcInv'
  BY <1>7, InterruptStep
<1>8. CASE Signal
  BY <1>8, SignalStep
<1>9. CASE Others
  BY <1>9, OthersStep
<1>10. CASE UNCHANGED vars
  <2>1. UNCHANGED <<children, procs, reported, call>>
    BY <1>10 DEF vars, svars, pvars
  <2>2. TableInv /\ Later /\ Reassigned(children, children') /\ "op" \in DOMAIN call'
    BY <1>0, <2>1, SameTable, SameProcesses DEF ProcInv, TableInv
  <2>3. TableInv'
    BY <2>1, <2>2, TableGoesOn
  <2>. QED
    BY <2>1, <2>2, <2>3, StaysAtHand
<1>. QED
  BY <1>1, <1>2, <1>3, <1>4, <1>5, <1>6, <1>7, <1>8, <1>9, <1>10 DEF Next, Session

(* The table of children and the processes agree between any two steps:    *)
(* what an entry says of an ended child is how it ended, no two entries    *)
(* are for one child, and a child whose number is not entered yet is in no *)
(* entry and no report.                                                    *)
THEOREM TableKept == Spec => []ProcInv
<1>. QED
  BY InitProcInv, NextProcInv, PTL DEF Spec

(* What childstatus -1 tells of a child is how it ended, and is told once. *)
THEOREM EndsToldTruly == Spec => []ReportsTrue
<1>1. ProcInv => ReportsTrue
  BY DEF ProcInv
<1>. QED
  BY <1>1, TableKept, PTL
-------------------------------------------------------------------------------
(* The ends of the queues.  While a child runs, it alone can write to its  *)
(* queue: no descriptor of the session and no other process has an end.    *)
OnlyWriter(p) ==
  /\ procs[p].stdout \in Queues
  /\ [in |-> 0, out |-> procs[p].stdout] \in procs[p].ends
  /\ \A e \in Range(fds) : e.out # procs[p].stdout
  /\ \A o \in Pids \ {p} : \A e \in procs[o].ends : e.out # procs[p].stdout

EndsInv ==
  /\ held = Held(procs)
  /\ \A p \in Pids : procs[p].state = "running" => OnlyWriter(p)

(* An end that another process holds cannot be got by opening. *)
Fresher(e) == e \in Range(fds) \/ e.out = 0 \/ \A h \in held : h.out # e.out

(* Processes keep their ends, until they end. *)
EndsFollow ==
  \A p \in Pids :
    /\ procs'[p].stdout = procs[p].stdout
    /\ procs'[p].ends = procs[p].ends \/ procs'[p].ends = {}
    /\ procs'[p].state = "running" => procs[p].state = "running" /\ procs'[p].ends = procs[p].ends
    /\ procs[p].state = "running" /\ procs'[p].state # "running" => procs'[p].ends = {}

EndSeen ==
  \A p \in Pids : procs[p].state = "running" /\ procs'[p].state # "running"
                  => Writers(procs[p].stdout)' = {}

LEMMA EndsGoOn ==
  ASSUME EndsInv, EndsFollow, held' = Held(procs'), \A e \in Range(fds') : Fresher(e)
  PROVE  EndsInv' /\ EndSeen
<1>1. ASSUME NEW p \in Pids, procs[p].state = "running"
      PROVE  /\ procs[p].stdout # 0
             /\ \A e \in Range(fds') : e.out # procs[p].stdout
             /\ \A o \in Pids \ {p} : \A e \in procs'[o].ends : e.out # procs[p].stdout
  <2>1. OnlyWriter(p)
    BY <1>1 DEF EndsInv
  <2>2. procs[p].stdout # 0
    BY <2>1, StreamsAssumption DEF OnlyWriter, Queues
  <2>3. [in |-> 0, out |-> procs[p].stdout] \in held
    BY <2>1 DEF OnlyWriter, EndsInv, Held
  <2>4. \E h \in held : h.out = procs[p].stdout
    BY <2>3
  <2>5. \A e \in Range(fds') : e.out # procs[p].stdout
    BY <2>1, <2>2, <2>4 DEF Fresher, OnlyWriter
  <2>6. \A o \in Pids \ {p} : \A e \in procs'[o].ends : e.out # procs[p].stdout
    BY <2>1 DEF OnlyWriter, EndsFollow
  <2>. QED
    BY <2>2, <2>5, <2>6
<1>2. ASSUME NEW p \in Pids, procs'[p].state = "running"
      PROVE  OnlyWriter(p)'
  <2>1. /\ procs[p].state = "running" /\ procs'[p].ends = procs[p].ends
        /\ procs'[p].stdout = procs[p].stdout
    BY <1>2 DEF EndsFollow
  <2>2. OnlyWriter(p)
    BY <2>1 DEF EndsInv
  <2>. QED
    BY <2>1, <2>2, <1>1 DEF OnlyWriter
<1>3. ASSUME NEW p \in Pids, procs[p].state = "running", procs'[p].state # "running"
      PROVE  Writers(procs[p].stdout)' = {}
  <2>1. procs'[p].ends = {} /\ procs'[p].stdout = procs[p].stdout
    BY <1>3 DEF EndsFollow
  <2>2. \A e \in Held(procs') : e.out # procs[p].stdout
    BY <2>1, <1>1, <1>3 DEF Held
  <2>3. \A e \in Ends' : e.out # procs'[p].stdout
    BY <2>1, <2>2, <1>1, <1>3 DEF Ends
  <2>. QED
    BY <2>3 DEF Writers
<1>. QED
  BY <1>2, <1>3 DEF EndsInv, EndSeen

(* Descriptors are closed. *)
Closes(f, g) == \A e \in Range(g) : e \in Range(f) \/ e = NoEnd

LEMMA ClosesMore ==
  ASSUME NEW f, NEW g, NEW h, Closes(f, g), Closes(g, h)
  PROVE  Closes(f, h)
BY DEF Closes

LEMMA ClosesNone == \A f : Closes(f, f)
BY DEF Closes

LEMMA ReplacedRange ==
  ASSUME NEW f, NEW d, NEW v
  PROVE  \A e \in Range([f EXCEPT ![d] = v]) : e \in Range(f) \/ e = v
BY DEF Range

LEMMA FreeCloses ==
  ASSUME NEW t, NEW s
  PROVE  Closes(t.fds, nio_freeStream(t, s).fds)
<1>1. CASE s \in NIndex /\ t.streams[s].chain # <<>>
  <2>1. nio_freeStream(t, s).fds = Shut(t.fds, t.streams[s].fd)
    BY <1>1 DEF nio_freeStream
  <2>2. \A f, d : Closes(f, Shut(f, d))
    BY ReplacedRange DEF Shut, Closes
  <2>. QED
    BY <2>1, <2>2
<1>2. CASE ~(s \in NIndex /\ t.streams[s].chain # <<>>)
  BY <1>2, ClosesNone DEF nio_freeStream
<1>. QED
  BY <1>1, <1>2

IsTable(t) == {"pool", "streams", "fds"} \subseteq DOMAIN t

LEMMA TableKeptByStreams ==
  /\ IsTable(Table) /\ Table.fds = fds
  /\ \A t, s : IsTable(t) => IsTable(nio_freeStream(t, s))
  /\ \A t : IsTable(t) => IsTable(nio_createStream(t).table) /\ nio_createStream(t).table.fds = t.fds
<1>1. IsTable(Table) /\ Table.fds = fds
  BY DEF IsTable, Table
<1>2. ASSUME NEW t, NEW s, IsTable(t) PROVE IsTable(nio_freeStream(t, s))
  BY <1>2 DEF IsTable, nio_freeStream
<1>3. ASSUME NEW t, IsTable(t)
      PROVE  IsTable(nio_createStream(t).table) /\ nio_createStream(t).table.fds = t.fds
  <2>1. ASSUME NEW x PROVE LET u == [t EXCEPT !.pool = x] IN IsTable(u) /\ u.fds = t.fds
    BY <1>3 DEF IsTable
  <2>2. ASSUME NEW x, NEW i, NEW w PROVE LET u == [t EXCEPT !.pool = x, !.streams[i] = w]
                                         IN  IsTable(u) /\ u.fds = t.fds
    BY <1>3 DEF IsTable
  <2>3. \/ nio_createStream(t).table = t
        \/ \E x : nio_createStream(t).table = [t EXCEPT !.pool = x]
        \/ \E x, i, w : nio_createStream(t).table = [t EXCEPT !.pool = x, !.streams[i] = w]
    BY DEF nio_createStream
  <2>4. ASSUME NEW x, nio_createStream(t).table = [t EXCEPT !.pool = x]
        PROVE  IsTable(nio_createStream(t).table) /\ nio_createStream(t).table.fds = t.fds
    <3>1. LET u == [t EXCEPT !.pool = x] IN IsTable(u) /\ u.fds = t.fds
      BY <2>1
    <3>. QED
      BY <3>1, <2>4, Zenon
  <2>5. ASSUME NEW x, NEW i, NEW w,
               nio_createStream(t).table = [t EXCEPT !.pool = x, !.streams[i] = w]
        PROVE  IsTable(nio_createStream(t).table) /\ nio_createStream(t).table.fds = t.fds
    <3>1. LET u == [t EXCEPT !.pool = x, !.streams[i] = w] IN IsTable(u) /\ u.fds = t.fds
      BY <2>2
    <3>. QED
      BY <3>1, <2>5, Zenon
  <2>. QED
    BY <2>3, <2>4, <2>5, <1>3, Zenon
<1>. QED
  BY <1>1, <1>2, <1>3

LEMMA ReleaseCloses ==
  ASSUME NEW t, NEW c, IsTable(t)
  PROVE  IsTable(releaseChild(t, c)) /\ Closes(t.fds, releaseChild(t, c).fds)
<1>. DEFINE u == nio_freeStream(t, c.rd)
            v == nio_freeStream(u, c.wr)
<1>1. IsTable(u) /\ Closes(t.fds, u.fds)
  BY FreeCloses, TableKeptByStreams
<1>. HIDE DEF u
<1>2. IsTable(v) /\ Closes(u.fds, v.fds)
  BY <1>1, FreeCloses, TableKeptByStreams
<1>3. Closes(t.fds, v.fds)
  BY <1>1, <1>2, ClosesMore
<1>. QED
  BY <1>2, <1>3 DEF releaseChild, u

LEMMA AssignCloses ==
  IsTable(assignChild.table) /\ Closes(fds, assignChild.table.fds)
<1>1. CASE Assignable = {}
  <2>1. assignChild = NotAssigned(Table, children)
    BY <1>1 DEF assignChild
  <2>2. assignChild.table = Table
    BY <2>1 DEF NotAssigned
  <2>. QED
    BY <2>2, TableKeptByStreams, ClosesNone
<1>2. CASE Assignable # {}
  <2>. DEFINE i  == Min(Assignable)
              t  == IF children[i].status # 0 THEN releaseChild(Table, children[i]) ELSE Table
              rd == nio_createStream(t)
              wr == nio_createStream(rd.table)
              entry == [NoChild EXCEPT !.status = ACTIVE_CHILD, !.rd = rd.made, !.wr = wr.made]
              freed == nio_freeStream(wr.table, rd.made)
              left == nio_freeStream(freed, wr.made)
  <2>1. \/ assignChild.table = left
        \/ assignChild.table = wr.table
    <3>1. assignChild = IF rd.made = -1 \/ wr.made = -1
                        THEN NotAssigned(left, [children EXCEPT ![i] = NoChild])
                        ELSE [slot |-> i, table |-> wr.table,
                              children |-> [children EXCEPT ![i] = entry]]
      BY <1>2 DEF assignChild
    <3>. HIDE DEF left, rd, wr, i, entry
    <3>. QED
      BY <3>1 DEF NotAssigned
  <2>2. IsTable(t) /\ Closes(fds, t.fds)
    BY TableKeptByStreams, ReleaseCloses, ClosesNone
  <2>. HIDE DEF t
  <2>3. IsTable(rd.table) /\ rd.table.fds = t.fds
    BY <2>2, TableKeptByStreams
  <2>. HIDE DEF rd
  <2>4. IsTable(wr.table) /\ wr.table.fds = t.fds
    BY <2>3, TableKeptByStreams
  <2>. HIDE DEF wr
  <2>5. IsTable(freed) /\ Closes(t.fds, freed.fds)
    BY <2>4, TableKeptByStreams, FreeCloses
  <2>. HIDE DEF freed
  <2>6. IsTable(left) /\ Closes(freed.fds, left.fds)
    BY <2>5, TableKeptByStreams, FreeCloses
  <2>7. Closes(fds, left.fds)
    BY <2>2, <2>5, <2>6, ClosesMore
  <2>. HIDE DEF left
  <2>. QED
    BY <2>1, <2>2, <2>4, <2>6, <2>7
<1>. QED
  BY <1>1, <1>2

(* The queues that nobody has. *)
LEMMA IdleQueues ==
  ASSUME NEW f
  PROVE  /\ Cardinality(Idle(f)) >= 1 => Lowest(Idle(f), 1) \in Idle(f)
         /\ Cardinality(Idle(f)) >= 2 => /\ Lowest(Idle(f), 1) \in Idle(f)
                                         /\ Lowest(Idle(f), 2) \in Idle(f)
                                         /\ Lowest(Idle(f), 1) # Lowest(Idle(f), 2)
<1>. DEFINE S == Idle(f)
<1>1. S \in SUBSET Nat /\ IsFiniteSet(S)
  <2>1. IsFiniteSet(Queues) /\ Queues \in SUBSET Nat
    BY StreamsAssumption, FS_Interval DEF Queues
  <2>2. S \subseteq Queues
    BY DEF Idle
  <2>. QED
    BY <2>1, <2>2, FS_Subset
<1>. HIDE DEF S
<1>2. Lowest(S, 1) = Min(S) /\ Lowest(S, 2) = Min(Rest(S))
  BY DEF Lowest
<1>3. ASSUME Cardinality(S) >= 1 PROVE Min(S) \in S
  <2>1. S # {}
    BY <1>3, FS_EmptySet
  <2>. QED
    BY <2>1, <1>1, LeastOf
<1>4. ASSUME Cardinality(S) >= 2 PROVE Min(Rest(S)) \in S /\ Min(Rest(S)) # Min(S)
  <2>1. Rest(S) # {}
    <3>. SUFFICES ASSUME Rest(S) = {} PROVE FALSE
      OBVIOUS
    <3>1. S \subseteq {Min(S)}
      BY DEF Rest
    <3>2. IsFiniteSet({Min(S)}) /\ Cardinality({Min(S)}) = 1
      BY FS_Singleton
    <3>3. Cardinality(S) <= 1
      BY <3>1, <3>2, FS_Subset
    <3>4. Cardinality(S) \in Nat
      BY <1>1, FS_CardinalityType
    <3>. QED
      BY <3>3, <3>4, <1>4
  <2>2. Rest(S) \in SUBSET Nat
    BY <1>1 DEF Rest
  <2>3. Min(Rest(S)) \in Rest(S)
    BY <2>1, <2>2, LeastOf
  <2>. QED
    BY <2>3 DEF Rest
<1>5. Cardinality(S) \in Nat
  BY <1>1, FS_CardinalityType
<1>. QED
  BY <1>2, <1>3, <1>4, <1>5 DEF S

(* A queue that nobody has is held by no other process, and a new pipe or  *)
(* pair of sockets is on such queues.                                      *)
LEMMA IdleUnheld ==
  ASSUME NEW f, NEW q \in Idle(f)
  PROVE  /\ q \in Queues
         /\ \A h \in held : h.out # q
         /\ \A e \in Range(f) : e.out # q
BY DEF Idle, Has

LEMMA OpenedEnds ==
  ASSUME NEW f, Closes(fds, f)
  PROVE  /\ \A e \in Range(f) : Fresher(e)
         /\ Cardinality(Idle(f)) >= 1 => \A e \in Range(Pipe(f)) : Fresher(e)
         /\ Cardinality(Idle(f)) >= 2 => \A e \in Range(PairOfSockets(f)) : Fresher(e)
<1>1. \A e \in Range(f) : Fresher(e)
  BY DEF Closes, Fresher, NoEnd
<1>2. ASSUME NEW x, NEW y, NEW d, NEW v, NEW g,
             \A e \in Range(g) : Fresher(e), \A h \in held : h.out # y
      PROVE  \A e \in Range([g EXCEPT ![d] = [in |-> x, out |-> y]]) : Fresher(e)
  <2>. DEFINE end == [in |-> x, out |-> y]
  <2>1. Fresher(end)
    BY <1>2 DEF Fresher
  <2>. HIDE DEF end
  <2>2. \A e \in Range([g EXCEPT ![d] = end]) : e \in Range(g) \/ e = end
    BY ReplacedRange
  <2>3. \A e \in Range([g EXCEPT ![d] = end]) : Fresher(e)
    BY <1>2, <2>1, <2>2
  <2>. QED
    BY <2>3 DEF end
<1>3. ASSUME NEW x, NEW d, NEW g, \A e \in Range(g) : Fresher(e)
      PROVE  \A e \in Range([g EXCEPT ![d] = [in |-> x, out |-> 0]]) : Fresher(e)
  <2>. DEFINE end == [in |-> x, out |-> 0]
  <2>1. Fresher(end)
    BY DEF Fresher
  <2>. HIDE DEF end
  <2>2. \A e \in Range([g EXCEPT ![d] = end]) : e \in Range(g) \/ e = end
    BY ReplacedRange
  <2>3. \A e \in Range([g EXCEPT ![d] = end]) : Fresher(e)
    BY <1>3, <2>1, <2>2
  <2>. QED
    BY <2>3 DEF end
<1>. DEFINE q == Lowest(Idle(f), 1)
            r == Lowest(Idle(f), 2)
            d1 == Lowest(Unused(f), 1)
            d2 == Lowest(Unused(f), 2)
<1>4. ASSUME Cardinality(Idle(f)) >= 1 PROVE \A e \in Range(Pipe(f)) : Fresher(e)
  <2>. DEFINE g == [f EXCEPT ![d1] = [in |-> q, out |-> 0]]
              g2 == [g EXCEPT ![d2] = [in |-> 0, out |-> q]]
  <2>1. \A h \in held : h.out # q
    BY <1>4, IdleQueues, IdleUnheld
  <2>2. Pipe(f) = g2
    BY DEF Pipe
  <2>. HIDE DEF q, d1, d2
  <2>3. \A e \in Range(g) : Fresher(e)
    BY <1>1, <1>3
  <2>. HIDE DEF g
  <2>4. \A e \in Range(g2) : Fresher(e)
    BY <1>2, <2>1, <2>3
  <2>. QED
    BY <2>2, <2>4
<1>5. ASSUME Cardinality(Idle(f)) >= 2 PROVE \A e \in Range(PairOfSockets(f)) : Fresher(e)
  <2>. DEFINE g == [f EXCEPT ![d1] = [in |-> q, out |-> r]]
              g2 == [g EXCEPT ![d2] = [in |-> r, out |-> q]]
  <2>1. (\A h \in held : h.out # q) /\ (\A h \in held : h.out # r)
    BY <1>5, IdleQueues, IdleUnheld
  <2>2. PairOfSockets(f) = g2
    BY DEF PairOfSockets
  <2>. HIDE DEF q, r, d1, d2
  <2>3. \A e \in Range(g) : Fresher(e)
    BY <1>1, <1>2, <2>1
  <2>. HIDE DEF g
  <2>4. \A e \in Range(g2) : Fresher(e)
    BY <1>2, <2>1, <2>3
  <2>. QED
    BY <2>2, <2>4
<1>. QED
  BY <1>1, <1>4, <1>5

(* An operation on streams opens no end that another process holds. *)
LEMMA StreamsOpenNone ==
  ASSUME \/ Waits \/ StreamCalls
         \/ ReadDone(TRUE) \/ UnblockField(TRUE) \/ UnblockCut(TRUE) \/ WriteDone(TRUE)
  PROVE  held' = held /\ \A e \in Range(fds') : Fresher(e)
<1>1. ASSUME UNCHANGED <<fds, held>>
      PROVE  held' = held /\ \A e \in Range(fds') : Fresher(e)
  BY <1>1 DEF Fresher
<1>2. ASSUME Fetch \/ WriteSome PROVE UNCHANGED <<fds, held>>
  BY <1>2 DEF Fetch, WriteSome
<1>3. ASSUME NEW b, ReadDone(b) \/ UnblockField(b) \/ UnblockCut(b) \/ WriteDone(b)
      PROVE  UNCHANGED <<fds, held>>
  BY <1>3 DEF ReadDone, UnblockField, UnblockCut, WriteDone, host
<1>4. ASSUME NEW fd, nio_open(fd) PROVE UNCHANGED <<fds, held>>
  BY <1>4 DEF nio_open, host
<1>5. ASSUME NEW s, \/ \E text \in Texts : nio_write(s, text) \/ nio_writeln(s, text)
                    \/ \E x \in Arrays : nio_block_array(s, x)
                    \/ \E b \in BOOLEAN : IsReady(s, b)
      PROVE  UNCHANGED <<fds, held>>
  BY <1>5 DEF nio_write, nio_writeln, nio_block_array, IsReady, host
<1>6. ASSUME NEW s, \/ nio_readln(s) \/ nio_unblock_array(s)
                    \/ \E n : nio_read(s, n)
                    \/ \E n, b : nio_read_stream(s, n, b)
                    \/ \E b : nio_write_stream(s, b)
      PROVE  UNCHANGED <<fds, held>>
  BY <1>6 DEF nio_readln, nio_unblock_array, nio_read, nio_read_stream, nio_write_stream, Begins, host
<1>7. ASSUME NEW s, nio_close(s)
      PROVE  held' = held /\ \A e \in Range(fds') : Fresher(e)
  <2>1. held' = held /\ fds' = nio_freeStream(Table, s).fds
    BY <1>7 DEF nio_close, Becomes
  <2>2. Closes(fds, fds')
    BY <2>1, FreeCloses, TableKeptByStreams
  <2>3. \A e \in Range(fds') : Fresher(e)
    BY <2>2 DEF Closes, Fresher, NoEnd
  <2>. QED
    BY <2>1, <2>3
<1>8. ASSUME nio_newpipe PROVE held' = held /\ \A e \in Range(fds') : Fresher(e)
  <2>1. held' = held /\ fds' = IF Room(fds, 2, 1) THEN Pipe(fds) ELSE fds
    BY <1>8 DEF nio_newpipe
  <2>2. Room(fds, 2, 1) => \A e \in Range(Pipe(fds)) : Fresher(e)
    BY OpenedEnds, ClosesNone DEF Room
  <2>3. \A e \in Range(fds) : Fresher(e)
    BY DEF Fresher
  <2>. QED
    BY <2>1, <2>2, <2>3
<1>9. ASSUME nio_socketpair PROVE held' = held /\ \A e \in Range(fds') : Fresher(e)
  <2>1. held' = held /\ fds' = IF Room(fds, 2, 2) THEN PairOfSockets(fds) ELSE fds
    BY <1>9 DEF nio_socketpair
  <2>2. Room(fds, 2, 2) => \A e \in Range(PairOfSockets(fds)) : Fresher(e)
    BY OpenedEnds, ClosesNone DEF Room
  <2>3. \A e \in Range(fds) : Fresher(e)
    BY DEF Fresher
  <2>. QED
    BY <2>1, <2>2, <2>3
<1>. QED
  BY <1>1, <1>2, <1>3, <1>4, <1>5, <1>6, <1>7, <1>8, <1>9 DEF Waits, StreamCalls

(* A step that changes no process. *)
LEMMA EndsStay ==
  ASSUME EndsInv, procs' = procs, held' = held, \A e \in Range(fds') : Fresher(e)
  PROVE  EndsInv' /\ EndSeen
<1>1. EndsFollow
  BY DEF EndsFollow
<1>2. held' = Held(procs')
  BY DEF EndsInv, Held
<1>. QED
  BY <1>1, <1>2, EndsGoOn

(* A step in which one process goes on to q. *)
LEMMA EndsOfOne ==
  ASSUME EndsInv, TableType, NEW p \in Pids, NEW q, procs' = [procs EXCEPT ![p] = q],
         q.stdout = procs[p].stdout,
         \/ q.state = procs[p].state /\ q.ends = procs[p].ends
         \/ q.state = "zombie" /\ q.ends = {},
         fds' = fds, held' = Held(procs')
  PROVE  EndsInv' /\ EndSeen
<1>1. procs'[p] = q /\ \A o \in Pids \ {p} : procs'[o] = procs[o]
  BY DEF TableType
<1>2. EndsFollow
  BY <1>1 DEF EndsFollow
<1>3. \A e \in Range(fds') : Fresher(e)
  BY DEF Fresher
<1>. QED
  BY <1>2, <1>3, EndsGoOn

LEMMA HeldSame ==
  ASSUME \A p \in Pids : procs'[p].ends = procs[p].ends
  PROVE  Held(procs') = Held(procs)
BY DEF Held

(* The fields of a process that falls, sends or is reaped. *)
LEMMA ProcessEnds ==
  ASSUME NEW r, Process(r)
  PROVE  /\ \A v : LET q == [r EXCEPT !.state = v] IN q.ends = r.ends /\ q.stdout = r.stdout
         /\ \A v : LET q == [r EXCEPT !.code = v]
                   IN  q.ends = r.ends /\ q.stdout = r.stdout /\ q.state = r.state
         /\ \A v : LET q == [r EXCEPT !.ends = v]
                   IN  q.ends = v /\ q.stdout = r.stdout /\ q.state = r.state
         /\ \A v : LET q == [r EXCEPT !.stdin = v]
                   IN  q.ends = r.ends /\ q.stdout = r.stdout /\ q.state = r.state
         /\ \A v : LET q == [r EXCEPT !.stdout = v]
                   IN  q.ends = r.ends /\ q.stdout = v /\ q.state = r.state
         /\ \A v : LET q == [r EXCEPT !.out = v]
                   IN  q.ends = r.ends /\ q.stdout = r.stdout /\ q.state = r.state
         /\ \A v : LET q == [r EXCEPT !.served = v]
                   IN  q.ends = r.ends /\ q.stdout = r.stdout /\ q.state = r.state
BY DEF Process

LEMMA FallsEnds ==
  ASSUME EndsInv, TableType, NEW p \in Pids, NEW code \in EndCodes, procs[p].state = "running",
         Falls(p, code), fds' = fds
  PROVE  EndsInv' /\ EndSeen
<1>. DEFINE a == [procs[p] EXCEPT !.state = "zombie"]
            b == [a EXCEPT !.code = code]
            c == [b EXCEPT !.ends = {}]
            q == [c EXCEPT !.out = <<>>]
<1>1. Process(procs[p])
  BY DEF TableType
<1>2. procs' = [procs EXCEPT ![p] = q] /\ held' = Held(procs')
  BY DEF Falls
<1>3. Process(a) /\ a.state = "zombie" /\ a.stdout = procs[p].stdout
  <2>1. Process(a) /\ a.state = "zombie"
    BY <1>1, ProcessChanged DEF States
  <2>2. a.stdout = procs[p].stdout
    BY <1>1, ProcessEnds
  <2>. QED
    BY <2>1, <2>2
<1>. HIDE DEF a
<1>4. Process(b) /\ b.state = "zombie" /\ b.stdout = procs[p].stdout
  BY <1>3, ProcessChanged, ProcessEnds
<1>. HIDE DEF b
<1>5. Process(c) /\ c.state = "zombie" /\ c.stdout = procs[p].stdout /\ c.ends = {}
  BY <1>4, ProcessChanged, ProcessEnds
<1>. HIDE DEF c
<1>6. q.state = "zombie" /\ q.stdout = procs[p].stdout /\ q.ends = {}
  BY <1>5, ProcessEnds
<1>. HIDE DEF q
<1>. QED
  BY <1>2, <1>6, EndsOfOne

LEMMA SendEnds ==
  ASSUME EndsInv, TableType, NEW p \in Pids, fds' = fds, held' = held,
         \/ \E v, w : procs' = [procs EXCEPT ![p].out = v, ![p].served = w]
         \/ \E v : procs' = [procs EXCEPT ![p].out = v]
  PROVE  EndsInv' /\ EndSeen
<1>1. Process(procs[p])
  BY DEF TableType
<1>2. ASSUME NEW q, procs' = [procs EXCEPT ![p] = q],
             q.state = procs[p].state, q.ends = procs[p].ends, q.stdout = procs[p].stdout
      PROVE  EndsInv' /\ EndSeen
  <2>1. \A o \in Pids : procs'[o].ends = procs[o].ends
    BY <1>2 DEF TableType
  <2>2. held' = Held(procs')
    BY <2>1, HeldSame DEF EndsInv
  <2>. QED
    BY <1>2, <2>2, EndsOfOne
<1>3. ASSUME NEW v
      PROVE  LET a == [procs[p] EXCEPT !.out = v]
             IN  Process(a) /\ a.state = procs[p].state /\ a.ends = procs[p].ends /\ a.stdout = procs[p].stdout
  BY <1>1, ProcessChanged, ProcessEnds
<1>4. ASSUME NEW v, procs' = [procs EXCEPT ![p].out = v] PROVE EndsInv' /\ EndSeen
  <2>. DEFINE a == [procs[p] EXCEPT !.out = v]
  <2>1. procs' = [procs EXCEPT ![p] = a]
    BY <1>4
  <2>2. a.state = procs[p].state /\ a.ends = procs[p].ends /\ a.stdout = procs[p].stdout
    BY <1>3
  <2>. HIDE DEF a
  <2>. QED
    BY <2>1, <2>2, <1>2
<1>5. ASSUME NEW v, NEW w, procs' = [procs EXCEPT ![p].out = v, ![p].served = w]
      PROVE  EndsInv' /\ EndSeen
  <2>. DEFINE a == [procs[p] EXCEPT !.out = v]
              b == [a EXCEPT !.served = w]
              ps == [procs EXCEPT ![p] = a]
  <2>1. Process(a) /\ a.state = procs[p].state /\ a.ends = procs[p].ends /\ a.stdout = procs[p].stdout
    BY <1>3
  <2>2. ps[p] = a
    BY DEF TableType
  <2>3. procs' = [ps EXCEPT ![p] = [ps[p] EXCEPT !.served = w]]
    BY <1>5
  <2>4. procs' = [ps EXCEPT ![p] = b]
    BY <2>2, <2>3
  <2>. HIDE DEF a
  <2>5. b.state = procs[p].state /\ b.ends = procs[p].ends /\ b.stdout = procs[p].stdout
    BY <2>1, ProcessEnds
  <2>. HIDE DEF b
  <2>6. procs' = [procs EXCEPT ![p] = b]
    BY <2>4
  <2>. QED
    BY <2>5, <2>6, <1>2
<1>. QED
  BY <1>4, <1>5

LEMMA HandlerEnds ==
  ASSUME EndsInv, TableType, handle_sigchld, fds' = fds, held' = held
  PROVE  EndsInv' /\ EndSeen
<1>. DEFINE dead == {p \in Pids : procs[p].state = "zombie"}
<1>1. procs' = [p \in Pids |-> IF p \in dead THEN [procs[p] EXCEPT !.state = "reaped"] ELSE procs[p]]
  BY DEF handle_sigchld
<1>2. ASSUME NEW p \in Pids
      PROVE  /\ procs'[p].ends = procs[p].ends /\ procs'[p].stdout = procs[p].stdout
             /\ procs'[p] = procs[p] \/ (procs[p].state = "zombie" /\ procs'[p].state = "reaped")
  <2>. DEFINE q == [procs[p] EXCEPT !.state = "reaped"]
  <2>1. Process(procs[p])
    BY DEF TableType
  <2>2. q.ends = procs[p].ends /\ q.stdout = procs[p].stdout /\ q.state = "reaped"
    BY <2>1, ProcessChanged, ProcessEnds DEF States
  <2>3. procs'[p] = IF p \in dead THEN q ELSE procs[p]
    BY <1>1
  <2>4. p \in dead <=> procs[p].state = "zombie"
    OBVIOUS
  <2>. HIDE DEF q, dead
  <2>. QED
    BY <2>2, <2>3, <2>4
<1>. HIDE DEF dead
<1>3. EndsFollow
  BY <1>2 DEF EndsFollow
<1>4. held' = Held(procs')
  BY <1>2, HeldSame DEF EndsInv
<1>5. \A e \in Range(fds') : Fresher(e)
  BY DEF Fresher
<1>. QED
  BY <1>3, <1>4, <1>5, EndsGoOn

(* The ends the session keeps of what it shares with a child: the queue    *)
(* from is not written.                                                    *)
LEMMA ParentRange ==
  ASSUME NEW f, NEW shell \in BOOLEAN, NEW to, NEW from
  PROVE  \A e \in Range(ParentEnds(f, shell, to, from)) : e \in Range(f) \/ e.out \in {to, 0}
<1>. DEFINE free(k) == Lowest(Unused(f), k)
            both == [in |-> from, out |-> to]
            writing == [in |-> 0, out |-> to]
            reading == [in |-> from, out |-> 0]
            g == [f EXCEPT ![free(2)] = writing]
<1>1. ParentEnds(f, shell, to, from)
      = IF shell THEN [f EXCEPT ![free(1)] = both] ELSE [g EXCEPT ![free(3)] = reading]
  BY DEF ParentEnds
<1>2. both.out = to /\ writing.out = to /\ reading.out = 0
  OBVIOUS
<1>. HIDE DEF both, writing, reading, free
<1>3. \A e \in Range([f EXCEPT ![free(1)] = both]) : e \in Range(f) \/ e = both
  BY ReplacedRange
<1>4. \A e \in Range(g) : e \in Range(f) \/ e = writing
  BY ReplacedRange
<1>. HIDE DEF g
<1>5. \A e \in Range([g EXCEPT ![free(3)] = reading]) : e \in Range(g) \/ e = reading
  BY ReplacedRange
<1>. QED
  BY <1>1, <1>2, <1>3, <1>4, <1>5

LEMMA NewProcessEnds ==
  ASSUME NEW to, NEW from, NEW ends
  PROVE  LET q == [NoProc EXCEPT !.state = "running", !.stdin = to, !.stdout = from, !.ends = ends]
         IN  q.stdout = from /\ q.ends = ends /\ q.state = "running"
<1>. DEFINE a == [NoProc EXCEPT !.state = "running"]
            b == [a EXCEPT !.stdin = to]
            c == [b EXCEPT !.stdout = from]
            d == [c EXCEPT !.ends = ends]
<1>1. Process(a) /\ a.state = "running"
  BY NoProcess, ProcessChanged DEF States
<1>. HIDE DEF a
<1>2. Process(b)
  BY <1>1, ProcessChanged
<1>3. b.state = "running"
  BY <1>1, ProcessEnds
<1>. HIDE DEF b
<1>4. Process(c)
  BY <1>2, ProcessChanged
<1>5. c.stdout = from /\ c.state = "running"
  BY <1>2, <1>3, ProcessEnds
<1>. HIDE DEF c
<1>6. d.stdout = from /\ d.ends = ends /\ d.state = "running"
  BY <1>4, <1>5, ProcessEnds
<1>. QED
  BY <1>6 DEF a, b, c, d

(* The fork: the child has the only end that writes to its queue, and gets *)
(* none that writes to the queue of another child.                         *)
LEMMA ForkEnds ==
  ASSUME EndsInv, TableType, NEW op \in Spawns, NEW flag \in BOOLEAN, Fork(op, flag)
  PROVE  EndsInv' /\ EndSeen
<1>. DEFINE f   == assignChild.table.fds
            pid == Min(NewPids)
            shell == op = "spawn_shell"
            to    == Lowest(Idle(f), 1)
            from  == Lowest(Idle(f), 2)
            own == [in |-> 0, out |-> from]
            read == [in |-> to, out |-> 0]
            ends  == {read, own} \cup (Range(f) \ {NoEnd})
            q == [NoProc EXCEPT !.state = "running", !.stdin = to, !.stdout = from, !.ends = ends]
<1>1. /\ procs' = [procs EXCEPT ![pid] = q] /\ held' = Held(procs')
      /\ fds' = ParentEnds(f, shell, to, from)
      /\ Room(f, IF shell THEN 1 ELSE 4, 2)
  BY DEF Fork
<1>2. pid \in NewPids
  BY LeastOf, PidsAreNumbers DEF Fork, NewPids
<1>3. pid \in Pids /\ procs[pid].state = "none"
  BY <1>2 DEF NewPids
<1>4. to \in Idle(f) /\ from \in Idle(f) /\ to # from
  BY <1>1, IdleQueues DEF Room
<1>5. Closes(fds, f)
  BY AssignCloses
<1>6. q.stdout = from /\ q.ends = ends /\ q.state = "running"
  BY NewProcessEnds
<1>7. read.out = 0 /\ own.out = from /\ own.in = 0 /\ NoEnd.out = 0
  BY DEF NoEnd
<1>8. own \in ends /\ \A e \in ends : e \in {read, own} \cup Range(f)
  OBVIOUS
<1>9. own = [in |-> 0, out |-> from]
  OBVIOUS
<1>. HIDE DEF f, pid, shell, to, from, own, read, ends, q
<1>10. /\ to \in Queues /\ from \in Queues /\ from # 0
       /\ \A h \in held : h.out # from /\ h.out # to
       /\ \A e \in Range(f) : e.out # from
  <2>1. to \in Queues /\ from \in Queues
        /\ (\A h \in held : h.out # from) /\ (\A h \in held : h.out # to)
        /\ \A e \in Range(f) : e.out # from
    BY <1>4, IdleUnheld
  <2>2. from # 0
    BY <2>1, StreamsAssumption DEF Queues
  <2>. QED
    BY <2>1, <2>2
<1>11. \A e \in Range(fds') : e \in Range(f) \/ e.out \in {to, 0}
  <2>1. shell \in BOOLEAN
    BY DEF shell
  <2>. QED
    BY <2>1, <1>1, ParentRange
<1>n. PICK n \in Pids : n = pid
  BY <1>3
<1>12. procs'[n] = q /\ \A o \in Pids \ {n} : procs'[o] = procs[o]
  BY <1>1, <1>n DEF TableType
<1>13. OnlyWriter(n)'
  <2>1. procs'[n].stdout = from /\ procs'[n].ends = ends
    BY <1>6, <1>12
  <2>2. \A e \in Range(fds') : e.out # from
    BY <1>4, <1>10, <1>11
  <2>3. \A o \in Pids \ {n} : \A e \in procs'[o].ends : e.out # from
    <3>1. \A o \in Pids : procs[o].ends \subseteq held
      BY DEF EndsInv, Held
    <3>. QED
      BY <3>1, <1>10, <1>12
  <2>. QED
    BY <1>8, <1>9, <1>10, <2>1, <2>2, <2>3 DEF OnlyWriter
<1>14. ASSUME NEW p \in Pids \ {n}, procs[p].state = "running"
       PROVE  OnlyWriter(p)'
  <2>1. OnlyWriter(p) /\ procs'[p] = procs[p]
    BY <1>12, <1>14 DEF EndsInv
  <2>2. procs[p].stdout \in Queues /\ procs[p].stdout # 0
    BY <2>1, StreamsAssumption DEF OnlyWriter, Queues
  <2>3. [in |-> 0, out |-> procs[p].stdout] \in held
    BY <2>1 DEF OnlyWriter, EndsInv, Held
  <2>4. \E h \in held : h.out = procs[p].stdout
    BY <2>3
  <2>5. procs[p].stdout # to /\ procs[p].stdout # from
    BY <2>4, <1>10
  <2>6. \A e \in Range(f) : e.out # procs[p].stdout
    BY <2>1, <2>2, <1>5, <1>7 DEF Closes, OnlyWriter
  <2>7. \A e \in Range(fds') : e.out # procs[p].stdout
    BY <2>2, <2>5, <2>6, <1>11
  <2>8. \A e \in ends : e.out # procs[p].stdout
    BY <2>2, <2>5, <2>6, <1>7, <1>8
  <2>9. \A o \in Pids \ {p} : \A e \in procs'[o].ends : e.out # procs[p].stdout
    BY <2>1, <2>8, <1>6, <1>12 DEF OnlyWriter
  <2>. QED
    BY <2>1, <2>7, <2>9 DEF OnlyWriter
<1>15. EndsInv'
  <2>1. \A p \in Pids : procs[p].state = "running" \/ procs'[p].state # "running" \/ p = n
    BY <1>12
  <2>2. \A p \in Pids \ {n} : procs[p].state = "running" => OnlyWriter(p)'
    BY <1>14
  <2>3. \A p \in Pids : procs'[p].state = "running" => OnlyWriter(p)'
    BY <2>1, <2>2, <1>13
  <2>. QED
    BY <2>3, <1>1 DEF EndsInv
<1>16. EndSeen
  <2>1. \A p \in Pids : procs[p].state = "running" => procs'[p].state = "running"
    BY <1>3, <1>n, <1>6, <1>12
  <2>. QED
    BY <2>1 DEF EndSeen
<1>. QED
  BY <1>15, <1>16

LEMMA SpawnFailsEnds ==
  ASSUME EndsInv, NEW op \in Spawns,
         (\E b \in BOOLEAN : SpawnFails(op, b)) \/ SecondPipeFails(op) \/ ForkFails(op)
  PROVE  EndsInv' /\ EndSeen
<1>1. ASSUME NEW a, NEW r, SpawnEnds(a, r), \A e \in Range(a.table.fds) : Fresher(e)
      PROVE  EndsInv' /\ EndSeen
  <2>1. procs' = procs /\ held' = held /\ fds' = a.table.fds
    BY <1>1 DEF SpawnEnds, Becomes
  <2>. QED
    BY <1>1, <2>1, EndsStay
<1>2. IsTable(assignChild.table) /\ Closes(fds, assignChild.table.fds)
  BY AssignCloses
<1>3. \A g : Closes(fds, g) => \A e \in Range(g) : Fresher(e)
  BY DEF Closes, Fresher, NoEnd
<1>4. ASSUME NEW b, SpawnFails(op, b) PROVE EndsInv' /\ EndSeen
  <2>1. SpawnEnds(assignChild, Fault(op, 0))
    BY <1>4 DEF SpawnFails
  <2>. QED
    BY <2>1, <1>1, <1>2, <1>3
<1>5. ASSUME SecondPipeFails(op) PROVE EndsInv' /\ EndSeen
  <2>. DEFINE t == assignChild.table
              a == [assignChild EXCEPT !.table.fds = Pipe(@)]
  <2>1. SpawnEnds(a, Fault(op, 0)) /\ Room(t.fds, 2, 1)
    BY <1>5 DEF SecondPipeFails
  <2>2. a.table.fds = Pipe(t.fds)
    BY AssignShape, <1>2 DEF IsTable
  <2>. HIDE DEF a
  <2>3. \A e \in Range(Pipe(t.fds)) : Fresher(e)
    BY <2>1, <1>2, OpenedEnds DEF Room
  <2>. HIDE DEF t
  <2>4. \A e \in Range(a.table.fds) : Fresher(e)
    BY <2>2, <2>3
  <2>. QED
    BY <2>1, <2>4, <1>1
<1>6. ASSUME ForkFails(op) PROVE EndsInv' /\ EndSeen
  <2>. DEFINE a == assignChild
              back == releaseChild(a.table, a.children[a.slot])
              given == [a EXCEPT !.table = back, !.children[a.slot] = NoChild]
  <2>1. SpawnEnds(IF op = "spawn_shell" THEN a ELSE given, Fault(op, 0))
    BY <1>6 DEF ForkFails
  <2>2. given.table = back
    BY AssignShape
  <2>3. Closes(fds, back.fds)
    BY <1>2, ReleaseCloses, ClosesMore
  <2>. HIDE DEF given, back
  <2>4. (\A e \in Range(a.table.fds) : Fresher(e)) /\ (\A e \in Range(given.table.fds) : Fresher(e))
    BY <1>2, <1>3, <2>2, <2>3
  <2>. HIDE DEF a
  <2>. QED
    BY <2>1, <2>4, <1>1
<1>. QED
  BY <1>4, <1>5, <1>6

-------------------------------------------------------------------------------
LEMMA InitEndsInv == Init => EndsInv
<1>. SUFFICES ASSUME Init
              PROVE  EndsInv
  OBVIOUS
<1>1. \A p \in Pids : procs[p] = NoProc
  BY DEF Init
<1>2. NoProc.state = "none" /\ NoProc.ends = {}
  BY DEF NoProc
<1>3. held = {}
  BY DEF Init, SInit
<1>. QED
  BY <1>1, <1>2, <1>3 DEF EndsInv, Held

LEMMA NextEndsInv == ProcInv /\ EndsInv /\ [Next]_vars => EndsInv' /\ EndSeen
<1>. SUFFICES ASSUME ProcInv, EndsInv, [Next]_vars
              PROVE  EndsInv' /\ EndSeen
  OBVIOUS
<1>0. TableType
  BY DEF ProcInv
<1>1. ASSUME procs' = procs, UNCHANGED <<fds, held>>
      PROVE  EndsInv' /\ EndSeen
  <2>1. \A e \in Range(fds') : Fresher(e)
    BY <1>1 DEF Fresher
  <2>. QED
    BY <1>1, <2>1, EndsStay
<1>2. CASE (Waits \/ StreamCalls) /\ UNCHANGED pvars
  <2>1. held' = held /\ \A e \in Range(fds') : Fresher(e)
    BY <1>2, StreamsOpenNone
  <2>2. procs' = procs
    BY <1>2 DEF pvars
  <2>. QED
    BY <2>1, <2>2, EndsStay
<1>3. CASE Record
  BY <1>3, <1>1 DEF Record, host
<1>4. CASE any_child_status
  <2>. DEFINE k == Min({i \in NSlots : Ended(children[i]) /\ ~children[i].unmanaged})
              t == releaseChild(Table, children[k])
  <2>1. \/ UNCHANGED host /\ UNCHANGED pvars
        \/ held' = held /\ fds' = t.fds /\ procs' = procs
    BY <1>4 DEF any_child_status, Becomes
  <2>2. Closes(fds, t.fds)
    BY TableKeptByStreams, ReleaseCloses
  <2>. HIDE DEF k, t
  <2>3. \A e \in Range(t.fds) : Fresher(e)
    BY <2>2 DEF Closes, Fresher, NoEnd
  <2>4. CASE UNCHANGED host /\ UNCHANGED pvars
    BY <2>4, <1>1 DEF host, pvars
  <2>5. CASE held' = held /\ fds' = t.fds /\ procs' = procs
    BY <2>3, <2>5, EndsStay
  <2>. QED
    BY <2>1, <2>4, <2>5
<1>5. ASSUME NEW op \in Spawns,
             (\E b \in BOOLEAN : SpawnFails(op, b)) \/ SecondPipeFails(op) \/ ForkFails(op)
      PROVE  EndsInv' /\ EndSeen
  BY <1>5, SpawnFailsEnds
<1>6. ASSUME NEW op \in Spawns, NEW flag \in {FALSE, "detached" \in program.ops}, Fork(op, flag)
      PROVE  EndsInv' /\ EndSeen
  <2>1. ("detached" \in program.ops) \in BOOLEAN
    OBVIOUS
  <2>2. \A d \in BOOLEAN : \A f \in {FALSE, d} : f \in BOOLEAN
    OBVIOUS
  <2>3. flag \in BOOLEAN
    BY <2>1, <2>2, Zenon
  <2>. QED
    BY <1>0, <1>6, <2>3, ForkEnds
<1>7. ASSUME NEW i \in NSlots, child_status(i) \/ \E b \in BOOLEAN : child_stream(i, b)
      PROVE  EndsInv' /\ EndSeen
  BY <1>7, <1>1 DEF child_status, child_stream, host, pvars
<1>8. ASSUME NEW i \in NSlots, NEW b \in BOOLEAN, interrupt_child(i, b)
      PROVE  EndsInv' /\ EndSeen
  <2>. DEFINE p == children[i].child
  <2>1. \/ UNCHANGED host /\ UNCHANGED pvars
        \/ /\ p # NoPid /\ procs[p].state = "running"
           /\ Falls(p, Signalled) /\ fds' = fds
    BY <1>8 DEF interrupt_child
  <2>2. p # NoPid => p \in Pids
    BY <1>0 DEF TableType, Entry
  <2>. HIDE DEF p
  <2>3. CASE UNCHANGED host /\ UNCHANGED pvars
    BY <2>3, <1>1 DEF host, pvars
  <2>4. CASE p # NoPid /\ procs[p].state = "running" /\ Falls(p, Signalled) /\ fds' = fds
    BY <2>2, <2>4, <1>0, FallsEnds DEF EndCodes
  <2>. QED
    BY <2>1, <2>3, <2>4
<1>9. CASE Signal
  <2>1. handle_sigchld /\ UNCHANGED <<fds, held>>
    <3>1. handle_sigchld
      BY <1>9 DEF Signal
    <3>2. \/ UNCHANGED svars
          \/ ReadDone(TRUE) \/ UnblockField(TRUE) \/ UnblockCut(TRUE) \/ WriteDone(TRUE)
      BY <1>9 DEF Signal
    <3>3. UNCHANGED svars => UNCHANGED <<fds, held>>
      BY DEF svars, host
    <3>4. ReadDone(TRUE) \/ UnblockField(TRUE) \/ UnblockCut(TRUE) \/ WriteDone(TRUE)
          => UNCHANGED <<fds, held>>
      BY DEF ReadDone, UnblockField, UnblockCut, WriteDone, host
    <3>. QED
      BY <3>1, <3>2, <3>3, <3>4
  <2>. QED
    BY <1>0, <2>1, HandlerEnds
<1>10. CASE Others
  <2>1. PICK p \in Pids : \/ ChildEnds(p) \/ ChildWrites(p) \/ ChildReads(p)
                          \/ \E x \in Arrays : ChildSends(p, x)
    BY <1>10 DEF Others
  <2>2. CASE ChildEnds(p)
    <3>1. PICK code \in Codes : Falls(p, code)
      BY <2>2 DEF ChildEnds
    <3>2. code \in EndCodes /\ procs[p].state = "running" /\ fds' = fds
      BY <2>2 DEF EndCodes, ChildEnds
    <3>. QED
      BY <3>1, <3>2, <1>0, FallsEnds
  <2>3. CASE ChildWrites(p)
    <3>1. UNCHANGED <<fds, held>> /\ \E v : procs' = [procs EXCEPT ![p].out = v]
      BY <2>3 DEF ChildWrites
    <3>. QED
      BY <3>1, <1>0, SendEnds
  <2>4. CASE ChildReads(p)
    BY <2>4, <1>1 DEF ChildReads, pvars
  <2>5. CASE \E x \in Arrays : ChildSends(p, x)
    <3>1. UNCHANGED <<fds, held>> /\ \E v, w : procs' = [procs EXCEPT ![p].out = v, ![p].served = w]
      BY <2>5 DEF ChildSends, host
    <3>. QED
      BY <3>1, <1>0, SendEnds
  <2>. QED
    BY <2>1, <2>2, <2>3, <2>4, <2>5
<1>11. CASE UNCHANGED vars
  BY <1>11, <1>1 DEF vars, svars, pvars, host
<1>. QED
  BY <1>2, <1>3, <1>4, <1>5, <1>6, <1>7, <1>8, <1>9, <1>10, <1>11 DEF Next, Session

(* While a child runs, no descriptor of the session and no other process   *)
(* can write to the queue it writes to, whatever is opened, inherited and  *)
(* closed.                                                                 *)
THEOREM EndsKept == Spec => []EndsInv
<1>. QED
  BY InitProcInv, NextProcInv, InitEndsInv, NextEndsInv, PTL DEF Spec

(* When a child ends, nobody is left who could write to its queue, so that *)
(* a reader of it sees the end.                                            *)
THEOREM EndsAreSeen == Spec => EndIsSeen
<1>1. ProcInv /\ EndsInv /\ [Next]_vars => [EndSeen]_vars
  BY NextEndsInv
<1>2. [][EndSeen]_vars => EndIsSeen
  BY DEF EndSeen, EndIsSeen
<1>. QED
  BY <1>1, <1>2, TableKept, EndsKept, PTL DEF Spec
===============================================================================
