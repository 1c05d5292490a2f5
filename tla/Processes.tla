------------------------------ MODULE Processes -----------------------------
(***************************************************************************)
(* The processes a session starts with spawn_child, spawn_shell and        *)
(* spawn_cmd (sprocess.c), over the streams it talks to them through.      *)
(*                                                                         *)
(* The table of children is shared with the handler of SIGCHLD, which runs *)
(* between any two steps and can end a select.  A child inherits every end *)
(* the session has open, and keeps it.                                     *)
(***************************************************************************)
EXTENDS Streams

CONSTANTS
  MaxChildren,  \* MAX_CHILDREN
  Pids,         \* numbers of the processes the host makes
  Codes         \* statuses they may end with

\* 0 stands for no process: no process a session starts has that number.
ASSUME ProcessesAssumption == MaxChildren \in Nat /\ Pids \subseteq Nat \ {0}

VARIABLES
  children,     \* the table
  procs,        \* the host's processes
  pending,      \* a SIGCHLD the session has not had yet
  reported      \* history: the ends of children that childstatus -1 has given

pvars == <<children, procs, pending, reported>>
vars  == <<svars, pvars>>

NSlots == 0 .. MaxChildren - 1
ACTIVE_CHILD     == 1
TERMINATED_CHILD == 2
NoPid  == 0     \* what is in a new entry: no process has this number
NoCode == -1
Signalled == 9

NoChild == [status |-> 0, child |-> NoPid, code |-> NoCode, unmanaged |-> FALSE, rd |-> 0, wr |-> 0]
VALID_CHILD(i) == i \in NSlots /\ children[i].status # 0
Ended(c) == c.status = TERMINATED_CHILD

NoProc == [state |-> "none", code |-> NoCode, ends |-> {}, stdin |-> 0, stdout |-> 0,
           served |-> FALSE, out |-> <<>>]
Held(ps) == UNION {ps[p].ends : p \in Pids}

-----------------------------------------------------------------------------
(* The table *)

\* Both streams are closed, whoever has their indices by now.
releaseChild(t, c) == nio_freeStream(nio_freeStream(t, c.rd), c.wr)

\* The entry a new child gets, after the end of an unmanaged one in it; the
\* two streams are made before either is looked at.
Assignable == {i \in NSlots : children[i].status = 0 \/ (Ended(children[i]) /\ children[i].unmanaged)}
NotAssigned(t, c) == [slot |-> -1, table |-> t, children |-> c]
assignChild ==
  IF Assignable = {} THEN NotAssigned(Table, children) ELSE
  LET i  == Min(Assignable)
      t  == IF children[i].status # 0 THEN releaseChild(Table, children[i]) ELSE Table
      rd == nio_createStream(t)
      wr == nio_createStream(rd.table)
      entry == [NoChild EXCEPT !.status = ACTIVE_CHILD, !.rd = rd.made, !.wr = wr.made]
  IN  IF rd.made = -1 \/ wr.made = -1
      THEN NotAssigned(nio_freeStream(nio_freeStream(wr.table, rd.made), wr.made),
                       [children EXCEPT ![i] = NoChild])
      ELSE [slot |-> i, table |-> wr.table, children |-> [children EXCEPT ![i] = entry]]

-----------------------------------------------------------------------------
(* Starting a child.  The fork and the entry of its number in the table    *)
(* are two steps.                                                          *)

Starting(op, pid, slot, flag, rfd, wfd) ==
  [op |-> op, pid |-> pid, slot |-> slot, unmanaged |-> flag, rfd |-> rfd, wfd |-> wfd]
Spawns == {"spawn_child", "spawn_shell", "spawn_cmd"}

SpawnEnds(a, r) ==
  /\ children' = a.children
  /\ Becomes(a.table)
  /\ Gives(r)
  /\ UNCHANGED <<traced, procs, pending, reported>>

\* spawn_cmd looks at its arguments when the entry is made already; so does
\* each of them at the descriptors.
SpawnFails(op, badargs) ==
  LET a == assignChild IN
  /\ Called(op)
  /\ \/ a.slot = -1
     \/ a.slot # -1 /\ op = "spawn_cmd" /\ badargs
     \/ a.slot # -1 /\ op = "spawn_shell" /\ ~Room(a.table.fds, 1, 2)
     \/ a.slot # -1 /\ op # "spawn_shell" /\ ~Room(a.table.fds, 2, 1)
  /\ SpawnEnds(a, Fault(op, 0))
\* The first pipe stays open when there is no second one.
SecondPipeFails(op) ==
  LET a == assignChild IN
  /\ Called(op) /\ a.slot # -1 /\ op # "spawn_shell"
  /\ Room(a.table.fds, 2, 1) /\ ~Room(a.table.fds, 4, 2)
  /\ SpawnEnds([a EXCEPT !.table.fds = Pipe(@)], Fault(op, 0))
\* A fork that fails gives up the entry, but for spawn_shell.
ForkFails(op) ==
  LET a == assignChild IN
  /\ Called(op) /\ a.slot # -1 /\ Room(a.table.fds, IF op = "spawn_shell" THEN 1 ELSE 4, 2)
  /\ SpawnEnds(IF op = "spawn_shell" THEN a
               ELSE [a EXCEPT !.table = releaseChild(a.table, a.children[a.slot]),
                              !.children[a.slot] = NoChild],
               Fault(op, 0))

\* The descriptors f with the session's ends of what it shares with the
\* child, one for a terminal, two for the pipes.
KeptEnds(f, shell, to, from) ==
  LET free(k) == Lowest(Unused(f), k) IN
  IF shell THEN [f EXCEPT ![free(1)] = [in |-> from, out |-> to]]
  ELSE [f EXCEPT ![free(2)] = [in |-> 0, out |-> to],
                 ![free(3)] = [in |-> from, out |-> 0],
                 ![free(4)] = [in |-> 0, out |-> from]]
ParentEnds(f, shell, to, from) ==
  LET free(k) == Lowest(Unused(f), k) IN
  IF shell THEN [f EXCEPT ![free(1)] = [in |-> from, out |-> to]]
  ELSE [f EXCEPT ![free(2)] = [in |-> 0, out |-> to],
                 ![free(3)] = [in |-> from, out |-> 0]]

\* Processes get rising numbers, which do not come again.
NewPids == {p \in Pids : procs[p].state = "none"}

\* The child reads the queue to and writes the queue from.
Fork(op, flag) ==
  LET a     == assignChild
      pid   == Min(NewPids)
      shell == op = "spawn_shell"
      to    == Lowest(Idle(a.table.fds), 1)
      from  == Lowest(Idle(a.table.fds), 2)
      free(k) == Lowest(Unused(a.table.fds), k)
      mine  == ParentEnds(a.table.fds, shell, to, from)
  IN
  /\ Called(op) /\ NewPids # {}
  /\ a.slot # -1 /\ Room(a.table.fds, IF shell THEN 1 ELSE 4, 2)
  /\ children' = a.children
  /\ pool' = a.table.pool /\ streams' = a.table.streams /\ fds' = mine
  /\ procs' = [procs EXCEPT ![pid] =
                [NoProc EXCEPT !.state = "running", !.stdin = to, !.stdout = from,
                   !.ends = {[in |-> to, out |-> 0], [in |-> 0, out |-> from]}
                            \cup (Range(a.table.fds) \ {NoEnd})]]
  /\ held' = Held(procs')
  /\ queues' = Swept(a.table.fds, held)
  /\ call' = Starting(op, pid, a.slot, flag,
                      IF shell THEN free(1) ELSE free(3), IF shell THEN free(1) ELSE free(2))
  /\ sent' = [sent EXCEPT ![to] = <<>>, ![from] = <<>>] /\ mixed' = mixed \ {to, from}
  /\ UNCHANGED <<result, pending, reported>>

Record ==
  /\ call.op \in Spawns
  /\ LET c == children[call.slot] IN
     /\ children' = [children EXCEPT ![call.slot].child = call.pid,
                                     ![call.slot].unmanaged = call.unmanaged]
     /\ streams' = [streams EXCEPT ![c.wr].fd = call.wfd, ![c.rd].fd = call.rfd]
  /\ Gives(Number(call.op, 0, call.slot))
  /\ Goes /\ UNCHANGED <<pool, host, traced, procs, pending, reported>>

-----------------------------------------------------------------------------
(* Asking and interrupting *)

Report(i, st, code) == [NoValue EXCEPT !.op = "report", !.st = i, !.number = code, !.missing = i = -1]

child_status(i) ==
  /\ Called("child_entry") /\ VALID_CHILD(i)
  /\ Gives([Report(i, 0, children[i].code) EXCEPT !.op = "status"])
  /\ UNCHANGED <<pool, streams, host, traced, pvars>>

\* The first managed child that has ended; its entry and streams go.
any_child_status ==
  LET S == {i \in NSlots : Ended(children[i]) /\ ~children[i].unmanaged} IN
  /\ Called("child_status")
  /\ IF S = {} THEN /\ Gives(Report(-1, 0, NoCode))
                    /\ UNCHANGED <<pool, streams, host, traced, pvars>>
     ELSE LET i == Min(S) IN
          /\ Becomes(releaseChild(Table, children[i]))
          /\ children' = [children EXCEPT ![i] = NoChild]
          /\ reported' = Append(reported, [child |-> children[i].child, code |-> children[i].code])
          /\ Gives(Report(i, 0, children[i].code))
          /\ mixed' = mixed \cup Touched(children[i].rd) \cup Touched(children[i].wr)
          /\ UNCHANGED <<sent, procs, pending>>

\* child_reader and child_writer
child_stream(i, writing) ==
  /\ Called("child_stream") /\ VALID_CHILD(i)
  /\ Gives(Number("child_stream", i, IF writing THEN children[i].wr ELSE children[i].rd))
  /\ UNCHANGED <<pool, streams, host, traced, pvars>>

Falls(p, code) ==
  /\ procs' = [procs EXCEPT ![p] = [@ EXCEPT !.state = "zombie", !.code = code, !.ends = {}, !.out = <<>>]]
  /\ held' = Held(procs')
  /\ queues' = Swept(fds, held')
  /\ pending' = TRUE

\* A number below 0 asks for SIGKILL; kill(0) is for the whole group, the
\* session too.
interrupt_child(i, kill) ==
  LET p == children[i].child IN
  /\ Called("interrupt_child") /\ VALID_CHILD(i)
  /\ IF p = NoPid
     THEN call' = [NoCall EXCEPT !.op = "dead"] /\ UNCHANGED <<result, host, pvars>>
     ELSE /\ Gives(Number("interrupt_child", i, IF procs[p].state \in {"running", "zombie"} THEN 0 ELSE -1))
          /\ IF procs[p].state = "running"
             THEN \/ Falls(p, Signalled) /\ UNCHANGED <<fds, children, reported>>
                  \/ ~kill /\ UNCHANGED <<host, pvars>>   \* it may ignore SIGINT
             ELSE UNCHANGED <<host, pvars>>
  /\ UNCHANGED <<pool, streams, traced>>

-----------------------------------------------------------------------------
(* The handler and the other processes *)

IsAny(c, dead) == c.status # 0 /\ c.child # NoPid
IsOneOf(c, dead) == c.status # 0 /\ c.child \in dead
handle_sigchld ==
  LET dead == {p \in Pids : procs[p].state = "zombie"} IN
  /\ pending
  /\ pending' = FALSE
  /\ procs' = [p \in Pids |-> IF p \in dead THEN [procs[p] EXCEPT !.state = "reaped"] ELSE procs[p]]
  /\ children' = [i \in NSlots |->
       IF IsOneOf(children[i], dead)
       THEN [children[i] EXCEPT !.status = TERMINATED_CHILD, !.code = procs[children[i].child].code]
       ELSE children[i]]
  /\ UNCHANGED reported

\* The signal comes between two steps, or while the session is in select.
Signal ==
  /\ handle_sigchld
  /\ \/ UNCHANGED svars
     \/ call.op \in Polling \cup {"flush"} /\ (ReadDone(TRUE) \/ UnblockField(TRUE) \/ UnblockCut(TRUE) \/ WriteDone(TRUE))

ChildEnds(p) ==
  /\ procs[p].state = "running"
  /\ \E code \in Codes : Falls(p, code)
  /\ UNCHANGED <<pool, streams, fds, call, result, traced, program, calls, children, reported>>

\* A child that is a Nial session encodes an array and sends it as the pipe
\* takes it; it may end in the middle.  What it reads is not modelled.
ChildSends(p, x) ==
  /\ procs[p].state = "running" /\ ~procs[p].served /\ "serve" \in program.ops
  /\ procs' = [procs EXCEPT ![p].out = block_array(x), ![p].served = TRUE]
  /\ sent' = [sent EXCEPT ![procs[p].stdout] = Append(@, x)]
  /\ UNCHANGED <<pool, streams, host, call, result, mixed, program, calls, children, pending, reported>>
ChildWrites(p) ==
  /\ procs[p].state = "running" /\ procs[p].out # <<>>
  /\ Len(queues[procs[p].stdout]) + BuffSize <= Capacity
  /\ LET n == Min({BuffSize, Len(procs[p].out)}) IN
     /\ queues' = [queues EXCEPT ![procs[p].stdout] = @ \o SubSeq(procs[p].out, 1, n)]
     /\ procs' = [procs EXCEPT ![p].out = SubSeq(@, n + 1, Len(@))]
  /\ UNCHANGED <<pool, streams, fds, held, call, result, traced, program, calls, children, pending, reported>>
ChildReads(p) ==
  /\ procs[p].state = "running" /\ queues[procs[p].stdin] # <<>>
  /\ queues' = [queues EXCEPT ![procs[p].stdin] = <<>>]
  /\ UNCHANGED <<pool, streams, fds, held, call, result, traced, program, calls, pvars>>

-----------------------------------------------------------------------------

Init ==
  /\ SInit
  /\ children = [i \in NSlots |-> NoChild]
  /\ procs = [p \in Pids |-> NoProc]
  /\ pending = FALSE /\ reported = <<>>

Session ==
  \/ (Waits \/ StreamCalls) /\ UNCHANGED pvars
  \/ Record \/ any_child_status
  \/ \E op \in Spawns :
       \/ \E badargs \in BOOLEAN : SpawnFails(op, badargs)
       \/ SecondPipeFails(op) \/ ForkFails(op)
       \/ \E flag \in {FALSE, "detached" \in program.ops} : Fork(op, flag)
  \/ \E i \in NSlots : \/ child_status(i)
                        \/ \E b \in BOOLEAN : child_stream(i, b) \/ interrupt_child(i, b)

Others == \E p \in Pids : \/ ChildEnds(p) \/ ChildWrites(p) \/ ChildReads(p)
                          \/ \E x \in Arrays : ChildSends(p, x)

Next == Session \/ Signal \/ Others

Spec == Init /\ [][Next]_vars

-----------------------------------------------------------------------------

\* What childstatus -1 tells of a managed child is how it ended, and is told
\* once (sprocess.c:673-690), though ends, signals, reused entries and new
\* children come in any order.
ReportsTrue ==
  /\ \A n \in 1 .. Len(reported) :
       /\ procs[reported[n].child].state = "reaped"
       /\ procs[reported[n].child].code = reported[n].code
  /\ \A m, n \in 1 .. Len(reported) : reported[m].child = reported[n].child => m = n
  /\ \A n \in 1 .. Len(reported), i \in NSlots : VALID_CHILD(i) => children[i].child # reported[n].child

\* When a child ends, nobody is left who could write to the queue it wrote to,
\* so that a reader of it sees the end: neither the session nor another child has
\* kept a descriptor to it (sprocess.c:333, 522), whatever was opened, inherited
\* and closed meanwhile.
EndIsSeen ==
  [][\A p \in Pids : procs[p].state = "running" /\ procs'[p].state # "running"
                     => Writers(procs[p].stdout)' = {}]_vars
=============================================================================
