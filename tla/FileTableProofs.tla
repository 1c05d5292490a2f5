---------------------------- MODULE FileTableProofs ----------------------------
(***************************************************************************)
(* The table of open files keeps its slots, its names and the streams of   *)
(* the host in step, whatever is opened, refused, closed, recovered from,  *)
(* restarted, written or compressed, for any number of slots, streams,     *)
(* names and components.                                                   *)
(*                                                                         *)
(* OneOwner is not inductive alone: open writes over the slot it finds, so *)
(* a slot without a name must hold no stream (SlotsAgree), beyond the slots*)
(* in use too, where nextfilenum grows next.  compressfile closes streams  *)
(* of a port and opens others: while it does, the one it has closed is     *)
(* exempt (TableBut), and the two it has opened are of no port (JobInv).   *)
(***************************************************************************)
EXTENDS DirectFiles, WellFoundedInduction, TLAPS

-------------------------------------------------------------------------------
IOType(i) ==
  i \in [dir : [Paths -> Files \cup {0}], disk : {i.disk}, unsent : {i.unsent},
         streams : [Streams -> Files \cup {0, shut}],
         ports : [Slots -> Streams \cup {closedport, system}],
         index : [Slots -> Streams \cup {closedport}]]

TableType ==
  /\ nextfilenum \in 3 .. MAXFILES
  /\ filenames = [p \in Slots |-> filenames[p]]
  /\ filetypes = [p \in Slots |-> filetypes[p]]
  /\ IOType(io)

(* A slot is free in all its parts or in none; those of the system stay.   *)
SlotsAgree ==
  \A p \in Slots :
    /\ p >= nextfilenum => filenames[p] = no_value
    /\ p < 3 => filenames[p] # no_value /\ io.ports[p] = system /\ io.index[p] = closedport
    /\ p >= 3 => io.ports[p] # system /\ (filenames[p] = no_value <=> io.ports[p] = closedport)
    /\ filenames[p] = no_value => io.index[p] = closedport
    /\ p >= 3 /\ filenames[p] # no_value => (isdirect(p) <=> io.index[p] # closedport)

NamesDiffer ==
  \A p, q \in Slots : filenames[p] = filenames[q] /\ p # q => filenames[p] = no_value

StreamsOpen ==
  \A p \in Slots :
    /\ io.ports[p] \in Streams => io.streams[io.ports[p]] # shut
    /\ io.index[p] \in Streams => io.streams[io.index[p]] # shut

StreamsDiffer ==
  \A p, q \in Slots :
    /\ io.ports[p] \in Streams => io.ports[p] # io.index[q]
    /\ p # q /\ io.ports[p] \in Streams => io.ports[p] # io.ports[q]
    /\ p # q /\ io.index[p] \in Streams => io.index[p] # io.index[q]

DirectNames ==
  \A p \in Slots :
    filenames[p] # no_value /\ isdirect(p) => p >= 3 /\ filenames[p] \in Direct

TableInv ==
  /\ TableType /\ SlotsAgree /\ NamesDiffer /\ DirectNames
  /\ StreamsOpen /\ StreamsDiffer

(* The same, but for the stream x of a port, which is closed. *)
TableBut(x) ==
  /\ TableType /\ SlotsAgree /\ NamesDiffer /\ DirectNames /\ StreamsDiffer
  /\ x \in Streams /\ io.streams[x] = shut
  /\ \A p \in Slots :
       /\ io.ports[p] \in Streams \ {x} => io.streams[io.ports[p]] # shut
       /\ io.index[p] \in Streams \ {x} => io.streams[io.index[p]] # shut

(* A stream that is open and that no port has. *)
Spare(s) ==
  /\ s \in Streams /\ io.streams[s] # shut
  /\ \A p \in Slots : io.ports[p] # s /\ io.index[p] # s

(* What is in progress is on a port in use; the new files of compressfile  *)
(* are there until they take the names of the old ones.                    *)
JobInv ==
  /\ job \in [stage : {"idle", "write", "copy", "noindex", "newindex", "norecords"},
              port : {job.port}, isarray : {job.isarray}, calls : {job.calls},
              parts : {job.parts}, numbers : {job.numbers},
              spare : (Streams \cup {0}) \X (Streams \cup {0})]
  /\ job.stage # "idle" =>
       /\ job.port \in Slots
       /\ filenames[job.port] # no_value /\ isdirect(job.port)
  /\ job.stage \in {"copy", "noindex", "newindex"} => Spare(job.spare[2])
  /\ job.stage = "copy" => Spare(job.spare[1]) /\ job.spare[1] # job.spare[2]
  /\ job.stage \in {"copy", "noindex"} => io.dir[Path("tdx")] # 0
  /\ job.stage \in {"copy", "noindex", "newindex", "norecords"} => io.dir[Path("trc")] # 0

IInv ==
  /\ JobInv
  /\ job.stage \notin {"noindex", "norecords"} => TableInv
  /\ job.stage = "noindex" => TableBut(io.index[job.port])
  /\ job.stage = "norecords" => TableBut(io.ports[job.port])

-------------------------------------------------------------------------------
LEMMA Numbers3 ==
  /\ MAXFILES \in Nat /\ MAXFILES > 3
  /\ closedport \notin Streams /\ system \notin Streams /\ system # closedport
  /\ shut \notin Files \cup {0}
  /\ \A p \in Slots : p \in Nat
  /\ 0 \in Slots /\ 1 \in Slots /\ 2 \in Slots
BY TableAssumption DEF closedport, Streams, system, shut, Files, Slots

(* The table of a session that starts. *)
LEMMA NewTable ==
  /\ NewNames = [p \in Slots |-> NewNames[p]]
  /\ NewTypes = [p \in Slots |-> NewTypes[p]]
  /\ NewPorts \in [Slots -> Streams \cup {closedport, system}]
  /\ \A p \in Slots : NewPorts[p] = IF p < 3 THEN system ELSE closedport
  /\ \A p \in Slots : p >= 3 => NewNames[p] = no_value
  /\ \A p \in Slots : p < 3 => NewNames[p] # no_value
  /\ \A p, q \in Slots : p < 3 /\ p # q => NewNames[p] # NewNames[q]
<1>1. \A p \in Slots :
        NewNames[p] = CASE p = 0 -> "stdin" [] p = 1 -> "stdout" [] p = 2 -> "stderr"
                        [] OTHER -> no_value
  BY DEF NewNames
<1>2. \A p \in Slots : p >= 3 => NewNames[p] = no_value
  BY <1>1, Numbers3
<1>3. \A p \in Slots : p < 3 => p = 0 \/ p = 1 \/ p = 2
  BY Numbers3
<1>4. \A p \in Slots : p < 3 => NewNames[p] # no_value
  BY <1>1, <1>3, TableAssumption
<1>5. \A p, q \in Slots : p < 3 /\ p # q => NewNames[p] # NewNames[q]
  BY <1>1, <1>2, <1>3, <1>4, Numbers3
<1>6. NewNames = [p \in Slots |-> NewNames[p]]
  BY DEF NewNames
<1>7. NewTypes = [p \in Slots |-> NewTypes[p]]
  BY DEF NewTypes
<1>8. NewPorts \in [Slots -> Streams \cup {closedport, system}]
  BY DEF NewPorts
<1>9. \A p \in Slots : NewPorts[p] = IF p < 3 THEN system ELSE closedport
  BY DEF NewPorts
<1>. QED
  BY <1>2, <1>4, <1>5, <1>6, <1>7, <1>8, <1>9

(* The least element of a set of numbers. *)
LEMMA MinOf ==
  ASSUME NEW S \in SUBSET Nat, S # {}
  PROVE  Min(S) \in S /\ \A x \in S : Min(S) <= x
<1>1. IsWellFoundedOn(OpToRel(<, Nat), Nat)
  BY NatLessThanWellFounded
<1>2. \E x \in S : \A y \in S : ~ (<<y, x>> \in OpToRel(<, Nat))
  BY <1>1, WFMin
<1>3. \E x \in S : \A y \in S : ~ (y < x)
  BY <1>2 DEF OpToRel
<1>4. \E x \in S : \A y \in S : x <= y
  BY <1>3
<1>. QED
  BY <1>4 DEF Min

LEMMA NewStreamShut ==
  ASSUME NEW i, Vacant(i) # {}
  PROVE  NewStream(i) \in Streams /\ i.streams[NewStream(i)] = shut
<1>1. Vacant(i) \in SUBSET Nat
  BY TableAssumption DEF Vacant, Streams
<1>2. Min(Vacant(i)) \in Vacant(i)
  BY <1>1, MinOf
<1>. QED
  BY <1>2 DEF NewStream, Vacant

(* An open takes a stream that was shut, and changes no other. *)
LEMMA OpensOne ==
  ASSUME NEW i, IOType(i), NEW path \in Paths, CanOpen(i, path)
  PROVE  LET s == NewStream(i)  j == opendirect(i, path)
         IN  /\ s \in Streams /\ i.streams[s] = shut
             /\ IOType(j) /\ j.ports = i.ports /\ j.index = i.index
             /\ j.streams[s] # shut
             /\ \A t \in Streams \ {s} : j.streams[t] = i.streams[t]
             /\ j.dir[path] # 0
             /\ \A q \in Paths \ {path} : j.dir[q] = i.dir[q]
<1> DEFINE s == NewStream(i)
           f == IF Present(i, path) THEN i.dir[path] ELSE NewFile(i)
           j == [i EXCEPT !.dir[path] = f, !.streams[s] = f]
<1>1. s \in Streams /\ i.streams[s] = shut
  BY NewStreamShut DEF CanOpen
<1>2. f \in Files
  <2>1. CASE Present(i, path)
    BY <2>1 DEF Present, IOType
  <2>2. CASE ~Present(i, path)
    <3>1. Room(i) # {} /\ Room(i) \in SUBSET Nat
      BY <2>2, TableAssumption DEF CanOpen, Room, Files
    <3>2. Min(Room(i)) \in Room(i)
      BY <3>1, MinOf
    <3>. QED
      BY <2>2, <3>2 DEF NewFile, Room
  <2>. QED
    BY <2>1, <2>2
<1>3. opendirect(i, path) = j
  BY DEF opendirect, NewStream
<1>. HIDE DEF s, f
<1>4. /\ IOType(j) /\ j.ports = i.ports /\ j.index = i.index
      /\ j.streams = [i.streams EXCEPT ![s] = f]
      /\ j.dir = [i.dir EXCEPT ![path] = f]
  BY <1>1, <1>2 DEF IOType
<1>5. /\ j.streams[s] = f
      /\ \A t \in Streams \ {s} : j.streams[t] = i.streams[t]
      /\ j.dir[path] = f
      /\ \A q \in Paths \ {path} : j.dir[q] = i.dir[q]
      /\ f # 0
  BY <1>1, <1>2, <1>4, TableAssumption DEF IOType, Files
<1>. QED
  BY <1>1, <1>2, <1>3, <1>4, <1>5, Numbers3 DEF s

LEMMA OpensText ==
  ASSUME NEW i, IOType(i), Vacant(i) # {}
  PROVE  LET s == NewStream(i)  j == openother(i)
         IN  /\ s \in Streams /\ i.streams[s] = shut
             /\ IOType(j) /\ j.ports = i.ports /\ j.index = i.index
             /\ j.streams[s] # shut
             /\ \A t \in Streams \ {s} : j.streams[t] = i.streams[t]
<1> DEFINE s == NewStream(i)
           j == [i EXCEPT !.streams[s] = 0]
<1>1. s \in Streams /\ i.streams[s] = shut
  BY NewStreamShut
<1>2. openother(i) = j
  BY DEF openother, NewStream
<1>. HIDE DEF s
<1>3. /\ IOType(j) /\ j.ports = i.ports /\ j.index = i.index
      /\ j.streams = [i.streams EXCEPT ![s] = 0]
  BY <1>1 DEF IOType
<1>4. /\ j.streams[s] = 0
      /\ \A t \in Streams \ {s} : j.streams[t] = i.streams[t]
  BY <1>1, <1>3 DEF IOType
<1>. QED
  BY <1>1, <1>2, <1>3, <1>4, Numbers3 DEF s

(* Sending buffers and writing change words only. *)
LEMMA FlushKeeps ==
  ASSUME NEW i, IOType(i), NEW S
  PROVE  LET j == Flushed(i, S)
         IN  /\ IOType(j) /\ j.ports = i.ports /\ j.index = i.index
             /\ j.streams = i.streams /\ j.dir = i.dir
BY DEF IOType, Flushed

LEMMA WriteKeeps ==
  ASSUME NEW i, IOType(i), NEW s, NEW at, NEW words, NEW of
  PROVE  LET j == writeblock(i, s, at, words, of)
         IN  /\ IOType(j) /\ j.ports = i.ports /\ j.index = i.index
             /\ j.streams = i.streams /\ j.dir = i.dir
<1>1. /\ IOType(Flushed(i, {s})) /\ Flushed(i, {s}).ports = i.ports
      /\ Flushed(i, {s}).index = i.index
      /\ Flushed(i, {s}).streams = i.streams /\ Flushed(i, {s}).dir = i.dir
  BY FlushKeeps
<1>2. \E b : writeblock(i, s, at, words, of) = [Flushed(i, {s}) EXCEPT !.unsent[s] = b]
  BY DEF writeblock
<1>. QED
  BY <1>1, <1>2 DEF IOType

(* Closing shuts the streams given, and no other. *)
LEMMA SweptKeeps ==
  ASSUME NEW i, IOType(i)
  PROVE  /\ IOType(Swept(i)) /\ Swept(i).streams = i.streams
         /\ Swept(i).ports = i.ports /\ Swept(i).index = i.index
         /\ Swept(i).dir = i.dir
BY DEF IOType, Swept

LEMMA ClosesThose ==
  ASSUME NEW i, IOType(i), NEW S
  PROVE  LET j == CloseAll(i, S)
         IN  /\ IOType(j) /\ j.ports = i.ports /\ j.index = i.index /\ j.dir = i.dir
             /\ \A t \in Streams : j.streams[t] = IF t \in S THEN shut ELSE i.streams[t]
<1> DEFINE f == Flushed(i, S)
           k == [f EXCEPT !.streams = [t \in Streams |-> IF t \in S THEN shut ELSE f.streams[t]]]
<1>1. /\ IOType(f) /\ f.ports = i.ports /\ f.index = i.index
      /\ f.streams = i.streams /\ f.dir = i.dir
  BY FlushKeeps
<1>2. CloseAll(i, S) = Swept(k)
  BY DEF CloseAll
<1>. HIDE DEF f
<1>3. /\ IOType(k) /\ k.ports = i.ports /\ k.index = i.index /\ k.dir = i.dir
      /\ k.streams = [t \in Streams |-> IF t \in S THEN shut ELSE i.streams[t]]
  BY <1>1 DEF IOType
<1>. HIDE DEF k
<1>. QED
  BY <1>2, <1>3, SweptKeeps

LEMMA ClosesOne ==
  ASSUME NEW i, IOType(i), NEW s \in Streams
  PROVE  LET j == closefile(i, s)
         IN  /\ IOType(j) /\ j.ports = i.ports /\ j.index = i.index
             /\ \A t \in Streams : j.streams[t] = IF t = s THEN shut ELSE i.streams[t]
BY ClosesThose DEF closefile

(* The slot that open finds is free, and next to those in use at most. *)
LEMMA FreeSlotIs ==
  ASSUME TableType
  PROVE  /\ FreeSlot \in 0 .. nextfilenum
         /\ FreeSlot < nextfilenum => filenames[FreeSlot] = no_value
         /\ ~Full => FreeSlot \in Slots /\ Grown \in 3 .. MAXFILES /\ FreeSlot < Grown
         /\ Grown >= nextfilenum
<1> DEFINE S == {p \in 0 .. nextfilenum - 1 : filenames[p] = no_value} \cup {nextfilenum}
<1>1. S \in SUBSET Nat /\ S # {} /\ nextfilenum \in Nat
  BY Numbers3 DEF TableType
<1>2. FreeSlot \in S
  BY <1>1, MinOf DEF FreeSlot
<1>3. FreeSlot \in 0 .. nextfilenum /\ (FreeSlot < nextfilenum => filenames[FreeSlot] = no_value)
  BY <1>1, <1>2
<1>. QED
  BY <1>1, <1>3, Numbers3 DEF Full, Grown, Slots, TableType

-------------------------------------------------------------------------------
(* A new table, whatever the host has open. *)
LEMMA Starts ==
  ASSUME NEW i, IOType(i), startfilesystem(i)
  PROVE  TableInv'
<1>1. /\ nextfilenum' = 3 /\ filenames' = NewNames /\ filetypes' = NewTypes
      /\ io' = [i EXCEPT !.ports = NewPorts, !.index = [p \in Slots |-> closedport]]
  BY DEF startfilesystem
<1>2. /\ IOType(io') /\ io'.ports = NewPorts /\ io'.index = [p \in Slots |-> closedport]
  BY <1>1, NewTable DEF IOType
<1>3. TableType'
  BY <1>1, <1>2, NewTable, Numbers3 DEF TableType
<1>4. SlotsAgree'
  BY <1>1, <1>2, NewTable, Numbers3 DEF SlotsAgree
<1>5. NamesDiffer'
  BY <1>1, NewTable, Numbers3 DEF NamesDiffer
<1>6. StreamsOpen' /\ StreamsDiffer'
  BY <1>2, NewTable, Numbers3 DEF StreamsOpen, StreamsDiffer
<1>7. DirectNames'
  BY <1>1, NewTable, Numbers3 DEF DirectNames, isdirect, NewTypes
<1>. QED
  BY <1>3, <1>4, <1>5, <1>6, <1>7 DEF TableInv

(* The ports as they are, and none of their streams closed. *)
LEMMA SamePorts ==
  ASSUME TableInv, UNCHANGED table, IOType(io'), io'.ports = io.ports, io'.index = io.index,
         \A p \in Slots :
           /\ io.ports[p] \in Streams => io'.streams[io.ports[p]] # shut
           /\ io.index[p] \in Streams => io'.streams[io.index[p]] # shut
  PROVE  TableInv'
<1>1. TableType' /\ SlotsAgree' /\ NamesDiffer' /\ DirectNames' /\ StreamsDiffer'
  BY DEF TableInv, TableType, SlotsAgree, isdirect, NamesDiffer, DirectNames, StreamsDiffer,
         table
<1>2. StreamsOpen'
  BY DEF TableInv, StreamsOpen
<1>. QED
  BY <1>1, <1>2 DEF TableInv

LEMMA SameTable ==
  ASSUME TableInv, UNCHANGED table, IOType(io'), io'.ports = io.ports, io'.index = io.index,
         \A s \in Streams : io.streams[s] # shut => io'.streams[s] # shut
  PROVE  TableInv'
BY SamePorts DEF TableInv, StreamsOpen

-------------------------------------------------------------------------------
(* A slot that was free is taken for a name, with streams that were shut.  *)
LEMMA Enters ==
  ASSUME TableInv, ~Full,
         NEW name, NameFree(name), name # no_value, NEW mode,
         NEW r \in Streams, io.streams[r] = shut,
         NEW n \in Streams \cup {closedport}, n \in Streams => io.streams[n] = shut /\ n # r,
         mode = "d" <=> n # closedport, mode = "d" => name \in Direct,
         nextfilenum' = Grown,
         filenames' = [filenames EXCEPT ![FreeSlot] = name],
         filetypes' = [filetypes EXCEPT ![FreeSlot] = mode],
         IOType(io'),
         io'.ports = [io.ports EXCEPT ![FreeSlot] = r],
         io'.index = [io.index EXCEPT ![FreeSlot] = n],
         \A t \in Streams : io.streams[t] # shut => io'.streams[t] # shut,
         io'.streams[r] # shut,
         n \in Streams => io'.streams[n] # shut
  PROVE  TableInv'
<1> DEFINE x == FreeSlot
<1>1. /\ x \in Slots /\ Grown \in 3 .. MAXFILES /\ x < Grown /\ Grown >= nextfilenum
      /\ x < nextfilenum => filenames[x] = no_value
      /\ x \in 0 .. nextfilenum
  BY FreeSlotIs DEF TableInv
<1>. HIDE DEF x
<1>2. /\ filenames = [p \in Slots |-> filenames[p]]
      /\ filetypes = [p \in Slots |-> filetypes[p]]
      /\ io.ports \in [Slots -> Streams \cup {closedport, system}]
      /\ io.index \in [Slots -> Streams \cup {closedport}]
      /\ nextfilenum \in 3 .. MAXFILES
  BY DEF TableInv, TableType, IOType
<1>3. /\ filenames[x] = no_value /\ x >= 3
      /\ io.ports[x] = closedport /\ io.index[x] = closedport
  BY <1>1, <1>2, Numbers3 DEF TableInv, SlotsAgree
<1>4. /\ \A p \in Slots : filenames'[p] = IF p = x THEN name ELSE filenames[p]
      /\ \A p \in Slots : filetypes'[p] = IF p = x THEN mode ELSE filetypes[p]
      /\ \A p \in Slots : io'.ports[p] = IF p = x THEN r ELSE io.ports[p]
      /\ \A p \in Slots : io'.index[p] = IF p = x THEN n ELSE io.index[p]
  BY <1>2 DEF x
<1>5. /\ filenames' = [p \in Slots |-> filenames'[p]]
      /\ filetypes' = [p \in Slots |-> filetypes'[p]]
  BY <1>2 DEF x
<1>6. TableType'
  BY <1>1, <1>5 DEF TableType
<1>7. \A p \in Slots : filenames[p] # name
  <2>. SUFFICES ASSUME NEW p \in Slots PROVE filenames[p] # name
    OBVIOUS
  <2>1. p \in 0 .. nextfilenum - 1 \/ p >= nextfilenum
    BY <1>2, Numbers3
  <2>. QED
    BY <2>1 DEF NameFree, TableInv, SlotsAgree
<1>8. \A p \in Slots : /\ io.ports[p] \in Streams => io.ports[p] # r /\ io.ports[p] # n
                       /\ io.index[p] \in Streams => io.index[p] # r /\ io.index[p] # n
  BY DEF TableInv, StreamsOpen
<1>9. SlotsAgree'
  <2>. SUFFICES ASSUME NEW p \in Slots
                PROVE  /\ p >= nextfilenum' => filenames'[p] = no_value
                       /\ p < 3 => /\ filenames'[p] # no_value
                                   /\ io'.ports[p] = system /\ io'.index[p] = closedport
                       /\ p >= 3 => /\ io'.ports[p] # system
                                    /\ filenames'[p] = no_value <=> io'.ports[p] = closedport
                       /\ filenames'[p] = no_value => io'.index[p] = closedport
                       /\ p >= 3 /\ filenames'[p] # no_value =>
                            (filetypes'[p] = "d" <=> io'.index[p] # closedport)
    BY DEF SlotsAgree, isdirect
  <2>1. CASE p = x
    BY <2>1, <1>1, <1>3, <1>4, Numbers3
  <2>2. CASE p # x
    <3>1. /\ filenames'[p] = filenames[p] /\ filetypes'[p] = filetypes[p]
          /\ io'.ports[p] = io.ports[p] /\ io'.index[p] = io.index[p]
      BY <2>2, <1>4
    <3>2. p >= nextfilenum' => p >= nextfilenum
      BY <1>1, <1>2, Numbers3
    <3>. QED
      BY <3>1, <3>2 DEF TableInv, SlotsAgree, isdirect
  <2>. QED
    BY <2>1, <2>2
<1>10. NamesDiffer'
  BY <1>4, <1>7 DEF NamesDiffer, TableInv
<1>11. StreamsOpen'
  BY <1>4 DEF StreamsOpen, TableInv
<1>12. StreamsDiffer'
  BY <1>4, <1>8, Numbers3 DEF StreamsDiffer, TableInv
<1>13. DirectNames'
  BY <1>3, <1>4, Numbers3 DEF DirectNames, TableInv, isdirect
<1>. QED
  BY <1>6, <1>9, <1>10, <1>11, <1>12, <1>13 DEF TableInv

LEMMA OpenKeeps ==
  ASSUME TableInv, NEW name \in Other, NEW mode \in OtherModes, iopen(name, mode)
  PROVE  TableInv'
<1> DEFINE s == NewStream(io)
           i == openother(io)
<1>0. IOType(io)
  BY DEF TableInv, TableType
<1>1. /\ s \in Streams /\ io.streams[s] = shut
      /\ IOType(i) /\ i.ports = io.ports /\ i.index = io.index
      /\ i.streams[s] # shut
      /\ \A t \in Streams \ {s} : i.streams[t] = io.streams[t]
  BY <1>0, OpensText DEF iopen
<1>2. CASE Full
  <2>1. io' = i /\ UNCHANGED table
    BY <1>2 DEF iopen
  <2>. HIDE DEF i, s
  <2>. QED
    BY <1>1, <2>1, SameTable
<1>3. CASE ~Full
  <2>1. /\ nextfilenum' = Grown /\ NameFree(name)
        /\ filenames' = [filenames EXCEPT ![FreeSlot] = name]
        /\ filetypes' = [filetypes EXCEPT ![FreeSlot] = mode]
        /\ io' = [i EXCEPT !.ports[FreeSlot] = s, !.index[FreeSlot] = closedport]
    BY <1>3 DEF iopen, Entered
  <2>. HIDE DEF i, s
  <2>2. /\ IOType(io') /\ io'.streams = i.streams
        /\ io'.ports = [io.ports EXCEPT ![FreeSlot] = s]
        /\ io'.index = [io.index EXCEPT ![FreeSlot] = closedport]
    BY <1>1, <2>1 DEF IOType
  <2>3. name # no_value /\ mode # "d" /\ closedport \notin Streams
    BY TableAssumption, Numbers3
  <2>4. closedport \in Streams => io.streams[closedport] = shut /\ closedport # s
    BY <2>3
  <2>5. (mode = "d" <=> closedport # closedport) /\ (mode = "d" => name \in Direct)
    BY <2>3
  <2>6. /\ io'.streams[s] # shut
        /\ closedport \in Streams => io'.streams[closedport] # shut
        /\ \A t \in Streams : io.streams[t] # shut => io'.streams[t] # shut
    BY <1>1, <2>2, <2>3
  <2>. QED
    BY <1>1, <1>3, <2>1, <2>2, <2>3, <2>4, <2>5, <2>6, Enters
<1>. QED
  BY <1>2, <1>3

(* The second stream of a direct file may be refused. *)
LEMMA OpenDirectKeeps ==
  ASSUME TableInv, NEW name \in Direct, iopen_direct(name)
  PROVE  TableInv'
<1> DEFINE rec == NewStream(io)
           i1  == opendirect(io, <<name, "rec">>)
           ndx == NewStream(i1)
           i2  == opendirect(i1, <<name, "ndx">>)
           i3  == IF Present(io, <<name, "ndx">>) THEN i2
                  ELSE writeblock(i2, ndx, 0, <<0, 0, 0, 0>>, -1)
<1>0. /\ IOType(io) /\ <<name, "rec">> \in Paths /\ <<name, "ndx">> \in Paths
      /\ CanOpen(io, <<name, "rec">>) /\ NameFree(name) /\ name # no_value
  BY TableAssumption DEF TableInv, TableType, Paths, iopen_direct
<1>1. /\ rec \in Streams /\ io.streams[rec] = shut
      /\ IOType(i1) /\ i1.ports = io.ports /\ i1.index = io.index
      /\ i1.streams[rec] # shut
      /\ \A t \in Streams \ {rec} : i1.streams[t] = io.streams[t]
  BY <1>0, OpensOne
<1>2. CASE Full
  <2>1. io' = i1 /\ UNCHANGED table
    BY <1>2 DEF iopen_direct
  <2>. HIDE DEF i1, rec
  <2>. QED
    BY <1>1, <2>1, SameTable
<1>3. CASE ~Full /\ io' = closefile(i1, rec) /\ nextfilenum' = Grown
           /\ UNCHANGED <<filenames, filetypes>>
  <2>. HIDE DEF i1, rec
  <2>1. /\ IOType(io') /\ io'.ports = io.ports /\ io'.index = io.index
        /\ \A t \in Streams : io'.streams[t] = IF t = rec THEN shut ELSE i1.streams[t]
    BY <1>1, <1>3, ClosesOne
  <2>2. \A t \in Streams : io.streams[t] # shut => io'.streams[t] # shut
    BY <2>1, <1>1
  <2>3. Grown \in 3 .. MAXFILES /\ Grown >= nextfilenum /\ nextfilenum \in 3 .. MAXFILES
    BY <1>3, FreeSlotIs DEF TableInv, TableType
  <2>4. TableType'
    BY <2>1, <2>3, <1>3 DEF TableInv, TableType
  <2>5. SlotsAgree'
    BY <2>1, <2>3, <1>3, Numbers3 DEF TableInv, SlotsAgree, isdirect
  <2>6. NamesDiffer' /\ StreamsDiffer'
    BY <2>1, <1>3 DEF TableInv, NamesDiffer, StreamsDiffer
  <2>7. StreamsOpen'
    BY <2>1, <2>2 DEF TableInv, StreamsOpen
  <2>8. DirectNames'
    BY <1>3 DEF TableInv, DirectNames, isdirect
  <2>. QED
    BY <2>4, <2>5, <2>6, <2>7, <2>8 DEF TableInv
<1>4. CASE ~Full /\ CanOpen(i1, <<name, "ndx">>) /\ nextfilenum' = Grown
           /\ Entered(FreeSlot, name, "d", [i3 EXCEPT !.ports[FreeSlot] = rec,
                                                     !.index[FreeSlot] = ndx])
  <2>1. /\ ndx \in Streams /\ i1.streams[ndx] = shut
        /\ IOType(i2) /\ i2.ports = i1.ports /\ i2.index = i1.index
        /\ i2.streams[ndx] # shut
        /\ \A t \in Streams \ {ndx} : i2.streams[t] = i1.streams[t]
    <3>. HIDE DEF i1
    <3>. QED
      BY <1>0, <1>1, <1>4, OpensOne
  <2>2. /\ filenames' = [filenames EXCEPT ![FreeSlot] = name]
        /\ filetypes' = [filetypes EXCEPT ![FreeSlot] = "d"]
        /\ io' = [i3 EXCEPT !.ports[FreeSlot] = rec, !.index[FreeSlot] = ndx]
    BY <1>4 DEF Entered
  <2>3. /\ IOType(i3) /\ i3.ports = i2.ports /\ i3.index = i2.index /\ i3.streams = i2.streams
    <3>. HIDE DEF i2, ndx
    <3>. QED
      BY <2>1, WriteKeeps
  <2>. HIDE DEF i3, i2, i1, ndx, rec
  <2>4. /\ IOType(io') /\ io'.streams = i2.streams
        /\ io'.ports = [io.ports EXCEPT ![FreeSlot] = rec]
        /\ io'.index = [io.index EXCEPT ![FreeSlot] = ndx]
    BY <1>1, <2>1, <2>2, <2>3 DEF IOType
  <2>5. /\ ndx # rec /\ io.streams[ndx] = shut
        /\ io'.streams[rec] # shut /\ io'.streams[ndx] # shut
        /\ \A t \in Streams : io.streams[t] # shut => io'.streams[t] # shut
    BY <1>1, <2>1, <2>4
  <2>6. ("d" = "d" <=> ndx # closedport) /\ name \in Direct
    BY <2>1, Numbers3
  <2>. QED
    BY <1>0, <1>1, <1>4, <2>1, <2>2, <2>4, <2>5, <2>6, Enters
<1>5. \/ Full \/ ~Full
  OBVIOUS
<1>6. ~Full =>
        /\ nextfilenum' = Grown
        /\ \/ io' = closefile(i1, rec) /\ UNCHANGED <<filenames, filetypes>>
           \/ /\ CanOpen(i1, <<name, "ndx">>)
              /\ Entered(FreeSlot, name, "d", [i3 EXCEPT !.ports[FreeSlot] = rec,
                                                        !.index[FreeSlot] = ndx])
  BY DEF iopen_direct
<1>. HIDE DEF i1, i2, i3, rec, ndx
<1>. QED
  BY <1>2, <1>3, <1>4, <1>6

LEMMA CloseKeeps ==
  ASSUME TableInv, NEW x \in Slots, iclose(x)
  PROVE  TableInv'
<1> DEFINE S == {io.ports[x], io.index[x]}
           j == CloseAll(io, S)
<1>1. /\ x >= 3 /\ filenames' = [filenames EXCEPT ![x] = no_value]
      /\ UNCHANGED <<nextfilenum, filetypes>>
      /\ io' = [j EXCEPT !.ports[x] = closedport, !.index[x] = closedport]
  BY DEF iclose, firstuserfile
<1>2. /\ IOType(j) /\ j.ports = io.ports /\ j.index = io.index
      /\ \A t \in Streams : j.streams[t] = IF t \in S THEN shut ELSE io.streams[t]
  BY ClosesThose DEF TableInv, TableType
<1>. HIDE DEF j
<1>3. /\ IOType(io') /\ io'.streams = j.streams
      /\ io'.ports = [io.ports EXCEPT ![x] = closedport]
      /\ io'.index = [io.index EXCEPT ![x] = closedport]
  BY <1>1, <1>2 DEF IOType
<1>4. /\ filenames = [p \in Slots |-> filenames[p]]
      /\ io.ports \in [Slots -> Streams \cup {closedport, system}]
      /\ io.index \in [Slots -> Streams \cup {closedport}]
  BY DEF TableInv, TableType, IOType
<1>5. /\ \A p \in Slots : filenames'[p] = IF p = x THEN no_value ELSE filenames[p]
      /\ \A p \in Slots : io'.ports[p] = IF p = x THEN closedport ELSE io.ports[p]
      /\ \A p \in Slots : io'.index[p] = IF p = x THEN closedport ELSE io.index[p]
      /\ filenames' = [p \in Slots |-> filenames'[p]]
  BY <1>1, <1>3, <1>4
<1>6. TableType'
  BY <1>1, <1>3, <1>5 DEF TableInv, TableType
<1>7. SlotsAgree'
  BY <1>1, <1>5, Numbers3 DEF TableInv, SlotsAgree, isdirect
<1>8. NamesDiffer'
  BY <1>5 DEF TableInv, NamesDiffer
<1>9. StreamsDiffer'
  BY <1>5, Numbers3 DEF TableInv, StreamsDiffer
<1>10. StreamsOpen'
  <2>. SUFFICES ASSUME NEW p \in Slots
                PROVE  /\ io'.ports[p] \in Streams => io'.streams[io'.ports[p]] # shut
                       /\ io'.index[p] \in Streams => io'.streams[io'.index[p]] # shut
    BY DEF StreamsOpen
  <2>1. CASE p = x
    BY <2>1, <1>5, Numbers3
  <2>2. CASE p # x
    <3>1. /\ io.ports[p] \in Streams => io.ports[p] \notin S /\ io.streams[io.ports[p]] # shut
          /\ io.index[p] \in Streams => io.index[p] \notin S /\ io.streams[io.index[p]] # shut
      BY <2>2 DEF TableInv, StreamsOpen, StreamsDiffer
    <3>. QED
      BY <2>2, <3>1, <1>2, <1>3, <1>5
  <2>. QED
    BY <2>1, <2>2
<1>11. DirectNames'
  BY <1>1, <1>5 DEF TableInv, DirectNames, isdirect
<1>. QED
  BY <1>6, <1>7, <1>8, <1>9, <1>10, <1>11 DEF TableInv

-------------------------------------------------------------------------------
(* The jobs.  The table is as it was, and so are the slots of a port that  *)
(* is in use for direct access.                                            *)
LEMMA InitKeeps == Init => IInv
<1>. SUFFICES ASSUME Init PROVE IInv
  OBVIOUS
<1>1. /\ nextfilenum = 3 /\ filenames = NewNames /\ filetypes = NewTypes
      /\ io = [dir |-> [q \in Paths |-> 0], disk |-> [f \in Files |-> <<>>],
               streams |-> [s \in Streams |-> shut], unsent |-> [s \in Streams |-> NoWrite],
               ports |-> NewPorts, index |-> [p \in Slots |-> closedport]]
      /\ job = NoJob
  BY DEF Init, TableInit
<1>2. /\ IOType(io) /\ io.ports = NewPorts /\ io.index = [p \in Slots |-> closedport]
  BY <1>1, NewTable DEF IOType
<1>3. TableType
  BY <1>1, <1>2, NewTable, Numbers3 DEF TableType
<1>4. SlotsAgree
  BY <1>1, <1>2, NewTable, Numbers3 DEF SlotsAgree
<1>5. NamesDiffer
  BY <1>1, NewTable, Numbers3 DEF NamesDiffer
<1>6. StreamsOpen /\ StreamsDiffer
  BY <1>2, NewTable, Numbers3 DEF StreamsOpen, StreamsDiffer
<1>7. DirectNames
  BY <1>1, NewTable, Numbers3 DEF DirectNames, isdirect, NewTypes
<1>8. JobInv /\ job.stage = "idle"
  BY <1>1 DEF JobInv, NoJob
<1>. QED
  BY <1>3, <1>4, <1>5, <1>6, <1>7, <1>8 DEF TableInv, IInv

LEMMA DirectIsNamed ==
  ASSUME TableInv, NEW p \in Slots, ispopen(p), isdirect(p)
  PROVE  filenames[p] # no_value
BY Numbers3 DEF TableInv, SlotsAgree, ispopen

LEMMA TableNextKeeps ==
  ASSUME TableInv, TableNext
  PROVE  TableInv'
<1>0. IOType(io)
  BY DEF TableInv, TableType
<1>1. ASSUME NEW name \in Other, NEW mode \in OtherModes, iopen(name, mode)
      PROVE  TableInv'
  BY <1>1, OpenKeeps
<1>2. ASSUME NEW name \in Direct, iopen_direct(name)
      PROVE  TableInv'
  BY <1>2, OpenDirectKeeps
<1>3. ASSUME NEW x \in Slots, iclose(x)
      PROVE  TableInv'
  BY <1>3, CloseKeeps
<1>4. CASE Recovered \/ Restarted(io)
  <2>1. IOType(closeuserfiles) /\ IOType(CloseAll(io, Streams))
    BY <1>0, ClosesThose DEF closeuserfiles
  <2>. QED
    BY <1>4, <2>1, Starts DEF Recovered, Restarted
<1>. QED
  BY <1>1, <1>2, <1>3, <1>4 DEF TableNext

JobOn == job.stage # "idle" /\ JobInv
SameIO(i) == io'.ports = i.ports /\ io'.index = i.index /\ io'.streams = i.streams /\ io'.dir = i.dir

LEMMA BeginKeeps ==
  ASSUME TableInv, NEW p \in Slots, ispopen(p), isdirect(p),
         NEW isarray, NEW calls, NEW parts, NEW numbers, Begin(p, isarray, calls, parts, numbers)
  PROVE  IInv'
<1>1. /\ io' = Flushed(io, {io.index[p]}) /\ UNCHANGED table
      /\ job' = [NoJob EXCEPT !.stage = "write", !.port = p, !.isarray = isarray,
                              !.calls = calls, !.parts = parts, !.numbers = numbers]
  BY DEF Begin, HeaderRead
<1>2. IOType(io') /\ SameIO(io)
  BY <1>1, FlushKeeps DEF TableInv, TableType, SameIO
<1>3. TableInv'
  BY <1>1, <1>2, SameTable DEF SameIO
<1>4. JobInv' /\ job'.stage = "write"
  BY <1>1, DirectIsNamed DEF JobInv, NoJob, isdirect, table
<1>. QED
  BY <1>3, <1>4 DEF IInv

(* At the end of a component nothing changes but words.                     *)
LEMMA PartKeeps ==
  ASSUME NEW i, IOType(i), JobOn, UNCHANGED table, PartEnds(i)
  PROVE  /\ IOType(io') /\ SameIO(i)
         /\ JobInv' /\ job'.stage \in {"idle", "write"}
<1>1. CASE job.parts = <<>>
  <2>1. io' = i /\ job' = NoJob
    BY <1>1 DEF PartEnds
  <2>. QED
    BY <2>1 DEF SameIO, JobInv, NoJob
<1>2. CASE job.parts # <<>>
  <2>1. io' = Flushed(i, {i.index[job.port]})
    BY <1>2 DEF PartEnds, HeaderRead
  <2>2. \E calls : job' = [job EXCEPT !.stage = "write", !.parts = Tail(job.parts),
                                      !.spare = <<0, 0>>, !.calls = calls]
    BY <1>2 DEF PartEnds
  <2>3. IOType(io') /\ SameIO(i)
    BY <2>1, FlushKeeps DEF SameIO
  <2>4. PICK calls : job' = [job EXCEPT !.stage = "write", !.parts = Tail(job.parts),
                                        !.spare = <<0, 0>>, !.calls = calls]
    BY <2>2
  <2>5. JobInv' /\ job'.stage = "write"
    BY <2>4 DEF JobOn, JobInv, isdirect, table
  <2>. QED
    BY <2>3, <2>5
<1>. QED
  BY <1>1, <1>2

(* The same, with the table: a stage of a job in which every stream of a port is open. *)
LEMMA EndKeeps ==
  ASSUME TableInv, NEW i, IOType(i), JobOn, UNCHANGED table, PartEnds(i),
         i.ports = io.ports, i.index = io.index,
         \A p \in Slots :
           /\ io.ports[p] \in Streams => i.streams[io.ports[p]] # shut
           /\ io.index[p] \in Streams => i.streams[io.index[p]] # shut
  PROVE  IInv'
<1>1. /\ IOType(io') /\ SameIO(i)
      /\ JobInv' /\ job'.stage \in {"idle", "write"}
  BY PartKeeps
<1>2. TableInv'
  BY <1>1, SamePorts DEF SameIO
<1>. QED
  BY <1>1, <1>2 DEF IInv

LEMMA HostWriteKeeps ==
  ASSUME IInv, HostWrite
  PROVE  IInv'
<1>1. JobOn /\ TableInv /\ job.stage \in {"write", "copy"}
  BY DEF IInv, JobOn, HostWrite
<1>2. /\ UNCHANGED table
      /\ job' = [job EXCEPT !.calls = Tail(job.calls)]
      /\ io' = writeblock(Flushed(io, Head(job.calls).reads), Head(job.calls).s,
                          Head(job.calls).at, Head(job.calls).words, Head(job.calls).of)
  BY DEF HostWrite
<1>3. /\ IOType(Flushed(io, Head(job.calls).reads))
      /\ Flushed(io, Head(job.calls).reads).ports = io.ports
      /\ Flushed(io, Head(job.calls).reads).index = io.index
      /\ Flushed(io, Head(job.calls).reads).streams = io.streams
      /\ Flushed(io, Head(job.calls).reads).dir = io.dir
  BY <1>1, FlushKeeps DEF TableInv, TableType
<1>4. IOType(io') /\ SameIO(io)
  BY <1>2, <1>3, WriteKeeps DEF SameIO
<1>5. TableInv'
  BY <1>1, <1>2, <1>4, SameTable DEF SameIO
<1>6. /\ job'.stage = job.stage /\ job'.port = job.port /\ job'.spare = job.spare
      /\ job' \in [stage : {"idle", "write", "copy", "noindex", "newindex", "norecords"},
              port : {job'.port}, isarray : {job'.isarray}, calls : {job'.calls},
              parts : {job'.parts}, numbers : {job'.numbers},
              spare : (Streams \cup {0}) \X (Streams \cup {0})]
  BY <1>1, <1>2 DEF JobOn, JobInv
<1>7. filenames' = filenames /\ filetypes' = filetypes
  BY <1>2 DEF table
<1>8. JobInv'
  BY <1>1, <1>4, <1>6, <1>7 DEF JobOn, JobInv, SameIO, Spare, Path, isdirect
<1>. QED
  BY <1>1, <1>5, <1>6, <1>8 DEF IInv

(* Paths of a job's file. *)
LEMMA JobPaths ==
  ASSUME JobOn, DirectNames
  PROVE  /\ job.port \in Slots /\ filenames[job.port] # no_value /\ isdirect(job.port)
         /\ job.port >= 3
         /\ \A e \in {"rec", "ndx", "trc", "tdx"} : Path(e) \in Paths
         /\ \A d, e \in {"rec", "ndx", "trc", "tdx"} : Path(d) = Path(e) => d = e
BY DEF JobOn, JobInv, DirectNames, Path, Paths

LEMMA CompressKeeps ==
  ASSUME IInv, compressfile
  PROVE  IInv'
<1> DEFINE p   == job.port
           i   == HeaderRead(io, p)
           ndx == NewStream(i)
           i1  == opendirect(i, Path("tdx"))
           rec == NewStream(i1)
           i2  == opendirect(i1, Path("trc"))
<1>1. JobOn /\ TableInv /\ job.stage = "write" /\ UNCHANGED table
  BY DEF IInv, JobOn, compressfile
<1>2. /\ Path("tdx") \in Paths /\ Path("trc") \in Paths /\ Path("tdx") # Path("trc")
      /\ p \in Slots /\ filenames[p] # no_value /\ isdirect(p)
  BY <1>1, JobPaths DEF TableInv
<1>3. /\ IOType(i) /\ i.ports = io.ports /\ i.index = io.index
      /\ i.streams = io.streams /\ i.dir = io.dir
  BY <1>1, FlushKeeps DEF TableInv, TableType, HeaderRead
<1>4. \/ PartEnds(i)
      \/ CanOpen(i, Path("tdx")) /\ PartEnds(i1)
      \/ /\ CanOpen(i, Path("tdx")) /\ CanOpen(i1, Path("trc")) /\ io' = i2
         /\ \E calls : job' = [job EXCEPT !.stage = "copy", !.spare = <<ndx, rec>>,
                                          !.calls = calls]
  BY DEF compressfile
<1>. HIDE DEF i, p
<1>5. CASE PartEnds(i)
  BY <1>1, <1>3, <1>5, EndKeeps DEF TableInv, StreamsOpen
<1>6. CanOpen(i, Path("tdx")) =>
        /\ ndx \in Streams /\ i.streams[ndx] = shut
        /\ IOType(i1) /\ i1.ports = i.ports /\ i1.index = i.index
        /\ i1.streams[ndx] # shut
        /\ \A t \in Streams \ {ndx} : i1.streams[t] = i.streams[t]
        /\ i1.dir[Path("tdx")] # 0
  BY <1>2, <1>3, OpensOne
<1>. HIDE DEF i1, ndx
<1>7. CanOpen(i, Path("tdx")) =>
        \A q \in Slots :
          /\ io.ports[q] \in Streams => i1.streams[io.ports[q]] # shut /\ io.ports[q] # ndx
          /\ io.index[q] \in Streams => i1.streams[io.index[q]] # shut /\ io.index[q] # ndx
  BY <1>1, <1>3, <1>6 DEF TableInv, StreamsOpen
<1>8. CASE CanOpen(i, Path("tdx")) /\ PartEnds(i1)
  <2>1. i1.ports = io.ports /\ i1.index = io.index /\ IOType(i1)
    BY <1>3, <1>6, <1>8
  <2>. QED
    BY <1>1, <1>7, <1>8, <2>1, EndKeeps
<1>9. ASSUME CanOpen(i, Path("tdx")), CanOpen(i1, Path("trc")), io' = i2,
             NEW calls, job' = [job EXCEPT !.stage = "copy", !.spare = <<ndx, rec>>,
                                           !.calls = calls]
      PROVE  IInv'
  <2>1. /\ rec \in Streams /\ i1.streams[rec] = shut
        /\ IOType(i2) /\ i2.ports = i1.ports /\ i2.index = i1.index
        /\ i2.streams[rec] # shut
        /\ \A t \in Streams \ {rec} : i2.streams[t] = i1.streams[t]
        /\ i2.dir[Path("trc")] # 0
        /\ \A q \in Paths \ {Path("trc")} : i2.dir[q] = i1.dir[q]
    BY <1>2, <1>6, <1>9, OpensOne
  <2>. HIDE DEF i2, rec
  <2>2. \A q \in Slots :
          /\ io.ports[q] \in Streams => i2.streams[io.ports[q]] # shut /\ io.ports[q] # rec
          /\ io.index[q] \in Streams => i2.streams[io.index[q]] # shut /\ io.index[q] # rec
    BY <1>7, <1>9, <2>1
  <2>3. IOType(io') /\ io'.ports = io.ports /\ io'.index = io.index
    BY <1>3, <1>6, <1>9, <2>1
  <2>4. TableInv'
    BY <1>1, <1>9, <2>2, <2>3, SamePorts
  <2>5. io'.dir[Path("tdx")] # 0 /\ io'.dir[Path("trc")] # 0
    BY <1>2, <1>6, <1>9, <2>1
  <2>6. ndx # rec /\ ndx # 0 /\ rec # 0 /\ io'.streams[ndx] # shut /\ io'.streams[rec] # shut
    BY <1>6, <1>9, <2>1, Numbers3 DEF closedport
  <2>7. \A q \in Slots :
          /\ io.ports[q] # ndx /\ io.index[q] # ndx
          /\ io.ports[q] # rec /\ io.index[q] # rec
    BY <1>6, <1>7, <1>9, <2>1, <2>2
  <2>8. filenames' = filenames /\ filetypes' = filetypes
    BY <1>1 DEF table
  <2>9. /\ job'.stage = "copy" /\ job'.port = p /\ job'.spare = <<ndx, rec>>
        /\ job' \in [stage : {"idle", "write", "copy", "noindex", "newindex", "norecords"},
                port : {job'.port}, isarray : {job'.isarray}, calls : {job'.calls},
                parts : {job'.parts}, numbers : {job'.numbers},
                spare : (Streams \cup {0}) \X (Streams \cup {0})]
    BY <1>1, <1>6, <1>9, <2>1 DEF JobOn, JobInv, p
  <2>10. Path("tdx")' = Path("tdx") /\ Path("trc")' = Path("trc")
    BY <2>8, <2>9 DEF Path, p
  <2>11. PICK a \in Streams, b \in Streams : a = ndx /\ b = rec
    BY <1>6, <1>9, <2>1
  <2>12. Spare(a)' /\ Spare(b)' /\ a # b /\ job'.spare = <<a, b>>
    BY <2>3, <2>6, <2>7, <2>9, <2>11 DEF Spare
  <2>13. /\ job'.port \in Slots /\ filenames'[job'.port] # no_value
         /\ filetypes'[job'.port] = "d"
    BY <1>2, <2>8, <2>9 DEF isdirect
  <2>14. JobInv'
    <3>1. Spare(job.spare[1])' /\ Spare(job.spare[2])' /\ job'.spare[1] # job'.spare[2]
      BY <2>12 DEF Spare
    <3>2. io'.dir[Path("tdx")'] # 0 /\ io'.dir[Path("trc")'] # 0
      BY <2>5, <2>10
    <3>. QED
      BY <2>9, <2>13, <3>1, <3>2 DEF JobInv, isdirect
  <2>. QED
    BY <2>4, <2>9, <2>14 DEF IInv
<1>. QED
  BY <1>4, <1>5, <1>8, <1>9

LEMMA CopyFailsKeeps ==
  ASSUME IInv, CopyFails
  PROVE  IInv'
<1> DEFINE d == [io EXCEPT !.dir[Path("tdx")] = 0, !.dir[Path("trc")] = 0]
           i == CloseAll(d, Range(job.spare))
<1>1. JobOn /\ TableInv /\ job.stage = "copy" /\ UNCHANGED table /\ PartEnds(i)
  BY DEF IInv, JobOn, CopyFails
<1>2. IOType(io) /\ Path("tdx") \in Paths /\ Path("trc") \in Paths
  BY <1>1, JobPaths DEF TableInv, TableType
<1>3. IOType(d) /\ d.ports = io.ports /\ d.index = io.index /\ d.streams = io.streams
  BY <1>2 DEF IOType
<1>. HIDE DEF d
<1>4. /\ IOType(i) /\ i.ports = d.ports /\ i.index = d.index
      /\ \A t \in Streams : i.streams[t] = IF t \in Range(job.spare) THEN shut ELSE d.streams[t]
  BY <1>3, ClosesThose
<1>. HIDE DEF i
<1>5. /\ Spare(job.spare[1]) /\ Spare(job.spare[2])
      /\ Range(job.spare) = {job.spare[1], job.spare[2]}
  BY <1>1 DEF JobOn, JobInv, Range
<1>6. \A q \in Slots :
        /\ io.ports[q] \in Streams => i.streams[io.ports[q]] # shut
        /\ io.index[q] \in Streams => i.streams[io.index[q]] # shut
  BY <1>1, <1>3, <1>4, <1>5 DEF TableInv, StreamsOpen, Spare
<1>7. i.ports = io.ports /\ i.index = io.index
  BY <1>3, <1>4
<1>. QED
  BY <1>1, <1>4, <1>6, <1>7, EndKeeps

-------------------------------------------------------------------------------
(* The exchange of the files: a stream of the port is closed, and another  *)
(* opened in its place.                                                     *)
LEMMA UnlinkedIs ==
  ASSUME IOType(io), NEW x \in Streams, NEW y \in Streams, NEW path \in Paths
  PROVE  LET j == Unlinked(x, y, path)
         IN  /\ IOType(j) /\ j.ports = io.ports /\ j.index = io.index
             /\ \A t \in Streams : j.streams[t] = IF t \in {x, y} THEN shut ELSE io.streams[t]
             /\ \A q \in Paths \ {path} : j.dir[q] = io.dir[q]
<1> DEFINE i == CloseAll(io, {x, y})
           k == [i EXCEPT !.dir[path] = 0]
<1>1. /\ IOType(i) /\ i.ports = io.ports /\ i.index = io.index /\ i.dir = io.dir
      /\ \A t \in Streams : i.streams[t] = IF t \in {x, y} THEN shut ELSE io.streams[t]
  BY ClosesThose
<1>2. Unlinked(x, y, path) = Swept(k)
  BY DEF Unlinked
<1>. HIDE DEF i
<1>3. /\ IOType(k) /\ k.ports = io.ports /\ k.index = io.index /\ k.streams = i.streams
      /\ \A q \in Paths \ {path} : k.dir[q] = io.dir[q]
  BY <1>1 DEF IOType
<1>. HIDE DEF k
<1>4. /\ IOType(Swept(k)) /\ Swept(k).streams = k.streams
      /\ Swept(k).ports = k.ports /\ Swept(k).index = k.index /\ Swept(k).dir = k.dir
  BY <1>3, SweptKeeps
<1>. QED
  BY <1>1, <1>2, <1>3, <1>4

LEMMA ShutsOne ==
  ASSUME TableInv, UNCHANGED table, IOType(io'), io'.ports = io.ports, io'.index = io.index,
         NEW x \in Streams, io'.streams[x] = shut,
         \A p \in Slots :
           /\ io.ports[p] \in Streams \ {x} => io'.streams[io.ports[p]] # shut
           /\ io.index[p] \in Streams \ {x} => io'.streams[io.index[p]] # shut
  PROVE  TableBut(x)'
<1>1. TableType' /\ SlotsAgree' /\ NamesDiffer' /\ DirectNames' /\ StreamsDiffer'
  BY DEF TableInv, TableType, SlotsAgree, isdirect, NamesDiffer, DirectNames, StreamsDiffer,
         table
<1>. QED
  BY <1>1 DEF TableBut

LEMMA RenamedIs ==
  ASSUME NEW x, TableBut(x), NEW new \in Paths, NEW path \in Paths, new # path, io.dir[new] # 0
  PROVE  LET s == NewStream(io)  j == Renamed(new, path)
         IN  /\ s \in Streams /\ io.streams[s] = shut
             /\ IOType(j) /\ j.ports = io.ports /\ j.index = io.index
             /\ j.streams[s] # shut
             /\ \A t \in Streams \ {s} : j.streams[t] = io.streams[t]
             /\ \A q \in Paths \ {new, path} : j.dir[q] = io.dir[q]
<1> DEFINE d == [io EXCEPT !.dir[path] = io.dir[new], !.dir[new] = 0]
<1>1. IOType(io) /\ x \in Streams /\ io.streams[x] = shut
  BY DEF TableBut, TableType
<1>2. /\ IOType(d) /\ d.ports = io.ports /\ d.index = io.index /\ d.streams = io.streams
      /\ d.dir = [io.dir EXCEPT ![path] = io.dir[new], ![new] = 0]
  BY <1>1 DEF IOType
<1>3. /\ d.dir[path] # 0
      /\ \A q \in Paths \ {new, path} : d.dir[q] = io.dir[q]
  BY <1>1, <1>2 DEF IOType
<1>4. Renamed(new, path) = opendirect(d, path)
  BY DEF Renamed
<1>. HIDE DEF d
<1>5. Vacant(d) = Vacant(io) /\ x \in Vacant(d)
  BY <1>1, <1>2 DEF Vacant
<1>6. NewStream(d) = NewStream(io)
  BY <1>5 DEF NewStream
<1>7. CanOpen(d, path)
  BY <1>3, <1>5 DEF CanOpen, Present
<1>8. IOType(d)
  BY <1>2
<1>9. LET s == NewStream(d)  j == opendirect(d, path)
      IN  /\ s \in Streams /\ d.streams[s] = shut
          /\ IOType(j) /\ j.ports = d.ports /\ j.index = d.index
          /\ j.streams[s] # shut
          /\ \A t \in Streams \ {s} : j.streams[t] = d.streams[t]
          /\ j.dir[path] # 0
          /\ \A q \in Paths \ {path} : j.dir[q] = d.dir[q]
  BY <1>7, <1>8, OpensOne
<1>. QED
  BY <1>2, <1>3, <1>4, <1>6, <1>9

LEMMA OpensAgain ==
  ASSUME NEW x, TableBut(x), UNCHANGED table, IOType(io'),
         NEW p \in Slots, p >= 3, filenames[p] # no_value, isdirect(p),
         NEW s \in Streams, io.streams[s] = shut, io'.streams[s] # shut,
         \A t \in Streams \ {s} : io'.streams[t] = io.streams[t],
         \/ io.index[p] = x /\ io'.index = [io.index EXCEPT ![p] = s] /\ io'.ports = io.ports
         \/ io.ports[p] = x /\ io'.ports = [io.ports EXCEPT ![p] = s] /\ io'.index = io.index
  PROVE  TableInv'
<1>1. /\ io.ports \in [Slots -> Streams \cup {closedport, system}]
      /\ io.index \in [Slots -> Streams \cup {closedport}]
      /\ UNCHANGED <<nextfilenum, filenames, filetypes>>
  BY DEF TableBut, TableType, IOType, table
<1>2. \A q \in Slots :
        /\ io.ports[q] \in Streams => io.ports[q] # s \/ io.ports[q] = x
        /\ io.index[q] \in Streams => io.index[q] # s \/ io.index[q] = x
  BY DEF TableBut
<1>3. TableType' /\ NamesDiffer' /\ DirectNames'
  BY <1>1 DEF TableBut, TableType, NamesDiffer, DirectNames, isdirect
<1>4. /\ \A q \in Slots \ {p} : io'.ports[q] = io.ports[q] /\ io'.index[q] = io.index[q]
      /\ \/ io.index[p] = x /\ io'.index[p] = s /\ io'.ports[p] = io.ports[p]
         \/ io.ports[p] = x /\ io'.ports[p] = s /\ io'.index[p] = io.index[p]
  BY <1>1
<1>5. SlotsAgree'
  BY <1>1, <1>4, Numbers3 DEF TableBut, SlotsAgree, isdirect
<1>6. StreamsOpen'
  BY <1>1, <1>2, <1>4 DEF TableBut, StreamsOpen, StreamsDiffer
<1>7. StreamsDiffer'
  BY <1>1, <1>2, <1>4 DEF TableBut, StreamsDiffer
<1>. QED
  BY <1>3, <1>5, <1>6, <1>7 DEF TableInv

LEMMA UnlinkIndexKeeps ==
  ASSUME IInv, UnlinkIndex
  PROVE  IInv'
<1>1. JobOn /\ TableInv /\ job.stage = "copy" /\ UNCHANGED table
  BY DEF IInv, JobOn, UnlinkIndex
<1>2. PICK p \in Slots, a \in Streams, b \in Streams, x \in {io.index[job.port]} :
        /\ p = job.port /\ x = io.index[p] /\ a = job.spare[1] /\ b = job.spare[2]
  BY <1>1 DEF JobOn, JobInv, Spare
<1>3. /\ filenames[p] # no_value /\ isdirect(p) /\ p >= 3
      /\ \A e \in {"rec", "ndx", "trc", "tdx"} : Path(e) \in Paths
      /\ Path("ndx") # Path("tdx") /\ Path("ndx") # Path("trc")
  BY <1>1, <1>2, JobPaths DEF TableInv
<1>4. x \in Streams /\ IOType(io)
  BY <1>1, <1>2, <1>3 DEF TableInv, TableType, IOType, SlotsAgree
<1>5. io' = Unlinked(x, a, Path("ndx")) /\ job' = [job EXCEPT !.stage = "noindex"]
  BY <1>2 DEF UnlinkIndex
<1>6. /\ IOType(io') /\ io'.ports = io.ports /\ io'.index = io.index
      /\ \A t \in Streams : io'.streams[t] = IF t \in {x, a} THEN shut ELSE io.streams[t]
      /\ \A q \in Paths \ {Path("ndx")} : io'.dir[q] = io.dir[q]
  BY <1>3, <1>4, <1>5, UnlinkedIs
<1>7. /\ Spare(a) /\ Spare(b) /\ a # b
      /\ io.dir[Path("tdx")] # 0 /\ io.dir[Path("trc")] # 0
  BY <1>1, <1>2 DEF JobOn, JobInv
<1>8. TableBut(x)'
  BY <1>1, <1>4, <1>6, <1>7, ShutsOne DEF TableInv, StreamsOpen, Spare
<1>9. Spare(b)'
  BY <1>2, <1>6, <1>7 DEF Spare
<1>10. /\ job'.stage = "noindex" /\ job'.port = p /\ job'.spare[2] = b
       /\ job' \in [stage : {"idle", "write", "copy", "noindex", "newindex", "norecords"},
              port : {job'.port}, isarray : {job'.isarray}, calls : {job'.calls},
              parts : {job'.parts}, numbers : {job'.numbers},
              spare : (Streams \cup {0}) \X (Streams \cup {0})]
  BY <1>1, <1>2, <1>5 DEF JobOn, JobInv
<1>11. filenames' = filenames /\ filetypes' = filetypes
  BY <1>1 DEF table
<1>12. io'.dir[Path("tdx")'] # 0 /\ io'.dir[Path("trc")'] # 0
  BY <1>2, <1>3, <1>6, <1>7, <1>10, <1>11 DEF Path
<1>13. JobInv'
  BY <1>3, <1>9, <1>10, <1>11, <1>12 DEF JobInv, isdirect, Spare
<1>14. io'.index[job'.port] = x
  BY <1>2, <1>6, <1>10
<1>. QED
  BY <1>8, <1>10, <1>13, <1>14 DEF IInv, TableBut

LEMMA RenameIndexKeeps ==
  ASSUME IInv, RenameIndex
  PROVE  IInv'
<1>1. JobOn /\ job.stage = "noindex" /\ UNCHANGED table /\ TableBut(io.index[job.port])
  BY DEF IInv, JobOn, RenameIndex
<1>2. PICK p \in Slots, b \in Streams, x \in Streams, s \in {NewStream(io)} :
        p = job.port /\ x = io.index[p] /\ b = job.spare[2] /\ s = NewStream(io)
  BY <1>1 DEF JobOn, JobInv, Spare, TableBut
<1>3. /\ filenames[p] # no_value /\ isdirect(p) /\ p >= 3
      /\ \A e \in {"rec", "ndx", "trc", "tdx"} : Path(e) \in Paths
      /\ Path("ndx") # Path("tdx") /\ Path("ndx") # Path("trc") /\ Path("tdx") # Path("trc")
  BY <1>1, <1>2, JobPaths DEF TableBut
<1>4. /\ TableBut(x) /\ Spare(b)
      /\ io.dir[Path("tdx")] # 0 /\ io.dir[Path("trc")] # 0
  BY <1>1, <1>2 DEF JobOn, JobInv
<1> DEFINE j == Renamed(Path("tdx"), Path("ndx"))
<1>5. io' = [j EXCEPT !.index[p] = s] /\ job' = [job EXCEPT !.stage = "newindex"]
  BY <1>2 DEF RenameIndex
<1>6. /\ s \in Streams /\ io.streams[s] = shut
      /\ IOType(j) /\ j.ports = io.ports /\ j.index = io.index
      /\ j.streams[s] # shut
      /\ \A t \in Streams \ {s} : j.streams[t] = io.streams[t]
      /\ \A q \in Paths \ {Path("tdx"), Path("ndx")} : j.dir[q] = io.dir[q]
  BY <1>2, <1>3, <1>4, RenamedIs
<1>. HIDE DEF j
<1>7. /\ IOType(io') /\ io'.streams = j.streams /\ io'.dir = j.dir
      /\ io'.ports = io.ports /\ io'.index = [io.index EXCEPT ![p] = s]
  BY <1>5, <1>6 DEF IOType
<1>8. TableInv'
  <2>1. /\ io'.streams[s] # shut /\ io.index[p] = x
        /\ \A t \in Streams \ {s} : io'.streams[t] = io.streams[t]
        /\ s \in Streams /\ io.streams[s] = shut
    BY <1>2, <1>6, <1>7
  <2>2. \/ io.index[p] = x /\ io'.index = [io.index EXCEPT ![p] = s] /\ io'.ports = io.ports
        \/ io.ports[p] = x /\ io'.ports = [io.ports EXCEPT ![p] = s] /\ io'.index = io.index
    BY <1>7, <2>1
  <2>3. UNCHANGED table /\ TableBut(x) /\ IOType(io')
    BY <1>1, <1>4, <1>7
  <2>. QED
    BY <1>3, <2>1, <2>2, <2>3, OpensAgain
<1>9. b # s /\ io.index \in [Slots -> Streams \cup {closedport}]
  BY <1>4, <1>6 DEF Spare, TableBut, TableType, IOType
<1>10. Spare(b)'
  BY <1>4, <1>6, <1>7, <1>9 DEF Spare
<1>11. /\ job'.stage = "newindex" /\ job'.port = p /\ job'.spare[2] = b
       /\ job' \in [stage : {"idle", "write", "copy", "noindex", "newindex", "norecords"},
              port : {job'.port}, isarray : {job'.isarray}, calls : {job'.calls},
              parts : {job'.parts}, numbers : {job'.numbers},
              spare : (Streams \cup {0}) \X (Streams \cup {0})]
  BY <1>1, <1>2, <1>5 DEF JobOn, JobInv
<1>12. filenames' = filenames /\ filetypes' = filetypes
  BY <1>1 DEF table
<1>13. io'.dir[Path("trc")'] # 0
  BY <1>2, <1>3, <1>4, <1>6, <1>7, <1>11, <1>12 DEF Path
<1>14. JobInv'
  BY <1>3, <1>10, <1>11, <1>12, <1>13 DEF JobInv, isdirect, Spare
<1>. QED
  BY <1>8, <1>11, <1>14 DEF IInv

LEMMA UnlinkRecordsKeeps ==
  ASSUME IInv, UnlinkRecords
  PROVE  IInv'
<1>1. JobOn /\ TableInv /\ job.stage = "newindex" /\ UNCHANGED table
  BY DEF IInv, JobOn, UnlinkRecords
<1>2. PICK p \in Slots, b \in Streams, x \in {io.ports[job.port]} :
        p = job.port /\ x = io.ports[p] /\ b = job.spare[2]
  BY <1>1 DEF JobOn, JobInv, Spare
<1>3. /\ filenames[p] # no_value /\ isdirect(p) /\ p >= 3
      /\ \A e \in {"rec", "ndx", "trc", "tdx"} : Path(e) \in Paths
      /\ Path("rec") # Path("trc")
  BY <1>1, <1>2, JobPaths DEF TableInv
<1>4. x \in Streams /\ IOType(io)
  BY <1>1, <1>2, <1>3 DEF TableInv, TableType, IOType, SlotsAgree
<1>5. io' = Unlinked(x, b, Path("rec")) /\ job' = [job EXCEPT !.stage = "norecords"]
  BY <1>2 DEF UnlinkRecords
<1>6. /\ IOType(io') /\ io'.ports = io.ports /\ io'.index = io.index
      /\ \A t \in Streams : io'.streams[t] = IF t \in {x, b} THEN shut ELSE io.streams[t]
      /\ \A q \in Paths \ {Path("rec")} : io'.dir[q] = io.dir[q]
  BY <1>3, <1>4, <1>5, UnlinkedIs
<1>7. Spare(b) /\ io.dir[Path("trc")] # 0
  BY <1>1, <1>2 DEF JobOn, JobInv
<1>8. TableBut(x)'
  BY <1>1, <1>4, <1>6, <1>7, ShutsOne DEF TableInv, StreamsOpen, Spare
<1>9. /\ job'.stage = "norecords" /\ job'.port = p
      /\ job' \in [stage : {"idle", "write", "copy", "noindex", "newindex", "norecords"},
             port : {job'.port}, isarray : {job'.isarray}, calls : {job'.calls},
             parts : {job'.parts}, numbers : {job'.numbers},
             spare : (Streams \cup {0}) \X (Streams \cup {0})]
  BY <1>1, <1>2, <1>5 DEF JobOn, JobInv
<1>10. filenames' = filenames /\ filetypes' = filetypes
  BY <1>1 DEF table
<1>11. io'.dir[Path("trc")'] # 0
  BY <1>2, <1>3, <1>6, <1>7, <1>9, <1>10 DEF Path
<1>12. JobInv'
  BY <1>3, <1>9, <1>10, <1>11 DEF JobInv, isdirect
<1>13. io'.ports[job'.port] = x
  BY <1>2, <1>6, <1>9
<1>. QED
  BY <1>8, <1>9, <1>12, <1>13 DEF IInv, TableBut

LEMMA RenameRecordsKeeps ==
  ASSUME IInv, RenameRecords
  PROVE  IInv'
<1>1. JobOn /\ job.stage = "norecords" /\ UNCHANGED table /\ TableBut(io.ports[job.port])
  BY DEF IInv, JobOn, RenameRecords
<1>2. PICK p \in Slots, x \in Streams, s \in {NewStream(io)} :
        p = job.port /\ x = io.ports[p] /\ s = NewStream(io)
  BY <1>1 DEF JobOn, JobInv, TableBut
<1>3. /\ filenames[p] # no_value /\ isdirect(p) /\ p >= 3
      /\ \A e \in {"rec", "ndx", "trc", "tdx"} : Path(e) \in Paths
      /\ Path("rec") # Path("trc")
  BY <1>1, <1>2, JobPaths DEF TableBut
<1>4. TableBut(x) /\ io.dir[Path("trc")] # 0
  BY <1>1, <1>2 DEF JobOn, JobInv
<1> DEFINE j == Renamed(Path("trc"), Path("rec"))
           i == [j EXCEPT !.ports[p] = s]
<1>5. PartEnds(i)
  BY <1>2 DEF RenameRecords
<1>6. /\ s \in Streams /\ io.streams[s] = shut
      /\ IOType(j) /\ j.ports = io.ports /\ j.index = io.index
      /\ j.streams[s] # shut
      /\ \A t \in Streams \ {s} : j.streams[t] = io.streams[t]
  BY <1>2, <1>3, <1>4, RenamedIs
<1>. HIDE DEF j
<1>7. /\ IOType(i) /\ i.streams = j.streams
      /\ i.ports = [io.ports EXCEPT ![p] = s] /\ i.index = io.index
  BY <1>6 DEF IOType
<1>. HIDE DEF i
<1>8. /\ IOType(io') /\ SameIO(i)
      /\ JobInv' /\ job'.stage \in {"idle", "write"}
  BY <1>1, <1>5, <1>7, PartKeeps
<1>9. TableInv'
  <2>1. /\ io'.streams[s] # shut /\ io.ports[p] = x
        /\ \A t \in Streams \ {s} : io'.streams[t] = io.streams[t]
        /\ s \in Streams /\ io.streams[s] = shut
    BY <1>2, <1>6, <1>7, <1>8 DEF SameIO
  <2>2. \/ io.index[p] = x /\ io'.index = [io.index EXCEPT ![p] = s] /\ io'.ports = io.ports
        \/ io.ports[p] = x /\ io'.ports = [io.ports EXCEPT ![p] = s] /\ io'.index = io.index
    BY <1>7, <1>8, <2>1 DEF SameIO
  <2>3. UNCHANGED table /\ TableBut(x) /\ IOType(io')
    BY <1>1, <1>4, <1>8
  <2>. QED
    BY <1>3, <2>1, <2>2, <2>3, OpensAgain
<1>. QED
  BY <1>8, <1>9 DEF IInv

(* The process ends with any part of its buffers sent, and starts anew.    *)
LEMMA CutKeeps ==
  ASSUME IInv, Cut
  PROVE  IInv'
<1>1. IOType(io) /\ job' = NoJob
  BY DEF IInv, JobInv, TableInv, TableBut, TableType, Cut
<1>2. \E w : startfilesystem(CloseAll([io EXCEPT !.unsent = w], Streams))
  BY DEF Cut, Restarted
<1>3. PICK w : startfilesystem(CloseAll([io EXCEPT !.unsent = w], Streams))
  BY <1>2
<1>4. IOType([io EXCEPT !.unsent = w])
  BY <1>1 DEF IOType
<1>5. IOType(CloseAll([io EXCEPT !.unsent = w], Streams))
  BY <1>4, ClosesThose
<1>6. TableInv'
  BY <1>3, <1>5, Starts
<1>7. JobInv' /\ job'.stage = "idle"
  BY <1>1 DEF JobInv, NoJob
<1>. QED
  BY <1>6, <1>7 DEF IInv

(* The table, the streams of its ports and those of the job in progress    *)
(* agree at every host call of every operation, and after a process that   *)
(* ended between two of them (fileio.c).                                   *)
THEOREM FileInvariance == Spec => []IInv
<1>1. IInv /\ [Next]_dvars => IInv'
  <2>. SUFFICES ASSUME IInv, [Next]_dvars PROVE IInv'
    OBVIOUS
  <2>1. CASE Idle /\ TableNext /\ UNCHANGED <<job, down, lost, writes, shown>>
    <3>1. TableInv /\ JobInv /\ job' = job /\ job.stage = "idle"
      BY <2>1 DEF IInv, Idle
    <3>2. TableInv'
      BY <2>1, <3>1, TableNextKeeps
    <3>3. JobInv'
      BY <3>1 DEF JobInv
    <3>. QED
      BY <3>1, <3>2, <3>3 DEF IInv
  <2>2. ASSUME NEW p \in Slots, NEW isarray \in BOOLEAN, Write(isarray, p)
        PROVE  IInv'
    <3>1. TableInv /\ ispopen(p) /\ isdirect(p)
      BY <2>2 DEF IInv, Write, DirectPort, Idle
    <3>2. PICK calls, parts, numbers : Begin(p, isarray, calls, parts, numbers)
      BY <2>2 DEF Write
    <3>. QED
      BY <3>1, <3>2, BeginKeeps
  <2>3. ASSUME NEW p \in Slots, NEW n \in Numbers, ieraserecord(p, n)
        PROVE  IInv'
    <3>1. /\ TableInv /\ ispopen(p) /\ isdirect(p)
          /\ Begin(p, FALSE, eraserecord(io, p, n), <<>>, {n})
      BY <2>3 DEF IInv, ieraserecord, DirectPort, Idle
    <3>. QED
      BY <3>1, BeginKeeps
  <2>4. CASE AfterCut \/ UNCHANGED dvars
    <3>1. UNCHANGED <<table, io, job>>
      BY <2>4 DEF AfterCut, dvars
    <3>2. /\ nextfilenum' = nextfilenum /\ filenames' = filenames /\ filetypes' = filetypes
          /\ io' = io /\ job' = job
      BY <3>1 DEF table
    <3>. QED
      BY <3>2 DEF IInv, JobInv, TableInv, TableBut, TableType, SlotsAgree, NamesDiffer,
                  DirectNames, StreamsOpen, StreamsDiffer, Spare, Path, isdirect
  <2>. QED
    BY <2>1, <2>2, <2>3, <2>4, HostWriteKeeps, CompressKeeps, CopyFailsKeeps,
       UnlinkIndexKeeps, RenameIndexKeeps, UnlinkRecordsKeeps, RenameRecordsKeeps, CutKeeps
       DEF Next
<1>. QED
  BY <1>1, InitKeeps, PTL DEF Spec

(* Whatever is opened, refused by the host, closed, recovered from, written, erased    *)
(* and compressed, a port in use owns its streams alone, they are open, and name, mode *)
(* and streams of a slot agree, but while compressfile has closed one to open another  *)
(* (fileio.c iopen, iclose, closeuserfiles, compressfile, startfilesystem).            *)
THEOREM PortsOwnStreams == Spec => []PortsOwned
<1>1. TableInv => OneOwner
  <2>. SUFFICES ASSUME TableInv PROVE OneOwner
    OBVIOUS
  <2>0. /\ io.ports \in [Slots -> Streams \cup {closedport, system}]
        /\ io.index \in [Slots -> Streams \cup {closedport}]
        /\ nextfilenum \in 3 .. MAXFILES
    BY DEF TableInv, TableType, IOType
  <2>1. \A o : o \in Owners <=>
          \E p \in Slots : \/ io.ports[p] \in Streams /\ o = <<p, io.ports[p]>>
                           \/ io.index[p] \in Streams /\ o = <<p, io.index[p]>>
    BY <2>0, Numbers3 DEF Owners
  <2>2. \A o \in Owners : io.streams[o[2]] # shut
    BY <2>1 DEF TableInv, StreamsOpen
  <2>3. \A o, q \in Owners : o[2] = q[2] => o = q
    BY <2>1 DEF TableInv, StreamsDiffer
  <2>4. \A p \in Slots : (filenames[p] # no_value) <=> (p < nextfilenum /\ io.ports[p] # closedport)
    BY <2>0, Numbers3 DEF TableInv, SlotsAgree
  <2>5. \A p \in UserPorts : isdirect(p) <=> io.index[p] # closedport
    <3>. SUFFICES ASSUME NEW p \in UserPorts
                  PROVE  isdirect(p) <=> io.index[p] # closedport
      OBVIOUS
    <3>1. p \in Slots /\ p >= 3 /\ io.ports[p] # closedport
      BY <2>0, Numbers3 DEF UserPorts, firstuserfile, ispopen, Slots
    <3>. QED
      BY <3>1 DEF TableInv, SlotsAgree
  <2>. QED
    BY <2>2, <2>3, <2>4, <2>5 DEF OneOwner, TableInv, NamesDiffer
<1>2. IInv => PortsOwned
  BY <1>1 DEF IInv, PortsOwned
<1>. QED
  BY <1>2, FileInvariance, PTL
===============================================================================
