----------------------------- MODULE FileTable ------------------------------
(***************************************************************************)
(* The table of open files (fileio.c): a slot for each port, with the name *)
(* it was opened under, its mode and its host streams, and the operations  *)
(* open and close, the closing of every user file by an error and the new  *)
(* table of a session.                                                     *)
(*                                                                         *)
(* io is what the C library and the host keep, with the two arrays of      *)
(* streams of the table:                                                   *)
(*   dir      the file of each path, 0 when there is none                  *)
(*   disk     the words of each file, as the host has them                 *)
(*   unsent   for each stream the last write, as long as its words are in  *)
(*            the buffer of the stream and not with the host               *)
(*   streams  the file each stream is open on; shut when it is not open; a *)
(*            stream on text or on a process, whose data is not modelled,  *)
(*            is open on file 0                                            *)
(*   ports, index   ioports and indexioports                               *)
(* A path is <<name, extension>>.                                          *)
(***************************************************************************)
EXTENDS Integers, Sequences, FiniteSets, FiniteSetsExt, SequencesExt

CONSTANTS
  MAXFILES,       \* slots of the table
  Direct, Other,  \* the names opened for direct access, and in other modes
  OtherModes,     \* the other modes used: r, w, a, c, prt, pwt
  MaxStreams,     \* streams the host lets one process have, but the system's
  MaxFilesOnDisk, \* files on the disk
  no_value        \* the fault that stands in filenames for a free slot

ASSUME TableAssumption ==
  /\ MAXFILES \in Nat /\ MAXFILES > 3
  /\ MaxStreams \in Nat /\ MaxFilesOnDisk \in Nat
  /\ no_value \notin Direct \cup Other \cup {"stdin", "stdout", "stderr"}
  /\ "d" \notin OtherModes

VARIABLES nextfilenum, filenames, filetypes, io

table == <<nextfilenum, filenames, filetypes>>

firstuserfile == 3
Slots    == 0 .. MAXFILES - 1
Streams  == 1 .. MaxStreams
Files    == 1 .. MaxFilesOnDisk
Paths    == Direct \X {"rec", "ndx", "trc", "tdx"}
closedport == 0
system     == MaxStreams + 1       \* stdin, stdout and stderr
shut       == -1

ispopen(p) == p < nextfilenum /\ io.ports[p] # closedport
isdirect(p) == filetypes[p] = "d"

-----------------------------------------------------------------------------
(* The host's part (unixif.c) *)

Vacant(i)  == {s \in Streams : i.streams[s] = shut}
Present(i, path) == i.dir[path] # 0
InUse(i, f) == (\E q \in Paths : i.dir[q] = f) \/ (\E s \in Streams : i.streams[s] = f)
Room(i)    == {f \in Files : ~InUse(i, f)}
NewFile(i) == Min(Room(i))

\* The host has a stream left, and room if the file is new.
CanOpen(i, path) == Vacant(i) # {} /\ (Present(i, path) \/ Room(i) # {})

\* A stream on a file of the disk, which is made when it is not there.
opendirect(i, path) ==
  LET f == IF Present(i, path) THEN i.dir[path] ELSE NewFile(i) IN
  [i EXCEPT !.dir[path] = f, !.streams[Min(Vacant(i))] = f]
openother(i) == [i EXCEPT !.streams[Min(Vacant(i))] = 0]
\* The stream of the last open of i, made by opening from i.
NewStream(i) == Min(Vacant(i))

\* The words of a file that neither a path nor a stream leads to are gone.
Swept(i) == [i EXCEPT !.disk = [f \in Files |-> IF InUse(i, f) THEN i.disk[f] ELSE <<>>]]

\* The words w of a file with the write b in them; past the end it leaves
\* zeros before it.
NoWrite == [at |-> 0, words |-> <<>>, of |-> -1]
Filled(w, n) == IF n <= Len(w) THEN w ELSE w \o [k \in 1 .. n - Len(w) |-> 0]
Placed(w, b) ==
  IF b.words = <<>> THEN w
  ELSE SubSeq(Filled(w, b.at), 1, b.at) \o b.words
       \o SubSeq(w, b.at + Len(b.words) + 1, Len(w))

\* The words of file f when the buffer of a stream of S that writes to it has gone
\* to the host; one stream does at most, as no name is opened twice.
Received(i, S, f) ==
  LET W == {s \in S \cap Streams : i.streams[s] = f /\ i.unsent[s] # NoWrite}
  IN  IF W = {} THEN i.disk[f] ELSE Placed(i.disk[f], i.unsent[CHOOSE s \in W : TRUE])

\* A stream that is read from, moved or closed sends what was written (fseek, fclose).
Flushed(i, S) ==
  [i EXCEPT !.disk   = [f \in Files |-> Received(i, S, f)],
            !.unsent = [s \in Streams |-> IF s \in S THEN NoWrite ELSE i.unsent[s]]]

\* writeblock moves the stream, which sends its last write, and leaves the new
\* one in the buffer; "of" is the component it is of, -1 for none.
writeblock(i, s, at, words, of) ==
  [Flushed(i, {s}) EXCEPT
     !.unsent[s] = IF words = <<>> THEN NoWrite ELSE [at |-> at, words |-> words, of |-> of]]

CloseAll(i, S) ==
  LET j == Flushed(i, S)
  IN  Swept([j EXCEPT !.streams = [s \in Streams |-> IF s \in S THEN shut ELSE j.streams[s]]])
closefile(i, s) == CloseAll(i, {s})

-----------------------------------------------------------------------------
(* startfilesystem *)

NewNames == [p \in Slots |-> CASE p = 0 -> "stdin" [] p = 1 -> "stdout" [] p = 2 -> "stderr"
                               [] OTHER -> no_value]
NewTypes == [p \in Slots |-> IF p = 0 THEN "r" ELSE IF p < 3 THEN "w" ELSE " "]
NewPorts == [p \in Slots |-> IF p < 3 THEN system ELSE closedport]

startfilesystem(i) ==
  /\ nextfilenum' = 3
  /\ filenames' = NewNames
  /\ filetypes' = NewTypes
  /\ io' = [i EXCEPT !.ports = NewPorts, !.index = [p \in Slots |-> closedport]]

TableInit ==
  /\ nextfilenum = 3 /\ filenames = NewNames /\ filetypes = NewTypes
  /\ io = [dir |-> [q \in Paths |-> 0], disk |-> [f \in Files |-> <<>>],
           streams |-> [s \in Streams |-> shut], unsent |-> [s \in Streams |-> NoWrite],
           ports |-> NewPorts, index |-> [p \in Slots |-> closedport]]

-----------------------------------------------------------------------------
(* open *)

NameFree(name) == \A p \in 0 .. nextfilenum - 1 : filenames[p] # name

\* The first slot given up, or the next one.
FreeSlot ==
  Min({p \in 0 .. nextfilenum - 1 : filenames[p] = no_value} \cup {nextfilenum})
Grown == IF FreeSlot = nextfilenum THEN nextfilenum + 1 ELSE nextfilenum
Full  == FreeSlot = MAXFILES

Entered(p, name, mode, i) ==
  /\ filenames' = [filenames EXCEPT ![p] = name]
  /\ filetypes' = [filetypes EXCEPT ![p] = mode]
  /\ io' = i

iopen(name, mode) ==
  /\ NameFree(name) /\ Vacant(io) # {}
  /\ LET s == NewStream(io)  i == openother(io) IN
     IF Full
     THEN io' = i /\ UNCHANGED table
     ELSE /\ nextfilenum' = Grown
          /\ Entered(FreeSlot, name, mode, [i EXCEPT !.ports[FreeSlot] = s,
                                                     !.index[FreeSlot] = closedport])

\* The record file, then the index file.  A host that refuses the second one
\* leaves the slot taken into use behind, still free.
iopen_direct(name) ==
  /\ NameFree(name) /\ CanOpen(io, <<name, "rec">>)
  /\ LET rec == NewStream(io)
         i1  == opendirect(io, <<name, "rec">>)
         ndx == NewStream(i1)
         i2  == opendirect(i1, <<name, "ndx">>)
         i3  == IF Present(io, <<name, "ndx">>) THEN i2
                ELSE writeblock(i2, ndx, 0, <<0, 0, 0, 0>>, -1)
     IN
     IF Full THEN io' = i1 /\ UNCHANGED table
     ELSE /\ nextfilenum' = Grown
          /\ \/ /\ io' = closefile(i1, rec)
                /\ UNCHANGED <<filenames, filetypes>>
             \/ /\ CanOpen(i1, <<name, "ndx">>)
                /\ Entered(FreeSlot, name, "d", [i3 EXCEPT !.ports[FreeSlot] = rec,
                                                           !.index[FreeSlot] = ndx])

(* close *)
\* Mutant: the name stays in the table.
NameStays(p) ==
  /\ p >= firstuserfile /\ ispopen(p)
  /\ io' = [CloseAll(io, {io.ports[p], io.index[p]}) EXCEPT
              !.ports[p] = closedport, !.index[p] = closedport]
  /\ UNCHANGED table
iclose(p) ==
  /\ p >= firstuserfile /\ ispopen(p)
  /\ io' = [CloseAll(io, {io.ports[p], io.index[p]}) EXCEPT
              !.ports[p] = closedport, !.index[p] = closedport]
  /\ filenames' = [filenames EXCEPT ![p] = no_value]
  /\ UNCHANGED <<nextfilenum, filetypes>>

UserPorts == {p \in firstuserfile .. nextfilenum - 1 : ispopen(p)}
closeuserfiles ==
  CloseAll(io, {io.ports[p] : p \in UserPorts}
               \cup {io.index[p] : p \in {q \in UserPorts : isdirect(q)}})

\* An error gets back to the top level, which closes the files of the line and
\* makes a new table.  The end of the process closes every stream.
Recovered == startfilesystem(closeuserfiles)
Restarted(i) == startfilesystem(CloseAll(i, Streams))

TableNext ==
  \/ \E name \in Other, mode \in OtherModes : iopen(name, mode)
  \/ \E name \in Direct : iopen_direct(name)
  \/ \E p \in Slots : iclose(p)
  \/ Recovered
  \/ Restarted(io)

-----------------------------------------------------------------------------
(* Every port in use owns its streams alone, they are open, and a slot has a *)
(* name exactly when it is in use, no name twice: open finds a free slot by  *)
(* the name, ispopen looks at the stream, and close trusts both.             *)
Owners == {<<p, io.ports[p]>> : p \in {q \in Slots : io.ports[q] \notin {closedport, system}}}
          \cup {<<p, io.index[p]>> : p \in {q \in Slots : io.index[q] # closedport}}
OneOwner ==
  /\ \A o \in Owners : io.streams[o[2]] # shut
  /\ \A o, q \in Owners : o[2] = q[2] => o = q
  /\ \A p \in Slots : (filenames[p] # no_value) <=> (p < nextfilenum /\ io.ports[p] # closedport)
  /\ \A p, q \in Slots : filenames[p] = filenames[q] /\ p # q => filenames[p] = no_value
  /\ \A p \in UserPorts : isdirect(p) <=> io.index[p] # closedport
=============================================================================
