-------------------------------- MODULE Session --------------------------------
(***************************************************************************)
(* The interaction of main_stu.c: a prompt, a line that is parsed and      *)
(* evaluated, its value kept in lastval, and the recovery that follows a   *)
(* longjmp to error_env.  save, load, Bye and every error end a line by    *)
(* such a jump.  What a jump leaves half done (the Nial stack, temporary   *)
(* arrays, open files, a half read definition file) is cleaned up by       *)
(* cleanup_ws.                                                             *)
(*                                                                         *)
(* The heap is a reference count per array, -1 for one that does not exist.*)
(* The locals recoverycnt and latentfound of main are changed between its  *)
(* setjmp and a longjmp and are not volatile: after the jump each is       *)
(* either what it was last or what it was at the setjmp.                   *)
(***************************************************************************)
EXTENDS Integers, Sequences, FiniteSets

CONSTANTS
  Arrays,         \* arrays the heap can hold
  Ports,          \* slots of the file table from firstuserfile up
  Files,          \* streams the host can open
  StackMax,       \* bound: entries on the Nial stack
  DefsMax,        \* bound: nesting of loaddefs
  LeakMax,        \* bound: references to a last value that gets a name
  none,           \* lastval = -1; a name without a value; no workspace file
  invalidptr,
  closedport

\* -1 is the address of no array, and no stream of the host is NULL.
ASSUME SessionAssumption == none \notin Arrays /\ closedport \notin Files

VARIABLES
  pc,             \* "prompt", "parse", "eval", "defs", "jump", "loaded",
                  \* "done", or "undefined": what follows is not C
  err,            \* the code of the longjmp
  ending,         \* why the interpreter ended
  interactive,    \* ~nomainloop: started with -i
  recoverycnt, latentfound,
  doinglatent,
  running,        \* what is evaluated: the Latent, a line or -defs
  latentruns,     \* history: times Latent was started since the load
  wsjump,         \* history: there was a save or a load
  refcnt,         \* the heap
  x,              \* the value of a global name
  latent,         \* the workspace defines an expression Latent
  stk,            \* the Nial stack, stk[Len(stk)] = top
  lastval,
  disk,           \* the workspace file
  ports,          \* ioports
  streams,        \* streams that are open in the host
  topsysfile      \* opendeffiles in use

main == <<err, ending, interactive, recoverycnt, latentfound, doinglatent,
          running, latentruns, wsjump>>
ws    == <<refcnt, x, latent>>
files == <<ports, streams, topsysfile>>
vars  == <<pc, main, ws, stk, lastval, disk, files>>

Exists(a) == refcnt[a] >= 0
Temps     == {a \in Arrays : refcnt[a] = 0}

Incr(rc, a) == [rc EXCEPT ![a] = @ + 1]

(* decrrefcnt and freeup *)
Drop(rc, a) == [rc EXCEPT ![a] = IF @ = 1 THEN -1 ELSE @ - 1]

(* The number of entries of the Nial stack that are a. *)
Entries(a) == Cardinality({i \in DOMAIN stk : stk[i] = a})

OpenPorts == {p \in Ports : ports[p] # closedport}

AllClosed == [p \in Ports |-> closedport]

(***************************************************************************)
(* main up to the setjmp of the execution phase, and startfilesystem.  A   *)
(* workspace given with -lws may have a Latent.  Without -i there must be  *)
(* -lws or -defs.                                                          *)
(***************************************************************************)
Init ==
  /\ interactive \in BOOLEAN /\ latent \in BOOLEAN
  /\ pc \in {"prompt", "defs"}
  /\ interactive \/ latent \/ pc = "defs"
  /\ running = IF pc = "defs" THEN "defs" ELSE "nothing"
  /\ topsysfile = IF pc = "defs" THEN 1 ELSE 0
  /\ latentfound = latent
  /\ err = "none" /\ ending = "none"
  /\ recoverycnt = 0 /\ doinglatent = FALSE /\ latentruns = 0
  /\ wsjump = FALSE
  /\ refcnt = [a \in Arrays |-> -1] /\ x = none
  /\ stk = <<>> /\ lastval = none /\ disk = none
  /\ ports = AllClosed /\ streams = {}

-------------------------------------------------------------------------------
(* The top level loop *)

(* retry: a Latent that was found is the line. *)
Retry ==
  /\ pc = "prompt"
  /\ pc' = "parse" /\ stk' = <<>>
  /\ running' = IF latentfound THEN "latent" ELSE "line"
  /\ doinglatent' = (latentfound \/ doinglatent)
  /\ latentruns' = IF latentfound THEN latentruns + 1 ELSE latentruns
  /\ UNCHANGED <<err, ending, interactive, recoverycnt, latentfound, wsjump,
                 ws, lastval, disk, files>>

(* The line is a remark, empty, or a host command. *)
NoAction ==
  /\ pc = "parse" /\ running = "line"
  /\ pc' = "prompt" /\ running' = "nothing"
  /\ UNCHANGED <<err, ending, interactive, recoverycnt, latentfound,
                 doinglatent, latentruns, wsjump, ws, stk, lastval, disk, files>>

(* The global name gets a value: st_s_valu takes over from the old one. *)
Assigned(rc, a) == LET up == Incr(rc, a) IN IF x = none THEN up ELSE Drop(up, x)

(* The line is "]x": the last value gets a name and is forgotten, not its  *)
(* reference.                                                              *)
AssignLast ==
  /\ pc = "parse" /\ running = "line" /\ lastval # none
  /\ refcnt[lastval] < LeakMax
  /\ x' = lastval /\ refcnt' = Assigned(refcnt, lastval)
  /\ lastval' = none
  /\ pc' = "prompt" /\ running' = "nothing"
  /\ UNCHANGED <<err, ending, interactive, recoverycnt, latentfound,
                 doinglatent, latentruns, wsjump, latent, stk, disk, files>>

(* The last value is given up before ieval. *)
Ieval ==
  /\ pc = "parse"
  /\ refcnt' = IF lastval = none THEN refcnt ELSE Drop(refcnt, lastval)
  /\ lastval' = none
  /\ pc' = "eval"
  /\ UNCHANGED <<main, x, latent, stk, disk, files>>

(* Mutant: the last value is not protected. *)
ShownUnprotected(a) == lastval' = a /\ refcnt' = Drop(refcnt, a)

(* The value is protected as lastval, shown and popped. *)
Shown(a) == lastval' = a /\ refcnt' = refcnt

(* The line has a value, alone on the stack. *)
Evaluated == pc = "eval" /\ Len(stk) = 1 /\ Temps = {} /\ topsysfile = 0

Finish ==
  /\ Evaluated /\ interactive
  /\ pc' = "prompt" /\ running' = "nothing"
  /\ latentfound' = FALSE /\ doinglatent' = (doinglatent /\ ~latentfound)
  /\ stk' = <<>>
  /\ Shown(stk[1])
  /\ UNCHANGED <<err, ending, interactive, recoverycnt, latentruns, wsjump, x,
                 latent, disk, files>>

CloseUserFiles ==
  /\ streams' = streams \ {ports[p] : p \in OpenPorts}
  /\ ports' = AllClosed

(* cleanup: without -i the session ends after one evaluation. *)
EndBatch == pc' = "done" /\ ending' = "batch" /\ CloseUserFiles

FinishBatch ==
  /\ Evaluated /\ ~interactive
  /\ EndBatch
  /\ UNCHANGED <<err, interactive, recoverycnt, latentfound, doinglatent, running,
                 latentruns, wsjump, ws, stk, lastval, disk, topsysfile>>

-------------------------------------------------------------------------------
(* Evaluation, of the line or of a definition file *)

Evaluating == pc \in {"eval", "defs"}

(* apush of a new array, of the value of x, or of an array held in C. *)
Push(a) ==
  /\ Evaluating /\ Len(stk) < StackMax
  /\ refcnt[a] \in {-1, 0} \/ x = a
  /\ refcnt' = [refcnt EXCEPT ![a] = IF @ = -1 THEN 1 ELSE @ + 1]
  /\ stk' = Append(stk, a)
  /\ UNCHANGED <<pc, main, x, latent, lastval, disk, files>>

(* apop: the array may be left with no reference. *)
Pop ==
  /\ Evaluating /\ stk # <<>>
  /\ refcnt' = [refcnt EXCEPT ![stk[Len(stk)]] = @ - 1]
  /\ stk' = SubSeq(stk, 1, Len(stk) - 1)
  /\ UNCHANGED <<pc, main, x, latent, lastval, disk, files>>

FreeUp(a) ==
  /\ Evaluating /\ refcnt[a] = 0
  /\ refcnt' = [refcnt EXCEPT ![a] = -1]
  /\ UNCHANGED <<pc, main, x, latent, stk, lastval, disk, files>>

Assign ==
  /\ Evaluating /\ stk # <<>>
  /\ x' = stk[Len(stk)] /\ refcnt' = Assigned(refcnt, x')
  /\ UNCHANGED <<pc, main, latent, stk, lastval, disk, files>>

(* Latent is defined, or its name is given to something else. *)
DefineLatent ==
  /\ Evaluating
  /\ latent' = ~latent
  /\ UNCHANGED <<pc, main, refcnt, x, stk, lastval, disk, files>>

(* iopen, iclose *)
OpenPort(p, f) ==
  /\ Evaluating /\ ports[p] = closedport /\ f \notin streams
  /\ ports' = [ports EXCEPT ![p] = f]
  /\ streams' = streams \cup {f}
  /\ UNCHANGED <<pc, main, ws, stk, lastval, disk, topsysfile>>

(* Every slot is taken: iopen answers a fault and forgets the new stream.   *)
OpenNoSlot(f) ==
  /\ Evaluating /\ OpenPorts = Ports /\ f \notin streams
  /\ streams' = streams \cup {f}
  /\ UNCHANGED <<pc, main, ws, stk, lastval, disk, ports, topsysfile>>

ClosePort(p) ==
  /\ Evaluating /\ ports[p] # closedport
  /\ streams' = streams \ {ports[p]}
  /\ ports' = [ports EXCEPT ![p] = closedport]
  /\ UNCHANGED <<pc, main, ws, stk, lastval, disk, topsysfile>>

(* loaddefs opens its file, and comes to its end. *)
DefsBegin ==
  /\ Evaluating /\ topsysfile < DefsMax
  /\ topsysfile' = topsysfile + 1
  /\ UNCHANGED <<pc, main, ws, stk, lastval, disk, ports, streams>>

DefsEnd ==
  /\ pc = "eval" /\ topsysfile > 0
  /\ topsysfile' = topsysfile - 1
  /\ UNCHANGED <<pc, main, ws, stk, lastval, disk, ports, streams>>

(* The file given with -defs is read: on to the loop, or to the end. *)
DefsDone ==
  /\ pc = "defs" /\ stk = <<>> /\ Temps = {}
  /\ topsysfile' = 0 /\ running' = "nothing"
  /\ IF interactive \/ latentfound
     THEN pc' = "prompt" /\ UNCHANGED <<ending, ports, streams>>
     ELSE EndBatch
  /\ UNCHANGED <<err, interactive, recoverycnt, latentfound, doinglatent,
                 latentruns, wsjump, ws, stk, lastval, disk>>

(* A longjmp: "warning" stands for NC_FAULT too, "abort" for NC_FATAL.     *)
Jump(e) ==
  /\ Evaluating \/ (pc = "parse" /\ e = "warning")
  /\ e = "load" => disk # none
  /\ pc' = "jump" /\ err' = e
  /\ wsjump' = (wsjump \/ e \in {"save", "load"})
  /\ UNCHANGED <<ending, interactive, recoverycnt, latentfound, doinglatent,
                 running, latentruns, ws, stk, lastval, disk, files>>

-------------------------------------------------------------------------------
(* Recovery *)

(* clearstack: every entry is popped and freed up. *)
Cleared(rc) ==
  [a \in Arrays |-> IF Entries(a) > 0 /\ rc[a] = Entries(a) THEN -1
                    ELSE rc[a] - Entries(a)]

(* clearheap *)
WithoutTemps(rc) == [a \in Arrays |-> IF rc[a] = 0 THEN -1 ELSE rc[a]]

(* Mutant: user files stay open. *)
CleanupKeepingFiles(rc) ==
  /\ topsysfile' = 0 /\ stk' = <<>> /\ refcnt' = WithoutTemps(Cleared(rc))
  /\ ports' = AllClosed /\ UNCHANGED streams

(* cleanup_ws: cleardeffiles, clearstack, clearheap, closeuserfiles, and   *)
(* startfilesystem, which makes an empty table.                            *)
Cleanup(rc) ==
  /\ topsysfile' = 0 /\ stk' = <<>> /\ refcnt' = WithoutTemps(Cleared(rc))
  /\ CloseUserFiles

(* What the code reads in recoverycnt after the jump, and adds 1 to. *)
Counted == {recoverycnt + 1, 1}

Handle(e, n) == pc = "jump" /\ err = e /\ n \in Counted

(* A jump out of the recovery itself was meant by this test. *)
Looping(n) ==
  /\ pc = "jump" /\ n \in Counted /\ n > 1
  /\ pc' = "done" /\ ending' = "looping" /\ recoverycnt' = n
  /\ UNCHANGED <<err, interactive, latentfound, doinglatent, running,
                 latentruns, wsjump, ws, stk, lastval, disk, files>>

(* Mutant: a Latent that failed is found again. *)
ToPromptLatent(n) ==
  /\ pc' = "prompt" /\ running' = "nothing" /\ err' = "none"
  /\ recoverycnt' = n - 1 /\ UNCHANGED latentfound

ToPrompt(n) ==
  /\ pc' = "prompt" /\ running' = "nothing" /\ err' = "none"
  /\ recoverycnt' = n - 1 /\ latentfound' = FALSE

RecoverWarning(n) ==
  /\ Handle("warning", n) /\ n <= 1
  /\ Cleanup(refcnt) /\ ToPrompt(n)
  /\ UNCHANGED <<ending, interactive, doinglatent, latentruns, wsjump, x,
                 latent, lastval, disk>>

(* ibye has called cleanup_ws before its jump. *)
RecoverEnd(n) ==
  /\ Handle("abort", n) \/ Handle("bye", n)
  /\ n <= 1
  /\ pc' = "done" /\ ending' = err /\ recoverycnt' = n
  /\ IF err = "bye" THEN Cleanup(refcnt)
     ELSE UNCHANGED <<refcnt, stk, files>>
  /\ UNCHANGED <<err, interactive, latentfound, doinglatent, running,
                 latentruns, wsjump, x, latent, lastval, disk>>

(* The stack is cleared, the workspace written, the rest cleaned up. *)
RecoverSave(n) ==
  /\ Handle("save", n) /\ n <= 1
  /\ disk' = [refcnt |-> Cleared(refcnt), x |-> x, latent |-> latent]
  /\ Cleanup(refcnt)
  /\ pc' = "prompt" /\ running' = "nothing" /\ err' = "none"
  /\ recoverycnt' = n /\ latentfound' = FALSE
  /\ UNCHANGED <<ending, interactive, doinglatent, latentruns, wsjump, x,
                 latent, lastval>>

(* wsdump cannot write: it jumps, from within the recovery. *)
SaveFails(n) ==
  /\ Handle("save", n) /\ n <= 1
  /\ refcnt' = Cleared(refcnt) /\ stk' = <<>>
  /\ err' = "nested" /\ recoverycnt' = n /\ latentfound' = FALSE
  /\ UNCHANGED <<pc, ending, interactive, doinglatent, running, latentruns,
                 wsjump, x, latent, lastval, disk, files>>

(* A load asked for while Latent is being done ends the session. *)
LoadRefused(n) ==
  /\ Handle("load", n) /\ n <= 1 /\ doinglatent
  /\ pc' = "done" /\ ending' = "inlatent" /\ recoverycnt' = n
  /\ UNCHANGED <<err, interactive, latentfound, doinglatent, running,
                 latentruns, wsjump, ws, stk, lastval, disk, files>>

(* wsload: the heap is the one of the file, topstack is not touched, so    *)
(* the entries of the stack are those of the stack area of the file, which *)
(* was empty when it was saved.  startfilesystem forgets the old table.    *)
LoadRead(n) ==
  /\ Handle("load", n) /\ n <= 1 /\ ~doinglatent
  /\ pc' = "loaded"
  /\ refcnt' = disk.refcnt /\ x' = disk.x /\ latent' = disk.latent
  /\ stk' = [i \in DOMAIN stk |-> invalidptr]
  /\ lastval' = none
  /\ ports' = AllClosed
  /\ recoverycnt' = n /\ latentfound' = FALSE
  /\ UNCHANGED <<err, ending, interactive, doinglatent, running, latentruns,
                 wsjump, disk, streams, topsysfile>>

(* The rest of the case: cleanup_ws and the test for a Latent. *)
LoadCleans ==
  /\ pc = "loaded" /\ stk = <<>>
  /\ Cleanup(refcnt)
  /\ pc' = "prompt" /\ running' = "nothing" /\ err' = "none"
  /\ latentfound' = latent /\ latentruns' = 0
  /\ UNCHANGED <<ending, interactive, recoverycnt, doinglatent, wsjump, x,
                 latent, lastval, disk>>

(* decrrefcnt(invalidptr) writes below the heap. *)
LoadPopsWild ==
  /\ pc = "loaded" /\ stk # <<>>
  /\ pc' = "undefined"
  /\ UNCHANGED <<main, ws, stk, lastval, disk, files>>

(* wsload fails after it has replaced the globals G, or some of them. *)
LoadFails(n) ==
  /\ Handle("load", n) /\ n <= 1 /\ ~doinglatent
  /\ err' = "torn" /\ recoverycnt' = n /\ latentfound' = FALSE
  /\ UNCHANGED <<pc, ending, interactive, doinglatent, running, latentruns,
                 wsjump, ws, stk, lastval, disk, files>>

(* The jumps out of the recovery. *)
RecoverNested(n) ==
  /\ Handle("nested", n) /\ n <= 1
  /\ Cleanup(refcnt) /\ ToPrompt(n)
  /\ UNCHANGED <<ending, interactive, doinglatent, latentruns, wsjump, x,
                 latent, lastval, disk>>

RecoverTorn(n) ==
  /\ Handle("torn", n) /\ n <= 1
  /\ pc' = "undefined" /\ recoverycnt' = n
  /\ UNCHANGED <<err, ending, interactive, latentfound, doinglatent, running,
                 latentruns, wsjump, ws, stk, lastval, disk, files>>

-------------------------------------------------------------------------------
Evaluate ==
  \/ \E a \in Arrays : Push(a) \/ FreeUp(a)
  \/ Pop \/ Assign \/ DefineLatent
  \/ \E p \in Ports : ClosePort(p) \/ \E f \in Files : OpenPort(p, f)
  \/ \E f \in Files : OpenNoSlot(f)
  \/ DefsBegin \/ DefsEnd \/ DefsDone
  \/ \E e \in {"warning", "abort", "bye", "save", "load"} : Jump(e)

Recover ==
  \/ \E n \in Counted :
       \/ Looping(n) \/ RecoverWarning(n) \/ RecoverEnd(n)
       \/ RecoverSave(n) \/ SaveFails(n)
       \/ LoadRefused(n) \/ LoadRead(n) \/ LoadFails(n)
       \/ RecoverNested(n) \/ RecoverTorn(n)
  \/ LoadCleans \/ LoadPopsWild

Next == Retry \/ NoAction \/ AssignLast \/ Ieval \/ Finish \/ FinishBatch
        \/ Evaluate \/ Recover

Spec == Init /\ [][Next]_vars

-------------------------------------------------------------------------------
(* Properties *)

TypeOK ==
  /\ pc \in {"prompt", "parse", "eval", "defs", "jump", "loaded", "done", "undefined"}
  /\ err \in {"none", "warning", "abort", "bye", "save", "load", "nested", "torn"}
  /\ ending \in {"none", "batch", "abort", "bye", "looping", "inlatent"}
  /\ recoverycnt \in 0 .. 2
  /\ {interactive, latentfound, doinglatent, wsjump, latent} \subseteq BOOLEAN
  /\ running \in {"nothing", "latent", "line", "defs"}
  /\ latentruns \in Nat
  /\ \A a \in Arrays : refcnt[a] \in Int /\ refcnt[a] >= -1
  /\ x \in Arrays \cup {none} /\ lastval \in Arrays \cup {none}
  /\ stk \in Seq(Arrays \cup {invalidptr})
  /\ ports \in [Ports -> Files \cup {closedport}] /\ streams \subseteq Files
  /\ topsysfile \in 0 .. DefsMax

(* No array is freed while the interpreter still follows a reference to it: *)
(* its count covers the entries of the stack, the name and lastval.        *)
RefsCovered ==
  pc \notin {"loaded", "undefined"} =>
    \A a \in Arrays :
      LET held == Entries(a) + (IF x = a THEN 1 ELSE 0) + (IF lastval = a THEN 1 ELSE 0)
      IN  held > 0 => refcnt[a] >= held

(* Whatever the last line left behind (a jump out of a definition file,    *)
(* a load, a save), the prompt comes up with an empty stack, without       *)
(* temporary arrays and with no definition file open.                      *)
PromptClean ==
  pc = "prompt" => stk = <<>> /\ Temps = {} /\ topsysfile = 0

(* After a load the Latent is run once: it is not run again if it jumps to *)
(* the top level, and no line is taken for it.                             *)
LatentOnce == latentruns <= 1

(* What comes up after a recovery: a clean prompt, and the Latent once.    *)
Recovered == PromptClean /\ LatentOnce

(* The stream of an open slot of the file table is open in the host: no    *)
(* stream is closed twice or used when it is closed.                       *)
PortsOpen == \A p \in OpenPorts : ports[p] \in streams

Lost == streams \ {ports[p] : p \in OpenPorts}

(* The step of a load in which startfilesystem forgets the open ports.      *)
LoadForgets ==
  /\ pc = "jump" /\ err = "load" /\ pc' = "loaded"
  /\ Lost' = Lost \cup {ports[p] : p \in OpenPorts}

(* An open in a line, when every slot is taken, forgets what it has opened. *)
OpenForgets ==
  /\ Evaluating /\ OpenPorts = Ports /\ ports' = ports
  /\ \E f \in Files \ streams : Lost' = Lost \cup {f}

(* An open stream comes to have no slot in these two ways only: a load     *)
(* forgets those that were open, and iopen with a full table the one it    *)
(* opened (fileio.c:723).  Every other step, a close with a full table and *)
(* the cleaning up after an error included, loses none; and none leaves a  *)
(* slot with a stream that was closed.                                     *)
StreamsKept ==
  [][PortsOpen' /\ (LoadForgets \/ OpenForgets \/ Lost' \subseteq Lost)]_vars

(* Errors alone never make the recovery take itself for a loop.            *)
LoopingAfterSave == ending = "looping" => wsjump
===============================================================================
