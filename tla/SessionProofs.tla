----------------------------- MODULE SessionProofs -----------------------------
(***************************************************************************)
(* The top level loop keeps what it promises over every sequence of lines, *)
(* errors, saves and loads: the references the interpreter follows are     *)
(* counted, the prompt comes up clean, and no stream is lost but where     *)
(* Session says so.                                                        *)
(*                                                                         *)
(* RefsCovered is not inductive alone.  Between wsload and cleanup_ws the  *)
(* stack holds entries of no heap, so the count is stated where the stack  *)
(* is the interpreter's (HeapRuns), and the workspace file must carry the  *)
(* counts that a load will rely on (DiskInv).  That no recovery is taken   *)
(* for a loop needs that only a save or a load leaves recoverycnt above 0. *)
(***************************************************************************)
EXTENDS Session, FiniteSetTheorems, TLAPS

(* The number of elements of s that are a. *)
Count(s, a) == Cardinality({i \in DOMAIN s : s[i] = a})

LEMMA CountType ==
  ASSUME NEW S, NEW s \in Seq(S), NEW a
  PROVE  IsFiniteSet({i \in DOMAIN s : s[i] = a}) /\ Count(s, a) \in Nat
<1>1. IsFiniteSet(1 .. Len(s))
  BY FS_Interval
<1>2. {i \in DOMAIN s : s[i] = a} \subseteq 1 .. Len(s)
  OBVIOUS
<1>3. IsFiniteSet({i \in DOMAIN s : s[i] = a})
  BY <1>1, <1>2, FS_Subset
<1>. QED
  BY <1>3, FS_CardinalityType DEF Count

LEMMA CountEmpty == \A a : Count(<<>>, a) = 0
<1>. SUFFICES ASSUME NEW a PROVE Count(<<>>, a) = 0
  OBVIOUS
<1>1. {i \in DOMAIN <<>> : <<>>[i] = a} = {}
  OBVIOUS
<1>. QED
  BY <1>1, FS_EmptySet DEF Count

LEMMA CountAppend ==
  ASSUME NEW S, NEW s \in Seq(S), NEW b \in S, NEW a
  PROVE  Count(Append(s, b), a) = Count(s, a) + (IF a = b THEN 1 ELSE 0)
<1> DEFINE t == Append(s, b)
           M == {i \in DOMAIN s : s[i] = a}
           N == {i \in DOMAIN t : t[i] = a}
<1>1. IsFiniteSet(M) /\ Cardinality(M) \in Nat
  BY CountType DEF Count
<1>2. Len(s) \in Nat /\ DOMAIN s = 1 .. Len(s) /\ DOMAIN t = 1 .. Len(s) + 1
  OBVIOUS
<1>3. t[Len(s) + 1] = b /\ \A i \in 1 .. Len(s) : t[i] = s[i]
  OBVIOUS
<1>4. Len(s) + 1 \notin M
  BY <1>2
<1>5. N = M \cup (IF a = b THEN {Len(s) + 1} ELSE {})
  <2>1. \A i : i \in 1 .. Len(s) + 1 <=> i \in 1 .. Len(s) \/ i = Len(s) + 1
    BY <1>2
  <2>2. Len(s) + 1 \notin 1 .. Len(s)
    BY <1>2
  <2>. HIDE DEF t
  <2>. QED
    BY <2>1, <2>2, <1>2, <1>3
<1>6. CASE a = b
  <2>1. N = M \cup {Len(s) + 1}
    BY <1>5, <1>6
  <2>2. Cardinality(N) = Cardinality(M) + 1
    BY <2>1, <1>1, <1>4, FS_AddElement
  <2>. QED
    BY <2>2, <1>6 DEF Count
<1>7. CASE a # b
  <2>1. N = M
    BY <1>5, <1>7
  <2>2. Cardinality(N) = Cardinality(M) + 0
    <3>. HIDE DEF N, M
    <3>. QED
      BY <2>1, <1>1
  <2>. QED
    BY <2>2, <1>7 DEF Count
<1>. QED
  BY <1>6, <1>7

LEMMA CountFront ==
  ASSUME NEW S, NEW s \in Seq(S), s # <<>>, NEW a
  PROVE  /\ SubSeq(s, 1, Len(s) - 1) \in Seq(S)
         /\ s[Len(s)] \in S
         /\ Count(s, a) = Count(SubSeq(s, 1, Len(s) - 1), a)
                          + (IF a = s[Len(s)] THEN 1 ELSE 0)
<1> DEFINE t == SubSeq(s, 1, Len(s) - 1)
           b == s[Len(s)]
<1>1. t \in Seq(S) /\ b \in S /\ s = Append(t, b)
  OBVIOUS
<1>. HIDE DEF t, b
<1>2. Count(Append(t, b), a) = Count(t, a) + (IF a = b THEN 1 ELSE 0)
  BY <1>1, CountAppend
<1>. QED
  BY <1>1, <1>2 DEF t, b

-------------------------------------------------------------------------------
(* What the interpreter can follow to a: entries of the stack, the name and *)
(* the last value.                                                          *)
Held(a) == Count(stk, a) + (IF x = a THEN 1 ELSE 0) + (IF lastval = a THEN 1 ELSE 0)

Counts(rc) == rc \in [Arrays -> Int] /\ \A a \in Arrays : rc[a] >= -1

(* Where the stack holds what the interpreter pushed. *)
Running == pc \notin {"loaded", "undefined"}

(* The counts of the arrays, while the interpreter runs. *)
Covered == \A a \in Arrays : Held(a) > 0 => refcnt[a] >= Held(a)
HeapRuns ==
  /\ Counts(refcnt)
  /\ x \in Arrays \cup {none} /\ lastval \in Arrays \cup {none}
  /\ stk \in Seq(Arrays)
  /\ Covered

(* A load has replaced the heap; its stack is not of this session. *)
HeapLoaded ==
  /\ Counts(refcnt)
  /\ x \in Arrays \cup {none} /\ lastval = none
  /\ x # none => refcnt[x] >= 1

HeapInv == (Running => HeapRuns) /\ (pc = "loaded" => HeapLoaded)

DiskInv ==
  /\ disk # none =>
       /\ Counts(disk.refcnt)
       /\ disk.x \in Arrays \cup {none}
       /\ disk.x # none => disk.refcnt[disk.x] >= 1
  /\ pc = "jump" /\ err = "load" => disk # none

(* The prompt, and how often the Latent was started. *)
PromptInv ==
  /\ pc \in {"prompt", "parse"} => stk = <<>> /\ Temps = {} /\ topsysfile = 0
  /\ latentruns \in 0 .. 1
  /\ pc = "defs" \/ (pc = "prompt" /\ latentfound) => latentruns = 0
  /\ pc = "parse" /\ running = "line" => ~latentfound

(* A jump out of the recovery is one of a save or a load. *)
RecoveryInv ==
  /\ recoverycnt \in Nat
  /\ pc = "loaded" \/ (pc = "jump" /\ err \in {"save", "load", "nested", "torn"}) => wsjump
  /\ pc # "done" /\ recoverycnt > 0 => wsjump
  /\ LoopingAfterSave

(* No stream is open in two slots. *)
PortsInv ==
  /\ ports \in [Ports -> Files \cup {closedport}]
  /\ PortsOpen
  /\ \A p, q \in OpenPorts : ports[p] = ports[q] => p = q

IInv == HeapInv /\ DiskInv /\ PromptInv /\ RecoveryInv /\ PortsInv

-------------------------------------------------------------------------------
LEMMA EntriesCount == \A a : Entries(a) = Count(stk, a)
BY DEF Entries, Count

LEMMA HeldType ==
  ASSUME stk \in Seq(Arrays), NEW a
  PROVE  Count(stk, a) \in Nat /\ Held(a) \in Nat
<1>1. Count(stk, a) \in Nat
  BY CountType
<1>. QED
  BY <1>1 DEF Held

(* clearstack gives back what the stack held. *)
LEMMA ClearedCounts ==
  ASSUME HeapRuns
  PROVE  /\ Counts(Cleared(refcnt))
         /\ \A a \in Arrays :
              LET held == (IF x = a THEN 1 ELSE 0) + (IF lastval = a THEN 1 ELSE 0)
              IN  held > 0 => Cleared(refcnt)[a] >= held
<1>1. Cleared(refcnt) = [a \in Arrays |->
         IF Count(stk, a) > 0 /\ refcnt[a] = Count(stk, a) THEN -1
         ELSE refcnt[a] - Count(stk, a)]
  BY EntriesCount, Zenon DEF Cleared
<1> DEFINE h(a) == (IF x = a THEN 1 ELSE 0) + (IF lastval = a THEN 1 ELSE 0)
<1>2. SUFFICES ASSUME NEW a \in Arrays
               PROVE  /\ Cleared(refcnt)[a] \in Int /\ Cleared(refcnt)[a] >= -1
                      /\ h(a) > 0 => Cleared(refcnt)[a] >= h(a)
  <2>1. \A a \in Arrays : Cleared(refcnt)[a] \in Int
    BY <1>2
  <2>. QED
    BY <1>1, <1>2, <2>1 DEF Counts
<1>3. Cleared(refcnt)[a] = IF Count(stk, a) > 0 /\ refcnt[a] = Count(stk, a) THEN -1
                           ELSE refcnt[a] - Count(stk, a)
  BY <1>1
<1>4. Count(stk, a) \in Nat /\ Held(a) = Count(stk, a) + h(a) /\ h(a) \in Nat
  BY HeldType DEF HeapRuns, Held
<1>5. refcnt[a] \in Int /\ refcnt[a] >= -1 /\ (Held(a) > 0 => refcnt[a] >= Held(a))
  BY DEF HeapRuns, Counts, Covered
<1>. HIDE DEF h
<1>. QED
  BY <1>3, <1>4, <1>5

(* After cleanup_ws no array is left without a reference, and none that is *)
(* referred to is gone.                                                    *)
LEMMA CleanupHeap ==
  ASSUME HeapRuns, Cleanup(refcnt), UNCHANGED <<x, lastval>>
  PROVE  HeapRuns' /\ stk' = <<>> /\ Temps' = {} /\ topsysfile' = 0
<1> DEFINE rc == Cleared(refcnt)
<1>1. /\ stk' = <<>> /\ topsysfile' = 0
      /\ refcnt' = [a \in Arrays |-> IF rc[a] = 0 THEN -1 ELSE rc[a]]
  BY DEF Cleanup, WithoutTemps
<1>2. /\ Counts(rc)
      /\ \A a \in Arrays :
           LET held == (IF x = a THEN 1 ELSE 0) + (IF lastval = a THEN 1 ELSE 0)
           IN  held > 0 => rc[a] >= held
  BY ClearedCounts
<1>. HIDE DEF rc
<1>3. Counts(refcnt') /\ \A a \in Arrays : refcnt'[a] # 0
  BY <1>1, <1>2 DEF Counts
<1>4. \A a \in Arrays : Held(a)' > 0 => refcnt'[a] >= Held(a)'
  <2>. SUFFICES ASSUME NEW a \in Arrays
                PROVE  Held(a)' > 0 => refcnt'[a] >= Held(a)'
    OBVIOUS
  <2>1. Count(stk', a) = 0
    BY <1>1, CountEmpty
  <2>2. Held(a)' = (IF x = a THEN 1 ELSE 0) + (IF lastval = a THEN 1 ELSE 0)
    BY <2>1 DEF Held
  <2>3. rc[a] \in Int /\ refcnt'[a] = IF rc[a] = 0 THEN -1 ELSE rc[a]
    BY <1>1, <1>2 DEF Counts
  <2>. QED
    BY <1>2, <2>2, <2>3
<1>. QED
  BY <1>1, <1>3, <1>4 DEF HeapRuns, Covered, Temps

(* decrrefcnt and freeup of a counted reference. *)
LEMMA DropCounts ==
  ASSUME NEW rc, Counts(rc), NEW b \in Arrays, rc[b] >= 1
  PROVE  /\ Counts(Drop(rc, b))
         /\ \A a \in Arrays \ {b} : Drop(rc, b)[a] = rc[a]
         /\ Drop(rc, b)[b] = IF rc[b] = 1 THEN -1 ELSE rc[b] - 1
BY DEF Drop, Counts

LEMMA IncrCounts ==
  ASSUME NEW rc, Counts(rc), NEW b \in Arrays
  PROVE  /\ Counts(Incr(rc, b))
         /\ \A a \in Arrays \ {b} : Incr(rc, b)[a] = rc[a]
         /\ Incr(rc, b)[b] = rc[b] + 1
BY DEF Incr, Counts

(* st_s_valu: the name takes over b from what it had. *)
LEMMA AssignedCounts ==
  ASSUME HeapRuns, NEW b \in Arrays, Held(b) > 0
  PROVE  /\ Counts(Assigned(refcnt, b))
         /\ \A a \in Arrays :
              LET held == Held(a) + (IF a = b THEN 1 ELSE 0) - (IF x = a THEN 1 ELSE 0)
              IN  /\ held > 0 => Assigned(refcnt, b)[a] >= held
                  /\ Assigned(refcnt, b)[a] = 0 => refcnt[a] = 0
<1> DEFINE up == Incr(refcnt, b)
<1>1. /\ Counts(up)
      /\ \A a \in Arrays \ {b} : up[a] = refcnt[a]
      /\ up[b] = refcnt[b] + 1
  BY IncrCounts DEF HeapRuns
<1>2. \A a \in Arrays : /\ refcnt[a] \in Int /\ refcnt[a] >= -1 /\ Held(a) \in Nat
                        /\ Held(a) > 0 => refcnt[a] >= Held(a)
  BY HeldType DEF HeapRuns, Counts, Covered
<1>. HIDE DEF up
<1>3. CASE x = none
  <2>1. Assigned(refcnt, b) = up
    BY <1>3 DEF Assigned, up
  <2>2. \A a \in Arrays : x # a
    BY <1>3, SessionAssumption
  <2>. QED
    BY <2>1, <2>2, <1>1, <1>2
<1>4. CASE x # none
  <2>1. x \in Arrays /\ Assigned(refcnt, b) = Drop(up, x)
    BY <1>4 DEF Assigned, up, HeapRuns
  <2>2. Held(x) > 0
    <3>1. Count(stk, x) \in Nat
      BY HeldType DEF HeapRuns
    <3>. QED
      BY <3>1 DEF Held
  <2>3. up[x] >= 1
    BY <1>1, <1>2, <2>1, <2>2
  <2>4. /\ Counts(Drop(up, x))
        /\ \A a \in Arrays \ {x} : Drop(up, x)[a] = up[a]
        /\ Drop(up, x)[x] = IF up[x] = 1 THEN -1 ELSE up[x] - 1
    BY <1>1, <2>1, <2>3, DropCounts
  <2>. QED
    BY <1>1, <1>2, <2>1, <2>2, <2>3, <2>4
<1>. QED
  BY <1>3, <1>4

-------------------------------------------------------------------------------
LEMMA HeapInit == Init => HeapInv
<1>. SUFFICES ASSUME Init PROVE HeapInv
  OBVIOUS
<1>1. /\ Counts(refcnt) /\ x = none /\ lastval = none /\ stk = <<>>
      /\ pc # "loaded"
  BY DEF Init, Counts
<1>2. \A a \in Arrays : Held(a) = 0
  BY <1>1, CountEmpty, SessionAssumption DEF Held
<1>. QED
  BY <1>1, <1>2 DEF HeapInv, HeapRuns, Covered

(* A step that leaves the heap and what refers to it alone. *)
LEMMA SameHeap ==
  ASSUME HeapRuns, UNCHANGED <<refcnt, x, lastval, stk>>
  PROVE  HeapRuns'
BY DEF HeapRuns, Covered, Held

LEMMA HeapEvaluate ==
  ASSUME HeapRuns, Evaluate
  PROVE  HeapRuns'
<1>0. \A a \in Arrays : /\ refcnt[a] \in Int /\ refcnt[a] >= -1
                        /\ Count(stk, a) \in Nat /\ Held(a) \in Nat
                        /\ Held(a) > 0 => refcnt[a] >= Held(a)
  BY HeldType DEF HeapRuns, Counts, Covered
<1>1. ASSUME NEW b \in Arrays, Push(b) PROVE HeapRuns'
  <2>1. /\ stk' = Append(stk, b) /\ UNCHANGED <<x, lastval>>
        /\ refcnt' = [refcnt EXCEPT ![b] = IF @ = -1 THEN 1 ELSE @ + 1]
    BY <1>1 DEF Push
  <2>2. stk' \in Seq(Arrays)
    BY <2>1 DEF HeapRuns
  <2>3. \A a \in Arrays : Held(a)' = Held(a) + (IF a = b THEN 1 ELSE 0)
    <3>. SUFFICES ASSUME NEW a \in Arrays
                  PROVE  Held(a)' = Held(a) + (IF a = b THEN 1 ELSE 0)
      OBVIOUS
    <3>1. Count(Append(stk, b), a) = Count(stk, a) + (IF a = b THEN 1 ELSE 0)
      BY CountAppend DEF HeapRuns
    <3>. QED
      BY <2>1, <3>1, <1>0 DEF Held
  <2>4. Counts(refcnt')
    BY <2>1, <1>0 DEF HeapRuns, Counts
  <2>5. /\ refcnt'[b] = IF refcnt[b] = -1 THEN 1 ELSE refcnt[b] + 1
        /\ \A a \in Arrays \ {b} : refcnt'[a] = refcnt[a]
    BY <2>1 DEF HeapRuns, Counts
  <2>6. Covered'
    BY <2>3, <2>5, <1>0 DEF Covered
  <2>. QED
    BY <2>1, <2>2, <2>4, <2>6 DEF HeapRuns
<1>2. CASE Pop
  <2> DEFINE b == stk[Len(stk)]
             t == SubSeq(stk, 1, Len(stk) - 1)
  <2>1. /\ stk # <<>> /\ stk' = t /\ UNCHANGED <<x, lastval>>
        /\ refcnt' = [refcnt EXCEPT ![b] = @ - 1]
    BY <1>2 DEF Pop
  <2>2. /\ t \in Seq(Arrays) /\ b \in Arrays
        /\ \A a : Count(stk, a) = Count(t, a) + (IF a = b THEN 1 ELSE 0)
    BY <2>1, CountFront DEF HeapRuns
  <2>. HIDE DEF b, t
  <2>3. \A a \in Arrays : Count(t, a) \in Nat
    BY <2>2, CountType
  <2>4. \A a \in Arrays : Held(a) = Held(a)' + (IF a = b THEN 1 ELSE 0) /\ Held(a)' \in Nat
    BY <2>1, <2>2, <2>3 DEF Held
  <2>5. refcnt[b] >= 1
    BY <2>2, <2>4, <1>0
  <2>6. Counts(refcnt')
    BY <2>1, <2>2, <2>5 DEF HeapRuns, Counts
  <2>7. /\ refcnt'[b] = refcnt[b] - 1
        /\ \A a \in Arrays \ {b} : refcnt'[a] = refcnt[a]
    BY <2>1, <2>2 DEF HeapRuns, Counts
  <2>8. Covered'
    <3>. SUFFICES ASSUME NEW a \in Arrays, Held(a)' > 0
                  PROVE  refcnt'[a] >= Held(a)'
      BY DEF Covered
    <3>1. Held(a) = Held(a)' + (IF a = b THEN 1 ELSE 0) /\ Held(a)' \in Nat
      BY <2>4
    <3>2. refcnt'[a] = refcnt[a] - (IF a = b THEN 1 ELSE 0) /\ refcnt[a] \in Int
      BY <2>7, <1>0
    <3>3. Held(a) > 0 => refcnt[a] >= Held(a)
      BY <1>0
    <3>. QED
      BY <3>1, <3>2, <3>3
  <2>. QED
    BY <2>1, <2>2, <2>6, <2>8 DEF HeapRuns
<1>3. ASSUME NEW b \in Arrays, FreeUp(b) PROVE HeapRuns'
  <2>1. /\ refcnt[b] = 0 /\ refcnt' = [refcnt EXCEPT ![b] = -1]
        /\ UNCHANGED <<x, lastval, stk>>
    BY <1>3 DEF FreeUp
  <2>2. \A a \in Arrays : Held(a)' = Held(a)
    BY <2>1 DEF Held
  <2>3. Counts(refcnt') /\ \A a \in Arrays : refcnt'[a] = IF a = b THEN -1 ELSE refcnt[a]
    BY <2>1 DEF HeapRuns, Counts
  <2>. QED
    BY <2>1, <2>2, <2>3, <1>0 DEF HeapRuns, Covered
<1>4. CASE Assign
  <2> DEFINE b == stk[Len(stk)]
  <2>1. /\ stk # <<>> /\ x' = b /\ refcnt' = Assigned(refcnt, b)
        /\ UNCHANGED <<stk, lastval>>
    BY <1>4 DEF Assign
  <2>2. /\ SubSeq(stk, 1, Len(stk) - 1) \in Seq(Arrays) /\ b \in Arrays
        /\ Count(stk, b) = Count(SubSeq(stk, 1, Len(stk) - 1), b) + 1
    BY <2>1, CountFront DEF HeapRuns
  <2>. HIDE DEF b
  <2>3. Count(SubSeq(stk, 1, Len(stk) - 1), b) \in Nat
    BY <2>2, CountType
  <2>4. Held(b) > 0
    BY <2>2, <2>3 DEF Held
  <2>5. /\ Counts(refcnt')
        /\ \A a \in Arrays :
             LET held == Held(a) + (IF a = b THEN 1 ELSE 0) - (IF x = a THEN 1 ELSE 0)
             IN  held > 0 => refcnt'[a] >= held
    BY <2>1, <2>2, <2>4, AssignedCounts
  <2>6. \A a \in Arrays : Held(a)' = Held(a) + (IF a = b THEN 1 ELSE 0) - (IF x = a THEN 1 ELSE 0)
    BY <2>1, <1>0 DEF Held
  <2>. QED
    BY <2>1, <2>2, <2>5, <2>6 DEF HeapRuns, Covered
<1>5. CASE UNCHANGED <<refcnt, x, lastval, stk>>
  BY <1>5, SameHeap
<1>6. \/ \E b \in Arrays : Push(b) \/ FreeUp(b)
      \/ Pop \/ Assign \/ UNCHANGED <<refcnt, x, lastval, stk>>
  BY DEF Evaluate, DefineLatent, ClosePort, OpenPort, OpenNoSlot, DefsBegin, DefsEnd,
         DefsDone, EndBatch, Jump, ws, vars
<1>. QED
  BY <1>1, <1>2, <1>3, <1>4, <1>5, <1>6

LEMMA HeapTopLevel ==
  ASSUME HeapRuns, Retry \/ NoAction \/ AssignLast \/ Ieval \/ Finish \/ FinishBatch
  PROVE  HeapRuns'
<1>0. \A a \in Arrays : /\ refcnt[a] \in Int /\ refcnt[a] >= -1
                        /\ Count(stk, a) \in Nat /\ Held(a) \in Nat
                        /\ Held(a) > 0 => refcnt[a] >= Held(a)
  BY HeldType DEF HeapRuns, Counts, Covered
<1>1. CASE Retry
  <2>1. stk' = <<>> /\ UNCHANGED <<refcnt, x, lastval>>
    BY <1>1 DEF Retry, ws
  <2>2. \A a \in Arrays : Held(a)' = Held(a) - Count(stk, a)
    BY <2>1, <1>0, CountEmpty DEF Held
  <2>3. Covered'
    <3>. SUFFICES ASSUME NEW a \in Arrays, Held(a)' > 0
                  PROVE  refcnt'[a] >= Held(a)'
      BY DEF Covered
    <3>. QED
      BY <2>1, <2>2, <1>0
  <2>. QED
    BY <2>1, <2>3 DEF HeapRuns
<1>2. CASE AssignLast
  <2> DEFINE b == lastval
  <2>1. /\ lastval # none /\ x' = b /\ refcnt' = Assigned(refcnt, b)
        /\ lastval' = none /\ stk' = stk
    BY <1>2 DEF AssignLast
  <2>2. b \in Arrays
    BY <2>1 DEF HeapRuns
  <2>3. Held(b) > 0
    BY <1>0, <2>2 DEF Held
  <2>4. /\ Counts(refcnt')
        /\ \A a \in Arrays :
             LET held == Held(a) + (IF a = b THEN 1 ELSE 0) - (IF x = a THEN 1 ELSE 0)
             IN  held > 0 => refcnt'[a] >= held
    BY <2>1, <2>2, <2>3, AssignedCounts
  <2>5. \A a \in Arrays : Held(a)' = Held(a) - (IF x = a THEN 1 ELSE 0)
    BY <2>1, <1>0, SessionAssumption DEF Held
  <2>6. Covered'
    <3>. SUFFICES ASSUME NEW a \in Arrays, Held(a)' > 0
                  PROVE  refcnt'[a] >= Held(a)'
      BY DEF Covered
    <3>1. Held(a) \in Nat /\ refcnt'[a] \in Int
      BY <1>0, <2>4 DEF Counts
    <3>. QED
      BY <2>4, <2>5, <3>1
  <2>. QED
    BY <2>1, <2>2, <2>4, <2>6 DEF HeapRuns
<1>3. CASE Ieval
  <2>1. /\ refcnt' = IF lastval = none THEN refcnt ELSE Drop(refcnt, lastval)
        /\ lastval' = none /\ UNCHANGED <<x, stk>>
    BY <1>3 DEF Ieval
  <2>2. CASE lastval = none
    BY <2>1, <2>2, SameHeap
  <2>3. CASE lastval # none
    <3>1. lastval \in Arrays
      BY <2>3 DEF HeapRuns
    <3>2. Held(lastval) > 0 /\ refcnt[lastval] >= 1
      BY <3>1, <1>0 DEF Held
    <3>3. /\ Counts(refcnt')
          /\ \A a \in Arrays \ {lastval} : refcnt'[a] = refcnt[a]
          /\ refcnt'[lastval] = IF refcnt[lastval] = 1 THEN -1 ELSE refcnt[lastval] - 1
      BY <2>1, <2>3, <3>1, <3>2, DropCounts DEF HeapRuns
    <3>4. \A a \in Arrays : Held(a)' = Held(a) - (IF lastval = a THEN 1 ELSE 0)
      BY <2>1, <1>0, SessionAssumption DEF Held
    <3>5. Covered'
      <4>. SUFFICES ASSUME NEW a \in Arrays, Held(a)' > 0
                    PROVE  refcnt'[a] >= Held(a)'
        BY DEF Covered
      <4>. QED
        BY <3>1, <3>3, <3>4, <1>0
    <3>. QED
      BY <2>1, <3>3, <3>5 DEF HeapRuns
  <2>. QED
    BY <2>2, <2>3
<1>4. CASE Finish
  <2> DEFINE b == stk[1]
  <2>1. /\ Len(stk) = 1 /\ stk' = <<>> /\ lastval' = b /\ UNCHANGED <<refcnt, x>>
    BY <1>4 DEF Finish, Evaluated, Shown
  <2>2. stk # <<>> /\ stk \in Seq(Arrays) /\ Len(stk) - 1 = 0
    <3>1. Len(stk) = 1
      BY <2>1
    <3>2. stk # <<>>
      BY <3>1
    <3>. QED
      BY <3>1, <3>2 DEF HeapRuns
  <2>3. /\ b \in Arrays
        /\ \A a : Count(stk, a) = Count(SubSeq(stk, 1, 0), a) + (IF a = b THEN 1 ELSE 0)
    <3>1. \A a : /\ stk[Len(stk)] \in Arrays
                 /\ Count(stk, a) = Count(SubSeq(stk, 1, Len(stk) - 1), a)
                                    + (IF a = stk[Len(stk)] THEN 1 ELSE 0)
      BY <2>2, CountFront
    <3>. QED
      BY <2>1, <2>2, <3>1, Zenon
  <2>4. \A a \in Arrays : Held(a)' = Held(a) - (IF lastval = a THEN 1 ELSE 0)
    <3>. SUFFICES ASSUME NEW a \in Arrays
                  PROVE  Held(a)' = Held(a) - (IF lastval = a THEN 1 ELSE 0)
      OBVIOUS
    <3>. HIDE DEF b
    <3>1. SubSeq(stk, 1, 0) = <<>>
      BY <2>2
    <3>2. Count(<<>>, a) = 0
      BY CountEmpty
    <3>3. Count(stk', a) = 0
      BY <2>1, <3>2
    <3>4. Count(stk, a) = 0 + (IF a = b THEN 1 ELSE 0)
      BY <2>3, <3>1, <3>2
    <3>. QED
      BY <2>1, <3>3, <3>4 DEF Held
  <2>5. Covered'
    <3>. SUFFICES ASSUME NEW a \in Arrays, Held(a)' > 0
                  PROVE  refcnt'[a] >= Held(a)'
      BY DEF Covered
    <3>. QED
      BY <2>1, <2>4, <1>0
  <2>. QED
    BY <2>1, <2>3, <2>5 DEF HeapRuns
<1>5. CASE NoAction \/ FinishBatch
  BY <1>5, SameHeap DEF NoAction, FinishBatch, EndBatch, ws
<1>. QED
  BY <1>1, <1>2, <1>3, <1>4, <1>5

(* What the recovery does to the heap; wsload is the step that replaces it. *)
LEMMA HeapRecover ==
  ASSUME HeapInv, DiskInv, Recover
  PROVE  HeapInv'
<1>1. ASSUME pc = "jump",
             HeapRuns /\ UNCHANGED <<x, lastval>> => HeapRuns',
             UNCHANGED <<x, lastval>>, pc' # "loaded"
      PROVE  HeapInv'
  BY <1>1 DEF HeapInv, Running
<1>2. pc = "jump" => HeapRuns
  BY DEF HeapInv, Running
<1>3. ASSUME NEW n \in Counted, RecoverWarning(n) \/ RecoverNested(n) \/ RecoverSave(n)
      PROVE  HeapInv'
  <2>1. /\ pc = "jump" /\ pc' = "prompt" /\ Cleanup(refcnt) /\ UNCHANGED <<x, lastval>>
    BY <1>3 DEF RecoverWarning, RecoverNested, RecoverSave, Handle, ToPrompt
  <2>. QED
    BY <2>1, <1>2, CleanupHeap DEF HeapInv
<1>4. ASSUME NEW n \in Counted, RecoverEnd(n)
      PROVE  HeapInv'
  <2>1. /\ pc = "jump" /\ pc' = "done" /\ UNCHANGED <<x, lastval>>
        /\ Cleanup(refcnt) \/ UNCHANGED <<refcnt, stk>>
    BY <1>4 DEF RecoverEnd, Handle
  <2>. QED
    BY <2>1, <1>2, CleanupHeap, SameHeap DEF HeapInv
<1>5. ASSUME NEW n \in Counted, SaveFails(n)
      PROVE  HeapInv'
  <2>1. /\ pc = "jump" /\ pc' = "jump" /\ UNCHANGED <<x, lastval>>
        /\ refcnt' = Cleared(refcnt) /\ stk' = <<>>
    BY <1>5 DEF SaveFails, Handle
  <2>2. /\ HeapRuns /\ Counts(refcnt')
        /\ \A a \in Arrays :
             LET held == (IF x = a THEN 1 ELSE 0) + (IF lastval = a THEN 1 ELSE 0)
             IN  held > 0 => refcnt'[a] >= held
    BY <2>1, <1>2, ClearedCounts
  <2>3. \A a \in Arrays : Held(a)' = (IF x = a THEN 1 ELSE 0) + (IF lastval = a THEN 1 ELSE 0)
    BY <2>1, CountEmpty DEF Held
  <2>. QED
    BY <2>1, <2>2, <2>3 DEF HeapInv, HeapRuns, Covered
<1>6. ASSUME NEW n \in Counted, LoadRead(n)
      PROVE  HeapInv'
  <2>1. /\ disk # none /\ pc' = "loaded"
        /\ refcnt' = disk.refcnt /\ x' = disk.x /\ lastval' = none
    BY <1>6 DEF LoadRead, Handle, DiskInv
  <2>. QED
    BY <2>1 DEF HeapInv, DiskInv, HeapLoaded, Running
<1>7. CASE LoadCleans
  <2>1. /\ pc = "loaded" /\ pc' = "prompt" /\ stk = <<>>
        /\ Cleanup(refcnt) /\ UNCHANGED <<x, lastval>>
    BY <1>7 DEF LoadCleans
  <2>2. \A a \in Arrays : Held(a) = IF x = a THEN 1 ELSE 0
    BY <2>1, CountEmpty, SessionAssumption DEF Held, HeapInv, HeapLoaded
  <2>3. HeapLoaded
    BY <2>1 DEF HeapInv
  <2>4. Covered
    <3>. SUFFICES ASSUME NEW a \in Arrays, Held(a) > 0
                  PROVE  refcnt[a] >= Held(a)
      BY DEF Covered
    <3>. QED
      BY <2>2, <2>3, SessionAssumption DEF HeapLoaded, Counts
  <2>5. HeapRuns
    BY <2>1, <2>3, <2>4 DEF HeapLoaded, HeapRuns
  <2>. QED
    BY <2>1, <2>5, CleanupHeap DEF HeapInv
<1>8. CASE LoadPopsWild
  BY <1>8 DEF LoadPopsWild, HeapInv, Running
<1>9. ASSUME NEW n \in Counted,
             Looping(n) \/ LoadRefused(n) \/ LoadFails(n) \/ RecoverTorn(n)
      PROVE  HeapInv'
  <2>1. /\ pc = "jump" /\ pc' \in {"jump", "done", "undefined"}
        /\ UNCHANGED <<refcnt, x, lastval, stk>>
    BY <1>9 DEF Looping, LoadRefused, LoadFails, RecoverTorn, Handle, ws
  <2>. QED
    BY <2>1, <1>2, SameHeap DEF HeapInv
<1>. QED
  BY <1>3, <1>4, <1>5, <1>6, <1>7, <1>8, <1>9 DEF Recover

LEMMA HeapStep ==
  ASSUME HeapInv, DiskInv, Next
  PROVE  HeapInv'
<1>1. CASE Retry \/ NoAction \/ AssignLast \/ Ieval \/ Finish \/ FinishBatch
  <2>1. pc \in {"prompt", "parse", "eval"} /\ pc' # "loaded"
    BY <1>1 DEF Retry, NoAction, AssignLast, Ieval, Finish, FinishBatch, Evaluated, EndBatch
  <2>. QED
    BY <1>1, <2>1, HeapTopLevel DEF HeapInv, Running
<1>2. CASE Evaluate
  <2>1. pc \in {"eval", "defs", "parse"} /\ pc' # "loaded"
    BY <1>2 DEF Evaluate, Evaluating, Push, FreeUp, Pop, Assign, DefineLatent, ClosePort,
                OpenPort, OpenNoSlot, DefsBegin, DefsEnd, DefsDone, EndBatch, Jump
  <2>. QED
    BY <1>2, <2>1, HeapEvaluate DEF HeapInv, Running
<1>. QED
  BY <1>1, <1>2, HeapRecover DEF Next

LEMMA DiskStep ==
  ASSUME HeapInv, DiskInv, Next
  PROVE  DiskInv'
<1>1. ASSUME NEW n \in Counted, RecoverSave(n)
      PROVE  DiskInv'
  <2>1. /\ pc = "jump" /\ pc' = "prompt"
        /\ disk' = [refcnt |-> Cleared(refcnt), x |-> x, latent |-> latent]
    BY <1>1 DEF RecoverSave, Handle
  <2>2. HeapRuns
    BY <2>1 DEF HeapInv, Running
  <2>3. /\ Counts(Cleared(refcnt))
        /\ \A a \in Arrays :
              LET held == (IF x = a THEN 1 ELSE 0) + (IF lastval = a THEN 1 ELSE 0)
              IN  held > 0 => Cleared(refcnt)[a] >= held
    BY <2>2, ClearedCounts
  <2>4. x # none => x \in Arrays /\ Cleared(refcnt)[x] >= 1
    BY <2>2, <2>3 DEF HeapRuns, Counts
  <2>. QED
    BY <2>1, <2>2, <2>3, <2>4 DEF DiskInv, HeapRuns
<1>2. CASE disk' = disk /\ (pc' = "jump" /\ err' = "load" => disk # none)
  BY <1>2 DEF DiskInv
<1>3. CASE Retry \/ NoAction \/ AssignLast \/ Ieval \/ Finish \/ FinishBatch
  <2>1. disk' = disk /\ pc' # "jump"
    BY <1>3 DEF Retry, NoAction, AssignLast, Ieval, Finish, FinishBatch, EndBatch
  <2>. QED
    BY <2>1, <1>2
<1>4. CASE Evaluate
  <2>1. disk' = disk /\ (pc' = pc \/ pc' # "jump" \/ (err' = "load" => disk # none))
    BY <1>4 DEF Evaluate, Push, FreeUp, Pop, Assign, DefineLatent, ClosePort, OpenPort,
                OpenNoSlot, DefsBegin, DefsEnd, DefsDone, EndBatch, Jump
  <2>2. pc' = pc /\ pc' = "jump" => FALSE
    BY <1>4 DEF Evaluate, Evaluating, Push, FreeUp, Pop, Assign, DefineLatent, ClosePort,
                OpenPort, OpenNoSlot, DefsBegin, DefsEnd, DefsDone, EndBatch, Jump
  <2>. QED
    BY <2>1, <2>2, <1>2
<1>5. ASSUME NEW n \in Counted,
             \/ Looping(n) \/ RecoverWarning(n) \/ RecoverEnd(n) \/ SaveFails(n)
             \/ LoadRefused(n) \/ LoadRead(n) \/ LoadFails(n)
             \/ RecoverNested(n) \/ RecoverTorn(n)
      PROVE  DiskInv'
  <2>1. disk' = disk /\ (pc' # "jump" \/ err' # "load")
    BY <1>5 DEF Looping, RecoverWarning, RecoverEnd, SaveFails, LoadRefused, LoadRead,
                LoadFails, RecoverNested, RecoverTorn, ToPrompt
  <2>. QED
    BY <2>1, <1>2
<1>6. CASE LoadCleans \/ LoadPopsWild
  <2>1. disk' = disk /\ pc' # "jump"
    BY <1>6 DEF LoadCleans, LoadPopsWild
  <2>. QED
    BY <2>1, <1>2
<1>. QED
  BY <1>1, <1>3, <1>4, <1>5, <1>6 DEF Next, Recover

-------------------------------------------------------------------------------
(* A recovery that comes up to the prompt cleans the heap by cleanup_ws.    *)
LEMMA PromptStep ==
  ASSUME HeapInv, PromptInv, Next
  PROVE  PromptInv'
<1>1. CASE Retry
  BY <1>1 DEF Retry, PromptInv, Temps, ws, files
<1>2. CASE NoAction \/ Ieval \/ FinishBatch
  BY <1>2 DEF NoAction, Ieval, FinishBatch, EndBatch, Evaluated, PromptInv, Temps, main, ws, files
<1>3. CASE AssignLast
  <2>1. /\ pc = "parse" /\ pc' = "prompt" /\ lastval # none /\ running = "line"
        /\ refcnt' = Assigned(refcnt, lastval)
        /\ UNCHANGED <<stk, topsysfile, latentfound, latentruns>>
    BY <1>3 DEF AssignLast, files
  <2>2. HeapRuns /\ lastval \in Arrays
    BY <2>1 DEF HeapInv, Running, HeapRuns
  <2>3. Held(lastval) > 0
    <3>1. Count(stk, lastval) \in Nat
      BY <2>2, HeldType DEF HeapRuns
    <3>. QED
      BY <3>1, <2>2 DEF Held
  <2>4. \A a \in Arrays : Assigned(refcnt, lastval)[a] = 0 => refcnt[a] = 0
    BY <2>2, <2>3, AssignedCounts
  <2>5. Temps' = {}
    BY <2>1, <2>4 DEF PromptInv, Temps
  <2>. QED
    BY <2>1, <2>5 DEF PromptInv
<1>4. CASE Finish
  BY <1>4 DEF Finish, Evaluated, Shown, PromptInv, Temps, files
<1>5. CASE Evaluate
  <2>1. ASSUME NEW b \in Arrays, Push(b) \/ FreeUp(b)
        PROVE  pc \in {"eval", "defs"} /\ pc' = pc /\ UNCHANGED main
    BY <2>1 DEF Push, FreeUp, Evaluating
  <2>2. ASSUME NEW p \in Ports, NEW f \in Files, OpenPort(p, f)
        PROVE  pc \in {"eval", "defs"} /\ pc' = pc /\ UNCHANGED main
    BY <2>2 DEF OpenPort, Evaluating
  <2>3. CASE Pop \/ Assign \/ DefineLatent \/ DefsBegin \/ DefsEnd
    BY <2>3 DEF Pop, Assign, DefineLatent, DefsBegin, DefsEnd, Evaluating, PromptInv, main
  <2>4. CASE DefsDone
    BY <2>4 DEF DefsDone, EndBatch, PromptInv, Temps, ws
  <2>5. ASSUME NEW e, Jump(e)
        PROVE  PromptInv'
    BY <2>5 DEF Jump, PromptInv
  <2>6. ASSUME pc \in {"eval", "defs"}, pc' = pc, UNCHANGED main
        PROVE  PromptInv'
    BY <2>6 DEF PromptInv, main
  <2>7. ASSUME NEW p \in Ports, ClosePort(p)
        PROVE  pc \in {"eval", "defs"} /\ pc' = pc /\ UNCHANGED main
    BY <2>7 DEF ClosePort, Evaluating
  <2>8. ASSUME NEW f \in Files, OpenNoSlot(f)
        PROVE  pc \in {"eval", "defs"} /\ pc' = pc /\ UNCHANGED main
    BY <2>8 DEF OpenNoSlot, Evaluating
  <2>. QED
    BY <1>5, <2>1, <2>2, <2>3, <2>4, <2>5, <2>6, <2>7, <2>8 DEF Evaluate
<1>6. ASSUME HeapRuns, Cleanup(refcnt), UNCHANGED <<x, lastval>>
      PROVE  stk' = <<>> /\ Temps' = {} /\ topsysfile' = 0
  BY <1>6, CleanupHeap
<1>7. ASSUME NEW n \in Counted, RecoverWarning(n) \/ RecoverNested(n) \/ RecoverSave(n)
      PROVE  PromptInv'
  <2>1. /\ pc = "jump" /\ pc' = "prompt" /\ latentfound' = FALSE
        /\ latentruns' = latentruns /\ running' = "nothing"
        /\ Cleanup(refcnt) /\ UNCHANGED <<x, lastval>>
    BY <1>7 DEF RecoverWarning, RecoverNested, RecoverSave, Handle, ToPrompt
  <2>. QED
    BY <2>1, <1>6 DEF PromptInv, HeapInv, Running
<1>8. CASE LoadCleans
  <2>1. /\ pc = "loaded" /\ pc' = "prompt" /\ latentruns' = 0 /\ running' = "nothing"
        /\ stk = <<>> /\ refcnt' = WithoutTemps(Cleared(refcnt))
        /\ stk' = <<>> /\ topsysfile' = 0
    BY <1>8 DEF LoadCleans, Cleanup
  <2>2. Temps' = {}
    BY <2>1 DEF Temps, WithoutTemps
  <2>. QED
    BY <2>1, <2>2 DEF PromptInv
<1>9. ASSUME NEW n \in Counted,
             \/ Looping(n) \/ RecoverEnd(n) \/ SaveFails(n) \/ LoadRefused(n)
             \/ LoadRead(n) \/ LoadFails(n) \/ RecoverTorn(n)
      PROVE  PromptInv'
  <2>1. /\ pc' \in {"jump", "done", "loaded", "undefined"} /\ latentruns' = latentruns
    BY <1>9 DEF Looping, RecoverEnd, SaveFails, LoadRefused, LoadRead, LoadFails,
                RecoverTorn, Handle
  <2>. QED
    BY <2>1 DEF PromptInv
<1>10. CASE LoadPopsWild
  BY <1>10 DEF LoadPopsWild, PromptInv, main
<1>. QED
  BY <1>1, <1>2, <1>3, <1>4, <1>5, <1>7, <1>8, <1>9, <1>10 DEF Next, Recover

LEMMA RecoveryStep ==
  ASSUME RecoveryInv, Next
  PROVE  RecoveryInv'
<1>0. \A n \in Counted : n \in Nat /\ n >= 1 /\ (n > 1 => recoverycnt > 0)
  BY DEF Counted, RecoveryInv
<1>1. CASE \/ Retry \/ NoAction \/ AssignLast \/ Ieval \/ Finish \/ FinishBatch
           \/ LoadCleans \/ LoadPopsWild
  <2>1. /\ pc # "done" /\ pc' \notin {"jump", "loaded"}
        /\ recoverycnt' = recoverycnt /\ wsjump' = wsjump /\ ending' \in {ending, "batch"}
    BY <1>1 DEF Retry, NoAction, AssignLast, Ieval, Finish, FinishBatch, EndBatch, Evaluated,
                LoadCleans, LoadPopsWild, main
  <2>. QED
    BY <2>1 DEF RecoveryInv, LoopingAfterSave
<1>2. CASE Evaluate
  <2>1. ASSUME NEW e \in {"warning", "abort", "bye", "save", "load"}, Jump(e)
        PROVE  RecoveryInv'
    <3>1. /\ pc \in {"eval", "defs", "parse"} /\ pc' = "jump" /\ err' = e
          /\ UNCHANGED <<recoverycnt, ending>>
      BY <2>1 DEF Jump, Evaluating
    <3>2. wsjump => wsjump'
      BY <2>1, Zenon DEF Jump
    <3>3. e \in {"save", "load"} => wsjump'
      BY <2>1, Zenon DEF Jump
    <3>. QED
      BY <3>1, <3>2, <3>3 DEF RecoveryInv, LoopingAfterSave
  <2>2. \/ \E e \in {"warning", "abort", "bye", "save", "load"} : Jump(e)
        \/ /\ pc \notin {"done", "jump", "loaded"} /\ pc' \notin {"jump", "loaded"}
           /\ recoverycnt' = recoverycnt /\ wsjump' = wsjump /\ ending' \in {ending, "batch"}
    BY <1>2 DEF Evaluate, Evaluating, Push, FreeUp, Pop, Assign, DefineLatent, ClosePort,
                OpenPort, OpenNoSlot, DefsBegin, DefsEnd, DefsDone, EndBatch, main
  <2>. QED
    BY <2>1, <2>2 DEF RecoveryInv, LoopingAfterSave
<1>3. ASSUME NEW n \in Counted, Looping(n)
      PROVE  RecoveryInv'
  BY <1>3, <1>0 DEF Looping, RecoveryInv, LoopingAfterSave
<1>4. ASSUME NEW n \in Counted, RecoverWarning(n) \/ RecoverNested(n)
      PROVE  RecoveryInv'
  <2>1. /\ pc = "jump" /\ pc' = "prompt" /\ n <= 1 /\ recoverycnt' = n - 1
        /\ UNCHANGED <<wsjump, ending>>
    BY <1>4 DEF RecoverWarning, RecoverNested, Handle, ToPrompt
  <2>2. n \in Nat /\ n >= 1
    BY <1>0
  <2>3. recoverycnt' = 0
    BY <2>1, <2>2
  <2>. QED
    BY <2>1, <2>3 DEF RecoveryInv, LoopingAfterSave
<1>5. ASSUME NEW n \in Counted, RecoverEnd(n)
      PROVE  RecoveryInv'
  BY <1>5, <1>0 DEF RecoverEnd, Handle, RecoveryInv, LoopingAfterSave
<1>6. ASSUME NEW n \in Counted,
             \/ RecoverSave(n) \/ SaveFails(n) \/ LoadRefused(n) \/ LoadRead(n)
             \/ LoadFails(n) \/ RecoverTorn(n)
      PROVE  RecoveryInv'
  <2>1. /\ pc = "jump" /\ err \in {"save", "load", "nested", "torn"} /\ recoverycnt' = n
        /\ wsjump' = wsjump /\ ending' \in {ending, "inlatent"}
    BY <1>6 DEF RecoverSave, SaveFails, LoadRefused, LoadRead, LoadFails, RecoverTorn, Handle
  <2>. QED
    BY <2>1, <1>0 DEF RecoveryInv, LoopingAfterSave
<1>. QED
  BY <1>1, <1>2, <1>3, <1>4, <1>5, <1>6 DEF Next, Recover

LEMMA PortsStep ==
  ASSUME PortsInv, Next
  PROVE  PortsInv'
<1>1. CASE UNCHANGED <<ports, streams>>
  BY <1>1 DEF PortsInv, PortsOpen, OpenPorts
<1>2. CASE ports' = AllClosed
  BY <1>2 DEF PortsInv, PortsOpen, OpenPorts, AllClosed
<1>3. ASSUME NEW p \in Ports, NEW f \in Files, OpenPort(p, f)
      PROVE  PortsInv'
  BY <1>3 DEF OpenPort, PortsInv, PortsOpen, OpenPorts
<1>4. ASSUME NEW f \in Files, OpenNoSlot(f)
      PROVE  PortsInv'
  BY <1>4 DEF OpenNoSlot, PortsInv, PortsOpen, OpenPorts
<1>5. ASSUME NEW p \in Ports, ClosePort(p)
      PROVE  PortsInv'
  BY <1>5 DEF ClosePort, PortsInv, PortsOpen, OpenPorts
<1>6. \/ UNCHANGED <<ports, streams>> \/ ports' = AllClosed
      \/ \E p \in Ports : ClosePort(p) \/ \E f \in Files : OpenPort(p, f)
      \/ \E f \in Files : OpenNoSlot(f)
  <2>1. CASE Retry \/ NoAction \/ AssignLast \/ Ieval \/ Finish \/ FinishBatch
    BY <2>1 DEF Retry, NoAction, AssignLast, Ieval, Finish, FinishBatch, EndBatch,
                CloseUserFiles, files
  <2>2. CASE Evaluate
    BY <2>2 DEF Evaluate, Push, FreeUp, Pop, Assign, DefineLatent, DefsBegin, DefsEnd,
                DefsDone, EndBatch, Jump, CloseUserFiles, files
  <2>3. CASE Recover
    BY <2>3 DEF Recover, Looping, RecoverWarning, RecoverEnd, RecoverSave, SaveFails,
                LoadRefused, LoadRead, LoadFails, RecoverNested, RecoverTorn, LoadCleans,
                LoadPopsWild, Cleanup, CloseUserFiles, files
  <2>. QED
    BY <2>1, <2>2, <2>3 DEF Next
<1>. QED
  BY <1>1, <1>2, <1>3, <1>4, <1>5, <1>6

(* The inductive invariant. *)
THEOREM SessionInvariance == Spec => []IInv
<1>1. Init => IInv
  <2>. SUFFICES ASSUME Init PROVE IInv
    OBVIOUS
  <2>1. DiskInv
    BY DEF Init, DiskInv
  <2>2. PromptInv
    BY DEF Init, PromptInv, Temps
  <2>3. RecoveryInv
    BY DEF Init, RecoveryInv, LoopingAfterSave
  <2>4. PortsInv
    BY DEF Init, PortsInv, PortsOpen, OpenPorts, AllClosed
  <2>. QED
    BY HeapInit, <2>1, <2>2, <2>3, <2>4 DEF IInv
<1>2. IInv /\ [Next]_vars => IInv'
  <2>. SUFFICES ASSUME IInv, [Next]_vars PROVE IInv'
    OBVIOUS
  <2>1. CASE Next
    BY <2>1, HeapStep, DiskStep, PromptStep, RecoveryStep, PortsStep DEF IInv
  <2>2. CASE UNCHANGED vars
    BY <2>2 DEF vars, main, ws, files, IInv, HeapInv, HeapRuns, HeapLoaded, Covered, Held,
                Running, DiskInv, PromptInv, Temps, RecoveryInv, LoopingAfterSave,
                PortsInv, PortsOpen, OpenPorts
  <2>. QED
    BY <2>1, <2>2
<1>. QED
  BY <1>1, <1>2, PTL DEF Spec

(* However lines, definition files, errors, saves and loads follow each     *)
(* other, no array that the stack, the name or lastval refers to is freed   *)
(* (main_stu.c:319-470, cleanup_ws, clearstack).                            *)
THEOREM RefsStayCovered == Spec => []RefsCovered
<1>1. IInv => RefsCovered
  <2>. SUFFICES ASSUME IInv PROVE RefsCovered
    OBVIOUS
  <2>1. Running => \A a \in Arrays : Held(a) > 0 => refcnt[a] >= Held(a)
    BY DEF IInv, HeapInv, HeapRuns, Covered
  <2>2. \A a : Held(a) = Entries(a) + (IF x = a THEN 1 ELSE 0) + (IF lastval = a THEN 1 ELSE 0)
    BY EntriesCount DEF Held
  <2>. QED
    BY <2>1, <2>2, Zenon DEF RefsCovered, Running
<1>. QED
  BY <1>1, SessionInvariance, PTL

(* After every recovery the prompt is clean, and the Latent of a loaded     *)
(* workspace is run at most once (main_stu.c:403-470, 319-350).             *)
THEOREM RecoversClean == Spec => []Recovered
<1>1. IInv => Recovered
  BY DEF IInv, PromptInv, Recovered, PromptClean, LatentOnce
<1>. QED
  BY <1>1, SessionInvariance, PTL

(* An error alone, however often and whatever recoverycnt holds after the   *)
(* jump, does not end the session as a loop; and every slot of the file     *)
(* table in use has its stream open, which no other slot has.               *)
THEOREM ErrorsNeverLoop == Spec => [](LoopingAfterSave /\ PortsOpen)
<1>1. IInv => LoopingAfterSave /\ PortsOpen
  BY DEF IInv, RecoveryInv, PortsInv
<1>. QED
  BY <1>1, SessionInvariance, PTL

(* No step but the one of a load that forgets the table, and an open when   *)
(* every slot is taken, leaves a stream open that no slot leads to, and     *)
(* after no step does a slot lead to a closed stream (fileio.c iopen,       *)
(* iclose, closeuserfiles, startfilesystem).                                *)
THEOREM NoStreamLost == Spec => StreamsKept
<1>1. ASSUME [Next]_vars, PortsInv
      PROVE  LoadForgets \/ OpenForgets \/ Lost' \subseteq Lost
  <2>1. CASE UNCHANGED <<ports, streams>>
    BY <2>1 DEF Lost, OpenPorts
  <2>2. CASE CloseUserFiles
    BY <2>2 DEF CloseUserFiles, Lost, OpenPorts, AllClosed
  <2>3. ASSUME NEW p \in Ports, NEW f \in Files, OpenPort(p, f)
        PROVE  Lost' \subseteq Lost
    BY <2>3, <1>1, SessionAssumption DEF OpenPort, Lost, OpenPorts, PortsInv, PortsOpen
  <2>4. ASSUME NEW p \in Ports, ClosePort(p)
        PROVE  Lost' \subseteq Lost
    BY <2>4, <1>1 DEF ClosePort, Lost, OpenPorts, PortsInv, PortsOpen
  <2>5. ASSUME NEW f \in Files, OpenNoSlot(f)
        PROVE  OpenForgets
    <3>1. f \notin {ports[p] : p \in OpenPorts}
      BY <2>5, <1>1 DEF OpenNoSlot, PortsInv, PortsOpen
    <3>2. Lost' = Lost \cup {f}
      BY <2>5, <3>1 DEF OpenNoSlot, Lost, OpenPorts
    <3>. QED
      BY <2>5, <3>2 DEF OpenNoSlot, OpenForgets
  <2>6. ASSUME NEW n \in Counted, LoadRead(n)
        PROVE  LoadForgets
    <3>1. Lost' = streams
      BY <2>6 DEF LoadRead, Lost, OpenPorts, AllClosed
    <3>2. streams = Lost \cup {ports[p] : p \in OpenPorts}
      BY <1>1 DEF Lost, PortsInv, PortsOpen
    <3>. QED
      BY <2>6, <3>1, <3>2 DEF LoadRead, Handle, LoadForgets
  <2>7. \/ UNCHANGED <<ports, streams>> \/ CloseUserFiles
        \/ \E p \in Ports : ClosePort(p) \/ \E f \in Files : OpenPort(p, f)
        \/ \E f \in Files : OpenNoSlot(f)
        \/ \E n \in Counted : LoadRead(n)
    <3>1. CASE Retry \/ NoAction \/ AssignLast \/ Ieval \/ Finish \/ FinishBatch
      BY <3>1 DEF Retry, NoAction, AssignLast, Ieval, Finish, FinishBatch, EndBatch, files
    <3>2. CASE Evaluate
      BY <3>2 DEF Evaluate, Push, FreeUp, Pop, Assign, DefineLatent, DefsBegin,
                  DefsEnd, DefsDone, EndBatch, Jump, files
    <3>3. CASE Recover
      BY <3>3 DEF Recover, Handle, Looping, RecoverWarning, RecoverEnd, RecoverSave, SaveFails,
                  LoadRefused, LoadFails, RecoverNested, RecoverTorn, LoadCleans,
                  LoadPopsWild, Cleanup, files
    <3>4. CASE UNCHANGED vars
      BY <3>4 DEF vars, files
    <3>. QED
      BY <1>1, <3>1, <3>2, <3>3, <3>4 DEF Next
  <2>. QED
    BY <2>1, <2>2, <2>3, <2>4, <2>5, <2>6, <2>7
<1>2. IInv => PortsInv
  BY DEF IInv
<1>3. PortsInv' => PortsOpen'
  BY DEF PortsInv
<1>. QED
  BY <1>1, <1>2, <1>3, SessionInvariance, PTL DEF Spec, StreamsKept
===============================================================================
