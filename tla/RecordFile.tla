----------------------------- MODULE RecordFile -----------------------------
(***************************************************************************)
(* What a Nial direct access file promises (open with mode D, writearray,  *)
(* writerecord, eraserecord, filetally): a list of components, numbered    *)
(* from 0, in which any may be missing.  DirectFiles shows that the index  *)
(* file and the record file behind it implement this list.                 *)
(***************************************************************************)
EXTENDS Integers, Sequences, SequencesExt

CONSTANTS
  Missing,      \* what a component that was never written or erased reads as
  Numbers,      \* the component numbers used
  Values(_)     \* the records (FALSE) or arrays (TRUE) that may be written

VARIABLES
  kind,         \* 0 until the first write, then 1 for arrays, 2 for records
  recs,         \* the components; filetally is Len(recs)
  lost          \* a write or erase was cut short: nothing is promised since

rvars == <<kind, recs, lost>>

RInit == kind = 0 /\ recs = <<>> /\ lost = FALSE

KindOf(isarray) == IF isarray THEN 1 ELSE 2

Put(s, n, v) ==
  [i \in 1 .. (IF n < Len(s) THEN Len(s) ELSE n + 1) |->
     IF i = n + 1 THEN v ELSE IF i <= Len(s) THEN s[i] ELSE Missing]

\* The components left when the missing ones at the end are dropped.
Dropped(s) ==
  SubSeq(s, 1, CHOOSE n \in 0 .. Len(s) :
                 /\ n = 0 \/ s[n] # Missing
                 /\ \A i \in n + 1 .. Len(s) : s[i] = Missing)

\* One component, or two one after the other.
Written(s, isarray) ==
  LET one == {Put(s, n, v) : n \in Numbers, v \in Values(isarray)}
  IN  one \cup {Put(r, n, v) : r \in one, n \in Numbers, v \in Values(isarray)}

Write(isarray) ==
  /\ ~lost /\ kind \in {0, KindOf(isarray)}
  /\ kind' = KindOf(isarray)
  /\ \E s \in {recs} : recs' \in Written(s, isarray)
  /\ UNCHANGED lost

Erase(n) ==
  /\ ~lost /\ n < Len(recs)
  /\ recs' = LET s == Put(recs, n, Missing)
             IN  IF n = Len(s) - 1 THEN Dropped(s) ELSE s
  /\ UNCHANGED <<kind, lost>>

CutShort == ~lost /\ lost' = TRUE /\ kind' = 0 /\ recs' = <<>>

RNext ==
  \/ \E isarray \in BOOLEAN : Write(isarray)
  \/ \E n \in Numbers : Erase(n)
  \/ CutShort

RSpec == RInit /\ [][RNext]_rvars
=============================================================================
