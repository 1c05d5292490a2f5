------------------------------- MODULE AtomTable -------------------------------
(***************************************************************************)
(* The atom table of absmach.c: createatom, rehash and remove_atom.  Every *)
(* phrase and every fault is in the heap once; the table finds it by its   *)
(* kind and its text.  It is open addressing with a fixed step, linadj.  A *)
(* cell that is erased inside a chain is left "held" so that the search    *)
(* does not stop there.                                                    *)
(***************************************************************************)
EXTENDS Integers, FiniteSets

CONSTANTS
  Atoms,          \* phrases and faults: a kind and a text each
  HashOf,         \* the value hash() computes from the text, before the modulus
  LinAdj,         \* linadj, a prime
  DfSize,         \* dfatomtblsize: the first size, and what a growth adds
  MaxSize,        \* no heap space for a table above this size
  vacant, held    \* the two marks of a cell without an atom

ASSUME AtomConstants ==
  /\ HashOf \in [Atoms -> Nat]
  /\ LinAdj \in Nat /\ 1 < LinAdj /\ \A d \in 2 .. LinAdj - 1 : LinAdj % d # 0
  /\ DfSize \in Nat /\ LinAdj < DfSize /\ MaxSize \in Nat
  /\ vacant # held /\ {vacant, held} \cap Atoms = {}

(* The size is never a multiple of linadj: the steps meet every cell. *)
NewSize(n) == IF n % LinAdj = 0 THEN n + 1 ELSE n

VARIABLES
  atomtbl,        \* the cells
  atomtblsize,
  atomcnt,        \* the count that decides on growth
  inrehash,       \* rehash is asking for space, or has failed to get it
  fatal           \* exit_cover1(NC_FATAL) was called

vars == <<atomtbl, atomtblsize, atomcnt, inrehash, fatal>>

Init ==
  /\ atomtblsize = NewSize(DfSize)
  /\ atomtbl = [i \in 0 .. atomtblsize - 1 |-> vacant]
  /\ atomcnt = 0
  /\ inrehash = FALSE
  /\ fatal = FALSE

-------------------------------------------------------------------------------
(* Searching *)

Hash(a, size) == HashOf[a] % size

(* The k-th cell met from cell h, in a table of this size. *)
Probe(h, k, size) == (h + k * LinAdj) % size

First(ks) == CHOOSE k \in ks : \A j \in ks : k <= j

(* Mutant: a held cell ends the search, as if it could be used at once. *)
StopsAtHeld(a) ==
  {k \in 0 .. atomtblsize - 1 :
     atomtbl[Probe(Hash(a, atomtblsize), k, atomtblsize)] \in {vacant, held, a}}

(* The turns of createatom's loop that would stop it: a match or a vacant  *)
(* cell.  With none, the loop comes back to where it began.                *)
Stops(a) == {k \in 0 .. atomtblsize - 1 :
               atomtbl[Probe(Hash(a, atomtblsize), k, atomtblsize)] \in {vacant, a}}

StopsAt(a) == Probe(Hash(a, atomtblsize), First(Stops(a)), atomtblsize)

IsFound(a) == Stops(a) # {} /\ atomtbl[StopsAt(a)] = a

-------------------------------------------------------------------------------
(* rehash() *)

(* The next table with the atoms of the cells below n of the old one.      *)
Rehashed(old, oldsize, size) ==
  LET t[n \in 0 .. oldsize] ==
        IF n = 0 THEN [i \in 0 .. size - 1 |-> vacant]
        ELSE LET a == old[n - 1]
                 cell(k) == Probe(Hash(a, size), k, size)
             IN  IF a \in {vacant, held} THEN t[n - 1]
                 ELSE [t[n - 1] EXCEPT
                         ![cell(First({k \in 0 .. size - 1 :
                                         t[n - 1][cell(k)] = vacant}))] = a]
  IN  t[oldsize]

NextSize == NewSize(atomtblsize + DfSize)

(* Mutant: the table may fill up. *)
MustGrowLate(cnt) == cnt > atomtblsize /\ ~inrehash

MustGrow(cnt) == cnt > atomtblsize \div 2 /\ ~inrehash

-------------------------------------------------------------------------------
(* createatom(): a new atom takes the vacant cell the search stopped at.   *)

(* The table with a in it, and its count. *)
With(a) == [atomtbl EXCEPT ![StopsAt(a)] = a]

CountWith == atomcnt + 1

IsNew(a) == Stops(a) # {} /\ ~IsFound(a)

Insert(a) ==
  /\ ~fatal /\ IsNew(a)
  /\ ~MustGrow(CountWith)
  /\ atomtbl' = With(a)
  /\ atomcnt' = CountWith
  /\ UNCHANGED <<atomtblsize, inrehash, fatal>>

InsertAndGrow(a) ==
  /\ ~fatal /\ IsNew(a)
  /\ MustGrow(CountWith) /\ NextSize <= MaxSize
  /\ atomtblsize' = NextSize
  /\ atomtbl' = Rehashed(With(a), atomtblsize, NextSize)
  /\ atomcnt' = CountWith
  /\ UNCHANGED <<inrehash, fatal>>

(* There is no space for the new table, or a signal came while the heap    *)
(* grew: the jump out of rehash leaves inrehash set.                       *)
InsertGrowFails(a) ==
  /\ ~fatal /\ IsNew(a)
  /\ MustGrow(CountWith)
  /\ atomtbl' = With(a)
  /\ atomcnt' = CountWith
  /\ inrehash' = TRUE
  /\ UNCHANGED <<atomtblsize, fatal>>

(* The search came round the table. *)
TableFull(a) ==
  /\ ~fatal /\ Stops(a) = {}
  /\ fatal' = TRUE
  /\ UNCHANGED <<atomtbl, atomtblsize, atomcnt, inrehash>>

-------------------------------------------------------------------------------
(* remove_atom(): freeit has freed the atom in the heap.                   *)

Holds(a) == \E i \in 0 .. atomtblsize - 1 : atomtbl[i] = a

PosnOf(a) ==
  LET cell(k) == Probe(Hash(a, atomtblsize), k, atomtblsize)
  IN  cell(First({k \in 0 .. atomtblsize - 1 : atomtbl[cell(k)] = a}))

NewEntry(p) == IF atomtbl[Probe(p, 1, atomtblsize)] = vacant THEN vacant ELSE held

(* The j-th cell before p. *)
Before(p, j) == Probe(p, atomtblsize - j, atomtblsize)

(* The cells before p that are held without a break. *)
HeldRun(p) ==
  {Before(p, j) : j \in {j \in 1 .. atomtblsize - 1 :
                           \A i \in 1 .. j : atomtbl[Before(p, i)] = held}}

(* Mutant: the end of the chain is not looked at. *)
ClearedAlways(p)  == {p} \cup HeldRun(p)

Cleared(p) == IF NewEntry(p) = vacant THEN {p} \cup HeldRun(p) ELSE {}

Remove(a) ==
  LET p == PosnOf(a)
  IN  /\ ~fatal /\ Holds(a)
      /\ atomtbl' = [i \in 0 .. atomtblsize - 1 |->
                       IF i \in Cleared(p) THEN vacant
                       ELSE IF i = p THEN held ELSE atomtbl[i]]
      /\ atomcnt' = atomcnt - Cardinality(Cleared(p))
      /\ UNCHANGED <<atomtblsize, inrehash, fatal>>

-------------------------------------------------------------------------------
CreateAtom(a) ==
  Insert(a) \/ InsertAndGrow(a) \/ InsertGrowFails(a) \/ TableFull(a)

Next == \E a \in Atoms : CreateAtom(a) \/ Remove(a)

Spec == Init /\ [][Next]_vars

-------------------------------------------------------------------------------
(* Properties *)

Cells == 0 .. atomtblsize - 1

TypeOK ==
  /\ atomtblsize \in Nat /\ LinAdj < atomtblsize /\ atomtblsize % LinAdj # 0
  /\ atomtbl \in [Cells -> Atoms \cup {vacant, held}]
  /\ atomcnt \in Nat
  /\ inrehash \in BOOLEAN /\ fatal \in BOOLEAN

(* An atom is in the table once: equal phrases are the same array, which   *)
(* is what lets the interpreter compare them by address.                   *)
Unique == \A i, j \in Cells : atomtbl[i] \in Atoms /\ atomtbl[i] = atomtbl[j] => i = j

(* The search of createatom finds every atom that is there, and so does    *)
(* the loop of remove_atom that has no other end.                          *)
Findable == \A a \in Atoms : Holds(a) => IsFound(a)

(* A held cell is before an occupied one, or before a held one that is:    *)
(* remove_atom leaves none that no chain needs.                            *)
NoUselessHeld == \A i \in Cells : atomtbl[i] = held =>
                                    atomtbl[Probe(i, 1, atomtblsize)] # vacant

Used == {i \in Cells : atomtbl[i] # vacant}

(* While growth works, half of the table is vacant, by the count and in    *)
(* fact: every search ends, and soon, and none has come round the table to *)
(* the fatal exit.                                                         *)
HalfVacant == ~inrehash => /\ atomcnt <= atomtblsize \div 2
                           /\ Cardinality(Used) <= atomcnt
                           /\ ~fatal
===============================================================================
