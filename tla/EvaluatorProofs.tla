---------------------------- MODULE EvaluatorProofs ----------------------------
(***************************************************************************)
(* Proofs about the control of eval.c, for every nesting of operations, of *)
(* transformers, closures, catches and fault loops.                        *)
(***************************************************************************)
EXTENDS Evaluator, FiniteSetTheorems, SequenceTheorems, TLAPS

-------------------------------------------------------------------------------
(* Sequences, whatever is in them *)

IsSequence(s) == \E S : s \in Seq(S)

LEMMA SequenceFacts ==
  ASSUME NEW s, IsSequence(s)
  PROVE  Len(s) \in Nat /\ DOMAIN s = 1 .. Len(s)
BY LenProperties DEF IsSequence

LEMMA PrefixFacts ==
  ASSUME NEW s, IsSequence(s), NEW n \in Nat, n <= Len(s)
  PROVE  /\ IsSequence(Prefix(s, n)) /\ Len(Prefix(s, n)) = n
         /\ DOMAIN Prefix(s, n) = 1 .. n
         /\ \A i \in 1 .. n : Prefix(s, n)[i] = s[i] /\ i \in 1 .. Len(s)
<1>1. PICK S : s \in Seq(S)
  BY DEF IsSequence
<1>2. Len(s) \in Nat /\ \A i \in 1 .. Len(s) : s[i] \in S
  BY <1>1, LenProperties, ElementOfSeq
<1>3. \A i \in 1 .. n : s[i] \in S /\ i \in 1 .. Len(s)
  BY <1>2
<1>4. /\ SubSeq(s, 1, n) \in Seq(S)
      /\ Len(SubSeq(s, 1, n)) = IF 1 <= n THEN n - 1 + 1 ELSE 0
      /\ \A i \in 1 .. n - 1 + 1 : SubSeq(s, 1, n)[i] = s[1 + i - 1]
  <2>1. 1 \in Int /\ n \in Int /\ \A i \in 1 .. n : s[i] \in S
    BY <1>3
  <2>. QED
    BY <2>1, SubSeqProperties
<1>5. Len(SubSeq(s, 1, n)) = n /\ n - 1 + 1 = n /\ \A i \in 1 .. n : 1 + i - 1 = i
  BY <1>4
<1>6. DOMAIN SubSeq(s, 1, n) = 1 .. n
  BY <1>4, <1>5, LenProperties
<1>7. \A i \in 1 .. n : SubSeq(s, 1, n)[i] = s[i]
  BY <1>4, <1>5
<1>. QED
  BY <1>3, <1>4, <1>5, <1>6, <1>7 DEF Prefix, IsSequence

(* t is s with x behind it. *)
Extends(t, s, x) ==
  /\ IsSequence(t) /\ Len(t) = Len(s) + 1
  /\ DOMAIN t = 1 .. Len(s) + 1
  /\ \A i \in 1 .. Len(s) : t[i] = s[i]
  /\ t[Len(s) + 1] = x

LEMMA AppendFacts ==
  ASSUME NEW s, IsSequence(s), NEW x
  PROVE  Extends(Append(s, x), s, x)
<1> DEFINE t == Append(s, x)
<1>1. PICK S : s \in Seq(S)
  BY DEF IsSequence
<1>2. s \in Seq(S \cup {x}) /\ x \in S \cup {x}
  BY <1>1
<1>3. /\ t \in Seq(S \cup {x})
      /\ Len(t) = Len(s) + 1
      /\ \A i \in 1 .. Len(s) : t[i] = s[i]
      /\ t[Len(s) + 1] = x
  BY <1>2, AppendProperties
<1>4. DOMAIN t = 1 .. Len(s) + 1
  BY <1>3, LenProperties
<1>. QED
  BY <1>3, <1>4 DEF IsSequence, Extends

(* t is s with r behind it. *)
Joins(t, s, r) ==
  /\ IsSequence(t) /\ Len(t) = Len(s) + Len(r)
  /\ \A i \in 1 .. Len(s) : t[i] = s[i]
  /\ \A i \in 1 .. Len(r) : t[Len(s) + i] = r[i]

LEMMA ConcatFacts ==
  ASSUME NEW s, IsSequence(s), NEW r, IsSequence(r)
  PROVE  Joins(s \o r, s, r)
<1> DEFINE t == s \o r
<1>1. PICK S : s \in Seq(S)
  BY DEF IsSequence
<1>2. PICK R : r \in Seq(R)
  BY DEF IsSequence
<1>3. s \in Seq(S \cup R) /\ r \in Seq(S \cup R)
  BY <1>1, <1>2
<1>4. /\ t \in Seq(S \cup R)
      /\ Len(t) = Len(s) + Len(r)
      /\ \A i \in 1 .. Len(s) + Len(r) : t[i] = IF i <= Len(s) THEN s[i] ELSE r[i - Len(s)]
  BY <1>3, ConcatProperties
<1>5. Len(s) \in Nat /\ Len(r) \in Nat
  BY SequenceFacts
<1>6. \A i \in 1 .. Len(s) : t[i] = s[i]
  BY <1>4, <1>5
<1>7. \A i \in 1 .. Len(r) : t[Len(s) + i] = r[i]
  BY <1>4, <1>5
<1>. QED
  BY <1>4, <1>6, <1>7 DEF IsSequence, Joins

LEMMA SamePrefix ==
  ASSUME NEW s, IsSequence(s), NEW t, IsSequence(t),
         NEW n \in Nat, n <= Len(s), n <= Len(t), \A i \in 1 .. n : s[i] = t[i]
  PROVE  Prefix(s, n) = Prefix(t, n)
<1> DEFINE p == Prefix(s, n)
           q == Prefix(t, n)
<1>1. /\ IsSequence(p) /\ Len(p) = n /\ \A i \in 1 .. n : p[i] = s[i]
      /\ IsSequence(q) /\ Len(q) = n /\ \A i \in 1 .. n : q[i] = t[i]
  BY PrefixFacts
<1>. HIDE DEF p, q
<1>2. PICK P, Q : p \in Seq(P) /\ q \in Seq(Q)
  BY <1>1 DEF IsSequence
<1>3. p \in Seq(P \cup Q) /\ q \in Seq(P \cup Q)
  BY <1>2
<1>4. \A i \in 1 .. Len(p) : p[i] = q[i]
  BY <1>1
<1>. QED
  BY <1>1, <1>3, <1>4, SeqEqual DEF p, q


-------------------------------------------------------------------------------
(* Operations as arrays. They are nested without a bound: an operation is  *)
(* well formed if it is in a set that has the parts of all its members.    *)
HasParts(W) ==
  \A f \in W :
    /\ f.is = "name" => f.of \in W
    /\ f.is = "form" => f.op \in Ops /\ f.arg \in W
    /\ f.is = "closure" => f.env \in Ops /\ f.of \in W

WellFormed(f) == \E W : HasParts(W) /\ f \in W

LEMMA Parts ==
  ASSUME NEW f, WellFormed(f)
  PROVE  /\ f.is = "name" => WellFormed(f.of)
         /\ f.is = "form" => f.op \in Ops /\ WellFormed(f.arg)
         /\ f.is = "closure" => f.env \in Ops /\ WellFormed(f.of)
<1>1. PICK W : HasParts(W) /\ f \in W
  BY DEF WellFormed
<1>2. f.is = "name" => WellFormed(f.of)
  BY <1>1 DEF HasParts, WellFormed
<1>3. f.is = "form" => f.op \in Ops /\ WellFormed(f.arg)
  BY <1>1 DEF HasParts, WellFormed
<1>4. f.is = "closure" => f.env \in Ops /\ WellFormed(f.of)
  BY <1>1 DEF HasParts, WellFormed
<1>. QED
  BY <1>2, <1>3, <1>4

LEMMA Plain ==
  /\ WellFormed(NoFun) /\ WellFormed(Basic)
  /\ \A t : WellFormed(Param(t))
<1>1. ASSUME NEW f, f.is \notin {"name", "form", "closure"}
      PROVE  WellFormed(f)
  <2>1. HasParts({f})
    BY <1>1 DEF HasParts
  <2>. QED
    BY <2>1 DEF WellFormed
<1>2. NoFun.is = "none" /\ Basic.is = "basic" /\ \A t : Param(t).is = "param"
  BY DEF NoFun, Basic, Param
<1>. QED
  BY <1>1, <1>2

(* What is put together of well formed operations is one. *)
LEMMA Made ==
  ASSUME NEW a, WellFormed(a), NEW f,
         f.is = "name" => f.of = a,
         f.is = "form" => f.op \in Ops /\ f.arg = a,
         f.is = "closure" => f.env \in Ops /\ f.of = a
  PROVE  WellFormed(f)
<1>1. PICK W : HasParts(W) /\ a \in W
  BY DEF WellFormed
<1>2. HasParts(W \cup {f})
  BY <1>1 DEF HasParts
<1>. QED
  BY <1>2 DEF WellFormed

LEMMA FormMade ==
  ASSUME NEW o \in Ops, NEW a, WellFormed(a)
  PROVE  WellFormed(Form(o, a)) /\ WellFormed(Name(o, a))
<1>1. Form(o, a).is = "form" /\ Form(o, a).op = o /\ Form(o, a).arg = a
  BY DEF Form
<1>2. WellFormed(Form(o, a))
  BY <1>1, Made
<1>3. Name(o, a).is = "name" /\ Name(o, a).of = Form(o, a)
  BY DEF Name
<1>4. WellFormed(Name(o, a))
  BY <1>2, <1>3, Made
<1>. QED
  BY <1>2, <1>4


-------------------------------------------------------------------------------
(***************************************************************************)
(* The frames on the Nial stack. Below(r) is the height under which the    *)
(* function of r and those it calls leave the stack alone; AtRest(r, k):   *)
(* it waits, or runs, with k values on the stack.                          *)
(***************************************************************************)
Environments == Ops \cup {Null}

Shape(r) ==
  \/ r \in [kind : {"ieval"}, entry : Nat, floor : Nat, todo : {NoFun}, env : Environments]
  \/ r \in [kind : {"form"}, entry : Nat, floor : Nat, op : Ops, arg : {r.arg},
            senv : Environments, todo : {NoFun}, links : {r.links}]
  \/ r \in [kind : {"name"}, entry : Nat, floor : Nat, todo : {r.todo},
            holds : Environments]
  \/ r \in [kind : {"closure"}, entry : Nat, floor : Nat, todo : {r.todo}, env : Ops,
            svenv : Environments]
  \/ r \in [kind : {"catch"}, entry : Nat, floor : Nat, todo : {r.todo},
            holds : Environments, calls : Nat, prev : Nat]
  \/ r \in [kind : {"faultloop"}, entry : Nat, floor : Nat, todo : {NoFun}]

Heights(r) ==
  /\ r.kind \in {"name", "faultloop"} => r.entry = r.floor
  /\ r.kind = "name" => r.floor > 0
  /\ r.kind \in {"closure", "catch"} => r.entry = r.floor + 1
  /\ r.kind = "form" => r.entry = r.floor - 2 /\ r.floor > 2
  /\ r.kind = "ieval" => r.entry \in {r.floor, r.floor + 1}

Below(r) ==
  IF r.kind = "name" THEN r.floor - 1
  ELSE IF r.kind = "form" THEN r.floor - 3 ELSE r.floor

AtRest(r, k) ==
  /\ k \in Nat
  /\ r.kind \in {"name", "catch"} => k = r.floor + 1
  /\ r.kind = "closure" => k = r.floor + Len(Env[r.env]) + 1
  /\ r.kind \in {"ieval", "form"} => k >= r.floor
  /\ r.kind = "faultloop" => k = r.floor

(* A line is the first; one that is executed leaves its value to an        *)
(* operation, and nothing at the prompt of the fault loop.                 *)
First(r)     == r.kind = "ieval" /\ r.floor = 0 /\ r.entry = 0
Follows(q, r) ==
  r.kind = "ieval" => r.entry = r.floor + (IF q.kind = "faultloop" THEN 0 ELSE 1)

Stacked(fs, k) ==
  /\ IsSequence(fs) /\ k \in Nat
  /\ \A i \in 1 .. Len(fs) : Shape(fs[i]) /\ Heights(fs[i])
  /\ \A i, j \in 1 .. Len(fs) : i < j => fs[i].floor <= Below(fs[j])
  /\ \A i \in 1 .. Len(fs) : AtRest(fs[i], IF i = Len(fs) THEN k ELSE fs[i + 1].entry)
  /\ \A i \in 1 .. Len(fs) - 1 : Follows(fs[i], fs[i + 1])
  /\ Len(fs) > 0 => First(fs[1])
  /\ Len(fs) = 0 => k = 0

(* Frames that differ in what the last one has still to call. *)
Alike(r, q) == q = r \/ (r.todo # NoFun /\ q = [r EXCEPT !.todo = NoFun])

Like(fs, gs) ==
  /\ IsSequence(gs) /\ Len(gs) = Len(fs)
  /\ \A i \in 1 .. Len(fs) : Alike(fs[i], gs[i])

LEMMA EnvLength == \A o \in Ops : Len(Env[o]) \in Nat /\ IsSequence(Env[o])
<1>1. \A o \in Ops : Env[o] \in Seq(Ops)
  BY EvaluatorConstants
<1>. QED
  BY <1>1, LenProperties DEF IsSequence

LEMMA ShapeFacts ==
  ASSUME NEW r, Shape(r)
  PROVE  /\ r.kind \in {"ieval", "form", "name", "closure", "catch", "faultloop"}
         /\ r.entry \in Nat /\ r.floor \in Nat
         /\ r.todo # NoFun => r.kind \in {"name", "closure", "catch"}
         /\ r.kind = "ieval" => r.env \in Environments
         /\ r.kind = "form" => r.op \in Ops /\ r.senv \in Environments
         /\ r.kind = "closure" => r.env \in Ops /\ r.svenv \in Environments
         /\ r.kind \in {"name", "catch"} => r.holds \in Environments
         /\ r.kind = "catch" => r.calls \in Nat /\ r.prev \in Nat
BY DEF Shape

LEMMA AlikeFacts ==
  ASSUME NEW r, Shape(r), NEW q, Alike(r, q)
  PROVE  /\ Shape(q) /\ q.kind = r.kind /\ q.entry = r.entry /\ q.floor = r.floor
         /\ q.todo \in {r.todo, NoFun}
         /\ r.kind \in {"ieval", "closure"} => q.env = r.env
         /\ r.kind = "form" => q.op = r.op /\ q.senv = r.senv /\ q.arg = r.arg
         /\ r.kind = "closure" => q.svenv = r.svenv
         /\ r.kind \in {"name", "catch"} => q.holds = r.holds
         /\ r.kind = "catch" => q.calls = r.calls /\ q.prev = r.prev
<1>1. CASE q = r
  BY <1>1
<1>2. CASE r.todo # NoFun /\ q = [r EXCEPT !.todo = NoFun]
  <2>1. CASE r \in [kind : {"name"}, entry : Nat, floor : Nat, todo : {r.todo},
                    holds : Environments]
    <3>1. q \in [kind : {"name"}, entry : Nat, floor : Nat, todo : {NoFun},
                 holds : Environments] /\ q.todo = NoFun
      BY <1>2, <2>1
    <3>. QED
      BY <1>2, <2>1, <3>1 DEF Shape
  <2>2. CASE r \in [kind : {"closure"}, entry : Nat, floor : Nat, todo : {r.todo},
                    env : Ops, svenv : Environments]
    <3>1. q \in [kind : {"closure"}, entry : Nat, floor : Nat, todo : {NoFun},
                 env : Ops, svenv : Environments] /\ q.todo = NoFun
      BY <1>2, <2>2
    <3>. QED
      BY <1>2, <2>2, <3>1 DEF Shape
  <2>3. CASE r \in [kind : {"catch"}, entry : Nat, floor : Nat, todo : {r.todo},
                    holds : Environments, calls : Nat, prev : Nat]
    <3>1. q \in [kind : {"catch"}, entry : Nat, floor : Nat, todo : {NoFun},
                 holds : Environments, calls : Nat, prev : Nat] /\ q.todo = NoFun
      BY <1>2, <2>3
    <3>. QED
      BY <1>2, <2>3, <3>1 DEF Shape
  <2>. QED
    BY <1>2, <2>1, <2>2, <2>3 DEF Shape
<1>. QED
  BY <1>1, <1>2 DEF Alike

LEMMA BelowFloor ==
  ASSUME NEW r, Shape(r), Heights(r)
  PROVE  Below(r) \in Nat /\ Below(r) <= r.floor /\ Below(r) <= r.entry
<1>1. r.floor \in Nat /\ r.kind \in {"ieval", "form", "name", "closure", "catch", "faultloop"}
  BY ShapeFacts
<1>. QED
  BY <1>1 DEF Heights, Below


LEMMA AtRestAlike ==
  ASSUME NEW r, Shape(r), NEW q, Alike(r, q), NEW k, AtRest(r, k)
  PROVE  AtRest(q, k)
<1>1. /\ r.kind \in {"ieval", "form", "name", "closure", "catch", "faultloop"}
      /\ q.kind = r.kind /\ q.floor = r.floor
      /\ r.kind = "closure" => q.env = r.env
  BY AlikeFacts, ShapeFacts
<1>. QED
  BY <1>1 DEF AtRest

LEMMA LikeStacked ==
  ASSUME NEW fs, NEW k, Stacked(fs, k), NEW gs, Like(fs, gs)
  PROVE  Stacked(gs, k)
<1>1. IsSequence(gs) /\ Len(gs) = Len(fs) /\ Len(fs) \in Nat /\ k \in Nat
  BY SequenceFacts DEF Like, Stacked
<1>2. \A i \in 1 .. Len(fs) : Shape(fs[i]) /\ Heights(fs[i]) /\ Alike(fs[i], gs[i])
  BY DEF Like, Stacked
<1>3. \A i \in 1 .. Len(fs) :
        /\ Shape(gs[i]) /\ gs[i].kind = fs[i].kind /\ gs[i].entry = fs[i].entry
        /\ gs[i].floor = fs[i].floor
  BY <1>2, AlikeFacts
<1>4. \A i \in 1 .. Len(fs) : Heights(gs[i]) /\ Below(gs[i]) = Below(fs[i])
  BY <1>2, <1>3 DEF Heights, Below
<1>5. \A i, j \in 1 .. Len(gs) : i < j => gs[i].floor <= Below(gs[j])
  BY <1>1, <1>3, <1>4 DEF Stacked
<1>6. \A i \in 1 .. Len(gs) : AtRest(gs[i], IF i = Len(gs) THEN k ELSE gs[i + 1].entry)
  <2>. SUFFICES ASSUME NEW i \in 1 .. Len(gs)
                PROVE  AtRest(gs[i], IF i = Len(gs) THEN k ELSE gs[i + 1].entry)
    OBVIOUS
  <2> DEFINE h == IF i = Len(fs) THEN k ELSE fs[i + 1].entry
  <2>1. h = IF i = Len(gs) THEN k ELSE gs[i + 1].entry
    BY <1>1, <1>3
  <2>2. AtRest(fs[i], h)
    BY <1>1 DEF Stacked
  <2>3. Shape(fs[i]) /\ Alike(fs[i], gs[i])
    BY <1>1, <1>2
  <2>. HIDE DEF h
  <2>4. AtRest(gs[i], h)
    BY <2>2, <2>3, AtRestAlike
  <2>. QED
    BY <2>1, <2>4
<1>7. \A i \in 1 .. Len(gs) - 1 : Follows(gs[i], gs[i + 1])
  <2>. SUFFICES ASSUME NEW i \in 1 .. Len(gs) - 1
                PROVE  Follows(gs[i], gs[i + 1])
    OBVIOUS
  <2>1. i \in 1 .. Len(fs) /\ i + 1 \in 1 .. Len(fs) /\ i \in 1 .. Len(fs) - 1
    BY <1>1
  <2>2. Follows(fs[i], fs[i + 1])
    BY <2>1 DEF Stacked
  <2>. QED
    BY <1>3, <2>1, <2>2 DEF Follows
<1>8. Len(gs) > 0 => First(gs[1])
  <2>1. Len(gs) > 0 => 1 \in 1 .. Len(fs)
    BY <1>1
  <2>. QED
    BY <1>1, <1>3, <2>1 DEF Stacked, First
<1>9. Len(gs) = 0 => k = 0
  BY <1>1 DEF Stacked
<1>10. \A i \in 1 .. Len(gs) : Shape(gs[i]) /\ Heights(gs[i])
  BY <1>1, <1>3, <1>4
<1>. QED
  BY <1>1, <1>5, <1>6, <1>7, <1>8, <1>9, <1>10 DEF Stacked

(* The last frame has the stack above its floor, the others below it. *)
LEMMA UnderTop ==
  ASSUME NEW fs, NEW k, Stacked(fs, k), Len(fs) > 0
  PROVE  /\ AtRest(Last(fs), k) /\ Shape(Last(fs)) /\ Heights(Last(fs))
         /\ k \in Nat /\ Last(fs).floor <= k
         /\ \A i \in 1 .. Len(fs) : fs[i].floor \in Nat /\ fs[i].floor <= Last(fs).floor
         /\ \A i \in 1 .. Len(fs) - 1 : fs[i].floor <= Below(Last(fs))
<1>1. Len(fs) \in Nat /\ Len(fs) \in 1 .. Len(fs)
  BY SequenceFacts DEF Stacked
<1>2. AtRest(Last(fs), k) /\ Shape(Last(fs)) /\ Heights(Last(fs)) /\ k \in Nat
  BY <1>1 DEF Stacked, Last
<1>3. \A i \in 1 .. Len(fs) - 1 : fs[i].floor <= Below(Last(fs))
  BY <1>1 DEF Stacked, Last
<1>4. \A i \in 1 .. Len(fs) : fs[i].floor \in Nat
  BY ShapeFacts DEF Stacked
<1>5. Below(Last(fs)) \in Nat /\ Below(Last(fs)) <= Last(fs).floor
  BY <1>2, BelowFloor
<1>6. \A i \in 1 .. Len(fs) : fs[i].floor <= Last(fs).floor
  BY <1>1, <1>3, <1>4, <1>5 DEF Last
<1>7. Last(fs).floor <= k
  <2>1. /\ Last(fs).kind \in {"ieval", "form", "name", "closure", "catch", "faultloop"}
        /\ Last(fs).floor \in Nat
        /\ Last(fs).kind = "closure" => Last(fs).env \in Ops
    BY <1>2, ShapeFacts
  <2>2. Last(fs).kind = "closure" => Len(Env[Last(fs).env]) \in Nat
    BY <2>1, EnvLength
  <2>. QED
    BY <1>2, <2>1, <2>2 DEF AtRest
<1>. QED
  BY <1>2, <1>3, <1>4, <1>6, <1>7

LEMMA HeightStacked ==
  ASSUME NEW fs, NEW k, Stacked(fs, k), Len(fs) > 0, NEW n \in Nat, AtRest(Last(fs), n)
  PROVE  Stacked(fs, n)
<1>1. Len(fs) \in Nat
  BY SequenceFacts DEF Stacked
<1>2. \A i \in 1 .. Len(fs) : AtRest(fs[i], IF i = Len(fs) THEN n ELSE fs[i + 1].entry)
  BY <1>1 DEF Stacked, Last
<1>. QED
  BY <1>1, <1>2 DEF Stacked

(* The function of the m-th frame leaves, and all that it had called. *)
LEMMA CutStacked ==
  ASSUME NEW fs, NEW k, Stacked(fs, k), NEW m \in 1 .. Len(fs)
  PROVE  Stacked(Prefix(fs, m - 1), fs[m].entry)
<1> DEFINE gs == Prefix(fs, m - 1)
<1>1. Len(fs) \in Nat /\ m - 1 \in Nat /\ m - 1 <= Len(fs) /\ IsSequence(fs)
  BY SequenceFacts DEF Stacked
<1>2. /\ IsSequence(gs) /\ Len(gs) = m - 1
      /\ \A i \in 1 .. m - 1 : gs[i] = fs[i] /\ i \in 1 .. Len(fs)
  BY <1>1, PrefixFacts
<1>. HIDE DEF gs
<1>3. fs[m].entry \in Nat
  BY ShapeFacts DEF Stacked
<1>4. \A i \in 1 .. Len(gs) : Shape(gs[i]) /\ Heights(gs[i])
  BY <1>2 DEF Stacked
<1>5. \A i, j \in 1 .. Len(gs) : i < j => gs[i].floor <= Below(gs[j])
  <2>1. \A i, j \in 1 .. Len(fs) : i < j => fs[i].floor <= Below(fs[j])
    BY DEF Stacked
  <2>. QED
    BY <1>2, <2>1
<1>6. \A i \in 1 .. Len(gs) :
        AtRest(gs[i], IF i = Len(gs) THEN fs[m].entry ELSE gs[i + 1].entry)
  <2>. SUFFICES ASSUME NEW i \in 1 .. Len(gs)
                PROVE  AtRest(gs[i], IF i = Len(gs) THEN fs[m].entry ELSE gs[i + 1].entry)
    OBVIOUS
  <2>1. i \in 1 .. Len(fs) /\ i # Len(fs) /\ gs[i] = fs[i]
    BY <1>1, <1>2
  <2>2. AtRest(fs[i], fs[i + 1].entry)
    BY <2>1 DEF Stacked
  <2>3. CASE i = Len(gs)
    BY <1>2, <2>1, <2>2, <2>3
  <2>4. CASE i # Len(gs)
    BY <1>2, <2>1, <2>2, <2>4
  <2>. QED
    BY <2>3, <2>4
<1>7. \A i \in 1 .. Len(gs) - 1 : Follows(gs[i], gs[i + 1])
  <2>. SUFFICES ASSUME NEW i \in 1 .. Len(gs) - 1
                PROVE  Follows(gs[i], gs[i + 1])
    OBVIOUS
  <2>1. i \in 1 .. Len(fs) - 1 /\ gs[i] = fs[i] /\ gs[i + 1] = fs[i + 1]
    BY <1>1, <1>2
  <2>. QED
    BY <2>1 DEF Stacked
<1>8. Len(gs) > 0 => First(gs[1])
  BY <1>1, <1>2 DEF Stacked
<1>9. Len(gs) = 0 => fs[m].entry = 0
  <2>1. m = 1 => First(fs[1])
    BY <1>1 DEF Stacked
  <2>. QED
    BY <1>2, <2>1 DEF First
<1>. QED
  BY <1>2, <1>3, <1>4, <1>5, <1>6, <1>7, <1>8, <1>9 DEF Stacked, gs

(* A function is called. *)
LEMMA PushStacked ==
  ASSUME NEW fs, NEW k, Stacked(fs, k), NEW r, Shape(r), Heights(r), r.entry = k,
         NEW n \in Nat, AtRest(r, n),
         IF Len(fs) = 0 THEN First(r)
         ELSE Last(fs).floor <= Below(r) /\ Follows(Last(fs), r)
  PROVE  Stacked(Append(fs, r), n)
<1> DEFINE gs == Append(fs, r)
           l == Len(fs)
<1>1. IsSequence(fs) /\ Len(fs) \in Nat
  BY SequenceFacts DEF Stacked
<1>2. Extends(gs, fs, r)
  BY <1>1, AppendFacts
<1>. HIDE DEF gs
<1>. USE DEF Extends
<1>3. \A i \in 1 .. l + 1 : i \in 1 .. l \/ i = l + 1
  BY <1>1
<1>4. \A i \in 1 .. Len(gs) : Shape(gs[i]) /\ Heights(gs[i])
  BY <1>2, <1>3 DEF Stacked
<1>5. \A i \in 1 .. l : fs[i].floor <= Below(r)
  <2>. SUFFICES ASSUME NEW i \in 1 .. l PROVE fs[i].floor <= Below(r)
    OBVIOUS
  <2>1. l > 0
    BY <1>1
  <2>2. fs[i].floor \in Nat /\ fs[i].floor <= Last(fs).floor /\ Last(fs).floor \in Nat
    <3>1. Len(fs) > 0
      BY <2>1
    <3>. QED
      BY <1>1, <3>1, UnderTop, ShapeFacts
  <2>3. Below(r) \in Nat
    BY BelowFloor
  <2>. QED
    BY <2>1, <2>2, <2>3
<1>6. \A i, j \in 1 .. Len(gs) : i < j => gs[i].floor <= Below(gs[j])
  <2>. SUFFICES ASSUME NEW i \in 1 .. Len(gs), NEW j \in 1 .. Len(gs), i < j
                PROVE  gs[i].floor <= Below(gs[j])
    OBVIOUS
  <2>1. i \in 1 .. l /\ gs[i] = fs[i]
    BY <1>1, <1>2
  <2>2. CASE j = l + 1
    BY <1>2, <1>5, <2>1, <2>2
  <2>3. CASE j \in 1 .. l
    BY <1>2, <2>1, <2>3 DEF Stacked
  <2>. QED
    BY <1>2, <1>3, <2>2, <2>3
<1>7. \A i \in 1 .. Len(gs) : AtRest(gs[i], IF i = Len(gs) THEN n ELSE gs[i + 1].entry)
  <2>. SUFFICES ASSUME NEW i \in 1 .. Len(gs)
                PROVE  AtRest(gs[i], IF i = Len(gs) THEN n ELSE gs[i + 1].entry)
    OBVIOUS
  <2>1. CASE i = l + 1
    BY <1>2, <2>1
  <2>2. CASE i = l /\ i # 0
    <3>1. i \in 1 .. l /\ i # Len(gs) /\ gs[i + 1] = r /\ gs[i] = fs[i]
      BY <1>1, <1>2, <2>2
    <3>2. AtRest(fs[i], k)
      BY <2>2, <3>1 DEF Stacked
    <3>. QED
      BY <3>1, <3>2
  <2>3. CASE i \in 1 .. l - 1
    <3>1. i \in 1 .. l /\ i # Len(gs) /\ i # l /\ gs[i + 1] = fs[i + 1] /\ gs[i] = fs[i]
      BY <1>1, <1>2, <2>3
    <3>2. AtRest(fs[i], fs[i + 1].entry)
      BY <3>1 DEF Stacked
    <3>. QED
      BY <3>1, <3>2
  <2>. QED
    BY <1>1, <1>2, <2>1, <2>2, <2>3
<1>8. \A i \in 1 .. Len(gs) - 1 : Follows(gs[i], gs[i + 1])
  <2>. SUFFICES ASSUME NEW i \in 1 .. Len(gs) - 1
                PROVE  Follows(gs[i], gs[i + 1])
    OBVIOUS
  <2>1. CASE i = l
    <3>1. l # 0 /\ gs[i] = Last(fs) /\ gs[i + 1] = r
      BY <1>1, <1>2, <2>1 DEF Last
    <3>. QED
      BY <3>1
  <2>2. CASE i \in 1 .. l - 1
    BY <1>1, <1>2, <2>2 DEF Stacked
  <2>. QED
    BY <1>1, <1>2, <2>1, <2>2
<1>9. First(gs[1])
  <2>1. CASE l = 0
    BY <1>2, <2>1
  <2>2. CASE l > 0
    BY <1>1, <1>2, <2>2 DEF Stacked
  <2>. QED
    BY <1>1, <2>1, <2>2
<1>. QED
  BY <1>1, <1>2, <1>4, <1>6, <1>7, <1>8, <1>9 DEF Stacked, gs


-------------------------------------------------------------------------------
(***************************************************************************)
(* The inductive invariant. Environed(fs, env): there is an environment    *)
(* between any two frames, which only operations and closures change, and  *)
(* env is the one above the last.                                          *)
(***************************************************************************)
Functions(fs) ==
  \A i \in 1 .. Len(fs) :
    /\ WellFormed(fs[i].todo)
    /\ fs[i].kind = "form" => WellFormed(fs[i].arg)

StackInv ==
  /\ IsSequence(stk) /\ Stacked(frames, Len(stk)) /\ Functions(frames)
  /\ current_env \in Environments

Changing == {"form", "closure"}

Changes(r, before, after) ==
  /\ r.kind = "form" => r.senv = before /\ after = r.op
  /\ r.kind = "closure" => r.svenv = before /\ after = r.env
  /\ r.kind = "ieval" => r.env = before
  /\ r.kind \notin Changing => after = before

Quiet(fs, i, j) == \A k \in i + 1 .. j : fs[k].kind \notin Changing

Between(fs, e) ==
  /\ e \in [0 .. Len(fs) -> Environments]
  /\ \A i \in 1 .. Len(fs) : Changes(fs[i], e[i - 1], e[i])
  /\ \A i, j \in 0 .. Len(fs) : i <= j /\ Quiet(fs, i, j) => e[i] = e[j]

Environed(fs, env) ==
  \E e : Between(fs, e) /\ (Len(fs) > 0 => e[Len(fs)] = env)

Refers(r) ==
  IF r.kind = "ieval" THEN r.env
  ELSE IF r.kind \in {"name", "catch"} THEN r.holds ELSE Null

RefsIn(fs, o) == {i \in 1 .. Len(fs) : Refers(fs[i]) = o}

Covering(fs, ref) == \A o \in Ops : ref[o] > Cardinality(RefsIn(fs, o))

EnvInv ==
  /\ envref \in [Ops -> Int]
  /\ thrown = "no" => Environed(frames, current_env) /\ Covering(frames, envref)

NamesBelow(fs, m)   == {i \in 1 .. m - 1 : fs[i].kind = "name"}
CatchesBelow(fs, m) == {i \in 1 .. m - 1 : fs[i].kind = "catch"}

CallInv ==
  LET n == Len(frames)
  IN  /\ call_stack_pointer = Cardinality(NamesBelow(frames, n + 1))
      /\ \A m \in CatchesBelow(frames, n + 1) :
           frames[m].calls = Cardinality(NamesBelow(frames, m))

IsInnermost(fs, b, m) ==
  /\ b \in CatchesBelow(fs, m) \cup {0}
  /\ \A i \in CatchesBelow(fs, m) : i <= b

BufferInv ==
  LET n == Len(frames)
  IN  /\ ct_current_jmp_buf \in Nat
      /\ ~abandoned =>
           /\ IsInnermost(frames, ct_current_jmp_buf, n + 1)
           /\ \A m \in CatchesBelow(frames, n + 1) :
                IsInnermost(frames, frames[m].prev, m)

IInv == StackInv /\ EnvInv /\ CallInv /\ BufferInv


-------------------------------------------------------------------------------
(* What the parts of the invariant become when a frame is added, when some *)
(* are cut off, and when the last one has called what it had to.           *)
LEMMA LikeSame ==
  ASSUME NEW fs, NEW k, Stacked(fs, k), NEW gs, Like(fs, gs)
  PROVE  /\ \A i \in 1 .. Len(fs) :
              /\ gs[i].kind = fs[i].kind /\ Refers(gs[i]) = Refers(fs[i])
              /\ gs[i].kind = "catch" => gs[i].calls = fs[i].calls /\ gs[i].prev = fs[i].prev
              /\ \A b, a : Changes(gs[i], b, a) <=> Changes(fs[i], b, a)
         /\ Len(gs) = Len(fs)
<1>1. \A i \in 1 .. Len(fs) : Shape(fs[i]) /\ Alike(fs[i], gs[i])
  BY DEF Stacked, Like
<1>. SUFFICES ASSUME NEW i \in 1 .. Len(fs)
              PROVE  /\ gs[i].kind = fs[i].kind /\ Refers(gs[i]) = Refers(fs[i])
                     /\ gs[i].kind = "catch" =>
                          gs[i].calls = fs[i].calls /\ gs[i].prev = fs[i].prev
                     /\ \A b, a : Changes(gs[i], b, a) <=> Changes(fs[i], b, a)
  BY DEF Like
<1> DEFINE r == fs[i]
           q == gs[i]
<1>2. /\ q.kind = r.kind
      /\ r.kind \in {"ieval", "closure"} => q.env = r.env
      /\ r.kind = "form" => q.op = r.op /\ q.senv = r.senv /\ q.arg = r.arg
      /\ r.kind = "closure" => q.svenv = r.svenv
      /\ r.kind \in {"name", "catch"} => q.holds = r.holds
      /\ r.kind = "catch" => q.calls = r.calls /\ q.prev = r.prev
  BY <1>1, AlikeFacts
<1>. HIDE DEF r, q
<1>3. Refers(q) = Refers(r)
  BY <1>2 DEF Refers
<1>4. \A b, a : Changes(q, b, a) <=> Changes(r, b, a)
  BY <1>2 DEF Changes
<1>. QED
  BY <1>2, <1>3, <1>4 DEF r, q

LEMMA FunctionsLike ==
  ASSUME NEW fs, NEW k, Stacked(fs, k), NEW gs, Like(fs, gs), Functions(fs)
  PROVE  Functions(gs)
<1>. SUFFICES ASSUME NEW i \in 1 .. Len(fs)
              PROVE  WellFormed(gs[i].todo) /\ (gs[i].kind = "form" => WellFormed(gs[i].arg))
  BY DEF Functions, Like
<1>1. Shape(fs[i]) /\ Alike(fs[i], gs[i])
  BY DEF Stacked, Like
<1>2. /\ gs[i].todo \in {fs[i].todo, NoFun} /\ gs[i].kind = fs[i].kind
      /\ gs[i].kind = "form" => gs[i].arg = fs[i].arg
  BY <1>1, AlikeFacts
<1>. QED
  BY <1>2, Plain DEF Functions

LEMMA EnvironedLike ==
  ASSUME NEW fs, NEW k, Stacked(fs, k), NEW gs, Like(fs, gs), NEW env, Environed(fs, env)
  PROVE  Environed(gs, env)
<1>1. PICK e : Between(fs, e) /\ (Len(fs) > 0 => e[Len(fs)] = env)
  BY DEF Environed
<1>2. Len(gs) = Len(fs) /\ Len(fs) \in Nat
  BY SequenceFacts DEF Like, Stacked
<1>3. /\ \A i \in 1 .. Len(fs) : gs[i].kind = fs[i].kind
      /\ \A i \in 1 .. Len(fs) : Changes(gs[i], e[i - 1], e[i]) <=> Changes(fs[i], e[i - 1], e[i])
  BY LikeSame
<1>4. \A i, j \in 0 .. Len(fs) : i <= j => (Quiet(gs, i, j) <=> Quiet(fs, i, j))
  <2>. SUFFICES ASSUME NEW i \in 0 .. Len(fs), NEW j \in 0 .. Len(fs), i <= j
                PROVE  Quiet(gs, i, j) <=> Quiet(fs, i, j)
    OBVIOUS
  <2>1. \A n \in i + 1 .. j : n \in 1 .. Len(fs)
    BY <1>2
  <2>. QED
    BY <1>3, <2>1 DEF Quiet
<1>5. Between(gs, e)
  BY <1>1, <1>2, <1>3, <1>4 DEF Between
<1>. QED
  BY <1>1, <1>2, <1>5 DEF Environed

LEMMA EnvironedPush ==
  ASSUME NEW fs, IsSequence(fs), NEW env, Environed(fs, env),
         NEW r, NEW after \in Environments,
         Changes(r, IF Len(fs) = 0 THEN after ELSE env, after),
         NEW gs, Extends(gs, fs, r)
  PROVE  Environed(gs, after)
<1> DEFINE n == Len(fs)
<1>1. PICK e : Between(fs, e) /\ (n > 0 => e[n] = env)
  BY DEF Environed
<1> DEFINE d == [i \in 0 .. n + 1 |-> IF i = n + 1 \/ n = 0 THEN after ELSE e[i]]
<1>2. n \in Nat /\ Len(gs) = n + 1 /\ gs[n + 1] = r /\ \A i \in 1 .. n : gs[i] = fs[i]
  BY SequenceFacts DEF Extends
<1>3. /\ d \in [0 .. n + 1 -> Environments] /\ d[n + 1] = after
      /\ n > 0 => \A i \in 0 .. n : d[i] = e[i]
      /\ n = 0 => d[0] = after
  BY <1>1, <1>2 DEF Between
<1>4. \A i \in 1 .. n + 1 : Changes(gs[i], d[i - 1], d[i])
  <2>. SUFFICES ASSUME NEW i \in 1 .. n + 1 PROVE Changes(gs[i], d[i - 1], d[i])
    OBVIOUS
  <2>1. CASE i \in 1 .. n
    <3>1. n > 0 /\ i \in 0 .. n /\ i - 1 \in 0 .. n
      BY <1>2, <2>1
    <3>. QED
      BY <1>1, <1>2, <1>3, <2>1, <3>1 DEF Between
  <2>2. CASE i = n + 1
    <3>1. i - 1 = n /\ n \in 0 .. n
      BY <1>2, <2>2
    <3>2. d[n] = IF n = 0 THEN after ELSE env
      BY <1>1, <1>2, <1>3, <3>1
    <3>. QED
      BY <1>2, <1>3, <2>2, <3>1, <3>2
  <2>. QED
    BY <1>2, <2>1, <2>2
<1>. HIDE DEF d
<1>5. ASSUME NEW i \in 0 .. n + 1, NEW j \in 0 .. n + 1, i <= j, Quiet(gs, i, j)
      PROVE  d[i] = d[j]
  <2>1. CASE i = j
    BY <2>1
  <2>2. CASE i < j /\ j \in 0 .. n
    <3>1. Quiet(fs, i, j)
      BY <1>2, <1>5, <2>2 DEF Quiet
    <3>2. n > 0 /\ i \in 0 .. n
      BY <1>2, <2>2
    <3>3. e[i] = e[j]
      BY <1>1, <1>5, <2>2, <3>1, <3>2 DEF Between
    <3>. QED
      BY <1>3, <2>2, <3>2, <3>3
  <2>3. CASE i < j /\ j = n + 1
    <3>1. n + 1 \in i + 1 .. j /\ i \in 0 .. n /\ n \in 0 .. n /\ i <= n
      BY <1>2, <2>3
    <3>2. r.kind \notin Changing
      BY <1>2, <1>5, <3>1 DEF Quiet
    <3>3. CASE n = 0
      <4>1. i = 0
        BY <3>1, <3>3
      <4>. QED
        BY <1>3, <2>3, <3>3, <4>1
    <3>4. CASE n > 0
      <4>1. \A m \in i + 1 .. n : m \in i + 1 .. j /\ gs[m] = fs[m]
        BY <1>2, <2>3
      <4>2. Quiet(fs, i, n)
        BY <1>5, <4>1 DEF Quiet
      <4>3. e[i] = e[n]
        BY <1>1, <3>1, <4>2 DEF Between
      <4>4. after = env
        BY <3>2, <3>4 DEF Changes
      <4>. QED
        BY <1>1, <1>3, <2>3, <3>1, <3>4, <4>3, <4>4
    <3>. QED
      BY <1>2, <3>3, <3>4
  <2>. QED
    BY <1>2, <1>5, <2>1, <2>2, <2>3
<1>6. Between(gs, d)
  BY <1>2, <1>3, <1>4, <1>5 DEF Between
<1>. QED
  BY <1>2, <1>3, <1>6 DEF Environed

(* The environment to which the function of r goes back. *)
Before(r, env) ==
  IF r.kind = "form" THEN r.senv ELSE IF r.kind = "closure" THEN r.svenv ELSE env

LEMMA EnvironedCut ==
  ASSUME NEW fs, IsSequence(fs), NEW env, Environed(fs, env), NEW m \in 1 .. Len(fs),
         Quiet(fs, m, Len(fs))
  PROVE  /\ Environed(Prefix(fs, m - 1), Before(fs[m], env))
         /\ fs[m].kind = "ieval" /\ m = Len(fs) => fs[m].env = env
<1> DEFINE n == Len(fs)
           gs == Prefix(fs, m - 1)
<1>1. PICK e : Between(fs, e) /\ (n > 0 => e[n] = env)
  BY DEF Environed
<1>2. n \in Nat /\ m - 1 \in 0 .. n /\ m \in 0 .. n /\ n \in 0 .. n /\ n > 0 /\ m <= n
  BY SequenceFacts
<1>3. Len(gs) = m - 1 /\ \A i \in 1 .. m - 1 : gs[i] = fs[i] /\ i \in 1 .. n
  BY <1>2, PrefixFacts
<1>. HIDE DEF gs
<1>4. e[m] = env
  BY <1>1, <1>2 DEF Between
<1>5. Changes(fs[m], e[m - 1], e[m])
  BY <1>1 DEF Between
<1>6. e[m - 1] = Before(fs[m], env)
  BY <1>4, <1>5 DEF Changes, Before, Changing
<1> DEFINE d == [i \in 0 .. m - 1 |-> e[i]]
<1>7. d \in [0 .. m - 1 -> Environments] /\ \A i \in 0 .. m - 1 : d[i] = e[i] /\ i \in 0 .. n
  <2>1. \A i \in 0 .. m - 1 : i \in 0 .. n
    BY <1>2
  <2>2. \A i \in 0 .. n : e[i] \in Environments
    BY <1>1 DEF Between
  <2>. QED
    BY <2>1, <2>2
<1>. HIDE DEF d
<1>8. \A i \in 1 .. m - 1 : Changes(gs[i], d[i - 1], d[i])
  <2>. SUFFICES ASSUME NEW i \in 1 .. m - 1 PROVE Changes(gs[i], d[i - 1], d[i])
    OBVIOUS
  <2>1. i \in 1 .. n /\ i \in 0 .. m - 1 /\ i - 1 \in 0 .. m - 1
    BY <1>2
  <2>. QED
    BY <1>1, <1>3, <1>7, <2>1 DEF Between
<1>9. ASSUME NEW i \in 0 .. m - 1, NEW j \in 0 .. m - 1, i <= j, Quiet(gs, i, j)
      PROVE  d[i] = d[j]
  <2>1. \A l \in i + 1 .. j : gs[l] = fs[l]
    BY <1>2, <1>3
  <2>2. Quiet(fs, i, j)
    BY <1>9, <2>1 DEF Quiet
  <2>. QED
    BY <1>1, <1>7, <1>9, <2>2 DEF Between
<1>10. Between(gs, d)
  BY <1>3, <1>7, <1>8, <1>9 DEF Between
<1>11. d[Len(gs)] = Before(fs[m], env)
  BY <1>2, <1>3, <1>6, <1>7
<1>12. Environed(gs, Before(fs[m], env))
  BY <1>10, <1>11 DEF Environed
<1>13. fs[m].kind = "ieval" => fs[m].env = env
  BY <1>4, <1>5 DEF Changes, Changing
<1>. QED
  BY <1>12, <1>13 DEF gs


LEMMA Numbered ==
  ASSUME NEW n \in Nat, NEW S \in SUBSET (1 .. n)
  PROVE  IsFiniteSet(S) /\ Cardinality(S) \in Nat
<1>1. IsFiniteSet(1 .. n)
  BY FS_Interval
<1>2. IsFiniteSet(S)
  BY <1>1, FS_Subset
<1>. QED
  BY <1>2, FS_CardinalityType

LEMMA OneMore ==
  ASSUME NEW n \in Nat, NEW S \in SUBSET (1 .. n)
  PROVE  Cardinality(S \cup {n + 1}) = Cardinality(S) + 1
<1>1. IsFiniteSet(S) /\ Cardinality(S) \in Nat
  BY Numbered
<1>2. n + 1 \notin S
  OBVIOUS
<1>. QED
  BY <1>1, <1>2, FS_AddElement

LEMMA ReferencedFacts ==
  ASSUME envref \in [Ops -> Int], NEW env \in Environments, NEW k \in Int
  PROVE  /\ Referenced(env, k) \in [Ops -> Int]
         /\ \A o \in Ops : Referenced(env, k)[o] = envref[o] + (IF env = o THEN k ELSE 0)
<1>1. CASE env = Null
  BY <1>1, EvaluatorConstants DEF Referenced
<1>2. CASE env # Null
  BY <1>2 DEF Referenced, Environments
<1>. QED
  BY <1>1, <1>2

LEMMA RefersType ==
  ASSUME NEW r, Shape(r)
  PROVE  Refers(r) \in Environments
BY ShapeFacts DEF Refers, Environments

LEMMA CoveringPush ==
  ASSUME NEW fs, IsSequence(fs), NEW r, NEW gs, Extends(gs, fs, r),
         envref \in [Ops -> Int], Covering(fs, envref), Refers(r) \in Environments
  PROVE  Covering(gs, Referenced(Refers(r), 1))
<1>. SUFFICES ASSUME NEW o \in Ops
              PROVE  Referenced(Refers(r), 1)[o] > Cardinality(RefsIn(gs, o))
  BY DEF Covering
<1> DEFINE n == Len(fs)
           b == Refers(r) = o
<1>1. /\ n \in Nat /\ Len(gs) = n + 1 /\ gs[n + 1] = r
      /\ \A i \in 1 .. n : gs[i] = fs[i]
  BY SequenceFacts DEF Extends
<1>2. RefsIn(gs, o) = IF b THEN RefsIn(fs, o) \cup {n + 1} ELSE RefsIn(fs, o)
  <2>1. \A i \in 1 .. n + 1 : i \in 1 .. n \/ i = n + 1
    BY <1>1
  <2>2. \A i \in 1 .. n : i \in 1 .. n + 1 /\ i # n + 1
    BY <1>1
  <2>3. n + 1 \in 1 .. n + 1
    BY <1>1
  <2>. QED
    BY <1>1, <2>1, <2>2, <2>3 DEF RefsIn
<1>3. RefsIn(fs, o) \in SUBSET (1 .. n)
  BY DEF RefsIn
<1>4. Cardinality(RefsIn(fs, o)) \in Nat
  BY <1>1, <1>3, Numbered
<1>5. Cardinality(RefsIn(gs, o)) = Cardinality(RefsIn(fs, o)) + (IF b THEN 1 ELSE 0)
  <2>1. Cardinality(RefsIn(fs, o) \cup {n + 1}) = Cardinality(RefsIn(fs, o)) + 1
    BY <1>1, <1>3, OneMore
  <2>. QED
    BY <1>2, <1>4, <2>1
<1>6. Referenced(Refers(r), 1)[o] = envref[o] + (IF b THEN 1 ELSE 0)
  BY ReferencedFacts
<1>7. envref[o] > Cardinality(RefsIn(fs, o)) /\ envref[o] \in Int
  BY DEF Covering
<1>. QED
  BY <1>4, <1>5, <1>6, <1>7

LEMMA CoveringLike ==
  ASSUME NEW fs, NEW k, Stacked(fs, k), NEW gs, Like(fs, gs), NEW ref, Covering(fs, ref)
  PROVE  Covering(gs, ref)
<1>1. Len(gs) = Len(fs) /\ \A i \in 1 .. Len(fs) : Refers(gs[i]) = Refers(fs[i])
  BY LikeSame
<1>2. \A o : RefsIn(gs, o) = RefsIn(fs, o)
  BY <1>1 DEF RefsIn
<1>. QED
  BY <1>2 DEF Covering

LEMMA CoveringCut ==
  ASSUME NEW fs, IsSequence(fs), NEW m \in 1 .. Len(fs), NEW ref, Covering(fs, ref),
         NEW new \in [Ops -> Int], ref \in [Ops -> Int],
         \A o \in Ops : new[o] >= ref[o] - (IF Refers(fs[m]) = o THEN 1 ELSE 0)
  PROVE  Covering(Prefix(fs, m - 1), new)
<1> DEFINE n == Len(fs)
           gs == Prefix(fs, m - 1)
<1>. SUFFICES ASSUME NEW o \in Ops PROVE new[o] > Cardinality(RefsIn(gs, o))
  BY DEF Covering
<1>1. n \in Nat /\ m - 1 \in Nat /\ m - 1 <= n
  BY SequenceFacts
<1>2. Len(gs) = m - 1 /\ \A i \in 1 .. m - 1 : gs[i] = fs[i] /\ i \in 1 .. n
  BY <1>1, PrefixFacts
<1>. HIDE DEF gs
<1> DEFINE S == RefsIn(gs, o)
           T == IF Refers(fs[m]) = o THEN S \cup {m - 1 + 1} ELSE S
<1>3. S \in SUBSET (1 .. m - 1)
  BY <1>2 DEF RefsIn
<1>4. T \in SUBSET RefsIn(fs, o)
  BY <1>1, <1>2 DEF RefsIn
<1>5. RefsIn(fs, o) \in SUBSET (1 .. n)
  BY DEF RefsIn
<1>. HIDE DEF S
<1>6. Cardinality(S) \in Nat /\ Cardinality(RefsIn(fs, o)) \in Nat
      /\ IsFiniteSet(RefsIn(fs, o))
  BY <1>1, <1>3, <1>5, Numbered
<1>7. Cardinality(T) = Cardinality(S) + (IF Refers(fs[m]) = o THEN 1 ELSE 0)
  <2>1. Cardinality(S \cup {m - 1 + 1}) = Cardinality(S) + 1
    BY <1>1, <1>3, OneMore
  <2>. QED
    BY <1>6, <2>1
<1>. HIDE DEF T
<1>8. Cardinality(T) <= Cardinality(RefsIn(fs, o))
  BY <1>4, <1>6, FS_Subset
<1>9. ref[o] > Cardinality(RefsIn(fs, o)) /\ ref[o] \in Int /\ new[o] \in Int
  BY DEF Covering
<1>10. Cardinality(T) \in Nat
  BY <1>6, <1>7
<1>11. new[o] > Cardinality(S)
  BY <1>6, <1>7, <1>8, <1>9, <1>10
<1>. QED
  BY <1>11 DEF S

(* The names and the catches below a frame are those of the frames there. *)
LEMMA SameBelow ==
  ASSUME NEW fs, NEW gs, NEW m \in Nat,
         \A i \in 1 .. m - 1 : gs[i].kind = fs[i].kind
  PROVE  NamesBelow(gs, m) = NamesBelow(fs, m) /\ CatchesBelow(gs, m) = CatchesBelow(fs, m)
BY DEF NamesBelow, CatchesBelow

LEMMA NextName ==
  ASSUME NEW fs, NEW n \in Nat
  PROVE  /\ Cardinality(NamesBelow(fs, n + 1)) \in Nat
         /\ Cardinality(NamesBelow(fs, n + 1 + 1)) =
              Cardinality(NamesBelow(fs, n + 1)) + (IF fs[n + 1].kind = "name" THEN 1 ELSE 0)
<1> DEFINE S == NamesBelow(fs, n + 1)
           T == NamesBelow(fs, n + 1 + 1)
           b == fs[n + 1].kind = "name"
<1>1. S \in SUBSET (1 .. n)
  BY DEF NamesBelow
<1>2. \A i : i \in 1 .. n + 1 + 1 - 1 <=> i \in 1 .. n + 1 - 1 \/ i = n + 1
  OBVIOUS
<1>3. T = IF b THEN S \cup {n + 1} ELSE S
  BY <1>2 DEF NamesBelow
<1>. HIDE DEF S, T
<1>4. Cardinality(S) \in Nat
  BY <1>1, Numbered
<1>5. Cardinality(T) = Cardinality(S) + (IF b THEN 1 ELSE 0)
  <2>1. Cardinality(S \cup {n + 1}) = Cardinality(S) + 1
    BY <1>1, OneMore
  <2>. QED
    BY <1>3, <1>4, <2>1
<1>. QED
  BY <1>4, <1>5 DEF S, T


-------------------------------------------------------------------------------
(***************************************************************************)
(* Every step adds a frame, cuts some off, or leaves the frames as they    *)
(* are; an error clears them. Kept(b): the stack is not touched below b.   *)
(***************************************************************************)
Kept(b) ==
  /\ b \in Nat /\ b <= Len(stk) /\ b <= Len(stk')
  /\ \A i \in 1 .. b : stk'[i] = stk[i]

Pushes(fs, r) ==
  LET n == Len(frames)
  IN  /\ Like(frames, fs) /\ frames' = Append(fs, r)
      /\ Shape(r) /\ Heights(r)
      /\ WellFormed(r.todo) /\ (r.kind = "form" => WellFormed(r.arg))
      /\ IsSequence(stk') /\ r.entry = Len(stk) /\ AtRest(r, Len(stk')) /\ Kept(Below(r))
      /\ IF n = 0 THEN First(r) ELSE Frame.floor <= Below(r) /\ Follows(Frame, r)
      /\ current_env' \in Environments
      /\ Changes(r, IF n = 0 THEN current_env' ELSE current_env, current_env')
      /\ envref' = Referenced(Refers(r), 1)
      /\ thrown' = "no" => thrown = "no"
      /\ call_stack_pointer' = call_stack_pointer + (IF r.kind = "name" THEN 1 ELSE 0)
      /\ IF r.kind = "catch"
         THEN /\ r.calls = call_stack_pointer /\ r.prev = ct_current_jmp_buf
              /\ ct_current_jmp_buf' = n + 1
         ELSE ct_current_jmp_buf' = ct_current_jmp_buf
      /\ abandoned' = abandoned

Cuts(m) ==
  LET n == Len(frames)
      r == frames[m]
  IN  /\ m \in 1 .. n /\ frames' = Prefix(frames, m - 1)
      /\ IsSequence(stk') /\ Len(stk') = r.entry /\ Kept(Below(r))
      /\ current_env' = Before(r, current_env)
      /\ envref' \in [Ops -> Int]
      /\ thrown' = "no" =>
           /\ thrown = "no" /\ Quiet(frames, m, n)
           /\ \A o \in Ops : envref'[o] >= envref[o] - (IF Refers(r) = o THEN 1 ELSE 0)
      /\ \/ r.kind = "catch" /\ call_stack_pointer' = r.calls
         \/ /\ m = n
            /\ call_stack_pointer' = call_stack_pointer - (IF r.kind = "name" THEN 1 ELSE 0)
      /\ IF r.kind = "catch" THEN ct_current_jmp_buf' = r.prev
         ELSE m = n /\ ct_current_jmp_buf' = ct_current_jmp_buf
      /\ abandoned' = abandoned

Stays ==
  /\ Like(frames, frames')
  /\ IF Len(frames) = 0 THEN stk' = stk
     ELSE IsSequence(stk') /\ AtRest(Frame, Len(stk')) /\ Kept(Frame.floor)
  /\ UNCHANGED <<current_env, call_stack_pointer, ct_current_jmp_buf, envref, thrown,
                 abandoned>>

Undisturbs ==
  /\ \A i \in DOMAIN frames \cap DOMAIN frames' :
       LET n == frames'[i].floor
       IN  frames[i].floor = n => Len(stk') >= n /\ Prefix(stk', n) = Prefix(stk, n)
  /\ Len(frames') < Len(frames) /\ frames' # <<>> =>
       Len(stk') = frames[Len(frames') + 1].entry

LEMMA KeptPrefix ==
  ASSUME IsSequence(stk), IsSequence(stk'), NEW b, Kept(b), NEW n \in Nat, n <= b
  PROVE  Len(stk') >= n /\ Prefix(stk', n) = Prefix(stk, n)
<1>1. n <= Len(stk) /\ n <= Len(stk') /\ \A i \in 1 .. n : stk'[i] = stk[i]
  BY SequenceFacts DEF Kept
<1>2. Prefix(stk', n) = Prefix(stk, n)
  BY <1>1, SamePrefix
<1>. QED
  BY <1>1, <1>2, SequenceFacts

LEMMA PushStack ==
  ASSUME StackInv, NEW fs, NEW r, Pushes(fs, r)
  PROVE  /\ StackInv' /\ Undisturbs
         /\ Stacked(fs, Len(stk)) /\ Extends(frames', fs, r) /\ Len(fs) = Len(frames)
         /\ IsSequence(fs)
<1>1. /\ Like(frames, fs) /\ frames' = Append(fs, r) /\ IsSequence(fs) /\ Len(fs) = Len(frames)
      /\ Shape(r) /\ Heights(r) /\ IsSequence(stk') /\ r.entry = Len(stk)
      /\ AtRest(r, Len(stk')) /\ Kept(Below(r)) /\ current_env' \in Environments
  BY DEF Pushes, Like
<1>2. /\ Stacked(frames, Len(stk)) /\ Functions(frames) /\ IsSequence(stk)
      /\ IsSequence(frames)
  BY DEF StackInv, Stacked
<1>3. Stacked(fs, Len(stk))
  BY <1>1, <1>2, LikeStacked
<1>4. Functions(fs)
  BY <1>1, <1>2, FunctionsLike
<1>5. Extends(frames', fs, r)
  BY <1>1, AppendFacts
<1>6. Len(frames) \in Nat /\ Len(stk') \in Nat
  BY <1>1, <1>2, SequenceFacts
<1>7. /\ Len(fs) # 0 => /\ Last(fs).floor = Frame.floor /\ Last(fs).kind = Frame.kind
                        /\ \A i \in 1 .. Len(frames) : frames[i].floor \in Nat /\ frames[i].floor <= Frame.floor
  <2>. SUFFICES ASSUME Len(fs) # 0
                PROVE  /\ Last(fs).floor = Frame.floor /\ Last(fs).kind = Frame.kind
                       /\ \A i \in 1 .. Len(frames) :
                            frames[i].floor \in Nat /\ frames[i].floor <= Frame.floor
    OBVIOUS
  <2>1. Len(fs) \in 1 .. Len(frames)
    BY <1>1, <1>6
  <2>2. Alike(Frame, Last(fs)) /\ Shape(Frame)
    BY <1>1, <1>2, <2>1 DEF Like, Frame, Last, Stacked
  <2>3. Len(frames) > 0
    BY <2>1
  <2>4. \A i \in 1 .. Len(frames) :
          frames[i].floor \in Nat /\ frames[i].floor <= Last(frames).floor
    BY <1>2, <2>3, UnderTop
  <2>. QED
    BY <2>2, <2>4, AlikeFacts DEF Frame
<1>8. IF Len(fs) = 0 THEN First(r) ELSE Last(fs).floor <= Below(r) /\ Follows(Last(fs), r)
  BY <1>1, <1>7 DEF Pushes, Follows
<1>9. Stacked(Append(fs, r), Len(stk'))
  BY <1>1, <1>3, <1>6, <1>8, PushStacked
<1>10. Functions(frames')
  <2>. SUFFICES ASSUME NEW i \in 1 .. Len(frames')
                PROVE  /\ WellFormed(frames'[i].todo)
                       /\ frames'[i].kind = "form" => WellFormed(frames'[i].arg)
    BY DEF Functions
  <2>1. CASE i \in 1 .. Len(fs)
    BY <1>4, <1>5, <2>1 DEF Functions, Extends
  <2>2. CASE i = Len(fs) + 1
    BY <1>5, <2>2 DEF Pushes, Extends
  <2>. QED
    BY <1>1, <1>5, <1>6, <2>1, <2>2 DEF Extends
<1>11. StackInv'
  BY <1>1, <1>9, <1>10 DEF StackInv
<1>12. Undisturbs
  <2>1. ASSUME NEW i \in DOMAIN frames \cap DOMAIN frames'
        PROVE  Len(stk') >= frames[i].floor
               /\ Prefix(stk', frames[i].floor) = Prefix(stk, frames[i].floor)
    <3>1. i \in 1 .. Len(frames)
      BY <1>2, SequenceFacts
    <3>2. Len(fs) # 0
      BY <1>1, <3>1
    <3>3. Frame.floor <= Below(r)
      BY <1>1, <3>2 DEF Pushes
    <3>4. frames[i].floor \in Nat /\ frames[i].floor <= Frame.floor /\ Frame.floor \in Nat
      <4>1. Len(frames) \in 1 .. Len(frames)
        BY <1>1, <1>6, <3>2
      <4>. QED
        BY <1>7, <3>1, <3>2, <4>1 DEF Frame, Last
    <3>5. Below(r) \in Nat
      BY <1>1 DEF Kept
    <3>6. frames[i].floor <= Below(r)
      BY <3>3, <3>4, <3>5
    <3>. QED
      BY <1>1, <1>2, <3>4, <3>6, KeptPrefix
  <2>2. ~(Len(frames') < Len(frames))
    BY <1>1, <1>5, <1>6 DEF Extends
  <2>. QED
    BY <2>1, <2>2 DEF Undisturbs
<1>. QED
  BY <1>1, <1>3, <1>5, <1>11, <1>12

LEMMA CutStack ==
  ASSUME StackInv, NEW m, Cuts(m)
  PROVE  StackInv' /\ Undisturbs
<1>1. /\ m \in 1 .. Len(frames) /\ frames' = Prefix(frames, m - 1) /\ IsSequence(stk')
      /\ Len(stk') = frames[m].entry /\ Kept(Below(frames[m]))
      /\ current_env' = Before(frames[m], current_env)
  BY DEF Cuts
<1>2. /\ Stacked(frames, Len(stk)) /\ Functions(frames) /\ IsSequence(stk)
      /\ IsSequence(frames) /\ Shape(frames[m]) /\ Heights(frames[m])
      /\ current_env \in Environments
  BY <1>1 DEF StackInv, Stacked
<1>3. Stacked(frames', Len(stk'))
  BY <1>1, <1>2, CutStacked
<1>4. Len(frames) \in Nat /\ m \in Nat /\ m - 1 \in Nat /\ m - 1 <= Len(frames)
  BY <1>1, <1>2, SequenceFacts
<1>5. /\ IsSequence(frames') /\ Len(frames') = m - 1 /\ DOMAIN frames' = 1 .. m - 1
      /\ \A i \in 1 .. m - 1 : frames'[i] = frames[i] /\ i \in 1 .. Len(frames)
  BY <1>1, <1>2, <1>4, PrefixFacts
<1>6. Functions(frames')
  BY <1>2, <1>5 DEF Functions
<1>7. current_env' \in Environments
  BY <1>1, <1>2, ShapeFacts DEF Before
<1>8. \A i \in 1 .. m - 1 : frames[i].floor \in Nat /\ frames[i].floor <= Below(frames[m])
  <2>. SUFFICES ASSUME NEW i \in 1 .. m - 1
                PROVE  frames[i].floor \in Nat /\ frames[i].floor <= Below(frames[m])
    OBVIOUS
  <2>1. i \in 1 .. Len(frames) /\ i < m
    BY <1>4, <1>5
  <2>. QED
    BY <1>1, <1>2, <2>1, ShapeFacts DEF Stacked
<1>9. Undisturbs
  <2>1. ASSUME NEW i \in DOMAIN frames \cap DOMAIN frames'
        PROVE  Len(stk') >= frames[i].floor
               /\ Prefix(stk', frames[i].floor) = Prefix(stk, frames[i].floor)
    BY <1>1, <1>2, <1>5, <1>8, KeptPrefix
  <2>2. Len(stk') = frames[Len(frames') + 1].entry
    BY <1>1, <1>4, <1>5
  <2>. QED
    BY <2>1, <2>2 DEF Undisturbs
<1>. QED
  BY <1>1, <1>3, <1>6, <1>7, <1>9 DEF StackInv

LEMMA StayStack ==
  ASSUME StackInv, Stays
  PROVE  StackInv' /\ Undisturbs
<1>1. /\ Like(frames, frames') /\ IsSequence(frames') /\ Len(frames') = Len(frames)
      /\ current_env' = current_env
  BY DEF Stays, Like
<1>2. /\ Stacked(frames, Len(stk)) /\ Functions(frames) /\ IsSequence(stk)
      /\ IsSequence(frames) /\ current_env \in Environments
  BY DEF StackInv, Stacked
<1>3. Len(frames) \in Nat /\ DOMAIN frames = 1 .. Len(frames) /\ Len(stk) \in Nat
      /\ DOMAIN frames' = 1 .. Len(frames)
  BY <1>1, <1>2, SequenceFacts
<1>4. Functions(frames')
  BY <1>1, <1>2, FunctionsLike
<1>5. CASE Len(frames) = 0
  <2>1. stk' = stk
    BY <1>5 DEF Stays
  <2>2. Stacked(frames', Len(stk))
    BY <1>1, <1>2, LikeStacked
  <2>3. DOMAIN frames = {}
    BY <1>3, <1>5
  <2>. QED
    BY <1>1, <1>2, <1>4, <2>1, <2>2, <2>3 DEF StackInv, Undisturbs
<1>6. CASE Len(frames) # 0
  <2>1. IsSequence(stk') /\ AtRest(Frame, Len(stk')) /\ Kept(Frame.floor)
    BY <1>6 DEF Stays
  <2>2. Len(stk') \in Nat /\ Len(frames) > 0
    BY <1>3, <1>6, <2>1, SequenceFacts
  <2>3. Stacked(frames, Len(stk'))
    BY <1>2, <2>1, <2>2, HeightStacked DEF Frame
  <2>4. Stacked(frames', Len(stk'))
    BY <1>1, <2>3, LikeStacked
  <2>5. \A i \in 1 .. Len(frames) :
          frames[i].floor \in Nat /\ frames[i].floor <= Last(frames).floor
    BY <1>2, <2>2, UnderTop
  <2>6. Undisturbs
    <3>1. ASSUME NEW i \in DOMAIN frames \cap DOMAIN frames'
          PROVE  Len(stk') >= frames[i].floor
                 /\ Prefix(stk', frames[i].floor) = Prefix(stk, frames[i].floor)
      BY <1>2, <1>3, <2>1, <2>5, KeptPrefix DEF Frame
    <3>2. ~(Len(frames') < Len(frames))
      BY <1>1, <1>3
    <3>. QED
      BY <3>1, <3>2 DEF Undisturbs
  <2>. QED
    BY <1>1, <1>2, <1>4, <2>1, <2>4, <2>6 DEF StackInv
<1>. QED
  BY <1>5, <1>6


LEMMA PushRest ==
  ASSUME IInv, NEW fs, NEW r, Pushes(fs, r)
  PROVE  EnvInv' /\ CallInv' /\ BufferInv'
<1> DEFINE n == Len(frames)
<1>1. /\ Stacked(fs, Len(stk)) /\ Extends(frames', fs, r) /\ Len(fs) = n /\ IsSequence(fs)
  BY PushStack DEF IInv
<1>2. /\ Stacked(frames, Len(stk)) /\ IsSequence(frames) /\ n \in Nat /\ Like(frames, fs)
      /\ current_env \in Environments
  BY SequenceFacts DEF IInv, StackInv, Stacked, Pushes
<1>3. /\ \A i \in 1 .. n : /\ fs[i].kind = frames[i].kind
                           /\ fs[i].kind = "catch" => /\ fs[i].calls = frames[i].calls
                                                      /\ fs[i].prev = frames[i].prev
      /\ Len(fs) = n
  BY <1>2, LikeSame
<1>4. /\ Len(frames') = n + 1 /\ frames'[n + 1] = r
      /\ \A i \in 1 .. n : /\ frames'[i].kind = frames[i].kind
                           /\ frames'[i].kind = "catch" => /\ frames'[i].calls = frames[i].calls
                                                           /\ frames'[i].prev = frames[i].prev
  BY <1>1, <1>3 DEF Extends
<1>5. Refers(r) \in Environments
  <2>1. Shape(r)
    BY DEF Pushes
  <2>. QED
    BY <2>1, RefersType
<1>6. \A m \in 1 .. n + 1 : /\ NamesBelow(frames', m) = NamesBelow(frames, m)
                            /\ CatchesBelow(frames', m) = CatchesBelow(frames, m)
  <2>. SUFFICES ASSUME NEW m \in 1 .. n + 1
                PROVE  /\ NamesBelow(frames', m) = NamesBelow(frames, m)
                       /\ CatchesBelow(frames', m) = CatchesBelow(frames, m)
    OBVIOUS
  <2>1. \A i \in 1 .. m - 1 : frames'[i].kind = frames[i].kind
    <3>1. \A i \in 1 .. m - 1 : i \in 1 .. n
      BY <1>2
    <3>. QED
      BY <1>4, <3>1
  <2>2. m \in Nat
    BY <1>2
  <2>. QED
    BY <2>1, <2>2, SameBelow
<1>7. n + 1 \in 1 .. n + 1
  BY <1>2
<1>8. EnvInv'
  <2>1. envref \in [Ops -> Int] /\ envref' = Referenced(Refers(r), 1)
    BY DEF IInv, EnvInv, Pushes
  <2>2. envref' \in [Ops -> Int]
    BY <1>5, <2>1, ReferencedFacts
  <2>3. ASSUME thrown' = "no"
        PROVE  Environed(frames', current_env') /\ Covering(frames', envref')
    <3>1. Environed(frames, current_env) /\ Covering(frames, envref)
      BY <2>3 DEF IInv, EnvInv, Pushes
    <3>2. Environed(fs, current_env)
      BY <1>2, <3>1, EnvironedLike
    <3>3. Covering(fs, envref)
      BY <1>2, <3>1, CoveringLike
    <3>4. /\ current_env' \in Environments
          /\ Changes(r, IF Len(fs) = 0 THEN current_env' ELSE current_env, current_env')
      BY <1>1 DEF Pushes
    <3>5. Environed(frames', current_env')
      BY <1>1, <1>5, <3>2, <3>4, EnvironedPush
    <3>6. Covering(frames', Referenced(Refers(r), 1))
      BY <1>1, <1>5, <2>1, <3>3, CoveringPush
    <3>. QED
      BY <2>1, <3>5, <3>6
  <2>. QED
    BY <2>2, <2>3 DEF EnvInv
<1>9. CallInv'
  <2>1. call_stack_pointer' = call_stack_pointer + (IF r.kind = "name" THEN 1 ELSE 0)
    BY DEF Pushes
  <2>2. /\ call_stack_pointer = Cardinality(NamesBelow(frames, n + 1))
        /\ \A m \in CatchesBelow(frames, n + 1) :
             frames[m].calls = Cardinality(NamesBelow(frames, m))
    BY DEF IInv, CallInv
  <2>3. Cardinality(NamesBelow(frames', n + 1 + 1)) =
          Cardinality(NamesBelow(frames', n + 1)) + (IF frames'[n + 1].kind = "name" THEN 1 ELSE 0)
    BY <1>2, NextName
  <2>4. call_stack_pointer' = Cardinality(NamesBelow(frames', Len(frames') + 1))
    BY <1>4, <1>6, <1>7, <2>1, <2>2, <2>3
  <2>5. ASSUME NEW m \in CatchesBelow(frames', Len(frames') + 1)
        PROVE  frames'[m].calls = Cardinality(NamesBelow(frames', m))
    <3>1. m \in 1 .. n + 1 /\ frames'[m].kind = "catch"
      BY <1>2, <1>4, <2>5 DEF CatchesBelow
    <3>2. CASE m = n + 1
      <4>1. r.kind = "catch" /\ r.calls = call_stack_pointer
        BY <1>4, <3>1, <3>2 DEF Pushes
      <4>. QED
        BY <1>4, <1>6, <1>7, <2>2, <3>2, <4>1
    <3>3. CASE m \in 1 .. n
      <4>1. m \in CatchesBelow(frames, n + 1)
        BY <1>2, <1>4, <3>1, <3>3 DEF CatchesBelow
      <4>. QED
        BY <1>4, <1>6, <2>2, <3>1, <3>3, <4>1
    <3>. QED
      BY <1>2, <3>1, <3>2, <3>3
  <2>. QED
    BY <2>4, <2>5 DEF CallInv
<1>10. BufferInv'
  <2>1. /\ ct_current_jmp_buf \in Nat /\ abandoned' = abandoned
        /\ IF r.kind = "catch"
           THEN r.prev = ct_current_jmp_buf /\ ct_current_jmp_buf' = n + 1
           ELSE ct_current_jmp_buf' = ct_current_jmp_buf
    BY DEF IInv, BufferInv, Pushes
  <2>2. ct_current_jmp_buf' \in Nat
    BY <1>2, <2>1
  <2>3. ASSUME ~abandoned'
        PROVE  /\ IsInnermost(frames', ct_current_jmp_buf', Len(frames') + 1)
               /\ \A m \in CatchesBelow(frames', Len(frames') + 1) :
                    IsInnermost(frames', frames'[m].prev, m)
    <3>1. /\ IsInnermost(frames, ct_current_jmp_buf, n + 1)
          /\ \A m \in CatchesBelow(frames, n + 1) : IsInnermost(frames, frames[m].prev, m)
      BY <2>1, <2>3 DEF IInv, BufferInv
    <3>2. CatchesBelow(frames', n + 1 + 1) =
            IF r.kind = "catch" THEN CatchesBelow(frames, n + 1) \cup {n + 1}
            ELSE CatchesBelow(frames, n + 1)
      <4>1. \A i : i \in 1 .. n + 1 + 1 - 1 <=> i \in 1 .. n + 1 - 1 \/ i = n + 1
        BY <1>2
      <4>2. CatchesBelow(frames', n + 1) = CatchesBelow(frames, n + 1)
        BY <1>6, <1>7
      <4>. QED
        BY <1>4, <4>1, <4>2 DEF CatchesBelow
    <3>3. \A i \in CatchesBelow(frames, n + 1) : i \in 1 .. n /\ i <= n + 1
      BY <1>2 DEF CatchesBelow
    <3>4. IsInnermost(frames', ct_current_jmp_buf', n + 1 + 1)
      <4>1. CASE r.kind = "catch"
        BY <1>2, <2>1, <3>2, <3>3, <4>1 DEF IsInnermost
      <4>2. CASE r.kind # "catch"
        BY <2>1, <3>1, <3>2, <4>2 DEF IsInnermost
      <4>. QED
        BY <4>1, <4>2
    <3>5. ASSUME NEW m \in CatchesBelow(frames', n + 1 + 1)
          PROVE  IsInnermost(frames', frames'[m].prev, m)
      <4>1. CASE m = n + 1 /\ r.kind = "catch"
        <5>1. CatchesBelow(frames', m) = CatchesBelow(frames, m)
          BY <1>6, <1>7, <4>1
        <5>. QED
          BY <1>4, <2>1, <3>1, <4>1, <5>1 DEF IsInnermost
      <4>2. CASE m \in CatchesBelow(frames, n + 1)
        <5>1. m \in 1 .. n /\ frames[m].kind = "catch"
          BY <3>3, <4>2 DEF CatchesBelow
        <5>2. m \in 1 .. n + 1
          BY <1>2, <5>1
        <5>3. CatchesBelow(frames', m) = CatchesBelow(frames, m) /\ frames'[m].prev = frames[m].prev
          BY <1>4, <1>6, <5>1, <5>2
        <5>. QED
          BY <3>1, <4>2, <5>3 DEF IsInnermost
      <4>. QED
        BY <3>2, <3>5, <4>1, <4>2
    <3>. QED
      BY <1>4, <3>4, <3>5
  <2>. QED
    BY <2>2, <2>3 DEF BufferInv
<1>. QED
  BY <1>8, <1>9, <1>10

LEMMA CutRest ==
  ASSUME IInv, NEW m, Cuts(m)
  PROVE  EnvInv' /\ CallInv' /\ BufferInv'
<1> DEFINE n == Len(frames)
           r == frames[m]
<1>1. /\ m \in 1 .. n /\ frames' = Prefix(frames, m - 1)
      /\ envref' \in [Ops -> Int] /\ current_env' = Before(r, current_env)
  BY DEF Cuts
<1>2. IsSequence(frames) /\ n \in Nat /\ m \in Nat /\ m - 1 \in Nat /\ m - 1 <= n
  BY <1>1, SequenceFacts DEF IInv, StackInv, Stacked
<1>3. /\ Len(frames') = m - 1
      /\ \A i \in 1 .. m - 1 : frames'[i] = frames[i] /\ i \in 1 .. n
  BY <1>1, <1>2, PrefixFacts
<1>4. \A i \in 1 .. m : /\ NamesBelow(frames', i) = NamesBelow(frames, i)
                        /\ CatchesBelow(frames', i) = CatchesBelow(frames, i)
  <2>. SUFFICES ASSUME NEW i \in 1 .. m
                PROVE  /\ NamesBelow(frames', i) = NamesBelow(frames, i)
                       /\ CatchesBelow(frames', i) = CatchesBelow(frames, i)
    OBVIOUS
  <2>1. \A j \in 1 .. i - 1 : frames'[j].kind = frames[j].kind
    <3>1. \A j \in 1 .. i - 1 : j \in 1 .. m - 1
      BY <1>2
    <3>. QED
      BY <1>3, <3>1
  <2>2. i \in Nat
    BY <1>2
  <2>. QED
    BY <2>1, <2>2, SameBelow
<1>5. Len(frames') + 1 = m /\ m \in 1 .. m
  BY <1>1, <1>2, <1>3
<1>6. EnvInv'
  <2>1. ASSUME thrown' = "no"
        PROVE  Environed(frames', current_env') /\ Covering(frames', envref')
    <3>1. /\ Environed(frames, current_env) /\ Covering(frames, envref)
          /\ envref \in [Ops -> Int] /\ Quiet(frames, m, n)
          /\ \A o \in Ops : envref'[o] >= envref[o] - (IF Refers(r) = o THEN 1 ELSE 0)
      BY <2>1 DEF IInv, EnvInv, Cuts
    <3>2. Environed(Prefix(frames, m - 1), Before(frames[m], current_env))
      BY <1>1, <1>2, <3>1, EnvironedCut
    <3>3. Covering(Prefix(frames, m - 1), envref')
      BY <1>1, <1>2, <3>1, CoveringCut
    <3>. QED
      BY <1>1, <3>2, <3>3
  <2>. QED
    BY <1>1, <2>1 DEF EnvInv
<1>7. CallInv'
  <2>1. /\ call_stack_pointer = Cardinality(NamesBelow(frames, n + 1))
        /\ \A i \in CatchesBelow(frames, n + 1) :
             frames[i].calls = Cardinality(NamesBelow(frames, i))
    BY DEF IInv, CallInv
  <2>2. call_stack_pointer' = Cardinality(NamesBelow(frames, m))
    <3>1. CASE r.kind = "catch" /\ call_stack_pointer' = r.calls
      <4>1. m \in CatchesBelow(frames, n + 1)
        BY <1>1, <1>2, <3>1 DEF CatchesBelow
      <4>. QED
        BY <2>1, <3>1, <4>1
    <3>2. CASE /\ m = n
               /\ call_stack_pointer' =
                    call_stack_pointer - (IF r.kind = "name" THEN 1 ELSE 0)
      <4>1. m - 1 + 1 = m /\ m - 1 + 1 + 1 = n + 1
        BY <1>2, <3>2
      <4>2. /\ Cardinality(NamesBelow(frames, m - 1 + 1)) \in Nat
            /\ Cardinality(NamesBelow(frames, m - 1 + 1 + 1)) =
                 Cardinality(NamesBelow(frames, m - 1 + 1))
                   + (IF frames[m - 1 + 1].kind = "name" THEN 1 ELSE 0)
        BY <1>2, NextName
      <4>3. /\ Cardinality(NamesBelow(frames, m)) \in Nat
            /\ call_stack_pointer =
                 Cardinality(NamesBelow(frames, m)) + (IF r.kind = "name" THEN 1 ELSE 0)
        BY <2>1, <4>1, <4>2
      <4>. QED
        BY <3>2, <4>3
    <3>. QED
      BY <3>1, <3>2 DEF Cuts
  <2>3. ASSUME NEW i \in CatchesBelow(frames', m)
        PROVE  frames'[i].calls = Cardinality(NamesBelow(frames', i))
    <3>1. i \in 1 .. m - 1 /\ frames'[i].kind = "catch"
      BY <2>3 DEF CatchesBelow
    <3>2. i \in 1 .. m /\ i \in 1 .. n
      BY <1>2, <1>3, <3>1
    <3>3. i \in CatchesBelow(frames, n + 1)
      BY <1>2, <1>3, <3>1, <3>2 DEF CatchesBelow
    <3>. QED
      BY <1>3, <1>4, <2>1, <3>1, <3>2, <3>3
  <2>. QED
    BY <1>4, <1>5, <2>2, <2>3 DEF CallInv
<1>8. BufferInv'
  <2>1. ct_current_jmp_buf \in Nat /\ abandoned' = abandoned /\ Shape(r)
    BY <1>1 DEF IInv, BufferInv, Cuts, StackInv, Stacked
  <2>2. \/ r.kind = "catch" /\ ct_current_jmp_buf' = r.prev
        \/ r.kind # "catch" /\ m = n /\ ct_current_jmp_buf' = ct_current_jmp_buf
    BY DEF Cuts
  <2>3. ct_current_jmp_buf' \in Nat
    BY <2>1, <2>2, ShapeFacts
  <2>4. ASSUME ~abandoned'
        PROVE  /\ IsInnermost(frames', ct_current_jmp_buf', m)
               /\ \A i \in CatchesBelow(frames', m) : IsInnermost(frames', frames'[i].prev, i)
    <3>1. /\ IsInnermost(frames, ct_current_jmp_buf, n + 1)
          /\ \A i \in CatchesBelow(frames, n + 1) : IsInnermost(frames, frames[i].prev, i)
      BY <2>1, <2>4 DEF IInv, BufferInv
    <3>2. IsInnermost(frames, ct_current_jmp_buf', m)
      <4>1. CASE r.kind = "catch" /\ ct_current_jmp_buf' = r.prev
        <5>1. m \in CatchesBelow(frames, n + 1)
          BY <1>1, <1>2, <4>1 DEF CatchesBelow
        <5>. QED
          BY <3>1, <4>1, <5>1
      <4>2. CASE r.kind # "catch" /\ m = n /\ ct_current_jmp_buf' = ct_current_jmp_buf
        <5>1. \A i \in 1 .. n + 1 - 1 : i \in 1 .. m - 1 \/ i = m
          BY <1>2, <4>2
        <5>2. \A i \in 1 .. m - 1 : i \in 1 .. n + 1 - 1
          BY <1>2, <4>2
        <5>3. CatchesBelow(frames, n + 1) = CatchesBelow(frames, m)
          BY <4>2, <5>1, <5>2 DEF CatchesBelow
        <5>. QED
          BY <3>1, <4>2, <5>3 DEF IsInnermost
      <4>. QED
        BY <2>2, <4>1, <4>2
    <3>3. ASSUME NEW i \in CatchesBelow(frames', m)
          PROVE  IsInnermost(frames', frames'[i].prev, i)
      <4>1. i \in 1 .. m - 1 /\ frames'[i].kind = "catch"
        BY <3>3 DEF CatchesBelow
      <4>2. i \in 1 .. m /\ i \in 1 .. n
        BY <1>2, <1>3, <4>1
      <4>3. i \in CatchesBelow(frames, n + 1)
        BY <1>2, <1>3, <4>1, <4>2 DEF CatchesBelow
      <4>4. IsInnermost(frames, frames[i].prev, i)
        BY <3>1, <4>3
      <4>. QED
        BY <1>3, <1>4, <4>1, <4>2, <4>4 DEF IsInnermost
    <3>. QED
      BY <1>4, <1>5, <3>2, <3>3 DEF IsInnermost
  <2>. QED
    BY <1>5, <2>3, <2>4 DEF BufferInv
<1>. QED
  BY <1>6, <1>7, <1>8

LEMMA StayRest ==
  ASSUME IInv, Stays
  PROVE  EnvInv' /\ CallInv' /\ BufferInv'
<1> DEFINE n == Len(frames)
<1>1. /\ Like(frames, frames')
      /\ UNCHANGED <<current_env, call_stack_pointer, ct_current_jmp_buf, envref, thrown,
                     abandoned>>
  BY DEF Stays
<1>2. Stacked(frames, Len(stk)) /\ IsSequence(frames) /\ n \in Nat
  BY SequenceFacts DEF IInv, StackInv, Stacked
<1>3. /\ Len(frames') = n
      /\ \A i \in 1 .. n : /\ frames'[i].kind = frames[i].kind
                           /\ frames'[i].kind = "catch" => /\ frames'[i].calls = frames[i].calls
                                                           /\ frames'[i].prev = frames[i].prev
  BY <1>1, <1>2, LikeSame
<1>4. EnvInv'
  <2>1. ASSUME thrown' = "no"
        PROVE  Environed(frames', current_env') /\ Covering(frames', envref')
    <3>1. Environed(frames, current_env) /\ Covering(frames, envref)
      BY <1>1, <2>1 DEF IInv, EnvInv
    <3>2. Environed(frames', current_env)
      BY <1>1, <1>2, <3>1, EnvironedLike
    <3>3. Covering(frames', envref)
      BY <1>1, <1>2, <3>1, CoveringLike
    <3>. QED
      BY <1>1, <3>2, <3>3
  <2>. QED
    BY <1>1, <2>1 DEF IInv, EnvInv
<1>5. \A m \in 1 .. n + 1 : /\ NamesBelow(frames', m) = NamesBelow(frames, m)
                            /\ CatchesBelow(frames', m) = CatchesBelow(frames, m)
  <2>. SUFFICES ASSUME NEW m \in 1 .. n + 1
                PROVE  /\ NamesBelow(frames', m) = NamesBelow(frames, m)
                       /\ CatchesBelow(frames', m) = CatchesBelow(frames, m)
    OBVIOUS
  <2>1. \A i \in 1 .. m - 1 : frames'[i].kind = frames[i].kind
    <3>1. \A i \in 1 .. m - 1 : i \in 1 .. n
      BY <1>2
    <3>. QED
      BY <1>3, <3>1
  <2>2. m \in Nat
    BY <1>2
  <2>. QED
    BY <2>1, <2>2, SameBelow
<1>6. /\ n + 1 \in 1 .. n + 1
      /\ \A m \in CatchesBelow(frames, n + 1) :
           m \in 1 .. n + 1 /\ frames'[m].calls = frames[m].calls /\ frames'[m].prev = frames[m].prev
  <2>1. \A m \in 1 .. n + 1 - 1 : m \in 1 .. n /\ m \in 1 .. n + 1
    BY <1>2
  <2>. QED
    BY <1>2, <1>3, <2>1 DEF CatchesBelow
<1>7. CallInv'
  BY <1>1, <1>3, <1>5, <1>6 DEF IInv, CallInv
<1>8. BufferInv'
  BY <1>1, <1>3, <1>5, <1>6 DEF IInv, BufferInv, IsInnermost
<1>. QED
  BY <1>4, <1>7, <1>8


-------------------------------------------------------------------------------
(* apply *)

LEMMA Running1 ==
  ASSUME StackInv, Running
  PROVE  /\ Len(frames) \in Nat /\ Len(frames) > 0 /\ Len(frames) \in 1 .. Len(frames)
         /\ AtRest(Frame, Len(stk)) /\ Shape(Frame) /\ Heights(Frame)
         /\ Len(stk) \in Nat /\ Frame.floor \in Nat /\ Frame.floor <= Len(stk)
         /\ WellFormed(Frame.todo)
<1>1. IsSequence(frames) /\ Stacked(frames, Len(stk)) /\ frames # <<>> /\ Functions(frames)
  BY DEF StackInv, Stacked, Running
<1>2. PICK S : frames \in Seq(S)
  BY <1>1 DEF IsSequence
<1>3. Len(frames) \in Nat \ {0}
  BY <1>1, <1>2, EmptySeq
<1>4. Len(frames) > 0
  BY <1>3
<1>5. /\ AtRest(Last(frames), Len(stk)) /\ Shape(Last(frames)) /\ Heights(Last(frames))
      /\ Len(stk) \in Nat /\ Last(frames).floor <= Len(stk)
  BY <1>1, <1>4, UnderTop
<1>6. Last(frames).floor \in Nat
  BY <1>5, ShapeFacts
<1>7. Len(frames) \in 1 .. Len(frames)
  BY <1>3
<1>8. WellFormed(Last(frames).todo)
  BY <1>1, <1>7 DEF Functions, Last
<1>. QED
  BY <1>3, <1>4, <1>5, <1>6, <1>7, <1>8 DEF Frame

LEMMA CallsType ==
  ASSUME IInv
  PROVE  call_stack_pointer \in Nat
<1>1. IsSequence(frames) /\ call_stack_pointer = Cardinality(NamesBelow(frames, Len(frames) + 1))
  BY DEF IInv, CallInv, StackInv, Stacked
<1>. QED
  BY <1>1, SequenceFacts, NextName

LEMMA ParamWellFormed ==
  ASSUME StackInv, NEW t, ParamValue(t) # NoFun
  PROVE  WellFormed(ParamValue(t))
<1> DEFINE at == {i \in DOMAIN frames :
                    frames[i].kind = "form" /\ frames[i].op = t /\ frames[i].floor = sp[t]}
<1>1. at # {} /\ ParamValue(t) = frames[CHOOSE i \in at : TRUE].arg
  BY DEF ParamValue
<1>2. (CHOOSE i \in at : TRUE) \in at
  BY <1>1
<1>3. IsSequence(frames) /\ Functions(frames)
  BY DEF StackInv, Stacked
<1>4. DOMAIN frames = 1 .. Len(frames)
  BY <1>3, SequenceFacts
<1>. QED
  BY <1>1, <1>2, <1>3, <1>4 DEF Functions

LEMMA PointersFacts ==
  ASSUME NEW o \in Ops
  PROVE  IsSequence(StackPointers(o)) /\ Len(StackPointers(o)) = Len(Env[o])
<1>1. Len(Env[o]) \in Nat /\ IsSequence(Env[o])
  BY EnvLength
<1>2. DOMAIN Env[o] = 1 .. Len(Env[o])
  BY <1>1, SequenceFacts
<1> DEFINE S == {sp[Env[o][i]] : i \in 1 .. Len(Env[o])}
<1>3. StackPointers(o) \in [1 .. Len(Env[o]) -> S]
  BY <1>2 DEF StackPointers
<1>4. StackPointers(o) \in Seq(S)
  BY <1>1, <1>3, SeqDef
<1>. HIDE DEF S
<1>5. DOMAIN StackPointers(o) = 1 .. Len(Env[o])
  BY <1>3
<1>6. Len(StackPointers(o)) \in Nat /\ DOMAIN StackPointers(o) = 1 .. Len(StackPointers(o))
  BY <1>4, LenProperties
<1>7. Len(StackPointers(o)) = Len(Env[o])
  <2>1. \A a, b \in Nat : 1 .. a = 1 .. b => a = b
    <3>. SUFFICES ASSUME NEW a \in Nat, NEW b \in Nat, 1 .. a = 1 .. b PROVE a = b
      OBVIOUS
    <3>1. a > 0 => a \in 1 .. b
      OBVIOUS
    <3>2. b > 0 => b \in 1 .. a
      OBVIOUS
    <3>. QED
      BY <3>1, <3>2
  <2>. QED
    BY <1>1, <1>5, <1>6, <2>1
<1>. QED
  BY <1>4, <1>7 DEF IsSequence

LEMMA NoReference ==
  Referenced(Null, 1) = envref
BY DEF Referenced

(* The argument is on the stack of the function that calls. *)
Calls(fs) == Running /\ Len(stk) > Frame.floor /\ Like(frames, fs)

LEMMA NamePushes ==
  ASSUME IInv, NEW fs, Calls(fs), NEW f, WellFormed(f), NEW held \in Environments,
         EnterName(f, held, fs), envref' = Referenced(held, 1),
         UNCHANGED <<ct_current_jmp_buf, thrown, abandoned>>
  PROVE  \E r : Pushes(fs, r)
<1> DEFINE r == [kind |-> "name", entry |-> Len(stk), floor |-> Len(stk),
                 todo |-> f, holds |-> held]
           k == Len(stk)
<1>1. /\ k \in Nat /\ Frame.floor \in Nat /\ k > Frame.floor /\ Len(frames) > 0
      /\ IsSequence(stk) /\ current_env \in Environments /\ Like(frames, fs)
      /\ Len(frames) \in Nat /\ call_stack_pointer \in Nat
  BY Running1, CallsType DEF Calls, IInv, StackInv
<1>2. frames' = Append(fs, r) /\ stk' = Append(stk, Val)
  BY DEF EnterName
<1>3. Extends(stk', stk, Val)
  BY <1>1, <1>2, AppendFacts
<1>4. r \in [kind : {"name"}, entry : Nat, floor : Nat, todo : {r.todo}, holds : Environments]
  BY <1>1
<1>5. Shape(r)
  BY <1>4 DEF Shape
<1>6. Heights(r) /\ Below(r) = k - 1 /\ AtRest(r, Len(stk')) /\ Refers(r) = held
  BY <1>1, <1>3 DEF Heights, Below, AtRest, Extends, Refers
<1>7. Kept(Below(r))
  BY <1>1, <1>3, <1>6 DEF Kept, Extends
<1>8. Frame.floor <= Below(r)
  BY <1>1, <1>6
<1>9. Follows(Frame, r) /\ r.kind = "name" /\ r.todo = f /\ r.entry = k
  BY DEF Follows
<1>10. /\ current_env' = current_env
       /\ call_stack_pointer' = call_stack_pointer + 1
  BY DEF EnterName
<1>11. Changes(r, current_env, current_env)
  BY <1>9 DEF Changes, Changing
<1>. HIDE DEF r
<1>. QED
  BY <1>1, <1>2, <1>3, <1>5, <1>6, <1>7, <1>8, <1>9, <1>10, <1>11 DEF Pushes, Extends

LEMMA ClosurePushes ==
  ASSUME IInv, NEW fs, Calls(fs), NEW f, WellFormed(f), f.is = "closure",
         EnterClosure(f, fs),
         UNCHANGED <<ct_current_jmp_buf, envref, thrown, abandoned>>
  PROVE  \E r : Pushes(fs, r)
<1> DEFINE n == Len(stk) - 1
           o == f.env
           p == Prefix(stk, n)
           q == p \o StackPointers(o)
           r == [kind |-> "closure", entry |-> n + 1, floor |-> n,
                 todo |-> f.of, env |-> o, svenv |-> current_env]
<1>1. /\ Len(stk) \in Nat /\ Frame.floor \in Nat /\ Len(stk) > Frame.floor /\ Len(frames) > 0
      /\ IsSequence(stk) /\ current_env \in Environments /\ Like(frames, fs)
      /\ Len(frames) \in Nat /\ call_stack_pointer \in Nat
  BY Running1, CallsType DEF Calls, IInv, StackInv
<1>2. o \in Ops /\ WellFormed(f.of)
  BY Parts
<1>3. frames' = Append(fs, r) /\ stk' = Append(q, Val) /\ current_env' = o
      /\ call_stack_pointer' = call_stack_pointer
  BY DEF EnterClosure
<1>4. n \in Nat /\ n <= Len(stk) /\ Frame.floor <= n /\ n + 1 = Len(stk)
  BY <1>1
<1>5. IsSequence(p) /\ Len(p) = n /\ \A i \in 1 .. n : p[i] = stk[i]
  BY <1>1, <1>4, PrefixFacts
<1>6. IsSequence(StackPointers(o)) /\ Len(StackPointers(o)) = Len(Env[o]) /\ Len(Env[o]) \in Nat
  BY <1>2, PointersFacts, EnvLength
<1>7. Joins(q, p, StackPointers(o))
  BY <1>5, <1>6, ConcatFacts
<1>8. Extends(stk', q, Val)
  BY <1>3, <1>7, AppendFacts DEF Joins
<1>9. /\ Len(stk') = n + Len(Env[o]) + 1 /\ IsSequence(stk') /\ n <= Len(stk')
      /\ \A i \in 1 .. n : stk'[i] = stk[i]
  <2>. HIDE DEF n, p, q
  <2>1. Len(q) = n + Len(Env[o])
    BY <1>5, <1>6, <1>7 DEF Joins
  <2>2. \A i \in 1 .. n : i \in 1 .. Len(q) /\ i \in 1 .. Len(p)
    BY <1>4, <1>5, <1>6, <2>1
  <2>3. \A i \in 1 .. n : stk'[i] = stk[i]
    BY <1>5, <1>7, <1>8, <2>2 DEF Extends, Joins
  <2>. QED
    BY <1>4, <1>6, <1>8, <2>1, <2>3 DEF Extends
<1>. HIDE DEF n, p, q, o
<1>10. r \in [kind : {"closure"}, entry : Nat, floor : Nat, todo : {r.todo}, env : Ops,
              svenv : Environments]
  BY <1>1, <1>2, <1>4
<1>11. Shape(r)
  BY <1>10 DEF Shape
<1>12. /\ r.kind = "closure" /\ r.todo = f.of /\ r.entry = n + 1 /\ r.floor = n
       /\ r.env = o /\ r.svenv = current_env
  OBVIOUS
<1>. HIDE DEF r
<1>13. Heights(r) /\ Below(r) = n /\ AtRest(r, Len(stk')) /\ Refers(r) = Null
  BY <1>4, <1>6, <1>9, <1>12 DEF Heights, Below, AtRest, Refers
<1>14. Kept(Below(r))
  BY <1>4, <1>9, <1>13 DEF Kept
<1>15. Follows(Frame, r) /\ Changes(r, current_env, o)
  BY <1>12 DEF Follows, Changes, Changing
<1>16. envref' = Referenced(Refers(r), 1) /\ o \in Environments
  BY <1>2, <1>13, NoReference DEF Environments
<1>. QED
  BY <1>1, <1>2, <1>3, <1>4, <1>9, <1>11, <1>12, <1>13, <1>14, <1>15, <1>16 DEF Pushes


LEMMA FormPushes ==
  ASSUME IInv, NEW fs, Calls(fs), NEW f, WellFormed(f), f.is = "form",
         EnterForm(f, fs),
         UNCHANGED <<ct_current_jmp_buf, envref, thrown, abandoned>>
  PROVE  \E r : Pushes(fs, r)
<1> DEFINE n == Len(stk) - 1
           o == f.op
           p == Prefix(stk, n)
           room == <<Val, sp[o], Val>>
           arg == IF o \in Tr THEN <<Val>> ELSE <<>>
           links == [t \in Tables(o) |-> IF t = o THEN n + 3 ELSE f.links[t]]
           r == [kind |-> "form", entry |-> n + 1, floor |-> n + 3, op |-> o,
                 arg |-> f.arg, senv |-> current_env, todo |-> NoFun, links |-> links]
<1>1. /\ Len(stk) \in Nat /\ Frame.floor \in Nat /\ Len(stk) > Frame.floor /\ Len(frames) > 0
      /\ IsSequence(stk) /\ current_env \in Environments /\ Like(frames, fs)
      /\ Len(frames) \in Nat /\ call_stack_pointer \in Nat
  BY Running1, CallsType DEF Calls, IInv, StackInv
<1>2. o \in Ops /\ WellFormed(f.arg)
  BY Parts
<1>3. frames' = Append(fs, r) /\ stk' = (p \o room) \o arg /\ current_env' = o
      /\ call_stack_pointer' = call_stack_pointer
  BY DEF EnterForm
<1>4. n \in Nat /\ n <= Len(stk) /\ Frame.floor <= n /\ n + 1 = Len(stk)
  BY <1>1
<1>5. IsSequence(p) /\ Len(p) = n /\ \A i \in 1 .. n : p[i] = stk[i]
  BY <1>1, <1>4, PrefixFacts
<1>6. IsSequence(room) /\ Len(room) = 3
  <2>1. room \in Seq({Val, sp[o]})
    OBVIOUS
  <2>. QED
    BY <2>1 DEF IsSequence
<1>7. IsSequence(arg) /\ Len(arg) \in {0, 1}
  <2>1. CASE o \in Tr
    <3>1. arg = <<Val>> /\ <<Val>> \in Seq({Val}) /\ Len(<<Val>>) = 1
      BY <2>1
    <3>. QED
      BY <3>1 DEF IsSequence
  <2>2. CASE o \notin Tr
    <3>1. arg = <<>> /\ <<>> \in Seq({Val}) /\ Len(<<>>) = 0
      BY <2>2, EmptySeq
    <3>. QED
      BY <3>1 DEF IsSequence
  <2>. QED
    BY <2>1, <2>2
<1>. HIDE DEF room, arg, links
<1>8. Joins(p \o room, p, room)
  BY <1>5, <1>6, ConcatFacts
<1>9. IsSequence(p \o room)
  BY <1>8 DEF Joins
<1>10. Joins(stk', p \o room, arg)
  BY <1>3, <1>7, <1>9, ConcatFacts
<1>11. /\ Len(stk') \in {n + 3, n + 4} /\ IsSequence(stk') /\ n <= Len(stk')
       /\ \A i \in 1 .. n : stk'[i] = stk[i]
  <2>. HIDE DEF n, p
  <2>1. Len(p \o room) = n + 3
    BY <1>5, <1>6, <1>8 DEF Joins
  <2>2. \A i \in 1 .. n : i \in 1 .. Len(p \o room) /\ i \in 1 .. Len(p)
    BY <1>4, <1>5, <2>1
  <2>3. \A i \in 1 .. n : stk'[i] = stk[i]
    BY <1>5, <1>8, <1>10, <2>2 DEF Joins
  <2>. QED
    BY <1>4, <1>7, <1>10, <2>1, <2>3 DEF Joins
<1>. HIDE DEF n, p, o
<1>12. r \in [kind : {"form"}, entry : Nat, floor : Nat, op : Ops, arg : {r.arg},
              senv : Environments, todo : {NoFun}, links : {r.links}]
  BY <1>1, <1>2, <1>4
<1>13. Shape(r)
  BY <1>12 DEF Shape
<1>14. /\ r.kind = "form" /\ r.todo = NoFun /\ r.entry = n + 1 /\ r.floor = n + 3
       /\ r.op = o /\ r.senv = current_env /\ r.arg = f.arg
  OBVIOUS
<1>. HIDE DEF r
<1>15. Heights(r) /\ Below(r) = n /\ AtRest(r, Len(stk')) /\ Refers(r) = Null
  BY <1>4, <1>11, <1>14 DEF Heights, Below, AtRest, Refers
<1>16. Kept(Below(r))
  BY <1>4, <1>11, <1>15 DEF Kept
<1>17. Follows(Frame, r) /\ Changes(r, current_env, o)
  BY <1>14 DEF Follows, Changes, Changing
<1>18. envref' = Referenced(Refers(r), 1) /\ o \in Environments /\ WellFormed(r.todo)
  BY <1>2, <1>14, <1>15, NoReference, Plain DEF Environments
<1>. QED
  BY <1>1, <1>2, <1>3, <1>4, <1>11, <1>13, <1>14, <1>15, <1>16, <1>17, <1>18 DEF Pushes

LEMMA PushStep ==
  ASSUME IInv, NEW fs, NEW r, Pushes(fs, r)
  PROVE  IInv' /\ Undisturbs
BY PushStack, PushRest DEF IInv

LEMMA CutStep ==
  ASSUME IInv, NEW m, Cuts(m)
  PROVE  IInv' /\ Undisturbs
BY CutStack, CutRest DEF IInv

LEMMA StayStep ==
  ASSUME IInv, Stays
  PROVE  IInv' /\ Undisturbs
BY StayStack, StayRest DEF IInv

LEMMA EnterStep ==
  ASSUME IInv, NEW fs, Calls(fs), NEW f, WellFormed(f), Enter(f, fs)
  PROVE  IInv' /\ Undisturbs
<1>1. UNCHANGED <<ct_current_jmp_buf, envref, thrown, abandoned>> /\ envref' = Referenced(Null, 1)
  BY NoReference DEF Enter, history
<1>2. Null \in Environments
  BY DEF Environments
<1>3. CASE f.is = "basic" /\ EnterBasic(fs)
  <2>1. /\ Len(frames) > 0 /\ AtRest(Frame, Len(stk)) /\ Frame.floor <= Len(stk)
        /\ Frame.floor \in Nat /\ IsSequence(stk) /\ Like(frames, fs) /\ Len(stk) \in Nat
    BY Running1 DEF Calls, IInv, StackInv
  <2>2. Kept(Frame.floor)
    BY <1>3, <2>1 DEF EnterBasic, Kept
  <2>3. Stays
    BY <1>1, <1>3, <2>1, <2>2 DEF EnterBasic, Stays
  <2>. QED
    BY <2>3, StayStep
<1>4. CASE f.is = "name" /\ EnterName(f.of, Null, fs)
  <2>1. WellFormed(f.of)
    BY <1>4, Parts
  <2>2. \E r : Pushes(fs, r)
    BY <1>1, <1>2, <1>4, <2>1, NamePushes
  <2>. QED
    BY <2>2, PushStep
<1>5. CASE f.is = "param" /\ ParamValue(f.tr) # NoFun /\ EnterName(ParamValue(f.tr), Null, fs)
  <2>1. WellFormed(ParamValue(f.tr))
    BY <1>5, ParamWellFormed DEF IInv
  <2>2. \E r : Pushes(fs, r)
    BY <1>1, <1>2, <1>5, <2>1, NamePushes
  <2>. QED
    BY <2>2, PushStep
<1>6. CASE f.is = "closure" /\ EnterClosure(f, fs)
  <2>1. \E r : Pushes(fs, r)
    BY <1>1, <1>6, ClosurePushes
  <2>. QED
    BY <2>1, PushStep
<1>7. CASE f.is = "form" /\ EnterForm(f, fs)
  <2>1. \E r : Pushes(fs, r)
    BY <1>1, <1>7, FormPushes
  <2>. QED
    BY <2>1, PushStep
<1>. QED
  BY <1>3, <1>4, <1>5, <1>6, <1>7 DEF Enter

LEMMA LikeSelf ==
  ASSUME StackInv
  PROVE  Like(frames, frames)
BY DEF StackInv, Stacked, Like, Alike

LEMMA LikeCleared ==
  ASSUME StackInv, Running, Frame.todo # NoFun
  PROVE  Like(frames, [frames EXCEPT ![Len(frames)].todo = NoFun])
<1> DEFINE n == Len(frames)
           fs == [frames EXCEPT ![n].todo = NoFun]
<1>1. IsSequence(frames) /\ n \in Nat /\ n \in 1 .. n /\ Frame = frames[n]
  BY Running1 DEF StackInv, Stacked, Frame, Last
<1>2. PICK S : frames \in Seq(S)
  BY <1>1 DEF IsSequence
<1> DEFINE q == [frames[n] EXCEPT !.todo = NoFun]
<1>3. frames \in Seq(S \cup {q}) /\ q \in S \cup {q}
  BY <1>2, SeqMonotonic
<1>4. fs = [frames EXCEPT ![n] = q]
  OBVIOUS
<1>. HIDE DEF q
<1>5. /\ [frames EXCEPT ![n] = q] \in Seq(S \cup {q})
      /\ Len([frames EXCEPT ![n] = q]) = n
      /\ \A j \in 1 .. n : [frames EXCEPT ![n] = q][j] = IF j = n THEN q ELSE frames[j]
  BY <1>1, <1>3, ExceptSeq
<1>. HIDE DEF fs
<1>6. IsSequence(fs) /\ Len(fs) = n
  BY <1>4, <1>5 DEF IsSequence
<1>7. \A j \in 1 .. n : Alike(frames[j], fs[j])
  BY <1>1, <1>4, <1>5 DEF Alike, q
<1>. QED
  BY <1>6, <1>7 DEF Like, fs


LEMMA AnyMentioned ==
  ASSUME StackInv, NEW f \in Mentioned
  PROVE  WellFormed(f)
<1>1. CASE f \in {Name(o, NoFun) : o \in {o \in Ops \ (Tr \cup Anonymous) : InScope(o)}}
  BY <1>1, Plain, FormMade
<1>2. CASE f \in {Form(o, NoFun) : o \in {o \in Anonymous : WrittenHere(o)}}
  BY <1>2, Plain, FormMade, EvaluatorConstants
<1>3. CASE f \in {Param(t) : t \in Tr \cap DOMAIN Visible}
  BY <1>3, Plain
<1>4. CASE f = Basic
  BY <1>4, Plain
<1>. QED
  BY <1>1, <1>2, <1>3, <1>4 DEF Mentioned

LEMMA ClosedWellFormed ==
  ASSUME StackInv, NEW f, WellFormed(f), Usable(f)
  PROVE  WellFormed(Closed(f)) /\ Holds(Closed(f)) \in Environments
<1>1. WellFormed(Closed(f))
  <2>1. CASE current_env = Null \/ IsGlobal(f)
    BY <2>1 DEF Closed
  <2>2. CASE ~(current_env = Null \/ IsGlobal(f)) /\ f.is = "param" /\ IsGlobal(ParamValue(f.tr))
    <3>1. Closed(f) = ParamValue(f.tr) /\ ParamValue(f.tr) # NoFun
      BY <2>2 DEF Closed, Usable
    <3>. QED
      BY <3>1, ParamWellFormed
  <2>3. CASE /\ ~(current_env = Null \/ IsGlobal(f))
             /\ ~(f.is = "param" /\ IsGlobal(ParamValue(f.tr)))
    <3>1. Closed(f) = Closure(f) /\ current_env \in Ops
      BY <2>3 DEF Closed, StackInv, Environments
    <3>2. Closure(f).is = "closure" /\ Closure(f).env = current_env /\ Closure(f).of = f
      BY DEF Closure
    <3>. QED
      BY <3>1, <3>2, Made
  <2>. QED
    BY <2>1, <2>2, <2>3
<1>2. Holds(Closed(f)) \in Environments
  BY <1>1, Parts DEF Holds, Environments
<1>. QED
  BY <1>1, <1>2

LEMMA InCode1 ==
  ASSUME StackInv, HasValue
  PROVE  Calls(frames) /\ Frame.kind \in {"ieval", "form"}
<1>1. Running /\ Frame.kind \in {"ieval", "form"} /\ Len(stk) - Frame.floor > 0
  BY DEF HasValue, InCode, Temporaries
<1>2. Len(stk) \in Nat /\ Frame.floor \in Nat
  BY <1>1, Running1
<1>3. Len(stk) > Frame.floor
  BY <1>1, <1>2
<1>. QED
  BY <1>1, <1>3, LikeSelf DEF Calls

LEMMA CallStep ==
  ASSUME IInv, NEW f \in Mentioned, Call(f)
  PROVE  IInv' /\ Undisturbs
<1>1. WellFormed(f) /\ Calls(frames)
  BY AnyMentioned, InCode1 DEF IInv, Call
<1>. QED
  BY <1>1, EnterStep DEF Call

LEMMA ContinueStep ==
  ASSUME IInv, Continue
  PROVE  IInv' /\ Undisturbs
<1> DEFINE fs == [frames EXCEPT ![Len(frames)].todo = NoFun]
<1>1. StackInv /\ Running /\ Frame.todo # NoFun /\ Enter(Frame.todo, fs)
  BY DEF Continue, IInv
<1>2. Like(frames, fs)
  BY <1>1, LikeCleared
<1>. HIDE DEF fs
<1>3. /\ WellFormed(Frame.todo) /\ AtRest(Frame, Len(stk)) /\ Shape(Frame)
      /\ Frame.floor \in Nat /\ Len(stk) \in Nat
  BY <1>1, Running1
<1>4. /\ Frame.kind \in {"name", "closure", "catch"}
      /\ Frame.kind = "closure" => Len(Env[Frame.env]) \in Nat
  BY <1>1, <1>3, ShapeFacts, EnvLength
<1>5. Len(stk) > Frame.floor
  BY <1>3, <1>4 DEF AtRest
<1>6. Calls(fs)
  BY <1>1, <1>2, <1>5 DEF Calls
<1>. QED
  BY <1>1, <1>3, <1>6, EnterStep

LEMMA TransformStep ==
  ASSUME IInv, NEW f \in Mentioned, NEW t \in Tr, Transform(t, f)
  PROVE  IInv' /\ Undisturbs
<1>1. StackInv /\ HasValue /\ Usable(f)
  BY DEF Transform, IInv
<1>2. WellFormed(f) /\ Calls(frames)
  BY <1>1, AnyMentioned, InCode1
<1> DEFINE c == Closed(f)
<1>3. WellFormed(c) /\ Holds(c) \in Environments
  BY <1>1, <1>2, ClosedWellFormed
<1>4. WellFormed(Form(t, c))
  BY <1>3, FormMade, EvaluatorConstants
<1>5. EnterName(Form(t, c), Holds(c), frames) /\ envref' = Referenced(Holds(c), 1)
      /\ UNCHANGED <<ct_current_jmp_buf, thrown, abandoned>>
  BY DEF Transform, Keep, history
<1>6. \E r : Pushes(frames, r)
  BY <1>2, <1>3, <1>4, <1>5, NamePushes
<1>. QED
  BY <1>6, PushStep

LEMMA CatchPushes ==
  ASSUME IInv, NEW f \in Mentioned, Catch(f)
  PROVE  \E r : Pushes(frames, r)
<1> DEFINE c == Closed(f)
           k == Len(stk)
           r == [kind |-> "catch", entry |-> k, floor |-> k - 1, todo |-> c,
                 holds |-> Holds(c), calls |-> call_stack_pointer,
                 prev |-> ct_current_jmp_buf]
<1>1. StackInv /\ HasValue /\ Usable(f)
  BY DEF Catch, IInv
<1>2. WellFormed(f) /\ Calls(frames)
  BY <1>1, AnyMentioned, InCode1
<1>3. WellFormed(c) /\ Holds(c) \in Environments
  BY <1>1, <1>2, ClosedWellFormed
<1>4. /\ k \in Nat /\ Frame.floor \in Nat /\ k > Frame.floor /\ Len(frames) > 0
      /\ IsSequence(stk) /\ current_env \in Environments /\ Like(frames, frames)
      /\ Len(frames) \in Nat /\ call_stack_pointer \in Nat /\ ct_current_jmp_buf \in Nat
  BY <1>1, <1>2, Running1, CallsType DEF Calls, IInv, StackInv, BufferInv
<1>5. /\ frames' = Append(frames, r) /\ envref' = Referenced(Holds(c), 1)
      /\ ct_current_jmp_buf' = Len(frames) + 1
      /\ UNCHANGED <<stk, current_env, call_stack_pointer, thrown, abandoned>>
  BY DEF Catch, Keep, history
<1>. HIDE DEF c
<1>6. r \in [kind : {"catch"}, entry : Nat, floor : Nat, todo : {r.todo},
             holds : Environments, calls : Nat, prev : Nat]
  BY <1>3, <1>4
<1>7. Shape(r)
  BY <1>6 DEF Shape
<1>8. /\ r.kind = "catch" /\ r.todo = c /\ r.entry = k /\ r.floor = k - 1
      /\ r.holds = Holds(c) /\ r.calls = call_stack_pointer /\ r.prev = ct_current_jmp_buf
  OBVIOUS
<1>. HIDE DEF r
<1>9. Heights(r) /\ Below(r) = k - 1 /\ AtRest(r, k) /\ Refers(r) = Holds(c)
  BY <1>4, <1>8 DEF Heights, Below, AtRest, Refers
<1>10. Kept(Below(r)) /\ Frame.floor <= Below(r)
  BY <1>4, <1>5, <1>9 DEF Kept
<1>11. Follows(Frame, r) /\ Changes(r, current_env, current_env)
  BY <1>8 DEF Follows, Changes, Changing
<1>12. Pushes(frames, r)
  BY <1>3, <1>4, <1>5, <1>7, <1>8, <1>9, <1>10, <1>11 DEF Pushes
<1>. QED
  BY <1>12

LEMMA CatchStep ==
  ASSUME IInv, NEW f \in Mentioned, Catch(f)
  PROVE  IInv' /\ Undisturbs
BY CatchPushes, PushStep

-------------------------------------------------------------------------------
(* The way back *)

(* The stack becomes what is below n, with x on it. *)
LEMMA StackFacts ==
  ASSUME StackInv, NEW n \in Nat, n <= Len(stk), NEW x
  PROVE  /\ IsSequence(Prefix(stk, n)) /\ Len(Prefix(stk, n)) = n
         /\ \A i \in 1 .. n : Prefix(stk, n)[i] = stk[i]
         /\ IsSequence(Append(Prefix(stk, n), x)) /\ Len(Append(Prefix(stk, n), x)) = n + 1
         /\ \A i \in 1 .. n : Append(Prefix(stk, n), x)[i] = stk[i]
<1> DEFINE p == Prefix(stk, n)
<1>1. IsSequence(stk)
  BY DEF StackInv
<1>2. IsSequence(p) /\ Len(p) = n /\ \A i \in 1 .. n : p[i] = stk[i]
  BY <1>1, PrefixFacts
<1>. HIDE DEF p
<1>3. Extends(Append(p, x), p, x)
  BY <1>2, AppendFacts
<1>. QED
  BY <1>2, <1>3 DEF Extends, p

(* The last function returns. *)
LEMMA LastFacts ==
  ASSUME IInv, Running, NEW held \in Environments
  PROVE  /\ Len(frames) \in 1 .. Len(frames) /\ frames[Len(frames)] = Frame
         /\ Caller = Prefix(frames, Len(frames) - 1) /\ Quiet(frames, Len(frames), Len(frames))
         /\ Referenced(held, -1) \in [Ops -> Int]
         /\ \A o \in Ops : Referenced(held, -1)[o] >= envref[o] - (IF held = o THEN 1 ELSE 0)
<1>1. Len(frames) \in Nat /\ Len(frames) \in 1 .. Len(frames)
  BY Running1 DEF IInv
<1>2. Quiet(frames, Len(frames), Len(frames))
  BY <1>1 DEF Quiet
<1>3. envref \in [Ops -> Int]
  BY DEF IInv, EnvInv
<1>4. /\ Referenced(held, -1) \in [Ops -> Int]
      /\ \A o \in Ops : Referenced(held, -1)[o] = envref[o] + (IF held = o THEN -1 ELSE 0)
  BY <1>3, ReferencedFacts
<1>5. \A o \in Ops : Referenced(held, -1)[o] >= envref[o] - (IF held = o THEN 1 ELSE 0)
  BY <1>3, <1>4
<1>. QED
  BY <1>1, <1>2, <1>4, <1>5 DEF Frame, Last, Caller

LEMMA NoRelease ==
  Referenced(Null, -1) = envref /\ Null \in Environments
BY DEF Referenced, Environments

LEMMA ReturnNameCuts ==
  ASSUME IInv, ReturnName
  PROVE  Cuts(Len(frames))
<1> DEFINE n == Len(frames)
           l == Frame.floor - 1
<1>1. /\ Running /\ Frame.kind = "name" /\ stk' = Prefix(stk, l) \o <<Val>>
      /\ call_stack_pointer' = call_stack_pointer - 1
      /\ envref' = Referenced(Frame.holds, -1) /\ frames' = Caller
      /\ UNCHANGED <<current_env, ct_current_jmp_buf, thrown, abandoned>>
  BY DEF ReturnName, Done, Released, history
<1>2. StackInv
  BY DEF IInv
<1>3. /\ Shape(Frame) /\ Heights(Frame) /\ Len(stk) \in Nat /\ Frame.floor \in Nat
      /\ Frame.floor <= Len(stk)
  BY <1>1, <1>2, Running1
<1>4. Frame.holds \in Environments
  BY <1>1, <1>3, ShapeFacts
<1>5. /\ n \in 1 .. n /\ frames[n] = Frame /\ Caller = Prefix(frames, n - 1)
      /\ Quiet(frames, n, n) /\ envref' \in [Ops -> Int]
      /\ \A o \in Ops : envref'[o] >= envref[o] - (IF Frame.holds = o THEN 1 ELSE 0)
  BY <1>1, <1>4, LastFacts
<1>6. l \in Nat /\ l <= Len(stk) /\ Below(Frame) = l /\ Frame.entry = l + 1
      /\ Refers(Frame) = Frame.holds /\ Before(Frame, current_env) = current_env
  BY <1>1, <1>3 DEF Heights, Below, Refers, Before
<1>. HIDE DEF l
<1>7. /\ IsSequence(Prefix(stk, l)) /\ Len(Prefix(stk, l)) = l
      /\ \A i \in 1 .. l : Prefix(stk, l)[i] = stk[i]
  BY <1>2, <1>6, StackFacts
<1>8. IsSequence(<<Val>>) /\ Len(<<Val>>) = 1
  <2>1. <<Val>> \in Seq({Val})
    OBVIOUS
  <2>. QED
    BY <2>1 DEF IsSequence
<1>9. Joins(stk', Prefix(stk, l), <<Val>>)
  BY <1>1, <1>7, <1>8, ConcatFacts
<1>10. IsSequence(stk') /\ Len(stk') = l + 1 /\ \A i \in 1 .. l : stk'[i] = stk[i]
  BY <1>7, <1>8, <1>9 DEF Joins
<1>11. Kept(Below(Frame))
  BY <1>6, <1>10 DEF Kept
<1>12. Cuts(n)
  BY <1>1, <1>5, <1>6, <1>10, <1>11 DEF Cuts
<1>. QED
  BY <1>12

LEMMA ReturnNameStep ==
  ASSUME IInv, ReturnName
  PROVE  IInv' /\ Undisturbs
BY ReturnNameCuts, CutStep

LEMMA ReturnClosureCuts ==
  ASSUME IInv, ReturnClosure
  PROVE  Cuts(Len(frames))
<1> DEFINE n == Len(frames)
           l == Frame.floor
<1>1. /\ Running /\ Frame.kind = "closure" /\ stk' = Append(Prefix(stk, l), Val)
      /\ current_env' = Frame.svenv /\ frames' = Caller
      /\ UNCHANGED <<call_stack_pointer, ct_current_jmp_buf, envref, thrown, abandoned>>
  BY DEF ReturnClosure, Done, history
<1>2. StackInv
  BY DEF IInv
<1>3. /\ Shape(Frame) /\ Heights(Frame) /\ Len(stk) \in Nat /\ l \in Nat /\ l <= Len(stk)
  BY <1>1, <1>2, Running1
<1>4. /\ n \in 1 .. n /\ frames[n] = Frame /\ Caller = Prefix(frames, n - 1)
      /\ Quiet(frames, n, n) /\ Referenced(Null, -1) \in [Ops -> Int]
      /\ \A o \in Ops : Referenced(Null, -1)[o] >= envref[o] - (IF Null = o THEN 1 ELSE 0)
  BY <1>1, NoRelease, LastFacts
<1>5. /\ Below(Frame) = l /\ Frame.entry = l + 1 /\ Refers(Frame) = Null
      /\ Before(Frame, current_env) = Frame.svenv
  BY <1>1, <1>3 DEF Heights, Below, Refers, Before
<1>. HIDE DEF l
<1>6. IsSequence(stk') /\ Len(stk') = l + 1 /\ \A i \in 1 .. l : stk'[i] = stk[i]
  BY <1>1, <1>2, <1>3, StackFacts
<1>7. Kept(Below(Frame))
  BY <1>3, <1>5, <1>6 DEF Kept
<1>8. call_stack_pointer' = call_stack_pointer - 0
  BY <1>1, CallsType
<1>9. Cuts(n)
  BY <1>1, <1>4, <1>5, <1>6, <1>7, <1>8, NoRelease DEF Cuts
<1>. QED
  BY <1>9

LEMMA ReturnClosureStep ==
  ASSUME IInv, ReturnClosure
  PROVE  IInv' /\ Undisturbs
BY ReturnClosureCuts, CutStep

LEMMA ReturnFormCuts ==
  ASSUME IInv, ReturnForm
  PROVE  Cuts(Len(frames))
<1> DEFINE n == Len(frames)
           l == Frame.floor - 2
<1>1. /\ Running /\ Frame.kind = "form" /\ stk' = Prefix(stk, l)
      /\ current_env' = Frame.senv /\ frames' = Caller
      /\ UNCHANGED <<call_stack_pointer, ct_current_jmp_buf, envref, thrown, abandoned>>
  BY DEF ReturnForm, Done, history
<1>2. StackInv
  BY DEF IInv
<1>3. /\ Shape(Frame) /\ Heights(Frame) /\ Len(stk) \in Nat /\ Frame.floor \in Nat
      /\ Frame.floor <= Len(stk)
  BY <1>1, <1>2, Running1
<1>4. /\ n \in 1 .. n /\ frames[n] = Frame /\ Caller = Prefix(frames, n - 1)
      /\ Quiet(frames, n, n) /\ Referenced(Null, -1) \in [Ops -> Int]
      /\ \A o \in Ops : Referenced(Null, -1)[o] >= envref[o] - (IF Null = o THEN 1 ELSE 0)
  BY <1>1, NoRelease, LastFacts
<1>5. /\ Below(Frame) \in Nat /\ Below(Frame) <= l /\ Frame.entry = l /\ Refers(Frame) = Null
      /\ Before(Frame, current_env) = Frame.senv /\ l \in Nat /\ l <= Len(stk)
  BY <1>1, <1>3 DEF Heights, Below, Refers, Before
<1>. HIDE DEF l
<1>6. IsSequence(stk') /\ Len(stk') = l /\ \A i \in 1 .. l : stk'[i] = stk[i]
  BY <1>1, <1>2, <1>5, StackFacts
<1>7. Kept(Below(Frame))
  BY <1>3, <1>5, <1>6 DEF Kept
<1>8. call_stack_pointer' = call_stack_pointer - 0
  BY <1>1, CallsType
<1>9. Cuts(n)
  BY <1>1, <1>4, <1>5, <1>6, <1>7, <1>8, NoRelease DEF Cuts
<1>. QED
  BY <1>9

LEMMA ReturnFormStep ==
  ASSUME IInv, ReturnForm
  PROVE  IInv' /\ Undisturbs
BY ReturnFormCuts, CutStep

LEMMA ReturnCatchCuts ==
  ASSUME IInv, ReturnCatch
  PROVE  Cuts(Len(frames))
<1> DEFINE n == Len(frames)
           l == Frame.floor
<1>1. /\ Running /\ Frame.kind = "catch" /\ stk' = stk
      /\ envref' = Referenced(Frame.holds, -1) /\ frames' = Caller
      /\ ct_current_jmp_buf' = Frame.prev
      /\ UNCHANGED <<current_env, call_stack_pointer, thrown, abandoned>>
  BY DEF ReturnCatch, Done, Released, BufferAfter, history
<1>2. StackInv /\ IsSequence(stk)
  BY DEF IInv, StackInv
<1>3. /\ Shape(Frame) /\ Heights(Frame) /\ AtRest(Frame, Len(stk)) /\ Len(stk) \in Nat
      /\ l \in Nat /\ l <= Len(stk)
  BY <1>1, <1>2, Running1
<1>4. Frame.holds \in Environments
  BY <1>1, <1>3, ShapeFacts
<1>5. /\ n \in 1 .. n /\ frames[n] = Frame /\ Caller = Prefix(frames, n - 1)
      /\ Quiet(frames, n, n) /\ envref' \in [Ops -> Int]
      /\ \A o \in Ops : envref'[o] >= envref[o] - (IF Frame.holds = o THEN 1 ELSE 0)
  BY <1>1, <1>4, LastFacts
<1>6. /\ Below(Frame) = l /\ Frame.entry = Len(stk) /\ Refers(Frame) = Frame.holds
      /\ Before(Frame, current_env) = current_env
  BY <1>1, <1>3 DEF Heights, Below, Refers, Before, AtRest
<1>. HIDE DEF l
<1>7. Kept(Below(Frame))
  BY <1>1, <1>3, <1>6 DEF Kept
<1>8. call_stack_pointer' = call_stack_pointer - 0
  BY <1>1, CallsType
<1>9. Cuts(n)
  BY <1>1, <1>2, <1>5, <1>6, <1>7, <1>8 DEF Cuts
<1>. QED
  BY <1>9

LEMMA ReturnCatchStep ==
  ASSUME IInv, ReturnCatch
  PROVE  IInv' /\ Undisturbs
BY ReturnCatchCuts, CutStep

(* The environment that is protected is the one that was current when the  *)
(* line was begun, and is again: nothing that is still to be called by it  *)
(* has changed it.                                                         *)
LEMMA ReturnIevalCuts ==
  ASSUME IInv, ReturnIeval
  PROVE  Cuts(Len(frames))
<1> DEFINE n == Len(frames)
           l == Frame.floor
<1>1. /\ Running /\ Frame.kind = "ieval" /\ Len(stk) - l = 1
      /\ envref' = Referenced(current_env, -1) /\ frames' = Caller
      /\ stk' = IF frames' = <<>> \/ Last(frames').kind = "faultloop"
                THEN Prefix(stk, Len(stk) - 1) ELSE stk
      /\ UNCHANGED <<current_env, call_stack_pointer, ct_current_jmp_buf, thrown, abandoned>>
  BY DEF ReturnIeval, Done, Temporaries, history
<1>2. /\ StackInv /\ IsSequence(stk) /\ current_env \in Environments
      /\ Stacked(frames, Len(stk)) /\ IsSequence(frames)
  BY DEF IInv, StackInv, Stacked
<1>3. /\ Shape(Frame) /\ Len(stk) \in Nat /\ l \in Nat /\ l <= Len(stk) /\ n \in Nat /\ n > 0
  BY <1>1, <1>2, Running1
<1>4. /\ n \in 1 .. n /\ frames[n] = Frame /\ Caller = Prefix(frames, n - 1)
      /\ Quiet(frames, n, n) /\ envref' \in [Ops -> Int]
      /\ \A o \in Ops : envref'[o] >= envref[o] - (IF current_env = o THEN 1 ELSE 0)
  BY <1>1, <1>2, LastFacts
<1>5. /\ Below(Frame) = l /\ Refers(Frame) = Frame.env /\ Len(stk) = l + 1
      /\ Before(Frame, current_env) = current_env
  BY <1>1, <1>3 DEF Below, Refers, Before
<1>. HIDE DEF l
<1>6. IsSequence(stk') /\ Kept(l) /\ Len(stk') = Frame.entry
  <2>1. /\ IsSequence(Prefix(stk, l)) /\ Len(Prefix(stk, l)) = l
        /\ \A i \in 1 .. l : Prefix(stk, l)[i] = stk[i]
    BY <1>2, <1>3, StackFacts
  <2>2. n - 1 \in Nat /\ n - 1 <= n
    BY <1>3
  <2>3. /\ IsSequence(frames') /\ Len(frames') = n - 1
        /\ \A i \in 1 .. n - 1 : frames'[i] = frames[i]
    BY <1>1, <1>2, <1>4, <2>2, PrefixFacts
  <2>4. Len(stk) - 1 = l
    BY <1>3, <1>5
  <2>5. CASE n = 1
    <3>1. frames' = <<>>
      BY <1>1, <1>4, <2>5 DEF Prefix
    <3>2. First(Frame)
      BY <1>2, <1>4, <2>5 DEF Stacked
    <3>3. stk' = Prefix(stk, l) /\ Frame.floor = 0 /\ Frame.entry = 0
      BY <1>1, <2>4, <3>1, <3>2 DEF First
    <3>. QED
      BY <1>3, <2>1, <3>3 DEF Kept, l
  <2>6. CASE n # 1
    <3>1. n - 1 \in 1 .. n - 1 /\ n - 1 + 1 = n
      <4>1. \A k \in Nat : k > 0 /\ k # 1 => k - 1 \in 1 .. k - 1 /\ k - 1 + 1 = k
        OBVIOUS
      <4>. QED
        BY <1>3, <2>6, <4>1
    <3>2. Last(frames') = frames[n - 1]
      BY <2>3, <3>1 DEF Last
    <3>3. Follows(frames[n - 1], frames[n])
      <4>1. Follows(frames[n - 1], frames[n - 1 + 1])
        BY <1>2, <3>1 DEF Stacked
      <4>. QED
        BY <3>1, <4>1
    <3>4. Frame.entry = l + (IF Last(frames').kind = "faultloop" THEN 0 ELSE 1)
      BY <1>1, <1>4, <3>2, <3>3 DEF Follows, l
    <3>5. frames' # <<>>
      <4>1. Len(frames') # 0
        BY <2>3, <3>1
      <4>. QED
        BY <4>1
    <3>6. CASE Last(frames').kind = "faultloop"
      <4>1. stk' = Prefix(stk, l)
        BY <1>1, <2>4, <3>6
      <4>. QED
        BY <1>3, <2>1, <3>4, <3>6, <4>1 DEF Kept
    <3>7. CASE Last(frames').kind # "faultloop"
      <4>1. stk' = stk
        BY <1>1, <3>5, <3>7
      <4>. QED
        BY <1>2, <1>3, <1>5, <3>4, <3>7, <4>1 DEF Kept
    <3>. QED
      BY <3>6, <3>7
  <2>. QED
    BY <2>5, <2>6
<1>7. thrown' = "no" => Frame.env = current_env
  <2>. SUFFICES ASSUME thrown' = "no" PROVE Frame.env = current_env
    OBVIOUS
  <2>1. Environed(frames, current_env)
    BY <1>1 DEF IInv, EnvInv
  <2>2. frames[n].kind = "ieval" /\ n = Len(frames) => frames[n].env = current_env
    BY <1>2, <1>4, <2>1, EnvironedCut
  <2>. QED
    BY <1>1, <1>4, <2>2
<1>8. call_stack_pointer' = call_stack_pointer - 0
  BY <1>1, CallsType
<1>9. Cuts(n)
  BY <1>1, <1>4, <1>5, <1>6, <1>7, <1>8 DEF Cuts
<1>. QED
  BY <1>9

LEMMA ReturnIevalStep ==
  ASSUME IInv, ReturnIeval
  PROVE  IInv' /\ Undisturbs
BY ReturnIevalCuts, CutStep

-------------------------------------------------------------------------------
(* ieval and the fault loop *)

LEMMA LineStep ==
  ASSUME IInv, Line
  PROVE  IInv' /\ Undisturbs
<1> DEFINE r == [IevalFrame(0) EXCEPT !.env = Null]
<1>1. /\ frames = <<>> /\ current_env' = Null /\ frames' = <<r>>
      /\ thrown' = (IF thrown = "line" THEN "before" ELSE thrown)
      /\ UNCHANGED <<stk, call_stack_pointer, ct_current_jmp_buf, envref, abandoned>>
  BY DEF Line
<1>2. /\ StackInv /\ IsSequence(stk) /\ Len(frames) = 0 /\ Stacked(frames, Len(stk))
  BY <1>1 DEF IInv, StackInv
<1>3. Len(stk) = 0 /\ Like(frames, frames)
  BY <1>2, LikeSelf DEF Stacked
<1>4. r = [kind |-> "ieval", entry |-> 0, floor |-> 0, todo |-> NoFun, env |-> Null]
  BY <1>3 DEF IevalFrame
<1>5. Null \in Environments
  BY DEF Environments
<1>6. /\ r \in [kind : {"ieval"}, entry : Nat, floor : Nat, todo : {NoFun}, env : Environments]
      /\ r.kind = "ieval" /\ r.entry = 0 /\ r.floor = 0 /\ r.todo = NoFun /\ r.env = Null
  BY <1>4, <1>5
<1>7. frames' = Append(frames, r)
  BY <1>1
<1>. HIDE DEF r
<1>8. Shape(r) /\ Heights(r) /\ First(r) /\ AtRest(r, Len(stk')) /\ Below(r) = 0
      /\ Refers(r) = Null /\ WellFormed(r.todo)
  BY <1>1, <1>3, <1>6, Plain DEF Shape, Heights, First, AtRest, Below, Refers
<1>9. Kept(Below(r))
  BY <1>1, <1>3, <1>8 DEF Kept
<1>10. Changes(r, current_env', current_env') /\ envref' = Referenced(Refers(r), 1)
  BY <1>1, <1>6, <1>8, NoReference DEF Changes, Changing
<1>11. call_stack_pointer' = call_stack_pointer + 0
  BY <1>1, CallsType
<1>12. Pushes(frames, r)
  BY <1>1, <1>2, <1>3, <1>5, <1>6, <1>7, <1>8, <1>9, <1>10, <1>11 DEF Pushes
<1>. QED
  BY <1>12, PushStep

LEMMA ExecutePushes ==
  ASSUME IInv, Execute
  PROVE  \E r : Pushes(frames, r)
<1> DEFINE n == IF Frame.kind = "form" THEN Len(stk) - 1 ELSE Len(stk)
           k == Len(stk)
           r == IevalFrame(n)
<1>1. /\ Running /\ (Frame.kind = "faultloop" \/ (Frame.kind = "form" /\ HasValue))
      /\ envref' = Referenced(current_env, 1)
      /\ stk' = Prefix(stk, n) /\ frames' = Append(frames, r)
      /\ UNCHANGED <<current_env, call_stack_pointer, ct_current_jmp_buf, thrown, abandoned>>
  BY DEF Execute, Protected, history
<1>2. /\ StackInv /\ current_env \in Environments /\ Like(frames, frames)
  BY LikeSelf DEF IInv, StackInv
<1>3. /\ AtRest(Frame, k) /\ k \in Nat /\ Frame.floor \in Nat /\ Len(frames) \in Nat
      /\ Len(frames) > 0
  BY <1>1, <1>2, Running1
<1>4. n \in Nat /\ n <= k /\ Frame.floor <= n
      /\ k = n + (IF Frame.kind = "faultloop" THEN 0 ELSE 1)
  <2>1. CASE Frame.kind = "faultloop"
    BY <1>3, <2>1 DEF AtRest
  <2>2. CASE Frame.kind = "form" /\ HasValue
    <3>1. k > Frame.floor
      BY <1>2, <2>2, InCode1 DEF Calls
    <3>. QED
      BY <1>3, <2>2, <3>1
  <2>. QED
    BY <1>1, <2>1, <2>2
<1>. HIDE DEF n
<1>5. IsSequence(stk') /\ Len(stk') = n /\ \A i \in 1 .. n : stk'[i] = stk[i]
  BY <1>1, <1>2, <1>4, StackFacts
<1>6. /\ r \in [kind : {"ieval"}, entry : Nat, floor : Nat, todo : {NoFun}, env : Environments]
      /\ r.kind = "ieval" /\ r.entry = k /\ r.floor = n /\ r.todo = NoFun
      /\ r.env = current_env
  BY <1>2, <1>3, <1>4 DEF IevalFrame
<1>. HIDE DEF r
<1>7. Shape(r) /\ Heights(r) /\ AtRest(r, n) /\ Below(r) = n /\ Refers(r) = current_env
      /\ WellFormed(r.todo) /\ Follows(Frame, r) /\ Changes(r, current_env, current_env)
  BY <1>4, <1>6, Plain DEF Shape, Heights, AtRest, Below, Refers, Follows, Changes, Changing
<1>8. Kept(Below(r))
  BY <1>3, <1>4, <1>5, <1>7 DEF Kept
<1>9. call_stack_pointer' = call_stack_pointer + 0
  BY <1>1, CallsType
<1>10. Pushes(frames, r)
  BY <1>1, <1>2, <1>3, <1>4, <1>5, <1>6, <1>7, <1>8, <1>9 DEF Pushes
<1>. QED
  BY <1>10

LEMMA ExecuteStep ==
  ASSUME IInv, Execute
  PROVE  IInv' /\ Undisturbs
BY ExecutePushes, PushStep

LEMMA FaultLoopPushes ==
  ASSUME IInv, FaultLoop
  PROVE  \E r : Pushes(frames, r)
<1> DEFINE k == Len(stk)
           r == [kind |-> "faultloop", entry |-> k, floor |-> k, todo |-> NoFun]
<1>1. /\ Running /\ frames' = Append(frames, r)
      /\ UNCHANGED <<stk, current_env, call_stack_pointer, ct_current_jmp_buf, envref,
                     thrown, abandoned>>
  BY DEF FaultLoop, Triggers, InCode, history
<1>2. /\ StackInv /\ current_env \in Environments /\ Like(frames, frames) /\ IsSequence(stk)
  BY LikeSelf DEF IInv, StackInv
<1>3. /\ k \in Nat /\ Frame.floor \in Nat /\ Frame.floor <= k /\ Len(frames) \in Nat
      /\ Len(frames) > 0
  BY <1>1, <1>2, Running1
<1>4. /\ r \in [kind : {"faultloop"}, entry : Nat, floor : Nat, todo : {NoFun}]
      /\ r.kind = "faultloop" /\ r.entry = k /\ r.floor = k /\ r.todo = NoFun
  BY <1>3
<1>. HIDE DEF r
<1>5. Shape(r) /\ Heights(r) /\ AtRest(r, k) /\ Below(r) = k /\ Refers(r) = Null
      /\ WellFormed(r.todo) /\ Follows(Frame, r) /\ Changes(r, current_env, current_env)
  BY <1>3, <1>4, Plain DEF Shape, Heights, AtRest, Below, Refers, Follows, Changes, Changing
<1>6. Kept(Below(r)) /\ envref' = Referenced(Refers(r), 1)
  BY <1>1, <1>3, <1>5, NoReference DEF Kept
<1>7. call_stack_pointer' = call_stack_pointer + 0
  BY <1>1, CallsType
<1>8. Pushes(frames, r)
  BY <1>1, <1>2, <1>3, <1>4, <1>5, <1>6, <1>7 DEF Pushes
<1>. QED
  BY <1>8

LEMMA FaultLoopStep ==
  ASSUME IInv, FaultLoop
  PROVE  IInv' /\ Undisturbs
BY FaultLoopPushes, PushStep

LEMMA PushValueStays ==
  ASSUME IInv, PushValue
  PROVE  Stays
<1>1. /\ Running /\ Frame.kind \in {"ieval", "form"} /\ stk' = Append(stk, Val)
      /\ UNCHANGED <<frames, current_env, call_stack_pointer, ct_current_jmp_buf, envref,
                     thrown, abandoned>>
  BY DEF PushValue, InCode, history
<1>2. StackInv /\ IsSequence(stk) /\ Like(frames, frames)
  BY LikeSelf DEF IInv, StackInv
<1>3. Len(stk) \in Nat /\ Frame.floor \in Nat /\ Frame.floor <= Len(stk) /\ Len(frames) > 0
  BY <1>1, <1>2, Running1
<1>4. Extends(stk', stk, Val)
  BY <1>1, <1>2, AppendFacts
<1>5. IsSequence(stk') /\ AtRest(Frame, Len(stk')) /\ Kept(Frame.floor)
  BY <1>1, <1>3, <1>4 DEF Extends, AtRest, Kept
<1>6. Stays
  BY <1>1, <1>2, <1>3, <1>5 DEF Stays
<1>. QED
  BY <1>6

LEMMA PushValueStep ==
  ASSUME IInv, PushValue
  PROVE  IInv' /\ Undisturbs
BY PushValueStays, StayStep

LEMMA PopValueStays ==
  ASSUME IInv, PopValue
  PROVE  Stays
<1>1. /\ HasValue /\ stk' = Prefix(stk, Len(stk) - 1)
      /\ UNCHANGED <<frames, current_env, call_stack_pointer, ct_current_jmp_buf, envref,
                     thrown, abandoned>>
  BY DEF PopValue, history
<1>2. StackInv /\ IsSequence(stk) /\ Like(frames, frames)
  BY LikeSelf DEF IInv, StackInv
<1>3. Running /\ Len(stk) > Frame.floor /\ Frame.kind \in {"ieval", "form"}
  BY <1>1, <1>2, InCode1 DEF Calls
<1>4. Len(stk) \in Nat /\ Frame.floor \in Nat /\ Len(frames) > 0
  BY <1>2, <1>3, Running1
<1> DEFINE n == Len(stk) - 1
<1>5. n \in Nat /\ n <= Len(stk) /\ Frame.floor <= n
  BY <1>3, <1>4
<1>. HIDE DEF n
<1>6. IsSequence(stk') /\ Len(stk') = n /\ \A i \in 1 .. n : stk'[i] = stk[i]
  <2>1. stk' = Prefix(stk, n)
    BY <1>1 DEF n
  <2>. QED
    BY <1>2, <1>5, <2>1, StackFacts
<1>7. AtRest(Frame, Len(stk')) /\ Kept(Frame.floor)
  BY <1>3, <1>4, <1>5, <1>6 DEF AtRest, Kept
<1>8. Stays
  BY <1>1, <1>2, <1>4, <1>6, <1>7 DEF Stays
<1>. QED
  BY <1>8

LEMMA PopValueStep ==
  ASSUME IInv, PopValue
  PROVE  IInv' /\ Undisturbs
BY PopValueStays, StayStep

(* What only stops the model. *)
LEMMA NothingStep ==
  ASSUME IInv, UNCHANGED <<frames, stk, current_env, call_stack_pointer,
                           ct_current_jmp_buf, envref, thrown, abandoned>>
  PROVE  IInv' /\ Undisturbs
<1>1. StackInv /\ IsSequence(stk) /\ IsSequence(frames) /\ Like(frames, frames)
      /\ Stacked(frames, Len(stk))
  BY LikeSelf DEF IInv, StackInv, Stacked
<1>2. ASSUME Len(frames) # 0
      PROVE  IsSequence(stk') /\ AtRest(Frame, Len(stk')) /\ Kept(Frame.floor)
  <2>1. Len(frames) > 0 /\ Len(stk) \in Nat
    BY <1>1, <1>2, SequenceFacts
  <2>2. /\ AtRest(Frame, Len(stk)) /\ Shape(Frame) /\ Frame.floor <= Len(stk)
    BY <1>1, <2>1, UnderTop DEF Frame
  <2>. QED
    BY <1>1, <2>1, <2>2, ShapeFacts DEF Kept
<1>3. Stays
  BY <1>1, <1>2 DEF Stays
<1>. QED
  BY <1>3, StayStep

-------------------------------------------------------------------------------
(* throw, faults and errors *)

LEMMA ThrownCuts ==
  ASSUME IInv, Running, Thrown, CatchIsLive
  PROVE  /\ Cuts(ct_current_jmp_buf)
         /\ thrown' # "line" =>
              thrown' = thrown /\ Quiet(frames, ct_current_jmp_buf, Len(frames))
<1> DEFINE n == Len(frames)
           m == ct_current_jmp_buf
           c == frames[m]
           above == SubSeq(frames, m + 1, n)
<1>1. /\ stk' = Append(Prefix(stk, c.floor), Val) /\ call_stack_pointer' = c.calls
      /\ ct_current_jmp_buf' = c.prev /\ envref' = Referenced(c.holds, -1)
      /\ frames' = Prefix(frames, m - 1)
      /\ thrown' = (IF \E i \in DOMAIN above : above[i].kind \in {"form", "closure"}
                    THEN "line" ELSE thrown)
      /\ UNCHANGED <<current_env, abandoned>>
  BY DEF Thrown, ArgStack, CallsAfter, BufferAfter, Released
<1>2. StackInv /\ Stacked(frames, Len(stk)) /\ IsSequence(frames) /\ IsSequence(stk)
  BY DEF IInv, StackInv, Stacked
<1>3. n \in Nat /\ n > 0 /\ Len(stk) \in Nat
  BY <1>2, Running1
<1>4. m \in 1 .. n /\ c.kind = "catch"
  BY <1>2, SequenceFacts DEF CatchIsLive
<1>5. Shape(c) /\ Heights(c)
  BY <1>2, <1>4 DEF Stacked
<1>6. c.floor \in Nat /\ c.holds \in Environments /\ c.entry = c.floor + 1
      /\ Below(c) = c.floor /\ Refers(c) = c.holds /\ Before(c, current_env) = current_env
  BY <1>4, <1>5, ShapeFacts DEF Heights, Below, Refers, Before
<1>7. c.floor <= Len(stk)
  <2>1. /\ c.floor <= Last(frames).floor /\ Last(frames).floor <= Len(stk)
        /\ Shape(Last(frames))
    BY <1>2, <1>3, <1>4, UnderTop
  <2>2. Last(frames).floor \in Nat
    BY <2>1, ShapeFacts
  <2>. QED
    BY <1>3, <1>6, <2>1, <2>2
<1>8. IsSequence(stk') /\ Len(stk') = c.floor + 1 /\ \A i \in 1 .. c.floor : stk'[i] = stk[i]
  BY <1>1, <1>2, <1>6, <1>7, StackFacts
<1>9. Kept(c.floor)
  BY <1>6, <1>7, <1>8 DEF Kept
<1>10. /\ envref' \in [Ops -> Int]
       /\ \A o \in Ops : envref'[o] >= envref[o] - (IF c.holds = o THEN 1 ELSE 0)
  BY <1>1, <1>6, LastFacts
<1>11. ASSUME thrown' # "line"
       PROVE  thrown' = thrown /\ Quiet(frames, m, n)
  <2>1. thrown' = thrown /\ \A i \in DOMAIN above : above[i].kind \notin {"form", "closure"}
    BY <1>1, <1>11
  <2>2. ASSUME NEW k \in m + 1 .. n
        PROVE  frames[k].kind \notin Changing
    <3>1. PICK S : frames \in Seq(S)
      BY <1>2 DEF IsSequence
    <3>2. \A i \in m + 1 .. n : frames[i] \in S
      <4>1. \A i \in m + 1 .. n : i \in 1 .. Len(frames)
        BY <1>3, <1>4
      <4>. QED
        BY <3>1, <4>1, ElementOfSeq
    <3>3. m + 1 \in Int /\ n \in Int
      BY <1>3, <1>4
    <3>4. /\ above \in Seq(S)
          /\ Len(above) = IF m + 1 <= n THEN n - (m + 1) + 1 ELSE 0
          /\ \A i \in 1 .. n - (m + 1) + 1 : above[i] = frames[m + 1 + i - 1]
      BY <3>2, <3>3, SubSeqProperties
    <3>. HIDE DEF above
    <3>5. k - m \in 1 .. n - (m + 1) + 1 /\ m + 1 + (k - m) - 1 = k
          /\ n - (m + 1) + 1 = Len(above)
      BY <1>3, <1>4, <3>4
    <3>6. DOMAIN above = 1 .. Len(above)
      BY <3>4, LenProperties
    <3>7. above[k - m] = frames[k] /\ k - m \in DOMAIN above
      BY <3>4, <3>5, <3>6
    <3>. QED
      BY <2>1, <3>7 DEF Changing
  <2>. QED
    BY <2>1, <2>2 DEF Quiet
<1>12. Cuts(m)
  BY <1>1, <1>4, <1>6, <1>8, <1>9, <1>10, <1>11 DEF Cuts
<1>. QED
  BY <1>11, <1>12

LEMMA ThrownStep ==
  ASSUME IInv, Running, Thrown
  PROVE  IInv' /\ Undisturbs
<1>1. CASE ~CatchIsLive
  <2>1. UNCHANGED <<frames, stk, current_env, call_stack_pointer, ct_current_jmp_buf,
                    envref, thrown, abandoned>>
    BY <1>1 DEF Thrown
  <2>. QED
    BY <2>1, NothingStep
<1>2. CASE CatchIsLive
  BY <1>2, ThrownCuts, CutStep
<1>. QED
  BY <1>1, <1>2

LEMMA ToTopLevelStep ==
  ASSUME IInv, ToTopLevel
  PROVE  IInv' /\ Undisturbs
<1> DEFINE n == Len(frames)
<1>1. /\ frames' = <<>> /\ stk' = <<>> /\ call_stack_pointer' = 0
      /\ abandoned' = (abandoned \/ \E i \in DOMAIN frames : frames[i].kind = "catch")
      /\ UNCHANGED <<current_env, ct_current_jmp_buf, envref, thrown>>
  BY DEF ToTopLevel
<1>2. IsSequence(frames) /\ n \in Nat /\ DOMAIN frames = 1 .. n
  BY SequenceFacts DEF IInv, StackInv, Stacked
<1>3. IsSequence(frames') /\ IsSequence(stk') /\ Len(frames') = 0 /\ Len(stk') = 0
      /\ DOMAIN frames' = {}
  <2>1. <<>> \in Seq({}) /\ Len(<<>>) = 0
    BY EmptySeq
  <2>2. IsSequence(<<>>) /\ DOMAIN <<>> = 1 .. 0
    BY <2>1, LenProperties DEF IsSequence
  <2>. QED
    BY <1>1, <2>1, <2>2
<1>4. \A i \in Int : i \notin 1 .. 0 /\ i \notin 1 .. 0 - 1 /\ i \notin 1 .. 0 + 1 - 1
  OBVIOUS
<1>5. StackInv'
  <2>1. Stacked(frames', Len(stk'))
    BY <1>3, <1>4 DEF Stacked
  <2>2. Functions(frames')
    BY <1>3 DEF Functions
  <2>. QED
    BY <1>1, <1>3, <2>1, <2>2 DEF StackInv, IInv
<1>6. EnvInv'
  <2>1. envref' = envref /\ envref \in [Ops -> Int] /\ current_env \in Environments
    BY <1>1 DEF IInv, EnvInv, StackInv
  <2>2. Environed(frames', current_env')
    <3> DEFINE e == [i \in 0 .. 0 |-> current_env]
    <3>1. e \in [0 .. Len(frames') -> Environments]
      BY <1>3, <2>1
    <3>2. \A i, j \in 0 .. Len(frames') : e[i] = e[j]
      BY <1>3
    <3>3. Between(frames', e)
      BY <1>3, <3>1, <3>2 DEF Between
    <3>. QED
      BY <1>3, <3>3 DEF Environed
  <2>3. ASSUME thrown' = "no"
        PROVE  Covering(frames', envref')
    <3>. SUFFICES ASSUME NEW o \in Ops PROVE envref'[o] > Cardinality(RefsIn(frames', o))
      BY DEF Covering
    <3>1. RefsIn(frames', o) = {}
      BY <1>3, <1>4 DEF RefsIn
    <3>2. RefsIn(frames, o) \in SUBSET (1 .. n)
      BY DEF RefsIn
    <3>3. Cardinality(RefsIn(frames, o)) \in Nat
      BY <1>2, <3>2, Numbered
    <3>4. envref[o] > Cardinality(RefsIn(frames, o))
      BY <1>1, <2>3 DEF IInv, EnvInv, Covering
    <3>5. Cardinality(RefsIn(frames', o)) = 0
      BY <3>1, FS_EmptySet
    <3>. QED
      BY <2>1, <3>3, <3>4, <3>5
  <2>. QED
    BY <2>1, <2>2, <2>3 DEF EnvInv
<1>7. NamesBelow(frames', Len(frames') + 1) = {} /\ CatchesBelow(frames', Len(frames') + 1) = {}
  BY <1>3, <1>4 DEF NamesBelow, CatchesBelow
<1>8. CallInv'
  BY <1>1, <1>7, FS_EmptySet DEF CallInv
<1>9. BufferInv'
  <2>1. ct_current_jmp_buf' = ct_current_jmp_buf /\ ct_current_jmp_buf \in Nat
    BY <1>1 DEF IInv, BufferInv
  <2>2. ASSUME ~abandoned'
        PROVE  ct_current_jmp_buf = 0
    <3>1. ct_current_jmp_buf \in CatchesBelow(frames, n + 1) \cup {0}
      BY <1>1, <2>2 DEF IInv, BufferInv, IsInnermost
    <3>2. CatchesBelow(frames, n + 1) = {}
      <4>1. \A i \in 1 .. n : frames[i].kind # "catch"
        BY <1>1, <1>2, <2>2
      <4>2. n + 1 - 1 = n
        BY <1>2
      <4>3. CatchesBelow(frames, n + 1) = {i \in 1 .. n : frames[i].kind = "catch"}
        BY <4>2 DEF CatchesBelow
      <4>. QED
        BY <4>1, <4>3
    <3>. QED
      BY <3>1, <3>2
  <2>. QED
    BY <1>7, <2>1, <2>2 DEF BufferInv, IsInnermost
<1>10. Undisturbs
  BY <1>1, <1>3 DEF Undisturbs
<1>. QED
  BY <1>5, <1>6, <1>8, <1>9, <1>10 DEF IInv

-------------------------------------------------------------------------------
(* The theorems *)

LEMMA InitInv ==
  ASSUME Init
  PROVE  IInv
<1>1. /\ frames = <<>> /\ stk = <<>> /\ current_env = Null /\ call_stack_pointer = 0
      /\ ct_current_jmp_buf = 0 /\ envref = [o \in Ops |-> 1]
  BY DEF Init
<1>2. IsSequence(frames) /\ IsSequence(stk) /\ Len(frames) = 0 /\ Len(stk) = 0
  <2>1. <<>> \in Seq({}) /\ Len(<<>>) = 0
    BY EmptySeq
  <2>. QED
    BY <1>1, <2>1 DEF IsSequence
<1>3. \A i \in Int : i \notin 1 .. 0 /\ i \notin 1 .. 0 - 1 /\ i \notin 1 .. 0 + 1 - 1
  OBVIOUS
<1>4. StackInv
  <2>1. Stacked(frames, Len(stk))
    BY <1>2, <1>3 DEF Stacked
  <2>2. Functions(frames) /\ current_env \in Environments
    BY <1>1, <1>2, <1>3 DEF Functions, Environments
  <2>. QED
    BY <1>2, <2>1, <2>2 DEF StackInv
<1>5. EnvInv
  <2>1. Environed(frames, current_env)
    <3> DEFINE e == [i \in 0 .. 0 |-> current_env]
    <3>1. e \in [0 .. Len(frames) -> Environments]
      BY <1>1, <1>2 DEF Environments
    <3>2. \A i, j \in 0 .. Len(frames) : e[i] = e[j]
      BY <1>2
    <3>3. Between(frames, e)
      BY <1>2, <1>3, <3>1, <3>2 DEF Between
    <3>. QED
      BY <1>2, <3>3 DEF Environed
  <2>2. Covering(frames, envref)
    <3>1. \A o : RefsIn(frames, o) = {}
      BY <1>2, <1>3 DEF RefsIn
    <3>. QED
      BY <1>1, <3>1, FS_EmptySet DEF Covering
  <2>. QED
    BY <1>1, <2>1, <2>2 DEF EnvInv
<1>6. NamesBelow(frames, Len(frames) + 1) = {} /\ CatchesBelow(frames, Len(frames) + 1) = {}
  BY <1>2, <1>3 DEF NamesBelow, CatchesBelow
<1>7. CallInv
  BY <1>1, <1>6, FS_EmptySet DEF CallInv
<1>8. BufferInv
  BY <1>1, <1>6 DEF BufferInv, IsInnermost
<1>. QED
  BY <1>4, <1>5, <1>7, <1>8 DEF IInv

(* Every step keeps the invariant, and what lies on the stack.             *)
LEMMA NextInv ==
  ASSUME IInv, [Next]_vars
  PROVE  IInv' /\ (Undisturbs \/ UNCHANGED vars)
<1>1. ASSUME NEW f \in Mentioned, Call(f) \/ Catch(f) \/ \E t \in Tr : Transform(t, f)
      PROVE  IInv' /\ Undisturbs
  <2>1. CASE Call(f)
    BY <2>1, CallStep
  <2>2. CASE Catch(f)
    BY <2>2, CatchStep
  <2>3. ASSUME NEW t \in Tr, Transform(t, f)
        PROVE  IInv' /\ Undisturbs
    BY <2>3, TransformStep
  <2>. QED
    BY <1>1, <2>1, <2>2, <2>3
<1>2. CASE Line
  BY <1>2, LineStep
<1>3. CASE Continue
  BY <1>3, ContinueStep
<1>4. CASE FetchStale
  <2>1. UNCHANGED <<frames, stk, current_env, call_stack_pointer, ct_current_jmp_buf, envref,
                    thrown, abandoned>>
    BY <1>4 DEF FetchStale, history
  <2>. QED
    BY <2>1, NothingStep
<1>5. CASE ReturnName
  BY <1>5, ReturnNameStep
<1>6. CASE ReturnClosure
  BY <1>6, ReturnClosureStep
<1>7. CASE ReturnForm
  BY <1>7, ReturnFormStep
<1>8. CASE ReturnCatch
  BY <1>8, ReturnCatchStep
<1>9. CASE Execute
  BY <1>9, ExecuteStep
<1>10. CASE ReturnIeval
  BY <1>10, ReturnIevalStep
<1>11. CASE PushValue
  BY <1>11, PushValueStep
<1>12. CASE PopValue
  BY <1>12, PopValueStep
<1>13. CASE Throw \/ FaultThrown
  <2>1. Running /\ Thrown
    BY <1>13 DEF Throw, FaultThrown, InBasic, HasValue, Triggers, InCode
  <2>. QED
    BY <2>1, ThrownStep
<1>14. CASE FaultLoop
  BY <1>14, FaultLoopStep
<1>15. CASE EndFaultLoop \/ Error
  BY <1>15, ToTopLevelStep DEF EndFaultLoop, Error
<1>16. CASE UNCHANGED vars
  <2>1. UNCHANGED <<frames, stk, current_env, call_stack_pointer, ct_current_jmp_buf, envref,
                    thrown, abandoned>>
    BY <1>16 DEF vars, history
  <2>2. IInv'
    BY <2>1, NothingStep
  <2>. QED
    BY <1>16, <2>2
<1>17. CASE Next
  BY <1>1, <1>2, <1>3, <1>4, <1>5, <1>6, <1>7, <1>8, <1>9, <1>10, <1>11, <1>12, <1>13,
     <1>14, <1>15, <1>17 DEF Next
<1>. QED
  BY <1>16, <1>17

(* In every behaviour the frames lie on the stack in their order, each     *)
(* between two environments, with a reference counted for each that they   *)
(* hold, and the call stack and the jump buffer are those of the frames    *)
(* (eval.c: apply, b_closure, iexecute, icatch, ithrow).                   *)
THEOREM EvaluatorInvariance == Spec => []IInv
<1>1. Init => IInv
  BY InitInv
<1>2. IInv /\ [Next]_vars => IInv'
  BY NextInv
<1>. QED
  BY <1>1, <1>2, PTL DEF Spec

(* No step of the evaluator changes what lies on the Nial stack below the  *)
(* functions that run, and each leaves one value in place of its argument  *)
(* (eval.c: apply, prologue, epilogue, icatch).                            *)
THEOREM StackUndisturbed == Spec => Undisturbed
<1> DEFINE Steps == /\ \A i \in DOMAIN frames \cap DOMAIN frames' :
                         LET n == frames'[i].floor
                         IN  frames[i].floor = n =>
                               Len(stk') >= n /\ Prefix(stk', n) = Prefix(stk, n)
                    /\ Len(frames') < Len(frames) /\ frames' # <<>> =>
                         Len(stk') = frames[Len(frames') + 1].entry
<1>1. Undisturbs => Steps
  BY DEF Undisturbs
<1>2. IInv /\ [Next]_vars => [Steps]_vars
  BY <1>1, NextInv
<1>3. Undisturbed <=> [][Steps]_vars
  BY DEF Undisturbed
<1>. HIDE DEF Steps
<1>. QED
  BY <1>2, <1>3, EvaluatorInvariance, PTL DEF Spec

(* The references that the frames hold to an environment are counted, and  *)
(* with them that of the operation, until a throw leaves an operation      *)
(* (eval.c: b_closure, iexecute).                                          *)
THEOREM EnvironmentsCovered == Spec => []EnvCovered
<1>1. IInv => EnvCovered
  <2>. SUFFICES ASSUME IInv, thrown = "no", NEW o \in Ops
                PROVE  envref[o] > Cardinality(Held(o))
    BY DEF EnvCovered
  <2>1. IsSequence(frames) /\ Covering(frames, envref)
    BY DEF IInv, StackInv, Stacked, EnvInv
  <2>2. DOMAIN frames = 1 .. Len(frames)
    BY <2>1, SequenceFacts
  <2>3. o # Null
    BY EvaluatorConstants
  <2>4. Held(o) = RefsIn(frames, o)
    BY <2>2, <2>3 DEF Held, RefsIn, Refers
  <2>. QED
    BY <2>1, <2>4 DEF Covering
<1>. QED
  BY <1>1, EvaluatorInvariance, PTL

(* The call stack has an entry for each name that is active, and a throw   *)
(* finds the innermost catch, whatever has been thrown past               *)
(* (eval.c: icatch, ithrow, cleanup_ws).                                   *)
THEOREM Unwinds == Spec => []Unwound
<1>1. IInv => Unwound
  <2>. SUFFICES ASSUME IInv PROVE CallStack /\ Innermost
    BY DEF Unwound
  <2>1. IsSequence(frames)
    BY DEF IInv, StackInv, Stacked
  <2>2. DOMAIN frames = 1 .. Len(frames) /\ Len(frames) \in Nat
    BY <2>1, SequenceFacts
  <2>3. Len(frames) + 1 - 1 = Len(frames)
    BY <2>2
  <2>4. /\ NamesBelow(frames, Len(frames) + 1) = {i \in DOMAIN frames : frames[i].kind = "name"}
        /\ CatchesBelow(frames, Len(frames) + 1) =
             {i \in DOMAIN frames : frames[i].kind = "catch"}
    BY <2>2, <2>3 DEF NamesBelow, CatchesBelow
  <2>5. CallStack
    BY <2>4 DEF IInv, CallInv, CallStack
  <2>6. Innermost
    BY <2>4 DEF IInv, BufferInv, IsInnermost, Innermost
  <2>. QED
    BY <2>5, <2>6
<1>. QED
  BY <1>1, EvaluatorInvariance, PTL

-------------------------------------------------------------------------------
(***************************************************************************)
(* The scopes. A form and a closure save stack pointers on the Nial stack, *)
(* each in a cell of its own; undone from the top, they give the pointers  *)
(* that were in force at every frame.                                      *)
(***************************************************************************)
Index(o, t) == CHOOSE i \in DOMAIN Env[o] : Env[o][i] = t

Saves(r, t) ==
  \/ r.kind = "form" /\ t = r.op
  \/ r.kind = "closure" /\ t \in Tables(r.env)

Cell(r, t) == IF r.kind = "form" THEN r.floor - 1 ELSE r.floor + Index(r.env, t)

(* The highest cell of r. *)
Reach(r) ==
  IF r.kind = "form" THEN r.floor - 1
  ELSE IF r.kind = "closure" THEN r.floor + Len(Env[r.env]) ELSE 0

(* The names that g refers to are where s says: g can be entered there. *)
Linked(g, s) == \A t \in Tables(g.op) \ {g.op} : t \in DOMAIN s /\ g.links[t] = s[t]

Simple(f, s) ==
  /\ f.is = "name" => f.of.is = "form" /\ f.of.arg = NoFun /\ Linked(f.of, s)
  /\ f.is = "form" => f.arg = NoFun /\ Linked(f, s)
  /\ f.is # "closure"

Carried(f) == [t \in Tables(f.env) |-> f.sps[Index(f.env, t)]]

Nowhere == [t \in {} |-> 0]

(* f can be entered anywhere. *)
Portable(f) == IF f.is = "closure" THEN Simple(f.of, Carried(f)) ELSE Simple(f, Nowhere)

(* f can be entered where the stack pointers are s. *)
Fits(f, s) ==
  IF f.is = "closure" THEN Portable(f)
  ELSE IF f.is = "form" THEN Linked(f, s) /\ Portable(f.arg) ELSE Simple(f, s)

(* The frame r, with the pointers b below it and a above it. *)
Lies(r, st, b, a) ==
  /\ \A t \in Ops : b[t] = IF Saves(r, t) THEN st[Cell(r, t)] ELSE a[t]
  /\ r.kind = "form" =>
       /\ Portable(r.arg) /\ DOMAIN r.links = Tables(r.op)
       /\ \A t \in Tables(r.op) : a[t] = r.links[t]

(* The form whose code the function of fs[i] runs. *)
IsContext(fs, i, c) ==
  /\ c = 0 \/ fs[c].kind = "form"
  /\ \A j \in 1 .. i : fs[j].kind = "form" => j <= c

Sees(fs, i, s, env) ==
  \A c \in 0 .. i : IsContext(fs, i, c) =>
    /\ env = IF c = 0 THEN Null ELSE fs[c].op
    /\ c # 0 => \A t \in Tables(fs[c].op) : s[t] = fs[c].links[t]

Reading == {"ieval", "faultloop", "form"}

Scoped(fs, st, S, e) ==
  LET n == Len(fs)
  IN  /\ \A i \in 1 .. n : Lies(fs[i], st, S[i - 1], S[i]) /\ Changes(fs[i], e[i - 1], e[i])
      /\ \A i, j \in 0 .. n : i <= j /\ Quiet(fs, i, j) =>
           e[i] = e[j] /\ \A t \in Ops : S[i][t] = S[j][t]
      /\ \A i \in 1 .. n : fs[i].kind \in Reading => Sees(fs, i, S[i], e[i])

InForce(fs, st, s, env) ==
  \E S, e : /\ Scoped(fs, st, S, e)
            /\ e[Len(fs)] = env /\ \A t \in Ops : S[Len(fs)][t] = s[t]

(* Only the last frame has something still to call. *)
Waiting(fs) == \A i \in 1 .. Len(fs) - 1 : fs[i].todo = NoFun

ScopeInv ==
  /\ sp = [t \in Ops |-> sp[t]]
  /\ Waiting(frames)
  /\ thrown # "line" /\ Len(frames) > 0 =>
       InForce(frames, stk, sp, current_env) /\ Fits(Frame.todo, sp)

LEMMA TablesFacts ==
  ASSUME NEW o \in Ops
  PROVE  o \in Tables(o) /\ Tables(o) \subseteq Ops
<1>1. Env[o] \in Seq(Ops) /\ Len(Env[o]) > 0 /\ Env[o][1] = o
  BY EvaluatorConstants
<1>2. Len(Env[o]) \in Nat /\ DOMAIN Env[o] = 1 .. Len(Env[o])
  BY <1>1, LenProperties
<1>3. \A i \in 1 .. Len(Env[o]) : Env[o][i] \in Ops
  BY <1>1, ElementOfSeq
<1>4. 1 \in 1 .. Len(Env[o])
  BY <1>1, <1>2
<1>. QED
  BY <1>1, <1>2, <1>3, <1>4 DEF Tables

LEMMA IndexFacts ==
  ASSUME NEW o \in Ops, NEW t \in Tables(o)
  PROVE  Index(o, t) \in 1 .. Len(Env[o]) /\ Index(o, t) \in DOMAIN Env[o]
         /\ Env[o][Index(o, t)] = t
<1>1. \E i \in DOMAIN Env[o] : Env[o][i] = t
  BY DEF Tables
<1>2. Index(o, t) \in DOMAIN Env[o] /\ Env[o][Index(o, t)] = t
  BY <1>1 DEF Index
<1>3. DOMAIN Env[o] = 1 .. Len(Env[o])
  BY EvaluatorConstants, LenProperties
<1>. QED
  BY <1>2, <1>3

(* An operation form is written in the one whose environment it extends. *)
LEMMA EnclosingTables ==
  ASSUME NEW o \in Ops, NEW t \in Tables(o), t # o
  PROVE  Len(Env[o]) > 1 /\ t \in Tables(Env[o][2])
<1>1. PICK i \in DOMAIN Env[o] : Env[o][i] = t
  BY DEF Tables
<1>2. /\ Env[o] \in Seq(Ops) /\ Len(Env[o]) > 0 /\ Env[o][1] = o
      /\ Len(Env[o]) > 1 => Tail(Env[o]) = Env[Env[o][2]]
  BY EvaluatorConstants
<1>3. Len(Env[o]) \in Nat /\ DOMAIN Env[o] = 1 .. Len(Env[o])
  BY <1>2, LenProperties
<1>4. i \in 2 .. Len(Env[o])
  BY <1>1, <1>2, <1>3
<1>5. Len(Env[o]) > 1 /\ i - 1 \in 1 .. Len(Env[o]) - 1 /\ i - 1 + 1 = i
  BY <1>3, <1>4
<1>6. Env[o] # <<>>
  BY <1>2, EmptySeq
<1>7. /\ Tail(Env[o]) \in Seq(Ops) /\ Len(Tail(Env[o])) = Len(Env[o]) - 1
      /\ \A j \in 1 .. Len(Tail(Env[o])) : Tail(Env[o])[j] = Env[o][j + 1]
  BY <1>2, <1>6, HeadTailProperties
<1>8. DOMAIN Tail(Env[o]) = 1 .. Len(Env[o]) - 1
  BY <1>7, LenProperties
<1>9. Tail(Env[o])[i - 1] = t
  BY <1>1, <1>5, <1>7
<1>. QED
  BY <1>2, <1>5, <1>8, <1>9 DEF Tables

LEMMA OwnTable ==
  ASSUME NEW o \in Ops, Len(Env[o]) = 1
  PROVE  Tables(o) \ {o} = {}
BY EnclosingTables

(* The cells of a frame are under what the frames above it may change. *)
LEMMA CellInReach ==
  ASSUME NEW r, Shape(r), Heights(r), NEW t, Saves(r, t)
  PROVE  Cell(r, t) \in 1 .. Reach(r)
<1>1. CASE r.kind = "form"
  <2>1. r.floor \in Nat /\ r.floor > 2
    BY <1>1, ShapeFacts DEF Heights
  <2>. QED
    BY <1>1, <2>1 DEF Cell, Reach
<1>2. CASE r.kind = "closure" /\ t \in Tables(r.env)
  <2>1. r.floor \in Nat /\ r.env \in Ops
    BY <1>2, ShapeFacts
  <2>2. Index(r.env, t) \in 1 .. Len(Env[r.env]) /\ Len(Env[r.env]) \in Nat
    BY <1>2, <2>1, IndexFacts, EnvLength
  <2>. QED
    BY <1>2, <2>1, <2>2 DEF Cell, Reach
<1>. QED
  BY <1>1, <1>2 DEF Saves

LEMMA BelowEntry ==
  ASSUME NEW r, Shape(r), Heights(r)
  PROVE  r.entry - 1 <= Below(r) /\ Below(r) \in Nat
<1>1. r.kind \in {"ieval", "form", "name", "closure", "catch", "faultloop"}
      /\ r.floor \in Nat /\ r.entry \in Nat
  BY ShapeFacts
<1>2. r.kind = "ieval" => r.entry - 1 <= r.floor
  BY <1>1 DEF Heights
<1>. QED
  BY <1>1, <1>2, BelowFloor DEF Below, Heights

LEMMA ReachBelow ==
  ASSUME NEW fs, NEW k, Stacked(fs, k), NEW i \in 1 .. Len(fs), NEW j \in 1 .. Len(fs), i < j
  PROVE  Reach(fs[i]) <= Below(fs[j]) /\ Reach(fs[i]) \in Int /\ Below(fs[j]) \in Nat
<1>1. Len(fs) \in Nat
  BY SequenceFacts DEF Stacked
<1>2. i + 1 \in 1 .. Len(fs) /\ i # Len(fs) /\ (j = i + 1 \/ i + 1 < j)
  BY <1>1
<1> DEFINE r == fs[i]
           q == fs[i + 1]
<1>3. /\ Shape(r) /\ Heights(r) /\ Shape(q) /\ Heights(q) /\ Shape(fs[j]) /\ Heights(fs[j])
      /\ AtRest(r, q.entry) /\ r.floor <= Below(fs[j])
      /\ i + 1 < j => q.floor <= Below(fs[j])
  BY <1>2 DEF Stacked
<1>. HIDE DEF r, q
<1>4. /\ r.floor \in Nat /\ q.floor \in Nat /\ q.entry \in Nat /\ Below(fs[j]) \in Nat
      /\ Below(q) \in Nat /\ Below(q) <= q.floor /\ q.entry - 1 <= Below(q)
      /\ r.kind = "closure" => r.env \in Ops
  BY <1>3, ShapeFacts, BelowFloor, BelowEntry
<1>5. Below(q) <= Below(fs[j])
  <2>1. CASE j = i + 1
    BY <1>4, <2>1 DEF q
  <2>2. CASE i + 1 < j
    BY <1>3, <1>4, <2>2
  <2>. QED
    BY <1>2, <2>1, <2>2
<1>6. CASE r.kind = "form"
  BY <1>3, <1>4, <1>6 DEF Reach, r
<1>7. CASE r.kind = "closure"
  <2>1. Len(Env[r.env]) \in Nat
    BY <1>4, <1>7, EnvLength
  <2>2. q.entry = r.floor + Len(Env[r.env]) + 1
    BY <1>3, <1>7 DEF AtRest
  <2>3. Reach(r) = r.floor + Len(Env[r.env])
    BY <1>7 DEF Reach
  <2>4. Reach(r) \in Int /\ Reach(r) <= Below(q)
    BY <1>4, <2>1, <2>2, <2>3
  <2>. QED
    BY <1>4, <1>5, <2>4 DEF r
<1>8. CASE r.kind \notin {"form", "closure"}
  BY <1>4, <1>8 DEF Reach, r
<1>. QED
  BY <1>6, <1>7, <1>8

(* What the scopes depend on in a frame. *)
SameScope(r, q) ==
  /\ q.kind = r.kind /\ q.floor = r.floor
  /\ r.kind = "form" => q = r
  /\ r.kind = "closure" => q.env = r.env

LEMMA LikeScope ==
  ASSUME NEW fs, NEW k, Stacked(fs, k), NEW gs, Like(fs, gs)
  PROVE  \A i \in 1 .. Len(fs) :
           /\ SameScope(fs[i], gs[i])
           /\ \A b, a : Changes(gs[i], b, a) <=> Changes(fs[i], b, a)
<1>. SUFFICES ASSUME NEW i \in 1 .. Len(fs)
              PROVE  /\ SameScope(fs[i], gs[i])
                     /\ \A b, a : Changes(gs[i], b, a) <=> Changes(fs[i], b, a)
  OBVIOUS
<1>1. Shape(fs[i]) /\ Alike(fs[i], gs[i])
  BY DEF Stacked, Like
<1>2. /\ gs[i].kind = fs[i].kind /\ gs[i].floor = fs[i].floor
      /\ fs[i].kind = "closure" => gs[i].env = fs[i].env
  BY <1>1, AlikeFacts
<1>3. fs[i].kind = "form" => gs[i] = fs[i]
  BY <1>1, ShapeFacts DEF Alike
<1>4. \A b, a : Changes(gs[i], b, a) <=> Changes(fs[i], b, a)
  BY LikeSame
<1>. QED
  BY <1>2, <1>3, <1>4 DEF SameScope

LEMMA LiesSame ==
  ASSUME NEW r, Shape(r), Heights(r), NEW q, SameScope(r, q), NEW st, NEW st2,
         \A k \in 1 .. Reach(r) : st2[k] = st[k], NEW b, NEW a, Lies(r, st, b, a)
  PROVE  Lies(q, st2, b, a)
<1>1. ASSUME NEW t \in Ops
      PROVE  b[t] = IF Saves(q, t) THEN st2[Cell(q, t)] ELSE a[t]
  <2>1. Saves(q, t) <=> Saves(r, t)
    BY DEF Saves, SameScope
  <2>2. Saves(r, t) => Cell(q, t) = Cell(r, t)
    BY DEF Saves, Cell, SameScope
  <2>3. Saves(r, t) => st2[Cell(r, t)] = st[Cell(r, t)]
    BY CellInReach
  <2>4. b[t] = IF Saves(r, t) THEN st[Cell(r, t)] ELSE a[t]
    BY DEF Lies
  <2>. QED
    BY <2>1, <2>2, <2>3, <2>4
<1>2. q.kind = "form" => q = r
  BY DEF SameScope
<1>. QED
  BY <1>1, <1>2 DEF Lies

LEMMA SeesSame ==
  ASSUME NEW fs, NEW gs, NEW i \in Nat, \A j \in 1 .. i : SameScope(fs[j], gs[j]),
         NEW s, NEW env, Sees(fs, i, s, env)
  PROVE  Sees(gs, i, s, env)
<1>. SUFFICES ASSUME NEW c \in 0 .. i, IsContext(gs, i, c)
              PROVE  /\ env = IF c = 0 THEN Null ELSE gs[c].op
                     /\ c # 0 => \A t \in Tables(gs[c].op) : s[t] = gs[c].links[t]
  BY DEF Sees
<1>1. c # 0 => c \in 1 .. i
  OBVIOUS
<1>2. \A j \in 1 .. i : gs[j].kind = fs[j].kind
  BY DEF SameScope
<1>3. IsContext(fs, i, c)
  BY <1>1, <1>2 DEF IsContext
<1>4. c # 0 => fs[c].kind = "form"
  BY <1>3 DEF IsContext
<1>5. c # 0 => gs[c] = fs[c]
  BY <1>1, <1>4 DEF SameScope
<1>6. /\ env = IF c = 0 THEN Null ELSE fs[c].op
      /\ c # 0 => \A t \in Tables(fs[c].op) : s[t] = fs[c].links[t]
  BY <1>3 DEF Sees
<1>. QED
  BY <1>5, <1>6

(* Frames that are the same to the scopes, on a stack with the same cells. *)
LEMMA ScopedSame ==
  ASSUME NEW fs, NEW k, Stacked(fs, k), NEW gs, Len(gs) = Len(fs),
         \A i \in 1 .. Len(fs) :
           /\ SameScope(fs[i], gs[i])
           /\ \A b, a : Changes(gs[i], b, a) <=> Changes(fs[i], b, a),
         NEW st, NEW st2,
         \A i \in 1 .. Len(fs) : \A c \in 1 .. Reach(fs[i]) : st2[c] = st[c],
         NEW S, NEW e, Scoped(fs, st, S, e)
  PROVE  Scoped(gs, st2, S, e)
<1> DEFINE n == Len(fs)
<1>1. n \in Nat
  BY SequenceFacts DEF Stacked
<1>2. ASSUME NEW i \in 1 .. n
      PROVE  Lies(gs[i], st2, S[i - 1], S[i]) /\ Changes(gs[i], e[i - 1], e[i])
  <2>1. Shape(fs[i]) /\ Heights(fs[i])
    BY DEF Stacked
  <2>2. Lies(fs[i], st, S[i - 1], S[i]) /\ Changes(fs[i], e[i - 1], e[i])
    BY DEF Scoped
  <2>3. Lies(gs[i], st2, S[i - 1], S[i])
    BY <2>1, <2>2, LiesSame
  <2>. QED
    BY <2>2, <2>3
<1>3. ASSUME NEW i \in 0 .. n, NEW j \in 0 .. n, i <= j, Quiet(gs, i, j)
      PROVE  e[i] = e[j] /\ \A t \in Ops : S[i][t] = S[j][t]
  <2>1. \A l \in i + 1 .. j : l \in 1 .. n
    BY <1>1
  <2>2. Quiet(fs, i, j)
    BY <1>3, <2>1 DEF Quiet, SameScope
  <2>. QED
    BY <1>3, <2>2 DEF Scoped
<1>4. ASSUME NEW i \in 1 .. n, gs[i].kind \in Reading
      PROVE  Sees(gs, i, S[i], e[i])
  <2>1. Sees(fs, i, S[i], e[i])
    BY <1>4 DEF Scoped, SameScope
  <2>2. i \in Nat /\ \A j \in 1 .. i : SameScope(fs[j], gs[j])
    BY <1>1
  <2>. QED
    BY <2>1, <2>2, SeesSame
<1>. QED
  BY <1>2, <1>3, <1>4 DEF Scoped

(* The frames under the m-th. *)
LEMMA ScopedCut ==
  ASSUME NEW fs, IsSequence(fs), NEW st, NEW S, NEW e, Scoped(fs, st, S, e),
         NEW m \in 1 .. Len(fs)
  PROVE  Scoped(Prefix(fs, m - 1), st, S, e)
<1> DEFINE n == Len(fs)
           gs == Prefix(fs, m - 1)
<1>1. n \in Nat /\ m - 1 \in Nat /\ m - 1 <= n
  BY SequenceFacts
<1>2. Len(gs) = m - 1 /\ \A i \in 1 .. m - 1 : gs[i] = fs[i] /\ i \in 1 .. n
  BY <1>1, PrefixFacts
<1>. HIDE DEF gs
<1>3. \A i \in 1 .. m - 1 : Lies(gs[i], st, S[i - 1], S[i]) /\ Changes(gs[i], e[i - 1], e[i])
  BY <1>2 DEF Scoped
<1>4. ASSUME NEW i \in 0 .. m - 1, NEW j \in 0 .. m - 1, i <= j, Quiet(gs, i, j)
      PROVE  e[i] = e[j] /\ \A t \in Ops : S[i][t] = S[j][t]
  <2>1. \A l \in i + 1 .. j : gs[l] = fs[l]
    BY <1>1, <1>2
  <2>2. Quiet(fs, i, j) /\ i \in 0 .. n /\ j \in 0 .. n
    BY <1>1, <1>4, <2>1 DEF Quiet
  <2>. QED
    BY <1>4, <2>2 DEF Scoped
<1>5. ASSUME NEW i \in 1 .. m - 1, gs[i].kind \in Reading
      PROVE  Sees(gs, i, S[i], e[i])
  <2>1. Sees(fs, i, S[i], e[i])
    BY <1>2, <1>5 DEF Scoped
  <2>2. i \in Nat /\ \A j \in 1 .. i : SameScope(fs[j], gs[j])
    BY <1>1, <1>2 DEF SameScope
  <2>. QED
    BY <2>1, <2>2, SeesSame
<1>. QED
  BY <1>2, <1>3, <1>4, <1>5 DEF Scoped, gs

LEMMA EmptyInForce ==
  ASSUME NEW fs, Len(fs) = 0, NEW st, NEW s, NEW env
  PROVE  InForce(fs, st, s, env)
<1> DEFINE S == [i \in {0} |-> s]
           e == [i \in {0} |-> env]
<1>1. \A i \in Int : i \notin 1 .. 0
  OBVIOUS
<1>2. S[0] = s /\ e[0] = env /\ \A i \in 0 .. 0 : i = 0
  OBVIOUS
<1>. HIDE DEF S, e
<1>3. Scoped(fs, st, S, e)
  BY <1>1, <1>2 DEF Scoped
<1>. QED
  BY <1>2, <1>3 DEF InForce

LEMMA ForcePush ==
  ASSUME NEW fs, IsSequence(fs), NEW st, NEW s, NEW env, InForce(fs, st, s, env),
         NEW r, NEW gs, Extends(gs, fs, r), NEW s2, NEW env2,
         Lies(r, st, s, s2), Changes(r, env, env2),
         r.kind \in Reading => Sees(gs, Len(fs) + 1, s2, env2)
  PROVE  InForce(gs, st, s2, env2)
<1> DEFINE n == Len(fs)
<1>1. PICK S, e : /\ Scoped(fs, st, S, e)
                  /\ e[n] = env /\ \A t \in Ops : S[n][t] = s[t]
  BY DEF InForce
<1> DEFINE T == [i \in 0 .. n + 1 |-> IF i = n + 1 THEN s2 ELSE S[i]]
           d == [i \in 0 .. n + 1 |-> IF i = n + 1 THEN env2 ELSE e[i]]
<1>2. n \in Nat /\ Len(gs) = n + 1 /\ gs[n + 1] = r /\ \A i \in 1 .. n : gs[i] = fs[i]
  BY SequenceFacts DEF Extends
<1>3. /\ T[n + 1] = s2 /\ d[n + 1] = env2
      /\ \A i \in 0 .. n : T[i] = S[i] /\ d[i] = e[i]
  BY <1>2
<1>. HIDE DEF T, d
<1>4. \A i \in 1 .. n + 1 : i \in 1 .. n \/ i = n + 1
  BY <1>2
<1>5. n \in 0 .. n /\ n + 1 - 1 = n /\ \A i \in 1 .. n : i \in 0 .. n /\ i - 1 \in 0 .. n
  BY <1>2
<1>6. ASSUME NEW i \in 1 .. n + 1
      PROVE  Lies(gs[i], st, T[i - 1], T[i]) /\ Changes(gs[i], d[i - 1], d[i])
  <2>1. CASE i \in 1 .. n
    BY <1>1, <1>2, <1>3, <1>5, <2>1 DEF Scoped
  <2>2. CASE i = n + 1
    <3>1. T[i - 1] = S[n] /\ T[i] = s2 /\ d[i - 1] = env /\ d[i] = env2 /\ gs[i] = r
      BY <1>1, <1>2, <1>3, <1>5, <2>2
    <3>2. Lies(r, st, S[n], s2)
      BY <1>1 DEF Lies
    <3>. QED
      BY <3>1, <3>2
  <2>. QED
    BY <1>4, <2>1, <2>2
<1>7. r.kind \notin Changing => env2 = env /\ \A t \in Ops : s2[t] = s[t]
  BY DEF Changes, Lies, Saves, Changing
<1>8. ASSUME NEW i \in 0 .. n + 1, NEW j \in 0 .. n + 1, i <= j, Quiet(gs, i, j)
      PROVE  d[i] = d[j] /\ \A t \in Ops : T[i][t] = T[j][t]
  <2>1. CASE i = j
    BY <2>1
  <2>2. CASE i < j /\ j \in 0 .. n
    <3>1. Quiet(fs, i, j)
      BY <1>2, <1>8, <2>2 DEF Quiet
    <3>2. i \in 0 .. n
      BY <1>2, <2>2
    <3>. QED
      BY <1>1, <1>3, <1>8, <2>2, <3>1, <3>2 DEF Scoped
  <2>3. CASE i < j /\ j = n + 1
    <3>1. n + 1 \in i + 1 .. j /\ i \in 0 .. n /\ i <= n
      BY <1>2, <2>3
    <3>2. r.kind \notin Changing
      BY <1>2, <1>8, <3>1 DEF Quiet
    <3>3. \A m \in i + 1 .. n : m \in i + 1 .. j /\ gs[m] = fs[m]
      BY <1>2, <2>3
    <3>4. Quiet(fs, i, n)
      BY <1>8, <3>3 DEF Quiet
    <3>5. e[i] = e[n] /\ \A t \in Ops : S[i][t] = S[n][t]
      BY <1>1, <1>5, <3>1, <3>4 DEF Scoped
    <3>. QED
      BY <1>1, <1>3, <1>7, <2>3, <3>1, <3>2, <3>5
  <2>. QED
    BY <1>2, <1>8, <2>1, <2>2, <2>3
<1>9. ASSUME NEW i \in 1 .. n + 1, gs[i].kind \in Reading
      PROVE  Sees(gs, i, T[i], d[i])
  <2>1. CASE i \in 1 .. n
    <3>1. Sees(fs, i, S[i], e[i])
      BY <1>1, <1>2, <1>9, <2>1 DEF Scoped
    <3>2. i \in Nat /\ \A j \in 1 .. i : SameScope(fs[j], gs[j])
      BY <1>2, <2>1 DEF SameScope
    <3>3. Sees(gs, i, S[i], e[i])
      BY <3>1, <3>2, SeesSame
    <3>. QED
      BY <1>3, <1>5, <2>1, <3>3
  <2>2. CASE i = n + 1
    BY <1>2, <1>3, <1>9, <2>2
  <2>. QED
    BY <1>4, <2>1, <2>2
<1>10. Scoped(gs, st, T, d)
  BY <1>2, <1>6, <1>8, <1>9 DEF Scoped
<1>. QED
  BY <1>2, <1>3, <1>10 DEF InForce

(* What was in force under the m-th frame, when those above it have        *)
(* changed nothing.                                                        *)
LEMMA ForceCut ==
  ASSUME NEW fs, IsSequence(fs), NEW st, NEW s, NEW env, InForce(fs, st, s, env),
         NEW m \in 1 .. Len(fs), Quiet(fs, m, Len(fs)),
         NEW s2, \A t \in Ops : s2[t] = IF Saves(fs[m], t) THEN st[Cell(fs[m], t)] ELSE s[t]
  PROVE  InForce(Prefix(fs, m - 1), st, s2, Before(fs[m], env))
<1> DEFINE n == Len(fs)
           r == fs[m]
<1>1. PICK S, e : /\ Scoped(fs, st, S, e)
                  /\ e[n] = env /\ \A t \in Ops : S[n][t] = s[t]
  BY DEF InForce
<1>2. n \in Nat /\ m \in 0 .. n /\ n \in 0 .. n /\ m <= n /\ m - 1 \in Nat /\ m - 1 <= n
  BY SequenceFacts
<1>3. e[m] = env /\ \A t \in Ops : S[m][t] = s[t]
  BY <1>1, <1>2 DEF Scoped
<1>4. Lies(r, st, S[m - 1], S[m]) /\ Changes(r, e[m - 1], e[m])
  BY <1>1 DEF Scoped
<1>5. e[m - 1] = Before(r, env)
  BY <1>3, <1>4 DEF Changes, Before, Changing
<1>6. \A t \in Ops : S[m - 1][t] = s2[t]
  BY <1>3, <1>4 DEF Lies
<1>7. Len(Prefix(fs, m - 1)) = m - 1
  BY <1>2, PrefixFacts
<1>8. Scoped(Prefix(fs, m - 1), st, S, e)
  BY <1>1, ScopedCut
<1>. QED
  BY <1>5, <1>6, <1>7, <1>8 DEF InForce

LEMMA ForceSame ==
  ASSUME NEW fs, NEW k, Stacked(fs, k), NEW gs, Len(gs) = Len(fs),
         \A i \in 1 .. Len(fs) :
           /\ SameScope(fs[i], gs[i])
           /\ \A b, a : Changes(gs[i], b, a) <=> Changes(fs[i], b, a),
         NEW st, NEW st2,
         \A i \in 1 .. Len(fs) : \A c \in 1 .. Reach(fs[i]) : st2[c] = st[c],
         NEW s, NEW env, InForce(fs, st, s, env)
  PROVE  InForce(gs, st2, s, env)
<1>1. PICK S, e : /\ Scoped(fs, st, S, e)
                  /\ e[Len(fs)] = env /\ \A t \in Ops : S[Len(fs)][t] = s[t]
  BY DEF InForce
<1>2. Scoped(gs, st2, S, e)
  BY <1>1, ScopedSame
<1>. QED
  BY <1>1, <1>2 DEF InForce

(* The display, in the top frame. *)
LEMMA ForceSees ==
  ASSUME NEW fs, IsSequence(fs), Len(fs) > 0, NEW st, NEW s, NEW env,
         InForce(fs, st, s, env), Last(fs).kind \in Reading
  PROVE  \A c \in 0 .. Len(fs) : IsContext(fs, Len(fs), c) =>
           /\ env = IF c = 0 THEN Null ELSE fs[c].op
           /\ c # 0 => \A t \in Tables(fs[c].op) : t \in Ops => s[t] = fs[c].links[t]
<1>1. PICK S, e : /\ Scoped(fs, st, S, e)
                  /\ e[Len(fs)] = env /\ \A t \in Ops : S[Len(fs)][t] = s[t]
  BY DEF InForce
<1>2. Len(fs) \in 1 .. Len(fs)
  BY SequenceFacts
<1>3. Sees(fs, Len(fs), S[Len(fs)], e[Len(fs)])
  BY <1>1, <1>2 DEF Scoped, Last
<1>. QED
  BY <1>1, <1>3 DEF Sees

LEMMA ForceArg ==
  ASSUME NEW fs, NEW st, NEW s, NEW env, InForce(fs, st, s, env),
         NEW i \in 1 .. Len(fs), fs[i].kind = "form"
  PROVE  Portable(fs[i].arg) /\ DOMAIN fs[i].links = Tables(fs[i].op)
BY DEF InForce, Scoped, Lies

(* A set of numbers has a greatest one, if they have a bound. *)
LEMMA Greatest ==
  ASSUME NEW n \in Nat, NEW S \in SUBSET (1 .. n), S # {}
  PROVE  \E x \in S : \A y \in S : y <= x
<1> DEFINE D == {d \in Nat : n - d \in S}
<1>1. PICK x \in S : TRUE
  OBVIOUS
<1>2. \A y \in S : y \in 1 .. n
  OBVIOUS
<1>3. \A y \in S : n - y \in Nat /\ n - (n - y) = y /\ y \in Int
  BY <1>2
<1>4. \A y \in S : n - y \in D
  BY <1>3
<1>5. D # {} /\ D \in SUBSET Nat
  BY <1>1, <1>4
<1>6. IsWellFoundedOn(OpToRel(<, Nat), Nat)
  BY NatLessThanWellFounded
<1>. HIDE DEF D
<1>7. \E d \in D : \A c \in D : ~ (<<c, d>> \in OpToRel(<, Nat))
  BY <1>5, <1>6, WFMin
<1>8. PICK d \in D : \A c \in D : ~ (c < d)
  BY <1>5, <1>7 DEF OpToRel
<1>9. d \in Nat /\ n - d \in S
  BY <1>8 DEF D
<1>10. ASSUME NEW y \in S
       PROVE  y <= n - d
  <2>1. ~ (n - y < d) /\ y \in Int /\ n - y \in Nat
    BY <1>3, <1>4, <1>8
  <2>. QED
    BY <1>9, <2>1
<1>. QED
  BY <1>9, <1>10

LEMMA ContextIs ==
  ASSUME IsSequence(frames)
  PROVE  Context \in 0 .. Len(frames) /\ IsContext(frames, Len(frames), Context)
<1> DEFINE n == Len(frames)
           forms == {i \in DOMAIN frames : frames[i].kind = "form"}
<1>1. n \in Nat /\ DOMAIN frames = 1 .. n
  BY SequenceFacts
<1>2. Context = IF forms = {} THEN 0 ELSE CHOOSE i \in forms : \A j \in forms : j <= i
  BY DEF Context
<1>3. forms \in SUBSET (1 .. n) /\ \A i \in 1 .. n : frames[i].kind = "form" => i \in forms
  BY <1>1
<1>4. \A i \in forms : frames[i].kind = "form"
  OBVIOUS
<1>. HIDE DEF forms
<1>5. CASE forms = {}
  <2>1. Context = 0
    BY <1>2, <1>5
  <2>2. 0 \in 0 .. n
    BY <1>1
  <2>. QED
    BY <1>3, <1>5, <2>1, <2>2 DEF IsContext
<1>6. CASE forms # {}
  <2>1. \E i \in forms : \A j \in forms : j <= i
    BY <1>1, <1>3, <1>6, Greatest
  <2>2. Context \in forms /\ \A j \in forms : j <= Context
    BY <1>2, <1>6, <2>1
  <2>3. Context \in 1 .. n /\ frames[Context].kind = "form"
    BY <1>3, <1>4, <2>2
  <2>4. Context \in 0 .. n
    BY <1>1, <2>3
  <2>. QED
    BY <1>3, <2>2, <2>3, <2>4 DEF IsContext
<1>. QED
  BY <1>5, <1>6

(* Where code runs, or is about to, its names are where they should be. *)
Shows ==
  /\ current_env = IF Context = 0 THEN Null ELSE frames[Context].op
  /\ DOMAIN Visible = IF Context = 0 THEN {} ELSE Tables(current_env)
  /\ Context # 0 => current_env \in Ops
  /\ \A t \in DOMAIN Visible : t \in Ops /\ sp[t] = Visible[t]

LEMMA Shown ==
  ASSUME IInv, Running, Frame.kind \in Reading, InForce(frames, stk, sp, current_env)
  PROVE  Shows
<1>1. StackInv /\ IsSequence(frames) /\ Stacked(frames, Len(stk))
  BY DEF IInv, StackInv, Stacked
<1>2. Len(frames) > 0 /\ Last(frames).kind \in Reading
  BY <1>1, Running1 DEF Frame
<1>3. Context \in 0 .. Len(frames) /\ IsContext(frames, Len(frames), Context)
  BY <1>1, ContextIs
<1> DEFINE c == Context
<1>. HIDE DEF c
<1>4. /\ current_env = IF c = 0 THEN Null ELSE frames[c].op
      /\ c # 0 => \A t \in Tables(frames[c].op) : t \in Ops => sp[t] = frames[c].links[t]
  BY <1>1, <1>2, <1>3, ForceSees DEF c
<1>5. CASE c = 0
  <2>1. Visible = [t \in {} |-> 0]
    BY <1>5 DEF Visible, c
  <2>2. DOMAIN Visible = {}
    BY <2>1
  <2>. QED
    BY <1>4, <1>5, <2>2 DEF c, Shows
<1>6. CASE c # 0
  <2>1. c \in 1 .. Len(frames) /\ frames[c].kind = "form"
    BY <1>1, <1>3, <1>6, SequenceFacts DEF c, IsContext
  <2>2. Visible = frames[c].links
    BY <1>6 DEF Visible, c
  <2>3. Shape(frames[c])
    BY <1>1, <2>1 DEF Stacked
  <2>4. frames[c].op \in Ops
    BY <2>1, <2>3, ShapeFacts
  <2>5. DOMAIN frames[c].links = Tables(frames[c].op)
    BY <2>1, ForceArg
  <2>6. Tables(frames[c].op) \subseteq Ops
    BY <2>4, TablesFacts
  <2>. QED
    BY <1>4, <1>6, <2>2, <2>4, <2>5, <2>6 DEF c, Shows
<1>. QED
  BY <1>5, <1>6

LEMMA ScopesDisplay ==
  ASSUME IInv, ScopeInv
  PROVE  Display
<1>. SUFFICES ASSUME thrown # "line", InCode
              PROVE  /\ current_env = IF Context = 0 THEN Null ELSE frames[Context].op
                     /\ \A t \in DOMAIN Visible : sp[t] = Visible[t]
  BY DEF Display
<1>1. Running /\ Frame.kind \in Reading
  BY DEF InCode, Reading
<1>2. StackInv
  BY DEF IInv
<1>3. Len(frames) > 0
  BY <1>1, <1>2, Running1
<1>4. InForce(frames, stk, sp, current_env)
  BY <1>3 DEF ScopeInv
<1>. QED
  BY <1>1, <1>4, Shown DEF Shows

(* What operations are, and where they can be entered. *)

(* s2 has what s has. *)
Agrees(s, s2) == \A t \in DOMAIN s : t \in DOMAIN s2 /\ s2[t] = s[t]

LEMMA LinkedMore ==
  ASSUME NEW g, NEW s, NEW s2, Agrees(s, s2), Linked(g, s)
  PROVE  Linked(g, s2)
BY DEF Agrees, Linked

LEMMA SimpleMore ==
  ASSUME NEW f, NEW s, NEW s2, Agrees(s, s2), Simple(f, s)
  PROVE  Simple(f, s2)
<1>1. Linked(f, s) => Linked(f, s2)
  BY LinkedMore
<1>2. Linked(f.of, s) => Linked(f.of, s2)
  BY LinkedMore
<1>. QED
  BY <1>1, <1>2 DEF Simple

LEMMA NoFunFits ==
  ASSUME NEW s
  PROVE  Portable(NoFun) /\ Fits(NoFun, s)
<1>1. NoFun.is = "none"
  BY DEF NoFun
<1>. QED
  BY <1>1 DEF Portable, Fits, Simple

LEMMA SimpleFits ==
  ASSUME NEW f, NEW s, Simple(f, s)
  PROVE  Fits(f, s) /\ f.is # "closure"
BY NoFunFits DEF Fits, Simple

LEMMA PortableFits ==
  ASSUME NEW f, Portable(f), NEW s
  PROVE  Fits(f, s)
<1>1. CASE f.is = "closure"
  BY <1>1 DEF Fits
<1>2. CASE f.is # "closure"
  <2>1. Agrees(Nowhere, s)
    BY DEF Agrees, Nowhere
  <2>2. Simple(f, Nowhere)
    BY <1>2 DEF Portable
  <2>3. Simple(f, s)
    BY <2>1, <2>2, SimpleMore
  <2>. QED
    BY <2>3, SimpleFits
<1>. QED
  BY <1>1, <1>2

LEMMA FormFacts ==
  ASSUME NEW o, NEW a
  PROVE  /\ Form(o, a).is = "form" /\ Form(o, a).op = o /\ Form(o, a).arg = a
         /\ \A t \in Tables(o) \ {o} : Form(o, a).links[t] = Visible[t]
         /\ Name(o, a).is = "name" /\ Name(o, a).of = Form(o, a)
         /\ Name(o, a).global = (Len(Env[o]) = 1)
BY DEF Form, Name

LEMMA FormLinked ==
  ASSUME NEW o, InScope(o), NEW a, NEW s, Agrees(Visible, s)
  PROVE  Linked(Form(o, a), s)
<1>1. /\ Form(o, a).op = o
      /\ \A t \in Tables(o) \ {o} : Form(o, a).links[t] = Visible[t] /\ t \in DOMAIN Visible
  BY FormFacts DEF InScope
<1>. HIDE DEF Form
<1>. QED
  BY <1>1 DEF Linked, Agrees

(* A form is written where the names around it are visible. *)
LEMMA WrittenInScope ==
  ASSUME IInv, InCode, Shows, NEW o \in Ops, WrittenHere(o)
  PROVE  InScope(o)
<1>1. CASE Len(Env[o]) = 1
  BY <1>1, OwnTable DEF InScope
<1>2. CASE Len(Env[o]) # 1
  <2>1. Frame.kind = "form" /\ Frame.op = Env[o][2]
    BY <1>2 DEF WrittenHere
  <2>2. StackInv /\ IsSequence(frames) /\ Running
    BY DEF IInv, StackInv, Stacked, InCode
  <2>3. Len(frames) \in 1 .. Len(frames) /\ Len(frames) \in Nat
    BY <2>2, Running1
  <2>4. Context \in 0 .. Len(frames) /\ Len(frames) <= Context
    BY <2>1, <2>2, <2>3, ContextIs DEF IsContext, Frame, Last
  <2>5. Context = Len(frames) /\ Context # 0
    <3>. HIDE DEF Context
    <3>. QED
      BY <2>3, <2>4
  <2>6. DOMAIN Visible = Tables(Env[o][2])
    BY <2>1, <2>5 DEF Shows, Frame, Last
  <2>. QED
    BY <2>6, EnclosingTables DEF InScope
<1>. QED
  BY <1>1, <1>2

LEMMA MentionedSimple ==
  ASSUME IInv, InCode, Shows, NEW f \in Mentioned, NEW s, Agrees(Visible, s)
  PROVE  Simple(f, s)
<1>1. ASSUME NEW o \in Ops, InScope(o)
      PROVE  Simple(Name(o, NoFun), s) /\ Simple(Form(o, NoFun), s)
  <2>1. Linked(Form(o, NoFun), s)
    BY <1>1, FormLinked
  <2>2. /\ Form(o, NoFun).is = "form" /\ Form(o, NoFun).arg = NoFun
        /\ Name(o, NoFun).is = "name" /\ Name(o, NoFun).of = Form(o, NoFun)
    BY FormFacts
  <2>. QED
    BY <2>1, <2>2 DEF Simple
<1>2. CASE f \in {Name(o, NoFun) : o \in {o \in Ops \ (Tr \cup Anonymous) : InScope(o)}}
  BY <1>1, <1>2
<1>3. CASE f \in {Form(o, NoFun) : o \in {o \in Anonymous : WrittenHere(o)}}
  <2>1. PICK o \in Anonymous : WrittenHere(o) /\ f = Form(o, NoFun)
    BY <1>3
  <2>2. o \in Ops
    BY EvaluatorConstants
  <2>3. InScope(o)
    BY <2>1, <2>2, WrittenInScope
  <2>. QED
    BY <1>1, <2>1, <2>2, <2>3
<1>4. CASE f \in {Param(t) : t \in Tr \cap DOMAIN Visible}
  <2>1. f.is = "param"
    BY <1>4 DEF Param
  <2>. QED
    BY <2>1 DEF Simple
<1>5. CASE f = Basic
  <2>1. f.is = "basic"
    BY <1>5 DEF Basic
  <2>. QED
    BY <2>1 DEF Simple
<1>. QED
  BY <1>2, <1>3, <1>4, <1>5 DEF Mentioned

(* The name of a global operation is the same everywhere. *)
LEMMA GlobalPortable ==
  ASSUME NEW f \in Mentioned, InCode, IsGlobal(f)
  PROVE  Portable(f)
<1>1. CASE f \in {Name(o, NoFun) : o \in {o \in Ops \ (Tr \cup Anonymous) : InScope(o)}}
  <2>1. PICK o \in Ops : f = Name(o, NoFun)
    BY <1>1
  <2>2. /\ f.is = "name" /\ f.of = Form(o, NoFun) /\ f.global = (Len(Env[o]) = 1)
        /\ Form(o, NoFun).is = "form" /\ Form(o, NoFun).arg = NoFun /\ Form(o, NoFun).op = o
    BY <2>1, FormFacts
  <2>3. Len(Env[o]) = 1
    BY <2>2 DEF IsGlobal
  <2>4. Linked(Form(o, NoFun), Nowhere)
    BY <2>2, <2>3, OwnTable DEF Linked
  <2>. QED
    BY <2>2, <2>4 DEF Portable, Simple
<1>2. CASE f.is = "basic"
  BY <1>2 DEF Portable, Simple
<1>3. CASE f \in {Form(o, NoFun) : o \in {o \in Anonymous : WrittenHere(o)}}
  <2>1. f.is = "form"
    BY <1>3, FormFacts
  <2>. QED
    BY <2>1 DEF IsGlobal
<1>4. CASE f \in {Param(t) : t \in Tr \cap DOMAIN Visible}
  <2>1. f.is = "param"
    BY <1>4 DEF Param
  <2>. QED
    BY <2>1 DEF IsGlobal
<1>5. f = Basic => f.is = "basic"
  BY DEF Basic
<1>. QED
  BY <1>1, <1>2, <1>3, <1>4, <1>5 DEF Mentioned

LEMMA ParamPortable ==
  ASSUME IsSequence(frames), NEW st, NEW s, NEW env, InForce(frames, st, s, env),
         NEW t, ParamValue(t) # NoFun
  PROVE  Portable(ParamValue(t))
<1> DEFINE at == {i \in DOMAIN frames :
                    frames[i].kind = "form" /\ frames[i].op = t /\ frames[i].floor = sp[t]}
<1>1. at # {} /\ ParamValue(t) = frames[CHOOSE i \in at : TRUE].arg
  BY DEF ParamValue
<1>2. (CHOOSE i \in at : TRUE) \in at
  BY <1>1
<1>3. PICK i \in 1 .. Len(frames) : frames[i].kind = "form" /\ ParamValue(t) = frames[i].arg
  BY <1>1, <1>2, SequenceFacts
<1>4. Portable(frames[i].arg)
  BY <1>3, ForceArg
<1>. QED
  BY <1>3, <1>4

(* A closure carries the pointers of all the tables that its operation can *)
(* refer to.                                                               *)
LEMMA CarriedFacts ==
  ASSUME NEW f, current_env \in Ops
  PROVE  /\ DOMAIN Carried(Closure(f)) = Tables(current_env)
         /\ \A t \in Tables(current_env) : Carried(Closure(f))[t] = sp[t]
<1>1. Closure(f).env = current_env /\ Closure(f).sps = StackPointers(current_env)
  BY DEF Closure
<1>2. \A t \in Tables(current_env) : StackPointers(current_env)[Index(current_env, t)] = sp[t]
  BY IndexFacts DEF StackPointers
<1>. QED
  BY <1>1, <1>2 DEF Carried

LEMMA ClosedPortable ==
  ASSUME IInv, InCode, Shows, NEW f \in Mentioned, Usable(f),
         InForce(frames, stk, sp, current_env)
  PROVE  Portable(Closed(f))
<1>1. StackInv /\ IsSequence(frames) /\ current_env \in Environments
  BY DEF IInv, StackInv, Stacked
<1>2. CASE current_env = Null
  <2>1. Context = 0
    BY <1>2, EvaluatorConstants DEF Shows
  <2>2. Agrees(Visible, Nowhere)
    BY <2>1 DEF Shows, Agrees
  <2>3. Simple(f, Nowhere)
    BY <2>2, MentionedSimple
  <2>4. f.is # "closure" /\ Closed(f) = f
    BY <1>2, <2>3, SimpleFits DEF Closed
  <2>. QED
    BY <2>3, <2>4 DEF Portable
<1>3. CASE IsGlobal(f)
  <2>1. Closed(f) = f
    BY <1>3 DEF Closed
  <2>. QED
    BY <1>3, <2>1, GlobalPortable
<1>4. CASE ~(current_env = Null \/ IsGlobal(f)) /\ f.is = "param" /\ IsGlobal(ParamValue(f.tr))
  <2>1. Closed(f) = ParamValue(f.tr) /\ ParamValue(f.tr) # NoFun
    BY <1>4 DEF Closed, Usable
  <2>. QED
    BY <1>1, <2>1, ParamPortable
<1>5. CASE /\ ~(current_env = Null \/ IsGlobal(f))
           /\ ~(f.is = "param" /\ IsGlobal(ParamValue(f.tr)))
  <2>1. Closed(f) = Closure(f) /\ current_env \in Ops
    BY <1>1, <1>5 DEF Closed, Environments
  <2>2. Closure(f).is = "closure" /\ Closure(f).of = f
    BY DEF Closure
  <2>3. \A t \in DOMAIN Visible : t \in Tables(current_env) /\ sp[t] = Visible[t]
    BY DEF Shows
  <2>4. Agrees(Visible, Carried(Closure(f)))
    BY <2>1, <2>3, CarriedFacts DEF Agrees
  <2>5. Simple(f, Carried(Closure(f)))
    BY <2>4, MentionedSimple
  <2>. QED
    BY <2>1, <2>2, <2>5 DEF Portable
<1>. QED
  BY <1>2, <1>3, <1>4, <1>5

(* The scopes in each kind of step *)

LEMMA ReachSame ==
  ASSUME NEW r, NEW q, SameScope(r, q)
  PROVE  Reach(q) = Reach(r)
BY DEF SameScope, Reach

LEMMA WaitingLike ==
  ASSUME NEW fs, NEW k, Stacked(fs, k), Waiting(fs), NEW gs, Like(fs, gs)
  PROVE  Waiting(gs)
<1>1. Len(gs) = Len(fs) /\ Len(fs) \in Nat
  BY SequenceFacts DEF Like, Stacked
<1>2. ASSUME NEW i \in 1 .. Len(fs) - 1
      PROVE  gs[i].todo = NoFun
  <2>1. fs[i].todo = NoFun /\ i \in 1 .. Len(fs)
    BY <1>1 DEF Waiting
  <2>. QED
    BY <2>1 DEF Like, Alike
<1>. QED
  BY <1>1, <1>2 DEF Waiting

(* A function is called: its frame saves what it changes. *)
LEMMA PushScopes ==
  ASSUME IInv, IInv', ScopeInv, NEW fs, NEW r, Pushes(fs, r), Len(frames) > 0,
         Last(fs).todo = NoFun, thrown' = thrown, sp' = [t \in Ops |-> sp'[t]],
         thrown # "line" =>
           /\ Lies(r, stk', sp, sp') /\ Fits(r.todo, sp')
           /\ r.kind \in Reading => Sees(frames', Len(frames) + 1, sp', current_env')
  PROVE  ScopeInv'
<1> DEFINE n == Len(frames)
<1>1. /\ Like(frames, fs) /\ frames' = Append(fs, r) /\ Kept(Below(r))
      /\ Changes(r, current_env, current_env')
  BY DEF Pushes
<1>2. IsSequence(frames) /\ Stacked(frames, Len(stk)) /\ n \in Nat
  BY SequenceFacts DEF IInv, StackInv, Stacked
<1>3. IsSequence(fs) /\ Len(fs) = n
  BY <1>1 DEF Like
<1>4. Extends(frames', fs, r)
  BY <1>1, <1>3, AppendFacts
<1>5. /\ Len(frames') = n + 1 /\ frames'[n + 1] = r
      /\ \A i \in 1 .. n : frames'[i] = fs[i] /\ i \in 1 .. n + 1
  BY <1>2, <1>3, <1>4 DEF Extends
<1>6. Waiting(frames')
  <2>1. Waiting(fs)
    BY <1>1, <1>2, WaitingLike DEF ScopeInv
  <2>2. \A i \in 1 .. n : i = n \/ i \in 1 .. n - 1
    BY <1>2
  <2>3. \A i \in 1 .. n : fs[i].todo = NoFun
    BY <1>3, <2>1, <2>2 DEF Waiting, Last
  <2>4. Len(frames') - 1 = n
    BY <1>2, <1>5
  <2>. QED
    BY <1>5, <2>3, <2>4 DEF Waiting
<1>7. ASSUME thrown # "line"
      PROVE  InForce(frames', stk', sp', current_env') /\ Fits(Last(frames').todo, sp')
  <2>1. InForce(frames, stk, sp, current_env)
    BY <1>7 DEF ScopeInv
  <2>2. \A i \in 1 .. n :
          /\ SameScope(frames[i], fs[i])
          /\ \A b, a : Changes(fs[i], b, a) <=> Changes(frames[i], b, a)
    BY <1>1, <1>2, LikeScope
  <2>3. ASSUME NEW i \in 1 .. n, NEW c \in 1 .. Reach(frames[i])
        PROVE  stk'[c] = stk[c]
    <3>1. Stacked(frames', Len(stk'))
      BY DEF IInv, StackInv
    <3>2. i \in 1 .. Len(frames') /\ n + 1 \in 1 .. Len(frames') /\ i < n + 1
      BY <1>2, <1>5
    <3>3. /\ Reach(frames'[i]) <= Below(frames'[n + 1]) /\ Reach(frames'[i]) \in Int
          /\ Below(frames'[n + 1]) \in Nat
      BY <3>1, <3>2, ReachBelow
    <3>4. Reach(frames[i]) <= Below(r) /\ Reach(frames[i]) \in Int /\ Below(r) \in Nat
      BY <1>5, <2>2, <3>3, ReachSame
    <3>5. c \in 1 .. Below(r)
      BY <3>4
    <3>. QED
      BY <1>1, <3>5 DEF Kept
  <2>4. InForce(fs, stk', sp, current_env)
    BY <1>2, <1>3, <2>1, <2>2, <2>3, ForceSame
  <2>5. InForce(frames', stk', sp', current_env')
    BY <1>1, <1>3, <1>4, <1>7, <2>4, ForcePush
  <2>. QED
    BY <1>5, <1>7, <2>5 DEF Last
<1>. QED
  BY <1>6, <1>7 DEF ScopeInv, Frame

(* Functions return, and what they had saved is in force again. *)
LEMMA CutScopes ==
  ASSUME IInv, IInv', ScopeInv, NEW m, Cuts(m), sp' = [t \in Ops |-> sp'[t]],
         thrown' # "line" =>
           /\ thrown # "line" /\ Quiet(frames, m, Len(frames))
           /\ \A t \in Ops :
                sp'[t] = IF Saves(frames[m], t) THEN stk[Cell(frames[m], t)] ELSE sp[t]
  PROVE  ScopeInv'
<1> DEFINE n == Len(frames)
<1>1. /\ m \in 1 .. n /\ frames' = Prefix(frames, m - 1) /\ Kept(Below(frames[m]))
      /\ current_env' = Before(frames[m], current_env)
  BY DEF Cuts
<1>2. IsSequence(frames) /\ Stacked(frames, Len(stk)) /\ n \in Nat
      /\ Stacked(frames', Len(stk'))
  BY SequenceFacts DEF IInv, StackInv, Stacked
<1>3. m - 1 \in Nat /\ m - 1 <= n /\ n > 0
  BY <1>1, <1>2
<1>4. Len(frames') = m - 1 /\ \A i \in 1 .. m - 1 : frames'[i] = frames[i] /\ i \in 1 .. n
  BY <1>1, <1>2, <1>3, PrefixFacts
<1>5. \A i \in 1 .. m - 1 : frames'[i].todo = NoFun
  <2>1. \A i \in 1 .. m - 1 : i \in 1 .. n - 1
    BY <1>1, <1>2
  <2>. QED
    BY <1>4, <2>1 DEF ScopeInv, Waiting
<1>6. Waiting(frames')
  <2>1. \A i \in 1 .. Len(frames') - 1 : i \in 1 .. m - 1
    BY <1>1, <1>2, <1>4
  <2>. QED
    BY <1>5, <2>1 DEF Waiting
<1>7. ASSUME thrown' # "line", Len(frames') > 0
      PROVE  InForce(frames', stk', sp', current_env') /\ Fits(Last(frames').todo, sp')
  <2>1. InForce(frames, stk, sp, current_env)
    BY <1>3, <1>7 DEF ScopeInv
  <2>2. InForce(frames', stk, sp', current_env')
    BY <1>1, <1>2, <1>7, <2>1, ForceCut
  <2>3. ASSUME NEW i \in 1 .. Len(frames'), NEW c \in 1 .. Reach(frames'[i])
        PROVE  stk'[c] = stk[c]
    <3>1. i \in 1 .. n /\ i < m /\ frames'[i] = frames[i]
      BY <1>1, <1>2, <1>4
    <3>2. /\ Reach(frames[i]) <= Below(frames[m]) /\ Reach(frames[i]) \in Int
          /\ Below(frames[m]) \in Nat
      BY <1>1, <1>2, <3>1, ReachBelow
    <3>3. c \in 1 .. Below(frames[m])
      BY <3>1, <3>2
    <3>. QED
      BY <1>1, <3>3 DEF Kept
  <2>4. \A i \in 1 .. Len(frames') :
          /\ SameScope(frames'[i], frames'[i])
          /\ \A b, a : Changes(frames'[i], b, a) <=> Changes(frames'[i], b, a)
    BY DEF SameScope
  <2>5. InForce(frames', stk', sp', current_env')
    BY <1>2, <2>2, <2>3, <2>4, ForceSame
  <2>6. Len(frames') \in 1 .. m - 1
    BY <1>3, <1>4, <1>7
  <2>7. Last(frames').todo = NoFun
    BY <1>5, <2>6 DEF Last
  <2>. QED
    BY <2>5, <2>7, NoFunFits
<1>. QED
  BY <1>6, <1>7 DEF ScopeInv, Frame

(* The frames stay, and the stack under them. *)
LEMMA StayScopes ==
  ASSUME IInv, ScopeInv, Like(frames, frames'), UNCHANGED <<sp, current_env, thrown>>,
         Last(frames').todo \in {Frame.todo, NoFun},
         \A i \in 1 .. Len(frames) : \A c \in 1 .. Reach(frames[i]) : stk'[c] = stk[c]
  PROVE  ScopeInv'
<1>1. IsSequence(frames) /\ Stacked(frames, Len(stk)) /\ Len(frames') = Len(frames)
  BY DEF IInv, StackInv, Stacked, Like
<1>2. Waiting(frames')
  BY <1>1, WaitingLike DEF ScopeInv
<1>3. ASSUME thrown' # "line", Len(frames') > 0
      PROVE  InForce(frames', stk', sp', current_env') /\ Fits(Last(frames').todo, sp')
  <2>1. InForce(frames, stk, sp, current_env) /\ Fits(Frame.todo, sp)
    BY <1>1, <1>3 DEF ScopeInv
  <2>2. \A i \in 1 .. Len(frames) :
          /\ SameScope(frames[i], frames'[i])
          /\ \A b, a : Changes(frames'[i], b, a) <=> Changes(frames[i], b, a)
    BY <1>1, LikeScope
  <2>3. InForce(frames', stk', sp, current_env)
    BY <1>1, <2>1, <2>2, ForceSame
  <2>4. Fits(Last(frames').todo, sp)
    BY <2>1, NoFunFits
  <2>. QED
    BY <2>3, <2>4
<1>. QED
  BY <1>2, <1>3 DEF ScopeInv, Frame

LEMMA SamePushed ==
  ASSUME NEW fs, NEW r, Pushes(fs, r), NEW q, frames' = Append(fs, q)
  PROVE  r = q
<1>1. IsSequence(fs) /\ frames' = Append(fs, r)
  BY DEF Pushes, Like
<1>2. Extends(Append(fs, r), fs, r) /\ Extends(Append(fs, q), fs, q)
  BY <1>1, AppendFacts
<1>. QED
  BY <1>1, <1>2 DEF Extends

LEMMA NameScopes ==
  ASSUME IInv, ScopeInv, NEW fs, Calls(fs), Last(fs).todo = NoFun,
         NEW f, WellFormed(f), NEW held \in Environments,
         EnterName(f, held, fs), envref' = Referenced(held, 1),
         UNCHANGED <<ct_current_jmp_buf, thrown, abandoned>>,
         thrown # "line" => Fits(f, sp)
  PROVE  ScopeInv'
<1>1. PICK r : Pushes(fs, r)
  BY NamePushes
<1>2. /\ frames' = Append(fs, [kind |-> "name", entry |-> Len(stk), floor |-> Len(stk),
                               todo |-> f, holds |-> held])
      /\ sp' = sp
  BY DEF EnterName
<1>3. r.kind = "name" /\ r.todo = f
  BY <1>1, <1>2, SamePushed
<1>4. IInv' /\ Len(frames) > 0
  BY <1>1, PushStep, Running1 DEF Calls, IInv
<1>5. Lies(r, stk', sp, sp')
  BY <1>2, <1>3 DEF Lies, Saves
<1>6. r.kind \notin Reading
  BY <1>3 DEF Reading
<1>7. sp' = [t \in Ops |-> sp'[t]]
  BY <1>2 DEF ScopeInv
<1>8. thrown # "line" => Fits(r.todo, sp')
  BY <1>2, <1>3
<1>. QED
  BY <1>1, <1>4, <1>5, <1>6, <1>7, <1>8, PushScopes

(* What is put on the stack in place of the argument. *)
LEMMA PutFacts ==
  ASSUME IInv, NEW fs, Calls(fs), NEW q, IsSequence(q), NEW u, IsSequence(u),
         stk' = (Prefix(stk, Len(stk) - 1) \o q) \o u
  PROVE  /\ Len(stk) - 1 \in Nat /\ Len(q) \in Nat
         /\ \A i \in 1 .. Len(q) : stk'[Len(stk) - 1 + i] = q[i]
<1> DEFINE n == Len(stk) - 1
           p == Prefix(stk, n)
<1>1. /\ Len(stk) \in Nat /\ Frame.floor \in Nat /\ Len(stk) > Frame.floor /\ IsSequence(stk)
  BY Running1 DEF Calls, IInv, StackInv
<1>2. n \in Nat /\ n <= Len(stk)
  BY <1>1
<1>3. IsSequence(p) /\ Len(p) = n
  BY <1>1, <1>2, PrefixFacts
<1>. HIDE DEF n, p
<1>4. Joins(p \o q, p, q) /\ Len(q) \in Nat
  BY <1>3, ConcatFacts, SequenceFacts
<1>5. IsSequence(p \o q) /\ Len(p \o q) = n + Len(q)
  BY <1>3, <1>4 DEF Joins
<1>6. Joins((p \o q) \o u, p \o q, u)
  BY <1>5, ConcatFacts
<1>7. ASSUME NEW i \in 1 .. Len(q)
      PROVE  stk'[n + i] = q[i]
  <2>1. n + i \in 1 .. Len(p \o q)
    BY <1>2, <1>4, <1>5
  <2>2. (p \o q)[n + i] = q[i]
    BY <1>3, <1>4 DEF Joins
  <2>3. ((p \o q) \o u)[n + i] = (p \o q)[n + i]
    BY <1>6, <2>1 DEF Joins
  <2>. QED
    BY <2>2, <2>3 DEF n, p
<1>. QED
  BY <1>2, <1>4, <1>7 DEF n

LEMMA ClosureScopes ==
  ASSUME IInv, ScopeInv, NEW fs, Calls(fs), Last(fs).todo = NoFun,
         NEW f, WellFormed(f), f.is = "closure", EnterClosure(f, fs),
         UNCHANGED <<ct_current_jmp_buf, envref, thrown, abandoned>>,
         thrown # "line" => Fits(f, sp)
  PROVE  ScopeInv'
<1> DEFINE n == Len(stk) - 1
           o == f.env
<1>1. PICK r : Pushes(fs, r)
  BY ClosurePushes
<1>2. /\ frames' = Append(fs, [kind |-> "closure", entry |-> n + 1, floor |-> n,
                               todo |-> f.of, env |-> f.env, svenv |-> current_env])
      /\ sp' = Installed(f) /\ stk' = Append(Prefix(stk, n) \o StackPointers(o), Val)
  BY DEF EnterClosure
<1>3. r.kind = "closure" /\ r.todo = f.of /\ r.floor = n /\ r.env = o
  BY <1>1, <1>2, SamePushed
<1>4. IInv' /\ Len(frames) > 0
  BY <1>1, PushStep, Running1 DEF Calls, IInv
<1>5. o \in Ops
  BY Parts
<1>6. /\ DOMAIN sp' = Ops /\ sp' = [t \in Ops |-> sp'[t]]
      /\ \A t \in Ops : sp'[t] = IF t \in Tables(o) THEN f.sps[Index(o, t)] ELSE sp[t]
  BY <1>2 DEF Installed, Index
<1>7. IsSequence(StackPointers(o)) /\ Len(StackPointers(o)) = Len(Env[o])
  BY <1>5, PointersFacts
<1>8. \A i \in 1 .. Len(Env[o]) : stk'[n + i] = StackPointers(o)[i]
  <2>1. <<Val>> \in Seq({Val})
    OBVIOUS
  <2>2. IsSequence(<<Val>>)
    BY <2>1 DEF IsSequence
  <2>3. IsSequence(Prefix(stk, n) \o StackPointers(o))
    <3>1. n \in Nat /\ n <= Len(stk) /\ IsSequence(stk)
      BY Running1 DEF Calls, IInv, StackInv
    <3>2. IsSequence(Prefix(stk, n))
      BY <3>1, PrefixFacts
    <3>3. Joins(Prefix(stk, n) \o StackPointers(o), Prefix(stk, n), StackPointers(o))
      BY <1>7, <3>2, ConcatFacts
    <3>. QED
      BY <3>3 DEF Joins
  <2>4. stk' = (Prefix(stk, n) \o StackPointers(o)) \o <<Val>>
    <3>. DEFINE p == Prefix(stk, n) \o StackPointers(o)
    <3>1. stk' = Append(p, Val)
      BY <1>2
    <3>. HIDE DEF p
    <3>2. PICK S : p \in Seq(S)
      BY <2>3 DEF IsSequence, p
    <3>3. p \in Seq(S \cup {Val}) /\ Val \in S \cup {Val}
      BY <3>2
    <3>4. Append(p, Val) = p \o <<Val>>
      BY <3>3, AppendIsConcat
    <3>. QED
      BY <3>1, <3>4 DEF p
  <2>. QED
    BY <1>7, <2>2, <2>4, PutFacts
<1>9. ASSUME NEW t \in Tables(o)
      PROVE  stk'[n + Index(o, t)] = sp[t]
  <2>1. Index(o, t) \in 1 .. Len(Env[o]) /\ Index(o, t) \in DOMAIN Env[o]
        /\ Env[o][Index(o, t)] = t
    BY <1>5, IndexFacts
  <2>2. StackPointers(o)[Index(o, t)] = sp[t]
    BY <2>1 DEF StackPointers
  <2>. QED
    BY <1>8, <2>1, <2>2
<1>. HIDE DEF n, o
<1>10. Lies(r, stk', sp, sp')
  BY <1>3, <1>6, <1>9 DEF Lies, Saves, Cell
<1>11. r.kind \notin Reading
  BY <1>3 DEF Reading
<1>12. ASSUME thrown # "line"
       PROVE  Fits(r.todo, sp')
  <2>1. Simple(f.of, Carried(f))
    BY <1>12 DEF Fits, Portable
  <2>2. Agrees(Carried(f), sp')
    <3>1. Tables(o) \subseteq Ops
      BY <1>5, TablesFacts
    <3>2. DOMAIN Carried(f) = Tables(o) /\ \A t \in Tables(o) : Carried(f)[t] = f.sps[Index(o, t)]
      BY DEF Carried, o
    <3>. QED
      BY <1>6, <3>1, <3>2 DEF Agrees
  <2>3. Simple(f.of, sp')
    BY <2>1, <2>2, SimpleMore
  <2>. QED
    BY <1>3, <2>3, SimpleFits
<1>. QED
  BY <1>1, <1>4, <1>6, <1>10, <1>11, <1>12, PushScopes

LEMMA FormScopes ==
  ASSUME IInv, ScopeInv, NEW fs, Calls(fs), Last(fs).todo = NoFun,
         NEW f, WellFormed(f), f.is = "form", EnterForm(f, fs),
         UNCHANGED <<ct_current_jmp_buf, envref, thrown, abandoned>>,
         thrown # "line" => Fits(f, sp)
  PROVE  ScopeInv'
<1> DEFINE n == Len(stk) - 1
           o == f.op
           room == <<Val, sp[o], Val>>
           arg == IF o \in Tr THEN <<Val>> ELSE <<>>
           links == [t \in Tables(o) |-> IF t = o THEN n + 3 ELSE f.links[t]]
           q == [kind |-> "form", entry |-> n + 1, floor |-> n + 3, op |-> o,
                 arg |-> f.arg, senv |-> current_env, todo |-> NoFun, links |-> links]
<1>1. PICK r : Pushes(fs, r)
  BY FormPushes
<1>2. /\ frames' = Append(fs, q)
      /\ sp' = [sp EXCEPT ![o] = n + 3] /\ current_env' = o
      /\ stk' = (Prefix(stk, n) \o room) \o arg
  BY DEF EnterForm
<1>3. /\ r.kind = "form" /\ r.todo = NoFun /\ r.floor = n + 3 /\ r.op = o /\ r.arg = f.arg
      /\ r.links = links
  <2>. HIDE DEF links, n, o
  <2>1. /\ q.kind = "form" /\ q.todo = NoFun /\ q.floor = n + 3 /\ q.op = o /\ q.arg = f.arg
        /\ q.links = links
    OBVIOUS
  <2>. HIDE DEF q
  <2>2. r = q
    BY <1>1, <1>2, SamePushed
  <2>. QED
    BY <2>1, <2>2
<1>. HIDE DEF q
<1>4. IInv' /\ Len(frames) > 0 /\ Len(frames) \in Nat
  BY <1>1, PushStep, Running1 DEF Calls, IInv
<1>5. o \in Ops
  BY Parts
<1>6. /\ sp' = [t \in Ops |-> sp'[t]]
      /\ \A t \in Ops : sp'[t] = IF t = o THEN n + 3 ELSE sp[t]
  <2>1. sp = [t \in Ops |-> sp[t]]
    BY DEF ScopeInv
  <2>. QED
    BY <1>2, <2>1
<1>7. n \in Nat /\ stk'[n + 2] = sp[o]
  <2>1. room \in Seq({Val, sp[o]}) /\ Len(room) = 3 /\ room[2] = sp[o]
    OBVIOUS
  <2>2. <<Val>> \in Seq({Val}) /\ <<>> \in Seq({Val})
    OBVIOUS
  <2>3. IsSequence(room) /\ IsSequence(arg)
    BY <2>1, <2>2 DEF IsSequence
  <2>. HIDE DEF room, arg
  <2>4. /\ n \in Nat /\ Len(room) \in Nat
        /\ \A i \in 1 .. Len(room) : stk'[n + i] = room[i]
    BY <1>2, <2>3, PutFacts
  <2>. QED
    BY <2>1, <2>4
<1>8. DOMAIN links = Tables(o) /\ \A t \in Tables(o) : links[t] = IF t = o THEN n + 3 ELSE f.links[t]
  OBVIOUS
<1>. HIDE DEF n, o, links, room, arg
<1>9. \A t \in Ops : Saves(r, t) => t = o /\ Cell(r, t) = n + 2
  BY <1>3, <1>7 DEF Saves, Cell
<1>10. ASSUME thrown # "line"
       PROVE  /\ Linked(f, sp) /\ Portable(f.arg)
              /\ \A t \in Tables(o) : sp'[t] = links[t]
  <2>1. Linked(f, sp) /\ Portable(f.arg)
    BY <1>10 DEF Fits
  <2>2. \A t \in Tables(o) \ {o} : f.links[t] = sp[t]
    BY <2>1 DEF Linked, o
  <2>3. Tables(o) \subseteq Ops
    BY <1>5, TablesFacts
  <2>. QED
    BY <1>6, <1>8, <2>1, <2>2, <2>3
<1>11. thrown # "line" => Lies(r, stk', sp, sp')
  BY <1>3, <1>6, <1>7, <1>8, <1>9, <1>10 DEF Lies, Saves
<1>12. thrown # "line" => Sees(frames', Len(frames) + 1, sp', current_env')
  <2>. SUFFICES ASSUME thrown # "line", NEW c \in 0 .. Len(frames) + 1,
                       IsContext(frames', Len(frames) + 1, c)
                PROVE  /\ current_env' = IF c = 0 THEN Null ELSE frames'[c].op
                       /\ c # 0 => \A t \in Tables(frames'[c].op) : sp'[t] = frames'[c].links[t]
    BY DEF Sees
  <2>1. frames'[Len(frames) + 1] = r
    <3>1. IsSequence(fs) /\ Len(fs) = Len(frames) /\ frames' = Append(fs, r)
      BY <1>1 DEF Pushes, Like
    <3>2. Extends(frames', fs, r)
      BY <3>1, AppendFacts
    <3>. QED
      BY <3>1, <3>2 DEF Extends
  <2>2. Len(frames) + 1 <= c
    <3>1. Len(frames) + 1 \in 1 .. Len(frames) + 1
      BY <1>4
    <3>. QED
      BY <1>3, <2>1, <3>1 DEF IsContext
  <2>3. c = Len(frames) + 1 /\ c # 0
    BY <1>4, <2>2
  <2>4. frames'[c] = r /\ current_env' = o /\ r.op = o /\ r.links = links
    BY <1>2, <1>3, <2>1, <2>3
  <2>5. \A t \in Tables(o) : sp'[t] = links[t]
    BY <1>10
  <2>. QED
    BY <2>3, <2>4, <2>5
<1>13. thrown # "line" => Fits(r.todo, sp')
  BY <1>3, NoFunFits
<1>14. thrown' = thrown
  OBVIOUS
<1>. QED
  BY <1>1, <1>4, <1>6, <1>11, <1>12, <1>13, <1>14, PushScopes

LEMMA EnterScopes ==
  ASSUME IInv, ScopeInv, NEW fs, Calls(fs), Last(fs).todo = NoFun,
         NEW f, WellFormed(f), Enter(f, fs), thrown # "line" => Fits(f, sp)
  PROVE  ScopeInv'
<1>1. /\ UNCHANGED <<ct_current_jmp_buf, envref, thrown, abandoned>>
      /\ envref' = Referenced(Null, 1)
  BY NoReference DEF Enter, history
<1>2. Null \in Environments
  BY DEF Environments
<1>3. Len(frames) > 0 /\ Running
  BY Running1 DEF Calls, IInv
<1>4. CASE f.is = "basic" /\ EnterBasic(fs)
  <2>1. frames' = fs /\ UNCHANGED <<stk, sp, current_env>>
    BY <1>4 DEF EnterBasic
  <2>2. Like(frames, frames') /\ Last(frames').todo \in {Frame.todo, NoFun}
    BY <2>1 DEF Calls
  <2>. QED
    BY <1>1, <2>1, <2>2, StayScopes
<1>5. CASE f.is = "name" /\ EnterName(f.of, Null, fs)
  <2>1. WellFormed(f.of)
    BY <1>5, Parts
  <2>2. ASSUME thrown # "line"
        PROVE  Fits(f.of, sp)
    <3>1. Simple(f, sp)
      BY <1>5, <2>2 DEF Fits
    <3>2. f.of.is = "form" /\ f.of.arg = NoFun /\ Linked(f.of, sp)
      BY <1>5, <3>1 DEF Simple
    <3>. QED
      BY <3>2, NoFunFits DEF Fits
  <2>. QED
    BY <1>1, <1>2, <1>5, <2>1, <2>2, NameScopes
<1>6. CASE f.is = "param" /\ ParamValue(f.tr) # NoFun /\ EnterName(ParamValue(f.tr), Null, fs)
  <2>1. WellFormed(ParamValue(f.tr))
    BY <1>6, ParamWellFormed DEF IInv
  <2>2. ASSUME thrown # "line"
        PROVE  Fits(ParamValue(f.tr), sp)
    <3>1. InForce(frames, stk, sp, current_env) /\ IsSequence(frames)
      BY <1>3, <2>2 DEF ScopeInv, IInv, StackInv, Stacked
    <3>2. Portable(ParamValue(f.tr))
      BY <1>6, <3>1, ParamPortable
    <3>. QED
      BY <3>2, PortableFits
  <2>. QED
    BY <1>1, <1>2, <1>6, <2>1, <2>2, NameScopes
<1>7. CASE f.is = "closure" /\ EnterClosure(f, fs)
  BY <1>1, <1>7, ClosureScopes
<1>8. CASE f.is = "form" /\ EnterForm(f, fs)
  BY <1>1, <1>8, FormScopes
<1>. QED
  BY <1>4, <1>5, <1>6, <1>7, <1>8 DEF Enter

(* Where code runs. *)
LEMMA CodeFacts ==
  ASSUME IInv, ScopeInv, HasValue
  PROVE  /\ InCode /\ Calls(frames) /\ Frame.todo = NoFun /\ Last(frames).todo = NoFun
         /\ Len(frames) > 0
         /\ thrown # "line" => Shows /\ InForce(frames, stk, sp, current_env)
<1>1. StackInv
  BY DEF IInv
<1>2. Calls(frames) /\ Frame.kind \in {"ieval", "form"} /\ InCode /\ Running
  BY <1>1, InCode1 DEF HasValue, InCode
<1>3. Shape(Frame) /\ Len(frames) > 0
  BY <1>1, <1>2, Running1
<1>4. Frame.todo = NoFun
  BY <1>2, <1>3, ShapeFacts
<1>5. ASSUME thrown # "line"
      PROVE  Shows /\ InForce(frames, stk, sp, current_env)
  <2>1. InForce(frames, stk, sp, current_env) /\ Frame.kind \in Reading
    BY <1>2, <1>3, <1>5 DEF ScopeInv, Reading
  <2>. QED
    BY <1>2, <2>1, Shown
<1>. QED
  BY <1>2, <1>3, <1>4, <1>5 DEF Frame

(* Every table has a stack pointer. *)
LEMMA VisibleAgrees ==
  ASSUME ScopeInv, Shows
  PROVE  Agrees(Visible, sp)
<1>1. sp = [t \in Ops |-> sp[t]]
  BY DEF ScopeInv
<1>2. DOMAIN sp = Ops
  BY <1>1
<1>. QED
  BY <1>2 DEF Shows, Agrees

LEMMA CallScopes ==
  ASSUME IInv, ScopeInv, NEW f \in Mentioned, Call(f)
  PROVE  ScopeInv'
<1>1. HasValue /\ Enter(f, frames)
  BY DEF Call
<1>2. /\ InCode /\ Calls(frames) /\ Last(frames).todo = NoFun
      /\ thrown # "line" => Shows
  BY <1>1, CodeFacts
<1>3. WellFormed(f)
  BY AnyMentioned DEF IInv
<1>4. ASSUME thrown # "line"
      PROVE  Fits(f, sp)
  <2>1. Simple(f, sp)
    BY <1>2, <1>4, VisibleAgrees, MentionedSimple
  <2>. QED
    BY <2>1, SimpleFits
<1>. QED
  BY <1>1, <1>2, <1>3, <1>4, EnterScopes

LEMMA ContinueScopes ==
  ASSUME IInv, ScopeInv, Continue
  PROVE  ScopeInv'
<1> DEFINE n == Len(frames)
           fs == [frames EXCEPT ![n].todo = NoFun]
<1>1. StackInv /\ Running /\ Frame.todo # NoFun /\ Enter(Frame.todo, fs)
  BY DEF Continue, IInv
<1>2. Like(frames, fs)
  BY <1>1, LikeCleared
<1>3. /\ WellFormed(Frame.todo) /\ AtRest(Frame, Len(stk)) /\ Shape(Frame)
      /\ Frame.floor \in Nat /\ Len(stk) \in Nat /\ n \in 1 .. n /\ n > 0
  BY <1>1, Running1
<1>4. /\ Frame.kind \in {"name", "closure", "catch"}
      /\ Frame.kind = "closure" => Len(Env[Frame.env]) \in Nat
  BY <1>1, <1>3, ShapeFacts, EnvLength
<1>5. Len(stk) > Frame.floor
  BY <1>3, <1>4 DEF AtRest
<1>6. Last(fs).todo = NoFun
  <2>1. IsSequence(frames)
    BY <1>1 DEF StackInv, Stacked
  <2>2. n \in DOMAIN frames
    BY <1>3, <2>1, SequenceFacts
  <2>3. fs[n] = [frames[n] EXCEPT !.todo = NoFun]
    BY <2>2
  <2>4. "todo" \in DOMAIN frames[n]
    BY <1>3 DEF Shape, Frame, Last
  <2>5. fs[n].todo = NoFun
    BY <2>3, <2>4
  <2>6. Len(fs) = n
    BY <1>2 DEF Like
  <2>. QED
    BY <2>5, <2>6 DEF Last
<1>. HIDE DEF fs
<1>7. Calls(fs)
  BY <1>1, <1>2, <1>5 DEF Calls
<1>8. thrown # "line" => Fits(Frame.todo, sp)
  BY <1>3 DEF ScopeInv
<1>. QED
  BY <1>1, <1>3, <1>6, <1>7, <1>8, EnterScopes

LEMMA TransformScopes ==
  ASSUME IInv, ScopeInv, NEW f \in Mentioned, NEW t \in Tr, Transform(t, f)
  PROVE  ScopeInv'
<1> DEFINE c == Closed(f)
<1>1. StackInv /\ HasValue /\ Usable(f) /\ InScope(t)
  BY DEF Transform, IInv
<1>2. /\ InCode /\ Calls(frames) /\ Last(frames).todo = NoFun
      /\ thrown # "line" => Shows /\ InForce(frames, stk, sp, current_env)
  BY <1>1, CodeFacts
<1>3. WellFormed(f)
  BY <1>1, AnyMentioned
<1>4. WellFormed(c) /\ Holds(c) \in Environments
  BY <1>1, <1>3, ClosedWellFormed
<1>5. WellFormed(Form(t, c))
  BY <1>4, FormMade, EvaluatorConstants
<1>6. EnterName(Form(t, c), Holds(c), frames) /\ envref' = Referenced(Holds(c), 1)
      /\ UNCHANGED <<ct_current_jmp_buf, thrown, abandoned>>
  BY DEF Transform, Keep, history
<1>7. ASSUME thrown # "line"
      PROVE  Fits(Form(t, c), sp)
  <2>1. Portable(c)
    BY <1>1, <1>2, <1>7, ClosedPortable
  <2>. HIDE DEF c
  <2>2. Linked(Form(t, c), sp)
    BY <1>1, <1>2, <1>7, VisibleAgrees, FormLinked
  <2>3. Form(t, c).is = "form" /\ Form(t, c).arg = c
    BY FormFacts
  <2>. QED
    BY <2>1, <2>2, <2>3 DEF Fits
<1>. QED
  BY <1>2, <1>4, <1>5, <1>6, <1>7, NameScopes

(* The push of a frame that changes no stack pointer. *)
LEMMA PlainScopes ==
  ASSUME IInv, ScopeInv, NEW r, Pushes(frames, r), Len(frames) > 0, Last(frames).todo = NoFun,
         UNCHANGED <<sp, thrown>>, r.kind \notin {"form", "closure"},
         thrown # "line" =>
           /\ Fits(r.todo, sp)
           /\ r.kind \in Reading => Sees(frames', Len(frames) + 1, sp', current_env')
  PROVE  ScopeInv'
<1>1. IInv'
  BY PushStep
<1>2. Lies(r, stk', sp, sp')
  BY DEF Lies, Saves
<1>3. sp' = [t \in Ops |-> sp'[t]]
  BY DEF ScopeInv
<1>4. thrown # "line" => Fits(r.todo, sp')
  OBVIOUS
<1>. QED
  BY <1>1, <1>2, <1>3, <1>4, PushScopes

LEMMA CatchScopes ==
  ASSUME IInv, ScopeInv, NEW f \in Mentioned, Catch(f)
  PROVE  ScopeInv'
<1> DEFINE c == Closed(f)
           q == [kind |-> "catch", entry |-> Len(stk), floor |-> Len(stk) - 1, todo |-> c,
                 holds |-> Holds(c), calls |-> call_stack_pointer,
                 prev |-> ct_current_jmp_buf]
<1>1. HasValue /\ Usable(f) /\ frames' = Append(frames, q) /\ UNCHANGED <<sp, thrown>>
  BY DEF Catch, history
<1>2. /\ InCode /\ Last(frames).todo = NoFun /\ Len(frames) > 0
      /\ thrown # "line" => Shows /\ InForce(frames, stk, sp, current_env)
  BY <1>1, CodeFacts
<1>3. PICK r : Pushes(frames, r)
  BY CatchPushes
<1>. HIDE DEF c
<1>4. q.kind = "catch" /\ q.todo = c
  OBVIOUS
<1>. HIDE DEF q
<1>5. r = q
  BY <1>1, <1>3, SamePushed
<1>6. thrown # "line" => Fits(c, sp)
  BY <1>1, <1>2, ClosedPortable, PortableFits DEF c
<1>7. r.kind \notin {"form", "closure"} /\ r.kind \notin Reading /\ r.todo = c
  BY <1>4, <1>5 DEF Reading
<1>. QED
  BY <1>1, <1>2, <1>3, <1>6, <1>7, PlainScopes

(* The last function returns. *)
LEMMA ReturnScopes ==
  ASSUME IInv, ScopeInv, Running, Cuts(Len(frames)), thrown' = thrown,
         sp' = [t \in Ops |-> sp'[t]],
         thrown # "line" =>
           \A t \in Ops : sp'[t] = IF Saves(Frame, t) THEN stk[Cell(Frame, t)] ELSE sp[t]
  PROVE  ScopeInv'
<1>1. IInv'
  BY CutStep
<1>2. Len(frames) \in Nat
  BY Running1 DEF IInv
<1>3. Quiet(frames, Len(frames), Len(frames))
  BY <1>2 DEF Quiet
<1>4. frames[Len(frames)] = Frame
  BY DEF Frame, Last
<1>. QED
  BY <1>1, <1>3, <1>4, CutScopes

LEMMA PlainReturnScopes ==
  ASSUME IInv, ScopeInv, Running, Cuts(Len(frames)), UNCHANGED <<sp, thrown>>,
         Frame.kind \notin {"form", "closure"}
  PROVE  ScopeInv'
<1>1. \A t : ~ Saves(Frame, t)
  BY DEF Saves
<1>2. sp' = [t \in Ops |-> sp'[t]]
  BY DEF ScopeInv
<1>. QED
  BY <1>1, <1>2, ReturnScopes

(* restore_env finds on the stack what setup_env had put there. *)
LEMMA ReturnClosureScopes ==
  ASSUME IInv, ScopeInv, ReturnClosure
  PROVE  ScopeInv'
<1>1. Running /\ Frame.kind = "closure" /\ thrown' = thrown /\ Cuts(Len(frames))
  BY ReturnClosureCuts DEF ReturnClosure, Done, history
<1>2. sp' = [t \in Ops |-> IF t \in Tables(Frame.env)
                           THEN stk[Frame.floor + Index(Frame.env, t)] ELSE sp[t]]
  BY DEF ReturnClosure, Index
<1>3. /\ sp' = [t \in Ops |-> sp'[t]]
      /\ \A t \in Ops : sp'[t] = IF Saves(Frame, t) THEN stk[Cell(Frame, t)] ELSE sp[t]
  BY <1>1, <1>2 DEF Saves, Cell
<1>. QED
  BY <1>1, <1>3, ReturnScopes

(* The table that epilogue gives the saved pointer is that of the operation. *)
LEMMA ForceForm ==
  ASSUME NEW fs, IsSequence(fs), Len(fs) > 0, Last(fs).kind = "form",
         NEW st, NEW s, NEW env, InForce(fs, st, s, env)
  PROVE  env = Last(fs).op
<1>1. PICK S, e : Scoped(fs, st, S, e) /\ e[Len(fs)] = env
  BY DEF InForce
<1>2. Len(fs) \in 1 .. Len(fs)
  BY SequenceFacts
<1>3. Changes(fs[Len(fs)], e[Len(fs) - 1], e[Len(fs)])
  BY <1>1, <1>2 DEF Scoped
<1>. QED
  BY <1>1, <1>3 DEF Changes, Last

LEMMA ReturnFormScopes ==
  ASSUME IInv, ScopeInv, ReturnForm
  PROVE  ScopeInv'
<1>1. Running /\ Frame.kind = "form" /\ thrown' = thrown /\ Cuts(Len(frames))
  BY ReturnFormCuts DEF ReturnForm, Done, history
<1>2. sp' = [sp EXCEPT ![current_env] = stk[Frame.floor - 1]] /\ sp = [t \in Ops |-> sp[t]]
  BY DEF ReturnForm, ScopeInv
<1>3. /\ sp' = [t \in Ops |-> sp'[t]]
      /\ \A t \in Ops : sp'[t] = IF t = current_env THEN stk[Frame.floor - 1] ELSE sp[t]
  BY <1>2
<1>4. ASSUME thrown # "line"
      PROVE  current_env = Frame.op
  <2>1. IsSequence(frames) /\ Len(frames) > 0
    BY <1>1, Running1 DEF IInv, StackInv, Stacked
  <2>2. InForce(frames, stk, sp, current_env)
    BY <1>4, <2>1 DEF ScopeInv
  <2>. QED
    BY <1>1, <2>1, <2>2, ForceForm DEF Frame
<1>5. thrown # "line" =>
        \A t \in Ops : sp'[t] = IF Saves(Frame, t) THEN stk[Cell(Frame, t)] ELSE sp[t]
  BY <1>1, <1>3, <1>4 DEF Saves, Cell
<1>. QED
  BY <1>1, <1>3, <1>5, ReturnScopes

(* A throw past operations or closures leaves their pointers in the tables;*)
(* past anything else it leaves the pointers that were there.              *)
LEMMA ThrownScopes ==
  ASSUME IInv, ScopeInv, Running, Thrown
  PROVE  ScopeInv'
<1>1. CASE CatchIsLive
  <2> DEFINE m == ct_current_jmp_buf
  <2>1. /\ Cuts(m)
        /\ thrown' # "line" => thrown' = thrown /\ Quiet(frames, m, Len(frames))
    BY <1>1, ThrownCuts
  <2>2. IInv' /\ sp' = sp /\ frames[m].kind = "catch"
    BY <1>1, <2>1, CutStep DEF Thrown, CatchIsLive
  <2>3. \A t : ~ Saves(frames[m], t)
    BY <2>2 DEF Saves
  <2>4. sp' = [t \in Ops |-> sp'[t]]
    BY <2>2 DEF ScopeInv
  <2>. HIDE DEF m
  <2>5. thrown' # "line" =>
          /\ thrown # "line" /\ Quiet(frames, m, Len(frames))
          /\ \A t \in Ops :
               sp'[t] = IF Saves(frames[m], t) THEN stk[Cell(frames[m], t)] ELSE sp[t]
    BY <2>1, <2>2, <2>3
  <2>. QED
    BY <2>1, <2>2, <2>4, <2>5, CutScopes
<1>2. CASE ~CatchIsLive
  <2>1. UNCHANGED <<frames, stk, sp, current_env, thrown>>
    BY <1>2 DEF Thrown
  <2>2. Like(frames, frames') /\ Last(frames').todo \in {Frame.todo, NoFun}
    BY <2>1, LikeSelf DEF IInv, Frame
  <2>. QED
    BY <2>1, <2>2, StayScopes
<1>. QED
  BY <1>1, <1>2

(* What is still to come sees the display of the code that has been left. *)
LEMMA SeesAbove ==
  ASSUME NEW fs, NEW k, Stacked(fs, k), Len(fs) > 0, NEW st, NEW s, NEW env,
         InForce(fs, st, s, env), Last(fs).kind \in Reading,
         NEW r, r.kind # "form", NEW gs, Extends(gs, fs, r)
  PROVE  Sees(gs, Len(fs) + 1, s, env)
<1> DEFINE n == Len(fs)
<1>1. IsSequence(fs) /\ n \in Nat
  BY SequenceFacts DEF Stacked
<1>2. gs[n + 1] = r /\ \A i \in 1 .. n : gs[i] = fs[i] /\ i \in 1 .. n + 1
  BY <1>1 DEF Extends
<1>. SUFFICES ASSUME NEW c \in 0 .. n + 1, IsContext(gs, n + 1, c)
              PROVE  /\ env = IF c = 0 THEN Null ELSE gs[c].op
                     /\ c # 0 => \A t \in Tables(gs[c].op) : s[t] = gs[c].links[t]
  BY DEF Sees
<1>3. c # n + 1
  BY <1>1, <1>2 DEF IsContext
<1>4. c \in 0 .. n /\ (c # 0 => c \in 1 .. n)
  BY <1>1, <1>3
<1>5. IsContext(fs, n, c)
  BY <1>2, <1>4 DEF IsContext
<1>6. /\ env = IF c = 0 THEN Null ELSE fs[c].op
      /\ c # 0 => \A t \in Tables(fs[c].op) : t \in Ops => s[t] = fs[c].links[t]
  BY <1>1, <1>4, <1>5, ForceSees
<1>7. c # 0 => fs[c].op \in Ops
  BY <1>4, <1>5, ShapeFacts DEF IsContext, Stacked
<1>8. c # 0 => Tables(fs[c].op) \subseteq Ops
  BY <1>7, TablesFacts
<1>. QED
  BY <1>2, <1>4, <1>6, <1>8

(* execute and the fault loop go on in the environment of the operation. *)
LEMMA ReadingScopes ==
  ASSUME IInv, ScopeInv, NEW r, Pushes(frames, r), Running, Frame.kind \in Reading,
         r.kind \in {"ieval", "faultloop"}, UNCHANGED <<sp, current_env, thrown>>
  PROVE  ScopeInv'
<1>1. IsSequence(frames) /\ Stacked(frames, Len(stk)) /\ StackInv
  BY DEF IInv, StackInv, Stacked
<1>2. Len(frames) > 0 /\ Shape(Frame)
  BY <1>1, Running1
<1>3. Last(frames).todo = NoFun
  BY <1>2, ShapeFacts DEF Reading, Frame
<1>4. r.todo = NoFun
  BY ShapeFacts DEF Pushes
<1>5. ASSUME thrown # "line"
      PROVE  /\ Fits(r.todo, sp)
             /\ r.kind \in Reading => Sees(frames', Len(frames) + 1, sp', current_env')
  <2>1. InForce(frames, stk, sp, current_env)
    BY <1>2, <1>5 DEF ScopeInv
  <2>2. Extends(frames', frames, r)
    BY <1>1, AppendFacts DEF Pushes
  <2>3. Sees(frames', Len(frames) + 1, sp, current_env)
    BY <1>1, <1>2, <2>1, <2>2, SeesAbove DEF Frame
  <2>. QED
    BY <1>4, <2>3, NoFunFits
<1>. QED
  BY <1>2, <1>3, <1>5, PlainScopes

LEMMA ExecuteScopes ==
  ASSUME IInv, ScopeInv, Execute
  PROVE  ScopeInv'
<1> DEFINE n == IF Frame.kind = "form" THEN Len(stk) - 1 ELSE Len(stk)
<1>1. /\ Running /\ Frame.kind \in Reading /\ frames' = Append(frames, IevalFrame(n))
      /\ UNCHANGED <<sp, current_env, thrown>>
  BY DEF Execute, history, Reading
<1>2. PICK r : Pushes(frames, r)
  BY ExecutePushes
<1>3. r = IevalFrame(n)
  BY <1>1, <1>2, SamePushed
<1>4. r.kind = "ieval"
  BY <1>3 DEF IevalFrame
<1>. QED
  BY <1>1, <1>2, <1>4, ReadingScopes

LEMMA FaultLoopScopes ==
  ASSUME IInv, ScopeInv, FaultLoop
  PROVE  ScopeInv'
<1> DEFINE q == [kind |-> "faultloop", entry |-> Len(stk), floor |-> Len(stk), todo |-> NoFun]
<1>1. /\ Running /\ Frame.kind \in Reading /\ frames' = Append(frames, q)
      /\ UNCHANGED <<sp, current_env, thrown>>
  BY DEF FaultLoop, Triggers, InCode, history, Reading
<1>2. PICK r : Pushes(frames, r)
  BY FaultLoopPushes
<1>3. q.kind = "faultloop"
  OBVIOUS
<1>. HIDE DEF q
<1>4. r = q
  BY <1>1, <1>2, SamePushed
<1>. QED
  BY <1>1, <1>2, <1>3, <1>4, ReadingScopes

(* At the top level nothing has to be restored: the pointers are reset. *)
LEMMA LineScopes ==
  ASSUME IInv, ScopeInv, Line
  PROVE  ScopeInv'
<1> DEFINE r == [IevalFrame(0) EXCEPT !.env = Null]
<1>1. /\ frames = <<>> /\ current_env' = Null /\ frames' = <<r>> /\ stk' = stk
      /\ sp' = [o \in Ops |-> NoSp]
  BY DEF Line
<1>2. IsSequence(frames) /\ Len(frames) = 0
  BY <1>1 DEF IInv, StackInv, Stacked
<1>3. r.kind = "ieval" /\ r.todo = NoFun /\ r.env = Null
  BY DEF IevalFrame
<1>4. frames' = Append(frames, r)
  BY <1>1
<1>. HIDE DEF r
<1>5. Extends(frames', frames, r)
  BY <1>2, <1>4, AppendFacts
<1>6. Len(frames') = 1 /\ frames'[1] = r
  BY <1>2, <1>5 DEF Extends
<1>7. sp' = [t \in Ops |-> sp'[t]]
  BY <1>1
<1>8. \A i \in Int : i \notin 1 .. 1 - 1
  OBVIOUS
<1>9. Waiting(frames')
  BY <1>6, <1>8 DEF Waiting
<1>10. InForce(frames, stk', sp', Null)
  BY <1>2, EmptyInForce
<1>11. Lies(r, stk', sp', sp') /\ Changes(r, Null, Null)
  BY <1>3 DEF Lies, Saves, Changes, Changing
<1>12. Sees(frames', Len(frames) + 1, sp', Null)
  <2>1. \A c \in 0 .. 1 : c = 0 \/ c = 1
    OBVIOUS
  <2>2. Len(frames) + 1 = 1
    BY <1>2
  <2>3. \A c \in 0 .. 1 : IsContext(frames', 1, c) => c = 0
    BY <1>3, <1>6, <2>1 DEF IsContext
  <2>4. Sees(frames', 1, sp', Null)
    BY <2>3 DEF Sees
  <2>. QED
    BY <2>2, <2>4
<1>13. InForce(frames', stk', sp', current_env')
  BY <1>1, <1>2, <1>5, <1>10, <1>11, <1>12, ForcePush
<1>14. Fits(Last(frames').todo, sp')
  BY <1>3, <1>6, NoFunFits DEF Last
<1>. QED
  BY <1>7, <1>9, <1>13, <1>14 DEF ScopeInv, Frame

(* The temporaries are above all cells. *)
LEMMA ValueScopes ==
  ASSUME IInv, ScopeInv, InCode, Stays, UNCHANGED <<frames, sp>>
  PROVE  ScopeInv'
<1> DEFINE n == Len(frames)
<1>1. StackInv /\ Stacked(frames, Len(stk)) /\ Running /\ Frame.kind \in {"ieval", "form"}
  BY DEF IInv, StackInv, InCode
<1>2. /\ n \in Nat /\ n > 0 /\ n \in 1 .. n /\ Shape(Frame) /\ Heights(Frame)
      /\ Frame.floor \in Nat /\ frames[n] = Frame
  BY <1>1, Running1 DEF Frame, Last
<1>3. Kept(Frame.floor) /\ UNCHANGED <<current_env, thrown>>
  BY <1>2 DEF Stays
<1>4. ASSUME NEW i \in 1 .. n, NEW c \in 1 .. Reach(frames[i])
      PROVE  stk'[c] = stk[c]
  <2>1. CASE i = n
    <3>1. Reach(Frame) \in Int /\ Reach(Frame) <= Frame.floor
      BY <1>1, <1>2 DEF Reach
    <3>2. c \in 1 .. Frame.floor
      BY <1>2, <2>1, <3>1
    <3>. QED
      BY <1>3, <3>2 DEF Kept
  <2>2. CASE i < n
    <3>1. /\ Reach(frames[i]) <= Below(Frame) /\ Reach(frames[i]) \in Int
          /\ Below(Frame) \in Nat /\ Below(Frame) <= Frame.floor
      BY <1>1, <1>2, <2>2, ReachBelow, BelowFloor
    <3>2. c \in 1 .. Frame.floor
      BY <1>2, <3>1
    <3>. QED
      BY <1>3, <3>2 DEF Kept
  <2>. QED
    BY <1>2, <2>1, <2>2
<1>5. Like(frames, frames') /\ Last(frames').todo \in {Frame.todo, NoFun}
  BY <1>1, LikeSelf DEF Frame
<1>. QED
  BY <1>3, <1>4, <1>5, StayScopes

LEMMA ToTopLevelScopes ==
  ASSUME IInv, ScopeInv, ToTopLevel
  PROVE  ScopeInv'
<1>1. frames' = <<>> /\ sp' = sp
  BY DEF ToTopLevel
<1>2. Len(frames') = 0 /\ sp' = [t \in Ops |-> sp'[t]]
  BY <1>1 DEF ScopeInv
<1>3. \A i \in Int : i \notin 1 .. 0 - 1
  OBVIOUS
<1>. QED
  BY <1>2, <1>3 DEF ScopeInv, Waiting

LEMMA SameScopes ==
  ASSUME IInv, ScopeInv, UNCHANGED <<frames, stk, sp, current_env, thrown>>
  PROVE  ScopeInv'
<1>1. Like(frames, frames') /\ Last(frames').todo \in {Frame.todo, NoFun}
  BY LikeSelf DEF IInv, Frame
<1>. QED
  BY <1>1, StayScopes

LEMMA InitScopes ==
  ASSUME Init
  PROVE  ScopeInv
<1>1. frames = <<>> /\ sp = [t \in Ops |-> NoSp]
  BY DEF Init
<1>2. Len(frames) = 0 /\ sp = [t \in Ops |-> sp[t]]
  BY <1>1
<1>3. \A i \in Int : i \notin 1 .. 0 - 1
  OBVIOUS
<1>. QED
  BY <1>2, <1>3 DEF ScopeInv, Waiting

LEMMA NextScopes ==
  ASSUME IInv, ScopeInv, [Next]_vars
  PROVE  ScopeInv'
<1>1. ASSUME NEW f \in Mentioned, Call(f) \/ Catch(f) \/ \E t \in Tr : Transform(t, f)
      PROVE  ScopeInv'
  <2>1. CASE Call(f)
    BY <2>1, CallScopes
  <2>2. CASE Catch(f)
    BY <2>2, CatchScopes
  <2>3. ASSUME NEW t \in Tr, Transform(t, f)
        PROVE  ScopeInv'
    BY <2>3, TransformScopes
  <2>. QED
    BY <1>1, <2>1, <2>2, <2>3
<1>2. CASE Line
  BY <1>2, LineScopes
<1>3. CASE Continue
  BY <1>3, ContinueScopes
<1>4. CASE FetchStale
  BY <1>4, SameScopes DEF FetchStale, history
<1>5. CASE ReturnName
  <2>1. Cuts(Len(frames))
    BY <1>5, ReturnNameCuts
  <2>. QED
    BY <1>5, <2>1, PlainReturnScopes DEF ReturnName, Done, history
<1>6. CASE ReturnClosure
  BY <1>6, ReturnClosureScopes
<1>7. CASE ReturnForm
  BY <1>7, ReturnFormScopes
<1>8. CASE ReturnCatch
  <2>1. Cuts(Len(frames))
    BY <1>8, ReturnCatchCuts
  <2>. QED
    BY <1>8, <2>1, PlainReturnScopes DEF ReturnCatch, Done, history
<1>9. CASE Execute
  BY <1>9, ExecuteScopes
<1>10. CASE ReturnIeval
  <2>1. Cuts(Len(frames))
    BY <1>10, ReturnIevalCuts
  <2>. QED
    BY <1>10, <2>1, PlainReturnScopes DEF ReturnIeval, Done, history
<1>11. CASE PushValue
  <2>1. Stays /\ InCode /\ UNCHANGED <<frames, sp>>
    BY <1>11, PushValueStays DEF PushValue
  <2>. QED
    BY <2>1, ValueScopes
<1>12. CASE PopValue
  <2>1. Stays /\ InCode /\ UNCHANGED <<frames, sp>>
    BY <1>12, PopValueStays DEF PopValue, HasValue
  <2>. QED
    BY <2>1, ValueScopes
<1>13. CASE Throw \/ FaultThrown
  <2>1. Running /\ Thrown
    BY <1>13 DEF Throw, FaultThrown, InBasic, HasValue, Triggers, InCode
  <2>. QED
    BY <2>1, ThrownScopes
<1>14. CASE FaultLoop
  BY <1>14, FaultLoopScopes
<1>15. CASE EndFaultLoop \/ Error
  BY <1>15, ToTopLevelScopes DEF EndFaultLoop, Error
<1>16. CASE UNCHANGED vars
  BY <1>16, SameScopes DEF vars, history
<1>17. CASE Next
  BY <1>1, <1>2, <1>3, <1>4, <1>5, <1>6, <1>7, <1>8, <1>9, <1>10, <1>11, <1>12, <1>13,
     <1>14, <1>15, <1>17 DEF Next
<1>. QED
  BY <1>16, <1>17

(* In every behaviour the pointers that operations and closures have saved *)
(* on the stack are, undone one after the other, those that were in force  *)
(* at each frame, and what is still to be called carries, or will find, the*)
(* pointers of the scope it was written in, as long as no throw has left an*)
(* operation in this line (eval.c: prologue, epilogue, b_closure, setup_env*)
(* and restore_env).                                                       *)
THEOREM ScopesKept == Spec => []ScopeInv
<1>1. Init => ScopeInv
  BY InitScopes
<1>2. IInv /\ ScopeInv /\ [Next]_vars => ScopeInv'
  BY NextScopes
<1>. QED
  BY <1>1, <1>2, EvaluatorInvariance, PTL DEF Spec

(* The code that runs sees the activations that the rules of scope say,    *)
(* through any nesting of recursion, closures, passed operations, execute  *)
(* and the fault loop, and current_env is the environment of the operation *)
(* it belongs to: the reference of a closure made there is to the right one*)
(* (eval.c: apply, b_closure, setup_env, restore_env).                     *)
THEOREM ScopesShown == Spec => []Display
<1>1. IInv /\ ScopeInv => Display
  BY ScopesDisplay
<1>. QED
  BY <1>1, EvaluatorInvariance, ScopesKept, PTL
================================================================================
