---------------------------- MODULE AtomTableProofs ----------------------------
(***************************************************************************)
(* Proofs about the atom table, for all atoms, texts and hash values, and  *)
(* every first size and prime linadj: equal phrases are one array, every   *)
(* search finds what is there, and the table does not fill up while it can *)
(* grow.  They rest on the arithmetic of the search: as linadj is a prime  *)
(* that does not go into the size, the steps meet every cell (Covers).     *)
(***************************************************************************)
EXTENDS AtomTable, FiniteSetTheorems, WellFoundedInduction, TLAPS

-------------------------------------------------------------------------------
(* Arithmetic *)

(* A set of numbers has a least one. *)
LEMMA Least ==
  ASSUME NEW S \in SUBSET Nat, S # {}
  PROVE  \E x \in S : \A y \in S : x <= y
<1>1. IsWellFoundedOn(OpToRel(<, Nat), Nat)
  BY NatLessThanWellFounded
<1>2. \E x \in S : \A y \in S : ~ (<<y, x>> \in OpToRel(<, Nat))
  BY <1>1, WFMin
<1>3. \E x \in S : \A y \in S : ~ (y < x)
  BY <1>2 DEF OpToRel
<1>. QED
  BY <1>3

LEMMA FirstOf ==
  ASSUME NEW S \in SUBSET Nat, S # {}
  PROVE  First(S) \in S /\ \A y \in S : First(S) <= y
<1>1. \E x \in S : \A y \in S : x <= y
  BY Least
<1>. QED
  BY <1>1 DEF First

LEMMA DivMod ==
  ASSUME NEW x \in Int, NEW n \in Nat, 0 < n
  PROVE  /\ x \div n \in Int /\ x % n \in 0 .. n - 1
         /\ x = n * (x \div n) + (x % n)
OBVIOUS

LEMMA ModUnique ==
  ASSUME NEW x \in Int, NEW n \in Nat, 0 < n, NEW q \in Int, NEW r \in 0 .. n - 1, x = n * q + r
  PROVE  x % n = r
OBVIOUS

(* The remainder may be taken before another number is added. *)
LEMMA ModAdd ==
  ASSUME NEW x \in Int, NEW y \in Int, NEW n \in Nat, 0 < n
  PROVE  ((x % n) + y) % n = (x + y) % n
<1> DEFINE q == x \div n
           s == (x % n) + y
           t == s \div n
<1>1. q \in Int /\ x % n \in Int /\ x = n * q + (x % n)
  BY DivMod
<1>2. s \in Int /\ t \in Int /\ s % n \in 0 .. n - 1 /\ s = n * t + (s % n)
  BY <1>1, DivMod
<1>3. x + y = n * (q + t) + (s % n) /\ x + y \in Int /\ q + t \in Int
  <2> HIDE DEF q, t
  <2>1. n * (q + t) = n * q + n * t /\ n * q \in Int /\ n * t \in Int
    BY <1>1, <1>2
  <2>2. x + y = n * q + s
    BY <1>1, <2>1
  <2> HIDE DEF s
  <2>. QED
    BY <1>1, <1>2, <2>1, <2>2
<1> HIDE DEF q, t, s
<1>4. (x + y) % n = s % n
  BY <1>2, <1>3, ModUnique
<1>. QED
  BY <1>4 DEF s

(* d goes into x. *)
Divides(d, x) == \E m \in Int : x = d * m

LEMMA ModDivides ==
  ASSUME NEW x \in Int, NEW n \in Nat, 0 < n
  PROVE  Divides(n, x) <=> x % n = 0
<1>1. ASSUME x % n = 0 PROVE Divides(n, x)
  <2>1. x \div n \in Int /\ x = n * (x \div n) + (x % n)
    BY DivMod
  <2>2. x = n * (x \div n)
    BY <1>1, <2>1
  <2>. QED
    BY <2>1, <2>2 DEF Divides
<1>2. ASSUME Divides(n, x) PROVE x % n = 0
  <2>1. PICK m \in Int : x = n * m
    BY <1>2 DEF Divides
  <2>2. x = n * m + 0 /\ 0 \in 0 .. n - 1
    BY <2>1
  <2>. QED
    BY <2>2, ModUnique
<1>. QED
  BY <1>1, <1>2

LEMMA SameRest ==
  ASSUME NEW x \in Int, NEW y \in Int, NEW n \in Nat, 0 < n, x % n = y % n
  PROVE  Divides(n, y - x)
<1> DEFINE q == x \div n
           t == y \div n
<1>1. q \in Int /\ x % n \in Int /\ x = n * q + (x % n)
  BY DivMod
<1>2. t \in Int /\ y = n * t + (x % n)
  BY DivMod
<1> HIDE DEF q, t
<1>3. n * (t - q) = n * t - n * q /\ n * t \in Int /\ n * q \in Int /\ t - q \in Int
  BY <1>1, <1>2
<1>4. y - x = n * (t - q)
  BY <1>1, <1>2, <1>3
<1>. QED
  BY <1>3, <1>4 DEF Divides

Prime(p) == 1 < p /\ \A d \in 2 .. p - 1 : p % d # 0

(* Euclid's lemma.  The least number x such that p goes into a * x goes    *)
(* into all such numbers, hence into p, and is p.                          *)
LEMMA Euclid ==
  ASSUME NEW p \in Nat, Prime(p), NEW a \in Nat, NEW b \in Nat, Divides(p, a * b)
  PROVE  Divides(p, a) \/ Divides(p, b)
<1> DEFINE S == {x \in Nat : 0 < x /\ Divides(p, a * x)}
<1>0. 1 < p
  BY DEF Prime
<1>1. p \in S
  BY <1>0 DEF Divides
<1>2. S \in SUBSET Nat /\ S # {}
  BY <1>1
<1>3. \E x \in S : \A y \in S : x <= y
  <2> HIDE DEF S
  <2>. QED
    BY <1>2, Least
<1>4. PICK x \in Nat : 0 < x /\ Divides(p, a * x) /\ \A y \in S : x <= y
  BY <1>3
<1>5. ASSUME NEW y \in Nat, Divides(p, a * y) PROVE Divides(x, y)
  <2> DEFINE q == y \div x
             r == y % x
  <2>1. q \in Int /\ r \in 0 .. x - 1 /\ y = x * q + r
    BY <1>4, DivMod
  <2> HIDE DEF q, r
  <2>2. PICK m \in Int : a * y = p * m
    BY <1>5 DEF Divides
  <2>3. PICK k \in Int : a * x = p * k
    BY <1>4 DEF Divides
  <2>4. a * r = p * (m - q * k)
    <3>1. r = y - x * q /\ r \in Int
      BY <2>1
    <3>2. a * r = a * y - (a * x) * q
      BY <3>1, <2>1
    <3>3. a * r = p * m - (p * k) * q
      BY <3>2, <2>2, <2>3
    <3>. QED
      BY <3>3, <2>1
  <2>5. m - q * k \in Int
    BY <2>1
  <2>6. Divides(p, a * r)
    BY <2>4, <2>5 DEF Divides
  <2>7. ~ (x <= r) /\ r \in Nat
    BY <2>1
  <2>8. r \notin S
    BY <1>4, <2>7
  <2>9. r = 0
    BY <2>6, <2>7, <2>8
  <2>10. y = x * q
    BY <2>1, <2>9
  <2>. QED
    BY <2>1, <2>10 DEF Divides
<1>6. Divides(x, p) /\ x <= p
  BY <1>1, <1>4, <1>5
<1>7. x = 1 \/ x = p
  <2>1. p % x = 0
    BY <1>4, <1>6, ModDivides
  <2>2. x \notin 2 .. p - 1
    BY <2>1 DEF Prime
  <2>. QED
    BY <1>4, <1>6, <2>2
<1>8. CASE x = 1
  <2>1. a * x = a
    BY <1>8
  <2>. QED
    BY <1>4, <2>1
<1>9. CASE x = p
  BY <1>5, <1>9
<1>. QED
  BY <1>7, <1>8, <1>9

-------------------------------------------------------------------------------
(* The steps of the search *)

SizeOK(n) == n \in Nat /\ LinAdj < n /\ n % LinAdj # 0

LEMMA Linadj == LinAdj \in Nat /\ 1 < LinAdj /\ Prime(LinAdj)
BY AtomConstants DEF Prime

LEMMA NewSizeOK ==
  ASSUME NEW n \in Nat, LinAdj < n
  PROVE  SizeOK(NewSize(n)) /\ n <= NewSize(n)
<1>0. LinAdj \in Nat /\ 1 < LinAdj
  BY Linadj
<1>1. CASE n % LinAdj = 0
  <2>1. n \div LinAdj \in Int /\ n = LinAdj * (n \div LinAdj) + (n % LinAdj)
    BY <1>0, DivMod
  <2> DEFINE q == n \div LinAdj
  <2> HIDE DEF q
  <2>2. q \in Int /\ n + 1 = LinAdj * q + 1 /\ n + 1 \in Int /\ 1 \in 0 .. LinAdj - 1
    BY <1>0, <1>1, <2>1 DEF q
  <2>3. (n + 1) % LinAdj = 1
    <3>1. 0 < LinAdj
      BY <1>0
    <3>. QED
      BY <1>0, <2>2, <3>1, ModUnique
  <2>4. NewSize(n) = n + 1
    BY <1>1 DEF NewSize
  <2>. QED
    BY <1>0, <2>3, <2>4 DEF SizeOK
<1>2. CASE n % LinAdj # 0
  BY <1>2 DEF NewSize, SizeOK
<1>. QED
  BY <1>1, <1>2

LEMMA ProbeType ==
  ASSUME NEW n, SizeOK(n), NEW h \in Int, NEW k \in Int
  PROVE  Probe(h, k, n) \in 0 .. n - 1
<1>1. n \in Nat /\ 0 < n /\ h + k * LinAdj \in Int
  BY Linadj DEF SizeOK
<1>. QED
  BY <1>1, DivMod DEF Probe

LEMMA ProbeOn ==
  ASSUME NEW n, SizeOK(n), NEW h \in Int, NEW k \in Int
  PROVE  Probe(Probe(h, k, n), 1, n) = Probe(h, k + 1, n)
<1>1. n \in Nat /\ 0 < n /\ LinAdj \in Int
  BY Linadj DEF SizeOK
<1> DEFINE x == h + k * LinAdj
<1>2. x \in Int /\ x + LinAdj = h + (k + 1) * LinAdj
  BY <1>1
<1>3. ((x % n) + LinAdj) % n = (x + LinAdj) % n
  <2> HIDE DEF x
  <2>. QED
    BY <1>1, <1>2, ModAdd
<1>4. 1 * LinAdj = LinAdj
  BY <1>1
<1>. QED
  BY <1>2, <1>3, <1>4 DEF Probe

(* No cell is met twice in one turn round the table ... *)
LEMMA Spread ==
  ASSUME NEW n, SizeOK(n), NEW h \in Int, NEW j \in 0 .. n - 1, NEW k \in 0 .. n - 1,
         j < k
  PROVE  Probe(h, j, n) # Probe(h, k, n)
<1>0. n \in Nat /\ 0 < n /\ LinAdj \in Nat /\ 1 < LinAdj /\ n % LinAdj # 0
  BY Linadj DEF SizeOK
<1>1. SUFFICES ASSUME Probe(h, j, n) = Probe(h, k, n) PROVE FALSE
  OBVIOUS
<1> DEFINE x == h + j * LinAdj
           y == h + k * LinAdj
           d == k - j
<1>2. x \in Int /\ y \in Int
  BY <1>0
<1>3. d \in Nat /\ 0 < d /\ d < n
  BY <1>0
<1>4. y - x = d * LinAdj
  BY <1>0
<1>5. x % n = y % n
  BY <1>1 DEF Probe
<1> HIDE DEF x, y, d
<1>6. Divides(n, d * LinAdj)
  BY <1>0, <1>2, <1>4, <1>5, SameRest
<1>7. PICK m \in Int : d * LinAdj = n * m
  BY <1>6 DEF Divides
<1>8. m \in Nat
  <2>1. 0 < n * m
    BY <1>0, <1>3, <1>7
  <2>. QED
    BY <1>0, <2>1
<1>9. Divides(LinAdj, n * m)
  <2>. n * m = LinAdj * d
    BY <1>0, <1>3, <1>7
  <2>. QED
    BY <1>3 DEF Divides
<1>10. ~ Divides(LinAdj, n)
  BY <1>0, ModDivides
<1>11. Divides(LinAdj, m)
  BY <1>0, <1>8, <1>9, <1>10, Linadj, Euclid
<1>12. PICK q \in Int : m = LinAdj * q
  BY <1>11 DEF Divides
<1>13. d = n * q
  <2>1. d * LinAdj = (n * q) * LinAdj
    BY <1>0, <1>7, <1>12
  <2> DEFINE c == n * q
  <2>2. c \in Int
    BY <1>0
  <2> HIDE DEF c
  <2>3. d * LinAdj = c * LinAdj
    BY <2>1 DEF c
  <2>4. d = c
    BY <1>0, <1>3, <2>2, <2>3
  <2>. QED
    BY <2>4 DEF c
<1>. QED
  BY <1>0, <1>3, <1>13

(* ... and every cell is met. *)
LEMMA Covers ==
  ASSUME NEW n, SizeOK(n), NEW h \in Int, NEW i \in 0 .. n - 1
  PROVE  \E k \in 0 .. n - 1 : Probe(h, k, n) = i
<1> DEFINE S == 0 .. n - 1
           f == [k \in S |-> Probe(h, k, n)]
<1>0. n \in Nat /\ 0 < n
  BY Linadj DEF SizeOK
<1>1. \A k \in S : k \in Int /\ f[k] = Probe(h, k, n)
  BY <1>0
<1>2. f \in [S -> S]
  <2>1. \A k \in S : Probe(h, k, n) \in S
    BY <1>0, ProbeType
  <2>. QED
    BY <2>1
<1>3. \A j, k \in S : j # k => f[j] # f[k]
  <2>1. \A j, k \in S : j < k => f[j] # f[k]
    BY <1>1, Spread
  <2>2. \A j, k \in S : j # k => j < k \/ k < j
    BY <1>0
  <2> HIDE DEF S, f
  <2>. QED
    BY <2>1, <2>2
<1>4. IsFiniteSet(S)
  BY <1>0, FS_Interval
<1> HIDE DEF S, f
<1>5. f \in Injection(S, S)
  BY <1>2, <1>3 DEF Injection, IsInjective
<1>6. f \in Surjection(S, S)
  BY <1>4, <1>5, FS_Injection
<1>7. \A t \in S : \E s \in S : f[s] = t
  BY <1>6 DEF Surjection
<1>8. i \in S
  BY DEF S
<1>9. PICK k \in S : f[k] = i
  BY <1>7, <1>8
<1>. QED
  BY <1>1, <1>9 DEF S

(* A step on from the cell j steps before p is the cell j - 1 before p. *)
LEMMA StepFrom ==
  ASSUME NEW n, SizeOK(n), n = atomtblsize, NEW p \in 0 .. n - 1
  PROVE  /\ Before(p, 0) = p
         /\ \A j \in 1 .. n : /\ Before(p, j) \in 0 .. n - 1
                              /\ Probe(Before(p, j), 1, n) = Before(p, j - 1)
<1>0. n \in Nat /\ 0 < n /\ LinAdj \in Int
  BY Linadj DEF SizeOK
<1>1. Before(p, 0) = p
  <2>1. p + (n - 0) * LinAdj = n * LinAdj + p /\ p + (n - 0) * LinAdj \in Int
    BY <1>0
  <2>2. (p + (n - 0) * LinAdj) % n = p
    BY <1>0, <2>1, ModUnique
  <2>. QED
    BY <2>2 DEF Before, Probe
<1>2. ASSUME NEW j \in 1 .. n
      PROVE  /\ Before(p, j) \in 0 .. n - 1
             /\ Probe(Before(p, j), 1, n) = Before(p, j - 1)
  <2>1. n - j \in Int /\ (n - j) + 1 = n - (j - 1) /\ p \in Int
    BY <1>0
  <2>2. Probe(p, n - j, n) \in 0 .. n - 1
    BY <2>1, ProbeType
  <2>3. Probe(Probe(p, n - j, n), 1, n) = Probe(p, (n - j) + 1, n)
    BY <2>1, ProbeOn
  <2>. QED
    BY <2>1, <2>2, <2>3 DEF Before
<1>. QED
  BY <1>1, <1>2

-------------------------------------------------------------------------------
(* Tables *)

TableType(t, n) == t \in [0 .. n - 1 -> Atoms \cup {vacant, held}]

Once(t, n) == \A i, j \in 0 .. n - 1 : t[i] \in Atoms /\ t[i] = t[j] => i = j

(* The search for a comes to it before it comes to a vacant cell. *)
Meets(t, n, a) ==
  \E k \in 0 .. n - 1 :
    /\ t[Probe(Hash(a, n), k, n)] = a
    /\ \A j \in 0 .. k - 1 : t[Probe(Hash(a, n), j, n)] # vacant

Leads(t, n) == \A i \in 0 .. n - 1 : t[i] \in Atoms => Meets(t, n, t[i])

HeldUseful(t, n) == \A i \in 0 .. n - 1 : t[i] = held => t[Probe(i, 1, n)] # vacant

TableOK(t, n) ==
  SizeOK(n) /\ TableType(t, n) /\ Once(t, n) /\ Leads(t, n) /\ HeldUseful(t, n)

Taken(t, n) == {i \in 0 .. n - 1 : t[i] # vacant}

(* u is the table t and a in the cell s. *)
Put(t, n, a, s, u) ==
  /\ TableOK(u, n)
  /\ s \in 0 .. n - 1 /\ s \notin Taken(t, n) /\ Taken(u, n) = Taken(t, n) \cup {s}
  /\ u[s] = a /\ \A i \in 0 .. n - 1 : i # s => u[i] = t[i]

LEMMA Marks == vacant # held /\ vacant \notin Atoms /\ held \notin Atoms
BY AtomConstants

LEMMA HashType ==
  ASSUME NEW n, SizeOK(n), NEW a \in Atoms
  PROVE  Hash(a, n) \in 0 .. n - 1
<1>1. n \in Nat /\ 0 < n
  BY Linadj DEF SizeOK
<1>2. HashOf[a] \in Int
  BY AtomConstants
<1>. QED
  BY <1>1, <1>2, DivMod DEF Hash

(* An atom that is put into the first vacant cell its search meets. *)
LEMMA PlacedOK ==
  ASSUME NEW n, NEW t, TableOK(t, n), NEW a \in Atoms, \A i \in 0 .. n - 1 : t[i] # a,
         NEW f \in 0 .. n - 1, NEW s, s = Probe(Hash(a, n), f, n), t[s] = vacant,
         \A j \in 0 .. f - 1 : t[Probe(Hash(a, n), j, n)] # vacant,
         NEW u, u = [t EXCEPT ![s] = a]
  PROVE  Put(t, n, a, s, u)
<1> DEFINE D == 0 .. n - 1
<1>0. SizeOK(n) /\ n \in Nat /\ 0 < n
  BY Linadj DEF TableOK, SizeOK
<1>1. t \in [D -> Atoms \cup {vacant, held}] /\ Once(t, n) /\ Leads(t, n) /\ HeldUseful(t, n)
  BY DEF TableOK, TableType
<1>2. \A b \in Atoms : Hash(b, n) \in D /\ Hash(b, n) \in Int
  BY <1>0, HashType
<1>3. \A b \in Atoms : \A k \in Int : Probe(Hash(b, n), k, n) \in D
  BY <1>0, <1>2, ProbeType
<1>4. \A i \in D : Probe(i, 1, n) \in D
  BY <1>0, ProbeType
<1>5. s \in D
  BY <1>3
<1>6. \A k \in D : k \in Int /\ \A j \in 0 .. k - 1 : j \in Int
  BY <1>0
<1> HIDE DEF D
<1>7. u \in [D -> Atoms \cup {vacant, held}]
  BY <1>1, <1>5
<1>8. u[s] = a /\ \A i \in D : i # s => u[i] = t[i]
  BY <1>1, <1>5
<1>9. \A i \in D : u[i] = vacant <=> t[i] = vacant /\ i # s
  BY <1>8, Marks
<1>10. TableType(u, n)
  BY <1>7 DEF TableType, D
<1>11. Once(u, n)
  <2>1. \A i, j \in D : t[i] \in Atoms /\ t[i] = t[j] => i = j
    BY <1>1 DEF Once, D
  <2>2. \A i \in D : t[i] # a
    BY DEF D
  <2>3. \A i, j \in D : u[i] \in Atoms /\ u[i] = u[j] => i = j
    BY <1>8, <2>1, <2>2
  <2>. QED
    BY <2>3 DEF Once, D
<1>12. Leads(u, n)
  <2>1. SUFFICES ASSUME NEW i \in D, u[i] \in Atoms PROVE Meets(u, n, u[i])
    BY DEF Leads, D
  <2>2. CASE i = s
    <3>1. u[i] = a /\ f \in D
      BY <1>8, <2>2 DEF D
    <3>2. \A j \in 0 .. f - 1 : u[Probe(Hash(a, n), j, n)] # vacant
      <4>1. SUFFICES ASSUME NEW j \in 0 .. f - 1 PROVE u[Probe(Hash(a, n), j, n)] # vacant
        OBVIOUS
      <4>2. Probe(Hash(a, n), j, n) \in D
        BY <1>3, <1>6, <3>1
      <4>. QED
        BY <1>9, <4>2
    <3>3. u[Probe(Hash(a, n), f, n)] = a
      BY <1>8
    <3>. QED
      BY <3>1, <3>2, <3>3 DEF Meets, D
  <2>3. CASE i # s
    <3> DEFINE b == t[i]
    <3>1. u[i] = b /\ b \in Atoms
      BY <1>8, <2>1, <2>3
    <3>2. Meets(t, n, b)
      BY <1>1, <3>1 DEF Leads, D
    <3> HIDE DEF b
    <3>3. PICK k \in D : /\ t[Probe(Hash(b, n), k, n)] = b
                         /\ \A j \in 0 .. k - 1 : t[Probe(Hash(b, n), j, n)] # vacant
      BY <3>2 DEF Meets, D
    <3>4. Probe(Hash(b, n), k, n) \in D
      BY <1>3, <1>6, <3>1
    <3>5. u[Probe(Hash(b, n), k, n)] = b
      BY <1>8, <3>1, <3>3, <3>4, Marks
    <3>6. ASSUME NEW j \in 0 .. k - 1 PROVE u[Probe(Hash(b, n), j, n)] # vacant
      <4>1. Probe(Hash(b, n), j, n) \in D
        BY <1>3, <1>6, <3>1
      <4>. QED
        BY <1>9, <3>3, <4>1
    <3>7. Meets(u, n, b)
      BY <3>5, <3>6 DEF Meets, D
    <3>. QED
      BY <3>1, <3>7
  <2>. QED
    BY <2>2, <2>3
<1>13. HeldUseful(u, n)
  <2>1. \A i \in D : t[i] = held => t[Probe(i, 1, n)] # vacant
    BY <1>1 DEF HeldUseful, D
  <2>2. \A i \in D : u[i] = held => t[i] = held
    BY <1>8, Marks
  <2>3. \A i \in D : u[i] = held => u[Probe(i, 1, n)] # vacant
    BY <1>4, <1>9, <2>1, <2>2
  <2>. QED
    BY <2>3 DEF HeldUseful, D
<1>14. s \notin Taken(t, n) /\ Taken(u, n) = Taken(t, n) \cup {s}
  <2>1. \A i : i \in Taken(u, n) <=> i \in D /\ u[i] # vacant
    BY DEF Taken, D
  <2>2. \A i : i \in Taken(t, n) <=> i \in D /\ t[i] # vacant
    BY DEF Taken, D
  <2>. QED
    BY <1>5, <1>9, <2>1, <2>2
<1>15. TableOK(u, n)
  BY <1>0, <1>10, <1>11, <1>12, <1>13 DEF TableOK
<1>. QED
  BY <1>5, <1>8, <1>14, <1>15 DEF D, Put

(* Two cells have not the same successor. *)
LEMMA StepBack ==
  ASSUME NEW n, SizeOK(n), NEW i \in 0 .. n - 1, NEW j \in 0 .. n - 1,
         Probe(i, 1, n) = Probe(j, 1, n)
  PROVE  i = j
<1>0. n \in Nat /\ 0 < n /\ LinAdj \in Int
  BY Linadj DEF SizeOK
<1> DEFINE x == i + 1 * LinAdj
           y == j + 1 * LinAdj
<1>1. x \in Int /\ y \in Int /\ y - x = j - i
  BY <1>0
<1>2. x % n = y % n
  BY DEF Probe
<1> HIDE DEF x, y
<1>3. Divides(n, j - i)
  BY <1>0, <1>1, <1>2, SameRest
<1>4. PICK m \in Int : j - i = n * m
  BY <1>3 DEF Divides
<1>5. m = 0
  <2>1. CASE m >= 1
    <3>1. n * m >= n
      BY <1>0, <2>1
    <3>. QED
      BY <1>0, <1>4, <3>1
  <2>2. CASE m <= -1
    <3>1. n * m <= -n
      BY <1>0, <2>2
    <3>. QED
      BY <1>0, <1>4, <3>1
  <2>. QED
    BY <2>1, <2>2
<1>. QED
  BY <1>0, <1>4, <1>5

(* What remove_atom clears: nothing, or p and the held cells that lead to  *)
(* it, as the next cell is vacant.                                         *)
Run(p, m) == \A i \in 1 .. m : atomtbl[Before(p, i)] = held

LEMMA ClearedIs ==
  ASSUME NEW n, n = atomtblsize, TableOK(atomtbl, n), NEW p \in 0 .. n - 1
  PROVE  \A c : c \in Cleared(p) <=>
                  /\ atomtbl[Probe(p, 1, n)] = vacant
                  /\ \E m \in 0 .. n - 1 : c = Before(p, m) /\ Run(p, m)
<1>0. SizeOK(n) /\ n \in Nat /\ 0 < n
  BY DEF TableOK, SizeOK
<1>1. Before(p, 0) = p
  BY <1>0, StepFrom
<1>2. \A m \in 0 .. n - 1 : m = 0 \/ m \in 1 .. n - 1
  BY <1>0
<1>3. 0 \in 0 .. n - 1 /\ \A m \in 1 .. n - 1 : m \in 0 .. n - 1
  BY <1>0
<1>4. Run(p, 0)
  BY DEF Run
<1>5. NewEntry(p) = vacant <=> atomtbl[Probe(p, 1, n)] = vacant
  BY Marks DEF NewEntry
<1>6. \A c : c \in HeldRun(p) <=> \E m \in 1 .. n - 1 : c = Before(p, m) /\ Run(p, m)
  BY DEF HeldRun, Run
<1>. QED
  BY <1>1, <1>2, <1>3, <1>4, <1>5, <1>6 DEF Cleared

(* An atom that is taken out. *)
LEMMA RemovedOK ==
  ASSUME NEW n, n = atomtblsize, TableOK(atomtbl, n), NEW p \in 0 .. n - 1, atomtbl[p] \in Atoms,
         NEW u, u = [i \in 0 .. n - 1 |-> IF i \in Cleared(p) THEN vacant
                                          ELSE IF i = p THEN held ELSE atomtbl[i]]
  PROVE  /\ TableOK(u, n)
         /\ Cleared(p) \subseteq Taken(atomtbl, n)
         /\ Taken(u, n) = Taken(atomtbl, n) \ Cleared(p)
<1> DEFINE D == 0 .. n - 1
           t == atomtbl
<1>0. SizeOK(n) /\ n \in Nat /\ 0 < n
  BY DEF TableOK, SizeOK
<1>1. t \in [D -> Atoms \cup {vacant, held}] /\ Once(t, n) /\ Leads(t, n) /\ HeldUseful(t, n)
  BY DEF TableOK, TableType
<1>2. \A b \in Atoms : Hash(b, n) \in D /\ Hash(b, n) \in Int
  BY <1>0, HashType
<1>3. \A b \in Atoms : \A k \in Int : Probe(Hash(b, n), k, n) \in D
  BY <1>0, <1>2, ProbeType
<1>4. \A i \in D : Probe(i, 1, n) \in D
  BY <1>0, ProbeType
<1>5. /\ Before(p, 0) = p
      /\ \A j \in 1 .. n : Before(p, j) \in D /\ Probe(Before(p, j), 1, n) = Before(p, j - 1)
  BY <1>0, StepFrom
<1>6. \A c : c \in Cleared(p) <=> /\ t[Probe(p, 1, n)] = vacant
                                  /\ \E m \in D : c = Before(p, m) /\ Run(p, m)
  BY ClearedIs
<1>7. \A m \in D : /\ m \in Nat /\ m + 1 \in 1 .. n /\ (m + 1) - 1 = m
                   /\ m # 0 => m \in 1 .. n /\ m - 1 \in D /\ m \in 1 .. m /\ m - 1 < m
                   /\ m + 1 # n => m + 1 \in D
  BY <1>0
<1>8. p \in D /\ t[p] \in Atoms
  OBVIOUS
<1>9. \A m \in D : Run(p, m) => /\ Before(p, m) \in D
                                /\ t[Before(p, m)] = held \/ (m = 0 /\ Before(p, m) = p)
  BY <1>5, <1>7, <1>8 DEF Run
<1>10. \A m \in D : m # 0 /\ Run(p, m) => Run(p, m - 1)
  <2>1. SUFFICES ASSUME NEW m \in D, m # 0, Run(p, m), NEW i \in 1 .. m - 1
                 PROVE  atomtbl[Before(p, i)] = held
    BY DEF Run
  <2>2. i \in 1 .. m
    BY <1>7
  <2>. QED
    BY <2>1, <2>2 DEF Run
<1>11. \A i \in D : u[i] = IF i \in Cleared(p) THEN vacant ELSE IF i = p THEN held ELSE t[i]
  OBVIOUS
<1> HIDE DEF D, t
<1>12. \A c \in Cleared(p) : c \in D /\ (t[c] = held \/ c = p)
  BY <1>6, <1>9
<1>13. \A c \in Cleared(p) : t[c] # vacant
  BY <1>8, <1>12, Marks
<1>14. \A i \in D : u[i] = vacant <=> i \in Cleared(p) \/ t[i] = vacant
  BY <1>8, <1>11, Marks
<1>15. TableType(u, n)
  <2>1. u \in [D -> Atoms \cup {vacant, held}]
    <3>1. u = [i \in D |-> u[i]]
      BY DEF D
    <3>2. \A i \in D : u[i] \in Atoms \cup {vacant, held}
      BY <1>1, <1>11
    <3>. QED
      BY <3>1, <3>2
  <2>. QED
    BY <2>1 DEF TableType, D
<1>16. \A i \in D : u[i] \in Atoms => u[i] = t[i] /\ i # p
  BY <1>11, Marks
<1>17. Once(u, n)
  <2>1. \A i, j \in D : t[i] \in Atoms /\ t[i] = t[j] => i = j
    BY <1>1 DEF Once, D
  <2>2. \A i, j \in D : u[i] \in Atoms /\ u[i] = u[j] => i = j
    BY <1>16, <2>1
  <2>. QED
    BY <2>2 DEF Once, D
<1>18. Leads(u, n)
  <2>1. SUFFICES ASSUME NEW i \in D, u[i] \in Atoms PROVE Meets(u, n, u[i])
    BY DEF Leads, D
  <2> DEFINE b == t[i]
             cell(j) == Probe(Hash(b, n), j, n)
  <2>2. u[i] = b /\ b \in Atoms /\ i # p
    BY <1>16, <2>1
  <2>3. PICK k \in D : t[cell(k)] = b /\ \A j \in 0 .. k - 1 : t[cell(j)] # vacant
    <3>1. Meets(t, n, b)
      BY <1>1, <2>2 DEF Leads, D
    <3> HIDE DEF b
    <3>. QED
      BY <3>1 DEF Meets, D
  <2>4. \A j \in Int : cell(j) \in D /\ Probe(cell(j), 1, n) = cell(j + 1)
    <3> HIDE DEF b
    <3>1. Hash(b, n) \in Int
      BY <1>2, <2>2
    <3>2. \A j \in Int : Probe(Probe(Hash(b, n), j, n), 1, n) = Probe(Hash(b, n), j + 1, n)
      BY <1>0, <3>1, ProbeOn
    <3>. QED
      BY <1>3, <2>2, <3>2
  <2>5. k \in Nat /\ \A j \in 0 .. k - 1 : j \in Int /\ (j + 1 = k \/ j + 1 \in 0 .. k - 1)
    BY <1>7
  <2>6. b # held /\ b # vacant /\ b # t[p]
    <3>1. \A x, y \in D : t[x] \in Atoms /\ t[x] = t[y] => x = y
      BY <1>1 DEF Once, D
    <3>. QED
      BY <1>8, <2>1, <2>2, <3>1, Marks
  <2> HIDE DEF b, cell
  <2>7. cell(k) \notin Cleared(p) /\ u[cell(k)] = b
    <3>1. cell(k) \in D /\ cell(k) # p
      <4>1. k \in Int
        BY <2>5
      <4>. QED
        BY <2>3, <2>4, <2>6, <4>1
    <3>2. cell(k) \notin Cleared(p)
      BY <1>12, <2>3, <2>6, <3>1
    <3>. QED
      BY <1>11, <2>3, <3>1, <3>2
  <2>8. ASSUME NEW j0 \in 0 .. k - 1, cell(j0) \in Cleared(p) PROVE FALSE
    <3> DEFINE S == {m \in D : Run(p, m) /\ \E j \in 0 .. k - 1 : cell(j) = Before(p, m)}
    <3>1. t[Probe(p, 1, n)] = vacant /\ S # {}
      BY <1>6, <2>8
    <3>2. S \in SUBSET Nat
      BY <1>7
    <3> HIDE DEF S
    <3>3. PICK m \in S : \A l \in S : m <= l
      BY <3>1, <3>2, Least
    <3>4. m \in D /\ Run(p, m)
      BY DEF S
    <3>5. PICK j \in 0 .. k - 1 : cell(j) = Before(p, m)
      BY DEF S
    <3>6. Probe(cell(j), 1, n) = cell(j + 1)
      BY <2>4, <2>5
    <3>7. CASE m = 0
      <4>1. t[cell(j + 1)] = vacant
        BY <1>5, <3>1, <3>5, <3>6, <3>7
      <4>2. j + 1 = k
        BY <2>3, <2>5, <4>1
      <4>. QED
        BY <2>3, <2>6, <4>1, <4>2
    <3>8. CASE m # 0
      <4>1. cell(j + 1) = Before(p, m - 1) /\ Run(p, m - 1) /\ m - 1 \in D
        BY <1>5, <1>7, <1>10, <3>4, <3>5, <3>6, <3>8
      <4>2. t[cell(j + 1)] = held \/ cell(j + 1) = p
        BY <1>9, <4>1
      <4>3. j + 1 # k
        BY <2>3, <2>6, <4>2
      <4>4. j + 1 \in 0 .. k - 1
        BY <2>5, <4>3
      <4>5. m - 1 \in S
        BY <4>1, <4>4 DEF S
      <4>6. ~ (m <= m - 1)
        BY <1>7, <3>4
      <4>. QED
        BY <3>3, <4>5, <4>6
    <3>. QED
      BY <3>7, <3>8
  <2>9. \A j \in 0 .. k - 1 : u[cell(j)] # vacant
    BY <1>14, <2>3, <2>4, <2>5, <2>8
  <2>10. Meets(u, n, b)
    BY <2>3, <2>7, <2>9 DEF Meets, cell, D
  <2>. QED
    BY <2>2, <2>10
<1>19. HeldUseful(u, n)
  <2>1. SUFFICES ASSUME NEW i \in D, u[i] = held, u[Probe(i, 1, n)] = vacant PROVE FALSE
    BY DEF HeldUseful, D
  <2>2. i \notin Cleared(p) /\ (i = p \/ t[i] = held)
    BY <1>11, <2>1, Marks
  <2>3. Probe(i, 1, n) \in D
    BY <1>4
  <2>4. t[Probe(i, 1, n)] # vacant
    <3>1. CASE i = p
      <4>1. 0 \in D /\ Before(p, 0) = p
        BY <1>0, <1>5 DEF D
      <4>2. Run(p, 0)
        BY DEF Run
      <4>. QED
        BY <1>6, <2>2, <3>1, <4>1, <4>2
    <3>2. CASE t[i] = held
      BY <1>1, <3>2 DEF HeldUseful, D
    <3>. QED
      BY <2>2, <3>1, <3>2
  <2>5. Probe(i, 1, n) \in Cleared(p)
    BY <1>14, <2>1, <2>3, <2>4
  <2>6. t[Probe(p, 1, n)] = vacant
    BY <1>6, <2>5
  <2>7. i # p /\ t[i] = held
    BY <2>2, <2>4, <2>6
  <2>8. PICK m \in D : Probe(i, 1, n) = Before(p, m) /\ Run(p, m)
    BY <1>6, <2>5
  <2>9. Probe(Before(p, m + 1), 1, n) = Before(p, m) /\ Before(p, m + 1) \in D
    BY <1>5, <1>7
  <2>10. i = Before(p, m + 1)
    BY <1>0, <2>8, <2>9, StepBack DEF D
  <2>11. Run(p, m + 1)
    <3>1. \A l \in 1 .. m + 1 : l \in 1 .. m \/ l = m + 1
      BY <1>7
    <3>. QED
      BY <2>7, <2>8, <2>10, <3>1 DEF Run, t
  <2>12. m + 1 # n
    <3>1. Before(p, n) = p
      <4>1. n - n = 0 /\ p + 0 * LinAdj = n * 0 + p /\ p + 0 * LinAdj \in Int
        BY <1>0, Linadj DEF D
      <4>2. (p + 0 * LinAdj) % n = p
        BY <1>0, <4>1, ModUnique
      <4>. QED
        BY <4>1, <4>2 DEF Before, Probe
    <3>. QED
      BY <2>7, <2>10, <3>1
  <2>. QED
    BY <1>6, <1>7, <2>2, <2>6, <2>10, <2>11, <2>12
<1>20. Cleared(p) \subseteq Taken(t, n)
  BY <1>12, <1>13 DEF Taken, D
<1>21. Taken(u, n) = Taken(t, n) \ Cleared(p)
  <2>1. \A i : i \in Taken(u, n) <=> i \in D /\ u[i] # vacant
    BY DEF Taken, D
  <2>2. \A i : i \in Taken(t, n) <=> i \in D /\ t[i] # vacant
    BY DEF Taken, D
  <2>. QED
    BY <1>14, <2>1, <2>2
<1>22. TableOK(u, n)
  BY <1>0, <1>15, <1>17, <1>18, <1>19 DEF TableOK
<1>. QED
  BY <1>20, <1>21, <1>22 DEF t

-------------------------------------------------------------------------------
(* Searches *)

LEMMA TakenFinite ==
  ASSUME NEW n \in Nat, NEW t
  PROVE  /\ IsFiniteSet(Taken(t, n)) /\ Cardinality(Taken(t, n)) \in Nat
         /\ Cardinality(Taken(t, n)) < n => \E i \in 0 .. n - 1 : t[i] = vacant
<1>1. IsFiniteSet(0 .. n - 1) /\ Cardinality(0 .. n - 1) = n
  <2>1. 0 \in Int /\ n - 1 \in Int
    OBVIOUS
  <2>2. IsFiniteSet(0 .. n - 1)
    BY <2>1, FS_Interval
  <2>3. Cardinality(0 .. n - 1) = IF 0 > n - 1 THEN 0 ELSE (n - 1) - 0 + 1
    BY <2>1, FS_Interval
  <2>4. (IF 0 > n - 1 THEN 0 ELSE (n - 1) - 0 + 1) = n
    OBVIOUS
  <2>5. Cardinality(0 .. n - 1) = n
    BY <2>3, <2>4
  <2>. QED
    BY <2>2, <2>5
<1>2. Taken(t, n) \in SUBSET (0 .. n - 1)
  BY DEF Taken
<1>3. IsFiniteSet(Taken(t, n))
  BY <1>1, <1>2, FS_Subset
<1>4. Cardinality(Taken(t, n)) \in Nat
  BY <1>3, FS_CardinalityType
<1>5. ASSUME Cardinality(Taken(t, n)) < n PROVE \E i \in 0 .. n - 1 : t[i] = vacant
  <2>1. SUFFICES ASSUME \A i \in 0 .. n - 1 : t[i] # vacant PROVE FALSE
    OBVIOUS
  <2>2. Taken(t, n) = 0 .. n - 1
    BY <2>1 DEF Taken
  <2>3. Cardinality(Taken(t, n)) = n
    BY <1>1, <2>2
  <2>. QED
    BY <1>4, <1>5, <2>3
<1>. QED
  BY <1>3, <1>4, <1>5

(* A vacant cell ends every search. *)
LEMMA StopsSome ==
  ASSUME NEW n, n = atomtblsize, SizeOK(n), NEW a \in Atoms,
         \E i \in 0 .. n - 1 : atomtbl[i] \in {vacant, a}
  PROVE  Stops(a) # {}
<1>1. PICK i \in 0 .. n - 1 : atomtbl[i] \in {vacant, a}
  OBVIOUS
<1>2. Hash(a, n) \in Int
  BY HashType
<1>3. PICK k \in 0 .. n - 1 : Probe(Hash(a, n), k, n) = i
  BY <1>2, Covers
<1>. QED
  BY <1>1, <1>3 DEF Stops

LEMMA SearchOK ==
  ASSUME NEW n, n = atomtblsize, TableOK(atomtbl, n), NEW a \in Atoms
  PROVE  /\ Holds(a) => IsFound(a)
         /\ IsNew(a) => \A i \in 0 .. n - 1 : atomtbl[i] # a
         /\ IsNew(a) => LET f == First(Stops(a))
                        IN  /\ f \in 0 .. n - 1 /\ StopsAt(a) = Probe(Hash(a, n), f, n)
                            /\ atomtbl[StopsAt(a)] = vacant
                            /\ \A j \in 0 .. f - 1 : atomtbl[Probe(Hash(a, n), j, n)] # vacant
<1> DEFINE f == First(Stops(a))
           cell(k) == Probe(Hash(a, n), k, n)
<1>0. n \in Nat /\ SizeOK(n)
  BY DEF TableOK, SizeOK
<1>1. Stops(a) \in SUBSET Nat
  BY <1>0 DEF Stops
<1>2. Stops(a) # {} => f \in Stops(a) /\ \A y \in Stops(a) : f <= y
  BY <1>1, FirstOf
<1>3. StopsAt(a) = cell(f)
  BY DEF StopsAt
<1>4. \A k : k \in Stops(a) <=> /\ k \in 0 .. n - 1
                                /\ atomtbl[cell(k)] = vacant \/ atomtbl[cell(k)] = a
  BY DEF Stops
<1>5. \A k \in 0 .. n - 1 : \A j \in 0 .. k - 1 : j \in 0 .. n - 1 /\ ~ (k <= j)
  BY <1>0
<1> HIDE DEF f, cell
<1>6. ASSUME Holds(a) PROVE IsFound(a)
  <2>1. Meets(atomtbl, n, a)
    BY <1>6 DEF Holds, TableOK, Leads
  <2>2. PICK k \in 0 .. n - 1 : /\ atomtbl[cell(k)] = a
                                /\ \A j \in 0 .. k - 1 : atomtbl[cell(j)] # vacant
    BY <2>1 DEF Meets, cell
  <2>3. k \in Stops(a)
    BY <1>4, <2>2
  <2>4. f \in Stops(a) /\ f <= k
    BY <1>2, <2>3
  <2>5. f \in 0 .. n - 1 /\ (f = k \/ f \in 0 .. k - 1)
    BY <1>0, <1>4, <2>4
  <2>6. atomtbl[cell(f)] = a
    BY <1>4, <2>2, <2>4, <2>5, Marks
  <2>. QED
    BY <1>3, <2>3, <2>6 DEF IsFound
<1>7. IsNew(a) => \A i \in 0 .. n - 1 : atomtbl[i] # a
  BY <1>6 DEF IsNew, Holds
<1>8. ASSUME IsNew(a)
      PROVE  /\ f \in 0 .. n - 1 /\ atomtbl[StopsAt(a)] = vacant
             /\ \A j \in 0 .. f - 1 : atomtbl[cell(j)] # vacant
  <2>1. f \in Stops(a) /\ atomtbl[cell(f)] # a
    BY <1>2, <1>3, <1>8 DEF IsNew, IsFound
  <2>2. f \in 0 .. n - 1 /\ atomtbl[cell(f)] = vacant
    BY <1>4, <2>1
  <2>3. \A j \in 0 .. f - 1 : j \notin Stops(a)
    BY <1>2, <1>5, <2>1, <2>2
  <2>4. \A j \in 0 .. f - 1 : atomtbl[cell(j)] # vacant
    BY <1>4, <1>5, <2>2, <2>3
  <2>. QED
    BY <1>3, <2>2, <2>4
<1>. QED
  BY <1>3, <1>6, <1>7, <1>8 DEF f, cell

(* The search of remove_atom comes to the atom. *)
LEMMA PosnOK ==
  ASSUME NEW n, n = atomtblsize, TableOK(atomtbl, n), NEW a \in Atoms, Holds(a)
  PROVE  PosnOf(a) \in 0 .. n - 1 /\ atomtbl[PosnOf(a)] = a
<1> DEFINE S == {k \in 0 .. n - 1 : atomtbl[Probe(Hash(a, n), k, n)] = a}
<1>0. n \in Nat /\ SizeOK(n)
  BY DEF TableOK, SizeOK
<1>1. Hash(a, n) \in Int
  BY <1>0, HashType
<1>2. PICK i \in 0 .. n - 1 : atomtbl[i] = a
  BY DEF Holds
<1>3. PICK k \in 0 .. n - 1 : Probe(Hash(a, n), k, n) = i
  BY <1>0, <1>1, Covers
<1>4. S \in SUBSET Nat /\ S # {}
  BY <1>0, <1>2, <1>3
<1>5. First(S) \in S
  <2> HIDE DEF S
  <2>. QED
    BY <1>4, FirstOf
<1>6. PosnOf(a) = Probe(Hash(a, n), First(S), n)
  BY DEF PosnOf
<1>7. First(S) \in 0 .. n - 1 /\ atomtbl[Probe(Hash(a, n), First(S), n)] = a
  BY <1>5
<1> HIDE DEF S
<1>8. First(S) \in Int
  BY <1>0, <1>7
<1>. QED
  BY <1>0, <1>1, <1>6, <1>7, <1>8, ProbeType

-------------------------------------------------------------------------------
(* rehash() *)

Vacant(n) == [i \in 0 .. n - 1 |-> vacant]

LEMMA VacantOK ==
  ASSUME NEW n, SizeOK(n)
  PROVE  TableOK(Vacant(n), n) /\ Taken(Vacant(n), n) = {}
<1>1. TableType(Vacant(n), n) /\ \A i \in 0 .. n - 1 : Vacant(n)[i] = vacant
  BY DEF TableType, Vacant
<1>. QED
  BY <1>1, Marks DEF TableOK, Once, Leads, HeldUseful, Taken

FirstVacant(t, n, a) == First({k \in 0 .. n - 1 : t[Probe(Hash(a, n), k, n)] = vacant})

(* One turn of the loop over the cells of the old table. *)
Moved(t, n, a) ==
  IF a \in {vacant, held} THEN t
  ELSE [t EXCEPT ![Probe(Hash(a, n), FirstVacant(t, n, a), n)] = a]

LEMMA MovedOK ==
  ASSUME NEW n, NEW t, TableOK(t, n), NEW a \in Atoms, \A i \in 0 .. n - 1 : t[i] # a,
         \E i \in 0 .. n - 1 : t[i] = vacant
  PROVE  \E s : t[s] = vacant /\ Put(t, n, a, s, Moved(t, n, a))
<1> DEFINE S == {k \in 0 .. n - 1 : t[Probe(Hash(a, n), k, n)] = vacant}
           f == First(S)
           s == Probe(Hash(a, n), f, n)
<1>0. n \in Nat /\ SizeOK(n)
  BY DEF TableOK, SizeOK
<1>1. PICK i \in 0 .. n - 1 : t[i] = vacant
  OBVIOUS
<1>2. Hash(a, n) \in Int
  BY <1>0, HashType
<1>3. PICK k \in 0 .. n - 1 : Probe(Hash(a, n), k, n) = i
  BY <1>0, <1>2, Covers
<1>4. S \in SUBSET Nat /\ S # {}
  BY <1>0, <1>1, <1>3
<1>5. f \in S /\ \A y \in S : f <= y
  <2> HIDE DEF S
  <2>. QED
    BY <1>4, FirstOf
<1>6. \A k1 : k1 \in S <=> k1 \in 0 .. n - 1 /\ t[Probe(Hash(a, n), k1, n)] = vacant
  OBVIOUS
<1>7. Moved(t, n, a) = [t EXCEPT ![s] = a]
  BY Marks DEF Moved, FirstVacant
<1> HIDE DEF S, f
<1>8. f \in 0 .. n - 1 /\ t[s] = vacant
  BY <1>5, <1>6
<1>9. \A j \in 0 .. f - 1 : t[Probe(Hash(a, n), j, n)] # vacant
  <2>1. \A j \in 0 .. f - 1 : j \in 0 .. n - 1 /\ ~ (f <= j)
    BY <1>0, <1>8
  <2>. QED
    BY <1>5, <1>6, <2>1
<1> DEFINE u == [t EXCEPT ![s] = a]
<1>10. s = Probe(Hash(a, n), f, n)
  OBVIOUS
<1>11. u = [t EXCEPT ![s] = a]
  OBVIOUS
<1>12. f \in 0 .. n - 1
  BY <1>8
<1>13. t[s] = vacant
  BY <1>8
<1> HIDE DEF s, u
<1>14. Put(t, n, a, s, u)
  BY <1>9, <1>10, <1>11, <1>12, <1>13, PlacedOK
<1>. QED
  BY <1>7, <1>11, <1>13, <1>14

(* The tables the loop goes through. *)
Turns(t, old, m, n) ==
  /\ t[0] = Vacant(n)
  /\ \A q \in 1 .. m : t[q] = Moved(t[q - 1], n, old[q - 1])

LEMMA TurnsExist ==
  ASSUME NEW old, NEW m \in Nat, NEW n
  PROVE  \E t : t = [q \in 0 .. m |-> t[q]] /\ Turns(t, old, m, n)
<1> DEFINE Goes(l) == \E t : t = [q \in 0 .. l |-> t[q]] /\ Turns(t, old, l, n)
           Fails == {l \in Nat : ~ Goes(l)}
<1>1. Goes(0)
  <2> DEFINE t == [q \in 0 .. 0 |-> Vacant(n)]
  <2>1. t = [q \in 0 .. 0 |-> t[q]] /\ t[0] = Vacant(n)
    OBVIOUS
  <2>2. 1 .. 0 = {}
    OBVIOUS
  <2> HIDE DEF t
  <2>. QED
    BY <2>1, <2>2 DEF Turns
<1>2. Fails = {}
  <2>1. SUFFICES ASSUME Fails # {} PROVE FALSE
    OBVIOUS
  <2>2. Fails \in SUBSET Nat /\ \A l \in Nat : l \in Fails <=> ~ Goes(l)
    OBVIOUS
  <2> HIDE DEF Fails
  <2>3. PICK l \in Fails : \A k \in Fails : l <= k
    BY <2>1, <2>2, Least
  <2>4. l \in Nat /\ ~ Goes(l)
    BY <2>2
  <2>5. l # 0
    <3> HIDE DEF Goes
    <3>. QED
      BY <1>1, <2>4
  <2>6. l - 1 \in Nat /\ ~ (l <= l - 1)
    BY <2>4, <2>5
  <2>7. Goes(l - 1)
    <3> HIDE DEF Goes
    <3>. QED
      BY <2>2, <2>3, <2>6
  <2>8. PICK t : t = [q \in 0 .. l - 1 |-> t[q]] /\ Turns(t, old, l - 1, n)
    BY <2>7
  <2> DEFINE d == [q \in 0 .. l |-> IF q = l THEN Moved(t[l - 1], n, old[l - 1]) ELSE t[q]]
  <2>9. /\ \A q \in 0 .. l - 1 : d[q] = t[q]
        /\ d[l] = Moved(t[l - 1], n, old[l - 1])
        /\ d = [q \in 0 .. l |-> d[q]]
    <3>1. l \in 0 .. l /\ \A q \in 0 .. l - 1 : q \in 0 .. l /\ q # l
      BY <2>4
    <3>. QED
      BY <3>1
  <2>10. /\ 0 \in 0 .. l - 1
         /\ \A q \in 1 .. l : /\ q - 1 \in 0 .. l - 1
                              /\ q = l \/ (q \in 1 .. l - 1 /\ q \in 0 .. l - 1)
    BY <2>4, <2>6
  <2> HIDE DEF d
  <2>11. Turns(d, old, l, n)
    <3>1. ASSUME NEW q \in 1 .. l PROVE d[q] = Moved(d[q - 1], n, old[q - 1])
      BY <2>8, <2>9, <2>10 DEF Turns
    <3>. QED
      BY <2>8, <2>9, <2>10, <3>1 DEF Turns
  <2>. QED
    BY <2>4, <2>9, <2>11
<1>3. Goes(m)
  <2> HIDE DEF Goes
  <2>. QED
    BY <1>2
<1>. QED
  BY <1>3

LEMMA RehashTurns ==
  ASSUME NEW old, NEW m \in Nat, NEW n
  PROVE  \E t : Turns(t, old, m, n) /\ Rehashed(old, m, n) = t[m]
<1> DEFINE Next1(t, q) ==
             LET a == old[q - 1]
                 cell(k) == Probe(Hash(a, n), k, n)
             IN  IF a \in {vacant, held} THEN t[q - 1]
                 ELSE [t[q - 1] EXCEPT
                         ![cell(First({k \in 0 .. n - 1 : t[q - 1][cell(k)] = vacant}))] = a]
           Body(t) == [q \in 0 .. m |-> IF q = 0 THEN [i \in 0 .. n - 1 |-> vacant] ELSE Next1(t, q)]
           chosen == CHOOSE t : t = Body(t)
<1>1. \A t, q : Next1(t, q) = Moved(t[q - 1], n, old[q - 1])
  BY DEF Moved, FirstVacant
<1>2. Rehashed(old, m, n) = chosen[m]
  BY DEF Rehashed
<1> HIDE DEF Next1
<1>3. \A q \in 0 .. m : q = 0 \/ q \in 1 .. m
  OBVIOUS
<1>4. 0 \in 0 .. m /\ \A q \in 1 .. m : q \in 0 .. m /\ q # 0
  OBVIOUS
<1>5. PICK t : t = [q \in 0 .. m |-> t[q]] /\ Turns(t, old, m, n)
  BY TurnsExist
<1>6. t = Body(t)
  BY <1>1, <1>3, <1>5 DEF Turns, Vacant
<1>7. chosen = Body(chosen)
  BY <1>6
<1> HIDE DEF chosen
<1>8. Turns(chosen, old, m, n)
  BY <1>1, <1>4, <1>7 DEF Turns, Vacant
<1>. QED
  BY <1>2, <1>8

Has(t, n, a) == \E i \in 0 .. n - 1 : t[i] = a

AtomCells(t, n) == {i \in 0 .. n - 1 : t[i] \in Atoms}

LEMMA AtomCellsFinite ==
  ASSUME NEW q \in Nat, NEW t
  PROVE  /\ IsFiniteSet(AtomCells(t, q)) /\ Cardinality(AtomCells(t, q)) \in Nat
         /\ Cardinality(AtomCells(t, q)) <= q
<1>1. AtomCells(t, q) \in SUBSET Nat
  BY DEF AtomCells
<1>2. IsFiniteSet(1 .. q) /\ IsFiniteSet(0 .. q - 1)
  BY FS_Interval
<1>3. AtomCells(t, q) \in SUBSET (0 .. q - 1)
  BY DEF AtomCells
<1>4. IsFiniteSet(AtomCells(t, q)) /\ Cardinality(AtomCells(t, q)) <= Cardinality(0 .. q - 1)
  BY <1>2, <1>3, FS_Subset
<1>5. Cardinality(0 .. q - 1) = q
  <2>1. 0 \in Int /\ q - 1 \in Int
    OBVIOUS
  <2>2. Cardinality(0 .. q - 1) = IF 0 > q - 1 THEN 0 ELSE (q - 1) - 0 + 1
    BY <2>1, FS_Interval
  <2>3. (IF 0 > q - 1 THEN 0 ELSE (q - 1) - 0 + 1) = q
    OBVIOUS
  <2>. QED
    BY <2>2, <2>3
<1>6. Cardinality(AtomCells(t, q)) \in Nat
  BY <1>4, FS_CardinalityType
<1>. QED
  BY <1>4, <1>5, <1>6

(* What the new table is after q cells of the old one. *)
Halfway(t, n, old, q) ==
  /\ TableOK(t, n)
  /\ Cardinality(Taken(t, n)) <= Cardinality(AtomCells(old, q))
  /\ \A a \in Atoms : Has(t, n, a) <=> Has(old, q, a)

LEMMA TurnOK ==
  ASSUME NEW n, NEW m \in Nat, NEW old, TableType(old, m), Once(old, m), m < n,
         NEW q \in 1 .. m, NEW t, Halfway(t, n, old, q - 1)
  PROVE  Halfway(Moved(t, n, old[q - 1]), n, old, q)
<1> DEFINE x == old[q - 1]
           u == Moved(t, n, x)
<1>0. n \in Nat /\ q - 1 \in Nat /\ q - 1 < n /\ TableOK(t, n) /\ q \in Nat
  BY DEF Halfway, TableOK, SizeOK
<1>1. q - 1 \in 0 .. m - 1 /\ x \in Atoms \cup {vacant, held}
  BY DEF TableType
<1>2. \A i : i \in 0 .. q - 1 <=> i \in 0 .. (q - 1) - 1 \/ i = q - 1
  BY <1>0
<1>3. \A a : Has(old, q, a) <=> Has(old, q - 1, a) \/ x = a
  BY <1>2 DEF Has
<1>4. q - 1 \notin AtomCells(old, q - 1)
  BY <1>0 DEF AtomCells
<1> HIDE DEF u
<1>5. CASE x \notin Atoms
  <2>1. x \in {vacant, held}
    BY <1>1, <1>5
  <2>2. u = t
    BY <2>1 DEF Moved, u
  <2>3. AtomCells(old, q) = AtomCells(old, q - 1)
    BY <1>2, <1>5 DEF AtomCells
  <2>4. \A a \in Atoms : Has(old, q, a) <=> Has(old, q - 1, a)
    BY <1>3, <1>5
  <2>. QED
    BY <2>2, <2>3, <2>4 DEF Halfway, u
<1>6. CASE x \in Atoms
  <2>1. AtomCells(old, q) = AtomCells(old, q - 1) \cup {q - 1}
    BY <1>2, <1>6 DEF AtomCells
  <2>2. /\ IsFiniteSet(AtomCells(old, q - 1)) /\ Cardinality(AtomCells(old, q - 1)) \in Nat
        /\ Cardinality(AtomCells(old, q - 1)) <= q - 1
    BY <1>0, AtomCellsFinite
  <2>3. Cardinality(AtomCells(old, q)) = Cardinality(AtomCells(old, q - 1)) + 1
    BY <1>4, <2>1, <2>2, FS_AddElement
  <2>4. /\ IsFiniteSet(Taken(t, n)) /\ Cardinality(Taken(t, n)) \in Nat
        /\ Cardinality(Taken(t, n)) < n => \E i \in 0 .. n - 1 : t[i] = vacant
    BY <1>0, TakenFinite
  <2>5. Cardinality(Taken(t, n)) <= Cardinality(AtomCells(old, q - 1))
    BY DEF Halfway
  <2>6. \E i \in 0 .. n - 1 : t[i] = vacant
    BY <1>0, <2>2, <2>4, <2>5
  <2>7. ~ Has(old, q - 1, x)
    <3>1. \A i \in 0 .. (q - 1) - 1 : i \in 0 .. m - 1 /\ i # q - 1
      BY <1>0
    <3>. QED
      BY <1>1, <1>6, <3>1 DEF Has, Once
  <2>8. \A i \in 0 .. n - 1 : t[i] # x
    BY <1>6, <2>7 DEF Halfway, Has
  <2> HIDE DEF x
  <2>9. PICK s : t[s] = vacant /\ Put(t, n, x, s, u)
    BY <1>0, <1>6, <2>6, <2>8, MovedOK DEF u
  <2>10. Cardinality(Taken(u, n)) = Cardinality(Taken(t, n)) + 1
    BY <2>4, <2>9, FS_AddElement DEF Put
  <2>11. Cardinality(Taken(u, n)) <= Cardinality(AtomCells(old, q))
    BY <2>2, <2>3, <2>4, <2>5, <2>10
  <2>12. \A a \in Atoms : Has(u, n, a) <=> Has(t, n, a) \/ a = x
    <3>1. s \in 0 .. n - 1 /\ u[s] = x /\ \A i \in 0 .. n - 1 : i # s => u[i] = t[i]
      BY <2>9 DEF Put
    <3>2. \A a \in Atoms : a # t[s]
      BY <2>9, Marks
    <3>. QED
      BY <3>1, <3>2 DEF Has
  <2>13. \A a \in Atoms : Has(u, n, a) <=> Has(old, q, a)
    BY <1>3, <2>12 DEF Halfway
  <2>14. Halfway(u, n, old, q)
    BY <2>9, <2>11, <2>13 DEF Halfway, Put
  <2>. QED
    BY <2>14 DEF u, x
<1>. QED
  BY <1>5, <1>6

(* rehash moves every atom to a table that is as sound as the old one, and *)
(* takes no cell more than there are atoms: it drops the held cells.       *)
LEMMA RehashedOK ==
  ASSUME NEW n, SizeOK(n), NEW m \in Nat, NEW old, TableType(old, m), Once(old, m), m < n
  PROVE  Halfway(Rehashed(old, m, n), n, old, m)
<1>1. PICK t : Turns(t, old, m, n) /\ Rehashed(old, m, n) = t[m]
  BY RehashTurns
<1>2. Halfway(t[0], n, old, 0)
  <2>1. t[0] = Vacant(n) /\ TableOK(t[0], n) /\ Taken(t[0], n) = {}
    BY <1>1, VacantOK DEF Turns
  <2>2. Cardinality(Taken(t[0], n)) = 0
    BY <2>1, FS_EmptySet
  <2>3. Cardinality(AtomCells(old, 0)) \in Nat
    BY AtomCellsFinite
  <2>4. \A a \in Atoms : ~ Has(t[0], n, a) /\ ~ Has(old, 0, a)
    BY <2>1, Marks DEF Has, Vacant
  <2>. QED
    BY <2>1, <2>2, <2>3, <2>4 DEF Halfway
<1> DEFINE S == {q \in 0 .. m : ~ Halfway(t[q], n, old, q)}
<1>3. S \in SUBSET Nat /\ \A q : q \in S <=> q \in 0 .. m /\ ~ Halfway(t[q], n, old, q)
  OBVIOUS
<1> HIDE DEF S
<1>4. S = {}
  <2>1. SUFFICES ASSUME S # {} PROVE FALSE
    OBVIOUS
  <2>2. PICK q \in S : \A k \in S : q <= k
    BY <1>3, <2>1, Least
  <2>3. q \in 0 .. m /\ ~ Halfway(t[q], n, old, q)
    BY <1>3
  <2>4. q # 0
    BY <1>2, <2>3
  <2>5. q \in 1 .. m /\ q - 1 \in 0 .. m /\ ~ (q <= q - 1)
    BY <2>3, <2>4
  <2>6. Halfway(t[q - 1], n, old, q - 1)
    BY <1>3, <2>2, <2>5
  <2>7. t[q] = Moved(t[q - 1], n, old[q - 1])
    BY <1>1, <2>5 DEF Turns
  <2> DEFINE p == t[q - 1]
  <2>8. Halfway(p, n, old, q - 1)
    BY <2>6
  <2> HIDE DEF p
  <2>9. Halfway(Moved(p, n, old[q - 1]), n, old, q)
    BY <2>5, <2>8, TurnOK
  <2>. QED
    BY <2>3, <2>7, <2>9 DEF p
<1>5. m \in 0 .. m
  OBVIOUS
<1>. QED
  BY <1>1, <1>3, <1>4, <1>5

-------------------------------------------------------------------------------
(* The invariant *)

(* The count is at least the number of the cells that are not vacant, also *)
(* after a growth that failed; rehash drops the held cells but not their   *)
(* share of the count.                                                     *)
Counted == Cardinality(Taken(atomtbl, atomtblsize)) <= atomcnt

FatalAfterFailure == fatal => inrehash

Roomy == ~inrehash => atomcnt <= atomtblsize \div 2

IInv ==
  /\ TableOK(atomtbl, atomtblsize)
  /\ atomcnt \in Nat /\ inrehash \in BOOLEAN /\ fatal \in BOOLEAN
  /\ Counted /\ Roomy /\ FatalAfterFailure

LEMMA InitInv == Init => IInv
<1> SUFFICES ASSUME Init PROVE IInv
  OBVIOUS
<1>1. SizeOK(atomtblsize)
  BY NewSizeOK, AtomConstants DEF Init
<1>2. atomtbl = Vacant(atomtblsize)
  BY DEF Init, Vacant
<1>3. TableOK(atomtbl, atomtblsize) /\ Taken(atomtbl, atomtblsize) = {}
  BY <1>1, <1>2, VacantOK
<1>4. Cardinality(Taken(atomtbl, atomtblsize)) = 0
  BY <1>3, FS_EmptySet
<1>5. 0 <= atomtblsize \div 2
  BY <1>1 DEF SizeOK
<1>6. atomcnt = 0 /\ inrehash = FALSE /\ fatal = FALSE
  BY DEF Init
<1>7. Counted
  BY <1>4, <1>6 DEF Counted
<1>8. Roomy
  BY <1>5, <1>6 DEF Roomy
<1>9. FatalAfterFailure
  BY <1>6 DEF FatalAfterFailure
<1>. QED
  BY <1>3, <1>6, <1>7, <1>8, <1>9 DEF IInv

(* The table with the new atom, before any growth. *)
LEMMA WithOK ==
  ASSUME IInv, NEW a \in Atoms, IsNew(a)
  PROVE  /\ TableOK(With(a), atomtblsize)
         /\ Cardinality(Taken(With(a), atomtblsize)) <= CountWith
         /\ CountWith \in Nat
<1> DEFINE n == atomtblsize
           t == atomtbl
           f == First(Stops(a))
           s == StopsAt(a)
           u == With(a)
<1>0. n = atomtblsize /\ TableOK(t, n) /\ n \in Nat /\ TableOK(atomtbl, n)
  BY DEF IInv, TableOK, SizeOK
<1>1. /\ \A i \in 0 .. n - 1 : t[i] # a
      /\ f \in 0 .. n - 1 /\ s = Probe(Hash(a, n), f, n) /\ t[s] = vacant
      /\ \A j \in 0 .. f - 1 : t[Probe(Hash(a, n), j, n)] # vacant
  BY <1>0, SearchOK
<1>2. u = [t EXCEPT ![s] = a]
  BY DEF With
<1> HIDE DEF n, t, f, s, u
<1>3. Put(t, n, a, s, u)
  BY <1>0, <1>1, <1>2, PlacedOK
<1>4. IsFiniteSet(Taken(t, n)) /\ Cardinality(Taken(t, n)) \in Nat
  BY <1>0, TakenFinite
<1>5. Cardinality(Taken(u, n)) = Cardinality(Taken(t, n)) + 1
  BY <1>3, <1>4, FS_AddElement DEF Put
<1>6. atomcnt \in Nat /\ Cardinality(Taken(t, n)) <= atomcnt
  BY DEF IInv, Counted, t, n
<1>7. CountWith \in Nat /\ Cardinality(Taken(u, n)) <= CountWith
  BY <1>4, <1>5, <1>6 DEF CountWith
<1>. QED
  BY <1>3, <1>7 DEF Put, u, n

LEMMA InsertKeeps ==
  ASSUME IInv, NEW a \in Atoms, Insert(a)
  PROVE  IInv'
<1>1. /\ TableOK(With(a), atomtblsize) /\ CountWith \in Nat
      /\ Cardinality(Taken(With(a), atomtblsize)) <= CountWith
  BY WithOK DEF Insert
<1>2. /\ atomtbl' = With(a) /\ atomtblsize' = atomtblsize /\ atomcnt' = CountWith
      /\ inrehash' = inrehash /\ fatal' = fatal
  BY DEF Insert
<1>3. atomtblsize \div 2 \in Int
  BY DEF IInv, TableOK, SizeOK
<1>4. ~inrehash => CountWith <= atomtblsize \div 2
  BY <1>1, <1>3 DEF Insert, MustGrow
<1>5. Counted' /\ Roomy' /\ FatalAfterFailure'
  BY <1>1, <1>2, <1>4 DEF Counted, Roomy, FatalAfterFailure, IInv
<1>6. TableOK(atomtbl, atomtblsize)'
  BY <1>1, <1>2
<1>. QED
  BY <1>1, <1>2, <1>5, <1>6 DEF IInv

LEMMA InsertGrowFailsKeeps ==
  ASSUME IInv, NEW a \in Atoms, InsertGrowFails(a)
  PROVE  IInv'
<1>1. /\ TableOK(With(a), atomtblsize) /\ CountWith \in Nat
      /\ Cardinality(Taken(With(a), atomtblsize)) <= CountWith
  BY WithOK DEF InsertGrowFails
<1>2. /\ atomtbl' = With(a) /\ atomtblsize' = atomtblsize /\ atomcnt' = CountWith
      /\ inrehash' = TRUE /\ fatal' = fatal
  BY DEF InsertGrowFails
<1>3. Counted' /\ Roomy' /\ FatalAfterFailure'
  BY <1>1, <1>2 DEF Counted, Roomy, FatalAfterFailure, IInv
<1>4. TableOK(atomtbl, atomtblsize)'
  BY <1>1, <1>2
<1>. QED
  BY <1>1, <1>2, <1>3, <1>4 DEF IInv

LEMMA InsertAndGrowKeeps ==
  ASSUME IInv, NEW a \in Atoms, InsertAndGrow(a)
  PROVE  IInv'
<1> DEFINE n == atomtblsize
           z == NextSize
           u == With(a)
<1>1. TableOK(u, n) /\ CountWith \in Nat /\ Cardinality(Taken(u, n)) <= CountWith
  BY WithOK DEF InsertAndGrow
<1>2. /\ atomtbl' = Rehashed(u, n, z) /\ atomtblsize' = z /\ atomcnt' = CountWith
      /\ inrehash' = inrehash /\ fatal' = fatal
  BY DEF InsertAndGrow
<1>3. n \in Nat /\ LinAdj < n /\ n + DfSize \in Nat /\ LinAdj < n + DfSize /\ DfSize \in Nat
      /\ n < n + DfSize /\ 2 <= DfSize
  BY <1>1, AtomConstants DEF TableOK, SizeOK
<1>4. SizeOK(z) /\ n + DfSize <= z
  BY <1>3, NewSizeOK DEF NextSize
<1>5. z \in Nat /\ n < z
  BY <1>3, <1>4 DEF SizeOK
<1>6. ~inrehash => atomcnt <= n \div 2
  BY DEF IInv, Roomy
<1>7. ~inrehash => CountWith <= z \div 2
  <2>1. atomcnt \in Nat
    BY DEF IInv
  <2>2. (n \div 2) + 1 <= (n + DfSize) \div 2
    BY <1>3
  <2> HIDE DEF n, z
  <2>3. (n + DfSize) \div 2 <= z \div 2
    BY <1>3, <1>4, <1>5
  <2>. QED
    BY <1>3, <1>5, <1>6, <2>1, <2>2, <2>3 DEF CountWith
<1>8. FatalAfterFailure
  BY DEF IInv
<1> HIDE DEF n, z, u
<1>9. TableType(u, n) /\ Once(u, n)
  BY <1>1 DEF TableOK
<1>10. Halfway(Rehashed(u, n, z), z, u, n)
  BY <1>3, <1>4, <1>5, <1>9, RehashedOK
<1>11. Cardinality(Taken(Rehashed(u, n, z), z)) <= CountWith
  <2>1. IsFiniteSet(Taken(u, n)) /\ Cardinality(Taken(u, n)) \in Nat
    BY <1>3, TakenFinite
  <2>2. AtomCells(u, n) \in SUBSET Taken(u, n)
    BY Marks DEF AtomCells, Taken
  <2>3. Cardinality(AtomCells(u, n)) <= Cardinality(Taken(u, n))
    BY <2>1, <2>2, FS_Subset
  <2>4. Cardinality(AtomCells(u, n)) \in Nat
    BY <1>3, AtomCellsFinite
  <2>5. Cardinality(Taken(Rehashed(u, n, z), z)) \in Nat
    BY <1>5, TakenFinite
  <2>6. Cardinality(Taken(Rehashed(u, n, z), z)) <= Cardinality(AtomCells(u, n))
    BY <1>10 DEF Halfway
  <2>. QED
    BY <1>1, <2>1, <2>3, <2>4, <2>5, <2>6
<1>12. Counted' /\ Roomy' /\ FatalAfterFailure'
  BY <1>2, <1>7, <1>8, <1>11 DEF Counted, Roomy, FatalAfterFailure
<1>13. TableOK(atomtbl, atomtblsize)'
  BY <1>2, <1>10 DEF Halfway
<1>. QED
  BY <1>1, <1>2, <1>12, <1>13 DEF IInv

(* A table with a vacant cell is never full for a search. *)
LEMMA TableFullKeeps ==
  ASSUME IInv, NEW a \in Atoms, TableFull(a)
  PROVE  IInv'
<1> DEFINE n == atomtblsize
<1>0. n \in Nat /\ SizeOK(n) /\ 0 < n
  BY Linadj DEF IInv, TableOK, SizeOK
<1>1. inrehash
  <2>1. SUFFICES ASSUME ~inrehash PROVE FALSE
    OBVIOUS
  <2>2. Cardinality(Taken(atomtbl, n)) <= atomcnt /\ atomcnt <= n \div 2 /\ atomcnt \in Nat
    BY <2>1 DEF IInv, Counted, Roomy
  <2>3. n \div 2 < n /\ n \div 2 \in Int
    BY <1>0
  <2>4. Cardinality(Taken(atomtbl, n)) \in Nat
    BY <1>0, TakenFinite
  <2>5. Cardinality(Taken(atomtbl, n)) < n
    BY <1>0, <2>2, <2>3, <2>4
  <2>6. \E i \in 0 .. n - 1 : atomtbl[i] = vacant
    BY <1>0, <2>5, TakenFinite
  <2>7. Stops(a) # {}
    BY <1>0, <2>6, StopsSome
  <2>. QED
    BY <2>7 DEF TableFull
<1>2. /\ atomtbl' = atomtbl /\ atomtblsize' = atomtblsize /\ atomcnt' = atomcnt
      /\ inrehash' = inrehash /\ fatal' = TRUE
  BY DEF TableFull
<1>3. Counted' /\ Roomy' /\ FatalAfterFailure'
  BY <1>1, <1>2 DEF Counted, Roomy, FatalAfterFailure, IInv
<1>4. TableOK(atomtbl, atomtblsize)'
  BY <1>2 DEF IInv
<1>. QED
  BY <1>2, <1>3, <1>4 DEF IInv

LEMMA RemoveKeeps ==
  ASSUME IInv, NEW a \in Atoms, Remove(a)
  PROVE  IInv'
<1> DEFINE n == atomtblsize
           t == atomtbl
           p == PosnOf(a)
           c == Cleared(p)
           u == [i \in 0 .. n - 1 |-> IF i \in c THEN vacant ELSE IF i = p THEN held ELSE t[i]]
<1>0. n = atomtblsize /\ TableOK(atomtbl, n) /\ n \in Nat
  BY DEF IInv, TableOK, SizeOK
<1>1. p \in 0 .. n - 1 /\ atomtbl[p] = a
  BY <1>0, PosnOK DEF Remove
<1>2. /\ atomtbl' = u /\ atomtblsize' = n /\ atomcnt' = atomcnt - Cardinality(c)
      /\ inrehash' = inrehash /\ fatal' = fatal
  BY DEF Remove
<1>3. TableOK(u, n) /\ c \subseteq Taken(t, n) /\ Taken(u, n) = Taken(t, n) \ c
  <2> HIDE DEF p, n
  <2>1. u = [i \in 0 .. n - 1 |-> IF i \in Cleared(p) THEN vacant ELSE IF i = p THEN held ELSE atomtbl[i]]
    OBVIOUS
  <2> HIDE DEF u
  <2>. QED
    BY <1>0, <1>1, <2>1, RemovedOK
<1>4. /\ atomcnt \in Nat /\ Cardinality(Taken(t, n)) <= atomcnt
      /\ ~inrehash => atomcnt <= n \div 2
      /\ FatalAfterFailure /\ inrehash \in BOOLEAN /\ fatal \in BOOLEAN
  BY DEF IInv, Counted, Roomy
<1> HIDE DEF p, c, u, t
<1>5. IsFiniteSet(Taken(t, n)) /\ Cardinality(Taken(t, n)) \in Nat
  BY <1>0, TakenFinite
<1>6. IsFiniteSet(c) /\ Cardinality(c) <= Cardinality(Taken(t, n))
  BY <1>3, <1>5, FS_Subset
<1>7. Cardinality(c) \in Nat
  BY <1>6, FS_CardinalityType
<1>8. Cardinality(Taken(u, n)) = Cardinality(Taken(t, n)) - Cardinality(c)
  <2>1. Taken(t, n) \cap c = c
    BY <1>3
  <2>2. Cardinality(Taken(t, n) \ c) = Cardinality(Taken(t, n)) - Cardinality(Taken(t, n) \cap c)
    BY <1>5, FS_Difference
  <2>. QED
    BY <1>3, <2>1, <2>2
<1>9. /\ atomcnt' \in Nat /\ Cardinality(Taken(u, n)) <= atomcnt' /\ atomcnt' <= atomcnt
  BY <1>2, <1>4, <1>5, <1>6, <1>7, <1>8
<1>10. n \div 2 \in Int
  BY <1>0
<1> HIDE DEF n
<1>11. Counted'
  BY <1>2, <1>9 DEF Counted
<1>12. Roomy'
  BY <1>2, <1>4, <1>9, <1>10 DEF Roomy
<1>13. FatalAfterFailure'
  BY <1>2, <1>4 DEF FatalAfterFailure
<1>14. TableOK(atomtbl, atomtblsize)'
  BY <1>2, <1>3
<1>. QED
  BY <1>2, <1>4, <1>9, <1>11, <1>12, <1>13, <1>14 DEF IInv

LEMMA NextInv == IInv /\ [Next]_vars => IInv'
<1> SUFFICES ASSUME IInv, [Next]_vars PROVE IInv'
  OBVIOUS
<1>1. CASE UNCHANGED vars
  BY <1>1 DEF vars, IInv, TableOK, SizeOK, TableType, Once, Leads, HeldUseful, Meets, Hash, Probe,
              Counted, Taken, Roomy, FatalAfterFailure
<1>2. CASE Next
  <2>1. PICK a \in Atoms : CreateAtom(a) \/ Remove(a)
    BY <1>2 DEF Next
  <2>. QED
    BY <2>1, InsertKeeps, InsertAndGrowKeeps, InsertGrowFailsKeeps, TableFullKeeps, RemoveKeeps
    DEF CreateAtom
<1>. QED
  BY <1>1, <1>2

THEOREM AtomInvariance == Spec => []IInv
BY InitInv, NextInv, PTL DEF Spec

(* The table, its size and its count keep their types. *)
THEOREM AtomTypeCorrect == Spec => []TypeOK
<1>1. IInv => TypeOK
  BY DEF IInv, TableOK, SizeOK, TableType, TypeOK, Cells
<1>. QED
  BY <1>1, AtomInvariance, PTL

(* Equal phrases are one array: no sequence of creations, removals and     *)
(* rehashes, whether or not a growth failed in between, puts an atom into  *)
(* two cells.                                                              *)
THEOREM AtomsOnce == Spec => []Unique
<1>1. IInv => Unique
  BY DEF IInv, TableOK, Once, Unique, Cells
<1>. QED
  BY <1>1, AtomInvariance, PTL

(* Every atom of the table is found again: no vacant cell gets between the *)
(* start of its search and its cell, whatever was removed around it.       *)
THEOREM AtomsFindable == Spec => []Findable
<1>1. IInv => Findable
  BY SearchOK DEF IInv, Findable
<1>. QED
  BY <1>1, AtomInvariance, PTL

(* As long as growth works half of the cells are vacant, and the           *)
(* interpreter does not give up on a full table: linadj is a prime and no  *)
(* size is a multiple of it, so that a search meets every cell.            *)
THEOREM TableHalfVacant == Spec => []HalfVacant
<1>1. IInv => HalfVacant
  <2>1. Used = Taken(atomtbl, atomtblsize)
    BY DEF Used, Taken, Cells
  <2>. QED
    BY <2>1 DEF IInv, Counted, Roomy, FatalAfterFailure, HalfVacant
<1>. QED
  BY <1>1, AtomInvariance, PTL

(* remove_atom leaves no cell held that no search needs.                   *)
THEOREM HeldAreNeeded == Spec => []NoUselessHeld
<1>1. IInv => NoUselessHeld
  BY DEF IInv, TableOK, HeldUseful, NoUselessHeld, Cells
<1>. QED
  BY <1>1, AtomInvariance, PTL

================================================================================
