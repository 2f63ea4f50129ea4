------------------------ MODULE DeferredQueueProofs ------------------------
(***************************************************************************)
(* TypeOK and PendingExact for any number of streams, fragments, request   *)
(* workers and workers, any limits, and any number of late copies, resets  *)
(* and closes.  PendingExact is about a sum over the workers and about     *)
(* what compaction leaves of a queue, both defined by recursion; the       *)
(* inductions rest on the least element of a set of natural numbers.       *)
(***************************************************************************)
EXTENDS DeferredConnectProofs, FiniteSetTheorems, WellFoundedInduction

-----------------------------------------------------------------------------
(* Induction.                                                              *)

\* A set of natural numbers that is not empty has a least element.
LEMMA LeastNat ==
  ASSUME NEW T \in SUBSET Nat, T # {}
  PROVE  \E x \in T : \A y \in T : x <= y
<1>1. PICK x \in T : \A y \in T : ~ (<<y, x>> \in OpToRel(<, Nat))
  BY WFMin, NatLessThanWellFounded
<1>2. \A y \in T : ~ (<<y, x>> \in {ss \in Nat \X Nat : ss[1] < ss[2]})
  BY <1>1, Zenon DEF OpToRel
<1>3. \A y \in T : ~(y < x)  BY <1>2
<1> QED BY <1>3

\* Induction over an interval: a set that holds 0 and, with n, n + 1 is the interval.
LEMMA Induction ==
  ASSUME NEW N \in Nat, NEW T \in SUBSET (0 .. N), 0 \in T,
         \A n \in 0 .. N - 1 : n \in T => n + 1 \in T
  PROVE  T = 0 .. N
<1> SUFFICES ASSUME (0 .. N) \ T # {}  PROVE FALSE
  OBVIOUS
<1>1. (0 .. N) \ T \in SUBSET Nat  OBVIOUS
<1>2. PICK x \in (0 .. N) \ T : \A y \in (0 .. N) \ T : x <= y  BY <1>1, LeastNat
<1>3. x # 0 /\ x - 1 \in 0 .. N - 1 /\ x - 1 \in T  BY <1>2
<1> QED BY <1>2, <1>3

\* Induction over the subsets of a finite set: a set of subsets that holds every subset all of
\* whose predecessors it holds is the set of all subsets.
LEMMA SubsetInduction ==
  ASSUME NEW S, IsFiniteSet(S), NEW T \in SUBSET SUBSET S,
         \A s \in SUBSET S : (\A x \in s : s \ {x} \in T) => s \in T
  PROVE  T = SUBSET S
<1>1. PICK Bad : Bad = (SUBSET S) \ T  OBVIOUS
<1> SUFFICES ASSUME Bad # {}  PROVE FALSE
  BY <1>1
<1>2. \A s \in SUBSET S : IsFiniteSet(s) /\ Cardinality(s) \in Nat
  BY FS_Subset, FS_CardinalityType
<1>3. PICK C : C = {Cardinality(s) : s \in Bad}  OBVIOUS
<1>4. C \in SUBSET Nat /\ C # {}  BY <1>1, <1>2, <1>3
<1>5. PICK n \in C : \A m \in C : n <= m  BY <1>4, LeastNat
<1>6. PICK s \in Bad : n = Cardinality(s)  BY <1>3, <1>5
<1>7. \A x \in s : s \ {x} \in SUBSET S /\ Cardinality(s \ {x}) = Cardinality(s) - 1
  BY <1>1, <1>2, <1>6, FS_RemoveElement
<1>8. ASSUME NEW x \in s  PROVE s \ {x} \in T
  <2>1. PICK m : m = Cardinality(s \ {x})  OBVIOUS
  <2>2. m \in Nat /\ n \in Nat /\ m < n  BY <1>1, <1>2, <1>6, <1>7, <2>1
  <2>3. s \ {x} \in Bad => m \in C  BY <1>3, <2>1
  <2>4. s \ {x} \notin Bad  BY <1>5, <2>2, <2>3
  <2> QED BY <1>1, <1>7, <2>4
<1> QED BY <1>1, <1>6, <1>8

-----------------------------------------------------------------------------
(* Sums over a finite set.                                                 *)

\* The sum of f over the subsets of S, by the recursion of MapThenSumSet.
Pick(s) == CHOOSE x \in s : TRUE
Body(f, g, s) == IF s = {} THEN 0 ELSE f[Pick(s)] + g[s \ {Pick(s)}]
IsSum(f, S, g) == g = [s \in SUBSET S |-> Body(f, g, s)]
SumOf(f, S) == CHOOSE g : IsSum(f, S, g)

\* MapThenSumSet is this sum.
LEMMA SumFold ==
  ASSUME NEW f, NEW S
  PROVE  MapThenSumSet(LAMBDA x : f[x], S) = SumOf(f, S)[S]
BY DEF MapThenSumSet, MapThenFoldSet, SumOf, IsSum, Body, Pick

\* A set that is not empty has the element that is picked from it.
LEMMA Picked ==
  ASSUME NEW s, s # {}
  PROVE  Pick(s) \in s
BY DEF Pick

\* The recursion has a solution: one for the sets of n elements extends to n + 1.
LEMMA SumExists ==
  ASSUME NEW S, IsFiniteSet(S), NEW f \in [S -> Nat]
  PROVE  \E g \in [SUBSET S -> Nat] : IsSum(f, S, g)
<1> DEFINE N == Cardinality(S)
           Upto(g, n) == \A s \in SUBSET S : Cardinality(s) <= n => g[s] = Body(f, g, s)
           T == {n \in 0 .. N : \E g \in [SUBSET S -> Nat] : Upto(g, n)}
<1>1. \A s \in SUBSET S : IsFiniteSet(s) /\ Cardinality(s) \in Nat /\ Cardinality(s) <= N
  BY FS_Subset, FS_CardinalityType
<1>2. N \in Nat  BY FS_CardinalityType
<1>3. 0 \in T
  <2>1. PICK g : g = [s \in SUBSET S |-> 0]  OBVIOUS
  <2>2. \A s \in SUBSET S : Cardinality(s) <= 0 => s = {}  BY <1>1, FS_EmptySet
  <2>3. Upto(g, 0)  BY <2>1, <2>2 DEF Body
  <2> QED BY <1>2, <2>1, <2>3
<1>4. ASSUME NEW n \in 0 .. N - 1, n \in T  PROVE n + 1 \in T
  <2>1. PICK g \in [SUBSET S -> Nat] : Upto(g, n)  BY <1>4
  <2>2. \A s \in SUBSET S : s # {} => /\ Pick(s) \in S /\ s \ {Pick(s)} \in SUBSET S
                                      /\ Cardinality(s \ {Pick(s)}) = Cardinality(s) - 1
    BY <1>1, Picked, FS_RemoveElement
  <2>3. \A s \in SUBSET S : Body(f, g, s) \in Nat  BY <2>2 DEF Body
  <2>4. PICK k : k = [s \in SUBSET S |-> IF Cardinality(s) <= n THEN g[s] ELSE Body(f, g, s)]
    OBVIOUS
  <2>5. k \in [SUBSET S -> Nat]  BY <2>3, <2>4
  <2>6. \A s \in SUBSET S : Cardinality(s) <= n + 1 => Body(f, k, s) = Body(f, g, s)
    BY <1>1, <2>2, <2>4 DEF Body
  <2>7. \A s \in SUBSET S : k[s] = Body(f, g, s) \/ Cardinality(s) > n + 1
    BY <1>1, <2>1, <2>4
  <2>8. Upto(k, n + 1)  BY <1>1, <2>6, <2>7
  <2> QED BY <1>2, <2>5, <2>8
<1>5. T = 0 .. N
  <2> HIDE DEF T, N
  <2>1. T \subseteq 0 .. N  BY DEF T
  <2> QED BY <1>2, <1>3, <1>4, <2>1, Induction
<1>6. N \in T
  <2> HIDE DEF T, N
  <2> QED BY <1>2, <1>5
<1>7. PICK g \in [SUBSET S -> Nat] : Upto(g, N)  BY <1>6
<1>8. \A s \in SUBSET S : g[s] = Body(f, g, s)  BY <1>1, <1>7
<1>9. g = [s \in SUBSET S |-> Body(f, g, s)]  BY <1>8
<1> QED BY <1>9 DEF IsSum

\* The sum is a natural number, and obeys its recursion.
LEMMA SumTyped ==
  ASSUME NEW S, IsFiniteSet(S), NEW f \in [S -> Nat]
  PROVE  /\ SumOf(f, S) \in [SUBSET S -> Nat]
         /\ \A s \in SUBSET S : SumOf(f, S)[s] = Body(f, SumOf(f, S), s)
<1>1. PICK g : g = SumOf(f, S)  OBVIOUS
<1>2. IsSum(f, S, g)  BY <1>1, SumExists DEF SumOf
<1>3. g = [s \in SUBSET S |-> Body(f, g, s)]  BY <1>2 DEF IsSum
<1>4. \A s \in SUBSET S : g[s] = Body(f, g, s)  BY <1>3
<1>5. PICK T : T = {s \in SUBSET S : g[s] \in Nat}  OBVIOUS
<1>6. ASSUME NEW s \in SUBSET S, \A x \in s : s \ {x} \in T  PROVE s \in T
  <2>1. CASE s = {}
    <3>1. g[s] = 0  BY <1>4, <2>1 DEF Body
    <3> QED BY <1>5, <3>1
  <2>2. CASE s # {}
    <3>1. Pick(s) \in s /\ Pick(s) \in S  BY <2>2, Picked
    <3>2. g[s \ {Pick(s)}] \in Nat  BY <1>5, <1>6, <3>1
    <3>3. g[s] = f[Pick(s)] + g[s \ {Pick(s)}]  BY <1>4, <2>2 DEF Body
    <3> QED BY <1>5, <3>1, <3>2, <3>3
  <2> QED BY <2>1, <2>2
<1>7. T = SUBSET S
  <2>1. T \subseteq SUBSET S  BY <1>5
  <2> QED BY <1>6, <2>1, SubsetInduction
<1> QED BY <1>1, <1>3, <1>4, <1>5, <1>7

\* The order of the elements does not matter.
LEMMA SumRemove ==
  ASSUME NEW S, IsFiniteSet(S), NEW f \in [S -> Nat], NEW s \in SUBSET S, NEW x \in s
  PROVE  SumOf(f, S)[s] = f[x] + SumOf(f, S)[s \ {x}]
<1>1. PICK g : g = SumOf(f, S)  OBVIOUS
<1>2. g \in [SUBSET S -> Nat] /\ \A r \in SUBSET S : g[r] = Body(f, g, r)  BY <1>1, SumTyped
<1>3. PICK T : T = {r \in SUBSET S : \A y \in r : g[r] = f[y] + g[r \ {y}]}  OBVIOUS
<1>4. ASSUME NEW r \in SUBSET S, \A y \in r : r \ {y} \in T  PROVE r \in T
  <2>1. ASSUME NEW y \in r  PROVE g[r] = f[y] + g[r \ {y}]
    <3>1. PICK z : z = Pick(r)  OBVIOUS
    <3>2. z \in r /\ g[r] = f[z] + g[r \ {z}]  BY <1>2, <2>1, <3>1, Picked DEF Body
    <3>3. CASE y = z  BY <3>2, <3>3
    <3>4. CASE y # z
      <4>1. (r \ {z}) \ {y} = (r \ {y}) \ {z}  OBVIOUS
      <4>2. g[r \ {z}] = f[y] + g[(r \ {z}) \ {y}]  BY <1>3, <1>4, <3>2, <3>4
      <4>3. g[r \ {y}] = f[z] + g[(r \ {y}) \ {z}]  BY <1>3, <1>4, <3>2, <3>4
      <4>4. f[y] \in Nat /\ f[z] \in Nat /\ g[(r \ {y}) \ {z}] \in Nat  BY <1>2, <3>2
      <4>5. PICK a, b, c : a = f[y] /\ b = f[z] /\ c = g[(r \ {y}) \ {z}]  OBVIOUS
      <4>6. g[r \ {z}] = a + c /\ g[r \ {y}] = b + c /\ a \in Nat /\ b \in Nat /\ c \in Nat
        BY <4>1, <4>2, <4>3, <4>4, <4>5
      <4>7. g[r] = b + (a + c) /\ f[y] + g[r \ {y}] = a + (b + c)  BY <3>2, <4>5, <4>6
      <4> QED BY <4>6, <4>7
    <3> QED BY <3>3, <3>4
  <2> QED BY <1>3, <2>1
<1>5. T = SUBSET S
  <2>1. T \subseteq SUBSET S  BY <1>3
  <2> QED BY <1>4, <2>1, SubsetInduction
<1> QED BY <1>1, <1>3, <1>5

\* Sums are added element by element.
LEMMA SumPlus ==
  ASSUME NEW S, IsFiniteSet(S), NEW f \in [S -> Nat], NEW g \in [S -> Nat], NEW h \in [S -> Nat],
         \A x \in S : h[x] = f[x] + g[x]
  PROVE  SumOf(h, S)[S] = SumOf(f, S)[S] + SumOf(g, S)[S]
<1>1. PICK F, G, H : F = SumOf(f, S) /\ G = SumOf(g, S) /\ H = SumOf(h, S)  OBVIOUS
<1>2. /\ F \in [SUBSET S -> Nat] /\ \A r \in SUBSET S : F[r] = Body(f, F, r)
      /\ G \in [SUBSET S -> Nat] /\ \A r \in SUBSET S : G[r] = Body(g, G, r)
      /\ H \in [SUBSET S -> Nat] /\ \A r \in SUBSET S : H[r] = Body(h, H, r)
  BY <1>1, SumTyped
<1>3. PICK T : T = {r \in SUBSET S : H[r] = F[r] + G[r]}  OBVIOUS
<1>4. ASSUME NEW r \in SUBSET S, \A y \in r : r \ {y} \in T  PROVE r \in T
  <2>1. CASE r = {}
    <3>1. H[r] = 0 /\ F[r] = 0 /\ G[r] = 0  BY <1>2, <2>1 DEF Body
    <3> QED BY <1>3, <3>1
  <2>2. CASE r # {}
    <3>1. PICK z : z = Pick(r)  OBVIOUS
    <3>2. z \in r /\ z \in S  BY <2>2, <3>1, Picked
    <3>3. H[r] = h[z] + H[r \ {z}] /\ F[r] = f[z] + F[r \ {z}] /\ G[r] = g[z] + G[r \ {z}]
      BY <1>2, <2>2, <3>1 DEF Body
    <3>4. H[r \ {z}] = F[r \ {z}] + G[r \ {z}]  BY <1>3, <1>4, <3>2
    <3>5. /\ F[r \ {z}] \in Nat /\ G[r \ {z}] \in Nat /\ f[z] \in Nat /\ g[z] \in Nat
          /\ h[z] = f[z] + g[z]
      BY <1>2, <3>2
    <3> QED BY <1>3, <3>3, <3>4, <3>5
  <2> QED BY <2>1, <2>2
<1>5. T = SUBSET S
  <2>1. T \subseteq SUBSET S  BY <1>3
  <2> QED BY <1>4, <2>1, SubsetInduction
<1> QED BY <1>1, <1>3, <1>5

\* Two functions that agree have the same sum.
LEMMA SumSame ==
  ASSUME NEW S, IsFiniteSet(S), NEW f \in [S -> Nat], NEW g \in [S -> Nat], NEW s \in SUBSET S,
         \A x \in s : f[x] = g[x]
  PROVE  SumOf(f, S)[s] = SumOf(g, S)[s]
<1>1. PICK F, G : F = SumOf(f, S) /\ G = SumOf(g, S)  OBVIOUS
<1>2. /\ F \in [SUBSET S -> Nat] /\ \A r \in SUBSET S : F[r] = Body(f, F, r)
      /\ G \in [SUBSET S -> Nat] /\ \A r \in SUBSET S : G[r] = Body(g, G, r)
  BY <1>1, SumTyped
<1>3. PICK T : T = {r \in SUBSET S : r \subseteq s => F[r] = G[r]}  OBVIOUS
<1>4. ASSUME NEW r \in SUBSET S, \A y \in r : r \ {y} \in T  PROVE r \in T
  <2>1. CASE r = {}  BY <1>2, <1>3, <2>1 DEF Body
  <2>2. CASE r # {}
    <3> SUFFICES ASSUME r \subseteq s  PROVE F[r] = G[r]
      BY <1>3
    <3>1. PICK z : z = Pick(r)  OBVIOUS
    <3>2. z \in r /\ z \in s  BY <2>2, <3>1, Picked
    <3>3. F[r] = f[z] + F[r \ {z}] /\ G[r] = g[z] + G[r \ {z}]
      BY <1>2, <2>2, <3>1 DEF Body
    <3>4. F[r \ {z}] = G[r \ {z}]  BY <1>3, <1>4, <3>2
    <3> QED BY <3>2, <3>3, <3>4
  <2> QED BY <2>1, <2>2
<1>5. T = SUBSET S
  <2>1. T \subseteq SUBSET S  BY <1>3
  <2> QED BY <1>4, <2>1, SubsetInduction
<1> QED BY <1>1, <1>3, <1>5

-----------------------------------------------------------------------------
(* What compaction leaves of a queue.                                      *)

\* The recursion of Without.
KeptAt(q, D, k, i) ==
  IF i = 0 THEN <<>> ELSE IF q[i][1] \in D THEN k[i - 1] ELSE Append(k[i - 1], q[i])
IsKept(q, D, k) == k = [i \in 0 .. Len(q) |-> KeptAt(q, D, k, i)]

\* It has a solution: one for the first n tasks extends to the next.
LEMMA KeptExists ==
  ASSUME NEW P, NEW q \in Seq(P), NEW D
  PROVE  \E k \in [0 .. Len(q) -> Seq(P)] : IsKept(q, D, k)
<1> DEFINE N == Len(q)
           Upto(k, n) == \A i \in 0 .. n : k[i] = KeptAt(q, D, k, i)
           T == {n \in 0 .. N : \E k \in [0 .. N -> Seq(P)] : Upto(k, n)}
<1>1. N \in Nat  OBVIOUS
<1>2. 0 \in T
  <2>1. PICK k : k = [i \in 0 .. N |-> <<>>]  OBVIOUS
  <2>2. k \in [0 .. N -> Seq(P)]  BY <2>1
  <2>3. Upto(k, 0)  BY <2>1 DEF KeptAt
  <2> QED BY <1>1, <2>2, <2>3
<1>3. ASSUME NEW n \in 0 .. N - 1, n \in T  PROVE n + 1 \in T
  <2>1. PICK g \in [0 .. N -> Seq(P)] : Upto(g, n)  BY <1>3
  <2>2. KeptAt(q, D, g, n + 1) \in Seq(P)
    <3>0. n \in 0 .. N /\ n + 1 \in 1 .. Len(q)  BY <1>1
    <3>1. g[n] \in Seq(P) /\ q[n + 1] \in P /\ (n + 1) - 1 = n  BY <3>0
    <3>2. Append(g[n], q[n + 1]) \in Seq(P)  BY <3>1
    <3> QED BY <3>1, <3>2 DEF KeptAt
  <2>3. PICK k : k = [g EXCEPT ![n + 1] = KeptAt(q, D, g, n + 1)]  OBVIOUS
  <2>4. k \in [0 .. N -> Seq(P)]  BY <2>2, <2>3
  <2>5. \A i \in 0 .. n : k[i] = g[i]  BY <1>1, <2>3
  <2>6. \A i \in 0 .. n + 1 : KeptAt(q, D, k, i) = KeptAt(q, D, g, i)  BY <2>5 DEF KeptAt
  <2>7. k[n + 1] = KeptAt(q, D, g, n + 1)  BY <1>1, <2>3
  <2>8. Upto(k, n + 1)
    <3> SUFFICES ASSUME NEW i \in 0 .. n + 1  PROVE k[i] = KeptAt(q, D, g, i)
      BY <2>6
    <3>1. CASE i = n + 1  BY <2>7, <3>1
    <3>2. CASE i \in 0 .. n  BY <2>1, <2>5, <3>2
    <3> QED BY <3>1, <3>2
  <2> QED BY <1>1, <2>4, <2>8
<1>4. T = 0 .. N
  <2> HIDE DEF T, N
  <2>1. T \subseteq 0 .. N  BY DEF T
  <2> QED BY <1>1, <1>2, <1>3, <2>1, Induction
<1>5. N \in T
  <2> HIDE DEF T, N
  <2> QED BY <1>1, <1>4
<1>6. PICK k \in [0 .. N -> Seq(P)] : Upto(k, N)  BY <1>5
<1>7. k = [i \in 0 .. N |-> KeptAt(q, D, k, i)]  BY <1>6
<1> QED BY <1>7 DEF IsKept

\* Without obeys it.
LEMMA Kept ==
  ASSUME NEW P, NEW q \in Seq(P), NEW D
  PROVE  \E k : /\ k[Len(q)] = Without(q, D) /\ k[0] = <<>>
                /\ \A i \in 1 .. Len(q) :
                     k[i] = IF q[i][1] \in D THEN k[i - 1] ELSE Append(k[i - 1], q[i])
<1>1. PICK k : k = CHOOSE g : IsKept(q, D, g)  OBVIOUS
<1>2. IsKept(q, D, k)  BY <1>1, KeptExists
<1>3. Without(q, D) = (CHOOSE g : IsKept(q, D, g))[Len(q)]  BY DEF Without, IsKept, KeptAt
<1>4. \A i \in 0 .. Len(q) : k[i] = KeptAt(q, D, k, i)
  <2>1. k = [i \in 0 .. Len(q) |-> KeptAt(q, D, k, i)]  BY <1>2 DEF IsKept
  <2> QED BY <2>1
<1>5. Len(q) \in Nat  OBVIOUS
<1>6. k[0] = <<>>  BY <1>4, <1>5 DEF KeptAt
<1>7. \A i \in 1 .. Len(q) : k[i] = IF q[i][1] \in D THEN k[i - 1] ELSE Append(k[i - 1], q[i])
  BY <1>4, <1>5 DEF KeptAt
<1>8. k[Len(q)] = Without(q, D)  BY <1>1, <1>3
<1> QED BY <1>6, <1>7, <1>8, Zenon

\* What the queue r keeps of the first n tasks of q.
Keeps(P, q, D, r, n) ==
  /\ r \in Seq(P) /\ Len(r) <= n
  /\ \A j \in 1 .. Len(r) : r[j][1] \notin D /\ \E i \in 1 .. n : q[i] = r[j]
  /\ \A i \in 1 .. n : q[i][1] \notin D => \E j \in 1 .. Len(r) : r[j] = q[i]

\* The tasks of the lanes D are gone, and all others are kept.
LEMMA WithoutKeeps ==
  ASSUME NEW P, NEW q \in Seq(P), NEW D
  PROVE  Keeps(P, q, D, Without(q, D), Len(q))
<1>1. PICK k : /\ k[Len(q)] = Without(q, D) /\ k[0] = <<>>
               /\ \A i \in 1 .. Len(q) :
                    k[i] = IF q[i][1] \in D THEN k[i - 1] ELSE Append(k[i - 1], q[i])
  BY Kept
<1>2. PICK N \in Nat : N = Len(q)  OBVIOUS
<1>3. PICK T : T = {n \in 0 .. N : Keeps(P, q, D, k[n], n)}  OBVIOUS
<1>4. 0 \in T
  <2>1. Keeps(P, q, D, <<>>, 0)  BY DEF Keeps
  <2> QED BY <1>1, <1>2, <1>3, <2>1
<1>5. ASSUME NEW n \in 0 .. N - 1, n \in T  PROVE n + 1 \in T
  <2>1. PICK r : r = k[n]  OBVIOUS
  <2>2. Keeps(P, q, D, r, n)  BY <1>3, <1>5, <2>1
  <2>3. n \in Nat /\ n + 1 \in 1 .. N /\ q[n + 1] \in P /\ (n + 1) - 1 = n  BY <1>2
  <2>4. CASE q[n + 1][1] \in D
    <3>1. k[n + 1] = r  BY <1>1, <1>2, <2>1, <2>3, <2>4
    <3>2. \A i \in 1 .. n + 1 : i \in 1 .. n \/ i = n + 1  BY <2>3
    <3>3. \A i \in 1 .. n : i \in 1 .. n + 1  BY <2>3
    <3>4. r \in Seq(P) /\ Len(r) <= n + 1  BY <2>2, <2>3 DEF Keeps
    <3>5. \A j \in 1 .. Len(r) : r[j][1] \notin D /\ \E i \in 1 .. n + 1 : q[i] = r[j]
      BY <2>2, <3>3, Zenon DEF Keeps
    <3>6. \A i \in 1 .. n + 1 : q[i][1] \notin D => \E j \in 1 .. Len(r) : r[j] = q[i]
      BY <2>2, <2>4, <3>2, Zenon DEF Keeps
    <3>7. Keeps(P, q, D, r, n + 1)  BY <3>4, <3>5, <3>6 DEF Keeps
    <3> QED BY <1>2, <1>3, <2>3, <3>1, <3>7
  <2>5. CASE q[n + 1][1] \notin D
    <3>1. PICK t : t = Append(r, q[n + 1])  OBVIOUS
    <3>2. k[n + 1] = t  BY <1>1, <1>2, <2>1, <2>3, <2>5, <3>1
    <3>3. /\ t \in Seq(P) /\ Len(t) = Len(r) + 1 /\ t[Len(r) + 1] = q[n + 1]
          /\ Len(r) \in Nat /\ \A j \in 1 .. Len(r) : t[j] = r[j]
      BY <2>2, <2>3, <3>1 DEF Keeps
    <3>4. \A j \in 1 .. Len(t) : t[j][1] \notin D /\ \E i \in 1 .. n + 1 : q[i] = t[j]
      <4> SUFFICES ASSUME NEW j \in 1 .. Len(t)
                   PROVE  t[j][1] \notin D /\ \E i \in 1 .. n + 1 : q[i] = t[j]
        OBVIOUS
      <4>1. CASE j = Len(r) + 1  BY <2>3, <2>5, <3>3, <4>1
      <4>2. CASE j \in 1 .. Len(r)
        <5>1. t[j] = r[j]  BY <3>3, <4>2
        <5>2. PICK i \in 1 .. n : q[i] = r[j]  BY <2>2, <4>2 DEF Keeps
        <5> QED BY <2>2, <2>3, <4>2, <5>1, <5>2 DEF Keeps
      <4> QED BY <3>3, <4>1, <4>2
    <3>5. \A i \in 1 .. n + 1 : q[i][1] \notin D => \E j \in 1 .. Len(t) : t[j] = q[i]
      <4> SUFFICES ASSUME NEW i \in 1 .. n + 1, q[i][1] \notin D
                   PROVE  \E j \in 1 .. Len(t) : t[j] = q[i]
        OBVIOUS
      <4>1. CASE i = n + 1  BY <3>3, <4>1
      <4>2. CASE i \in 1 .. n
        <5>1. PICK j \in 1 .. Len(r) : r[j] = q[i]  BY <2>2, <4>2 DEF Keeps
        <5> QED BY <3>3, <5>1
      <4> QED BY <2>3, <4>1, <4>2
    <3>6. Len(t) <= n + 1  BY <2>2, <2>3, <3>3 DEF Keeps
    <3>7. Keeps(P, q, D, t, n + 1)  BY <3>3, <3>4, <3>5, <3>6 DEF Keeps
    <3> QED BY <1>2, <1>3, <2>3, <3>2, <3>7
  <2> QED BY <2>4, <2>5
<1>6. T = 0 .. N
  <2>1. T \subseteq 0 .. N  BY <1>3
  <2> QED BY <1>4, <1>5, <2>1, Induction
<1>7. N \in T  BY <1>6
<1> QED BY <1>1, <1>2, <1>3, <1>7

-----------------------------------------------------------------------------
(* Sums over the workers.                                                  *)

Counts == [Workers -> Nat]

\* The workers are finitely many, and a count over them has a sum.
LEMMA TotalOf ==
  ASSUME NEW f \in Counts
  PROVE  IsFiniteSet(Workers) /\ Total(f) = SumOf(f, Workers)[Workers] /\ Total(f) \in Nat
<1>1. NWorkers \in Int /\ 1 \in Int  BY DeferredAssumption
<1>2. IsFiniteSet(Workers)  BY <1>1, FS_Interval DEF Workers
<1>3. Total(f) = SumOf(f, Workers)[Workers]  BY SumFold DEF Total
<1>4. SumOf(f, Workers) \in [SUBSET Workers -> Nat]  BY <1>2, SumTyped DEF Counts
<1>5. SumOf(f, Workers)[Workers] \in Nat  BY <1>4
<1> QED BY <1>2, <1>3, <1>5

\* Counts are added worker by worker.
LEMMA TotalPlus ==
  ASSUME NEW f \in Counts, NEW g \in Counts, NEW h \in Counts,
         \A w \in Workers : h[w] = f[w] + g[w]
  PROVE  Total(h) = Total(f) + Total(g)
BY TotalOf, SumPlus DEF Counts

\* One more at one worker is one more in all.
LEMMA TotalStep ==
  ASSUME NEW f \in Counts, NEW g \in Counts, NEW w \in Workers, g[w] = f[w] + 1,
         \A v \in Workers : v # w => g[v] = f[v]
  PROVE  Total(g) = Total(f) + 1
<1>1. PICK F, G : F = SumOf(f, Workers) /\ G = SumOf(g, Workers)  OBVIOUS
<1>2. IsFiniteSet(Workers) /\ Total(f) = F[Workers] /\ Total(g) = G[Workers]
  BY <1>1, TotalOf
<1>3. F \in [SUBSET Workers -> Nat] /\ Workers \ {w} \in SUBSET Workers
  BY <1>1, <1>2, SumTyped DEF Counts
<1>4. F[Workers] = f[w] + F[Workers \ {w}] /\ G[Workers] = g[w] + G[Workers \ {w}]
  BY <1>1, <1>2, SumRemove DEF Counts
<1>5. F[Workers \ {w}] = G[Workers \ {w}]  BY <1>1, <1>2, <1>3, SumSame DEF Counts
<1>6. f[w] \in Nat /\ F[Workers \ {w}] \in Nat  BY <1>3 DEF Counts
<1> QED BY <1>2, <1>4, <1>5, <1>6

\* Nothing anywhere is nothing in all.
LEMMA TotalZero ==
  ASSUME NEW f \in Counts, \A w \in Workers : f[w] = 0
  PROVE  Total(f) = 0
<1>1. PICK n \in Nat : n = Total(f)  BY TotalOf
<1>2. \A w \in Workers : f[w] = f[w] + f[w]  OBVIOUS
<1>3. n = n + n  BY <1>1, <1>2, TotalPlus
<1>4. \A m \in Nat : m = m + m => m = 0  OBVIOUS
<1> QED BY <1>1, <1>3, <1>4

-----------------------------------------------------------------------------
(* The operations of the processor.                                        *)

Processor ==
  [jobs : [Workers -> Seq(Packets)], pending : [Workers -> Int], sessionPending : Nat,
   laneWorker : [Streams -> 0 .. NWorkers], cancelled : SUBSET Streams,
   running : [Streams -> 0 .. NWorkers], done : SUBSET Workers, nextWorker : Workers]

\* The tasks of each worker: those that are queued, and the one that busy counts.
Tasks(jobs, busy) == [w \in Workers |-> Len(jobs[w]) + busy[w]]

\* The counters of p are exact when busy[w] tasks run at worker w.
Exact(p, busy) ==
  /\ \A w \in Workers : p.pending[w] = Tasks(p.jobs, busy)[w] /\ Len(p.jobs[w]) <= QueueLimit
  /\ p.sessionPending = Total(Tasks(p.jobs, busy))
  /\ p.sessionPending <= SessionCap

\* 0 is no worker.
LEMMA WorkerNumbers ==
  /\ NWorkers \in Nat \ {0} /\ 0 \in 0 .. NWorkers /\ Workers \subseteq 0 .. NWorkers
  /\ Workers \subseteq Nat /\ 0 \notin Workers
BY DeferredAssumption DEF Workers

\* The number of tasks of a worker is a natural number.
LEMMA TasksCount ==
  ASSUME NEW jobs \in [Workers -> Seq(Packets)], NEW busy \in Counts
  PROVE  Tasks(jobs, busy) \in Counts
<1>1. \A w \in Workers : Len(jobs[w]) + busy[w] \in Nat  BY DEF Counts
<1> QED BY <1>1 DEF Tasks, Counts

\* What compaction leaves: the queues without the lanes that are dropped.
Compacted(p, D) == [w \in Workers |-> Without(p.jobs[w], D \cup p.cancelled)]

LEMMA CompactedOf ==
  ASSUME NEW p \in Processor, NEW D
  PROVE  /\ Compacted(p, D) \in [Workers -> Seq(Packets)]
         /\ \A w \in Workers : Keeps(Packets, p.jobs[w], D \cup p.cancelled, Compacted(p, D)[w],
                                       Len(p.jobs[w]))
<1>1. \A w \in Workers : p.jobs[w] \in Seq(Packets)  BY DEF Processor
<1>2. \A w \in Workers : Keeps(Packets, p.jobs[w], D \cup p.cancelled,
                               Without(p.jobs[w], D \cup p.cancelled), Len(p.jobs[w]))
  BY <1>1, WithoutKeeps
<1>3. \A w \in Workers : Without(p.jobs[w], D \cup p.cancelled) \in Seq(Packets)
  BY <1>2 DEF Keeps
<1> QED BY <1>2, <1>3 DEF Compacted

\* compactQueuesLocked counts what it drops, at every worker and for the session.
LEMMA CompactOf ==
  ASSUME NEW p \in Processor, NEW D
  PROVE  /\ Compact(p, D) \in Processor
         /\ Compact(p, D).jobs = Compacted(p, D)
         /\ Compact(p, D).cancelled = p.cancelled
         /\ \A busy \in Counts : Exact(p, busy) => Exact(Compact(p, D), busy)
<1>1. PICK kept : kept = Compacted(p, D)  OBVIOUS
<1>2. /\ kept \in [Workers -> Seq(Packets)]
      /\ \A w \in Workers : Len(kept[w]) \in Nat /\ Len(kept[w]) <= Len(p.jobs[w])
  BY <1>1, CompactedOf DEF Keeps
<1>3. PICK dropped : dropped = [w \in Workers |-> Len(p.jobs[w]) - Len(kept[w])]  OBVIOUS
<1>4. \A w \in Workers : p.jobs[w] \in Seq(Packets) /\ Len(p.jobs[w]) \in Nat
  BY DEF Processor
<1>5. dropped \in Counts  BY <1>2, <1>3, <1>4 DEF Counts
<1>6. PICK n \in Nat : n = Total(dropped)  BY <1>5, TotalOf
<1>7. PICK pending : pending = [w \in Workers |-> p.pending[w] - dropped[w]]  OBVIOUS
<1>8. PICK count : count = Decrement(p.sessionPending, n)  OBVIOUS
<1>9. PICK lanes : lanes = {s \in D \cup p.cancelled :
                              \E w \in Workers : \E i \in DOMAIN p.jobs[w] : p.jobs[w][i][1] = s}
  OBVIOUS
<1>10. PICK mapped : mapped = [s \in Streams |-> IF s \in lanes THEN 0 ELSE p.laneWorker[s]]
  OBVIOUS
<1>11. Compact(p, D) = [p EXCEPT !.jobs = kept, !.pending = pending, !.sessionPending = count,
                                 !.laneWorker = mapped]
  BY <1>1, <1>3, <1>6, <1>7, <1>8, <1>9, <1>10 DEF Compact, Compacted
<1>12. pending \in [Workers -> Int]  BY <1>5, <1>7 DEF Counts, Processor
<1>13. count \in Nat  BY <1>8 DEF Decrement, Processor
<1>14. mapped \in [Streams -> 0 .. NWorkers]  BY <1>10, WorkerNumbers DEF Processor
<1>15. PICK q : q = Compact(p, D)  OBVIOUS
<1>16. q \in Processor  BY <1>2, <1>11, <1>12, <1>13, <1>14, <1>15 DEF Processor
<1>17. q.jobs = kept /\ q.pending = pending /\ q.sessionPending = count /\ q.cancelled = p.cancelled
  BY <1>11, <1>15 DEF Processor
<1>18. ASSUME NEW busy \in Counts, Exact(p, busy)  PROVE Exact(q, busy)
  <2>1. PICK old, new : old = Tasks(p.jobs, busy) /\ new = Tasks(kept, busy)  OBVIOUS
  <2>2. old \in Counts /\ new \in Counts  BY <1>2, <2>1, TasksCount DEF Processor
  <2>3. \A w \in Workers : old[w] = Len(p.jobs[w]) + busy[w] /\ new[w] = Len(kept[w]) + busy[w]
    BY <2>1 DEF Tasks
  <2>4. \A w \in Workers : busy[w] \in Nat  BY DEF Counts
  <2>5. ASSUME NEW w \in Workers  PROVE old[w] = new[w] + dropped[w]
    <3>1. PICK i, j, k \in Nat : i = Len(p.jobs[w]) /\ j = Len(kept[w]) /\ k = busy[w]
      BY <1>2, <1>4, <2>4
    <3>2. old[w] = i + k /\ new[w] = j + k /\ dropped[w] = i - j  BY <1>3, <2>3, <3>1
    <3> QED BY <3>2
  <2>6. PICK a, b \in Nat : a = Total(old) /\ b = Total(new)  BY <2>2, TotalOf
  <2>7. a = b + n  BY <1>5, <1>6, <2>2, <2>5, <2>6, TotalPlus
  <2>8. p.sessionPending = a /\ a <= SessionCap  BY <1>18, <2>1, <2>6 DEF Exact
  <2>9. count = b  BY <1>8, <2>7, <2>8 DEF Decrement
  <2>10. SessionCap \in Nat /\ QueueLimit \in Nat  BY DeferredAssumption
  <2>11. q.sessionPending = Total(new) /\ q.sessionPending <= SessionCap
    BY <1>17, <2>6, <2>7, <2>8, <2>9, <2>10
  <2>12. \A w \in Workers : p.pending[w] = old[w] /\ Len(p.jobs[w]) <= QueueLimit
    BY <1>18, <2>1 DEF Exact
  <2>13. \A w \in Workers : new[w] \in Nat /\ dropped[w] \in Nat  BY <1>5, <2>2 DEF Counts
  <2>14. \A w \in Workers : pending[w] = new[w]  BY <1>7, <2>5, <2>12, <2>13
  <2>15. \A w \in Workers : Len(kept[w]) <= QueueLimit  BY <1>2, <1>4, <2>10, <2>12
  <2> QED BY <1>17, <2>1, <2>11, <2>14, <2>15 DEF Exact
<1> QED BY <1>1, <1>15, <1>16, <1>17, <1>18

\* Task t is in the queue of worker w.
Queued(p, w, t) == \E i \in DOMAIN p.jobs[w] : p.jobs[w][i] = t

\* q is p after the queued tasks of the lanes D were dropped.
Shrinks(p, q, D) ==
  /\ q \in Processor /\ q.cancelled \subseteq p.cancelled \cup D
  /\ \A w \in Workers, t \in Packets :
       Queued(q, w, t) <=> Queued(p, w, t) /\ t[1] \notin D \cup p.cancelled
  /\ \A busy \in Counts : Exact(p, busy) => Exact(q, busy)

\* Compaction drops the tasks of the lanes D and of cancelled lanes, and no others.
LEMMA CompactShrinks ==
  ASSUME NEW p \in Processor, NEW D
  PROVE  Shrinks(p, Compact(p, D), D)
<1>1. PICK q : q = Compact(p, D)  OBVIOUS
<1>2. /\ q \in Processor /\ q.jobs = Compacted(p, D) /\ q.cancelled = p.cancelled
      /\ \A busy \in Counts : Exact(p, busy) => Exact(q, busy)
  BY <1>1, CompactOf
<1>3. ASSUME NEW w \in Workers, NEW t \in Packets
      PROVE  Queued(q, w, t) <=> Queued(p, w, t) /\ t[1] \notin D \cup p.cancelled
  <2>1. Keeps(Packets, p.jobs[w], D \cup p.cancelled, q.jobs[w], Len(p.jobs[w]))
    BY <1>2, CompactedOf
  <2>2. DOMAIN p.jobs[w] = 1 .. Len(p.jobs[w]) /\ DOMAIN q.jobs[w] = 1 .. Len(q.jobs[w])
    BY <1>2 DEF Processor
  <2>3. ASSUME Queued(q, w, t)  PROVE Queued(p, w, t) /\ t[1] \notin D \cup p.cancelled
    <3>1. PICK j \in 1 .. Len(q.jobs[w]) : q.jobs[w][j] = t  BY <2>2, <2>3 DEF Queued
    <3> QED BY <2>1, <2>2, <3>1 DEF Keeps, Queued
  <2>4. ASSUME Queued(p, w, t), t[1] \notin D \cup p.cancelled  PROVE Queued(q, w, t)
    <3>1. PICK i \in 1 .. Len(p.jobs[w]) : p.jobs[w][i] = t  BY <2>2, <2>4 DEF Queued
    <3> QED BY <2>1, <2>2, <2>4, <3>1 DEF Keeps, Queued
  <2> QED BY <2>3, <2>4
<1> QED BY <1>1, <1>2, <1>3 DEF Shrinks

\* What a processor shows of its tasks: its queues and its counters.
SameTasks(p, q) ==
  q.jobs = p.jobs /\ q.pending = p.pending /\ q.sessionPending = p.sessionPending

LEMMA SameTasksExact ==
  ASSUME NEW p, NEW q, SameTasks(p, q)
  PROVE  /\ \A w, t : Queued(q, w, t) <=> Queued(p, w, t)
         /\ \A busy : Exact(p, busy) <=> Exact(q, busy)
BY DEF SameTasks, Queued, Exact

\* Lanes are forgotten, some of them cancelled, and their queued tasks dropped.
LEMMA ForgetShrinks ==
  ASSUME NEW p \in Processor, NEW D, NEW C \in SUBSET Streams, C \subseteq D,
         NEW m \in [Streams -> 0 .. NWorkers]
  PROVE  Shrinks(p, Compact([p EXCEPT !.laneWorker = m, !.cancelled = p.cancelled \cup C], D), D)
<1>1. PICK f : f = [p EXCEPT !.laneWorker = m, !.cancelled = p.cancelled \cup C]  OBVIOUS
<1>2. f \in Processor /\ SameTasks(p, f) /\ f.cancelled = p.cancelled \cup C
  BY <1>1 DEF Processor, SameTasks
<1>3. PICK q : q = Compact(f, D)  OBVIOUS
<1>4. Shrinks(f, q, D)  BY <1>2, <1>3, CompactShrinks
<1>5. D \cup f.cancelled = D \cup p.cancelled  BY <1>2
<1>6. q \in Processor /\ q.cancelled \subseteq p.cancelled \cup D  BY <1>2, <1>4 DEF Shrinks
<1>7. \A w \in Workers, t \in Packets :
        Queued(q, w, t) <=> Queued(p, w, t) /\ t[1] \notin D \cup p.cancelled
  BY <1>2, <1>4, <1>5, SameTasksExact DEF Shrinks
<1>8. \A busy \in Counts : Exact(p, busy) => Exact(q, busy)
  BY <1>2, <1>4, SameTasksExact DEF Shrinks
<1> QED BY <1>1, <1>3, <1>6, <1>7, <1>8 DEF Shrinks

\* FinalizeLane.
LEMMA FinalizeShrinks ==
  ASSUME NEW p \in Processor, NEW D \in SUBSET Streams
  PROVE  Shrinks(p, FinalizeLane(p, D), D)
<1>1. PICK m : m = [s \in Streams |-> IF s \in D THEN 0 ELSE p.laneWorker[s]]  OBVIOUS
<1>2. m \in [Streams -> 0 .. NWorkers]  BY <1>1, WorkerNumbers DEF Processor
<1>3. FinalizeLane(p, D) =
        Compact([p EXCEPT !.laneWorker = m, !.cancelled = p.cancelled \cup D], D)
  BY <1>1 DEF FinalizeLane
<1> QED BY <1>2, <1>3, ForgetShrinks

\* The contexts that are cancelled change neither the queues nor the counters.
LEMMA CancelRunningOf ==
  ASSUME NEW p \in Processor, NEW D \in SUBSET Streams
  PROVE  /\ CancelRunning(p, D) \in Processor /\ SameTasks(p, CancelRunning(p, D))
         /\ CancelRunning(p, D).cancelled = p.cancelled
         /\ CancelRunning(p, D).laneWorker = p.laneWorker
         /\ CancelRunning(p, D).nextWorker = p.nextWorker
<1>1. PICK done : done = p.done \cup {p.running[s] : s \in {t \in D : p.running[t] # 0}}
  OBVIOUS
<1>2. PICK run : run = [s \in Streams |-> IF s \in D THEN 0 ELSE p.running[s]]  OBVIOUS
<1>3. PICK q : q = CancelRunning(p, D)  OBVIOUS
<1>4. q = [p EXCEPT !.done = done, !.running = run]  BY <1>1, <1>2, <1>3 DEF CancelRunning
<1>5. done \in SUBSET Workers
  <2>1. \A n \in 0 .. NWorkers : n # 0 => n \in Workers  BY WorkerNumbers DEF Workers
  <2>2. \A s \in D : p.running[s] \in 0 .. NWorkers  BY DEF Processor
  <2>3. p.done \subseteq Workers  BY DEF Processor
  <2> QED BY <1>1, <2>1, <2>2, <2>3
<1>6. run \in [Streams -> 0 .. NWorkers]  BY <1>2, WorkerNumbers DEF Processor
<1>7. q \in Processor  BY <1>4, <1>5, <1>6 DEF Processor
<1>8. /\ q.jobs = p.jobs /\ q.pending = p.pending /\ q.sessionPending = p.sessionPending
      /\ q.cancelled = p.cancelled /\ q.laneWorker = p.laneWorker /\ q.nextWorker = p.nextWorker
  BY <1>4 DEF Processor
<1> QED BY <1>3, <1>7, <1>8 DEF SameTasks

\* What is dropped after contexts were cancelled is what would be dropped before.
LEMMA SameTasksShrinks ==
  ASSUME NEW p, NEW q, NEW r, NEW D, SameTasks(p, q), q.cancelled = p.cancelled, Shrinks(q, r, D)
  PROVE  Shrinks(p, r, D)
<1>1. /\ \A w, t : Queued(q, w, t) <=> Queued(p, w, t)
      /\ \A busy : Exact(p, busy) <=> Exact(q, busy)
  BY SameTasksExact
<1> QED BY <1>1 DEF Shrinks

\* RemoveLane.
LEMMA RemoveShrinks ==
  ASSUME NEW p \in Processor, NEW D \in SUBSET Streams
  PROVE  Shrinks(p, RemoveLane(p, D), D)
<1>1. PICK q : q = CancelRunning(p, D)  OBVIOUS
<1>2. q \in Processor /\ SameTasks(p, q) /\ q.cancelled = p.cancelled  BY <1>1, CancelRunningOf
<1>3. Shrinks(q, RemoveLane(p, D), D)  BY <1>1, <1>2, FinalizeShrinks DEF RemoveLane
<1> QED BY <1>2, <1>3, SameTasksShrinks

\* RemoveSession.
LEMMA RemoveSessionShrinks ==
  ASSUME NEW p \in Processor
  PROVE  Shrinks(p, RemoveSession(p), Streams)
<1>1. PICK q : q = CancelRunning(p, Streams)  OBVIOUS
<1>2. q \in Processor /\ SameTasks(p, q) /\ q.cancelled = p.cancelled  BY <1>1, CancelRunningOf
<1>3. PICK C : C = {s \in Streams : q.laneWorker[s] # 0}  OBVIOUS
<1>4. PICK m : m = [s \in Streams |-> 0]  OBVIOUS
<1>5. C \in SUBSET Streams /\ m \in [Streams -> 0 .. NWorkers]  BY <1>3, <1>4, WorkerNumbers
<1>6. [q EXCEPT !.laneWorker = m, !.cancelled = q.cancelled \cup C]
        = [q EXCEPT !.cancelled = q.cancelled \cup C, !.laneWorker = m]
  BY <1>2 DEF Processor
<1>7. RemoveSession(p) =
        Compact([q EXCEPT !.laneWorker = m, !.cancelled = q.cancelled \cup C], Streams)
  BY <1>1, <1>3, <1>4, <1>6 DEF RemoveSession
<1>8. Shrinks(q, RemoveSession(p), Streams)  BY <1>2, <1>5, <1>7, ForgetShrinks
<1> QED BY <1>2, <1>8, SameTasksShrinks

\* selectLeastLoadedWorkerLocked finds a worker: some are the least loaded, and one of those
\* comes first.
LEMMA LeastLoadedOf ==
  ASSUME NEW p \in Processor, p.pending \in Counts
  PROVE  SelectLeastLoaded(p) \in Workers
<1>1. PICK least : least = {w \in Workers : \A v \in Workers : p.pending[w] <= p.pending[v]}
  OBVIOUS
<1>2. least # {}
  <2>1. PICK T : T = {p.pending[w] : w \in Workers}  OBVIOUS
  <2>2. T \in SUBSET Nat /\ T # {}
    <3>1. 1 \in Workers  BY WorkerNumbers DEF Workers
    <3> QED BY <2>1, <3>1 DEF Counts
  <2>3. PICK x \in T : \A y \in T : x <= y  BY <2>2, LeastNat
  <2>4. PICK w \in Workers : x = p.pending[w]  BY <2>1, <2>3
  <2> QED BY <1>1, <2>1, <2>3, <2>4
<1>3. \E w \in least : \A v \in least :
        (w - p.nextWorker) % NWorkers <= (v - p.nextWorker) % NWorkers
  <2>1. PICK T : T = {(w - p.nextWorker) % NWorkers : w \in least}  OBVIOUS
  <2>2. \A w \in least : (w - p.nextWorker) % NWorkers \in Nat
    <3>1. p.nextWorker \in Nat /\ \A w \in least : w \in Nat
      BY <1>1, WorkerNumbers DEF Processor
    <3>2. \A i \in Int : i % NWorkers \in Nat  BY WorkerNumbers
    <3> QED BY <3>1, <3>2
  <2>3. T \in SUBSET Nat /\ T # {}  BY <1>2, <2>1, <2>2
  <2>4. PICK x \in T : \A y \in T : x <= y  BY <2>3, LeastNat
  <2>5. PICK w \in least : x = (w - p.nextWorker) % NWorkers  BY <2>1, <2>4
  <2> QED BY <2>1, <2>4, <2>5
<1>4. SelectLeastLoaded(p) = CHOOSE w \in least : \A v \in least :
        (w - p.nextWorker) % NWorkers <= (v - p.nextWorker) % NWorkers
  BY <1>1 DEF SelectLeastLoaded
<1>5. SelectLeastLoaded(p) \in least  BY <1>3, <1>4
<1> QED BY <1>1, <1>5

\* The worker after w is a worker.
LEMMA NextWorkerOf ==
  ASSUME NEW w \in Workers
  PROVE  NextWorker(w) \in Workers
<1>1. w \in Nat /\ NWorkers \in Nat /\ NWorkers > 0  BY WorkerNumbers
<1>2. w % NWorkers \in 0 .. NWorkers - 1  BY <1>1
<1> QED BY <1>1, <1>2 DEF NextWorker, Workers

\* A task is put at the end of a queue that has room: it is counted, and no other is lost.
LEMMA PushOf ==
  ASSUME NEW p \in Processor, NEW w \in Workers, NEW t \in Packets, Len(p.jobs[w]) < QueueLimit,
         p.sessionPending < SessionCap
  PROVE  /\ Push(p, w, t) \in Processor /\ Push(p, w, t).cancelled = p.cancelled
         /\ \A v \in Workers, u \in Packets :
              Queued(Push(p, w, t), v, u) <=> Queued(p, v, u) \/ (v = w /\ u = t)
         /\ \A busy \in Counts : Exact(p, busy) => Exact(Push(p, w, t), busy)
<1>1. PICK jobs : jobs = [p.jobs EXCEPT ![w] = Append(p.jobs[w], t)]  OBVIOUS
<1>2. PICK pending : pending = [p.pending EXCEPT ![w] = p.pending[w] + 1]  OBVIOUS
<1>3. PICK q : q = Push(p, w, t)  OBVIOUS
<1>4. q = [p EXCEPT !.jobs = jobs, !.pending = pending, !.sessionPending = p.sessionPending + 1]
  BY <1>1, <1>2, <1>3 DEF Push, Processor
<1>5. /\ p.jobs \in [Workers -> Seq(Packets)] /\ p.pending \in [Workers -> Int]
      /\ p.sessionPending \in Nat
  BY DEF Processor
<1>6. Append(p.jobs[w], t) \in Seq(Packets)  BY <1>5
<1>7. jobs \in [Workers -> Seq(Packets)]  BY <1>1, <1>5, <1>6
<1>8. pending \in [Workers -> Int]  BY <1>2, <1>5
<1>9. q \in Processor
  <2>1. p.sessionPending + 1 \in Nat  BY <1>5
  <2> QED BY <1>4, <1>7, <1>8, <2>1 DEF Processor
<1>10. /\ q.jobs = jobs /\ q.pending = pending /\ q.sessionPending = p.sessionPending + 1
       /\ q.cancelled = p.cancelled
  BY <1>4 DEF Processor
<1>11. /\ jobs[w] = Append(p.jobs[w], t) /\ pending[w] = p.pending[w] + 1
       /\ \A v \in Workers : v # w => jobs[v] = p.jobs[v] /\ pending[v] = p.pending[v]
  BY <1>1, <1>2, <1>5
<1>12. /\ p.jobs[w] \in Seq(Packets) /\ Len(jobs[w]) = Len(p.jobs[w]) + 1
       /\ jobs[w][Len(p.jobs[w]) + 1] = t /\ Len(p.jobs[w]) \in Nat
       /\ \A i \in 1 .. Len(p.jobs[w]) : jobs[w][i] = p.jobs[w][i]
       /\ DOMAIN p.jobs[w] = 1 .. Len(p.jobs[w]) /\ DOMAIN jobs[w] = 1 .. Len(jobs[w])
  BY <1>5, <1>6, <1>11
<1>13. ASSUME NEW v \in Workers, NEW u \in Packets
       PROVE  Queued(q, v, u) <=> Queued(p, v, u) \/ (v = w /\ u = t)
  <2>1. CASE v # w  BY <1>10, <1>11, <2>1 DEF Queued
  <2>2. CASE v = w
    <3>1. Queued(q, w, u) <=> \E i \in 1 .. Len(p.jobs[w]) + 1 : jobs[w][i] = u
      BY <1>10, <1>12 DEF Queued
    <3>2. Queued(p, w, u) <=> \E i \in 1 .. Len(p.jobs[w]) : jobs[w][i] = u
      BY <1>12 DEF Queued
    <3>3. \A i \in 1 .. Len(p.jobs[w]) + 1 : i \in 1 .. Len(p.jobs[w]) \/ i = Len(p.jobs[w]) + 1
      BY <1>12
    <3>4. ASSUME Queued(q, w, u)  PROVE Queued(p, w, u) \/ u = t
      BY <1>12, <3>1, <3>2, <3>3, <3>4
    <3>5. ASSUME Queued(p, w, u)  PROVE Queued(q, w, u)
      <4>1. \A i \in 1 .. Len(p.jobs[w]) : i \in 1 .. Len(p.jobs[w]) + 1  BY <1>12
      <4> QED BY <3>1, <3>2, <3>5, <4>1
    <3>6. ASSUME u = t  PROVE Queued(q, w, u)
      <4>1. Len(p.jobs[w]) + 1 \in 1 .. Len(p.jobs[w]) + 1  BY <1>12
      <4> QED BY <1>12, <3>1, <3>6, <4>1
    <3> QED BY <2>2, <3>4, <3>5, <3>6
  <2> QED BY <2>1, <2>2
<1>14. ASSUME NEW busy \in Counts, Exact(p, busy)  PROVE Exact(q, busy)
  <2>1. PICK old, new : old = Tasks(p.jobs, busy) /\ new = Tasks(jobs, busy)  OBVIOUS
  <2>2. old \in Counts /\ new \in Counts  BY <1>5, <1>7, <2>1, TasksCount
  <2>3. /\ old[w] = Len(p.jobs[w]) + busy[w] /\ new[w] = Len(p.jobs[w]) + 1 + busy[w]
        /\ \A v \in Workers : v # w => new[v] = old[v]
    BY <1>11, <1>12, <2>1 DEF Tasks
  <2>4. busy[w] \in Nat  BY DEF Counts
  <2>5. new[w] = old[w] + 1  BY <1>12, <2>3, <2>4
  <2>6. Total(new) = Total(old) + 1  BY <2>2, <2>3, <2>5, TotalStep
  <2>7. /\ p.sessionPending = Total(old)
        /\ \A v \in Workers : p.pending[v] = old[v] /\ Len(p.jobs[v]) <= QueueLimit
    BY <1>14, <2>1 DEF Exact
  <2>8. q.sessionPending = Total(new)  BY <1>10, <2>6, <2>7
  <2>9. q.sessionPending <= SessionCap
    <3>1. SessionCap \in Nat  BY DeferredAssumption
    <3> QED BY <1>5, <1>10, <3>1
  <2>10. \A v \in Workers : q.pending[v] = new[v]  BY <1>10, <1>11, <2>3, <2>5, <2>7
  <2>11. \A v \in Workers : Len(jobs[v]) <= QueueLimit
    <3>1. QueueLimit \in Nat  BY DeferredAssumption
    <3>2. Len(jobs[w]) <= QueueLimit  BY <1>12, <3>1
    <3> QED BY <1>11, <2>7, <3>2
  <2> QED BY <1>10, <2>1, <2>8, <2>9, <2>10, <2>11 DEF Exact
<1> QED BY <1>3, <1>9, <1>10, <1>13, <1>14

\* Enqueue queues the task at one worker, or leaves the queues as they are.
LEMMA EnqueueOf ==
  ASSUME NEW p \in Processor, NEW t \in Packets, NEW busy \in Counts, Exact(p, busy)
  PROVE  LET r == Enqueue(p, t) IN
         /\ r.p \in Processor /\ Exact(r.p, busy) /\ r.ok \in BOOLEAN
         /\ r.p.cancelled = p.cancelled \ {t[1]}
         /\ ~r.ok => r.p.jobs = p.jobs
         /\ r.ok => \E w \in Workers : \A v \in Workers, u \in Packets :
                      Queued(r.p, v, u) <=> Queued(p, v, u) \/ (v = w /\ u = t)
<1>1. PICK s \in Streams : s = t[1]  BY DEF Packets
<1>2. PICK c : c = [p EXCEPT !.cancelled = p.cancelled \ {s}]  OBVIOUS
<1>3. /\ c \in Processor /\ SameTasks(p, c) /\ c.cancelled = p.cancelled \ {s}
      /\ c.nextWorker = p.nextWorker /\ c.laneWorker = p.laneWorker
  BY <1>2 DEF Processor, SameTasks
<1>4. Exact(c, busy) /\ \A w, u : Queued(c, w, u) <=> Queued(p, w, u)
  BY <1>3, SameTasksExact
<1>5. c.pending \in Counts
  <2>1. Tasks(c.jobs, busy) \in Counts  BY <1>3, TasksCount DEF Processor
  <2>2. c.pending \in [Workers -> Int]  BY <1>3 DEF Processor
  <2>3. \A w \in Workers : c.pending[w] \in Nat  BY <1>4, <2>1 DEF Exact, Counts
  <2> QED BY <2>2, <2>3 DEF Counts
<1>6. PICK w : w = IF c.laneWorker[s] # 0 THEN c.laneWorker[s] ELSE SelectLeastLoaded(c)  OBVIOUS
<1>7. w \in Workers
  <2>1. \A n \in 0 .. NWorkers : n # 0 => n \in Workers  BY WorkerNumbers DEF Workers
  <2>2. c.laneWorker[s] \in 0 .. NWorkers  BY <1>3 DEF Processor
  <2>3. SelectLeastLoaded(c) \in Workers  BY <1>3, <1>5, LeastLoadedOf
  <2> QED BY <1>6, <2>1, <2>2, <2>3
<1>8. PICK q : q = IF c.laneWorker[s] # 0 THEN c ELSE [c EXCEPT !.nextWorker = NextWorker(w)]
  OBVIOUS
<1>9. q \in Processor /\ SameTasks(c, q) /\ q.cancelled = c.cancelled
  <2>1. NextWorker(w) \in Workers  BY <1>7, NextWorkerOf
  <2> QED BY <1>3, <1>8, <2>1 DEF Processor, SameTasks
<1>10. Exact(q, busy) /\ \A v, u : Queued(q, v, u) <=> Queued(p, v, u)
  BY <1>4, <1>9, SameTasksExact
<1>11. PICK r : r = Enqueue(p, t)  OBVIOUS
<1>12. r = IF c.sessionPending >= SessionCap THEN [ok |-> FALSE, p |-> c]
           ELSE IF ~(Len(c.jobs[w]) < QueueLimit) THEN [ok |-> FALSE, p |-> q]
           ELSE [ok |-> TRUE, p |-> [Push(q, w, t) EXCEPT !.laneWorker[s] = w]]
  BY <1>1, <1>2, <1>6, <1>8, <1>11 DEF Enqueue
<1>13. CASE r.ok = FALSE /\ r.p \in {c, q}
  <2>1. r.p.jobs = p.jobs /\ r.p.cancelled = p.cancelled \ {s}
    BY <1>3, <1>9, <1>13 DEF SameTasks
  <2> QED BY <1>1, <1>3, <1>4, <1>9, <1>10, <1>11, <1>13, <2>1
<1>14. CASE /\ c.sessionPending < SessionCap /\ Len(c.jobs[w]) < QueueLimit
            /\ r = [ok |-> TRUE, p |-> [Push(q, w, t) EXCEPT !.laneWorker[s] = w]]
  <2>1. PICK f : f = Push(q, w, t)  OBVIOUS
  <2>2. /\ f \in Processor /\ f.cancelled = q.cancelled /\ Exact(f, busy)
        /\ \A v \in Workers, u \in Packets :
             Queued(f, v, u) <=> Queued(q, v, u) \/ (v = w /\ u = t)
    <3>1. Len(q.jobs[w]) < QueueLimit /\ q.sessionPending < SessionCap
      BY <1>9, <1>14 DEF SameTasks
    <3> QED BY <1>7, <1>9, <1>10, <2>1, <3>1, PushOf
  <2>3. PICK g : g = r.p  OBVIOUS
  <2>4. PICK m : m = [f.laneWorker EXCEPT ![s] = w]  OBVIOUS
  <2>5. m \in [Streams -> 0 .. NWorkers]  BY <1>7, <2>2, <2>4, WorkerNumbers DEF Processor
  <2>6. g = [f EXCEPT !.laneWorker = m] /\ r.ok = TRUE
    BY <1>14, <2>1, <2>2, <2>3, <2>4 DEF Processor
  <2>7. g \in Processor /\ SameTasks(f, g) /\ g.cancelled = f.cancelled
    BY <2>2, <2>5, <2>6 DEF Processor, SameTasks
  <2>8. Exact(g, busy) /\ \A v, u : Queued(g, v, u) <=> Queued(f, v, u)
    BY <2>2, <2>7, SameTasksExact
  <2>9. \A v \in Workers, u \in Packets :
          Queued(g, v, u) <=> Queued(p, v, u) \/ (v = w /\ u = t)
    BY <1>10, <2>2, <2>8
  <2>10. g.cancelled = p.cancelled \ {t[1]}  BY <1>1, <1>3, <1>9, <2>2, <2>7
  <2>11. \E x \in Workers : \A v \in Workers, u \in Packets :
           Queued(r.p, v, u) <=> Queued(p, v, u) \/ (v = x /\ u = t)
    BY <1>7, <2>3, <2>9
  <2>12. r.p \in Processor /\ Exact(r.p, busy) /\ r.p.cancelled = p.cancelled \ {t[1]}
    BY <2>3, <2>7, <2>8, <2>10
  <2> QED BY <1>11, <2>6, <2>11, <2>12
<1>15. c.sessionPending \in Nat /\ SessionCap \in Nat  BY <1>3, DeferredAssumption DEF Processor
<1> QED BY <1>12, <1>13, <1>14, <1>15

\* busy is more by one at w than idle.
Busier(w, idle, busy) ==
  /\ idle \in Counts /\ busy \in Counts /\ busy[w] = idle[w] + 1
  /\ \A v \in Workers : v # w => busy[v] = idle[v]

\* A worker takes the first task of its queue: the task is counted where it runs.
LEMMA TakeOf ==
  ASSUME NEW p \in Processor, NEW w \in Workers, p.jobs[w] # <<>>, NEW q,
         q = [p EXCEPT !.jobs[w] = Tail(@)]
  PROVE  /\ q \in Processor /\ q.cancelled = p.cancelled
         /\ \A v \in Workers, u \in Packets : /\ Queued(q, v, u) => Queued(p, v, u)
                                              /\ Queued(p, v, u) => \/ Queued(q, v, u)
                                                                    \/ v = w /\ u = Head(p.jobs[w])
         /\ \A idle, busy : Busier(w, idle, busy) /\ Exact(p, idle) => Exact(q, busy)
<1>1. PICK jobs : jobs = [p.jobs EXCEPT ![w] = Tail(p.jobs[w])]  OBVIOUS
<1>2. p.jobs \in [Workers -> Seq(Packets)]  BY DEF Processor
<1>3. PICK old, new : old = p.jobs[w] /\ new = Tail(p.jobs[w])  OBVIOUS
<1>4. /\ old \in Seq(Packets) /\ new \in Seq(Packets) /\ Len(old) \in Nat /\ Len(old) > 0
      /\ Len(new) = Len(old) - 1 /\ \A i \in 1 .. Len(new) : new[i] = old[i + 1]
      /\ DOMAIN old = 1 .. Len(old) /\ DOMAIN new = 1 .. Len(new)
  BY <1>2, <1>3
<1>5. jobs \in [Workers -> Seq(Packets)]  BY <1>1, <1>2, <1>3, <1>4
<1>6. q = [p EXCEPT !.jobs = jobs]  BY <1>1 DEF Processor
<1>7. /\ q \in Processor /\ q.cancelled = p.cancelled /\ q.jobs = jobs /\ q.pending = p.pending
      /\ q.sessionPending = p.sessionPending
  BY <1>5, <1>6 DEF Processor
<1>8. jobs[w] = new /\ \A v \in Workers : v # w => jobs[v] = p.jobs[v]  BY <1>1, <1>2, <1>3
<1>9. ASSUME NEW v \in Workers, NEW u \in Packets, Queued(q, v, u)  PROVE Queued(p, v, u)
  <2>1. CASE v # w  BY <1>7, <1>8, <1>9, <2>1 DEF Queued
  <2>2. CASE v = w
    <3>1. PICK i \in 1 .. Len(new) : new[i] = u  BY <1>4, <1>7, <1>8, <1>9, <2>2 DEF Queued
    <3>2. i + 1 \in 1 .. Len(old) /\ old[i + 1] = u  BY <1>4, <3>1
    <3> QED BY <1>3, <1>4, <2>2, <3>2 DEF Queued
  <2> QED BY <2>1, <2>2
<1>10. ASSUME NEW v \in Workers, NEW u \in Packets, Queued(p, v, u)
       PROVE  Queued(q, v, u) \/ (v = w /\ u = Head(p.jobs[w]))
  <2>1. CASE v # w  BY <1>7, <1>8, <1>10, <2>1 DEF Queued
  <2>2. CASE v = w
    <3>1. PICK i \in 1 .. Len(old) : old[i] = u  BY <1>3, <1>4, <1>10, <2>2 DEF Queued
    <3>2. CASE i = 1
      <4>1. Head(old) = old[1]  BY <1>4
      <4> QED BY <1>3, <2>2, <3>1, <3>2, <4>1
    <3>3. CASE i # 1
      <4>1. i - 1 \in 1 .. Len(new) /\ new[i - 1] = old[(i - 1) + 1]  BY <1>4, <3>1, <3>3
      <4>2. (i - 1) + 1 = i  OBVIOUS
      <4>3. i - 1 \in DOMAIN new /\ new[i - 1] = u  BY <1>4, <3>1, <4>1, <4>2
      <4> QED BY <1>7, <1>8, <2>2, <4>3 DEF Queued
    <3> QED BY <3>2, <3>3
  <2> QED BY <2>1, <2>2
<1>11. ASSUME NEW idle, NEW busy, Busier(w, idle, busy), Exact(p, idle)  PROVE Exact(q, busy)
  <2>1. idle[w] \in Nat /\ busy[w] = idle[w] + 1  BY <1>11 DEF Busier, Counts
  <2>2. Len(jobs[w]) + busy[w] = Len(p.jobs[w]) + idle[w]
    <3>1. PICK n, b \in Nat : n = Len(old) /\ b = idle[w]  BY <1>4, <2>1
    <3>2. Len(jobs[w]) = n - 1 /\ Len(p.jobs[w]) = n /\ busy[w] = b + 1 /\ idle[w] = b
      BY <1>3, <1>4, <1>8, <2>1, <3>1
    <3> QED BY <3>2
  <2>3. \A v \in Workers : Len(jobs[v]) + busy[v] = Len(p.jobs[v]) + idle[v]
    BY <1>8, <1>11, <2>2 DEF Busier
  <2>4. Tasks(jobs, busy) = Tasks(p.jobs, idle)  BY <2>3 DEF Tasks
  <2>5. \A v \in Workers : Len(jobs[v]) <= QueueLimit
    <3>1. QueueLimit \in Nat  BY DeferredAssumption
    <3>2. \A v \in Workers : Len(p.jobs[v]) <= QueueLimit  BY <1>11 DEF Exact
    <3>3. Len(jobs[w]) <= QueueLimit  BY <1>3, <1>4, <1>8, <3>1, <3>2
    <3> QED BY <1>8, <3>2, <3>3
  <2> QED BY <1>7, <1>11, <2>4, <2>5 DEF Exact
<1> QED BY <1>7, <1>9, <1>10, <1>11

\* A task begins: the queues and the counters stay.
LEMMA BeginOf ==
  ASSUME NEW p \in Processor, NEW s \in Streams, NEW w \in Workers
  PROVE  /\ BeginTaskContext(p, s, w) \in Processor /\ SameTasks(p, BeginTaskContext(p, s, w))
         /\ BeginTaskContext(p, s, w).cancelled = p.cancelled
<1>1. CASE s \in p.cancelled
  <2>1. PICK done \in SUBSET Workers : done = p.done \cup {w}  BY DEF Processor
  <2>2. BeginTaskContext(p, s, w) = [p EXCEPT !.done = done]  BY <1>1, <2>1 DEF BeginTaskContext
  <2> QED BY <2>2 DEF Processor, SameTasks
<1>2. CASE s \notin p.cancelled
  <2>1. PICK run : run = [p.running EXCEPT ![s] = w]  OBVIOUS
  <2>2. run \in [Streams -> 0 .. NWorkers]  BY <2>1, WorkerNumbers DEF Processor
  <2>3. BeginTaskContext(p, s, w) = [p EXCEPT !.done = p.done \ {w}, !.running = run]
    BY <1>2, <2>1 DEF BeginTaskContext, Processor
  <2> QED BY <2>2, <2>3 DEF Processor, SameTasks
<1> QED BY <1>1, <1>2

\* A task ends: it is no longer counted, at its worker and for the session.
LEMMA FinishOf ==
  ASSUME NEW p \in Processor, NEW s \in Streams, NEW w \in Workers
  PROVE  /\ FinishLane(p, s, w) \in Processor /\ FinishLane(p, s, w).jobs = p.jobs
         /\ FinishLane(p, s, w).cancelled = p.cancelled \ {s}
         /\ \A idle, busy : Busier(w, idle, busy) /\ Exact(p, busy) => Exact(FinishLane(p, s, w), idle)
<1>1. PICK c : c = CancelRunning(p, {s})  OBVIOUS
<1>2. /\ c \in Processor /\ c.jobs = p.jobs /\ c.pending = p.pending
      /\ c.sessionPending = p.sessionPending /\ c.cancelled = p.cancelled
  BY <1>1, CancelRunningOf DEF SameTasks
<1>3. PICK pending : pending = [c.pending EXCEPT ![w] = c.pending[w] - 1]  OBVIOUS
<1>4. PICK m : m = [c.laneWorker EXCEPT ![s] = IF c.laneWorker[s] = w THEN 0 ELSE c.laneWorker[s]]
  OBVIOUS
<1>5. PICK count : count = Decrement(c.sessionPending, 1)  OBVIOUS
<1>6. PICK q : q = FinishLane(p, s, w)  OBVIOUS
<1>7. q = [c EXCEPT !.pending = pending, !.laneWorker = m, !.cancelled = c.cancelled \ {s},
                    !.sessionPending = count]
  BY <1>1, <1>2, <1>3, <1>4, <1>5, <1>6 DEF FinishLane, Processor
<1>8. pending \in [Workers -> Int]  BY <1>2, <1>3 DEF Processor
<1>9. m \in [Streams -> 0 .. NWorkers]  BY <1>2, <1>4, WorkerNumbers DEF Processor
<1>10. c.sessionPending \in Nat /\ count \in Nat  BY <1>2, <1>5 DEF Processor, Decrement
<1>11. q \in Processor  BY <1>2, <1>7, <1>8, <1>9, <1>10 DEF Processor
<1>12. /\ q.jobs = p.jobs /\ q.pending = pending /\ q.sessionPending = count
       /\ q.cancelled = p.cancelled \ {s}
  BY <1>2, <1>7 DEF Processor
<1>13. ASSUME NEW idle, NEW busy, Busier(w, idle, busy), Exact(p, busy)  PROVE Exact(q, idle)
  <2>1. PICK old, new : old = Tasks(p.jobs, busy) /\ new = Tasks(p.jobs, idle)  OBVIOUS
  <2>2. old \in Counts /\ new \in Counts  BY <1>13, <2>1, TasksCount DEF Busier, Processor
  <2>3. /\ Len(p.jobs[w]) \in Nat /\ idle[w] \in Nat /\ busy[w] = idle[w] + 1
        /\ \A v \in Workers : v # w => busy[v] = idle[v]
    BY <1>13 DEF Busier, Counts, Processor
  <2>4. /\ old[w] = Len(p.jobs[w]) + busy[w] /\ new[w] = Len(p.jobs[w]) + idle[w]
        /\ \A v \in Workers : v # w => old[v] = new[v]
    BY <2>1, <2>3 DEF Tasks
  <2>5. old[w] = new[w] + 1  BY <2>3, <2>4
  <2>6. PICK n \in Nat : n = Total(new)  BY <2>2, TotalOf
  <2>7. Total(old) = n + 1  BY <2>2, <2>4, <2>5, <2>6, TotalStep
  <2>8. /\ p.sessionPending = n + 1 /\ n + 1 <= SessionCap
        /\ \A v \in Workers : p.pending[v] = old[v] /\ Len(p.jobs[v]) <= QueueLimit
    BY <1>13, <2>1, <2>7 DEF Exact
  <2>9. count = n  BY <1>2, <1>5, <2>6, <2>8 DEF Decrement
  <2>10. n <= SessionCap
    <3>1. SessionCap \in Nat  BY DeferredAssumption
    <3> QED BY <2>8, <3>1
  <2>11. pending[w] = new[w] /\ \A v \in Workers : v # w => pending[v] = new[v]
    <3>1. new[w] \in Nat  BY <2>2 DEF Counts
    <3>2. c.pending \in [Workers -> Int] /\ c.pending[w] = new[w] + 1
      BY <1>2, <2>5, <2>8 DEF Processor
    <3> QED BY <1>2, <1>3, <2>4, <2>8, <3>1, <3>2
  <2> QED BY <1>12, <2>1, <2>6, <2>8, <2>9, <2>10, <2>11 DEF Exact
<1> QED BY <1>6, <1>11, <1>12, <1>13

-----------------------------------------------------------------------------
(* The counters.                                                           *)

\* The tasks that run.
Running == [w \in Workers |-> IF At(w, "idle") THEN 0 ELSE 1]

ProcInv == proc \in Processor /\ Exact(proc, Running)

\* Each worker runs a task or none.
LEMMA RunningCount ==
  Running \in Counts
BY DEF Running, Counts

\* A worker that is at a task and goes on with it still runs one task.
LEMMA RunningGoto ==
  ASSUME Types, NEW w \in Workers, ~At(w, "idle"), NEW pc \in WorkerPCs, pc # "idle", Goto(w, pc)
  PROVE  Running' = Running
<1>1. \A v \in Workers : At(v, "idle")' <=> At(v, "idle")  BY DEF Types, Goto, At, Task
<1> QED BY <1>1 DEF Running

\* Neither the queues nor the workers change.
LEMMA ProcSame ==
  ASSUME ProcInv, proc' = proc, Running' = Running
  PROVE  ProcInv'
BY DEF ProcInv

\* Tasks are dropped from the queues.
LEMMA ProcShrinks ==
  ASSUME ProcInv, NEW D, Shrinks(proc, proc', D), Running' = Running
  PROVE  ProcInv'
BY RunningCount DEF ProcInv, Shrinks

\* The client, the closers and the teardown run no task.
LEMMA ProcOthers ==
  ASSUME ProcInv, UNCHANGED worker,
         \/ proc' = proc
         \/ \E D \in SUBSET Streams : proc' = RemoveLane(proc, D)
         \/ proc' = RemoveSession(proc)
  PROVE  ProcInv'
<1>1. Running' = Running  BY DEF Running, At
<1>2. CASE proc' = proc  BY <1>1, <1>2, ProcSame
<1>3. ASSUME NEW D \in SUBSET Streams, proc' = RemoveLane(proc, D)  PROVE ProcInv'
  BY <1>1, <1>3, RemoveShrinks, ProcShrinks DEF ProcInv
<1>4. CASE proc' = RemoveSession(proc)
  BY <1>1, <1>4, RemoveSessionShrinks, ProcShrinks DEF ProcInv
<1> QED BY <1>2, <1>3, <1>4

\* A request worker queues a SYN, or finds no room.
LEMMA ProcRequest ==
  ASSUME ProcInv, IInv, NEW h \in Handlers,
         (\E p \in Packets : ReceiveSyn(h, p)) \/ HandlerStep(h)
  PROVE  ProcInv'
<1>1. UNCHANGED worker  BY DEF ReceiveSyn, HandlerStep, EnqueueDeferred, QueueAck
<1>2. CASE \E p \in Packets : ReceiveSyn(h, p)
  <2>1. PICK p \in Packets : ReceiveSyn(h, p)  BY <1>2
  <2>2. proc' = proc \/ proc' = RemoveLane(proc, {p[1]})  BY <2>1 DEF ReceiveSyn
  <2>3. {p[1]} \in SUBSET Streams  BY <2>1 DEF Packets
  <2> QED BY <1>1, <2>2, <2>3, ProcOthers
<1>3. CASE EnqueueDeferred(h)
  <2>1. PICK t \in Packets : t = handler[h].pkt  BY <1>3 DEF EnqueueDeferred, IInv, Types
  <2>2. proc' = Enqueue(proc, t).p  BY <1>3, <2>1 DEF EnqueueDeferred
  <2>3. Running' = Running  BY <1>1 DEF Running, At
  <2>4. Enqueue(proc, t).p \in Processor /\ Exact(Enqueue(proc, t).p, Running)
    BY RunningCount, EnqueueOf DEF ProcInv
  <2> QED BY <2>2, <2>3, <2>4 DEF ProcInv
<1>4. CASE QueueAck(h)  BY <1>1, <1>4, ProcOthers DEF QueueAck
<1> QED BY <1>2, <1>3, <1>4 DEF HandlerStep

\* A worker takes a task, works on it, and ends it.
LEMMA ProcWork ==
  ASSUME ProcInv, IInv, NEW w \in Workers, WorkerStep(w)
  PROVE  ProcInv'
<1>0. Types /\ Running \in Counts /\ Running' \in Counts
  BY RunningCount DEF IInv, Running, Counts
<1>1. CASE \E p \in Packets : Take(w, p)
  <2>1. PICK p \in Packets : Take(w, p)  BY <1>1
  <2>2. /\ At(w, "idle") /\ proc.jobs[w] # <<>> /\ proc' = [proc EXCEPT !.jobs[w] = Tail(@)]
        /\ worker' = [worker EXCEPT ![w] = [pc |-> "begin", pkt |-> p, gen |-> 0]]
    BY <2>1 DEF Take
  <2>3. ~At(w, "idle")' /\ \A v \in Workers : v # w => (At(v, "idle")' <=> At(v, "idle"))
    BY <1>0, <2>2 DEF Types, At
  <2>4. Busier(w, Running, Running')  BY <1>0, <2>2, <2>3 DEF Busier, Running
  <2> QED BY <2>2, <2>4, TakeOf DEF ProcInv
<1>2. CASE Begin(w)
  <2>1. ~At(w, "idle") /\ Goto(w, "execute")  BY <1>2 DEF Begin, At
  <2>2. Running' = Running  BY <1>0, <2>1, RunningGoto DEF WorkerPCs
  <2>3. PICK s \in Streams : s = Lane(w)  BY <1>0, <2>1, LaneOf
  <2>4. proc' = BeginTaskContext(proc, s, w)  BY <1>2, <2>3 DEF Begin
  <2> QED BY <2>2, <2>4, BeginOf, SameTasksExact DEF ProcInv
<1>3. CASE /\ UNCHANGED proc
           /\ \/ Execute(w) \/ GetStream(w) \/ DialOK(w) \/ DialFails(w) \/ Serve(w)
              \/ FinalizeTracked(w) \/ FinishDeferred(w)
  <2>1. ~At(w, "idle")
    BY <1>3 DEF Execute, GetStream, DialOK, DialFails, Serve, FinalizeTracked, FinishDeferred, At
  <2>2. CASE \E pc \in WorkerPCs \ {"idle"} : Goto(w, pc)
    BY <1>0, <1>3, <2>1, <2>2, RunningGoto, ProcSame
  <2>3. CASE worker' = [worker EXCEPT ![w].pc = "dial", ![w].gen = strm'[Lane(w)].gen]
    <3>1. \A v \in Workers : At(v, "idle")' <=> At(v, "idle")
      <4>1. worker \in [Workers -> Task]  BY <1>0 DEF Types
      <4>2. worker'[w].pc = "dial" /\ \A v \in Workers : v # w => worker'[v] = worker[v]
        BY <2>3, <4>1 DEF Task
      <4> QED BY <2>1, <4>2 DEF At
    <3>2. Running' = Running  BY <3>1 DEF Running
    <3> QED BY <1>3, <3>2, ProcSame
  <2>4. {"stream", "untrack", "finalize", "attached", "lane", "finish"}
          \subseteq WorkerPCs \ {"idle"}
    BY DEF WorkerPCs
  <2> QED BY <1>3, <2>2, <2>3, <2>4
          DEF Execute, GetStream, DialOK, DialFails, Serve, FinalizeTracked, FinishDeferred
<1>4. CASE FinalizeQueued(w)
  <2>1. ~At(w, "idle") /\ Goto(w, "untrack")  BY <1>4 DEF FinalizeQueued, At
  <2>2. Running' = Running  BY <1>0, <2>1, RunningGoto DEF WorkerPCs
  <2>3. PICK s \in Streams : s = Lane(w)  BY <1>0, <2>1, LaneOf
  <2>4. proc' = FinalizeLane(proc, {s})  BY <1>4, <2>3 DEF FinalizeQueued
  <2>5. Shrinks(proc, proc', {s})  BY <2>4, FinalizeShrinks DEF ProcInv
  <2> QED BY <2>2, <2>5, ProcShrinks
<1>5. CASE Finish(w)
  <2>1. ~At(w, "idle") /\ worker' = [worker EXCEPT ![w] = [pc |-> "idle", pkt |-> NoPacket, gen |-> 0]]
    BY <1>5 DEF Finish, At
  <2>2. PICK s \in Streams : s = Lane(w)  BY <1>0, <2>1, LaneOf
  <2>3. proc' = FinishLane(proc, s, w)  BY <1>5, <2>2 DEF Finish
  <2>4. At(w, "idle")' /\ \A v \in Workers : v # w => (At(v, "idle")' <=> At(v, "idle"))
    BY <1>0, <2>1 DEF Types, At
  <2>5. Busier(w, Running', Running)  BY <1>0, <2>1, <2>4 DEF Busier, Running
  <2> QED BY <2>3, <2>5, FinishOf DEF ProcInv
<1> QED BY <1>1, <1>2, <1>3, <1>4, <1>5
        DEF WorkerStep, Execute, GetStream, DialOK, DialFails, Serve, FinalizeTracked,
            FinishDeferred

\* The processor starts with empty queues.
LEMMA ProcInit == Init => ProcInv
<1> SUFFICES ASSUME Init  PROVE ProcInv
  OBVIOUS
<1>1. PICK jobs : jobs = [w \in Workers |-> <<>>]  OBVIOUS
<1>2. PICK none : none = [w \in Workers |-> 0]  OBVIOUS
<1>3. PICK lanes : lanes = [s \in Streams |-> 0]  OBVIOUS
<1>4. proc = [jobs |-> jobs, pending |-> none, sessionPending |-> 0, laneWorker |-> lanes,
              cancelled |-> {}, running |-> lanes, done |-> {}, nextWorker |-> 1]
  BY <1>1, <1>2, <1>3 DEF Init
<1>5. /\ jobs \in [Workers -> Seq(Packets)] /\ none \in [Workers -> Int] /\ none \in Counts
      /\ lanes \in [Streams -> 0 .. NWorkers] /\ 1 \in Workers
  BY <1>1, <1>2, <1>3, WorkerNumbers DEF Counts, Workers
<1>6. proc \in Processor  BY <1>4, <1>5 DEF Processor
<1>7. \A w \in Workers : At(w, "idle")  BY DEF Init, At
<1>8. Tasks(jobs, Running) = none
  <2>1. \A w \in Workers : Len(jobs[w]) + Running[w] = 0  BY <1>1, <1>7 DEF Running
  <2> QED BY <1>2, <2>1 DEF Tasks
<1>9. Total(none) = 0  BY <1>2, <1>5, TotalZero
<1>10. proc.jobs = jobs /\ proc.pending = none /\ proc.sessionPending = 0  BY <1>4
<1>11. \A w \in Workers : Len(jobs[w]) = 0  BY <1>1
<1>12. QueueLimit \in Nat /\ SessionCap \in Nat  BY DeferredAssumption
<1>13. Exact(proc, Running)  BY <1>8, <1>9, <1>10, <1>11, <1>12 DEF Exact
<1> QED BY <1>6, <1>13 DEF ProcInv

\* The processor keeps its type, and its counters stay exact.
THEOREM ProcInvariance == Spec => []ProcInv
<1>1. IInv /\ ProcInv /\ [Next]_vars => ProcInv'
  <2> SUFFICES ASSUME IInv, ProcInv, [Next]_vars  PROVE ProcInv'
    OBVIOUS
  <2>1. CASE \E s \in Streams : OpenStream(s) \/ ResetStream(s) \/ ReceiveRst(s) \/ ARQFails(s)
    <3>1. PICK s \in Streams : OpenStream(s) \/ ResetStream(s) \/ ReceiveRst(s) \/ ARQFails(s)
      BY <2>1
    <3>2. UNCHANGED worker /\ (proc' = proc \/ proc' = RemoveLane(proc, {s}))
      BY <3>1 DEF OpenStream, ResetStream, ReceiveRst, ARQFails, CloserVars
    <3> QED BY <3>2, ProcOthers
  <2>2. CASE \/ \E h \in Handlers, p \in Packets : ReceiveSyn(h, p)
             \/ \E h \in Handlers : HandlerStep(h)
    BY <2>2, ProcRequest
  <2>3. CASE \E w \in Workers : WorkerStep(w)  BY <2>3, ProcWork
  <2>4. CASE \E s \in Streams : CloserStep(s)
    <3>1. PICK s \in Streams : CloserStep(s)  BY <2>4
    <3>2. UNCHANGED worker /\ (proc' = proc \/ proc' = RemoveLane(proc, {s}))
      BY <3>1 DEF CloserStep, CleanupResources, RemoveStream, NoteStreamClosed, ClearTracked,
         ClearLane, CloserVars
    <3> QED BY <3>2, ProcOthers
  <2>5. CASE CloseSession \/ TeardownStep
    <3>1. UNCHANGED worker /\ There \in SUBSET Streams
      BY <2>5 DEF CloseSession, TeardownStep, ClearSession, CloseAllStreams,
         CleanupDeferredSession, There
    <3>2. proc' = proc \/ proc' = RemoveLane(proc, There) \/ proc' = RemoveSession(proc)
      BY <2>5 DEF CloseSession, TeardownStep, ClearSession, CloseAllStreams, CleanupDeferredSession
    <3> QED BY <3>1, <3>2, ProcOthers
  <2>6. CASE UNCHANGED vars  BY <2>6, ProcOthers DEF vars
  <2> QED BY <2>1, <2>2, <2>3, <2>4, <2>5, <2>6 DEF Next
<1> QED BY <1>1, ProcInit, Invariance, PTL DEF Spec

\* The counters that bound the queues are exact in every reachable state
\* (compactWorkerLocked, finishLane, decrementSessionPendingLocked).
THEOREM CountersExact == Spec => []PendingExact
<1>1. ProcInv => PendingExact
  <2>1. Tasks(proc.jobs, Running)
          = [w \in Workers |-> Len(proc.jobs[w]) + (IF At(w, "idle") THEN 0 ELSE 1)]
    BY DEF Tasks, Running
  <2> QED BY <2>1 DEF ProcInv, Exact, PendingExact
<1> QED BY <1>1, ProcInvariance, PTL

-----------------------------------------------------------------------------
(* The types.                                                              *)

Statuses == {"idle", "syn", "connected", "failed", "reset"}
Client == [status : Statuses, acked : SUBSET Fragments, rst : BOOLEAN]
Fragmented == [items : [Streams -> SUBSET Fragments], completed : SUBSET Streams]

\* The types of what the connections and the queues do not depend on.
RestOK ==
  /\ client \in [Streams -> Client] /\ dups \in 0 .. MaxDups /\ tracked \subseteq Packets
  /\ store \in Fragmented /\ orphaned \subseteq Streams

\* A client that is told what became of its stream is still a client.
LEMMA AnswerTyped ==
  ASSUME NEW cl \in [Streams -> Client], NEW s \in Streams, NEW status \in Statuses
  PROVE  Answer(cl, s, status) \in [Streams -> Client]
<1>1. PICK c : c = [cl[s] EXCEPT !.status = status]  OBVIOUS
<1>2. c \in Client  BY <1>1 DEF Client
<1>3. [cl EXCEPT ![s].status = status] = [cl EXCEPT ![s] = c]  BY <1>1
<1>4. [cl EXCEPT ![s] = c] \in [Streams -> Client]  BY <1>2
<1> QED BY <1>3, <1>4 DEF Answer

\* Fragments are removed.
LEMMA FragmentsTyped ==
  ASSUME store \in Fragmented, NEW D
  PROVE  FragmentsRemoved(D) \in Fragmented
<1>1. store.items \in [Streams -> SUBSET Fragments] /\ store.completed \subseteq Streams
  BY DEF Fragmented
<1>2. PICK items : items = [s \in Streams |-> IF s \in D THEN {} ELSE store.items[s]]  OBVIOUS
<1>3. items \in [Streams -> SUBSET Fragments]  BY <1>1, <1>2
<1>4. FragmentsRemoved(D) = [items |-> items, completed |-> store.completed \ D]
  BY <1>2 DEF FragmentsRemoved
<1> QED BY <1>1, <1>3, <1>4 DEF Fragmented

\* What the client, the closers and the teardown do to the rest.
LEMMA RestKept ==
  ASSUME RestOK, client' \in [Streams -> Client], dups' \in 0 .. MaxDups, tracked' \subseteq tracked,
         store' = store \/ (\E D : store' = FragmentsRemoved(D)), orphaned' \subseteq orphaned
  PROVE  RestOK'
BY FragmentsTyped DEF RestOK

\* The steps of the client, and the resets.
LEMMA RestClient ==
  ASSUME RestOK, NEW s \in Streams, OpenStream(s) \/ ResetStream(s) \/ ReceiveRst(s) \/ ARQFails(s)
  PROVE  RestOK'
<1>1. /\ UNCHANGED <<dups, orphaned>> /\ tracked' \subseteq tracked
      /\ store' = store \/ store' = FragmentsRemoved({s})
  BY DEF OpenStream, ResetStream, ReceiveRst, ARQFails, CloserVars, Untracked
<1>2. client[s] \in Client /\ client \in [Streams -> Client] /\ dups \in 0 .. MaxDups
  BY DEF RestOK
<1>3. client' \in [Streams -> Client]
  <2>1. CASE ARQFails(s)  BY <1>2, <2>1, AnswerTyped DEF ARQFails, Statuses
  <2>2. CASE OpenStream(s) \/ ResetStream(s) \/ ReceiveRst(s)
    <3>1. \E c \in Client : client' = [client EXCEPT ![s] = c]
      <4>1. CASE OpenStream(s)
        <5>1. PICK c : c = [client[s] EXCEPT !.status = "syn"]  OBVIOUS
        <5>2. c \in Client  BY <1>2, <5>1 DEF Client, Statuses
        <5> QED BY <4>1, <5>1, <5>2 DEF OpenStream
      <4>2. CASE ResetStream(s)
        <5>1. PICK c : c = [client[s] EXCEPT !.status = "reset", !.rst = TRUE]  OBVIOUS
        <5>2. c \in Client  BY <1>2, <5>1 DEF Client, Statuses
        <5>3. client' = [client EXCEPT ![s] = c]  BY <1>2, <4>2, <5>1 DEF ResetStream
        <5> QED BY <5>2, <5>3
      <4>3. CASE ReceiveRst(s)
        <5>1. PICK c : c = [client[s] EXCEPT !.rst = FALSE]  OBVIOUS
        <5>2. c \in Client  BY <1>2, <5>1 DEF Client
        <5> QED BY <4>3, <5>1, <5>2 DEF ReceiveRst
      <4> QED BY <2>2, <4>1, <4>2, <4>3
    <3> QED BY <1>2, <3>1
  <2> QED BY <2>1, <2>2
<1> QED BY <1>1, <1>2, <1>3, RestKept

\* The steps of the request workers.
LEMMA RestRequest ==
  ASSUME RestOK, IInv, NEW h \in Handlers,
         (\E p \in Packets : ReceiveSyn(h, p)) \/ HandlerStep(h)
  PROVE  RestOK'
<1>0. client \in [Streams -> Client] /\ dups \in 0 .. MaxDups /\ MaxDups \in Nat
  BY DeferredAssumption DEF RestOK
<1>1. CASE \E p \in Packets : ReceiveSyn(h, p)
  <2>1. PICK p \in Packets : ReceiveSyn(h, p)  BY <1>1
  <2>2. PICK s \in Streams : s = p[1]  BY DEF Packets
  <2>3. dups' \in 0 .. MaxDups
    <3>1. dups' = dups \/ (dups < MaxDups /\ dups' = dups + 1)  BY <2>1 DEF ReceiveSyn
    <3> QED BY <1>0, <3>1
  <2>4. client' \in [Streams -> Client]
    <3>1. client' = client \/ \E x \in Statuses : client' = Answer(client, s, x)
      BY <2>1, <2>2 DEF ReceiveSyn, Statuses
    <3> QED BY <1>0, <3>1, AnswerTyped
  <2>5. CASE tracked' \subseteq tracked
    <3>1. orphaned' = orphaned /\ (store' = store \/ store' = FragmentsRemoved({s}))
      BY <2>1, <2>2 DEF ReceiveSyn
    <3> QED BY <2>3, <2>4, <2>5, <3>1, RestKept
  <2>6. CASE tracked' = tracked \cup {p} /\ UNCHANGED <<store, orphaned>>
    BY <2>3, <2>4, <2>6 DEF RestOK
  <2> QED BY <2>1, <2>5, <2>6 DEF ReceiveSyn, Untracked
<1>2. CASE EnqueueDeferred(h)
  <2>1. handler[h].pkt[1] \in Streams
    <3>1. handler[h].pkt \in Packets  BY <1>2 DEF EnqueueDeferred, IInv, Types
    <3> QED BY <3>1 DEF Packets
  <2> QED BY <1>2, <2>1 DEF EnqueueDeferred, RestOK
<1>3. CASE QueueAck(h)
  <2>1. PICK p \in Packets : p = handler[h].pkt  BY <1>3 DEF QueueAck, IInv, Types
  <2>2. PICK s \in Streams, f \in Fragments : s = p[1] /\ f = p[2]  BY DEF Packets
  <2>3. client' = client \/ client' = [client EXCEPT ![s].acked = @ \cup {f}]
    BY <1>3, <2>1, <2>2 DEF QueueAck
  <2>4. client' \in [Streams -> Client]
    <3>1. PICK a : a = client[s].acked \cup {f}  OBVIOUS
    <3>2. PICK c : c = [client[s] EXCEPT !.acked = a]  OBVIOUS
    <3>3. client[s] \in Client /\ a \in SUBSET Fragments  BY <1>0, <3>1 DEF Client
    <3>4. c \in Client  BY <3>2, <3>3 DEF Client
    <3>5. client' = client \/ client' = [client EXCEPT ![s] = c]  BY <2>3, <3>1, <3>2
    <3> QED BY <1>0, <3>4, <3>5
  <2> QED BY <1>0, <1>3, <2>4, RestKept DEF QueueAck
<1> QED BY <1>1, <1>2, <1>3 DEF HandlerStep

\* The steps of the workers.
LEMMA RestWork ==
  ASSUME RestOK, IInv, NEW w \in Workers, WorkerStep(w)
  PROVE  RestOK'
<1>0. client \in [Streams -> Client] /\ dups \in 0 .. MaxDups  BY DEF RestOK
<1>1. CASE \/ \E p \in Packets : Take(w, p)
           \/ Begin(w) \/ DialOK(w)
           \/ FinalizeTracked(w) \/ FinalizeQueued(w) \/ FinishDeferred(w)
  <2>1. /\ UNCHANGED <<client, dups, orphaned>> /\ tracked' \subseteq tracked
        /\ store' = store \/ store' = FragmentsRemoved({Lane(w)})
    BY <1>1 DEF Take, Begin, DialOK, FinalizeTracked, FinalizeQueued, FinishDeferred, Untracked
  <2> QED BY <1>0, <2>1, RestKept
<1>2. CASE Finish(w)
  <2>1. Lane(w) \in Streams  BY <1>2, LaneOf DEF Finish, At, IInv
  <2> QED BY <1>2, <2>1 DEF Finish, RestOK
<1>3. CASE GetStream(w) \/ DialFails(w) \/ Serve(w)
  <2>1. PICK s \in Streams : s = Lane(w)  BY <1>3, LaneOf DEF GetStream, DialFails, Serve, At, IInv
  <2>2. client' = client \/ \E x \in Statuses : client' = Answer(client, s, x)
    BY <1>3, <2>1 DEF GetStream, DialFails, Serve, Statuses
  <2>3. client' \in [Streams -> Client]  BY <1>0, <2>2, AnswerTyped
  <2> QED BY <1>0, <1>3, <2>3, RestKept DEF GetStream, DialFails, Serve
<1>4. CASE Execute(w)
  <2>1. ~At(w, "idle") /\ UNCHANGED <<dups, tracked, orphaned>>  BY <1>4 DEF Execute, At
  <2>2. PICK s \in Streams : s = Lane(w)  BY <2>1, LaneOf DEF IInv
  <2>3. PICK f \in Fragments : f = worker[w].pkt[2]
    <3>1. worker[w].pkt \in Packets  BY <2>1 DEF IInv, Types
    <3> QED BY <3>1 DEF Packets
  <2>5. client' \in [Streams -> Client]  BY <1>0, <1>4 DEF Execute
  <2>6. \/ store' = store
        \/ store' = [items |-> [store.items EXCEPT ![s] = {}],
                     completed |-> store.completed \cup {s}]
        \/ store' = [store EXCEPT !.items[s] = store.items[s] \cup {f}]
    BY <1>4, <2>2, <2>3 DEF Execute
  <2>7. store \in Fragmented /\ store.items \in [Streams -> SUBSET Fragments]
        /\ store.completed \in SUBSET Streams
    BY DEF RestOK, Fragmented
  <2>8. store' \in Fragmented
    <3>1. PICK a, b : /\ a = [store.items EXCEPT ![s] = {}]
                      /\ b = [store.items EXCEPT ![s] = store.items[s] \cup {f}]
      OBVIOUS
    <3>2. a \in [Streams -> SUBSET Fragments] /\ b \in [Streams -> SUBSET Fragments]
      BY <2>7, <3>1
    <3>3. CASE store' = store  BY <2>7, <3>3
    <3>4. CASE store' = [items |-> a, completed |-> store.completed \cup {s}]
      BY <2>7, <3>2, <3>4 DEF Fragmented
    <3>5. CASE store' = [store EXCEPT !.items = b]  BY <2>7, <3>2, <3>5 DEF Fragmented
    <3>6. [store EXCEPT !.items[s] = store.items[s] \cup {f}] = [store EXCEPT !.items = b]
      BY <2>7, <3>1 DEF Fragmented
    <3> QED BY <2>6, <3>1, <3>3, <3>4, <3>5, <3>6
  <2> QED BY <2>1, <2>5, <2>8 DEF RestOK
<1> QED BY <1>1, <1>2, <1>3, <1>4 DEF WorkerStep

\* The rest keeps its type.
LEMMA RestInvariance == Spec => []RestOK
<1>1. Init => RestOK
  <2> SUFFICES ASSUME Init  PROVE RestOK
    OBVIOUS
  <2>1. PICK c : c = [status |-> "idle", acked |-> {}, rst |-> FALSE]  OBVIOUS
  <2>2. c \in Client  BY <2>1 DEF Client, Statuses
  <2>3. client = [s \in Streams |-> c]  BY <2>1 DEF Init
  <2>4. store \in Fragmented  BY DEF Init, Fragmented
  <2>5. dups \in 0 .. MaxDups  BY DeferredAssumption DEF Init
  <2> QED BY <2>2, <2>3, <2>4, <2>5 DEF Init, RestOK
<1>2. IInv /\ RestOK /\ [Next]_vars => RestOK'
  <2> SUFFICES ASSUME IInv, RestOK, [Next]_vars  PROVE RestOK'
    OBVIOUS
  <2>0. client \in [Streams -> Client] /\ dups \in 0 .. MaxDups /\ MaxDups \in Nat
    BY DeferredAssumption DEF RestOK
  <2>1. CASE \E s \in Streams : OpenStream(s) \/ ResetStream(s) \/ ReceiveRst(s) \/ ARQFails(s)
    BY <2>1, RestClient
  <2>2. CASE \/ \E h \in Handlers, p \in Packets : ReceiveSyn(h, p)
             \/ \E h \in Handlers : HandlerStep(h)
    BY <2>2, RestRequest
  <2>3. CASE \E w \in Workers : WorkerStep(w)  BY <2>3, RestWork
  <2>4. CASE \E s \in Streams : CloserStep(s)
    <3>1. PICK s \in Streams : CloserStep(s)  BY <2>4
    <3>2. /\ UNCHANGED <<client, dups, orphaned>> /\ tracked' \subseteq tracked
          /\ store' = store \/ store' = FragmentsRemoved({s})
      BY <3>1 DEF CloserStep, CleanupResources, RemoveStream, NoteStreamClosed, ClearTracked,
         ClearLane, CloserVars, Untracked
    <3> QED BY <2>0, <3>2, RestKept
  <2>5. CASE CloseSession
    <3>1. PICK c : c = [status |-> "reset", acked |-> {}, rst |-> FALSE]  OBVIOUS
    <3>2. c \in Client  BY <3>1 DEF Client, Statuses
    <3>3. client' = [s \in Streams |-> c]  BY <2>5, <3>1 DEF CloseSession
    <3>4. client' \in [Streams -> Client]  BY <3>2, <3>3
    <3>5. dups' \in 0 .. MaxDups /\ UNCHANGED <<tracked, store>> /\ orphaned' = {}
      BY <2>0, <2>5 DEF CloseSession
    <3> QED BY <3>4, <3>5, RestKept
  <2>6. CASE TeardownStep
    <3>1. /\ UNCHANGED <<client, dups, orphaned>> /\ tracked' \subseteq tracked
          /\ store' = store \/ \E D : store' = FragmentsRemoved(D)
      BY <2>6 DEF TeardownStep, ClearSession, CloseAllStreams, CleanupDeferredSession
    <3> QED BY <2>0, <3>1, RestKept
  <2>7. CASE UNCHANGED vars  BY <2>0, <2>7, RestKept DEF vars
  <2> QED BY <2>1, <2>2, <2>3, <2>4, <2>5, <2>6, <2>7 DEF Next
<1> QED BY <1>1, <1>2, Invariance, PTL DEF Spec

\* Every variable keeps its type, also the worker the search for the least loaded one starts
\* from (selectLeastLoadedWorkerLocked).
THEOREM TypeCorrect == Spec => []TypeOK
<1>1. IInv /\ RecentOK /\ ProcInv /\ RestOK => TypeOK
  <2> SUFFICES ASSUME IInv, RecentOK, ProcInv, RestOK  PROVE TypeOK
    OBVIOUS
  <2>1. /\ strm \in [Streams -> [gen : Nat, there : BOOLEAN, closed : BOOLEAN, conn : 0 .. NWorkers]]
        /\ closer \in [Streams -> {"idle", "close", "remove", "note", "clear", "lane"}]
        /\ sess \in {"active", "closed", "cleared", "swept", "done"}
        /\ handler \in [Handlers -> [pc : {"idle", "enqueue", "ack"}, pkt : Packets \cup {NoPacket}]]
        /\ worker \in [Workers -> [pc : WorkerPCs, pkt : Packets \cup {NoPacket}, gen : Nat]]
        /\ open \subseteq Streams \X Nat \X Workers
    BY DEF IInv, Types, Stream, Closing, Request, Task
  <2>2. /\ client \in [Streams -> [status : {"idle", "syn", "connected", "failed", "reset"},
                                   acked : SUBSET Fragments, rst : BOOLEAN]]
        /\ dups \in 0 .. MaxDups /\ tracked \subseteq Packets /\ orphaned \subseteq Streams
        /\ store \in [items : [Streams -> SUBSET Fragments], completed : SUBSET Streams]
    BY DEF RestOK, Client, Statuses, Fragmented
  <2>3. /\ proc.laneWorker \in [Streams -> 0 .. NWorkers]
        /\ proc.running \in [Streams -> 0 .. NWorkers]
        /\ proc.cancelled \subseteq Streams /\ proc.done \subseteq Workers /\ proc.nextWorker \in Workers
    BY DEF ProcInv, Processor
  <2>4. recentlyClosed \subseteq Streams  BY DEF RecentOK
  <2> QED BY <2>1, <2>2, <2>3, <2>4 DEF TypeOK
<1> QED BY <1>1, Invariance, RecentTyped, ProcInvariance, RestInvariance, PTL

=============================================================================
