-------------------------------- MODULE Sums ----------------------------------
(***************************************************************************)
(* What the proofs about folds and recursive functions rest on: a set of   *)
(* natural numbers has a least one, a collection of finite sets a smallest *)
(* one, and the function that the folds of the community modules define    *)
(* by their recursion exists and adds up its terms in any order.           *)
(***************************************************************************)
EXTENDS Integers, FiniteSets, FiniteSetTheorems, WellFoundedInduction, TLAPS

\* A set of natural numbers that is not empty has a least one.
LEMMA LeastNumber ==
  ASSUME NEW T, T \subseteq Nat, T # {}
  PROVE  \E x \in T : \A y \in T : x <= y
<1> DEFINE R == {ss \in Nat \X Nat : ss[1] < ss[2]}
<1>1. IsWellFoundedOn(R, Nat)  BY NatLessThanWellFounded DEF OpToRel
<1>2. \A a, b \in Nat : a < b => <<a, b>> \in R  OBVIOUS
<1> HIDE DEF R
<1>3. PICK x \in T : \A y \in T : ~(<<y, x>> \in R)  BY <1>1, WFMin
<1>4. \A y \in T : ~(y < x)  BY <1>2, <1>3
<1> QED BY <1>4

\* Of some subsets of a finite set, one has none of the others as a proper part.
LEMMA SmallestSet ==
  ASSUME NEW D, IsFiniteSet(D), NEW W, W \subseteq SUBSET D, W # {}
  PROVE  \E s \in W : \A t \in SUBSET s : t # s => t \notin W
<1> DEFINE N == {Cardinality(s) : s \in W}
<1>1. \A s \in W : IsFiniteSet(s) /\ Cardinality(s) \in Nat
  BY FS_Subset, FS_CardinalityType
<1>2. N \subseteq Nat /\ N # {}  BY <1>1
<1>3. PICK n \in N : \A m \in N : n <= m  BY <1>2, LeastNumber
<1>4. PICK s \in W : Cardinality(s) = n  OBVIOUS
<1>5. ASSUME NEW t \in SUBSET s, t # s PROVE t \notin W
  <2>1. Cardinality(t) <= Cardinality(s) /\ Cardinality(s) # Cardinality(t)
    BY <1>1, <1>5, FS_Subset
  <2>2. IsFiniteSet(t) /\ Cardinality(t) \in Nat
    BY <1>1, FS_Subset, FS_CardinalityType
  <2>3. t \in W => n <= Cardinality(t)  BY <1>3
  <2> HIDE DEF N
  <2> QED BY <1>1, <1>4, <2>1, <2>2, <2>3
<1> QED BY <1>5

-----------------------------------------------------------------------------
(* The recursion of MapThenFoldSet, for a sum.                             *)
Pick(s) == CHOOSE x \in s : TRUE
Folds(h, f, D) ==
  h = [s \in SUBSET D |-> IF s = {} THEN 0 ELSE f[Pick(s)] + h[s \ {Pick(s)}]]

\* A fold at a set that is empty, and at one that is not.
LEMMA FoldAt ==
  ASSUME NEW h, NEW f, NEW D, Folds(h, f, D), NEW s \in SUBSET D
  PROVE  /\ s = {} => h[s] = 0
         /\ s # {} => /\ Pick(s) \in s
                      /\ h[s] = f[Pick(s)] + h[s \ {Pick(s)}]
<1>1. h[s] = IF s = {} THEN 0 ELSE f[Pick(s)] + h[s \ {Pick(s)}]  BY DEF Folds
<1>2. s # {} => Pick(s) \in s  BY DEF Pick
<1> QED BY <1>1, <1>2

\* Two sums of the same terms are the same, whatever else is summed beside them.
LEMMA SumsAgree ==
  ASSUME NEW h, NEW f, NEW D, Folds(h, f, D), NEW k, NEW g, NEW E, Folds(k, g, E),
         NEW s, IsFiniteSet(s), s \subseteq D, s \subseteq E,
         \A x \in s : f[x] = g[x]
  PROVE  h[s] = k[s]
<1> DEFINE W == {t \in SUBSET s : h[t] # k[t]}
<1> SUFFICES ASSUME W # {} PROVE FALSE
  OBVIOUS
<1>1. PICK t \in W : \A u \in SUBSET t : u # t => u \notin W
  <2>1. W \subseteq SUBSET s  OBVIOUS
  <2> HIDE DEF W
  <2> QED BY <2>1, SmallestSet
<1>2. t \in SUBSET D /\ t \in SUBSET E /\ t \in SUBSET s  OBVIOUS
<1>3. t # {}  BY <1>2, FoldAt
<1>4. Pick(t) \in t  BY <1>3 DEF Pick
<1>5. t \ {Pick(t)} \in SUBSET t /\ t \ {Pick(t)} # t  BY <1>4
<1>6. h[t \ {Pick(t)}] = k[t \ {Pick(t)}]  BY <1>1, <1>5
<1>7. h[t] = f[Pick(t)] + h[t \ {Pick(t)}]  BY <1>2, <1>3, FoldAt
<1>8. k[t] = g[Pick(t)] + k[t \ {Pick(t)}]  BY <1>2, <1>3, FoldAt
<1>9. f[Pick(t)] = g[Pick(t)]  BY <1>2, <1>4
<1> QED BY <1>1, <1>6, <1>7, <1>8, <1>9

\* A finite set has a sum.
LEMMA SumExists ==
  ASSUME NEW D, IsFiniteSet(D), NEW f
  PROVE  \E h : Folds(h, f, D)
<1> DEFINE W == {s \in SUBSET D : ~ \E h : Folds(h, f, s)}
<1> SUFFICES ASSUME W # {} PROVE FALSE
  OBVIOUS
<1>1. PICK s \in W : \A t \in SUBSET s : t # s => t \notin W
  <2>1. W \subseteq SUBSET D  OBVIOUS
  <2> HIDE DEF W
  <2> QED BY <2>1, SmallestSet
<1>2. s \in SUBSET D /\ IsFiniteSet(s)  BY FS_Subset
<1> DEFINE K(t) == CHOOSE k : Folds(k, f, t)
           A(t) == K(t)[t]
           h == [t \in SUBSET s |-> IF t = {} THEN 0 ELSE f[Pick(t)] + A(t \ {Pick(t)})]
<1>3. \A t \in SUBSET s : t # s => Folds(K(t), f, t)  BY <1>1, <1>2
<1> HIDE DEF K
<1>4. ASSUME NEW t \in SUBSET s, t # {} PROVE h[t \ {Pick(t)}] = A(t \ {Pick(t)})
  <2> DEFINE u == t \ {Pick(t)}
             v == u \ {Pick(u)}
  <2>1. Pick(t) \in t  BY <1>4 DEF Pick
  <2>2. u \in SUBSET s /\ u # s  BY <2>1
  <2>3. Folds(K(u), f, u)  BY <1>3, <2>2
  <2>4. CASE u = {}
    <3>1. K(u)[u] = 0  BY <2>3, <2>4, FoldAt
    <3> QED BY <2>2, <2>4, <3>1
  <2>5. CASE u # {}
    <3>1. K(u)[u] = f[Pick(u)] + K(u)[v]
      <4> DEFINE k == K(u)
      <4>1. Folds(k, f, u) /\ u \in SUBSET u  BY <2>3
      <4> HIDE DEF k, u
      <4>2. k[u] = f[Pick(u)] + k[u \ {Pick(u)}]  BY <4>1, <2>5, FoldAt
      <4> QED BY <4>2 DEF k
    <3>2. v \in SUBSET u  OBVIOUS
    <3>3. v \in SUBSET s /\ v # s  BY <2>2
    <3>4. Folds(K(v), f, v)  BY <1>3, <3>3
    <3>5. IsFiniteSet(v)  BY <1>2, <3>3, FS_Subset
    <3> HIDE DEF u, v, h
    <3>6. K(u)[v] = K(v)[v]  BY <2>3, <3>2, <3>4, <3>5, SumsAgree
    <3>7. h[u] = f[Pick(u)] + A(v)  BY <2>2, <2>5 DEF h, v
    <3> QED BY <3>1, <3>6, <3>7 DEF u
  <2> QED BY <2>4, <2>5
<1>5. h = [t \in SUBSET s |-> IF t = {} THEN 0 ELSE f[Pick(t)] + h[t \ {Pick(t)}]]
  <2> HIDE DEF A
  <2>1. \A t \in SUBSET s : h[t] = IF t = {} THEN 0 ELSE f[Pick(t)] + h[t \ {Pick(t)}]
    BY <1>4
  <2>2. DOMAIN h = SUBSET s /\ h = [t \in DOMAIN h |-> h[t]]  OBVIOUS
  <2> HIDE DEF h
  <2> QED BY <2>1, <2>2
<1>6. Folds(h, f, s)  BY <1>5 DEF Folds
<1> QED BY <1>1, <1>6

\* The sum of integers is one, and of natural numbers one.
LEMMA SumType ==
  ASSUME NEW h, NEW f, NEW D, IsFiniteSet(D), Folds(h, f, D), NEW s \in SUBSET D
  PROVE  /\ (\A x \in D : f[x] \in Int) => h[s] \in Int
         /\ (\A x \in D : f[x] \in Nat) => h[s] \in Nat
<1>1. ASSUME NEW S \in {Int, Nat}, \A x \in D : f[x] \in S PROVE h[s] \in S
  <2> DEFINE W == {t \in SUBSET D : h[t] \notin S}
  <2> SUFFICES ASSUME W # {} PROVE FALSE
    OBVIOUS
  <2>1. PICK t \in W : \A u \in SUBSET t : u # t => u \notin W
    <3>1. W \subseteq SUBSET D  OBVIOUS
    <3> HIDE DEF W
    <3> QED BY <3>1, SmallestSet
  <2>2. t \in SUBSET D /\ h[t] \notin S  OBVIOUS
  <2>0. 0 \in S /\ \A a, b \in S : a + b \in S  OBVIOUS
  <2>3. t # {}  BY <2>0, <2>2, FoldAt
  <2>4. Pick(t) \in t /\ h[t] = f[Pick(t)] + h[t \ {Pick(t)}]
    BY <2>2, <2>3, FoldAt
  <2>5. t \ {Pick(t)} \in SUBSET t /\ t \ {Pick(t)} # t  BY <2>4
  <2>6. h[t \ {Pick(t)}] \in S  BY <2>1, <2>2, <2>5
  <2>7. f[Pick(t)] \in S  BY <1>1, <2>2, <2>4
  <2>8. h[t] \in S  BY <2>0, <2>4, <2>6, <2>7
  <2> QED BY <2>2, <2>8
<1> QED BY <1>1

\* Any term can be taken out of a sum.
LEMMA SumTerm ==
  ASSUME NEW h, NEW f, NEW D, IsFiniteSet(D), Folds(h, f, D),
         \A x \in D : f[x] \in Int,
         NEW s \in SUBSET D, NEW e \in s
  PROVE  h[s] = f[e] + h[s \ {e}]
<1> DEFINE W == {t \in SUBSET D : \E x \in t : h[t] # f[x] + h[t \ {x}]}
<1> SUFFICES ASSUME W # {} PROVE FALSE
  OBVIOUS
<1>1. PICK t \in W : \A u \in SUBSET t : u # t => u \notin W
  <2>1. W \subseteq SUBSET D  OBVIOUS
  <2> HIDE DEF W
  <2> QED BY <2>1, SmallestSet
<1>2. PICK x \in t : h[t] # f[x] + h[t \ {x}]  OBVIOUS
<1> DEFINE c == Pick(t)
           u == t \ {c}
           v == t \ {x}
<1>3. c \in t /\ h[t] = f[c] + h[u]  BY FoldAt
<1>4. c # x  BY <1>2, <1>3
<1>5. x \in u /\ u \in SUBSET t /\ u # t /\ u \in SUBSET D  BY <1>3, <1>4
<1>6. h[u] = f[x] + h[u \ {x}]  BY <1>1, <1>5
<1>7. c \in v /\ v \in SUBSET t /\ v # t /\ v \in SUBSET D  BY <1>3, <1>4
<1>8. h[v] = f[c] + h[v \ {c}]  BY <1>1, <1>7
<1>9. u \ {x} = v \ {c} /\ v \ {c} \in SUBSET D  OBVIOUS
<1>10. f[x] \in Int /\ f[c] \in Int  BY <1>3
<1> DEFINE w == v \ {c}
<1>11. h[w] \in Int  BY <1>9, SumType
<1>12. h[t] = f[x] + h[v]
  <2>1. h[u] = f[x] + h[w] /\ h[v] = f[c] + h[w]  BY <1>6, <1>8, <1>9
  <2> HIDE DEF u, v, w, c, W
  <2> QED BY <1>3, <1>10, <1>11, <2>1
<1> QED BY <1>2, <1>12

\* The same, as facts that can be cited whatever the terms are.
Integral(f, D) == \A x \in D : f[x] \in Int
Adds(h, f, D) == \A s \in SUBSET D : \A e \in s : h[s] = f[e] + h[s \ {e}]

LEMMA SumAdds ==
  ASSUME NEW h, NEW f, NEW D, IsFiniteSet(D), Folds(h, f, D), Integral(f, D)
  PROVE  Adds(h, f, D)
<1> SUFFICES ASSUME NEW s \in SUBSET D, NEW e \in s PROVE h[s] = f[e] + h[s \ {e}]
  BY DEF Adds
<1>1. \A x \in D : f[x] \in Int  BY DEF Integral
<1> QED BY <1>1, SumTerm

\* The sum up to a number is the sum up to the one before and one term more.
LEMMA SumUpTo ==
  ASSUME NEW h, NEW f, NEW n \in Nat, Folds(h, f, 1 .. n), \A x \in 1 .. n : f[x] \in Nat
  PROVE  /\ h[1 .. 0] = 0
         /\ \A i \in 0 .. n : h[1 .. i] \in Nat
         /\ \A i \in 1 .. n : h[1 .. i] = h[1 .. (i - 1)] + f[i]
<1> DEFINE D == 1 .. n
<1>1. IsFiniteSet(D) /\ \A x \in D : f[x] \in Int  BY FS_Interval
<1>2. \A i \in 0 .. n : 1 .. i \in SUBSET D  OBVIOUS
<1>3. h[1 .. 0] = 0
  <2>1. 1 .. 0 = {} /\ {} \in SUBSET D  OBVIOUS
  <2> QED BY <2>1, FoldAt
<1>4. \A i \in 0 .. n : h[1 .. i] \in Nat
  <2>1. Folds(h, f, D) /\ \A x \in D : f[x] \in Nat  OBVIOUS
  <2> HIDE DEF D
  <2> QED BY <1>1, <1>2, <2>1, SumType
<1>t. Adds(h, f, D)
  <2>1. Folds(h, f, D) /\ Integral(f, D)  BY <1>1 DEF Integral
  <2> HIDE DEF D
  <2> QED BY <1>1, <2>1, SumAdds
<1>5. ASSUME NEW i \in 1 .. n PROVE h[1 .. i] = h[1 .. (i - 1)] + f[i]
  <2> DEFINE u == 1 .. i
             v == 1 .. (i - 1)
  <2>1. u \in SUBSET D /\ i \in u /\ u \ {i} = v /\ i - 1 \in 0 .. n  OBVIOUS
  <2>2. Folds(h, f, D) /\ f[i] \in Int  OBVIOUS
  <2>3. h[v] \in Nat  BY <1>4, <2>1
  <2> HIDE DEF D, u, v
  <2>4. h[u] = f[i] + h[u \ {i}]  BY <1>t, <2>1 DEF Adds
  <2>5. h[u] = f[i] + h[v]  BY <2>1, <2>4
  <2>6. h[u] = h[v] + f[i]  BY <2>2, <2>3, <2>5
  <2> QED BY <2>6 DEF u, v
<1> QED BY <1>3, <1>4, <1>5

-----------------------------------------------------------------------------
(* The sum of f over D.                                                    *)
SumOf(f, D) == (CHOOSE h : Folds(h, f, D))[D]
Natural(f, D) == \A x \in D : f[x] \in Nat

\* Every fold of the terms is the sum.
LEMMA SumIs ==
  ASSUME NEW D, IsFiniteSet(D), NEW f, NEW h, Folds(h, f, D)
  PROVE  SumOf(f, D) = h[D]
<1> DEFINE k == CHOOSE k : Folds(k, f, D)
<1>1. Folds(k, f, D)  OBVIOUS
<1>2. SumOf(f, D) = k[D]  BY DEF SumOf
<1> HIDE DEF k
<1> QED BY <1>1, <1>2, SumsAgree

\* The sum of natural numbers is one, and no term of it is greater.
LEMMA SumNat ==
  ASSUME NEW D, IsFiniteSet(D), NEW f, Natural(f, D)
  PROVE  SumOf(f, D) \in Nat /\ \A e \in D : f[e] <= SumOf(f, D)
<1>1. PICK h : Folds(h, f, D)  BY SumExists
<1>2. SumOf(f, D) = h[D]  BY <1>1, SumIs
<1>3. \A x \in D : f[x] \in Nat  BY DEF Natural
<1>4. \A s \in SUBSET D : h[s] \in Nat  BY <1>1, <1>3, SumType
<1>5. Integral(f, D)  BY <1>3 DEF Integral
<1>6. Adds(h, f, D)  BY <1>1, <1>5, SumAdds
<1>7. ASSUME NEW e \in D PROVE f[e] <= h[D]
  <2>1. D \in SUBSET D /\ D \ {e} \in SUBSET D  OBVIOUS
  <2>2. h[D] = f[e] + h[D \ {e}]  BY <1>6, <2>1 DEF Adds
  <2>3. f[e] \in Nat /\ h[D \ {e}] \in Nat  BY <1>3, <1>4, <2>1
  <2> QED BY <2>2, <2>3
<1> QED BY <1>2, <1>4, <1>7

\* A sum changes by as much as one of its terms.
LEMMA SumChange ==
  ASSUME NEW D, IsFiniteSet(D), NEW f, NEW g, Integral(f, D), Integral(g, D),
         NEW e \in D, \A x \in D \ {e} : f[x] = g[x]
  PROVE  SumOf(g, D) = (SumOf(f, D) - f[e]) + g[e]
<1>1. PICK h : Folds(h, f, D)  BY SumExists
<1>2. PICK k : Folds(k, g, D)  BY SumExists
<1>3. SumOf(f, D) = h[D] /\ SumOf(g, D) = k[D]  BY <1>1, <1>2, SumIs
<1>4. Adds(h, f, D) /\ Adds(k, g, D)  BY <1>1, <1>2, SumAdds
<1>5. D \in SUBSET D /\ D \ {e} \in SUBSET D /\ IsFiniteSet(D \ {e})  BY FS_Subset
<1>6. h[D] = f[e] + h[D \ {e}] /\ k[D] = g[e] + k[D \ {e}]  BY <1>4, <1>5 DEF Adds
<1>7. h[D \ {e}] = k[D \ {e}]  BY <1>1, <1>2, <1>5, SumsAgree
<1>8. h[D \ {e}] \in Int
  <2>1. \A x \in D : f[x] \in Int  BY DEF Integral
  <2> QED BY <1>1, <1>5, <2>1, SumType
<1>9. f[e] \in Int /\ g[e] \in Int  BY DEF Integral
<1> DEFINE r == h[D \ {e}]
<1>10. r \in Int /\ h[D] = f[e] + r /\ k[D] = g[e] + r  BY <1>6, <1>7, <1>8
<1> HIDE DEF r
<1> QED BY <1>3, <1>9, <1>10

\* Terms that are 0 do not count.
LEMMA SumZeros ==
  ASSUME NEW E, IsFiniteSet(E), NEW g, NEW D \in SUBSET E, NEW f,
         \A x \in D : g[x] = f[x], Integral(f, D), \A x \in E \ D : g[x] = 0
  PROVE  SumOf(g, E) = SumOf(f, D)
<1>1. PICK k : Folds(k, g, E)  BY SumExists
<1>a. IsFiniteSet(D)  BY FS_Subset
<1>2. PICK h : Folds(h, f, D)  BY <1>a, SumExists
<1>3. SumOf(g, E) = k[E] /\ SumOf(f, D) = h[D]  BY <1>1, <1>2, <1>a, SumIs
<1>4. k[D] = h[D]  BY <1>1, <1>2, <1>a, SumsAgree
<1>5. Integral(g, E)  BY DEF Integral
<1>6. Adds(k, g, E)  BY <1>1, <1>5, SumAdds
<1>7. \A s \in SUBSET E : k[s] \in Int
  <2>1. \A x \in E : g[x] \in Int  BY <1>5 DEF Integral
  <2> QED BY <1>1, <2>1, SumType
<1> DEFINE W == {s \in SUBSET E : D \subseteq s /\ k[s] # k[D]}
<1>8. W = {}
  <2> SUFFICES ASSUME W # {} PROVE FALSE
    OBVIOUS
  <2>1. PICK s \in W : \A t \in SUBSET s : t # s => t \notin W
    <3>1. W \subseteq SUBSET E  OBVIOUS
    <3> HIDE DEF W
    <3> QED BY <3>1, SmallestSet
  <2>2. s \in SUBSET E /\ D \subseteq s /\ k[s] # k[D]  OBVIOUS
  <2>3. PICK x \in s : x \notin D  BY <2>2
  <2>4. s \ {x} \in SUBSET E /\ s \ {x} \in SUBSET s /\ s \ {x} # s /\ D \subseteq s \ {x}
    BY <2>2, <2>3
  <2>5. k[s \ {x}] = k[D]  BY <2>1, <2>4
  <2>6. k[s] = g[x] + k[s \ {x}]  BY <1>6, <2>2 DEF Adds
  <2>7. g[x] = 0  BY <2>2, <2>3
  <2>8. k[D] \in Int  BY <1>7
  <2> HIDE DEF W
  <2>9. k[s] = k[D]  BY <2>5, <2>6, <2>7, <2>8
  <2> QED BY <2>2, <2>9
<1>9. k[E] = k[D]  BY <1>8
<1> QED BY <1>3, <1>4, <1>9

\* Nothing adds up to 0.
LEMMA SumNone ==
  ASSUME NEW D, IsFiniteSet(D), NEW f, \A x \in D : f[x] = 0
  PROVE  SumOf(f, D) = 0
<1>1. PICK h : Folds(h, f, {})  BY FS_EmptySet, SumExists
<1>2. h[{}] = 0  BY <1>1, FoldAt
<1>3. SumOf(f, {}) = 0  BY <1>1, <1>2, FS_EmptySet, SumIs
<1>4. Integral(f, {})  BY DEF Integral
<1>5. {} \in SUBSET D /\ (\A x \in {} : f[x] = f[x]) /\ \A x \in D \ {} : f[x] = 0  OBVIOUS
<1>6. SumOf(f, D) = SumOf(f, {})  BY <1>4, <1>5, SumZeros
<1> QED BY <1>3, <1>6
=============================================================================
