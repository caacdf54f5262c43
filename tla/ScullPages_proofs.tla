-------------------------- MODULE ScullPages_proofs ---------------------------
(***************************************************************************)
(* Proofs about scullc, scullp, sculld and scullv as MCScullPages runs     *)
(* them, for any processes, offsets, lengths and parameters, where the     *)
(* count of mappings is changed by one instruction.                        *)
(***************************************************************************)
EXTENDS MCScullPages, SequenceTheorems, Sums

-----------------------------------------------------------------------------
(***************************************************************************)
(* The pages in a list.                                                    *)
(***************************************************************************)
Places(items) == UNION {{i} \X DOMAIN items[i] : i \in DOMAIN items}
Cells(items) == [p \in Places(items) |-> items[p[1]][p[2]]]
Total(items) == SumOf(Cells(items), Places(items))

\* Each item has an array of the device's length, or none.
Shaped(items, qset) ==
  /\ items \in Seq(Seq(Nat))
  /\ \A i \in DOMAIN items : items[i] = <<>> \/ Len(items[i]) = qset

\* The slots of a list.
LEMMA PlacesAre ==
  ASSUME NEW items, NEW qset \in Nat, Shaped(items, qset)
  PROVE  /\ \A p : p \in Places(items)
                   <=> \E i \in DOMAIN items : \E s \in DOMAIN items[i] : p = <<i, s>>
         /\ IsFiniteSet(Places(items))
         /\ Natural(Cells(items), Places(items))
         /\ Integral(Cells(items), Places(items))
<1>1. \A p : p \in Places(items)
              <=> \E i \in DOMAIN items : \E s \in DOMAIN items[i] : p = <<i, s>>
  BY DEF Places
<1>2. Len(items) \in Nat /\ DOMAIN items = 1 .. Len(items)
      /\ \A i \in DOMAIN items : items[i] \in Seq(Nat)
  BY DEF Shaped
<1>3. \A i \in DOMAIN items : DOMAIN items[i] \subseteq 1 .. qset
  <2> SUFFICES ASSUME NEW i \in DOMAIN items PROVE DOMAIN items[i] \subseteq 1 .. qset
    OBVIOUS
  <2> DEFINE a == items[i]
  <2>1. a \in Seq(Nat) /\ (a = <<>> \/ Len(a) = qset)  BY <1>2 DEF Shaped
  <2> HIDE DEF a
  <2>2. DOMAIN a \subseteq 1 .. qset  BY <2>1
  <2> QED BY <2>2 DEF a
<1>4. Places(items) \in SUBSET ((1 .. Len(items)) \X (1 .. qset))
  BY <1>1, <1>2, <1>3
<1>5. IsFiniteSet(Places(items))
  <2> DEFINE m == 1 .. Len(items)
             n == 1 .. qset
  <2>1. IsFiniteSet(m) /\ IsFiniteSet(n)  BY <1>2, FS_Interval
  <2> HIDE DEF m, n
  <2>2. IsFiniteSet(m \X n)  BY <2>1, FS_Product
  <2>3. Places(items) \in SUBSET (m \X n)  BY <1>4 DEF m, n
  <2> QED BY <2>2, <2>3, FS_Subset
<1>6. \A p \in Places(items) : Cells(items)[p] \in Nat
  <2> SUFFICES ASSUME NEW p \in Places(items) PROVE Cells(items)[p] \in Nat
    OBVIOUS
  <2>1. PICK i \in DOMAIN items : \E s \in DOMAIN items[i] : p = <<i, s>>  BY <1>1
  <2>2. PICK s \in DOMAIN items[i] : p = <<i, s>>  BY <2>1
  <2> DEFINE a == items[i]
  <2>3. a \in Seq(Nat) /\ s \in DOMAIN a  BY <1>2
  <2> HIDE DEF a
  <2>4. a[s] \in Nat  BY <2>3
  <2>5. Cells(items)[p] = items[i][s]  BY <2>2 DEF Cells
  <2> QED BY <2>4, <2>5 DEF a
<1> QED BY <1>1, <1>5, <1>6 DEF Natural, Integral

\* The number of pages is one.
LEMMA TotalNat ==
  ASSUME NEW items, NEW qset \in Nat, Shaped(items, qset)
  PROVE  Total(items) \in Nat
  BY PlacesAre, SumNat DEF Total

\* The empty list holds nothing.
LEMMA TotalNone == Total(<< <<>> >>) = 0
<1> DEFINE e == << <<>> >>
<1>1. DOMAIN e = {1} /\ e[1] = <<>> /\ DOMAIN e[1] = {}  OBVIOUS
<1> HIDE DEF e
<1>2. Places(e) = {}  BY <1>1 DEF Places
<1>3. Total(e) = 0  BY <1>2, FS_EmptySet, SumNone DEF Total
<1> QED BY <1>3 DEF e

\* An array of zeros adds nothing, where there was none.
LEMMA TotalArray ==
  ASSUME NEW items, NEW qset \in Nat, Shaped(items, qset),
         NEW more, Shaped(more, qset), NEW i \in DOMAIN more,
         DOMAIN items \subseteq DOMAIN more,
         \A k \in DOMAIN more : k \in DOMAIN items /\ k # i => more[k] = items[k],
         \A k \in DOMAIN more : k \notin DOMAIN items /\ k # i => more[k] = <<>>,
         \/ i \in DOMAIN items /\ more[i] = items[i]
         \/ /\ i \in DOMAIN items => items[i] = <<>>
            /\ \A s \in DOMAIN more[i] : more[i][s] = 0
  PROVE  Total(more) = Total(items)
<1> DEFINE E == Places(more)
           G == Places(items)
           g == Cells(more)
           f == Cells(items)
<1>1. IsFiniteSet(E) /\ Integral(f, G)  BY PlacesAre
<1>2. DOMAIN <<>> = {}  OBVIOUS
<1>3. ASSUME NEW p \in G PROVE p \in E /\ g[p] = f[p]
  <2>1. PICK k \in DOMAIN items : \E s \in DOMAIN items[k] : p = <<k, s>>  BY PlacesAre
  <2>2. PICK s \in DOMAIN items[k] : p = <<k, s>>  BY <2>1
  <2>3. k \in DOMAIN more /\ items[k] # <<>>  BY <1>2, <2>2
  <2>4. more[k] = items[k]  BY <2>3
  <2>5. p \in E  BY <2>2, <2>3, <2>4, PlacesAre
  <2> QED BY <2>2, <2>4, <2>5 DEF Cells
<1>4. ASSUME NEW p \in E \ G PROVE g[p] = 0
  <2>1. PICK k \in DOMAIN more : \E s \in DOMAIN more[k] : p = <<k, s>>  BY PlacesAre
  <2>2. PICK s \in DOMAIN more[k] : p = <<k, s>>  BY <2>1
  <2>3. ~(k \in DOMAIN items /\ more[k] = items[k])
    <3> SUFFICES ASSUME k \in DOMAIN items, more[k] = items[k] PROVE FALSE
      OBVIOUS
    <3>1. p \in G  BY <2>2, PlacesAre
    <3> QED BY <3>1
  <2>4. more[k] # <<>>  BY <1>2, <2>2
  <2>5. k = i /\ more[i][s] = 0  BY <2>2, <2>3, <2>4
  <2> QED BY <2>2, <2>5 DEF Cells
<1>5. G \in SUBSET E  BY <1>3
<1> HIDE DEF E, G, f, g
<1>6. SumOf(g, E) = SumOf(f, G)  BY <1>1, <1>3, <1>4, <1>5, SumZeros
<1> QED BY <1>6 DEF Total, E, G, f, g

\* A list with a quantum of b pages in a slot.
Placed(items, i, s, b) == [items EXCEPT ![i] = [items[i] EXCEPT ![s] = b]]

\* A quantum in an empty slot adds its pages.
LEMMA TotalBlock ==
  ASSUME NEW items, NEW qset \in Nat, Shaped(items, qset),
         NEW i \in DOMAIN items, NEW s \in DOMAIN items[i], items[i][s] = 0, NEW b \in Nat
  PROVE  /\ Shaped(Placed(items, i, s, b), qset)
         /\ Total(Placed(items, i, s, b)) = Total(items) + b
<1> DEFINE a == items[i]
           d == [a EXCEPT ![s] = b]
           more == [items EXCEPT ![i] = d]
<1>1. a \in Seq(Nat) /\ s \in DOMAIN a /\ a # <<>> /\ Len(a) = qset
  BY DEF Shaped
<1> HIDE DEF a
<1>2. /\ d \in Seq(Nat) /\ DOMAIN d = DOMAIN a /\ Len(d) = qset /\ d[s] = b
      /\ \A k \in DOMAIN a : k # s => d[k] = a[k]
  BY <1>1
<1> HIDE DEF d
<1>3. /\ more \in Seq(Seq(Nat)) /\ DOMAIN more = DOMAIN items /\ more[i] = d
      /\ \A k \in DOMAIN items : k # i => more[k] = items[k]
  BY <1>2 DEF Shaped
<1> HIDE DEF more
<1>4. Shaped(more, qset)  BY <1>2, <1>3 DEF Shaped
<1>5. ASSUME NEW k \in DOMAIN items PROVE DOMAIN more[k] = DOMAIN items[k]
  BY <1>2, <1>3 DEF a
<1> DEFINE E == Places(items)
           g == Cells(more)
           f == Cells(items)
           e == <<i, s>>
<1>6. Places(more) = E
  <2>1. \A p : p \in Places(more) <=> p \in E
    <3>1. \A p : p \in Places(more) <=> \E k \in DOMAIN more : \E l \in DOMAIN more[k] : p = <<k, l>>
      BY <1>4, PlacesAre
    <3>2. \A p : p \in E <=> \E k \in DOMAIN items : \E l \in DOMAIN items[k] : p = <<k, l>>
      BY PlacesAre
    <3> HIDE DEF E
    <3> QED BY <1>3, <1>5, <3>1, <3>2
  <2> QED BY <2>1
<1>7. e \in E /\ f[e] = 0  BY PlacesAre DEF Cells
<1>8. g[e] = b  BY <1>2, <1>3, <1>6, <1>7 DEF Cells
<1>9. ASSUME NEW p \in E \ {e} PROVE f[p] = g[p]
  <2>1. PICK k \in DOMAIN items : \E l \in DOMAIN items[k] : p = <<k, l>>  BY PlacesAre
  <2>2. PICK l \in DOMAIN items[k] : p = <<k, l>>  BY <2>1
  <2>3. more[k][l] = items[k][l]
    <3>1. CASE k # i  BY <1>3, <3>1
    <3>2. CASE k = i
      <4>1. l # s  BY <2>2, <3>2
      <4>2. l \in DOMAIN a  BY <2>2, <3>2 DEF a
      <4> QED BY <1>2, <1>3, <3>2, <4>1, <4>2 DEF a
    <3> QED BY <3>1, <3>2
  <2> QED BY <1>6, <2>2, <2>3 DEF Cells
<1>10. IsFiniteSet(E) /\ Integral(f, E) /\ Integral(g, E)  BY <1>4, <1>6, PlacesAre
<1>11. SumOf(f, E) \in Nat  BY PlacesAre, SumNat
<1> HIDE DEF E, g, f, e
<1>12. SumOf(g, E) = (SumOf(f, E) - f[e]) + g[e]  BY <1>7, <1>9, <1>10, SumChange
<1>13. SumOf(g, E) = SumOf(f, E) + b  BY <1>7, <1>8, <1>11, <1>12
<1>14. Total(more) = Total(items) + b  BY <1>6, <1>13 DEF Total, E, f, g
<1> QED BY <1>4, <1>14 DEF Placed, more, d, a

-----------------------------------------------------------------------------
(***************************************************************************)
(* What the operators of the four drivers, which are the same code, come   *)
(* to.                                                                     *)
(***************************************************************************)
\* The recursion of Pages, for the function it chooses.
PagesFold(h, items) ==
  h = [s \in SUBSET Places(items) |->
         IF s = {} THEN 0 ELSE items[Pick(s)[1]][Pick(s)[2]] + h[s \ {Pick(s)}]]

\* What Pages chooses gives the number of pages.
LEMMA PagesFolded ==
  ASSUME NEW items, NEW qset \in Nat, Shaped(items, qset)
  PROVE  (CHOOSE h : PagesFold(h, items))[Places(items)] = Total(items)
<1> DEFINE E == Places(items)
           f == Cells(items)
<1>1. ASSUME NEW s \in SUBSET E, s # {} PROVE f[Pick(s)] = items[Pick(s)[1]][Pick(s)[2]]
  <2>1. Pick(s) \in E  BY <1>1 DEF Pick
  <2> QED BY <2>1 DEF Cells
<1>2. ASSUME NEW h PROVE PagesFold(h, items) <=> Folds(h, f, E)
  <2> DEFINE a == [s \in SUBSET E |->
                     IF s = {} THEN 0 ELSE items[Pick(s)[1]][Pick(s)[2]] + h[s \ {Pick(s)}]]
             b == [s \in SUBSET E |-> IF s = {} THEN 0 ELSE f[Pick(s)] + h[s \ {Pick(s)}]]
  <2>1. a = b
    <3> HIDE DEF E, f
    <3> QED BY <1>1
  <2> HIDE DEF a, b
  <2>2. PagesFold(h, items) <=> h = a  BY DEF PagesFold, a
  <2>3. Folds(h, f, E) <=> h = b  BY DEF Folds, b
  <2> QED BY <2>1, <2>2, <2>3
<1>3. IsFiniteSet(E)  BY PlacesAre
<1> HIDE DEF E, f
<1>4. \E h : PagesFold(h, items)  BY <1>2, <1>3, SumExists
<1> DEFINE k == CHOOSE h : PagesFold(h, items)
<1>5. PagesFold(k, items)  BY <1>4
<1> HIDE DEF k
<1>6. Folds(k, f, E)  BY <1>2, <1>5
<1>7. SumOf(f, E) = k[E]  BY <1>3, <1>6, SumIs
<1> QED BY <1>7 DEF Total, k, E, f

\* Every driver counts the pages of a list like that.
LEMMA PagesAre ==
  ASSUME NEW items, NEW qset \in Nat, Shaped(items, qset)
  PROVE  /\ C!Pages(items) = Total(items) /\ P!Pages(items) = Total(items)
         /\ D!Pages(items) = Total(items) /\ V!Pages(items) = Total(items)
<1> DEFINE k == CHOOSE h : PagesFold(h, items)
<1>1. k[Places(items)] = Total(items)  BY PagesFolded
<1>2. k[Places(items)] = C!Pages(items)
  BY DEF PagesFold, Places, Pick, C!Pages, C!MapThenSumSet, C!MapThenFoldSet
<1>3. k[Places(items)] = P!Pages(items)
  BY DEF PagesFold, Places, Pick, P!Pages, P!MapThenSumSet, P!MapThenFoldSet
<1>4. k[Places(items)] = D!Pages(items)
  BY DEF PagesFold, Places, Pick, D!Pages, D!MapThenSumSet, D!MapThenFoldSet
<1>5. k[Places(items)] = V!Pages(items)
  BY DEF PagesFold, Places, Pick, V!Pages, V!MapThenSumSet, V!MapThenFoldSet
<1> QED BY <1>1, <1>2, <1>3, <1>4, <1>5

Lesser(a, b) == IF a <= b THEN a ELSE b

\* The least of two numbers and the greatest, and the least value of a parameter.
LEMMA LeastAndGreatest ==
  /\ \A a, b \in Int : /\ C!Min({a, b}) = Lesser(a, b) /\ P!Min({a, b}) = Lesser(a, b)
                       /\ D!Min({a, b}) = Lesser(a, b) /\ V!Min({a, b}) = Lesser(a, b)
  /\ \A a, b \in Int : /\ C!Max({a, b}) = IF a <= b THEN b ELSE a
                       /\ P!Max({a, b}) = IF a <= b THEN b ELSE a
                       /\ D!Max({a, b}) = IF a <= b THEN b ELSE a
                       /\ V!Max({a, b}) = IF a <= b THEN b ELSE a
  /\ \A set \in SUBSET Nat : set # {} => /\ C!Min(set) \in set /\ P!Min(set) \in set
                                         /\ D!Min(set) \in set /\ V!Min(set) \in set
<1>1. ASSUME NEW a \in Int, NEW b \in Int
      PROVE  /\ C!Min({a, b}) = Lesser(a, b) /\ P!Min({a, b}) = Lesser(a, b)
             /\ D!Min({a, b}) = Lesser(a, b) /\ V!Min({a, b}) = Lesser(a, b)
  <2> DEFINE m == CHOOSE x \in {a, b} : \A y \in {a, b} : x <= y
  <2>1. Lesser(a, b) \in {a, b} /\ \A y \in {a, b} : Lesser(a, b) <= y  BY DEF Lesser
  <2>2. m \in {a, b} /\ \A y \in {a, b} : m <= y  BY <2>1
  <2>3. C!Min({a, b}) = m /\ P!Min({a, b}) = m /\ D!Min({a, b}) = m /\ V!Min({a, b}) = m
    BY DEF C!Min, P!Min, D!Min, V!Min
  <2> HIDE DEF m
  <2>4. m = Lesser(a, b)  BY <2>2 DEF Lesser
  <2> QED BY <2>3, <2>4
<1>2. ASSUME NEW a \in Int, NEW b \in Int
      PROVE  /\ C!Max({a, b}) = IF a <= b THEN b ELSE a
             /\ P!Max({a, b}) = IF a <= b THEN b ELSE a
             /\ D!Max({a, b}) = IF a <= b THEN b ELSE a
             /\ V!Max({a, b}) = IF a <= b THEN b ELSE a
  <2> DEFINE m == CHOOSE x \in {a, b} : \A y \in {a, b} : x >= y
             n == IF a <= b THEN b ELSE a
  <2>1. n \in {a, b} /\ \A y \in {a, b} : n >= y  OBVIOUS
  <2>2. m \in {a, b} /\ \A y \in {a, b} : m >= y  BY <2>1
  <2>3. C!Max({a, b}) = m /\ P!Max({a, b}) = m /\ D!Max({a, b}) = m /\ V!Max({a, b}) = m
    BY DEF C!Max, P!Max, D!Max, V!Max
  <2> HIDE DEF m
  <2>4. m = n  BY <2>2
  <2> QED BY <2>3, <2>4
<1>3. ASSUME NEW set \in SUBSET Nat, set # {}
      PROVE  /\ C!Min(set) \in set /\ P!Min(set) \in set
             /\ D!Min(set) \in set /\ V!Min(set) \in set
  <2> DEFINE m == CHOOSE x \in set : \A y \in set : x <= y
  <2>1. m \in set  BY <1>3, LeastNumber
  <2>2. C!Min(set) = m /\ P!Min(set) = m /\ D!Min(set) = m /\ V!Min(set) = m
    BY DEF C!Min, P!Min, D!Min, V!Min
  <2> HIDE DEF m
  <2> QED BY <2>1, <2>2
<1> QED BY <1>1, <1>2, <1>3

\* follow: the list with at least n items.
Grown(n) ==
  [i \in 1 .. (IF n <= Len(list) THEN Len(list) ELSE n) |->
     IF i <= Len(list) THEN list[i] ELSE <<>>]

\* The drivers' walks.
LEMMA FollowIs ==
  ASSUME list \in Seq(Seq(Nat)), NEW n \in Nat
  PROVE  /\ C!Follow(n) = Grown(n) /\ P!Follow(n) = Grown(n)
         /\ D!Follow(n) = Grown(n) /\ V!Follow(n) = Grown(n)
<1> DEFINE l == Len(list)
           walked == IF n <= l THEN list ELSE list \o [i \in 1..(n - l) |-> <<>>]
<1>1. l \in Nat /\ list = [i \in 1..l |-> list[i]]  OBVIOUS
<1>2. walked = Grown(n)
  <2>1. CASE n <= l  BY <2>1, <1>1 DEF Grown
  <2>2. CASE ~(n <= l)
    <3> DEFINE more == [i \in 1..(n - l) |-> <<>>]
    <3>1. n - l \in Nat /\ l + (n - l) = n  BY <1>1, <2>2
    <3>2. more \in Seq({<<>>}) /\ Len(more) = n - l  BY <3>1
    <3>3. list \o more = [i \in 1..(l + (n - l)) |->
                            IF i <= l THEN list[i] ELSE more[i - l]]
      BY <3>1, <3>2, <1>1
    <3>4. \A i \in 1..n : ~(i <= l) => more[i - l] = <<>>  BY <3>1, <1>1
    <3>5. list \o more = [i \in 1..n |-> IF i <= l THEN list[i] ELSE <<>>]
      <4> HIDE DEF more, l
      <4> QED BY <3>1, <3>3, <3>4
    <3> QED BY <3>5, <2>2 DEF Grown
  <2> QED BY <2>1, <2>2
<1> QED BY <1>2 DEF C!Follow, P!Follow, D!Follow, V!Follow

\* A walk only adds items without an array.
LEMMA GrownIs ==
  ASSUME list \in Seq(Seq(Nat)), NEW n \in Nat
  PROVE  /\ Grown(n) \in Seq(Seq(Nat))
         /\ DOMAIN list \subseteq DOMAIN Grown(n)
         /\ n > 0 => n \in DOMAIN Grown(n)
         /\ \A i \in DOMAIN Grown(n) :
              /\ i \in DOMAIN list => Grown(n)[i] = list[i]
              /\ i \notin DOMAIN list => Grown(n)[i] = <<>>
<1> DEFINE g == Grown(n)
           m == IF n <= Len(list) THEN Len(list) ELSE n
<1>1. Len(list) \in Nat /\ DOMAIN list = 1 .. Len(list) /\ list \in Seq(Seq(Nat))
  OBVIOUS
<1>2. m \in Nat /\ Len(list) <= m /\ n <= m  BY <1>1
<1>3. DOMAIN g = 1 .. m /\ \A i \in 1 .. m : g[i] = IF i <= Len(list) THEN list[i] ELSE <<>>
  BY DEF Grown
<1>4. \A i \in 1 .. m : /\ i \in DOMAIN list => g[i] = list[i]
                        /\ i \notin DOMAIN list => g[i] = <<>>
  BY <1>1, <1>2, <1>3
<1>5. \A i \in 1 .. m : g[i] \in Seq(Nat)
  <2>1. \A i \in DOMAIN list : list[i] \in Seq(Nat)  BY <1>1
  <2>2. <<>> \in Seq(Nat)  OBVIOUS
  <2> QED BY <1>4, <2>1, <2>2
<1>6. g \in Seq(Seq(Nat))
  <2>1. g \in [1 .. m -> Seq(Nat)]
    <3>1. g = [i \in 1 .. m |-> g[i]]  BY <1>3 DEF Grown
    <3> HIDE DEF g, m
    <3> QED BY <1>5, <3>1
  <2> HIDE DEF g, m
  <2> QED BY <1>2, <2>1
<1>7. /\ DOMAIN list \subseteq DOMAIN g
      /\ n > 0 => n \in DOMAIN g
  BY <1>1, <1>2, <1>3
<1> HIDE DEF g, m
<1> QED BY <1>3, <1>4, <1>6, <1>7 DEF g

\* It changes neither the shape nor the pages of a list.
LEMMA GrownShaped ==
  ASSUME NEW qset \in Nat, Shaped(list, qset), NEW n \in Nat
  PROVE  Shaped(Grown(n), qset) /\ Total(Grown(n)) = Total(list)
<1> DEFINE g == Grown(n)
<1>1. list \in Seq(Seq(Nat))  BY DEF Shaped
<1>2. /\ g \in Seq(Seq(Nat)) /\ DOMAIN list \subseteq DOMAIN g
      /\ \A i \in DOMAIN g : /\ i \in DOMAIN list => g[i] = list[i]
                             /\ i \notin DOMAIN list => g[i] = <<>>
  BY <1>1, GrownIs
<1> HIDE DEF g
<1>3. Shaped(g, qset)  BY <1>2 DEF Shaped
<1>4. Total(g) = Total(list)
  <2>1. CASE DOMAIN g = {}
    <3>1. DOMAIN list = {}  BY <1>2, <2>1
    <3>2. Places(g) = {} /\ Places(list) = {}  BY <2>1, <3>1 DEF Places
    <3>3. Cells(g) = Cells(list)  BY <3>2 DEF Cells
    <3> QED BY <3>2, <3>3 DEF Total
  <2>2. CASE DOMAIN g # {}
    <3>1. PICK i \in DOMAIN g : TRUE  BY <2>2
    <3>2. \A k \in DOMAIN g : /\ k \in DOMAIN list /\ k # i => g[k] = list[k]
                              /\ k \notin DOMAIN list /\ k # i => g[k] = <<>>
      BY <1>2
    <3>3. \/ i \in DOMAIN list /\ g[i] = list[i]
          \/ /\ i \in DOMAIN list => list[i] = <<>>
             /\ \A s \in DOMAIN g[i] : g[i][s] = 0
      <4>1. DOMAIN <<>> = {}  OBVIOUS
      <4> QED BY <1>2, <4>1
    <3> QED BY <1>2, <1>3, <3>1, <3>2, <3>3, TotalArray
  <2> QED BY <2>1, <2>2
<1> QED BY <1>3, <1>4 DEF g

\* A power of two is a number, and not 0.
LEMMA TwoPower ==
  ASSUME NEW n \in Nat
  PROVE  2 ^ n \in Nat \ {0} /\ (n = 0 => 2 ^ n = 1)
<1>1. IsFiniteSet(1 .. n) /\ Cardinality(1 .. n) = n  BY FS_Interval
<1> DEFINE s == SUBSET (1 .. n)
<1>2. IsFiniteSet(s) /\ Cardinality(s) = 2 ^ n  BY <1>1, FS_SUBSET
<1>3. s # {}  OBVIOUS
<1> HIDE DEF s
<1>4. Cardinality(s) \in Nat /\ Cardinality(s) # 0  BY <1>2, <1>3, FS_CardinalityType, FS_EmptySet
<1>5. 2 ^ 0 = 1  OBVIOUS
<1> QED BY <1>2, <1>4, <1>5

\* Where a device keeps an offset: in a slot that its arrays have, and inside a quantum.
LEMMA PlaceIs ==
  ASSUME NEW pos \in Nat, NEW quantum \in Nat, NEW qset \in Nat, quantum * qset # 0
  PROVE  /\ C!Place(pos, quantum, qset) = P!Place(pos, quantum, qset)
         /\ D!Place(pos, quantum, qset) = P!Place(pos, quantum, qset)
         /\ V!Place(pos, quantum, qset) = P!Place(pos, quantum, qset)
         /\ P!Place(pos, quantum, qset).item \in Nat \ {0}
         /\ P!Place(pos, quantum, qset).slot \in 1 .. qset
         /\ P!Place(pos, quantum, qset).from \in 0 .. (quantum - 1)
<1> DEFINE m == quantum * qset
           x == pos % m
           y == x \div quantum
<1>1. quantum \in Nat \ {0} /\ qset \in Nat \ {0} /\ m \in Nat \ {0}  OBVIOUS
<1>2. /\ C!Place(pos, quantum, qset) = P!Place(pos, quantum, qset)
      /\ D!Place(pos, quantum, qset) = P!Place(pos, quantum, qset)
      /\ V!Place(pos, quantum, qset) = P!Place(pos, quantum, qset)
  BY DEF C!Place, P!Place, D!Place, V!Place
<1>3. /\ P!Place(pos, quantum, qset).item = pos \div m + 1
      /\ P!Place(pos, quantum, qset).slot = y + 1
      /\ P!Place(pos, quantum, qset).from = x % quantum
  BY DEF P!Place
<1>4. pos \div m \in Nat /\ x \in Nat /\ x < m
  <2> HIDE DEF m
  <2> QED BY <1>1
<1> HIDE DEF x
<1>5. x % quantum \in 0 .. (quantum - 1) /\ y \in Nat /\ x = quantum * y + (x % quantum)
  BY <1>1, <1>4
<1>6. y < qset
  <2> SUFFICES ASSUME ~(y < qset) PROVE FALSE
    OBVIOUS
  <2> HIDE DEF y
  <2>1. \E z \in Nat : y = qset + z
    <3>1. y - qset \in Nat /\ y = qset + (y - qset)  BY <1>5
    <3> QED BY <3>1
  <2>2. PICK z \in Nat : y = qset + z  BY <2>1
  <2>3. quantum * y = quantum * qset + quantum * z
    <3>1. \A a, b, c \in Int : a * (b + c) = a * b + a * c  OBVIOUS
    <3> QED BY <1>1, <2>2, <3>1
  <2>4. quantum * z \in Nat  BY <1>1
  <2>5. quantum * y \in Nat  BY <1>1, <1>5
  <2> DEFINE f == x % quantum
             u == quantum * y
             v == quantum * z
  <2>6. f \in Nat /\ x = u + f /\ u = m + v /\ v \in Nat /\ x < m /\ m \in Nat
    BY <1>1, <1>4, <1>5, <2>3, <2>4
  <2> HIDE DEF f, u, v, m
  <2> QED BY <2>6
<1> HIDE DEF y, m
<1> QED BY <1>2, <1>3, <1>4, <1>5, <1>6

-----------------------------------------------------------------------------
(***************************************************************************)
(* The invariant.                                                          *)
(***************************************************************************)
NoCall == [op |-> "none"]
Calls == {NoCall} \cup [op : {"io"}, quantum : Nat, qset : Nat]
Params == [size : IF driver = "scullc" THEN Nat \ {0} ELSE Nat, qset : Nat]

\* The pages of a block that is allocated for the i-th item.
Block(i) == IF driver = "scullc" THEN cache ELSE IF i = 1 THEN 2 ^ dev.order ELSE 1

PagesTypes ==
  /\ driver \in {"scullc", "scullp", "sculld", "scullv"}
  /\ phase \in {"unloaded", "coming", "live"}
  /\ param \in Params /\ cache \in Nat /\ files \subseteq Threads
  /\ dev \in [order : Nat, qset : Nat, size : Nat, vmas : Nat]
  /\ list \in Seq(Seq(Nat))
  /\ vma \in [Threads -> Nat] /\ call \in [Threads -> Calls] /\ stale \in BOOLEAN

\* The blocks in the list are of the length that is allocated today.
PagesBlocks ==
  \A i \in DOMAIN list : \A s \in DOMAIN list[i] : list[i][s] # 0 => list[i][s] = Block(i)

\* The arrays have the device's length, the blocks are those of today, and the pages in
\* use are in them.
PagesListed == Shaped(list, dev.qset) /\ PagesBlocks /\ used = Total(list)

\* The count of mappings is that of the processes; scullc has none, and scullp and
\* sculld have some only at order 0.
PagesMapped ==
  /\ dev.vmas = SumOf(vma, Threads)
  /\ driver = "scullc" => \A t \in Threads : vma[t] = 0
  /\ driver \in {"scullp", "sculld"} /\ dev.vmas # 0 => dev.order = 0

\* A module that is not loaded is not used.
PagesLoaded ==
  /\ driver = "scullc" => dev.order # 0
  /\ phase # "live" => cache = 0
  /\ phase = "unloaded" =>
       /\ list = << <<>> >> /\ files = {}
       /\ \A t \in Threads : vma[t] = 0 /\ call[t] = NoCall
       /\ reg \subseteq IF driver = "sculld" THEN {"driver"} ELSE {}

PagesInv ==
  /\ PagesTypes /\ PagesMapped /\ PagesLoaded
  /\ ~stale => PagesListed
  /\ AccessesInBlock

-----------------------------------------------------------------------------
(***************************************************************************)
(* What a step of any of the drivers does.                                 *)
(***************************************************************************)
Quantum == IF driver = "scullc" THEN dev.order ELSE 2 ^ dev.order
Clear(i) == IF driver = "scullc" THEN param.size ELSE Block(i)
Regular == IF driver = "scullc" THEN C!Regular ELSE P!Regular

\* The list as it is or as it was walked, by a call of whatever sizes.
Walked ==
  /\ list' = list \/ (phase # "unloaded" /\ \E n \in Nat : list' = Grown(n))
  /\ stale' \in BOOLEAN /\ (stale => stale')

Halts ==
  /\ \/ fault' = "oops"
     \/ fault' = "wild" /\ (stale' \/ ~Regular')
  /\ Walked
  /\ UNCHANGED <<phase, reg, param, cache, dev, used, files, call, vma>>

\* Nothing of the device changes: calls begin and end, and parameters are set.
CallStep ==
  /\ UNCHANGED <<phase, reg, cache, dev, list, used, vma, fault, stale>>
  /\ param' \in Params /\ files' \subseteq files /\ call' \in [Threads -> Calls]
  /\ phase = "unloaded" => UNCHANGED <<files, call>>

Trimmed ==
  /\ dev.vmas = 0 /\ list' = << <<>> >> /\ (~stale => used' = 0)
  /\ dev' = [dev EXCEPT !.size = 0, !.order = param.size, !.qset = param.qset]

OpenStep ==
  /\ phase # "unloaded" /\ files' \subseteq Threads
  /\ Trimmed \/ UNCHANGED <<dev, list, used>>
  /\ UNCHANGED <<phase, reg, param, cache, call, vma, fault, stale>>

ReadStep ==
  /\ phase # "unloaded" /\ call' \in [Threads -> Calls] /\ Walked
  /\ UNCHANGED <<phase, reg, param, cache, dev, used, files, vma, fault>>

\* The list with an array of the length q for its i-th item.
Armed(i, q) ==
  [Grown(i) EXCEPT ![i] = IF Grown(i)[i] # <<>> THEN Grown(i)[i] ELSE [s \in 1 .. q |-> 0]]

\* A call that goes on with old sizes makes arrays of an old length.
WriteStep ==
  /\ phase # "unloaded" /\ call' \in [Threads -> Calls]
  /\ stale' \in BOOLEAN /\ (stale => stale')
  /\ \E i \in Nat \ {0}, q \in Nat :
       /\ stale' \/ q = dev.qset
       /\ \/ list' = Armed(i, q) /\ UNCHANGED <<dev, used>>
          \/ \E s \in DOMAIN Armed(i, q)[i], b \in Nat \ {0} :
               /\ Armed(i, q)[i][s] \in {0, b}
               /\ \/ stale'
                  \/ Armed(i, q)[i][s] = 0 /\ used' = used + b /\ b = Block(i)
                  \/ Armed(i, q)[i][s] = b /\ used' = used
               /\ list' = Placed(Armed(i, q), i, s, b)
               /\ dev' = dev \/ \E z \in Nat : dev' = [dev EXCEPT !.size = z]
  /\ UNCHANGED <<phase, reg, param, cache, files, vma, fault>>

MapStep ==
  /\ phase # "unloaded" /\ driver # "scullc"
  /\ driver \in {"scullp", "sculld"} => dev.order = 0
  /\ \E t \in Threads : \E d \in {1, -1} :
       /\ vma[t] + d \in Nat
       /\ vma' = [vma EXCEPT ![t] = vma[t] + d]
       /\ dev' = [dev EXCEPT !.vmas = dev.vmas + d]
  /\ UNCHANGED <<phase, reg, param, cache, list, used, files, call, fault, stale>>

LoadStep ==
  /\ phase = "unloaded"
  /\ UNCHANGED <<param, cache, list, used, files, call, vma, fault, stale>>
  /\ \/ /\ phase' \in {"coming", "live"}
        /\ dev' = [order |-> param.size, qset |-> param.qset, size |-> 0, vmas |-> 0]
     \/ /\ reg' \subseteq IF driver = "sculld" THEN {"driver"} ELSE {}
        /\ UNCHANGED <<phase, dev>>

CacheStep ==
  /\ driver = "scullc" /\ phase = "coming" /\ phase' = "live" /\ cache' = param.size
  /\ UNCHANGED <<param, dev, list, used, files, call, vma, fault, stale>>

UnloadStep ==
  /\ phase # "unloaded" /\ files = {}
  /\ \A t \in Threads : vma[t] = 0 /\ call[t] = NoCall
  /\ Trimmed /\ phase' = "unloaded" /\ reg' = {} /\ cache' = 0 /\ param' \in Params
  /\ UNCHANGED <<files, call, vma, fault, stale>>

Step ==
  /\ fault = "none" /\ UNCHANGED driver
  /\ \/ Halts \/ CallStep \/ OpenStep \/ ReadStep \/ WriteStep \/ MapStep
     \/ LoadStep \/ CacheStep \/ UnloadStep

\* While a mapping stays, no quantum is freed and no size changes.
Keeps ==
  Mapped /\ Mapped' =>
    /\ dev'.order = dev.order /\ dev'.qset = dev.qset
    /\ \A i \in DOMAIN list : \A s \in DOMAIN list[i] :
         list[i][s] # 0 => list'[i][s] = list[i][s]

-----------------------------------------------------------------------------
\* What the invariant says of the mappings.
LEMMA MappedIs ==
  PagesInv => /\ Mapped => dev.vmas # 0
              /\ (\A t \in Threads : vma[t] = 0) => dev.vmas = 0
              /\ \A t \in Threads : vma[t] > 0 => dev.vmas # 0
<1> SUFFICES ASSUME PagesInv
             PROVE  /\ Mapped => dev.vmas # 0
                    /\ (\A t \in Threads : vma[t] = 0) => dev.vmas = 0
                    /\ \A t \in Threads : vma[t] > 0 => dev.vmas # 0
  OBVIOUS
<1>1. vma \in [Threads -> Nat] /\ dev.vmas = SumOf(vma, Threads) /\ IsFiniteSet(Threads)
  BY PagesAssumption DEF PagesInv, PagesTypes, PagesMapped
<1>2. Natural(vma, Threads)  BY <1>1 DEF Natural
<1>3. dev.vmas \in Nat /\ \A t \in Threads : vma[t] <= dev.vmas  BY <1>1, <1>2, SumNat
<1>4. (\A t \in Threads : vma[t] = 0) => dev.vmas = 0  BY <1>1, SumNone
<1>5. \A t \in Threads : vma[t] > 0 => dev.vmas # 0  BY <1>1, <1>3
<1> QED BY <1>4, <1>5 DEF Mapped

\* The empty list has the shape of every device, and its blocks the length of every one.
LEMMA EmptyShaped ==
  /\ \A qset : Shaped(<< <<>> >>, qset)
  /\ list = << <<>> >> => PagesBlocks
  /\ list' = << <<>> >> => PagesBlocks'
<1>1. \A qset : Shaped(<< <<>> >>, qset)  BY DEF Shaped
<1>2. ASSUME list = << <<>> >> PROVE PagesBlocks
  <2>1. \A i \in DOMAIN list : DOMAIN list[i] = {}  BY <1>2
  <2> QED BY <2>1 DEF PagesBlocks
<1>3. ASSUME list' = << <<>> >> PROVE PagesBlocks'
  <2>1. \A i \in DOMAIN list' : DOMAIN (list'[i]) = {}  BY <1>3
  <2> QED BY <2>1 DEF PagesBlocks
<1> QED BY <1>1, <1>2, <1>3

\* What a walk leaves.
LEMMA WalkedKeeps ==
  ASSUME PagesInv, Walked, UNCHANGED <<driver, cache, dev, used>>
  PROVE  /\ list' \in Seq(Seq(Nat)) /\ (~stale' => PagesListed') /\ Keeps
         /\ phase = "unloaded" => list' = list
<1>1. dev.qset \in Nat /\ list \in Seq(Seq(Nat))  BY DEF PagesInv, PagesTypes
<1>2. /\ list' \in Seq(Seq(Nat))
      /\ DOMAIN list \subseteq DOMAIN list'
      /\ \A i \in DOMAIN list' : /\ i \in DOMAIN list => list'[i] = list[i]
                                 /\ i \notin DOMAIN list => list'[i] = <<>>
  <2>1. CASE list' = list  BY <1>1, <2>1
  <2>2. ASSUME NEW n \in Nat, list' = Grown(n)
        PROVE  /\ list' \in Seq(Seq(Nat))
               /\ DOMAIN list \subseteq DOMAIN list'
               /\ \A i \in DOMAIN list' : /\ i \in DOMAIN list => list'[i] = list[i]
                                          /\ i \notin DOMAIN list => list'[i] = <<>>
    BY <1>1, <2>2, GrownIs
  <2> QED BY <2>1, <2>2 DEF Walked
<1>3. Keeps  BY <1>2 DEF Keeps
<1>4. ASSUME ~stale' PROVE PagesListed'
  <2>1. PagesListed  BY <1>4 DEF PagesInv, Walked
  <2>2. Shaped(list, dev.qset)  BY <2>1 DEF PagesListed
  <2>3. Shaped(list', dev.qset) /\ Total(list') = Total(list)
    <3>1. CASE list' = list  BY <2>2, <3>1
    <3>2. ASSUME NEW n \in Nat, list' = Grown(n)
          PROVE  Shaped(list', dev.qset) /\ Total(list') = Total(list)
      BY <1>1, <2>2, <3>2, GrownShaped
    <3> QED BY <3>1, <3>2 DEF Walked
  <2>4. PagesBlocks'
    <3>1. \A i \in DOMAIN list' : \A s \in DOMAIN list'[i] :
            i \in DOMAIN list /\ s \in DOMAIN list[i] /\ list'[i][s] = list[i][s]
      <4>1. DOMAIN <<>> = {}  OBVIOUS
      <4> QED BY <1>2, <4>1
    <3>2. \A i : Block(i)' = Block(i)  BY DEF Block
    <3> QED BY <2>1, <3>1, <3>2 DEF PagesListed, PagesBlocks
  <2>5. used' = Total(list')  BY <2>1, <2>3 DEF PagesListed
  <2> QED BY <2>3, <2>4, <2>5 DEF PagesListed
<1> QED BY <1>2, <1>3, <1>4 DEF Walked

\* Halting leaves everything as it is, but for the walk.
LEMMA HaltsKeeps == PagesInv /\ fault = "none" /\ UNCHANGED driver /\ Halts => PagesInv' /\ Keeps
<1> SUFFICES ASSUME PagesInv, UNCHANGED driver, Halts PROVE PagesInv' /\ Keeps
  OBVIOUS
<1>1. /\ UNCHANGED <<driver, phase, reg, param, cache, dev, used, files, call, vma>>
      /\ Walked /\ stale' \in BOOLEAN
  BY DEF Halts, Walked
<1>2. /\ list' \in Seq(Seq(Nat)) /\ (~stale' => PagesListed') /\ Keeps
      /\ phase = "unloaded" => list' = list
  BY <1>1, WalkedKeeps
<1>3. (PagesTypes /\ PagesMapped /\ PagesLoaded)'
  BY <1>1, <1>2 DEF PagesInv, PagesTypes, PagesMapped, PagesLoaded, Params
<1>4. AccessesInBlock'  BY DEF Halts, AccessesInBlock, Regular
<1> QED BY <1>2, <1>3, <1>4 DEF PagesInv

\* Calls begin and end.
LEMMA CallKeeps == PagesInv /\ fault = "none" /\ UNCHANGED driver /\ CallStep => PagesInv' /\ Keeps
<1> SUFFICES ASSUME PagesInv, fault = "none", UNCHANGED driver, CallStep PROVE PagesInv' /\ Keeps
  OBVIOUS
<1>1. /\ UNCHANGED <<driver, phase, reg, cache, dev, list, used, vma, fault, stale>>
      /\ param' \in Params /\ files' \subseteq files /\ call' \in [Threads -> Calls]
      /\ phase = "unloaded" => UNCHANGED <<files, call>>
  BY DEF CallStep
<1>2. PagesTypes'  BY <1>1 DEF PagesInv, PagesTypes, Params
<1>3. PagesMapped' /\ PagesLoaded'  BY <1>1 DEF PagesInv, PagesMapped, PagesLoaded
<1>4. (~stale => PagesListed)'
  BY <1>1 DEF PagesInv, PagesListed, PagesBlocks, Block, Shaped
<1>5. AccessesInBlock'  BY <1>1 DEF AccessesInBlock
<1> QED BY <1>1, <1>2, <1>3, <1>4, <1>5 DEF PagesInv, Keeps

\* What a trim leaves.
LEMMA TrimKeeps ==
  PagesInv /\ UNCHANGED <<driver, stale>> /\ Trimmed =>
    /\ dev' \in [order : Nat, qset : Nat, size : Nat, vmas : Nat]
    /\ list' \in Seq(Seq(Nat)) /\ (~stale' => PagesListed') /\ dev'.vmas = 0
    /\ driver = "scullc" => dev'.order # 0
    /\ Keeps
<1> SUFFICES ASSUME PagesInv, UNCHANGED <<driver, stale>>, Trimmed
             PROVE  /\ dev' \in [order : Nat, qset : Nat, size : Nat, vmas : Nat]
                    /\ list' \in Seq(Seq(Nat)) /\ (~stale' => PagesListed')
                    /\ dev'.vmas = 0
                    /\ driver = "scullc" => dev'.order # 0
                    /\ Keeps
  OBVIOUS
<1>1. /\ dev.vmas = 0 /\ list' = << <<>> >> /\ (~stale => used' = 0)
      /\ dev' = [dev EXCEPT !.size = 0, !.order = param.size, !.qset = param.qset]
  BY DEF Trimmed
<1>2. dev \in [order : Nat, qset : Nat, size : Nat, vmas : Nat] /\ param \in Params
  BY DEF PagesInv, PagesTypes
<1>3. /\ param.size \in Nat /\ param.qset \in Nat
      /\ driver = "scullc" => param.size # 0
  BY <1>2 DEF Params
<1>4. /\ dev' \in [order : Nat, qset : Nat, size : Nat, vmas : Nat]
      /\ dev'.vmas = 0 /\ dev'.order = param.size
  BY <1>1, <1>2, <1>3
<1>5. Shaped(list', dev'.qset) /\ PagesBlocks'  BY <1>1, EmptyShaped
<1>6. ~stale' => used' = Total(list')  BY <1>1, TotalNone
<1>7. list' \in Seq(Seq(Nat))  BY <1>5 DEF Shaped
<1>8. ~Mapped  BY <1>1, MappedIs
<1> QED BY <1>3, <1>4, <1>5, <1>6, <1>7, <1>8 DEF Keeps, PagesListed

\* An open for writing trims, unless there are mappings.
LEMMA OpenKeeps == PagesInv /\ fault = "none" /\ UNCHANGED driver /\ OpenStep => PagesInv' /\ Keeps
<1> SUFFICES ASSUME PagesInv, fault = "none", UNCHANGED driver, OpenStep PROVE PagesInv' /\ Keeps
  OBVIOUS
<1>1. /\ phase # "unloaded" /\ files' \subseteq Threads
      /\ UNCHANGED <<driver, phase, reg, param, cache, call, vma, fault, stale>>
  BY DEF OpenStep
<1>2. AccessesInBlock'  BY <1>1 DEF AccessesInBlock
<1>3. CASE Trimmed
  <2>1. PagesTypes'  BY <1>1, <1>3, TrimKeeps DEF PagesInv, PagesTypes, Params
  <2>2. PagesMapped'
    <3>1. dev.vmas = 0  BY <1>3 DEF Trimmed
    <3> QED BY <1>1, <1>3, <3>1, TrimKeeps DEF PagesInv, PagesMapped
  <2>3. PagesLoaded'  BY <1>1, <1>3, TrimKeeps DEF PagesInv, PagesLoaded
  <2> QED BY <1>1, <1>2, <1>3, <2>1, <2>2, <2>3, TrimKeeps DEF PagesInv
<1>4. CASE UNCHANGED <<dev, list, used>>
  <2>1. PagesTypes'  BY <1>1, <1>4 DEF PagesInv, PagesTypes, Params
  <2>2. PagesMapped' /\ PagesLoaded'
    BY <1>1, <1>4 DEF PagesInv, PagesMapped, PagesLoaded
  <2>3. (~stale => PagesListed)'
    BY <1>1, <1>4 DEF PagesInv, PagesListed, PagesBlocks, Block, Shaped
  <2> QED BY <1>1, <1>2, <1>4, <2>1, <2>2, <2>3 DEF PagesInv, Keeps
<1> QED BY <1>3, <1>4 DEF OpenStep

\* A read at most makes the list longer.
LEMMA ReadKeeps == PagesInv /\ fault = "none" /\ UNCHANGED driver /\ ReadStep => PagesInv' /\ Keeps
<1> SUFFICES ASSUME PagesInv, fault = "none", UNCHANGED driver, ReadStep PROVE PagesInv' /\ Keeps
  OBVIOUS
<1>1. /\ phase # "unloaded" /\ call' \in [Threads -> Calls] /\ Walked /\ stale' \in BOOLEAN
      /\ UNCHANGED <<driver, phase, reg, param, cache, dev, used, files, vma, fault>>
  BY DEF ReadStep, Walked
<1>2. list' \in Seq(Seq(Nat)) /\ (~stale' => PagesListed') /\ Keeps
  BY <1>1, WalkedKeeps
<1>3. PagesTypes'  BY <1>1, <1>2 DEF PagesInv, PagesTypes, Params
<1>4. PagesMapped' /\ PagesLoaded'  BY <1>1 DEF PagesInv, PagesMapped, PagesLoaded
<1>5. AccessesInBlock'  BY <1>1 DEF AccessesInBlock
<1> QED BY <1>2, <1>3, <1>4, <1>5 DEF PagesInv

\* An array of zeros where there was none, or the list as it was walked.
LEMMA ArmedIs ==
  ASSUME PagesInv, NEW i \in Nat \ {0}, NEW q \in Nat
  PROVE  /\ Armed(i, q) \in Seq(Seq(Nat)) /\ i \in DOMAIN Armed(i, q)
         /\ i \in DOMAIN Grown(i)
         /\ \A k \in DOMAIN list : \A s \in DOMAIN list[k] :
              /\ k \in DOMAIN Armed(i, q) /\ s \in DOMAIN Armed(i, q)[k]
              /\ Armed(i, q)[k][s] = list[k][s]
         /\ \A k \in DOMAIN Armed(i, q) : \A s \in DOMAIN Armed(i, q)[k] :
              Armed(i, q)[k][s] # 0 => k \in DOMAIN list /\ s \in DOMAIN list[k]
         /\ Armed(i, q)[i] = IF Grown(i)[i] # <<>> THEN Grown(i)[i] ELSE [s \in 1 .. q |-> 0]
         /\ Shaped(list, q) => /\ Shaped(Armed(i, q), q) /\ Total(Armed(i, q)) = Total(list)
                               /\ q # 0 => DOMAIN Armed(i, q)[i] = 1 .. q
<1> DEFINE g == Grown(i)
           z == [s \in 1 .. q |-> 0]
           e == IF g[i] # <<>> THEN g[i] ELSE z
           more == [g EXCEPT ![i] = e]
<1>1. list \in Seq(Seq(Nat))  BY DEF PagesInv, PagesTypes
<1>2. /\ g \in Seq(Seq(Nat)) /\ DOMAIN list \subseteq DOMAIN g /\ i \in DOMAIN g
      /\ \A k \in DOMAIN g : /\ k \in DOMAIN list => g[k] = list[k]
                             /\ k \notin DOMAIN list => g[k] = <<>>
  BY <1>1, GrownIs
<1>3. more = Armed(i, q)  BY DEF Armed
<1>4. Shaped(list, q) => Shaped(g, q) /\ Total(g) = Total(list)  BY GrownShaped
<1>5. e = IF Grown(i)[i] # <<>> THEN Grown(i)[i] ELSE [s \in 1 .. q |-> 0]  OBVIOUS
<1> HIDE DEF g
<1>6. z \in Seq(Nat) /\ Len(z) = q /\ DOMAIN z = 1 .. q /\ \A s \in DOMAIN z : z[s] = 0
  OBVIOUS
<1> HIDE DEF z
<1>7. e \in Seq(Nat)  BY <1>2, <1>6
<1>8. g[i] = <<>> => e = z  OBVIOUS
<1>9. g[i] # <<>> => e = g[i]  OBVIOUS
<1> HIDE DEF e
<1>10. /\ more \in Seq(Seq(Nat)) /\ DOMAIN more = DOMAIN g /\ more[i] = e
       /\ \A k \in DOMAIN g : k # i => more[k] = g[k]
  BY <1>2, <1>7
<1> HIDE DEF more
<1>11. DOMAIN <<>> = {}  OBVIOUS
<1>12. ASSUME NEW k \in DOMAIN list, NEW s \in DOMAIN list[k]
       PROVE  k \in DOMAIN more /\ s \in DOMAIN more[k] /\ more[k][s] = list[k][s]
  <2>1. g[k] = list[k] /\ k \in DOMAIN g /\ g[k] # <<>>  BY <1>2, <1>11
  <2>2. more[k] = g[k]  BY <1>9, <1>10, <2>1
  <2> QED BY <1>10, <2>1, <2>2
<1>13. ASSUME NEW k \in DOMAIN more, NEW s \in DOMAIN more[k], more[k][s] # 0
       PROVE  k \in DOMAIN list /\ s \in DOMAIN list[k]
  <2>1. more[k] = g[k] /\ g[k] # <<>>  BY <1>6, <1>8, <1>9, <1>10, <1>11, <1>13
  <2> QED BY <1>2, <1>10, <2>1
<1>14. ASSUME Shaped(list, q)
       PROVE  Shaped(more, q) /\ Total(more) = Total(list) /\ (q # 0 => DOMAIN more[i] = 1 .. q)
  <2>1. e = <<>> \/ Len(e) = q  BY <1>2, <1>4, <1>6, <1>8, <1>9, <1>14 DEF Shaped
  <2>2. Shaped(more, q)  BY <1>4, <1>10, <1>14, <2>1 DEF Shaped
  <2>3. Total(more) = Total(g)
    <3>1. \/ i \in DOMAIN g /\ more[i] = g[i]
          \/ /\ i \in DOMAIN g => g[i] = <<>>
             /\ \A s \in DOMAIN more[i] : more[i][s] = 0
      BY <1>2, <1>6, <1>8, <1>9, <1>10
    <3> QED BY <1>2, <1>4, <1>10, <1>14, <2>2, <3>1, TotalArray
  <2>4. q # 0 => DOMAIN e = 1 .. q
    <3>1. CASE g[i] = <<>>  BY <1>6, <1>8, <3>1
    <3>2. CASE g[i] # <<>>
      <4>1. Len(e) = q  BY <1>2, <1>4, <1>9, <1>14, <3>2 DEF Shaped
      <4> QED BY <1>7, <4>1
    <3> QED BY <3>1, <3>2
  <2> QED BY <1>4, <1>10, <1>14, <2>2, <2>3, <2>4
<1> QED BY <1>2, <1>3, <1>5, <1>10, <1>12, <1>13, <1>14 DEF g

\* A block in an empty slot of a list, or in its own.
LEMMA PlacedIs ==
  ASSUME NEW m \in Seq(Seq(Nat)), NEW i \in DOMAIN m, NEW s \in DOMAIN m[i],
         NEW b \in Nat \ {0}, m[i][s] \in {0, b}
  PROVE  /\ Placed(m, i, s, b) \in Seq(Seq(Nat))
         /\ DOMAIN Placed(m, i, s, b) = DOMAIN m
         /\ Placed(m, i, s, b)[i][s] = b
         /\ \A k \in DOMAIN m : /\ DOMAIN Placed(m, i, s, b)[k] = DOMAIN m[k]
                                /\ \A l \in DOMAIN m[k] : k # i \/ l # s =>
                                     Placed(m, i, s, b)[k][l] = m[k][l]
         /\ m[i][s] = b => Placed(m, i, s, b) = m
<1> DEFINE a == m[i]
           d == [a EXCEPT ![s] = b]
           more == [m EXCEPT ![i] = d]
<1>1. a \in Seq(Nat) /\ s \in DOMAIN a  OBVIOUS
<1>2. a[s] = b => d = a
  <2> HIDE DEF a
  <2> QED BY <1>1
<1> HIDE DEF a
<1>3. /\ d \in Seq(Nat) /\ DOMAIN d = DOMAIN a /\ d[s] = b
      /\ \A l \in DOMAIN a : l # s => d[l] = a[l]
  BY <1>1
<1> HIDE DEF d
<1>4. /\ more \in Seq(Seq(Nat)) /\ DOMAIN more = DOMAIN m /\ more[i] = d
      /\ \A k \in DOMAIN m : k # i => more[k] = m[k]
  BY <1>3
<1>5. d = a => more = m  BY DEF a
<1>6. more = Placed(m, i, s, b)  BY DEF Placed, d, a
<1> HIDE DEF more
<1> QED BY <1>2, <1>3, <1>4, <1>5, <1>6 DEF a

\* A write adds an array, or a quantum and what it holds.
LEMMA WriteKeeps ==
  PagesInv /\ fault = "none" /\ UNCHANGED driver /\ WriteStep => PagesInv' /\ Keeps
<1> SUFFICES ASSUME PagesInv, fault = "none", UNCHANGED driver, WriteStep PROVE PagesInv' /\ Keeps
  OBVIOUS
<1>1. /\ phase # "unloaded" /\ call' \in [Threads -> Calls]
      /\ stale' \in BOOLEAN /\ (stale => stale')
      /\ UNCHANGED <<driver, phase, reg, param, cache, files, vma, fault>>
  BY DEF WriteStep
<1>2. PICK i \in Nat \ {0}, q \in Nat :
       /\ stale' \/ q = dev.qset
       /\ \/ list' = Armed(i, q) /\ UNCHANGED <<dev, used>>
          \/ \E s \in DOMAIN Armed(i, q)[i], b \in Nat \ {0} :
               /\ Armed(i, q)[i][s] \in {0, b}
               /\ \/ stale'
                  \/ Armed(i, q)[i][s] = 0 /\ used' = used + b /\ b = Block(i)
                  \/ Armed(i, q)[i][s] = b /\ used' = used
               /\ list' = Placed(Armed(i, q), i, s, b)
               /\ dev' = dev \/ \E z \in Nat : dev' = [dev EXCEPT !.size = z]
  BY DEF WriteStep
<1> DEFINE m == Armed(i, q)
<1>3. dev \in [order : Nat, qset : Nat, size : Nat, vmas : Nat]  BY DEF PagesInv, PagesTypes
<1>4. /\ m \in Seq(Seq(Nat)) /\ i \in DOMAIN m
      /\ \A k \in DOMAIN list : \A l \in DOMAIN list[k] :
           k \in DOMAIN m /\ l \in DOMAIN m[k] /\ m[k][l] = list[k][l]
      /\ \A k \in DOMAIN m : \A l \in DOMAIN m[k] :
           m[k][l] # 0 => k \in DOMAIN list /\ l \in DOMAIN list[k]
      /\ Shaped(list, q) => Shaped(m, q) /\ Total(m) = Total(list)
  BY ArmedIs
<1> HIDE DEF m
<1>5. /\ list' \in Seq(Seq(Nat))
      /\ \A k \in DOMAIN list : \A l \in DOMAIN list[k] :
           list[k][l] # 0 => list'[k][l] = list[k][l]
      /\ dev' \in [order : Nat, qset : Nat, size : Nat, vmas : Nat]
      /\ dev'.order = dev.order /\ dev'.qset = dev.qset /\ dev'.vmas = dev.vmas
  <2>1. CASE list' = m /\ UNCHANGED <<dev, used>>  BY <1>3, <1>4, <2>1
  <2>2. ASSUME NEW s \in DOMAIN m[i], NEW b \in Nat \ {0}, m[i][s] \in {0, b},
               list' = Placed(m, i, s, b),
               dev' = dev \/ \E z \in Nat : dev' = [dev EXCEPT !.size = z]
        PROVE  /\ list' \in Seq(Seq(Nat))
               /\ \A k \in DOMAIN list : \A l \in DOMAIN list[k] :
                    list[k][l] # 0 => list'[k][l] = list[k][l]
               /\ dev' \in [order : Nat, qset : Nat, size : Nat, vmas : Nat]
               /\ dev'.order = dev.order /\ dev'.qset = dev.qset /\ dev'.vmas = dev.vmas
    <3>1. /\ dev' \in [order : Nat, qset : Nat, size : Nat, vmas : Nat]
          /\ dev'.order = dev.order /\ dev'.qset = dev.qset /\ dev'.vmas = dev.vmas
      BY <1>3, <2>2
    <3>2. /\ list' \in Seq(Seq(Nat)) /\ list'[i][s] = b
          /\ \A k \in DOMAIN m : \A l \in DOMAIN m[k] : k # i \/ l # s => list'[k][l] = m[k][l]
      BY <1>4, <2>2, PlacedIs
    <3>3. ASSUME NEW k \in DOMAIN list, NEW l \in DOMAIN list[k], list[k][l] # 0
          PROVE  list'[k][l] = list[k][l]
      <4>1. k \in DOMAIN m /\ l \in DOMAIN m[k] /\ m[k][l] = list[k][l]  BY <1>4
      <4>2. CASE k = i /\ l = s  BY <2>2, <3>2, <3>3, <4>1, <4>2
      <4>3. CASE k # i \/ l # s  BY <3>2, <4>1, <4>3
      <4> QED BY <4>2, <4>3
    <3> QED BY <3>1, <3>2, <3>3
  <2> QED BY <1>2, <2>1, <2>2 DEF m
<1>6. ASSUME ~stale' PROVE PagesListed'
  <2>1. PagesListed /\ q = dev.qset  BY <1>1, <1>2, <1>6 DEF PagesInv
  <2>2. /\ Shaped(m, q) /\ Total(m) = Total(list) /\ used = Total(list)
        /\ Total(m) \in Nat
    BY <1>4, <2>1, TotalNat DEF PagesListed
  <2>3. \A k \in DOMAIN m : \A l \in DOMAIN m[k] : m[k][l] # 0 => m[k][l] = Block(k)
    BY <1>4, <2>1 DEF PagesListed, PagesBlocks
  <2>4. \A k : Block(k)' = Block(k)  BY <1>1, <1>5 DEF Block
  <2>5. /\ Shaped(list', q) /\ used' = Total(list')
        /\ \A k \in DOMAIN list' : \A l \in DOMAIN list'[k] :
             list'[k][l] # 0 => list'[k][l] = Block(k)
    <3>1. CASE list' = m /\ UNCHANGED <<dev, used>>  BY <2>2, <2>3, <3>1
    <3>2. ASSUME NEW s \in DOMAIN m[i], NEW b \in Nat \ {0}, m[i][s] \in {0, b},
                 \/ m[i][s] = 0 /\ used' = used + b /\ b = Block(i)
                 \/ m[i][s] = b /\ used' = used,
                 list' = Placed(m, i, s, b)
          PROVE  /\ Shaped(list', q) /\ used' = Total(list')
                 /\ \A k \in DOMAIN list' : \A l \in DOMAIN list'[k] :
                      list'[k][l] # 0 => list'[k][l] = Block(k)
      <4>1. /\ DOMAIN list' = DOMAIN m /\ list'[i][s] = b
            /\ \A k \in DOMAIN m :
                 /\ DOMAIN list'[k] = DOMAIN m[k]
                 /\ \A l \in DOMAIN m[k] : k # i \/ l # s => list'[k][l] = m[k][l]
            /\ m[i][s] = b => list' = m
        <5>1. /\ m \in Seq(Seq(Nat)) /\ i \in DOMAIN m /\ s \in DOMAIN m[i]
              /\ b \in Nat \ {0} /\ m[i][s] \in {0, b}
          BY <1>4, <3>2
        <5>2. /\ Placed(m, i, s, b) \in Seq(Seq(Nat))
              /\ DOMAIN Placed(m, i, s, b) = DOMAIN m
              /\ Placed(m, i, s, b)[i][s] = b
              /\ \A k \in DOMAIN m : /\ DOMAIN Placed(m, i, s, b)[k] = DOMAIN m[k]
                                     /\ \A l \in DOMAIN m[k] : k # i \/ l # s =>
                                          Placed(m, i, s, b)[k][l] = m[k][l]
              /\ m[i][s] = b => Placed(m, i, s, b) = m
          BY <5>1, PlacedIs
        <5> QED BY <3>2, <5>2
      <4>2. b = Block(i)
        <5>1. CASE m[i][s] = 0  BY <3>2, <5>1
        <5>2. CASE m[i][s] = b  BY <1>4, <2>3, <3>2, <5>2
        <5> QED BY <3>2, <5>1, <5>2
      <4>3. Shaped(list', q) /\ used' = Total(list')
        <5>1. CASE m[i][s] = 0
          <6>1. Shaped(list', q) /\ Total(list') = Total(m) + b
            BY <1>4, <2>2, <3>2, <5>1, TotalBlock
          <6>2. used' = used + b  BY <3>2, <5>1
          <6> QED BY <2>2, <6>1, <6>2
        <5>2. CASE m[i][s] = b  BY <2>2, <3>2, <4>1, <5>2
        <5> QED BY <3>2, <5>1, <5>2
      <4>4. ASSUME NEW k \in DOMAIN list', NEW l \in DOMAIN list'[k], list'[k][l] # 0
            PROVE  list'[k][l] = Block(k)
        <5>1. CASE k = i /\ l = s  BY <4>1, <4>2, <5>1
        <5>2. CASE k # i \/ l # s  BY <2>3, <4>1, <4>4, <5>2
        <5> QED BY <5>1, <5>2
      <4> QED BY <4>3, <4>4
    <3> QED BY <1>2, <1>6, <3>1, <3>2 DEF m
  <2>6. PagesBlocks'  BY <2>4, <2>5 DEF PagesBlocks
  <2> QED BY <1>5, <2>1, <2>5, <2>6 DEF PagesListed
<1>7. PagesTypes'  BY <1>1, <1>5 DEF PagesInv, PagesTypes, Params
<1>8. PagesMapped' /\ PagesLoaded'
  BY <1>1, <1>3, <1>5 DEF PagesInv, PagesMapped, PagesLoaded
<1>9. AccessesInBlock'  BY <1>1 DEF AccessesInBlock
<1>10. Keeps  BY <1>5 DEF Keeps
<1> QED BY <1>6, <1>7, <1>8, <1>9, <1>10 DEF PagesInv

\* A mapping comes or goes, and is counted.
LEMMA MapKeeps == PagesInv /\ fault = "none" /\ UNCHANGED driver /\ MapStep => PagesInv' /\ Keeps
<1> SUFFICES ASSUME PagesInv, fault = "none", UNCHANGED driver, MapStep PROVE PagesInv' /\ Keeps
  OBVIOUS
<1>1. /\ phase # "unloaded" /\ driver # "scullc"
      /\ driver \in {"scullp", "sculld"} => dev.order = 0
      /\ UNCHANGED <<driver, phase, reg, param, cache, list, used, files, call, fault,
                  stale>>
  BY DEF MapStep
<1>2. PICK t \in Threads : \E d \in {1, -1} :
       /\ vma[t] + d \in Nat
       /\ vma' = [vma EXCEPT ![t] = vma[t] + d]
       /\ dev' = [dev EXCEPT !.vmas = dev.vmas + d]
  BY DEF MapStep
<1>3. PICK d \in {1, -1} :
       /\ vma[t] + d \in Nat
       /\ vma' = [vma EXCEPT ![t] = vma[t] + d]
       /\ dev' = [dev EXCEPT !.vmas = dev.vmas + d]
  BY <1>2
<1>4. /\ vma \in [Threads -> Nat] /\ dev \in [order : Nat, qset : Nat, size : Nat, vmas : Nat]
      /\ dev.vmas = SumOf(vma, Threads) /\ IsFiniteSet(Threads)
  BY PagesAssumption DEF PagesInv, PagesTypes, PagesMapped
<1>5. /\ vma' \in [Threads -> Nat] /\ vma'[t] = vma[t] + d
      /\ \A u \in Threads \ {t} : vma[u] = vma'[u]
  BY <1>3, <1>4
<1>6. Natural(vma', Threads) /\ Integral(vma', Threads) /\ Integral(vma, Threads)
  BY <1>4, <1>5 DEF Natural, Integral
<1>7. SumOf(vma', Threads) = (SumOf(vma, Threads) - vma[t]) + vma'[t]
  BY <1>4, <1>5, <1>6, SumChange
<1>8. SumOf(vma', Threads) \in Nat  BY <1>4, <1>6, SumNat
<1>9. SumOf(vma', Threads) = dev.vmas + d
  <2>1. dev.vmas \in Nat /\ vma[t] \in Nat /\ d \in Int  BY <1>4
  <2> QED BY <1>4, <1>5, <1>7, <2>1
<1>10. /\ dev' \in [order : Nat, qset : Nat, size : Nat, vmas : Nat]
       /\ dev'.vmas = SumOf(vma', Threads)
       /\ dev'.order = dev.order /\ dev'.qset = dev.qset /\ dev'.size = dev.size
  BY <1>3, <1>4, <1>8, <1>9
<1>11. PagesTypes'  BY <1>1, <1>5, <1>10 DEF PagesInv, PagesTypes, Params
<1>12. PagesMapped' /\ PagesLoaded'
  BY <1>1, <1>10 DEF PagesInv, PagesMapped, PagesLoaded
<1>13. (~stale => PagesListed)'
  BY <1>1, <1>10 DEF PagesInv, PagesListed, PagesBlocks, Block, Shaped
<1>14. AccessesInBlock'  BY <1>1 DEF AccessesInBlock
<1> QED BY <1>1, <1>10, <1>11, <1>12, <1>13, <1>14 DEF PagesInv, Keeps

\* The device of a module that is loaded is new.
LEMMA LoadKeeps == PagesInv /\ fault = "none" /\ UNCHANGED driver /\ LoadStep => PagesInv' /\ Keeps
<1> SUFFICES ASSUME PagesInv, fault = "none", UNCHANGED driver, LoadStep PROVE PagesInv' /\ Keeps
  OBVIOUS
<1>1. /\ phase = "unloaded"
      /\ UNCHANGED <<driver, param, cache, list, used, files, call, vma, fault, stale>>
  BY DEF LoadStep
<1>2. /\ list = << <<>> >> /\ files = {} /\ cache = 0
      /\ \A t \in Threads : vma[t] = 0 /\ call[t] = NoCall
  BY <1>1 DEF PagesInv, PagesLoaded
<1>3. dev.vmas = 0 /\ ~Mapped  BY <1>2, MappedIs
<1>4. param \in Params /\ dev \in [order : Nat, qset : Nat, size : Nat, vmas : Nat]
  BY DEF PagesInv, PagesTypes
<1>5. /\ param.size \in Nat /\ param.qset \in Nat
      /\ driver = "scullc" => param.size # 0
  BY <1>4 DEF Params
<1>6. /\ phase' \in {"unloaded", "coming", "live"}
      /\ dev' \in [order : Nat, qset : Nat, size : Nat, vmas : Nat] /\ dev'.vmas = 0
      /\ driver = "scullc" => dev'.order # 0
      /\ phase' = "unloaded" => reg' \subseteq IF driver = "sculld" THEN {"driver"} ELSE {}
  <2>1. CASE /\ phase' \in {"coming", "live"}
             /\ dev' = [order |-> param.size, qset |-> param.qset, size |-> 0, vmas |-> 0]
    BY <1>5, <2>1
  <2>2. CASE /\ reg' \subseteq IF driver = "sculld" THEN {"driver"} ELSE {}
             /\ UNCHANGED <<phase, dev>>
    BY <1>1, <1>3, <1>4, <2>2 DEF PagesInv, PagesLoaded
  <2> QED BY <2>1, <2>2 DEF LoadStep
<1>7. PagesTypes'  BY <1>1, <1>6 DEF PagesInv, PagesTypes, Params
<1>8. (~stale => PagesListed)'
  <2>1. Shaped(list', dev'.qset) /\ PagesBlocks'  BY <1>1, <1>2, EmptyShaped
  <2> QED BY <1>1, <2>1 DEF PagesInv, PagesListed
<1>9. PagesMapped'  BY <1>1, <1>3, <1>6 DEF PagesInv, PagesMapped
<1>10. PagesLoaded'  BY <1>1, <1>2, <1>6 DEF PagesLoaded
<1>11. AccessesInBlock'  BY <1>1 DEF AccessesInBlock
<1> QED BY <1>3, <1>7, <1>8, <1>9, <1>10, <1>11 DEF PagesInv, Keeps

\* The cache is made when no object of it was used.
LEMMA CacheKeeps == PagesInv /\ fault = "none" /\ UNCHANGED driver /\ CacheStep => PagesInv' /\ Keeps
<1> SUFFICES ASSUME PagesInv, fault = "none", UNCHANGED driver, CacheStep PROVE PagesInv' /\ Keeps
  OBVIOUS
<1>1. /\ driver = "scullc" /\ phase = "coming" /\ phase' = "live" /\ cache' = param.size
      /\ UNCHANGED <<driver, param, dev, list, used, files, call, vma, fault, stale>>
  BY DEF CacheStep
<1>2. cache = 0  BY <1>1 DEF PagesInv, PagesLoaded
<1>3. param \in Params /\ param.size \in Nat  BY DEF PagesInv, PagesTypes, Params
<1>4. PagesTypes'  BY <1>1, <1>3 DEF PagesInv, PagesTypes, Params
<1>5. PagesMapped' /\ PagesLoaded'  BY <1>1 DEF PagesInv, PagesMapped, PagesLoaded
<1>6. ASSUME ~stale' PROVE PagesListed'
  <2>1. PagesListed  BY <1>1, <1>6 DEF PagesInv
  <2>2. \A i \in DOMAIN list : \A s \in DOMAIN list[i] : list[i][s] = 0
    BY <1>1, <1>2, <2>1 DEF PagesListed, PagesBlocks, Block
  <2> QED BY <1>1, <2>1, <2>2 DEF PagesListed, PagesBlocks, Shaped
<1>7. AccessesInBlock'  BY <1>1 DEF AccessesInBlock
<1> QED BY <1>1, <1>4, <1>5, <1>6, <1>7 DEF PagesInv, Keeps

\* A module is unloaded when nobody uses it, and takes its pages with it.
LEMMA UnloadKeeps ==
  PagesInv /\ fault = "none" /\ UNCHANGED driver /\ UnloadStep => PagesInv' /\ Keeps
<1> SUFFICES ASSUME PagesInv, fault = "none", UNCHANGED driver, UnloadStep PROVE PagesInv' /\ Keeps
  OBVIOUS
<1>1. /\ files = {} /\ \A t \in Threads : vma[t] = 0 /\ call[t] = NoCall
      /\ Trimmed /\ phase' = "unloaded" /\ reg' = {} /\ cache' = 0 /\ param' \in Params
      /\ UNCHANGED <<driver, files, call, vma, fault, stale>>
  BY DEF UnloadStep
<1>2. list' = << <<>> >> /\ dev.vmas = 0  BY <1>1 DEF Trimmed
<1>3. PagesTypes'  BY <1>1, TrimKeeps DEF PagesInv, PagesTypes, Params
<1>4. PagesMapped'  BY <1>1, <1>2, TrimKeeps DEF PagesInv, PagesMapped
<1>5. PagesLoaded'  BY <1>1, <1>2, TrimKeeps DEF PagesLoaded
<1>6. AccessesInBlock'  BY <1>1 DEF AccessesInBlock
<1> QED BY <1>1, <1>3, <1>4, <1>5, <1>6, TrimKeeps DEF PagesInv

\* So every step keeps the invariant, and the mapped pages.
LEMMA StepKeeps == PagesInv /\ Step => PagesInv' /\ Keeps
  BY HaltsKeeps, CallKeeps, OpenKeeps, ReadKeeps, WriteKeeps, MapKeeps, LoadKeeps,
     CacheKeeps, UnloadKeeps DEF Step

-----------------------------------------------------------------------------
(***************************************************************************)
(* The calls of the four drivers, in the operators of one of them: the     *)
(* code is the same.                                                       *)
(***************************************************************************)
Lens == <<Block(1), Block(2)>>
Clears == <<Clear(1), Clear(2)>>

\* The quantum is a number, and the blocks that are added are.
LEMMA QuantumIs ==
  PagesInv => /\ Quantum \in Nat /\ Quantum # 0
              /\ \A k \in {1, 2} : Block(k) \in Nat /\ Clear(k) \in Nat
              /\ dev.order = 0 /\ driver # "scullc" =>
                   Quantum = 1 /\ \A k \in {1, 2} : Block(k) = 1 /\ Clear(k) = 1
<1> SUFFICES ASSUME PagesInv
             PROVE  /\ Quantum \in Nat /\ Quantum # 0
                    /\ \A k \in {1, 2} : Block(k) \in Nat /\ Clear(k) \in Nat
                    /\ dev.order = 0 /\ driver # "scullc" =>
                         Quantum = 1 /\ \A k \in {1, 2} : Block(k) = 1 /\ Clear(k) = 1
  OBVIOUS
<1>1. /\ dev.order \in Nat /\ cache \in Nat /\ param.size \in Nat
      /\ driver = "scullc" => dev.order # 0
  BY DEF PagesInv, PagesTypes, PagesLoaded, Params
<1>2. 2 ^ dev.order \in Nat \ {0} /\ (dev.order = 0 => 2 ^ dev.order = 1)
  BY <1>1, TwoPower
<1> DEFINE e == 2 ^ dev.order
<1> HIDE DEF e
<1>3. e \in Nat \ {0} /\ (dev.order = 0 => e = 1)  BY <1>2 DEF e
<1>4. Quantum = IF driver = "scullc" THEN dev.order ELSE e  BY DEF Quantum, e
<1>5. \A k : Block(k) = IF driver = "scullc" THEN cache ELSE IF k = 1 THEN e ELSE 1
  BY DEF Block, e
<1> QED BY <1>1, <1>3, <1>4, <1>5 DEF Clear

\* A walk to an item whose blocks are shorter than the quantum, or than what is cleared
\* in them, shows irregular quanta.
LEMMA ShortIrregular ==
  ASSUME PagesInv, UNCHANGED <<driver, param, cache, dev>>,
         NEW i \in Nat \ {0}, Block(i) < Quantum \/ Clear(i) > Block(i), list' = Grown(i)
  PROVE  ~Regular'
<1>1. dev.order \in Nat /\ cache \in Nat /\ param.size \in Nat
  BY DEF PagesInv, PagesTypes, Params
<1>2. CASE driver = "scullc"
  <2>1. cache < dev.order \/ param.size > cache  BY <1>2 DEF Block, Quantum, Clear
  <2> QED BY <1>1, <1>2, <2>1 DEF Regular, C!Regular
<1>3. CASE driver # "scullc"
  <2>1. Clear(i) = Block(i)  BY <1>3 DEF Clear
  <2>2. Block(1) = Quantum /\ Quantum \in Nat  BY <1>3, QuantumIs DEF Block, Quantum
  <2>3. Block(i) = Block(1) \/ Block(i) = 1  BY <1>3 DEF Block
  <2>4. i # 1 /\ dev.order # 0
    <3>1. Block(i) # Quantum  BY <2>1, <2>2
    <3>2. dev.order = 0 => Quantum = 1  BY <1>3, QuantumIs
    <3> QED BY <2>2, <2>3, <3>1, <3>2
  <2>5. Len(list') # 1
    <3>1. list \in Seq(Seq(Nat))  BY DEF PagesInv, PagesTypes
    <3>2. list' \in Seq(Seq(Nat)) /\ i \in DOMAIN list'  BY <3>1, GrownIs
    <3> DEFINE l == list'
    <3> HIDE DEF l
    <3>3. l \in Seq(Seq(Nat)) /\ i \in DOMAIN l => Len(l) \in Nat /\ i <= Len(l)  OBVIOUS
    <3>4. Len(l) \in Nat /\ i <= Len(l)  BY <3>2, <3>3 DEF l
    <3> DEFINE n == Len(l)
    <3>5. n \in Nat /\ i <= n /\ i \in Nat \ {0} /\ i # 1  BY <2>4, <3>4
    <3> HIDE DEF n
    <3>6. n # 1  BY <3>5
    <3> QED BY <3>6 DEF l, n
  <2> QED BY <1>3, <2>4, <2>5 DEF Regular, P!Regular
<1> QED BY <1>2, <1>3

\* Who is in a call, or has the device open, holds the module.
LEMMA Held ==
  ASSUME PagesInv, NEW t \in Threads
  PROVE  /\ call[t] \in Calls /\ (call[t] = NoCall <=> call[t].op = "none")
         /\ call[t].op = "io" => call[t].quantum \in Nat /\ call[t].qset \in Nat
         /\ t \in files \/ call[t].op = "io" \/ vma[t] > 0 => phase # "unloaded"
         /\ P!NoCall = NoCall
         /\ "cdev" \in reg => phase # "unloaded"
<1>1. call[t] \in Calls  BY DEF PagesInv, PagesTypes
<1>2. /\ call[t] = NoCall <=> call[t].op = "none"
      /\ call[t].op = "io" => call[t].quantum \in Nat /\ call[t].qset \in Nat
  <2>1. CASE call[t] = NoCall  BY <2>1 DEF NoCall
  <2>2. CASE call[t] \in [op : {"io"}, quantum : Nat, qset : Nat]  BY <2>2 DEF NoCall
  <2> QED BY <1>1, <2>1, <2>2 DEF Calls
<1>3. P!NoCall = NoCall  BY DEF P!NoCall, NoCall
<1>4. phase = "unloaded" => files = {} /\ vma[t] = 0 /\ call[t] = NoCall
                            /\ reg \subseteq {"driver"}
  BY DEF PagesInv, PagesLoaded
<1>5. "cdev" # "driver" /\ "io" # "none"  OBVIOUS
<1> QED BY <1>1, <1>2, <1>3, <1>4, <1>5

\* A call returns.
LEMMA Returns ==
  ASSUME PagesInv, NEW t \in Threads, P!Return(t, P!Queue(t))
  PROVE  call' \in [Threads -> Calls] /\ UNCHANGED <<files, vma>>
<1>1. call \in [Threads -> Calls] /\ P!NoCall \in Calls
  BY Held DEF PagesInv, PagesTypes, Calls
<1> QED BY <1>1 DEF P!Return

\* The list cut at the quanta that a trim frees is the whole list, while no call has
\* gone on with sizes that a trim had changed.
LEMMA CutIs ==
  PagesInv /\ ~stale =>
    [i \in DOMAIN list |-> SubSeq(list[i], 1, P!Min({dev.qset, Len(list[i])}))] = list
<1> SUFFICES ASSUME PagesInv, ~stale
             PROVE  [i \in DOMAIN list |-> SubSeq(list[i], 1, P!Min({dev.qset, Len(list[i])}))] = list
  OBVIOUS
<1>1. Shaped(list, dev.qset) /\ dev.qset \in Nat  BY DEF PagesInv, PagesTypes, PagesListed
<1>2. list \in Seq(Seq(Nat))  BY <1>1 DEF Shaped
<1>3. ASSUME NEW i \in DOMAIN list
      PROVE  SubSeq(list[i], 1, P!Min({dev.qset, Len(list[i])})) = list[i]
  <2> DEFINE a == list[i]
             n == Len(a)
             q == dev.qset
  <2>1. a \in Seq(Nat) /\ (a = <<>> \/ n = q) /\ q \in Nat  BY <1>1, <1>2, <1>3 DEF Shaped
  <2> HIDE DEF a, q
  <2>2. n \in Nat /\ (n = 0 \/ n = q)  BY <2>1
  <2>3. SubSeq(a, 1, n) = a
    <3>1. Len(SubSeq(a, 1, n)) = n /\ SubSeq(a, 1, n) \in Seq(Nat)
          /\ \A j \in 1 .. n : SubSeq(a, 1, n)[j] = a[j]
      BY <2>1
    <3> DEFINE b == SubSeq(a, 1, n)
    <3> HIDE DEF b
    <3>2. b \in Seq(Nat) /\ Len(b) = Len(a) /\ \A j \in 1 .. Len(a) : b[j] = a[j]
      BY <3>1 DEF b
    <3>3. b = a  BY <2>1, <3>2, SeqEqual
    <3> QED BY <3>3 DEF b
  <2> HIDE DEF n
  <2>4. P!Min({q, n}) = Lesser(q, n)
    <3>1. q \in Int /\ n \in Int  BY <2>1, <2>2
    <3>2. \A x, y \in Int : P!Min({x, y}) = Lesser(x, y)  BY LeastAndGreatest
    <3> QED BY <3>1, <3>2
  <2>5. Lesser(q, n) = n  BY <2>1, <2>2 DEF Lesser
  <2> QED BY <2>3, <2>4, <2>5 DEF a, n, q
<1>4. list = [i \in DOMAIN list |-> list[i]]  BY <1>2
<1> QED BY <1>3, <1>4

\* Nor does a trim or a page fault look beyond the end of an array.
LEMMA NoOverrun ==
  PagesInv /\ ~stale =>
    /\ ~P!Overruns
    /\ \A off \in Nat : dev.qset # 0 => ~P!Beyond(P!Nopage(off))
<1> SUFFICES ASSUME PagesInv, ~stale
             PROVE  /\ ~P!Overruns
                    /\ \A off \in Nat : dev.qset # 0 => ~P!Beyond(P!Nopage(off))
  OBVIOUS
<1>1. Shaped(list, dev.qset) /\ dev.qset \in Nat  BY DEF PagesInv, PagesTypes, PagesListed
<1>2. ~P!Overruns  BY <1>1 DEF P!Overruns, Shaped
<1>3. ASSUME NEW off \in Nat, dev.qset # 0 PROVE ~P!Beyond(P!Nopage(off))
  <2> DEFINE q == dev.qset
             x == off % q
             y == off \div q
  <2>1. q \in Nat /\ q # 0  BY <1>1, <1>3
  <2> HIDE DEF q
  <2>2. x \in 0 .. (q - 1) /\ y \in Nat  BY <2>1
  <2>3. P!Nopage(off) = [item |-> y + 1, slot |-> x + 1, from |-> 0]
    BY DEF P!Nopage, q
  <2> HIDE DEF x, y
  <2>4. /\ P!Nopage(off).slot = x + 1 /\ P!Nopage(off).item = y + 1  BY <2>3
  <2>5. ASSUME P!Beyond(P!Nopage(off)) PROVE FALSE
    <3>1. y + 1 <= Len(list) /\ list[y + 1] # <<>> /\ x + 1 > Len(list[y + 1])
      BY <2>4, <2>5 DEF P!Beyond
    <3>2. y + 1 \in DOMAIN list  BY <1>1, <2>2, <3>1 DEF Shaped
    <3>3. Len(list[y + 1]) = q  BY <1>1, <3>1, <3>2 DEF Shaped, q
    <3> QED BY <2>1, <2>2, <3>1, <3>3
  <2> QED BY <2>5
<1> QED BY <1>2, <1>3

\* A trim frees every page, or is refused.
LEMMA Trims ==
  PagesInv /\ P!Trim => /\ Trimmed \/ UNCHANGED <<dev, list, used>>
                        /\ dev.vmas = 0 => Trimmed
<1> SUFFICES ASSUME PagesInv, P!Trim
             PROVE  /\ Trimmed \/ UNCHANGED <<dev, list, used>>
                    /\ dev.vmas = 0 => Trimmed
  OBVIOUS
<1>1. CASE dev.vmas # 0  BY <1>1 DEF P!Trim, P!device
<1>2. CASE dev.vmas = 0
  <2>1. /\ list' = << <<>> >>
        /\ dev' = [dev EXCEPT !.size = 0, !.order = param.size, !.qset = param.qset]
        /\ used' = used - P!Pages([i \in DOMAIN list |->
                             SubSeq(list[i], 1, P!Min({dev.qset, Len(list[i])}))])
    BY <1>2 DEF P!Trim
  <2>2. ASSUME ~stale PROVE used' = 0
    <3>1. used' = used - P!Pages(list)  BY <2>1, <2>2, CutIs
    <3>2. Shaped(list, dev.qset) /\ dev.qset \in Nat /\ used = Total(list)
      BY <2>2 DEF PagesInv, PagesTypes, PagesListed
    <3>3. P!Pages(list) = used /\ used \in Nat  BY <3>2, PagesAre, TotalNat
    <3> QED BY <3>1, <3>3
  <2> QED BY <1>2, <2>1, <2>2 DEF Trimmed
<1> QED BY <1>1, <1>2

\* Open, release, the start of a call, its interruption and the deferred work.
LEMMA OtherCalls ==
  ASSUME PagesInv, NEW t \in Threads,
         \/ P!Open(t, P!Trim) \/ P!Release(t) \/ P!Enter(t, Quantum)
         \/ P!Complete(t) \/ P!Interrupted(t, P!Queue(t))
         \/ \E found \in BOOLEAN : P!PageFault(t, found)
  PROVE  fault = "none" /\ (Halts \/ CallStep \/ OpenStep)
<1>1. /\ param \in Params /\ files \subseteq Threads /\ call \in [Threads -> Calls]
      /\ dev \in [order : Nat, qset : Nat, size : Nat, vmas : Nat] /\ stale \in BOOLEAN
  BY DEF PagesInv, PagesTypes
<1>2. ASSUME P!Crash("wild"), stale PROVE Halts
  BY <1>1, <1>2 DEF P!Crash, P!module, P!device, Halts, Walked
<1>3. CASE P!Open(t, P!Trim)
  <2>1. fault = "none" /\ "cdev" \in reg  BY <1>3 DEF P!Open
  <2>2. CASE P!Overruns /\ P!Crash("wild")  BY <1>2, <2>1, <2>2, NoOverrun
  <2>3. CASE /\ UNCHANGED P!device \/ P!Trim
             /\ files' = files \cup {t}
             /\ UNCHANGED <<P!module, call, vma, fault, stale>>
    <3>1. Trimmed \/ UNCHANGED <<dev, list, used>>  BY <2>3, Trims DEF P!device
    <3>2. phase # "unloaded"  BY <2>1, Held
    <3> QED BY <1>1, <2>1, <2>3, <3>1, <3>2 DEF OpenStep, P!module
  <2> QED BY <1>3, <2>2, <2>3 DEF P!Open
<1>4. CASE P!Release(t)
  <2>1. /\ fault = "none" /\ t \in files /\ files' \subseteq files
        /\ UNCHANGED <<phase, reg, param, cache, dev, list, used, call, vma, fault, stale>>
    BY <1>4 DEF P!Release, P!Ready, P!module, P!device
  <2> QED BY <1>1, <2>1, Held DEF CallStep
<1>5. CASE P!Enter(t, Quantum)
  <2> DEFINE c == [op |-> "io", quantum |-> Quantum, qset |-> dev.qset]
             d == [call[t] EXCEPT !.qset = dev.qset]
  <2>1. /\ fault = "none" /\ (t \in files \/ call[t].op = "io")
        /\ \/ call' = [call EXCEPT ![t] = c]
           \/ call[t].op = "io" /\ call' = [call EXCEPT ![t] = d]
        /\ UNCHANGED <<phase, reg, param, cache, dev, list, used, files, vma, fault, stale>>
    BY <1>5 DEF P!Enter, P!Ready, P!module, P!device
  <2>2. c \in Calls  BY <1>1, QuantumIs DEF Calls
  <2>3. call[t].op = "io" => d \in Calls
    <3>1. CASE call[t] = NoCall  BY <3>1 DEF NoCall
    <3>2. CASE call[t] \in [op : {"io"}, quantum : Nat, qset : Nat]
      BY <1>1, <3>2 DEF Calls
    <3> QED BY <3>1, <3>2, Held DEF Calls
  <2> HIDE DEF c, d
  <2>4. call' \in [Threads -> Calls]  BY <1>1, <2>1, <2>2, <2>3
  <2> QED BY <1>1, <2>1, <2>4, Held DEF CallStep
<1>6. CASE P!Complete(t)
  <2>1. /\ fault = "none"
        /\ UNCHANGED <<phase, reg, param, cache, dev, list, used, files, call, vma, fault,
                       stale>>
    BY <1>6 DEF P!Complete, P!module, P!device
  <2> QED BY <1>1, <2>1 DEF CallStep
<1>7. CASE P!Interrupted(t, P!Queue(t))
  <2>1. /\ fault = "none" /\ call[t].op = "io" /\ P!Return(t, P!Queue(t))
        /\ UNCHANGED <<phase, reg, param, cache, dev, list, used, fault, stale>>
    BY <1>7 DEF P!Interrupted, P!module, P!device
  <2> QED BY <1>1, <2>1, Returns, Held DEF CallStep
<1>8. CASE \E found \in BOOLEAN : P!PageFault(t, found)
  <2>1. PICK found \in BOOLEAN : P!PageFault(t, found)  BY <1>8
  <2>2. fault = "none" /\ dev.qset > 0  BY <2>1 DEF P!PageFault
  <2>3. PICK off \in 0 .. (dev.size - 1) :
         \/ P!Beyond(P!Nopage(off)) /\ P!Crash("wild")
         \/ P!Present(P!Nopage(off)) /\ ~found /\ P!Crash("oops")
    BY <2>1 DEF P!PageFault
  <2>4. CASE P!Beyond(P!Nopage(off)) /\ P!Crash("wild")
    <3>1. off \in Nat /\ dev.qset # 0  BY <1>1, <2>2
    <3> QED BY <1>2, <2>2, <2>4, <3>1, NoOverrun
  <2>5. CASE P!Crash("oops")
    BY <1>1, <2>2, <2>5 DEF P!Crash, P!module, P!device, Halts, Walked
  <2> QED BY <2>3, <2>4, <2>5
<1> QED BY <1>3, <1>4, <1>5, <1>6, <1>7, <1>8

\* Mapping, where the count changes by one instruction.
LEMMA MapCalls ==
  ASSUME PagesInv, ~Smp, NEW t \in Threads, driver # "scullc",
         \/ P!Mmap(t, driver = "scullv" \/ dev.order = 0)
         \/ P!VmaOpen(t) \/ P!StoreVmas(t) \/ P!VmaClose(t)
  PROVE  fault = "none" /\ MapStep
<1>1. /\ vma \in [Threads -> Nat] /\ vma[t] \in Nat
      /\ driver \in {"scullp", "sculld"} /\ dev.vmas # 0 => dev.order = 0
  BY DEF PagesInv, PagesTypes, PagesMapped
<1>2. call[t].op # "vmas" /\ call[t].op # "mmap"
  <2>1. CASE call[t] = NoCall  BY <2>1 DEF NoCall
  <2>2. CASE call[t] \in [op : {"io"}, quantum : Nat, qset : Nat]  BY <2>2
  <2> QED BY <2>1, <2>2, Held DEF Calls
<1>3. ASSUME NEW d \in {1, -1}, P!CountVmas(t, d)
      PROVE  dev' = [dev EXCEPT !.vmas = dev.vmas + d] /\ UNCHANGED call
  BY <1>3 DEF P!CountVmas
<1>4. CASE P!Mmap(t, driver = "scullv" \/ dev.order = 0)
  <2>1. /\ fault = "none" /\ t \in files /\ (driver = "scullv" \/ dev.order = 0)
        /\ P!CountVmas(t, 1) /\ vma' = [vma EXCEPT ![t] = vma[t] + 1]
        /\ UNCHANGED <<phase, reg, param, cache, list, used, files, fault, stale>>
    BY <1>4 DEF P!Mmap, P!Ready, P!module
  <2>2. dev' = [dev EXCEPT !.vmas = dev.vmas + 1] /\ UNCHANGED call  BY <1>3, <2>1
  <2>3. phase # "unloaded" /\ (driver \in {"scullp", "sculld"} => dev.order = 0)
    BY <2>1, Held
  <2>4. vma[t] + 1 \in Nat  BY <1>1
  <2> QED BY <2>1, <2>2, <2>3, <2>4 DEF MapStep
<1>5. CASE P!VmaOpen(t)
  <2>1. /\ fault = "none" /\ \E u \in Threads : vma[u] > 0
        /\ P!CountVmas(t, 1) /\ vma' = [vma EXCEPT ![t] = vma[t] + 1]
        /\ UNCHANGED <<phase, reg, param, cache, list, used, files, fault, stale>>
    BY <1>2, <1>5 DEF P!VmaOpen, P!module
  <2>2. dev' = [dev EXCEPT !.vmas = dev.vmas + 1] /\ UNCHANGED call  BY <1>3, <2>1
  <2>3. phase # "unloaded" /\ (driver \in {"scullp", "sculld"} => dev.order = 0)
    BY <1>1, <2>1, Held, MappedIs
  <2>4. vma[t] + 1 \in Nat  BY <1>1
  <2> QED BY <2>1, <2>2, <2>3, <2>4 DEF MapStep
<1>6. CASE P!StoreVmas(t)  BY <1>2, <1>6 DEF P!StoreVmas
<1>7. CASE P!VmaClose(t)
  <2>1. /\ fault = "none" /\ vma[t] > 0
        /\ P!CountVmas(t, -1) /\ vma' = [vma EXCEPT ![t] = vma[t] - 1]
        /\ UNCHANGED <<phase, reg, param, cache, list, used, files, fault, stale>>
    BY <1>7 DEF P!VmaClose, P!module
  <2>2. dev' = [dev EXCEPT !.vmas = dev.vmas + (-1)] /\ UNCHANGED call  BY <1>3, <2>1
  <2>3. phase # "unloaded" /\ (driver \in {"scullp", "sculld"} => dev.order = 0)
    BY <1>1, <2>1, Held, MappedIs
  <2>4. vma[t] - 1 = vma[t] + (-1) /\ vma[t] + (-1) \in Nat  BY <1>1, <2>1
  <2> DEFINE d == -1
  <2>5. d \in {1, -1} /\ vma[t] + d \in Nat /\ vma' = [vma EXCEPT ![t] = vma[t] + d]
        /\ dev' = [dev EXCEPT !.vmas = dev.vmas + d]
    BY <2>1, <2>2, <2>4
  <2> HIDE DEF d
  <2> QED BY <2>1, <2>2, <2>3, <2>5 DEF MapStep
<1> QED BY <1>4, <1>5, <1>6, <1>7

-----------------------------------------------------------------------------
(***************************************************************************)
(* Reading and writing, with the sizes q and k that a call has read.       *)
(***************************************************************************)
\* What a read of count bytes at pos does.
Reads(t, count, pos, q, k) ==
  \/ P!Return(t, P!Queue(t)) /\ UNCHANGED <<dev, list, used, fault>>
  \/ P!Dies("oops", list)
  \/ /\ q * k # 0
     /\ LET p     == P!Place(pos, q, k)
            items == Grown(p.item)
            data  == items[p.item]
            n     == P!Min({dev.size - pos, P!InQuantum(count, p, q)})
            beyond == data # <<>> /\ p.slot > Len(data)
            there == data # <<>> /\ ~beyond /\ data[p.slot] # 0
        IN \/ beyond /\ P!Dies("wild", items)
           \/ there /\ p.from + n > data[p.slot] /\ P!Dies("wild", items)
           \/ /\ list' = items
              /\ P!Return(t, P!Queue(t)) /\ UNCHANGED <<dev, used, fault>>

\* What a write of count bytes at pos does.
Writes(t, count, pos, q, k) ==
  \/ P!Dies("oops", list)
  \/ /\ q * k # 0
     /\ LET p     == P!Place(pos, q, k)
            items == Grown(p.item)
            kind  == P!Min({p.item, 2})
            data  == Armed(p.item, k)[p.item]
            n     == P!InQuantum(count, p, q)
            within == p.slot <= Len(data)
            new   == within /\ data[p.slot] = 0
            block == IF new THEN Block(kind) ELSE data[p.slot]
            inside == p.from + n <= block /\ (new => Clear(kind) <= block)
        IN \/ P!Dies("oops", items)
           \/ /\ list' = items \/ list' = Armed(p.item, k)
              /\ P!Return(t, P!Queue(t)) /\ UNCHANGED <<dev, used, fault>>
           \/ ~within /\ P!Dies("wild", items)
           \/ within /\ block > 0 /\ ~inside /\ P!Dies("wild", items)
           \/ /\ within /\ block > 0 /\ inside
              /\ list' = Placed(Armed(p.item, k), p.item, p.slot, block)
              /\ used' = used + (IF new THEN block ELSE 0)
              /\ \/ UNCHANGED dev
                 \/ dev' = [dev EXCEPT !.size = P!Max({dev.size, pos + n})]
              /\ P!Return(t, P!Queue(t)) /\ UNCHANGED fault

\* The sizes of a call are those of the device, or it goes on with old ones.
Late(q, k) ==
  /\ stale' \in BOOLEAN /\ (stale => stale')
  /\ ~stale' => q = Quantum /\ k = dev.qset

\* An offset is a number, and a length is.
LEMMA OffsetIs ==
  ASSUME NEW count \in Counts, NEW pos \in P!Offsets(count), NEW q \in Nat, NEW k \in Nat
  PROVE  /\ pos \in Nat /\ count \in Nat
         /\ q * k # 0 =>
              /\ P!Place(pos, q, k).item \in Nat \ {0}
              /\ P!Place(pos, q, k).slot \in 1 .. k
              /\ P!Place(pos, q, k).from \in 0 .. (q - 1)
              /\ P!InQuantum(count, P!Place(pos, q, k), q) \in Nat
              /\ P!InQuantum(count, P!Place(pos, q, k), q) <= q - P!Place(pos, q, k).from
<1>1. count \in Nat /\ MaxPos \in Int  BY PagesAssumption
<1>2. pos \in Nat  BY <1>1 DEF P!Offsets
<1> DEFINE at == P!Place(pos, q, k)
<1>3. ASSUME q * k # 0
      PROVE  /\ at.item \in Nat \ {0} /\ at.slot \in 1 .. k /\ at.from \in 0 .. (q - 1)
             /\ P!InQuantum(count, at, q) \in Nat
             /\ P!InQuantum(count, at, q) <= q - at.from
  <2>1. at.item \in Nat \ {0} /\ at.slot \in 1 .. k /\ at.from \in 0 .. (q - 1)
    BY <1>2, <1>3, PlaceIs
  <2> HIDE DEF at
  <2> DEFINE m == q - at.from
  <2>2. m \in Nat  BY <2>1
  <2>3. P!InQuantum(count, at, q) = P!Min({count, m})  BY DEF P!InQuantum
  <2> HIDE DEF m
  <2>4. P!Min({count, m}) = Lesser(count, m)
    <3>1. count \in Int /\ m \in Int  BY <1>1, <2>2
    <3>2. \A x, y \in Int : P!Min({x, y}) = Lesser(x, y)  BY LeastAndGreatest
    <3> QED BY <3>1, <3>2
  <2>5. Lesser(count, m) \in Nat /\ Lesser(count, m) <= m  BY <1>1, <2>2 DEF Lesser
  <2> QED BY <2>1, <2>3, <2>4, <2>5 DEF m
<1> QED BY <1>1, <1>2, <1>3

\* A call that ends badly halts: a wild one has old sizes, or quanta are irregular.
LEMMA DiesHalts ==
  ASSUME NEW kind, NEW items, P!Dies(kind, items), UNCHANGED <<phase, reg, param, cache>>,
         NEW q, NEW k, Late(q, k), phase # "unloaded",
         items = list \/ \E n \in Nat : items = Grown(n),
         kind = "oops" \/ (kind = "wild" /\ (~stale' => ~Regular'))
  PROVE  Halts
  BY DEF P!Dies, Late, Walked, Halts

\* A read copies from a block, or finds nothing.
LEMMA ReadsStep ==
  ASSUME PagesInv, fault = "none", NEW t \in Threads, call[t].op = "io",
         UNCHANGED <<driver, phase, reg, param, cache>>,
         NEW count \in Counts, NEW pos \in P!Offsets(count),
         NEW q \in Nat, NEW k \in Nat, Late(q, k), Reads(t, count, pos, q, k)
  PROVE  Halts \/ ReadStep
<1>1. phase # "unloaded"  BY Held
<1>2. Walked <=> list' = list \/ \E n \in Nat : list' = Grown(n)  BY <1>1 DEF Walked, Late
<1>3. CASE P!Return(t, P!Queue(t)) /\ UNCHANGED <<dev, list, used, fault>>
  BY <1>1, <1>2, <1>3, Returns DEF ReadStep
<1>4. CASE P!Dies("oops", list)  BY <1>1, <1>4, DiesHalts
<1> DEFINE p == P!Place(pos, q, k)
           i == p.item
           s == p.slot
           from == p.from
           g == Grown(i)
           data == g[i]
           room == P!InQuantum(count, p, q)
           n == P!Min({dev.size - pos, room})
           beyond == data # <<>> /\ s > Len(data)
           there == data # <<>> /\ ~beyond /\ data[s] # 0
<1>5. \/ <1>3!1
      \/ <1>4!1
      \/ /\ q * k # 0
         /\ \/ beyond /\ P!Dies("wild", g)
            \/ there /\ from + n > data[s] /\ P!Dies("wild", g)
            \/ list' = g /\ P!Return(t, P!Queue(t)) /\ UNCHANGED <<dev, used, fault>>
  BY DEF Reads
<1>6. CASE q * k # 0
  <2>1. /\ i \in Nat \ {0} /\ s \in 1 .. k /\ from \in 0 .. (q - 1)
        /\ room \in Nat /\ room <= q - from /\ pos \in Nat
    BY <1>6, OffsetIs
  <2> HIDE DEF p, room
  <2>2. dev \in [order : Nat, qset : Nat, size : Nat, vmas : Nat] /\ list \in Seq(Seq(Nat))
    BY DEF PagesInv, PagesTypes
  <2>3. /\ g \in Seq(Seq(Nat)) /\ i \in DOMAIN g
        /\ i \in DOMAIN list => data = list[i]
        /\ i \notin DOMAIN list => data = <<>>
    <3> HIDE DEF i
    <3>1. i \in Nat /\ i > 0  BY <2>1
    <3>2. /\ Grown(i) \in Seq(Seq(Nat))
          /\ i > 0 => i \in DOMAIN Grown(i)
          /\ \A j \in DOMAIN Grown(i) :
               /\ j \in DOMAIN list => Grown(i)[j] = list[j]
               /\ j \notin DOMAIN list => Grown(i)[j] = <<>>
      BY <2>2, <3>1, GrownIs
    <3> QED BY <3>1, <3>2
  <2>4. data \in Seq(Nat)
    <3> HIDE DEF g, i
    <3> QED BY <2>3
  <2>5. ASSUME ~stale', data # <<>>
        PROVE  /\ q = Quantum /\ k = dev.qset /\ i \in DOMAIN list /\ data = list[i]
               /\ Len(data) = k /\ ~beyond
    <3>1. q = Quantum /\ k = dev.qset /\ Shaped(list, dev.qset)
      BY <2>5 DEF Late, PagesInv, PagesListed
    <3>2. i \in DOMAIN list /\ data = list[i]  BY <2>3, <2>5
    <3>3. Len(data) = k  BY <2>5, <3>1, <3>2 DEF Shaped
    <3> HIDE DEF data
    <3> QED BY <2>1, <3>1, <3>2, <3>3
  <2>6. ASSUME beyond, P!Dies("wild", g) PROVE Halts
    <3>1. stale'  BY <2>5, <2>6
    <3> HIDE DEF i
    <3> QED BY <1>1, <2>1, <2>6, <3>1, DiesHalts
  <2>7. ASSUME there, from + n > data[s], P!Dies("wild", g) PROVE Halts
    <3>1. ASSUME ~stale' PROVE ~Regular'
      <4>1. /\ q = Quantum /\ i \in DOMAIN list /\ data = list[i] /\ data # <<>>
            /\ Len(data) = k
        BY <2>5, <2>7, <3>1
      <4> DEFINE b == data[s]
      <4>2. s \in DOMAIN data /\ b \in Nat /\ b # 0
        <5> HIDE DEF data, s
        <5>1. s \in DOMAIN data  BY <2>1, <2>4, <4>1
        <5> QED BY <2>4, <2>7, <5>1
      <4>3. b = Block(i)
        <5>1. PagesBlocks  BY <3>1 DEF Late, PagesInv, PagesListed
        <5> QED BY <4>1, <4>2, <5>1 DEF PagesBlocks
      <4>4. n \in Int /\ n <= room
        <5> DEFINE y == dev.size - pos
        <5>1. y \in Int /\ room \in Int  BY <2>1, <2>2
        <5>2. \A v, w \in Int : P!Min({v, w}) = Lesser(v, w)  BY LeastAndGreatest
        <5> HIDE DEF y
        <5>3. n = Lesser(y, room)  BY <5>1, <5>2 DEF y
        <5> QED BY <5>1, <5>3 DEF Lesser
      <4>5. from + n > b  BY <2>7
      <4>6. b < q
        <5> HIDE DEF b, n, from
        <5> QED BY <2>1, <4>2, <4>4, <4>5
      <4>7. Block(i) < Quantum  BY <4>1, <4>3, <4>6
      <4>8. list' = Grown(i) /\ UNCHANGED dev  BY <2>7 DEF P!Dies
      <4> HIDE DEF i
      <4> QED BY <2>1, <4>7, <4>8, ShortIrregular
    <3> HIDE DEF i
    <3> QED BY <1>1, <2>1, <2>7, <3>1, DiesHalts
  <2>8. ASSUME list' = g, P!Return(t, P!Queue(t)), UNCHANGED <<dev, used, fault>>
        PROVE  ReadStep
    <3> HIDE DEF i
    <3>1. Walked  BY <1>2, <2>1, <2>8
    <3> QED BY <1>1, <2>8, <3>1, Returns DEF ReadStep
  <2> QED BY <1>3, <1>4, <1>5, <2>6, <2>7, <2>8
<1> QED BY <1>3, <1>4, <1>5, <1>6

\* A write stays inside its block, or has old sizes, or the block is short.
LEMMA WritesStep ==
  ASSUME PagesInv, fault = "none", NEW t \in Threads, call[t].op = "io",
         UNCHANGED <<driver, phase, reg, param, cache>>,
         NEW count \in Counts, NEW pos \in P!Offsets(count),
         NEW q \in Nat, NEW k \in Nat, Late(q, k), Writes(t, count, pos, q, k)
  PROVE  Halts \/ ReadStep \/ WriteStep
<1>1. phase # "unloaded"  BY Held
<1>2. Walked <=> list' = list \/ \E n \in Nat : list' = Grown(n)  BY <1>1 DEF Walked, Late
<1>3. CASE P!Dies("oops", list)  BY <1>1, <1>3, DiesHalts
<1> DEFINE p == P!Place(pos, q, k)
           i == p.item
           s == p.slot
           from == p.from
           g == Grown(i)
           a == Armed(i, k)
           kind == P!Min({i, 2})
           data == a[i]
           n == P!InQuantum(count, p, q)
           within == s <= Len(data)
           new == within /\ data[s] = 0
           block == IF new THEN Block(kind) ELSE data[s]
           inside == from + n <= block /\ (new => Clear(kind) <= block)
<1>4. CASE q * k # 0
  <2>1. /\ i \in Nat \ {0} /\ s \in 1 .. k /\ from \in 0 .. (q - 1)
        /\ n \in Nat /\ n <= q - from /\ pos \in Nat
    BY <1>4, OffsetIs
  <2>2. dev \in [order : Nat, qset : Nat, size : Nat, vmas : Nat]  BY DEF PagesInv, PagesTypes
  <2>3. \/ <1>3!1
        \/ P!Dies("oops", g)
        \/ /\ list' = g \/ list' = a
           /\ P!Return(t, P!Queue(t)) /\ UNCHANGED <<dev, used, fault>>
        \/ ~within /\ P!Dies("wild", g)
        \/ within /\ block > 0 /\ ~inside /\ P!Dies("wild", g)
        \/ /\ within /\ block > 0 /\ inside
           /\ list' = Placed(a, i, s, block)
           /\ used' = used + (IF new THEN block ELSE 0)
           /\ \/ UNCHANGED dev
              \/ dev' = [dev EXCEPT !.size = P!Max({dev.size, pos + n})]
           /\ P!Return(t, P!Queue(t)) /\ UNCHANGED fault
    BY DEF Writes
  <2> HIDE DEF p, n
  <2>4. /\ a \in Seq(Seq(Nat)) /\ i \in DOMAIN a
        /\ \A j \in DOMAIN a : \A l \in DOMAIN a[j] :
             a[j][l] # 0 => j \in DOMAIN list /\ l \in DOMAIN list[j]
        /\ \A j \in DOMAIN list : \A l \in DOMAIN list[j] : a[j][l] = list[j][l]
        /\ Shaped(list, k) /\ k # 0 => DOMAIN data = 1 .. k
    <3> HIDE DEF i
    <3>1. /\ Armed(i, k) \in Seq(Seq(Nat)) /\ i \in DOMAIN Armed(i, k)
          /\ i \in DOMAIN Grown(i)
          /\ \A j \in DOMAIN list : \A l \in DOMAIN list[j] :
               /\ j \in DOMAIN Armed(i, k) /\ l \in DOMAIN Armed(i, k)[j]
               /\ Armed(i, k)[j][l] = list[j][l]
          /\ \A j \in DOMAIN Armed(i, k) : \A l \in DOMAIN Armed(i, k)[j] :
               Armed(i, k)[j][l] # 0 => j \in DOMAIN list /\ l \in DOMAIN list[j]
          /\ Armed(i, k)[i] = IF Grown(i)[i] # <<>> THEN Grown(i)[i] ELSE [l \in 1 .. k |-> 0]
          /\ Shaped(list, k) => /\ Shaped(Armed(i, k), k) /\ Total(Armed(i, k)) = Total(list)
                                /\ k # 0 => DOMAIN Armed(i, k)[i] = 1 .. k
      BY <2>1, ArmedIs
    <3> QED BY <3>1
  <2>5. data \in Seq(Nat)
    <3> HIDE DEF i, a
    <3> QED BY <2>4
  <2>6. within => s \in DOMAIN data /\ data[s] \in Nat
    <3> HIDE DEF data, s
    <3> QED BY <2>1, <2>5
  <2>7. kind \in {1, 2} /\ Block(kind) = Block(i) /\ Clear(kind) = Clear(i)
    <3>1. i \in Int /\ 2 \in Int /\ i # 0 /\ i >= 0  BY <2>1
    <3>2. \A v, w \in Int : P!Min({v, w}) = Lesser(v, w)  BY LeastAndGreatest
    <3> HIDE DEF i
    <3>3. kind = Lesser(i, 2)  BY <3>1, <3>2
    <3> HIDE DEF kind
    <3>4. kind \in {1, 2} /\ (kind = 1 <=> i = 1)  BY <3>1, <3>3 DEF Lesser
    <3> QED BY <3>4 DEF Block, Clear
  <2>8. Block(i) \in Nat /\ Clear(i) \in Nat  BY <2>7, QuantumIs
  <2>9. ASSUME ~stale'
        PROVE  /\ q = Quantum /\ k = dev.qset /\ within /\ PagesBlocks
               /\ \E l : used = Total(l) /\ Shaped(l, dev.qset)
               /\ block \in {0, Block(i)}
    <3>1. q = Quantum /\ k = dev.qset /\ PagesListed  BY <2>9 DEF Late, PagesInv
    <3>2. Shaped(list, dev.qset) /\ PagesBlocks /\ used = Total(list)
      BY <3>1 DEF PagesListed
    <3>3. DOMAIN data = 1 .. k /\ k \in Nat
      <4> HIDE DEF data, s
      <4> QED BY <2>1, <2>4, <3>1, <3>2
    <3>4. within
      <4> HIDE DEF data, s
      <4>1. Len(data) = k  BY <2>5, <3>3
      <4> QED BY <2>1, <4>1
    <3>5. data[s] # 0 => data[s] = Block(i)
      <4> SUFFICES ASSUME data[s] # 0 PROVE data[s] = Block(i)
        OBVIOUS
      <4>1. s \in DOMAIN data  BY <2>6, <3>4
      <4>2. i \in DOMAIN list /\ s \in DOMAIN list[i] /\ data[s] = list[i][s]
        BY <2>4, <4>1
      <4> QED BY <3>2, <4>2 DEF PagesBlocks
    <3>6. block \in {0, Block(i)}  BY <2>7, <3>5
    <3> QED BY <3>1, <3>2, <3>4, <3>6
  <2>10. ASSUME list' = g \/ list' = a, P!Return(t, P!Queue(t)), UNCHANGED <<dev, used, fault>>
         PROVE  ReadStep \/ WriteStep
    <3> HIDE DEF i, s
    <3>1. CASE list' = g
      <4>1. Walked  BY <1>2, <2>1, <3>1
      <4> QED BY <1>1, <2>10, <4>1, Returns DEF ReadStep
    <3>2. CASE list' = a
      <4>1. stale' \/ k = dev.qset  BY DEF Late
      <4> QED BY <1>1, <2>1, <2>10, <3>2, <4>1, Returns DEF WriteStep, Late
    <3> QED BY <2>10, <3>1, <3>2
  <2>11. ASSUME P!Dies("oops", g) PROVE Halts
    <3> HIDE DEF i
    <3> QED BY <1>1, <2>1, <2>11, DiesHalts
  <2>12. ASSUME ~within, P!Dies("wild", g) PROVE Halts
    <3>1. stale'  BY <2>9, <2>12
    <3> HIDE DEF i, within
    <3> QED BY <1>1, <2>1, <2>12, <3>1, DiesHalts
  <2>13. ASSUME block > 0, ~inside, P!Dies("wild", g) PROVE Halts
    <3>1. ASSUME ~stale' PROVE ~Regular'
      <4>1. q = Quantum /\ block = Block(i)
        <5>1. block # 0
          <6> HIDE DEF block
          <6> QED BY <2>13
        <5> QED BY <2>9, <3>1, <5>1
      <4>2. Block(i) < Quantum \/ Clear(i) > Block(i)
        <5>1. CASE ~(from + n <= block)
          <6> DEFINE b == Block(i)
          <6>1. b \in Nat /\ ~(from + n <= b)  BY <2>8, <4>1, <5>1
          <6> HIDE DEF b, from
          <6>2. b < q  BY <2>1, <6>1
          <6> QED BY <4>1, <6>2 DEF b
        <5>2. CASE ~(Clear(kind) <= block)
          <6>1. ~(Clear(i) <= Block(i))  BY <2>7, <4>1, <5>2
          <6> QED BY <2>8, <6>1
        <5> QED BY <2>13, <5>1, <5>2
      <4>3. list' = Grown(i) /\ UNCHANGED dev  BY <2>13 DEF P!Dies
      <4> HIDE DEF i
      <4> QED BY <2>1, <4>2, <4>3, ShortIrregular
    <3> HIDE DEF i, block, inside
    <3> QED BY <1>1, <2>1, <2>13, <3>1, DiesHalts
  <2>14. ASSUME within, block > 0, list' = Placed(a, i, s, block),
                used' = used + (IF new THEN block ELSE 0),
                \/ UNCHANGED dev
                \/ dev' = [dev EXCEPT !.size = P!Max({dev.size, pos + n})],
                P!Return(t, P!Queue(t)), UNCHANGED fault
         PROVE  WriteStep
    <3>1. dev' = dev \/ \E z \in Nat : dev' = [dev EXCEPT !.size = z]
      <4> DEFINE y == pos + n
                 z == P!Max({dev.size, y})
      <4>1. dev.size \in Nat /\ y \in Nat  BY <2>1, <2>2
      <4>2. \A v, w \in Int : P!Max({v, w}) = IF v <= w THEN w ELSE v  BY LeastAndGreatest
      <4> HIDE DEF y
      <4>3. z \in Nat  BY <4>1, <4>2
      <4>4. dev' = dev \/ dev' = [dev EXCEPT !.size = z]  BY <2>14 DEF y
      <4> QED BY <4>3, <4>4
    <3>2. block \in Nat \ {0}
      <4>1. block \in Nat  BY <2>6, <2>7, <2>8, <2>14
      <4> HIDE DEF block
      <4> QED BY <2>14, <4>1
    <3>3. a[i][s] \in {0, block}  BY <2>14
    <3>4. ASSUME ~stale'
          PROVE  \/ a[i][s] = 0 /\ used' = used + block /\ block = Block(i)
                 \/ a[i][s] = block /\ used' = used
      <4>1. used \in Nat
        <5>1. PICK l : used = Total(l) /\ Shaped(l, dev.qset)  BY <2>9, <3>4
        <5> QED BY <2>2, <5>1, TotalNat
      <4>2. CASE new  BY <2>7, <2>14, <4>2
      <4>3. CASE ~new
        <5>1. used' = used  BY <2>14, <4>1, <4>3
        <5> QED BY <4>3, <5>1
      <4> QED BY <4>2, <4>3
    <3>5. call' \in [Threads -> Calls] /\ UNCHANGED <<files, vma>>  BY <2>14, Returns
    <3>6. stale' \/ k = dev.qset  BY DEF Late
    <3>7. s \in DOMAIN a[i]  BY <2>6, <2>14
    <3>8. stale' \in BOOLEAN /\ (stale => stale')  BY DEF Late
    <3>9. list' = Placed(a, i, s, block)  BY <2>14
    <3> HIDE DEF i, s, block
    <3> QED BY <1>1, <2>1, <2>14, <3>1, <3>2, <3>3, <3>4, <3>5, <3>6, <3>7, <3>8, <3>9
            DEF WriteStep
  <2> QED BY <1>3, <2>3, <2>10, <2>11, <2>12, <2>13, <2>14
<1> QED BY <1>3, <1>4 DEF Writes

\* A call that is served goes on with the sizes that it has read.
LEMMA ServingIs ==
  ASSUME PagesInv, NEW t \in Threads, P!Serving(t, Quantum)
  PROVE  /\ fault = "none" /\ call[t].op = "io"
         /\ call[t].quantum \in Nat /\ call[t].qset \in Nat
         /\ Late(call[t].quantum, call[t].qset)
         /\ UNCHANGED <<phase, reg, param, cache>>
<1>1. /\ fault = "none" /\ call[t].op = "io" /\ UNCHANGED <<phase, reg, param, cache>>
      /\ stale' = (stale \/ <<call[t].quantum, call[t].qset>> # <<Quantum, dev.qset>>)
  BY DEF P!Serving, P!module
<1>2. stale \in BOOLEAN  BY DEF PagesInv, PagesTypes
<1>3. Late(call[t].quantum, call[t].qset)  BY <1>1, <1>2 DEF Late
<1> QED BY <1>1, <1>3, Held

\* A read that is served.
LEMMA ReadCalls ==
  ASSUME PagesInv, UNCHANGED driver, NEW t \in Threads, P!Read(t, Quantum, P!Queue(t))
  PROVE  fault = "none" /\ (Halts \/ ReadStep)
<1> DEFINE q == call[t].quantum
           k == call[t].qset
           R(count, pos) ==
       \/ pos > dev.size /\ P!Return(t, P!Queue(t)) /\ UNCHANGED <<P!device, fault>>
       \/ pos <= dev.size /\ P!NoGeometry(t) /\ P!Dies("oops", list)
       \/ /\ pos <= dev.size /\ ~P!NoGeometry(t)
          /\ LET p     == P!Place(pos, call[t].quantum, call[t].qset)
                 items == P!Follow(p.item)
                 data  == items[p.item]
                 n     == P!Min({dev.size - pos, P!InQuantum(count, p, call[t].quantum)})
                 beyond == data # <<>> /\ p.slot > Len(data)
                 there == data # <<>> /\ ~beyond /\ data[p.slot] # 0
             IN \/ p.item > Len(list) /\ P!Dies("oops", list)
                \/ beyond /\ P!Dies("wild", items)
                \/ there /\ p.from + n > data[p.slot] /\ P!Dies("wild", items)
                \/ /\ ~beyond /\ (there => p.from + n <= data[p.slot])
                   /\ list' = items
                   /\ P!Return(t, P!Queue(t)) /\ UNCHANGED <<dev, used, fault>>
<1>1. /\ fault = "none" /\ call[t].op = "io" /\ q \in Nat /\ k \in Nat /\ Late(q, k)
      /\ UNCHANGED <<phase, reg, param, cache>>
  BY ServingIs DEF P!Read
<1>2. \E count \in Counts : \E pos \in P!Offsets(count) : R(count, pos)
  BY DEF P!Read
<1>3. PICK count \in Counts : \E pos \in P!Offsets(count) : R(count, pos)  BY <1>2
<1>4. PICK pos \in P!Offsets(count) : R(count, pos)  BY <1>3
<1>5. Reads(t, count, pos, q, k)
  <2>1. CASE P!NoGeometry(t)
    BY <1>4, <2>1 DEF Reads, P!device
  <2>2. CASE ~P!NoGeometry(t)
    <3>1. q * k # 0  BY <2>2 DEF P!NoGeometry
    <3> DEFINE p == P!Place(pos, q, k)
    <3>2. P!Follow(p.item) = Grown(p.item)
      <4>1. p.item \in Nat  BY <1>1, <3>1, OffsetIs
      <4>2. list \in Seq(Seq(Nat))  BY DEF PagesInv, PagesTypes
      <4> HIDE DEF p
      <4> QED BY <4>1, <4>2, FollowIs
    <3> QED BY <1>4, <2>2, <3>1, <3>2 DEF Reads, P!device
  <2> QED BY <2>1, <2>2
<1> HIDE DEF q, k
<1> QED BY <1>1, <1>5, ReadsStep

\* A write that is served.
LEMMA WriteCalls ==
  ASSUME PagesInv, UNCHANGED driver, NEW t \in Threads,
         P!Write(t, Quantum, Lens, Clears, P!Queue(t))
  PROVE  fault = "none" /\ (Halts \/ ReadStep \/ WriteStep)
<1> DEFINE q == call[t].quantum
           k == call[t].qset
           W(count, pos) ==
       \/ P!NoGeometry(t) /\ P!Dies("oops", list)
       \/ /\ ~P!NoGeometry(t)
          /\ LET p     == P!Place(pos, call[t].quantum, call[t].qset)
                 items == P!Follow(p.item)
                 kind  == P!Min({p.item, 2})
                 data  == IF items[p.item] # <<>> THEN items[p.item]
                          ELSE [s \in 1 .. call[t].qset |-> 0]
                 n     == P!InQuantum(count, p, call[t].quantum)
                 within == p.slot <= Len(data)
                 new   == within /\ data[p.slot] = 0
                 block == IF new THEN Lens[kind] ELSE data[p.slot]
                 inside == p.from + n <= block /\ (new => Clears[kind] <= block)
             IN \/ p.item > Len(list) /\ P!Dies("oops", list)
                \/ /\ \/ items[p.item] = <<>> /\ list' = items
                      \/ /\ new
                         /\ list' = [items EXCEPT ![p.item] = data]
                   /\ P!Return(t, P!Queue(t)) /\ UNCHANGED <<dev, used, fault>>
                \/ new /\ Lens[kind] = 0 /\ P!Dies("oops", items)
                \/ ~within /\ P!Dies("wild", items)
                \/ within /\ block > 0 /\ ~inside /\ P!Dies("wild", items)
                \/ /\ within /\ block > 0 /\ inside
                   /\ list' = [items EXCEPT ![p.item] = [data EXCEPT ![p.slot] = block]]
                   /\ used' = used + (IF new THEN block ELSE 0)
                   /\ \/ UNCHANGED dev
                      \/ dev' = [dev EXCEPT !.size = P!Max({dev.size, pos + n})]
                   /\ P!Return(t, P!Queue(t)) /\ UNCHANGED fault
<1>1. /\ fault = "none" /\ call[t].op = "io" /\ q \in Nat /\ k \in Nat /\ Late(q, k)
      /\ UNCHANGED <<phase, reg, param, cache>>
  BY ServingIs DEF P!Write
<1>2. \E count \in Counts : \E pos \in P!Offsets(count) : W(count, pos)
  BY DEF P!Write
<1>3. PICK count \in Counts : \E pos \in P!Offsets(count) : W(count, pos)  BY <1>2
<1>4. PICK pos \in P!Offsets(count) : W(count, pos)  BY <1>3
<1>5. Writes(t, count, pos, q, k)
  <2>1. CASE P!NoGeometry(t)  BY <1>4, <2>1 DEF Writes
  <2>2. CASE ~P!NoGeometry(t)
    <3> DEFINE p == P!Place(pos, q, k)
               i == p.item
               s == p.slot
               g == Grown(i)
               a == Armed(i, k)
               data == a[i]
               kind == P!Min({i, 2})
               room == P!InQuantum(count, p, q)
               within == s <= Len(data)
               new == within /\ data[s] = 0
               block == IF new THEN Block(kind) ELSE data[s]
               inside == p.from + room <= block /\ (new => Clear(kind) <= block)
    <3>1. q * k # 0  BY <2>2 DEF P!NoGeometry
    <3>2. i \in Nat \ {0}  BY <1>1, <3>1, OffsetIs
    <3>3. P!Follow(i) = g
      <4>1. list \in Seq(Seq(Nat))  BY DEF PagesInv, PagesTypes
      <4> HIDE DEF i
      <4> QED BY <3>2, <4>1, FollowIs
    <3>4. i \in DOMAIN g
      <4>1. list \in Seq(Seq(Nat))  BY DEF PagesInv, PagesTypes
      <4> HIDE DEF i
      <4> QED BY <3>2, <4>1, GrownIs
    <3>5. data = IF g[i] # <<>> THEN g[i] ELSE [l \in 1 .. k |-> 0]
      BY <3>4 DEF Armed
    <3>6. [g EXCEPT ![i] = data] = a  BY <3>5 DEF Armed
    <3>7. \A d : [g EXCEPT ![i] = d] = [a EXCEPT ![i] = d]  BY DEF Armed
    <3>8. kind \in {1, 2}
      <4>1. i \in Int /\ 2 \in Int /\ i # 0 /\ i >= 0  BY <3>2
      <4>2. \A v, w \in Int : P!Min({v, w}) = Lesser(v, w)  BY LeastAndGreatest
      <4> HIDE DEF i
      <4>3. kind = Lesser(i, 2)  BY <4>1, <4>2
      <4> QED BY <4>1, <4>3 DEF Lesser
    <3>9. Lens[kind] = Block(kind) /\ Clears[kind] = Clear(kind)  BY <3>8 DEF Lens, Clears
    <3>10. \/ P!Dies("oops", list) \/ P!Dies("oops", g)
           \/ /\ list' = g \/ list' = [g EXCEPT ![i] = data]
              /\ P!Return(t, P!Queue(t)) /\ UNCHANGED <<dev, used, fault>>
           \/ ~within /\ P!Dies("wild", g)
           \/ within /\ block > 0 /\ ~inside /\ P!Dies("wild", g)
           \/ /\ within /\ block > 0 /\ inside
              /\ list' = [g EXCEPT ![i] = [data EXCEPT ![s] = block]]
              /\ used' = used + (IF new THEN block ELSE 0)
              /\ \/ UNCHANGED dev
                 \/ dev' = [dev EXCEPT !.size = P!Max({dev.size, pos + room})]
              /\ P!Return(t, P!Queue(t)) /\ UNCHANGED fault
      <4> DEFINE e == IF g[i] # <<>> THEN g[i] ELSE [l \in 1 .. k |-> 0]
                 fit == s <= Len(e)
                 free == fit /\ e[s] = 0
                 size == IF free THEN Lens[kind] ELSE e[s]
                 fits == p.from + room <= size /\ (free => Clears[kind] <= size)
      <4>1. \/ P!Dies("oops", list) \/ P!Dies("oops", g)
            \/ /\ list' = g \/ list' = [g EXCEPT ![i] = e]
               /\ P!Return(t, P!Queue(t)) /\ UNCHANGED <<dev, used, fault>>
            \/ ~fit /\ P!Dies("wild", g)
            \/ fit /\ size > 0 /\ ~fits /\ P!Dies("wild", g)
            \/ /\ fit /\ size > 0 /\ fits
               /\ list' = [g EXCEPT ![i] = [e EXCEPT ![s] = size]]
               /\ used' = used + (IF free THEN size ELSE 0)
               /\ \/ UNCHANGED dev
                  \/ dev' = [dev EXCEPT !.size = P!Max({dev.size, pos + room})]
               /\ P!Return(t, P!Queue(t)) /\ UNCHANGED fault
        BY <1>4, <2>2, <3>3
      <4>2. e = data  BY <3>5
      <4> HIDE DEF data, kind, g, e, p, q, i, s, room
      <4> QED BY <3>9, <4>1, <4>2
    <3>11. list' = [g EXCEPT ![i] = [data EXCEPT ![s] = block]]
             => list' = Placed(a, i, s, block)
      BY <3>7 DEF Placed
    <3> HIDE DEF block, inside, room
    <3> QED BY <3>1, <3>6, <3>10, <3>11 DEF Writes, block, inside, room
  <2> QED BY <2>1, <2>2
<1> HIDE DEF q, k
<1> QED BY <1>1, <1>5, WritesStep

-----------------------------------------------------------------------------
(***************************************************************************)
(* The drivers.                                                            *)
(***************************************************************************)
\* What a process does with any of the drivers.
Acts(t) ==
  \/ P!Open(t, P!Trim) \/ P!Release(t) \/ P!Enter(t, Quantum)
  \/ P!Complete(t) \/ P!Interrupted(t, P!Queue(t))
  \/ \E found \in BOOLEAN : P!PageFault(t, found)
  \/ P!Read(t, Quantum, P!Queue(t))
  \/ P!Write(t, Quantum, Lens, Clears, P!Queue(t))
  \/ P!Ready(t) /\ param' \in Params
     /\ UNCHANGED <<phase, reg, cache, dev, list, used, files, call, vma, work, fault,
                    stale>>

\* The mappings of those drivers that have some.
Maps(t) ==
  \/ P!Mmap(t, driver = "scullv" \/ dev.order = 0)
  \/ P!VmaOpen(t) \/ P!StoreVmas(t) \/ P!VmaClose(t)

\* Both are steps.
LEMMA ActsStep ==
  ASSUME PagesInv, ~Smp, UNCHANGED driver, NEW t \in Threads,
         Acts(t) \/ (driver # "scullc" /\ Maps(t))
  PROVE  Step
<1>1. CASE P!Read(t, Quantum, P!Queue(t))  BY <1>1, ReadCalls DEF Step
<1>2. CASE P!Write(t, Quantum, Lens, Clears, P!Queue(t))  BY <1>2, WriteCalls DEF Step
<1>3. CASE P!Ready(t) /\ param' \in Params
           /\ UNCHANGED <<phase, reg, cache, dev, list, used, files, call, vma, work, fault,
                          stale>>
  <2>1. call \in [Threads -> Calls]  BY DEF PagesInv, PagesTypes
  <2> QED BY <1>3, <2>1 DEF Step, CallStep, P!Ready
<1>4. CASE driver # "scullc" /\ Maps(t)  BY <1>4, MapCalls DEF Maps, Step
<1>5. CASE \/ P!Open(t, P!Trim) \/ P!Release(t) \/ P!Enter(t, Quantum)
           \/ P!Complete(t) \/ P!Interrupted(t, P!Queue(t))
           \/ \E found \in BOOLEAN : P!PageFault(t, found)
  BY <1>5, OtherCalls DEF Step
<1> QED BY <1>1, <1>2, <1>3, <1>4, <1>5 DEF Acts

\* Loading, which may fail.
Loads ==
  \/ P!Load(IF driver = "scullc" THEN "coming" ELSE "live",
            IF driver = "sculld" THEN {"driver", "ldevs"} ELSE {})
  \/ P!LoadFails(IF driver = "sculld" THEN {"driver"} ELSE {})

\* It is a step.
LEMMA LoadsStep == PagesInv /\ UNCHANGED driver /\ Loads => Step
<1> SUFFICES ASSUME PagesInv, UNCHANGED driver, Loads PROVE Step
  OBVIOUS
<1>1. /\ fault = "none" /\ phase = "unloaded"
      /\ UNCHANGED <<param, cache, list, used, files, call, vma, fault, stale>>
  BY DEF Loads, P!Load, P!LoadFails, P!device
<1>2. reg \subseteq IF driver = "sculld" THEN {"driver"} ELSE {}
  BY <1>1 DEF PagesInv, PagesLoaded
<1> QED BY <1>1, <1>2 DEF Loads, P!Load, P!LoadFails, P!device, Step, LoadStep

\* A trim that looks beyond the end of an array follows a call with old sizes.
LEMMA OverrunStep ==
  PagesInv /\ UNCHANGED driver /\ fault = "none" /\ P!Overruns /\ P!Crash("wild") => Step
<1> SUFFICES ASSUME PagesInv, UNCHANGED driver, fault = "none", P!Overruns, P!Crash("wild")
             PROVE  Step
  OBVIOUS
<1>1. stale /\ stale \in BOOLEAN  BY NoOverrun DEF PagesInv, PagesTypes
<1> QED BY <1>1 DEF P!Crash, P!module, P!device, Halts, Walked, Step

\* Unloading takes a trim, which no mapping refuses.
LEMMA Unloads ==
  ASSUME PagesInv, UNCHANGED driver, fault = "none", phase # "unloaded", P!Unused, P!Trim,
         phase' = "unloaded", reg' = {}, cache' = 0, param' \in Params,
         UNCHANGED <<files, call, vma, fault, stale>>
  PROVE  Step
<1>1. \A t \in Threads : t \notin files /\ vma[t] = 0 /\ call[t] = NoCall
  BY Held DEF P!Unused
<1>2. files = {}  BY <1>1 DEF PagesInv, PagesTypes
<1>3. dev.vmas = 0  BY <1>1, MappedIs
<1>4. Trimmed  BY <1>3, Trims
<1> QED BY <1>1, <1>2, <1>4 DEF Step, UnloadStep


\* The code of scullc is that of scullp.
LEMMA CSame ==
  ASSUME NEW t, NEW quantum, NEW len, NEW clear, NEW next, NEW more,
         NEW allowed \in BOOLEAN
  PROVE  /\ (C!Trim <=> P!Trim)
         /\ (C!Open(t, C!Trim) <=> P!Open(t, P!Trim))
         /\ (C!Release(t) <=> P!Release(t))
         /\ (C!Enter(t, quantum) <=> P!Enter(t, quantum))
         /\ (C!Complete(t) <=> P!Complete(t))
         /\ (C!Interrupted(t, C!Queue(t))
              <=> P!Interrupted(t, P!Queue(t)))
         /\ (C!Read(t, quantum, C!Queue(t)) <=> P!Read(t, quantum, P!Queue(t)))
         /\ (C!Write(t, quantum, len, clear, C!Queue(t))
              <=> P!Write(t, quantum, len, clear, P!Queue(t)))
         /\ (C!Ready(t) <=> P!Ready(t))
         /\ (C!Load(next, more) <=> P!Load(next, more))
         /\ (C!LoadFails(more) <=> P!LoadFails(more))
         /\ (C!Unused <=> P!Unused)
         /\ (C!Overruns <=> P!Overruns)
         /\ (C!Crash("wild") <=> P!Crash("wild"))
<1>1. C!Trim <=> P!Trim
  BY DEF C!Trim, P!Trim, C!device, P!device, C!Pages, P!Pages, C!MapThenSumSet, P!MapThenSumSet,
         C!MapThenFoldSet, P!MapThenFoldSet, C!Min, P!Min
<1>2. C!Open(t, C!Trim) <=> P!Open(t, P!Trim)
  BY <1>1 DEF C!Open, P!Open, C!Overruns, P!Overruns, C!Crash, P!Crash, C!module, P!module,
         C!device, P!device
<1>3. C!Release(t) <=> P!Release(t)
  BY DEF C!Release, P!Release, C!Ready, P!Ready, C!NoCall, P!NoCall, C!module, P!module,
         C!device, P!device
<1>4. C!Enter(t, quantum) <=> P!Enter(t, quantum)
  BY DEF C!Enter, P!Enter, C!Ready, P!Ready, C!NoCall, P!NoCall, C!module, P!module, C!device,
         P!device
<1>5. C!Complete(t) <=> P!Complete(t)
  BY DEF C!Complete, P!Complete, C!module, P!module, C!device, P!device
<1>6. C!Interrupted(t, C!Queue(t))
              <=> P!Interrupted(t, P!Queue(t))
  BY DEF C!Interrupted, P!Interrupted, C!Return, P!Return, C!Queue, P!Queue, C!Cardinality,
         P!Cardinality, C!NoCall, P!NoCall, C!module, P!module, C!device, P!device
<1>7. C!Read(t, quantum, C!Queue(t)) <=> P!Read(t, quantum, P!Queue(t))
  BY DEF C!Read, P!Read, C!Serving, P!Serving, C!NoGeometry, P!NoGeometry, C!Offsets, P!Offsets,
         C!Place, P!Place, C!Follow, P!Follow, C!InQuantum, P!InQuantum, C!Min, P!Min, C!Max,
         P!Max, C!Dies, P!Dies, C!module, P!module, C!device, P!device, C!Return, P!Return,
         C!Queue, P!Queue, C!Cardinality, P!Cardinality, C!NoCall, P!NoCall
<1>8. C!Write(t, quantum, len, clear, C!Queue(t))
              <=> P!Write(t, quantum, len, clear, P!Queue(t))
  BY DEF C!Write, P!Write, C!Serving, P!Serving, C!NoGeometry, P!NoGeometry, C!Offsets,
         P!Offsets, C!Place, P!Place, C!Follow, P!Follow, C!InQuantum, P!InQuantum, C!Min,
         P!Min, C!Max, P!Max, C!Dies, P!Dies, C!module, P!module, C!device, P!device, C!Return,
         P!Return, C!Queue, P!Queue, C!Cardinality, P!Cardinality, C!NoCall, P!NoCall
<1>9. C!Ready(t) <=> P!Ready(t)
  BY DEF C!Ready, P!Ready, C!NoCall, P!NoCall
<1>10. C!Load(next, more) <=> P!Load(next, more)
  BY DEF C!Load, P!Load
<1>11. C!LoadFails(more) <=> P!LoadFails(more)
  BY DEF C!LoadFails, P!LoadFails, C!device, P!device
<1>12. C!Unused <=> P!Unused
  BY DEF C!Unused, P!Unused, C!NoCall, P!NoCall
<1>13. C!Overruns <=> P!Overruns
  BY DEF C!Overruns, P!Overruns
<1>14. C!Crash("wild") <=> P!Crash("wild")
  BY DEF C!Crash, P!Crash, C!module, P!module, C!device, P!device
<1> QED BY <1>1, <1>2, <1>3, <1>4, <1>5, <1>6, <1>7, <1>8, <1>9, <1>10, <1>11, <1>12, <1>13, <1>14

\* The code of sculld is that of scullp.
LEMMA DSame ==
  ASSUME NEW t, NEW quantum, NEW len, NEW clear, NEW next, NEW more,
         NEW allowed \in BOOLEAN
  PROVE  /\ (D!Trim <=> P!Trim)
         /\ (D!Open(t, D!Trim) <=> P!Open(t, P!Trim))
         /\ (D!Release(t) <=> P!Release(t))
         /\ (D!Enter(t, quantum) <=> P!Enter(t, quantum))
         /\ (D!Complete(t) <=> P!Complete(t))
         /\ (D!Interrupted(t, D!Queue(t))
              <=> P!Interrupted(t, P!Queue(t)))
         /\ (D!Read(t, quantum, D!Queue(t)) <=> P!Read(t, quantum, P!Queue(t)))
         /\ (D!Write(t, quantum, len, clear, D!Queue(t))
              <=> P!Write(t, quantum, len, clear, P!Queue(t)))
         /\ (D!Ready(t) <=> P!Ready(t))
         /\ (D!Load(next, more) <=> P!Load(next, more))
         /\ (D!LoadFails(more) <=> P!LoadFails(more))
         /\ (D!Unused <=> P!Unused)
         /\ (D!Overruns <=> P!Overruns)
         /\ (D!Crash("wild") <=> P!Crash("wild"))
         /\ (D!Mmap(t, allowed) <=> P!Mmap(t, allowed))
         /\ (D!VmaOpen(t) <=> P!VmaOpen(t))
         /\ (D!VmaClose(t) <=> P!VmaClose(t))
         /\ (D!StoreVmas(t) <=> P!StoreVmas(t))
         /\ (D!PageFault(t, allowed) <=> P!PageFault(t, allowed))
<1>1. D!Trim <=> P!Trim
  BY DEF D!Trim, P!Trim, D!device, P!device, D!Pages, P!Pages, D!MapThenSumSet, P!MapThenSumSet,
         D!MapThenFoldSet, P!MapThenFoldSet, D!Min, P!Min
<1>2. D!Open(t, D!Trim) <=> P!Open(t, P!Trim)
  BY <1>1 DEF D!Open, P!Open, D!Overruns, P!Overruns, D!Crash, P!Crash, D!module, P!module,
         D!device, P!device
<1>3. D!Release(t) <=> P!Release(t)
  BY DEF D!Release, P!Release, D!Ready, P!Ready, D!NoCall, P!NoCall, D!module, P!module,
         D!device, P!device
<1>4. D!Enter(t, quantum) <=> P!Enter(t, quantum)
  BY DEF D!Enter, P!Enter, D!Ready, P!Ready, D!NoCall, P!NoCall, D!module, P!module, D!device,
         P!device
<1>5. D!Complete(t) <=> P!Complete(t)
  BY DEF D!Complete, P!Complete, D!module, P!module, D!device, P!device
<1>6. D!Interrupted(t, D!Queue(t))
              <=> P!Interrupted(t, P!Queue(t))
  BY DEF D!Interrupted, P!Interrupted, D!Return, P!Return, D!Queue, P!Queue, D!Cardinality,
         P!Cardinality, D!NoCall, P!NoCall, D!module, P!module, D!device, P!device
<1>7. D!Read(t, quantum, D!Queue(t)) <=> P!Read(t, quantum, P!Queue(t))
  BY DEF D!Read, P!Read, D!Serving, P!Serving, D!NoGeometry, P!NoGeometry, D!Offsets, P!Offsets,
         D!Place, P!Place, D!Follow, P!Follow, D!InQuantum, P!InQuantum, D!Min, P!Min, D!Max,
         P!Max, D!Dies, P!Dies, D!module, P!module, D!device, P!device, D!Return, P!Return,
         D!Queue, P!Queue, D!Cardinality, P!Cardinality, D!NoCall, P!NoCall
<1>8. D!Write(t, quantum, len, clear, D!Queue(t))
              <=> P!Write(t, quantum, len, clear, P!Queue(t))
  BY DEF D!Write, P!Write, D!Serving, P!Serving, D!NoGeometry, P!NoGeometry, D!Offsets,
         P!Offsets, D!Place, P!Place, D!Follow, P!Follow, D!InQuantum, P!InQuantum, D!Min,
         P!Min, D!Max, P!Max, D!Dies, P!Dies, D!module, P!module, D!device, P!device, D!Return,
         P!Return, D!Queue, P!Queue, D!Cardinality, P!Cardinality, D!NoCall, P!NoCall
<1>9. D!Ready(t) <=> P!Ready(t)
  BY DEF D!Ready, P!Ready, D!NoCall, P!NoCall
<1>10. D!Load(next, more) <=> P!Load(next, more)
  BY DEF D!Load, P!Load
<1>11. D!LoadFails(more) <=> P!LoadFails(more)
  BY DEF D!LoadFails, P!LoadFails, D!device, P!device
<1>12. D!Unused <=> P!Unused
  BY DEF D!Unused, P!Unused, D!NoCall, P!NoCall
<1>13. D!Overruns <=> P!Overruns
  BY DEF D!Overruns, P!Overruns
<1>14. D!Crash("wild") <=> P!Crash("wild")
  BY DEF D!Crash, P!Crash, D!module, P!module, D!device, P!device
<1>15. D!Mmap(t, allowed) <=> P!Mmap(t, allowed)
  BY DEF D!Mmap, P!Mmap, D!Ready, P!Ready, D!NoCall, P!NoCall, D!CountVmas, P!CountVmas,
         D!module, P!module
<1>16. D!VmaOpen(t) <=> P!VmaOpen(t)
  BY DEF D!VmaOpen, P!VmaOpen, D!NoCall, P!NoCall, D!CountVmas, P!CountVmas, D!module, P!module
<1>17. D!VmaClose(t) <=> P!VmaClose(t)
  BY DEF D!VmaClose, P!VmaClose, D!NoCall, P!NoCall, D!CountVmas, P!CountVmas, D!module,
         P!module
<1>18. D!StoreVmas(t) <=> P!StoreVmas(t)
  BY DEF D!StoreVmas, P!StoreVmas, D!NoCall, P!NoCall, D!module, P!module
<1>19. D!PageFault(t, allowed) <=> P!PageFault(t, allowed)
  BY DEF D!PageFault, P!PageFault, D!Present, P!Present, D!Nopage, P!Nopage, D!Beyond, P!Beyond,
         D!Crash, P!Crash, D!module, P!module, D!device, P!device
<1> QED BY <1>1, <1>2, <1>3, <1>4, <1>5, <1>6, <1>7, <1>8, <1>9, <1>10, <1>11, <1>12, <1>13, <1>14, <1>15, <1>16, <1>17, <1>18, <1>19

\* The code of scullv is that of scullp.
LEMMA VSame ==
  ASSUME NEW t, NEW quantum, NEW len, NEW clear, NEW next, NEW more,
         NEW allowed \in BOOLEAN
  PROVE  /\ (V!Trim <=> P!Trim)
         /\ (V!Open(t, V!Trim) <=> P!Open(t, P!Trim))
         /\ (V!Release(t) <=> P!Release(t))
         /\ (V!Enter(t, quantum) <=> P!Enter(t, quantum))
         /\ (V!Complete(t) <=> P!Complete(t))
         /\ (V!Interrupted(t, V!Queue(t))
              <=> P!Interrupted(t, P!Queue(t)))
         /\ (V!Read(t, quantum, V!Queue(t)) <=> P!Read(t, quantum, P!Queue(t)))
         /\ (V!Write(t, quantum, len, clear, V!Queue(t))
              <=> P!Write(t, quantum, len, clear, P!Queue(t)))
         /\ (V!Ready(t) <=> P!Ready(t))
         /\ (V!Load(next, more) <=> P!Load(next, more))
         /\ (V!LoadFails(more) <=> P!LoadFails(more))
         /\ (V!Unused <=> P!Unused)
         /\ (V!Overruns <=> P!Overruns)
         /\ (V!Crash("wild") <=> P!Crash("wild"))
         /\ (V!Mmap(t, allowed) <=> P!Mmap(t, allowed))
         /\ (V!VmaOpen(t) <=> P!VmaOpen(t))
         /\ (V!VmaClose(t) <=> P!VmaClose(t))
         /\ (V!StoreVmas(t) <=> P!StoreVmas(t))
         /\ (V!PageFault(t, allowed) <=> P!PageFault(t, allowed))
<1>1. V!Trim <=> P!Trim
  BY DEF V!Trim, P!Trim, V!device, P!device, V!Pages, P!Pages, V!MapThenSumSet, P!MapThenSumSet,
         V!MapThenFoldSet, P!MapThenFoldSet, V!Min, P!Min
<1>2. V!Open(t, V!Trim) <=> P!Open(t, P!Trim)
  BY <1>1 DEF V!Open, P!Open, V!Overruns, P!Overruns, V!Crash, P!Crash, V!module, P!module,
         V!device, P!device
<1>3. V!Release(t) <=> P!Release(t)
  BY DEF V!Release, P!Release, V!Ready, P!Ready, V!NoCall, P!NoCall, V!module, P!module,
         V!device, P!device
<1>4. V!Enter(t, quantum) <=> P!Enter(t, quantum)
  BY DEF V!Enter, P!Enter, V!Ready, P!Ready, V!NoCall, P!NoCall, V!module, P!module, V!device,
         P!device
<1>5. V!Complete(t) <=> P!Complete(t)
  BY DEF V!Complete, P!Complete, V!module, P!module, V!device, P!device
<1>6. V!Interrupted(t, V!Queue(t))
              <=> P!Interrupted(t, P!Queue(t))
  BY DEF V!Interrupted, P!Interrupted, V!Return, P!Return, V!Queue, P!Queue, V!Cardinality,
         P!Cardinality, V!NoCall, P!NoCall, V!module, P!module, V!device, P!device
<1>7. V!Read(t, quantum, V!Queue(t)) <=> P!Read(t, quantum, P!Queue(t))
  BY DEF V!Read, P!Read, V!Serving, P!Serving, V!NoGeometry, P!NoGeometry, V!Offsets, P!Offsets,
         V!Place, P!Place, V!Follow, P!Follow, V!InQuantum, P!InQuantum, V!Min, P!Min, V!Max,
         P!Max, V!Dies, P!Dies, V!module, P!module, V!device, P!device, V!Return, P!Return,
         V!Queue, P!Queue, V!Cardinality, P!Cardinality, V!NoCall, P!NoCall
<1>8. V!Write(t, quantum, len, clear, V!Queue(t))
              <=> P!Write(t, quantum, len, clear, P!Queue(t))
  BY DEF V!Write, P!Write, V!Serving, P!Serving, V!NoGeometry, P!NoGeometry, V!Offsets,
         P!Offsets, V!Place, P!Place, V!Follow, P!Follow, V!InQuantum, P!InQuantum, V!Min,
         P!Min, V!Max, P!Max, V!Dies, P!Dies, V!module, P!module, V!device, P!device, V!Return,
         P!Return, V!Queue, P!Queue, V!Cardinality, P!Cardinality, V!NoCall, P!NoCall
<1>9. V!Ready(t) <=> P!Ready(t)
  BY DEF V!Ready, P!Ready, V!NoCall, P!NoCall
<1>10. V!Load(next, more) <=> P!Load(next, more)
  BY DEF V!Load, P!Load
<1>11. V!LoadFails(more) <=> P!LoadFails(more)
  BY DEF V!LoadFails, P!LoadFails, V!device, P!device
<1>12. V!Unused <=> P!Unused
  BY DEF V!Unused, P!Unused, V!NoCall, P!NoCall
<1>13. V!Overruns <=> P!Overruns
  BY DEF V!Overruns, P!Overruns
<1>14. V!Crash("wild") <=> P!Crash("wild")
  BY DEF V!Crash, P!Crash, V!module, P!module, V!device, P!device
<1>15. V!Mmap(t, allowed) <=> P!Mmap(t, allowed)
  BY DEF V!Mmap, P!Mmap, V!Ready, P!Ready, V!NoCall, P!NoCall, V!CountVmas, P!CountVmas,
         V!module, P!module
<1>16. V!VmaOpen(t) <=> P!VmaOpen(t)
  BY DEF V!VmaOpen, P!VmaOpen, V!NoCall, P!NoCall, V!CountVmas, P!CountVmas, V!module, P!module
<1>17. V!VmaClose(t) <=> P!VmaClose(t)
  BY DEF V!VmaClose, P!VmaClose, V!NoCall, P!NoCall, V!CountVmas, P!CountVmas, V!module,
         P!module
<1>18. V!StoreVmas(t) <=> P!StoreVmas(t)
  BY DEF V!StoreVmas, P!StoreVmas, V!NoCall, P!NoCall, V!module, P!module
<1>19. V!PageFault(t, allowed) <=> P!PageFault(t, allowed)
  BY DEF V!PageFault, P!PageFault, V!Present, P!Present, V!Nopage, P!Nopage, V!Beyond, P!Beyond,
         V!Crash, P!Crash, V!module, P!module, V!device, P!device
<1> QED BY <1>1, <1>2, <1>3, <1>4, <1>5, <1>6, <1>7, <1>8, <1>9, <1>10, <1>11, <1>12, <1>13, <1>14, <1>15, <1>16, <1>17, <1>18, <1>19

-----------------------------------------------------------------------------
(***************************************************************************)
(* Each driver's steps are such steps.                                     *)
(***************************************************************************)
\* The parameters of scullc have values of their types, the default ones too.
LEMMA CParams ==
  ASSUME PagesInv, driver = "scullc"
  PROVE  /\ C!Default \in Params
         /\ \A t : C!SetParam(t) =>
              /\ C!Ready(t) /\ param' \in Params
              /\ UNCHANGED <<phase, reg, cache, dev, list, used, files, call, vma, work, fault,
                             stale>>
<1> DEFINE sizes == Quanta
           qsets == FewQsets
<1>1. /\ sizes \in SUBSET Nat /\ sizes # {} /\ 0 \notin sizes
      /\ qsets \in SUBSET Nat /\ qsets \ {0} # {}
  BY PagesAssumption
<1>2. /\ C!Default = [size |-> C!Min(sizes), qset |-> C!Min(qsets \ {0})]
  BY DEF C!Default
<1>3. \A t : C!SetParam(t) =>
        /\ C!Ready(t)
        /\ \/ \E s \in sizes : param' = [param EXCEPT !.size = s]
           \/ \E q \in qsets : param' = [param EXCEPT !.qset = q]
           \/ param' = C!Default
        /\ UNCHANGED <<phase, reg, cache, dev, list, used, files, call, vma, work, fault,
                       stale>>
  BY DEF C!SetParam, C!device
<1> HIDE DEF sizes, qsets
<1>4. C!Min(sizes) \in sizes /\ C!Min(qsets \ {0}) \in qsets
  BY <1>1, LeastAndGreatest
<1>5. C!Default \in Params  BY <1>1, <1>2, <1>4, driver = "scullc" DEF Params
<1>6. param \in Params  BY DEF PagesInv, PagesTypes
<1>7. ASSUME NEW s \in sizes PROVE [param EXCEPT !.size = s] \in Params
  BY <1>1, <1>6 DEF Params
<1>8. ASSUME NEW q \in qsets PROVE [param EXCEPT !.qset = q] \in Params
  BY <1>1, <1>6 DEF Params
<1> QED BY <1>3, <1>5, <1>7, <1>8

\* What scullc does is a step.
LEMMA CStep == PagesInv /\ ~Smp /\ StepC => Step
<1> SUFFICES ASSUME PagesInv, ~Smp, StepC PROVE Step
  OBVIOUS
<1>1. driver = "scullc" /\ UNCHANGED driver /\ C!Next  BY DEF StepC
<1>2. C!Quantum = Quantum /\ Lens = <<cache, cache>> /\ Clears = <<param.size, param.size>>
  BY <1>1 DEF Quantum, Lens, Clears, Block, Clear, C!Quantum
<1>3. ASSUME C!scullc_init PROVE Step
  <2>1. Loads  BY <1>1, <1>3, CSame DEF C!scullc_init, Loads
  <2> QED BY <1>1, <2>1, LoadsStep
<1>4. ASSUME fault = "none", phase # "unloaded", C!Unused, C!Unload(C!scullc_trim, {}) PROVE Step
  <2>1. CASE C!Overruns /\ C!Crash("wild")
    <3>1. P!Overruns /\ P!Crash("wild")  BY <2>1, CSame
    <3> QED BY <1>1, <1>4, <3>1, OverrunStep
  <2>2. CASE /\ C!Trim /\ phase' = "unloaded" /\ reg' = {} /\ cache' = 0
             /\ param' = C!Default /\ UNCHANGED <<files, call, vma, fault, stale>>
    <3>1. param' \in Params  BY <1>1, <2>2, CParams
    <3>2. P!Unused /\ P!Trim  BY <1>4, <2>2, CSame
    <3> QED BY <1>1, <1>4, <2>2, <3>1, <3>2, Unloads
  <2> QED BY <1>4, <2>1, <2>2 DEF C!Unload, C!scullc_trim
<1>5. ASSUME C!scullc_cleanup PROVE Step
  BY <1>4, <1>5 DEF C!scullc_cleanup, C!Unload
<1>6. ASSUME C!scullc_init_cache PROVE Step
  <2>1. phase = "coming" /\ fault = "none"  BY <1>6 DEF C!scullc_init_cache
  <2>2. CASE /\ phase' = "live" /\ cache' = param.size
             /\ UNCHANGED <<param, dev, list, used, files, call, vma, fault, stale>>
    BY <1>1, <2>1, <2>2 DEF Step, CacheStep
  <2>3. CASE C!Unused /\ C!Unload(C!scullc_trim, {})  BY <1>4, <2>1, <2>3
  <2>4. CASE C!Crash("wild")
    <3>1. dev.order \in Nat /\ dev.order # 0 /\ cache = 0
      BY <1>1, <2>1 DEF PagesInv, PagesTypes, PagesLoaded
    <3>2. /\ fault' = "wild" /\ list' = list /\ stale' = stale /\ stale \in BOOLEAN
          /\ UNCHANGED <<phase, reg, param, cache, dev, used, files, call, vma>>
      BY <2>4 DEF C!Crash, C!module, C!device, PagesInv, PagesTypes
    <3>3. ~Regular'  BY <1>1, <3>1, <3>2 DEF Regular, C!Regular
    <3> QED BY <1>1, <2>1, <3>2, <3>3 DEF Step, Halts, Walked
  <2> QED BY <1>6, <2>2, <2>3, <2>4 DEF C!scullc_init_cache, C!device
<1>7. ASSUME NEW t \in Threads,
            \/ C!scullc_open(t) \/ C!scullc_release(t)
               \/ C!scullc_ioctl(t) \/ C!scullc_read(t) \/ C!scullc_write(t)
               \/ C!scullc_do_deferred_op(t)
               \/ C!Interrupted(t, C!scullc_defer_op(t))
      PROVE  Step
  <2>1. ASSUME C!scullc_open(t) PROVE Acts(t)
    BY <2>1, CSame DEF C!scullc_open, C!scullc_trim, Acts
  <2>2. ASSUME C!scullc_release(t) \/ C!scullc_do_deferred_op(t) PROVE Acts(t)
    BY <2>2, CSame DEF C!scullc_release, C!scullc_do_deferred_op, Acts
  <2>3. ASSUME C!scullc_ioctl(t) PROVE Acts(t)
    BY <1>1, <2>3, CParams, CSame DEF C!scullc_ioctl, Acts
  <2>4. ASSUME C!scullc_read(t) PROVE Acts(t)
    <3>1. C!Enter(t, Quantum) \/ C!Read(t, Quantum, C!Queue(t))
      BY <1>2, <2>4 DEF C!scullc_read, C!scullc_defer_op
    <3> QED BY <3>1, CSame DEF Acts
  <2>5. ASSUME C!scullc_write(t) PROVE Acts(t)
    <3>1. C!Enter(t, Quantum) \/ C!Write(t, Quantum, Lens, Clears, C!Queue(t))
      BY <1>2, <2>5 DEF C!scullc_write, C!scullc_defer_op
    <3> QED BY <3>1, CSame DEF Acts
  <2>6. ASSUME C!Interrupted(t, C!scullc_defer_op(t)) PROVE Acts(t)
    BY <1>2, <2>6, CSame DEF C!scullc_defer_op, Acts
  <2> QED BY <1>1, <1>7, <2>1, <2>2, <2>3, <2>4, <2>5, <2>6, ActsStep
<1> QED BY <1>1, <1>3, <1>5, <1>6, <1>7 DEF C!Next

\* The parameters of scullp have values of their types, the default ones too.
LEMMA PParams ==
  ASSUME PagesInv, driver = "scullp"
  PROVE  /\ P!Default \in Params
         /\ \A t : P!SetParam(t) =>
              /\ P!Ready(t) /\ param' \in Params
              /\ UNCHANGED <<phase, reg, cache, dev, list, used, files, call, vma, work, fault,
                             stale>>
<1> DEFINE sizes == Orders
           qsets == Qsets
<1>1. /\ sizes \in SUBSET Nat /\ sizes # {}
      /\ qsets \in SUBSET Nat /\ qsets \ {0} # {}
  BY PagesAssumption
<1>2. /\ P!Default = [size |-> P!Min(sizes), qset |-> P!Min(qsets \ {0})]
  BY DEF P!Default
<1>3. \A t : P!SetParam(t) =>
        /\ P!Ready(t)
        /\ \/ \E s \in sizes : param' = [param EXCEPT !.size = s]
           \/ \E q \in qsets : param' = [param EXCEPT !.qset = q]
           \/ param' = P!Default
        /\ UNCHANGED <<phase, reg, cache, dev, list, used, files, call, vma, work, fault,
                       stale>>
  BY DEF P!SetParam, P!device
<1> HIDE DEF sizes, qsets
<1>4. P!Min(sizes) \in sizes /\ P!Min(qsets \ {0}) \in qsets
  BY <1>1, LeastAndGreatest
<1>5. P!Default \in Params  BY <1>1, <1>2, <1>4, driver = "scullp" DEF Params
<1>6. param \in Params  BY DEF PagesInv, PagesTypes
<1>7. ASSUME NEW s \in sizes PROVE [param EXCEPT !.size = s] \in Params
  BY <1>1, <1>6 DEF Params
<1>8. ASSUME NEW q \in qsets PROVE [param EXCEPT !.qset = q] \in Params
  BY <1>1, <1>6 DEF Params
<1> QED BY <1>3, <1>5, <1>7, <1>8

\* What scullp does is a step.
LEMMA PStep == PagesInv /\ ~Smp /\ StepP => Step
<1> SUFFICES ASSUME PagesInv, ~Smp, StepP PROVE Step
  OBVIOUS
<1>1. driver = "scullp" /\ UNCHANGED driver /\ P!Next  BY DEF StepP
<1>2. P!Quantum = Quantum /\ Lens = P!Blocks /\ Clears = P!Blocks
  BY <1>1 DEF Quantum, Lens, Clears, Block, Clear, P!Quantum, P!Blocks
<1>3. ASSUME P!scullp_init PROVE Step
  <2>1. Loads  BY <1>1, <1>3 DEF P!scullp_init, Loads
  <2> QED BY <1>1, <2>1, LoadsStep
<1>4. ASSUME fault = "none", phase # "unloaded", P!Unused, P!Unload(P!scullp_trim, {}) PROVE Step
  <2>1. CASE P!Overruns /\ P!Crash("wild")
    <3>1. P!Overruns /\ P!Crash("wild")  BY <2>1
    <3> QED BY <1>1, <1>4, <3>1, OverrunStep
  <2>2. CASE /\ P!Trim /\ phase' = "unloaded" /\ reg' = {} /\ cache' = 0
             /\ param' = P!Default /\ UNCHANGED <<files, call, vma, fault, stale>>
    <3>1. param' \in Params  BY <1>1, <2>2, PParams
    <3>2. P!Unused /\ P!Trim  BY <1>4, <2>2
    <3> QED BY <1>1, <1>4, <2>2, <3>1, <3>2, Unloads
  <2> QED BY <1>4, <2>1, <2>2 DEF P!Unload, P!scullp_trim
<1>5. ASSUME P!scullp_cleanup PROVE Step
  BY <1>4, <1>5 DEF P!scullp_cleanup, P!Unload
<1>6. ASSUME NEW t \in Threads,
            \/ P!scullp_open(t) \/ P!scullp_release(t)
               \/ P!scullp_ioctl(t) \/ P!scullp_read(t) \/ P!scullp_write(t)
               \/ P!scullp_do_deferred_op(t)
               \/ P!Interrupted(t, P!scullp_defer_op(t))
               \/ P!scullp_mmap(t) \/ P!scullp_vma_open(t) \/ P!scullp_vma_close(t)
               \/ P!scullp_vma_nopage(t)
      PROVE  Step
  <2>1. ASSUME P!scullp_open(t) PROVE Acts(t)
    BY <2>1 DEF P!scullp_open, P!scullp_trim, Acts
  <2>2. ASSUME P!scullp_release(t) \/ P!scullp_do_deferred_op(t) PROVE Acts(t)
    BY <2>2 DEF P!scullp_release, P!scullp_do_deferred_op, Acts
  <2>3. ASSUME P!scullp_ioctl(t) PROVE Acts(t)
    BY <1>1, <2>3, PParams DEF P!scullp_ioctl, Acts
  <2>4. ASSUME P!scullp_read(t) PROVE Acts(t)
    <3>1. P!Enter(t, Quantum) \/ P!Read(t, Quantum, P!Queue(t))
      BY <1>2, <2>4 DEF P!scullp_read, P!scullp_defer_op
    <3> QED BY <3>1 DEF Acts
  <2>5. ASSUME P!scullp_write(t) PROVE Acts(t)
    <3>1. P!Enter(t, Quantum) \/ P!Write(t, Quantum, Lens, Clears, P!Queue(t))
      BY <1>2, <2>5 DEF P!scullp_write, P!scullp_defer_op
    <3> QED BY <3>1 DEF Acts
  <2>6. ASSUME P!Interrupted(t, P!scullp_defer_op(t)) PROVE Acts(t)
    BY <1>2, <2>6 DEF P!scullp_defer_op, Acts
  <2>7. ASSUME P!scullp_vma_nopage(t) PROVE Acts(t)
    <3>1. P!PageFault(t, TRUE)  BY <2>7 DEF P!scullp_vma_nopage
    <3>2. P!PageFault(t, TRUE)  BY <3>1
    <3> QED BY <3>2 DEF Acts
  <2>8. ASSUME P!scullp_mmap(t) \/ P!scullp_vma_open(t) \/ P!scullp_vma_close(t) PROVE Maps(t)
    <3>1. CASE P!scullp_mmap(t)
      <4>1. P!Mmap(t, dev.order = 0)  BY <3>1 DEF P!scullp_mmap
      <4>2. P!Mmap(t, driver = "scullv" \/ dev.order = 0)
        <5>1. (driver = "scullv" \/ dev.order = 0) = (dev.order = 0)  BY <1>1
        <5>2. P!Mmap(t, dev.order = 0)  BY <4>1
        <5> QED BY <5>1, <5>2
      <4> QED BY <4>2 DEF Maps
    <3>2. CASE P!scullp_vma_open(t) \/ P!scullp_vma_close(t)
      BY <3>2 DEF P!scullp_vma_open, P!scullp_vma_close, Maps
    <3> QED BY <2>8, <3>1, <3>2
  <2> QED BY <1>1, <1>6, <2>1, <2>2, <2>3, <2>4, <2>5, <2>6, <2>7, <2>8, ActsStep
<1> QED BY <1>1, <1>3, <1>5, <1>6 DEF P!Next

\* The parameters of sculld have values of their types, the default ones too.
LEMMA DParams ==
  ASSUME PagesInv, driver = "sculld"
  PROVE  /\ D!Default \in Params
         /\ \A t : D!SetParam(t) =>
              /\ D!Ready(t) /\ param' \in Params
              /\ UNCHANGED <<phase, reg, cache, dev, list, used, files, call, vma, work, fault,
                             stale>>
<1> DEFINE sizes == FewOrders
           qsets == FewQsets
<1>1. /\ sizes \in SUBSET Nat /\ sizes # {}
      /\ qsets \in SUBSET Nat /\ qsets \ {0} # {}
  BY PagesAssumption
<1>2. /\ D!Default = [size |-> D!Min(sizes), qset |-> D!Min(qsets \ {0})]
  BY DEF D!Default
<1>3. \A t : D!SetParam(t) =>
        /\ D!Ready(t)
        /\ \/ \E s \in sizes : param' = [param EXCEPT !.size = s]
           \/ \E q \in qsets : param' = [param EXCEPT !.qset = q]
           \/ param' = D!Default
        /\ UNCHANGED <<phase, reg, cache, dev, list, used, files, call, vma, work, fault,
                       stale>>
  BY DEF D!SetParam, D!device
<1> HIDE DEF sizes, qsets
<1>4. D!Min(sizes) \in sizes /\ D!Min(qsets \ {0}) \in qsets
  BY <1>1, LeastAndGreatest
<1>5. D!Default \in Params  BY <1>1, <1>2, <1>4, driver = "sculld" DEF Params
<1>6. param \in Params  BY DEF PagesInv, PagesTypes
<1>7. ASSUME NEW s \in sizes PROVE [param EXCEPT !.size = s] \in Params
  BY <1>1, <1>6 DEF Params
<1>8. ASSUME NEW q \in qsets PROVE [param EXCEPT !.qset = q] \in Params
  BY <1>1, <1>6 DEF Params
<1> QED BY <1>3, <1>5, <1>7, <1>8

\* What sculld does is a step.
LEMMA DStep == PagesInv /\ ~Smp /\ StepD => Step
<1> SUFFICES ASSUME PagesInv, ~Smp, StepD PROVE Step
  OBVIOUS
<1>1. driver = "sculld" /\ UNCHANGED driver /\ D!Next  BY DEF StepD
<1>2. D!Quantum = Quantum /\ Lens = D!Blocks /\ Clears = D!Blocks
  BY <1>1 DEF Quantum, Lens, Clears, Block, Clear, D!Quantum, D!Blocks
<1>3. ASSUME D!sculld_init PROVE Step
  <2>1. Loads  BY <1>1, <1>3, DSame DEF D!sculld_init, Loads
  <2> QED BY <1>1, <2>1, LoadsStep
<1>4. ASSUME fault = "none", phase # "unloaded", D!Unused, D!Unload(D!sculld_trim, {}) PROVE Step
  <2>1. CASE D!Overruns /\ D!Crash("wild")
    <3>1. P!Overruns /\ P!Crash("wild")  BY <2>1, DSame
    <3> QED BY <1>1, <1>4, <3>1, OverrunStep
  <2>2. CASE /\ D!Trim /\ phase' = "unloaded" /\ reg' = {} /\ cache' = 0
             /\ param' = D!Default /\ UNCHANGED <<files, call, vma, fault, stale>>
    <3>1. param' \in Params  BY <1>1, <2>2, DParams
    <3>2. P!Unused /\ P!Trim  BY <1>4, <2>2, DSame
    <3> QED BY <1>1, <1>4, <2>2, <3>1, <3>2, Unloads
  <2> QED BY <1>4, <2>1, <2>2 DEF D!Unload, D!sculld_trim
<1>5. ASSUME D!sculld_cleanup PROVE Step
  BY <1>4, <1>5 DEF D!sculld_cleanup, D!Unload
<1>6. ASSUME NEW t \in Threads,
            \/ D!sculld_open(t) \/ D!sculld_release(t)
               \/ D!sculld_ioctl(t) \/ D!sculld_read(t) \/ D!sculld_write(t)
               \/ D!sculld_do_deferred_op(t)
               \/ D!Interrupted(t, D!sculld_defer_op(t))
               \/ D!sculld_mmap(t) \/ D!sculld_vma_open(t) \/ D!sculld_vma_close(t)
               \/ D!sculld_vma_nopage(t)
      PROVE  Step
  <2>1. ASSUME D!sculld_open(t) PROVE Acts(t)
    BY <2>1, DSame DEF D!sculld_open, D!sculld_trim, Acts
  <2>2. ASSUME D!sculld_release(t) \/ D!sculld_do_deferred_op(t) PROVE Acts(t)
    BY <2>2, DSame DEF D!sculld_release, D!sculld_do_deferred_op, Acts
  <2>3. ASSUME D!sculld_ioctl(t) PROVE Acts(t)
    BY <1>1, <2>3, DParams, DSame DEF D!sculld_ioctl, Acts
  <2>4. ASSUME D!sculld_read(t) PROVE Acts(t)
    <3>1. D!Enter(t, Quantum) \/ D!Read(t, Quantum, D!Queue(t))
      BY <1>2, <2>4 DEF D!sculld_read, D!sculld_defer_op
    <3> QED BY <3>1, DSame DEF Acts
  <2>5. ASSUME D!sculld_write(t) PROVE Acts(t)
    <3>1. D!Enter(t, Quantum) \/ D!Write(t, Quantum, Lens, Clears, D!Queue(t))
      BY <1>2, <2>5 DEF D!sculld_write, D!sculld_defer_op
    <3> QED BY <3>1, DSame DEF Acts
  <2>6. ASSUME D!Interrupted(t, D!sculld_defer_op(t)) PROVE Acts(t)
    BY <1>2, <2>6, DSame DEF D!sculld_defer_op, Acts
  <2>7. ASSUME D!sculld_vma_nopage(t) PROVE Acts(t)
    <3>1. D!PageFault(t, FALSE)  BY <2>7 DEF D!sculld_vma_nopage
    <3>2. P!PageFault(t, FALSE)  BY <3>1, DSame
    <3> QED BY <3>2 DEF Acts
  <2>8. ASSUME D!sculld_mmap(t) \/ D!sculld_vma_open(t) \/ D!sculld_vma_close(t) PROVE Maps(t)
    <3>1. CASE D!sculld_mmap(t)
      <4>1. D!Mmap(t, dev.order = 0)  BY <3>1 DEF D!sculld_mmap
      <4>2. P!Mmap(t, driver = "scullv" \/ dev.order = 0)
        <5>1. (driver = "scullv" \/ dev.order = 0) = (dev.order = 0)  BY <1>1
        <5>2. P!Mmap(t, dev.order = 0)  BY <4>1, DSame
        <5> QED BY <5>1, <5>2
      <4> QED BY <4>2 DEF Maps
    <3>2. CASE D!sculld_vma_open(t) \/ D!sculld_vma_close(t)
      BY <3>2, DSame DEF D!sculld_vma_open, D!sculld_vma_close, Maps
    <3> QED BY <2>8, <3>1, <3>2
  <2> QED BY <1>1, <1>6, <2>1, <2>2, <2>3, <2>4, <2>5, <2>6, <2>7, <2>8, ActsStep
<1> QED BY <1>1, <1>3, <1>5, <1>6 DEF D!Next

\* The parameters of scullv have values of their types, the default ones too.
LEMMA VParams ==
  ASSUME PagesInv, driver = "scullv"
  PROVE  /\ V!Default \in Params
         /\ \A t : V!SetParam(t) =>
              /\ V!Ready(t) /\ param' \in Params
              /\ UNCHANGED <<phase, reg, cache, dev, list, used, files, call, vma, work, fault,
                             stale>>
<1> DEFINE sizes == Orders
           qsets == FewQsets
<1>1. /\ sizes \in SUBSET Nat /\ sizes # {}
      /\ qsets \in SUBSET Nat /\ qsets \ {0} # {}
  BY PagesAssumption
<1>2. /\ V!Default = [size |-> V!Min(sizes), qset |-> V!Min(qsets \ {0})]
  BY DEF V!Default
<1>3. \A t : V!SetParam(t) =>
        /\ V!Ready(t)
        /\ \/ \E s \in sizes : param' = [param EXCEPT !.size = s]
           \/ \E q \in qsets : param' = [param EXCEPT !.qset = q]
           \/ param' = V!Default
        /\ UNCHANGED <<phase, reg, cache, dev, list, used, files, call, vma, work, fault,
                       stale>>
  BY DEF V!SetParam, V!device
<1> HIDE DEF sizes, qsets
<1>4. V!Min(sizes) \in sizes /\ V!Min(qsets \ {0}) \in qsets
  BY <1>1, LeastAndGreatest
<1>5. V!Default \in Params  BY <1>1, <1>2, <1>4, driver = "scullv" DEF Params
<1>6. param \in Params  BY DEF PagesInv, PagesTypes
<1>7. ASSUME NEW s \in sizes PROVE [param EXCEPT !.size = s] \in Params
  BY <1>1, <1>6 DEF Params
<1>8. ASSUME NEW q \in qsets PROVE [param EXCEPT !.qset = q] \in Params
  BY <1>1, <1>6 DEF Params
<1> QED BY <1>3, <1>5, <1>7, <1>8

\* What scullv does is a step.
LEMMA VStep == PagesInv /\ ~Smp /\ StepV => Step
<1> SUFFICES ASSUME PagesInv, ~Smp, StepV PROVE Step
  OBVIOUS
<1>1. driver = "scullv" /\ UNCHANGED driver /\ V!Next  BY DEF StepV
<1>2. V!Quantum = Quantum /\ Lens = V!Blocks /\ Clears = V!Blocks
  BY <1>1 DEF Quantum, Lens, Clears, Block, Clear, V!Quantum, V!Blocks
<1>3. ASSUME V!scullv_init PROVE Step
  <2>1. Loads  BY <1>1, <1>3, VSame DEF V!scullv_init, Loads
  <2> QED BY <1>1, <2>1, LoadsStep
<1>4. ASSUME fault = "none", phase # "unloaded", V!Unused, V!Unload(V!scullv_trim, {}) PROVE Step
  <2>1. CASE V!Overruns /\ V!Crash("wild")
    <3>1. P!Overruns /\ P!Crash("wild")  BY <2>1, VSame
    <3> QED BY <1>1, <1>4, <3>1, OverrunStep
  <2>2. CASE /\ V!Trim /\ phase' = "unloaded" /\ reg' = {} /\ cache' = 0
             /\ param' = V!Default /\ UNCHANGED <<files, call, vma, fault, stale>>
    <3>1. param' \in Params  BY <1>1, <2>2, VParams
    <3>2. P!Unused /\ P!Trim  BY <1>4, <2>2, VSame
    <3> QED BY <1>1, <1>4, <2>2, <3>1, <3>2, Unloads
  <2> QED BY <1>4, <2>1, <2>2 DEF V!Unload, V!scullv_trim
<1>5. ASSUME V!scullv_cleanup PROVE Step
  BY <1>4, <1>5 DEF V!scullv_cleanup, V!Unload
<1>6. ASSUME NEW t \in Threads,
            \/ V!scullv_open(t) \/ V!scullv_release(t)
               \/ V!scullv_ioctl(t) \/ V!scullv_read(t) \/ V!scullv_write(t)
               \/ V!scullv_do_deferred_op(t)
               \/ V!Interrupted(t, V!scullv_defer_op(t))
               \/ V!scullv_mmap(t) \/ V!scullv_vma_open(t) \/ V!scullv_vma_close(t)
               \/ V!scullv_vma_nopage(t)
      PROVE  Step
  <2>1. ASSUME V!scullv_open(t) PROVE Acts(t)
    BY <2>1, VSame DEF V!scullv_open, V!scullv_trim, Acts
  <2>2. ASSUME V!scullv_release(t) \/ V!scullv_do_deferred_op(t) PROVE Acts(t)
    BY <2>2, VSame DEF V!scullv_release, V!scullv_do_deferred_op, Acts
  <2>3. ASSUME V!scullv_ioctl(t) PROVE Acts(t)
    BY <1>1, <2>3, VParams, VSame DEF V!scullv_ioctl, Acts
  <2>4. ASSUME V!scullv_read(t) PROVE Acts(t)
    <3>1. V!Enter(t, Quantum) \/ V!Read(t, Quantum, V!Queue(t))
      BY <1>2, <2>4 DEF V!scullv_read, V!scullv_defer_op
    <3> QED BY <3>1, VSame DEF Acts
  <2>5. ASSUME V!scullv_write(t) PROVE Acts(t)
    <3>1. V!Enter(t, Quantum) \/ V!Write(t, Quantum, Lens, Clears, V!Queue(t))
      BY <1>2, <2>5 DEF V!scullv_write, V!scullv_defer_op
    <3> QED BY <3>1, VSame DEF Acts
  <2>6. ASSUME V!Interrupted(t, V!scullv_defer_op(t)) PROVE Acts(t)
    BY <1>2, <2>6, VSame DEF V!scullv_defer_op, Acts
  <2>7. ASSUME V!scullv_vma_nopage(t) PROVE Acts(t)
    <3>1. V!PageFault(t, TRUE)  BY <2>7 DEF V!scullv_vma_nopage
    <3>2. P!PageFault(t, TRUE)  BY <3>1, VSame
    <3> QED BY <3>2 DEF Acts
  <2>8. ASSUME V!scullv_mmap(t) \/ V!scullv_vma_open(t) \/ V!scullv_vma_close(t) PROVE Maps(t)
    <3>1. CASE V!scullv_mmap(t)
      <4>1. V!Mmap(t, TRUE)  BY <3>1 DEF V!scullv_mmap
      <4>2. P!Mmap(t, driver = "scullv" \/ dev.order = 0)
        <5>1. (driver = "scullv" \/ dev.order = 0) = TRUE  BY <1>1
        <5>2. P!Mmap(t, TRUE)  BY <4>1, VSame
        <5> QED BY <5>1, <5>2
      <4> QED BY <4>2 DEF Maps
    <3>2. CASE V!scullv_vma_open(t) \/ V!scullv_vma_close(t)
      BY <3>2, VSame DEF V!scullv_vma_open, V!scullv_vma_close, Maps
    <3> QED BY <2>8, <3>1, <3>2
  <2> QED BY <1>1, <1>6, <2>1, <2>2, <2>3, <2>4, <2>5, <2>6, <2>7, <2>8, ActsStep
<1> QED BY <1>1, <1>3, <1>5, <1>6 DEF V!Next

\* So every step of MCScullPages is one.
LEMMA NextStep == PagesInv /\ ~Smp /\ Next => Step
  BY CStep, PStep, DStep, VStep DEF Next

\* The invariant holds before any module is loaded.
LEMMA PagesStart == Init => PagesInv
<1> SUFFICES ASSUME Init PROVE PagesInv
  OBVIOUS
<1>1. driver \in {"scullc", "scullp", "sculld", "scullv"}  BY PagesAssumption DEF Init
<1>2. \E default \in Params :
        /\ phase = "unloaded" /\ reg = {} /\ param = default /\ cache = 0
        /\ dev = [order |-> default.size, qset |-> default.qset, size |-> 0, vmas |-> 0]
        /\ list = << <<>> >> /\ used = 0 /\ files = {} /\ call = [t \in Threads |-> NoCall]
        /\ vma = [t \in Threads |-> 0] /\ fault = "none" /\ stale = FALSE
  <2>1. CASE driver = "scullc"
    <3>1. C!Init  BY <2>1 DEF Init
    <3>2. C!Default \in Params
      <4> DEFINE sizes == Quanta
                 qsets == FewQsets
      <4>1. /\ sizes \in SUBSET Nat /\ sizes # {} /\ 0 \notin sizes
            /\ qsets \in SUBSET Nat /\ qsets \ {0} # {}
        BY PagesAssumption
      <4>2. C!Default = [size |-> C!Min(sizes), qset |-> C!Min(qsets \ {0})]
        BY DEF C!Default
      <4> HIDE DEF sizes, qsets
      <4>3. C!Min(sizes) \in sizes /\ C!Min(qsets \ {0}) \in qsets
        BY <4>1, LeastAndGreatest
      <4> QED BY <2>1, <4>1, <4>2, <4>3 DEF Params
    <3> QED BY <3>1, <3>2 DEF C!Init, C!NoDev, C!NoCall, NoCall
  <2>2. CASE driver = "scullp"
    <3>1. P!Init  BY <2>2 DEF Init
    <3>2. P!Default \in Params
      <4> DEFINE sizes == Orders
                 qsets == Qsets
      <4>1. /\ sizes \in SUBSET Nat /\ sizes # {}
            /\ qsets \in SUBSET Nat /\ qsets \ {0} # {}
        BY PagesAssumption
      <4>2. P!Default = [size |-> P!Min(sizes), qset |-> P!Min(qsets \ {0})]
        BY DEF P!Default
      <4> HIDE DEF sizes, qsets
      <4>3. P!Min(sizes) \in sizes /\ P!Min(qsets \ {0}) \in qsets
        BY <4>1, LeastAndGreatest
      <4> QED BY <2>2, <4>1, <4>2, <4>3 DEF Params
    <3> QED BY <3>1, <3>2 DEF P!Init, P!NoDev, P!NoCall, NoCall
  <2>3. CASE driver = "sculld"
    <3>1. D!Init  BY <2>3 DEF Init
    <3>2. D!Default \in Params
      <4> DEFINE sizes == FewOrders
                 qsets == FewQsets
      <4>1. /\ sizes \in SUBSET Nat /\ sizes # {}
            /\ qsets \in SUBSET Nat /\ qsets \ {0} # {}
        BY PagesAssumption
      <4>2. D!Default = [size |-> D!Min(sizes), qset |-> D!Min(qsets \ {0})]
        BY DEF D!Default
      <4> HIDE DEF sizes, qsets
      <4>3. D!Min(sizes) \in sizes /\ D!Min(qsets \ {0}) \in qsets
        BY <4>1, LeastAndGreatest
      <4> QED BY <2>3, <4>1, <4>2, <4>3 DEF Params
    <3> QED BY <3>1, <3>2 DEF D!Init, D!NoDev, D!NoCall, NoCall
  <2>4. CASE driver = "scullv"
    <3>1. V!Init  BY <2>4 DEF Init
    <3>2. V!Default \in Params
      <4> DEFINE sizes == Orders
                 qsets == FewQsets
      <4>1. /\ sizes \in SUBSET Nat /\ sizes # {}
            /\ qsets \in SUBSET Nat /\ qsets \ {0} # {}
        BY PagesAssumption
      <4>2. V!Default = [size |-> V!Min(sizes), qset |-> V!Min(qsets \ {0})]
        BY DEF V!Default
      <4> HIDE DEF sizes, qsets
      <4>3. V!Min(sizes) \in sizes /\ V!Min(qsets \ {0}) \in qsets
        BY <4>1, LeastAndGreatest
      <4> QED BY <2>4, <4>1, <4>2, <4>3 DEF Params
    <3> QED BY <3>1, <3>2 DEF V!Init, V!NoDev, V!NoCall, NoCall
  <2> QED BY <1>1, <2>1, <2>2, <2>3, <2>4
<1>3. PICK default \in Params :
        /\ phase = "unloaded" /\ reg = {} /\ param = default /\ cache = 0
        /\ dev = [order |-> default.size, qset |-> default.qset, size |-> 0, vmas |-> 0]
        /\ list = << <<>> >> /\ used = 0 /\ files = {} /\ call = [t \in Threads |-> NoCall]
        /\ vma = [t \in Threads |-> 0] /\ fault = "none" /\ stale = FALSE
  BY <1>2
<1>4. /\ dev \in [order : Nat, qset : Nat, size : Nat, vmas : Nat]
      /\ dev.vmas = 0 /\ dev.size = 0 /\ (driver = "scullc" => dev.order # 0)
  BY <1>3 DEF Params
<1>5. PagesTypes
  <2>1. list \in Seq(Seq(Nat))  BY <1>3, EmptyShaped DEF Shaped
  <2>2. call \in [Threads -> Calls] /\ vma \in [Threads -> Nat]  BY <1>3 DEF Calls
  <2> QED BY <1>1, <1>3, <1>4, <2>1, <2>2 DEF PagesTypes
<1>6. PagesListed  BY <1>3, EmptyShaped, TotalNone DEF PagesListed
<1>7. PagesMapped
  <2>1. SumOf(vma, Threads) = 0  BY <1>3, PagesAssumption, SumNone
  <2> QED BY <1>3, <1>4, <2>1 DEF PagesMapped
<1>8. PagesLoaded  BY <1>3, <1>4 DEF PagesLoaded
<1>9. AccessesInBlock  BY <1>3 DEF AccessesInBlock
<1> QED BY <1>5, <1>6, <1>7, <1>8, <1>9 DEF PagesInv

\* Nothing happens to what the invariant is about, and to what a mapping shows.
LEMMA PagesStutter == PagesInv /\ UNCHANGED vars => PagesInv' /\ Keeps
<1> SUFFICES ASSUME PagesInv, UNCHANGED vars PROVE PagesInv' /\ Keeps
  OBVIOUS
<1>1. UNCHANGED <<driver, phase, reg, param, cache, dev, list, used, files, call, vma, fault,
                  stale>>
  BY DEF vars, P!vars
<1>2. (PagesTypes /\ PagesMapped /\ PagesLoaded /\ (~stale => PagesListed))'
  BY <1>1 DEF PagesInv, PagesTypes, PagesListed, PagesBlocks, PagesMapped, PagesLoaded,
              Params, Shaped, Block
<1>3. AccessesInBlock'
  BY <1>1 DEF PagesInv, AccessesInBlock, C!Regular, P!Regular
<1> QED BY <1>1, <1>2, <1>3 DEF PagesInv, Keeps

\* Every step keeps the invariant and what is mapped.
LEMMA PagesNext == PagesInv /\ ~Smp /\ [Next]_vars => PagesInv' /\ Keeps
  BY NextStep, StepKeeps, PagesStutter

\* The count of mappings is that of the processes, and until a call has gone on with sizes
\* that a trim changed, the arrays have the device's length, the blocks that of the
\* device's allocator, and the pages in use are those in the list.
THEOREM PagesInvariance == ~Smp => (Spec => []PagesInv)
<1> SUFFICES ASSUME ~Smp PROVE Spec => []PagesInv
  OBVIOUS
<1>1. PagesInv /\ [Next]_vars => PagesInv'  BY PagesNext
<1> QED BY <1>1, PagesStart, PTL DEF Spec

\* No call, trim or page fault leaves the block or the array it was given, unless a read
\* or write has gone on with sizes that a trim changed after it had read them, or the
\* quanta are irregular: at an order that is not 0 and with a later list item, or, for
\* scullc, with a quantum that has grown beyond the objects of the cache.
THEOREM InBlock == ~Smp => (Spec => []AccessesInBlock)
<1> SUFFICES ASSUME ~Smp PROVE Spec => []AccessesInBlock
  OBVIOUS
<1>1. PagesInv => AccessesInBlock  BY DEF PagesInv
<1>2. Spec => []PagesInv  BY PagesInvariance
<1> QED BY <1>1, <1>2, PTL

\* Until a read or write has gone on with sizes that a trim changed after it had read
\* them, every page of a quantum is in the list and an unloaded module has left none;
\* and it has nothing registered, but for the driver that a failed sculld_init leaves.
THEOREM NoneLost == ~Smp => (Spec => []NothingLost)
<1> SUFFICES ASSUME ~Smp PROVE Spec => []NothingLost
  OBVIOUS
<1>1. PagesInv => NothingLost
  <2> SUFFICES ASSUME PagesInv PROVE NothingLost
    OBVIOUS
  <2>1. ~stale => Shaped(list, dev.qset) /\ dev.qset \in Nat /\ used = Total(list)
    BY DEF PagesInv, PagesTypes, PagesListed
  <2>2. ~stale => used = P!Pages(list)  BY <2>1, PagesAre
  <2>3. ~stale /\ phase = "unloaded" => used = 0
    BY <2>1, TotalNone DEF PagesInv, PagesLoaded
  <2> QED BY <2>2, <2>3 DEF NothingLost, PagesInv, PagesLoaded
<1>2. Spec => []PagesInv  BY PagesInvariance
<1> QED BY <1>1, <1>2, PTL

\* A trim never takes a block from a mapping that stays, nor changes its sizes.
THEOREM MappingsKept == ~Smp => (Spec => MappedKept)
<1> SUFFICES ASSUME ~Smp PROVE Spec => MappedKept
  OBVIOUS
<1>1. PagesInv /\ [Next]_vars =>
        [Mapped /\ Mapped' =>
           /\ dev'.order = dev.order /\ dev'.qset = dev.qset
           /\ \A i \in DOMAIN list : \A s \in DOMAIN list[i] :
                list[i][s] # 0 => list'[i][s] = list[i][s]]_vars
  BY PagesNext DEF Keeps
<1>2. Spec => []PagesInv  BY PagesInvariance
<1> QED BY <1>1, <1>2, PTL DEF Spec, MappedKept

\* Where the order is 0 a mapping shows the pages that a read or write with the sizes of
\* the device uses.
THEOREM MappingsShow == ~Smp => (Spec => []MappingShowsFile)
<1> SUFFICES ASSUME ~Smp PROVE Spec => []MappingShowsFile
  OBVIOUS
<1>1. PagesInv => MappingShowsFile
  <2> SUFFICES ASSUME PagesInv, Mapped, dev.qset # 0, ~(driver = "scullv" /\ dev.order # 0),
                      NEW off \in 0 .. (dev.size - 1)
               PROVE  P!Nopage(off) = P!Place(off, 2 ^ dev.order, dev.qset)
    BY DEF MappingShowsFile
  <2>1. /\ dev.order \in Nat /\ dev.qset \in Nat /\ dev.size \in Nat
        /\ driver \in {"scullc", "scullp", "sculld", "scullv"}
    BY DEF PagesInv, PagesTypes
  <2>2. driver # "scullc"
    BY <2>1 DEF PagesInv, PagesMapped, Mapped
  <2>3. dev.order = 0  BY <2>1, <2>2, MappedIs DEF PagesInv, PagesMapped
  <2>5. 2 ^ dev.order = 1  BY <2>1, <2>3, TwoPower
  <2> DEFINE q == dev.qset
  <2>6. q \in Nat \ {0} /\ off \in Nat  BY <2>1
  <2>7. P!Nopage(off) = [item |-> off \div q + 1, slot |-> (off % q) + 1, from |-> 0]
    BY DEF P!Nopage
  <2>8. P!Place(off, 1, q) = [item |-> off \div (1 * q) + 1,
                              slot |-> (off % (1 * q)) \div 1 + 1,
                              from |-> (off % (1 * q)) % 1]
    BY DEF P!Place
  <2> HIDE DEF q
  <2>9. 1 * q = q  BY <2>6
  <2> DEFINE x == off % q
  <2>10. x \in Nat  BY <2>6
  <2> HIDE DEF x
  <2>11. x \div 1 = x /\ x % 1 = 0  BY <2>10
  <2>12. P!Place(off, 1, q) = [item |-> off \div q + 1, slot |-> x + 1, from |-> 0]
    BY <2>8, <2>9, <2>11 DEF x
  <2> QED BY <2>5, <2>7, <2>12 DEF q, x
<1>2. Spec => []PagesInv  BY PagesInvariance
<1> QED BY <1>1, <1>2, PTL
=============================================================================
