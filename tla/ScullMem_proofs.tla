-------------------------- MODULE ScullMem_proofs ---------------------------
(***************************************************************************)
(* Proof that ScullMem implements MemFile under QuietSpec, whatever the    *)
(* geometry of the device.                                                 *)
(***************************************************************************)
EXTENDS ScullMem, SequenceTheorems, TLAPS
-----------------------------------------------------------------------------
(***************************************************************************)
(* Division: an offset and its place determine each other.                 *)
(***************************************************************************)
\* What \div and % give.
LEMMA DivMod ==
  ASSUME NEW n \in Nat, NEW d \in Nat \ {0}
  PROVE  n \div d \in Nat /\ n % d \in 0 .. d - 1 /\ n = d * (n \div d) + (n % d)
OBVIOUS

\* A product with a positive number is no smaller.
LEMMA Multiple ==
  ASSUME NEW d \in Nat \ {0}, NEW k \in Nat, k > 0
  PROVE  d * k >= d
OBVIOUS

\* Only one quotient and remainder add up to a number.
LEMMA DivUnique ==
  ASSUME NEW d \in Nat \ {0}, NEW k \in Nat, NEW r \in 0 .. d - 1
  PROVE  (d * k + r) \div d = k /\ (d * k + r) % d = r
<1> DEFINE n == d * k + r
           j == n \div d
           m == n % d
<1>1. n \in Nat /\ d * k \in Nat  OBVIOUS
<1>2. j \in Nat /\ m \in 0 .. d - 1 /\ n = d * j + m  BY <1>1, DivMod
<1>3. d * k + r = d * j + m  BY <1>2
<1> HIDE DEF n, j, m
<1>4. CASE j > k
  <2>1. d * (j - k) >= d  BY <1>2, <1>4, Multiple
  <2>2. d * (j - k) = d * j - d * k  BY <1>2
  <2> QED BY <2>1, <2>2, <1>2, <1>3
<1>5. CASE j < k
  <2>1. d * (k - j) >= d  BY <1>2, <1>5, Multiple
  <2>2. d * (k - j) = d * k - d * j  BY <1>2
  <2> QED BY <2>1, <2>2, <1>2, <1>3
<1>6. CASE j = k
  <2>1. m = r  BY <1>3, <1>6, <1>2
  <2> QED BY <2>1, <1>6 DEF j, m, n
<1> QED BY <1>2, <1>4, <1>5, <1>6

Geometry == [quantum : Nat \ {0}, qset : Nat \ {0}]
PlacesOf(g) == [item : Nat, s_pos : 0 .. g.qset - 1, q_pos : 0 .. g.quantum - 1]
OffsetOf(p, g) == g.quantum * (g.qset * p.item + p.s_pos) + p.q_pos

\* The offset that has a given place (main.c:310-312).
LEMMA PlaceOfOffset ==
  ASSUME NEW g \in Geometry, NEW p \in PlacesOf(g)
  PROVE  OffsetOf(p, g) \in Nat /\ Place(OffsetOf(p, g), g) = p
<1> DEFINE q == g.quantum
           s == g.qset
           i == p.item
           a == p.s_pos
           b == p.q_pos
           o == q * (s * i + a) + b
<1>1. /\ q \in Nat \ {0} /\ s \in Nat \ {0}
      /\ i \in Nat /\ a \in 0 .. s - 1 /\ b \in 0 .. q - 1
      /\ p = [item |-> i, s_pos |-> a, q_pos |-> b]
  BY DEF Geometry, PlacesOf
<1>2. OffsetOf(p, g) = o  BY DEF OffsetOf
<1>3. Place(o, g) = [item |-> o \div (q * s), s_pos |-> (o % (q * s)) \div q, q_pos |-> o % q]
  BY DEF Place
<1> HIDE DEF q, s, i, a, b
<1>4. s * i \in Nat /\ s * i + a \in Nat /\ q * (s * i + a) \in Nat /\ q * s \in Nat /\ q * a \in Nat
  BY <1>1
<1>5. o \in Nat  BY <1>1, <1>4
<1>6. o % q = b  BY <1>1, <1>4, DivUnique
<1>7. q * s \in Nat \ {0} /\ q * a + b \in 0 .. (q * s) - 1
  <2>1. q * s >= q  BY <1>1, Multiple
  <2>2. q * (s - a) >= q  BY <1>1, Multiple
  <2>3. q * (s - a) = q * s - q * a  BY <1>1
  <2> QED BY <2>1, <2>2, <2>3, <1>1, <1>4
<1>8. o = (q * s) * i + (q * a + b)
  <2>1. q * (s * i + a) = q * (s * i) + q * a  BY <1>1, <1>4
  <2>2. q * (s * i) = (q * s) * i  BY <1>1
  <2> QED BY <2>1, <2>2, <1>1, <1>4
<1>9. o \div (q * s) = i /\ o % (q * s) = q * a + b
  <2> DEFINE d == q * s
             r == q * a + b
  <2>1. d \in Nat \ {0} /\ r \in 0 .. d - 1  BY <1>7
  <2>2. o = d * i + r  BY <1>8
  <2> HIDE DEF d, r, o
  <2>3. o \div d = i /\ o % d = r  BY <2>1, <2>2, <1>1, DivUnique
  <2> QED BY <2>3 DEF d, r
<1>10. (q * a + b) \div q = a
  <2>1. a \in Nat  BY <1>1
  <2> QED BY <2>1, <1>1, DivUnique
<1> HIDE DEF o
<1>11. Place(o, g) = [item |-> i, s_pos |-> a, q_pos |-> b]
  BY <1>3, <1>6, <1>9, <1>10
<1> QED BY <1>1, <1>2, <1>5, <1>11

\* The place of an offset, and that it has no other offset.
LEMMA PlaceTypes ==
  ASSUME NEW g \in Geometry, NEW o \in Nat
  PROVE  Place(o, g) \in PlacesOf(g) /\ OffsetOf(Place(o, g), g) = o
<1> DEFINE q == g.quantum
           s == g.qset
           d == q * s
           i == o \div d
           r == o % d
           a == r \div q
           b == r % q
<1>1. q \in Nat \ {0} /\ s \in Nat \ {0}  BY DEF Geometry
<1>2. d \in Nat \ {0}
  <2> HIDE DEF q, s
  <2>1. q * s >= q /\ q * s \in Nat  BY <1>1, Multiple
  <2> QED BY <2>1, <1>1
<1>3. Place(o, g) = [item |-> i, s_pos |-> a, q_pos |-> o % q]  BY DEF Place
<1> HIDE DEF d, i, r, a, b
<1>4. i \in Nat /\ r \in 0 .. d - 1 /\ o = d * i + r  BY <1>2, DivMod DEF i, r
<1> HIDE DEF q, s
<1>5. r \in Nat  BY <1>4, <1>2
<1>6. a \in Nat /\ b \in 0 .. q - 1 /\ r = q * a + b  BY <1>5, <1>1, DivMod DEF a, b
<1>7. a < s
  <2> SUFFICES ASSUME a >= s PROVE FALSE
    BY <1>6, <1>1
  <2>1. q * (a - s) \in Nat  BY <1>1, <1>6
  <2>2. q * (a - s) = q * a - q * s  BY <1>1, <1>6
  <2>3. q * a \in Nat /\ q * s \in Nat  BY <1>1, <1>6
  <2>4. q * s = d  BY DEF d
  <2> QED BY <2>1, <2>2, <2>3, <2>4, <1>1, <1>4, <1>6
<1>8. o = q * (s * i + a) + b
  <2>1. q * (s * i + a) = q * (s * i) + q * a  BY <1>1, <1>4, <1>6
  <2>2. q * (s * i) = (q * s) * i  BY <1>1, <1>4
  <2>3. q * s = d  BY DEF d
  <2>4. (q * s) * i = d * i  BY <2>3
  <2>5. q * (s * i) \in Nat /\ q * a \in Nat  BY <1>1, <1>4, <1>6
  <2> QED BY <2>1, <2>2, <2>4, <2>5, <1>1, <1>4, <1>6
<1>9. o % q = b
  <2> DEFINE k == s * i + a
  <2>1. k \in Nat  BY <1>1, <1>4, <1>6
  <2>2. o = q * k + b  BY <1>8
  <2> HIDE DEF k
  <2> QED BY <2>1, <2>2, <1>1, <1>6, DivUnique
<1>10. Place(o, g) = [item |-> i, s_pos |-> a, q_pos |-> b]  BY <1>3, <1>9
<1>11. Place(o, g) \in PlacesOf(g)
  <2>1. a \in 0 .. s - 1  BY <1>1, <1>6, <1>7
  <2> QED BY <2>1, <1>4, <1>6, <1>10 DEF PlacesOf, q, s
<1>12. OffsetOf(Place(o, g), g) = o
  BY <1>8, <1>10 DEF OffsetOf, q, s
<1> QED BY <1>11, <1>12

\* Different offsets lie at different places.
LEMMA PlaceDiffers ==
  ASSUME NEW g \in Geometry, NEW o \in Nat, NEW u \in Nat, Place(o, g) = Place(u, g)
  PROVE  o = u
BY PlaceTypes

\* The offsets that follow o in its quantum are the ones that lie behind it there.
LEMMA PlaceInQuantum ==
  ASSUME NEW g \in Geometry, NEW o \in Nat, NEW u \in Nat
  PROVE  /\ \A j \in Nat : Place(o, g).q_pos + j < g.quantum
              => Place(o + j, g) = [Place(o, g) EXCEPT !.q_pos = @ + j]
         /\ /\ Place(u, g).item = Place(o, g).item
            /\ Place(u, g).s_pos = Place(o, g).s_pos
            => u - o = Place(u, g).q_pos - Place(o, g).q_pos
<1> DEFINE p == Place(o, g)
           v == Place(u, g)
           q == g.quantum
<1>1. p \in PlacesOf(g) /\ v \in PlacesOf(g) /\ OffsetOf(p, g) = o /\ OffsetOf(v, g) = u
  BY PlaceTypes
<1> HIDE DEF p, v
<1>2. ASSUME NEW j \in Nat, p.q_pos + j < g.quantum
      PROVE  Place(o + j, g) = [p EXCEPT !.q_pos = @ + j]
  <2> DEFINE w == [p EXCEPT !.q_pos = @ + j]
  <2>1. w \in PlacesOf(g)  BY <1>1, <1>2 DEF PlacesOf, Geometry
  <2>2. OffsetOf(w, g) = OffsetOf(p, g) + j
    <3> DEFINE x == g.quantum * (g.qset * p.item + p.s_pos)
    <3>1. x \in Nat  BY <1>1 DEF PlacesOf, Geometry
    <3>2. OffsetOf(p, g) = x + p.q_pos  BY DEF OffsetOf
    <3>3. OffsetOf(w, g) = x + (p.q_pos + j)  BY <1>1 DEF OffsetOf, PlacesOf
    <3> HIDE DEF x
    <3> QED BY <3>1, <3>2, <3>3, <1>1 DEF PlacesOf, Geometry
  <2> HIDE DEF w
  <2>3. Place(o + j, g) = w  BY <1>1, <2>1, <2>2, PlaceOfOffset
  <2> QED BY <2>3 DEF w
<1>3. ASSUME v.item = p.item, v.s_pos = p.s_pos
      PROVE  u - o = v.q_pos - p.q_pos
  <2> DEFINE x == g.quantum * (g.qset * p.item + p.s_pos)
  <2>1. x \in Nat  BY <1>1 DEF PlacesOf, Geometry
  <2>2. o = x + p.q_pos /\ u = x + v.q_pos  BY <1>1, <1>3 DEF OffsetOf
  <2> HIDE DEF x
  <2> QED BY <2>1, <2>2, <1>1 DEF PlacesOf, Geometry
<1> QED BY <1>2, <1>3 DEF p, v
-----------------------------------------------------------------------------
(***************************************************************************)
(* The list of items.  What the calls allocate on their way changes no     *)
(* byte, and what they store changes only its own.                         *)
(***************************************************************************)
Cells == Bytes \cup {Junk}
Quantums(g) == {<<>>} \cup [1 .. g.quantum -> Cells]
Arrays(g) == {<<>>} \cup [1 .. g.qset -> Quantums(g)]
Lists(g) == Seq(Arrays(g))

\* The byte at a place, as ByteAt finds it.
At(ls, p) == IF HasQuantum(ls, p) THEN ls[p.item + 1][p.s_pos + 1][p.q_pos + 1] ELSE Junk

\* What is allocated is not NULL.
LEMMA Allocated ==
  ASSUME NEW n \in Nat \ {0}, NEW S, NEW fn \in [1 .. n -> S]
  PROVE  fn # <<>>
<1>1. 1 \in DOMAIN fn  OBVIOUS
<1>2. 1 \notin DOMAIN <<>>  OBVIOUS
<1> QED BY <1>1, <1>2

\* What an array and a quantum that are there are made of.
LEMMA Present ==
  ASSUME NEW g \in Geometry, NEW ls \in Lists(g), NEW p \in PlacesOf(g)
  PROVE  /\ Reaches(ls, p.item) => p.item + 1 \in 1 .. Len(ls)
         /\ HasArray(ls, p) => /\ p.item + 1 \in 1 .. Len(ls)
                               /\ ls[p.item + 1] \in [1 .. g.qset -> Quantums(g)]
         /\ HasQuantum(ls, p) =>
              ls[p.item + 1][p.s_pos + 1] \in [1 .. g.quantum -> Cells]
         /\ At(ls, p) \in Cells
<1>1. p.item \in Nat /\ p.s_pos + 1 \in 1 .. g.qset /\ p.q_pos + 1 \in 1 .. g.quantum
  BY DEF PlacesOf, Geometry
<1>2. Len(ls) \in Nat /\ \A i \in 1 .. Len(ls) : ls[i] \in Arrays(g)
  BY LenProperties, ElementOfSeq DEF Lists
<1>3. Reaches(ls, p.item) => p.item + 1 \in 1 .. Len(ls)  BY <1>1, <1>2 DEF Reaches
<1>4. HasArray(ls, p) => /\ p.item + 1 \in 1 .. Len(ls)
                         /\ ls[p.item + 1] \in [1 .. g.qset -> Quantums(g)]
  BY <1>2, <1>3 DEF HasArray, Arrays
<1>5. HasQuantum(ls, p) => ls[p.item + 1][p.s_pos + 1] \in [1 .. g.quantum -> Cells]
  BY <1>1, <1>4 DEF HasQuantum, Quantums
<1>6. At(ls, p) \in Cells  BY <1>1, <1>5 DEF At, Cells
<1> QED BY <1>3, <1>4, <1>5, <1>6

\* An item replaced in a list.
LEMMA ItemReplaced ==
  ASSUME NEW g, NEW ls \in Lists(g), NEW i \in 1 .. Len(ls), NEW x \in Arrays(g)
  PROVE  /\ [ls EXCEPT ![i] = x] \in Lists(g)
         /\ Len([ls EXCEPT ![i] = x]) = Len(ls)
         /\ \A j \in 1 .. Len(ls) : [ls EXCEPT ![i] = x][j] = IF j = i THEN x ELSE ls[j]
BY ExceptSeq DEF Lists

\* scull_follow (main.c:262-286) adds items without data.
LEMMA GrownKeeps ==
  ASSUME NEW g \in Geometry, list \in Lists(g), NEW k \in Nat
  PROVE  /\ Grown(k) \in Lists(g) /\ Len(Grown(k)) = Len(list) + k
         /\ \A v \in PlacesOf(g) : /\ HasQuantum(Grown(k), v) <=> HasQuantum(list, v)
                                   /\ At(Grown(k), v) = At(list, v)
<1> DEFINE e == [i \in 1 .. k |-> <<>>]
           ls == Grown(k)
<1>1. e \in Lists(g) /\ Len(e) = k /\ \A i \in 1 .. k : e[i] = <<>>
  BY DEF Lists, Arrays
<1>2. /\ ls \in Lists(g) /\ Len(ls) = Len(list) + k
      /\ \A i \in 1 .. Len(list) + k :
           ls[i] = IF i <= Len(list) THEN list[i] ELSE e[i - Len(list)]
  BY <1>1, ConcatProperties DEF Lists, Grown
<1>3. Len(list) \in Nat  BY LenProperties DEF Lists
<1> HIDE DEF e, ls
<1>4. ASSUME NEW v \in PlacesOf(g)
      PROVE  /\ HasQuantum(ls, v) <=> HasQuantum(list, v)
             /\ At(ls, v) = At(list, v)
  <2>1. v.item \in Nat  BY DEF PlacesOf
  <2>2. CASE v.item < Len(list)
    <3>1. ls[v.item + 1] = list[v.item + 1]  BY <1>2, <1>3, <2>1, <2>2
    <3>2. Reaches(ls, v.item) /\ Reaches(list, v.item)  BY <1>2, <1>3, <2>1, <2>2 DEF Reaches
    <3> QED BY <3>1, <3>2 DEF At, HasQuantum, HasArray
  <2>3. CASE v.item >= Len(list)
    <3>1. ~Reaches(list, v.item)  BY <1>3, <2>1, <2>3 DEF Reaches
    <3>2. Reaches(ls, v.item) => ls[v.item + 1] = <<>>
      <4>1. Reaches(ls, v.item) =>
              /\ v.item + 1 \in 1 .. Len(list) + k
              /\ ~(v.item + 1 <= Len(list))
              /\ v.item + 1 - Len(list) \in 1 .. k
        BY <1>2, <1>3, <2>1, <2>3 DEF Reaches
      <4> QED BY <4>1, <1>1, <1>2
    <3> QED BY <3>1, <3>2 DEF At, HasQuantum, HasArray
  <2> QED BY <1>3, <2>1, <2>2, <2>3
<1> QED BY <1>2, <1>4 DEF ls

\* The array of an item (main.c:358-363) is allocated empty.
LEMMA ArrayKeeps ==
  ASSUME NEW g \in Geometry, NEW ls \in Lists(g), NEW p \in PlacesOf(g), Reaches(ls, p.item)
  PROVE  /\ WithArray(ls, p, g) \in Lists(g) /\ HasArray(WithArray(ls, p, g), p)
         /\ \A v \in PlacesOf(g) : At(WithArray(ls, p, g), v) = At(ls, v)
<1>1. CASE HasArray(ls, p)  BY <1>1 DEF WithArray
<1>2. CASE ~HasArray(ls, p)
  <2> DEFINE x == [s \in 1 .. g.qset |-> <<>>]
             i == p.item + 1
             new == [ls EXCEPT ![i] = x]
  <2>1. i \in 1 .. Len(ls) /\ p.item \in Nat  BY Present DEF PlacesOf
  <2>2. x \in [1 .. g.qset -> Quantums(g)]  BY DEF Quantums
  <2>3. x \in Arrays(g) /\ x # <<>>
    <3>1. g.qset \in Nat \ {0}  BY DEF Geometry
    <3> HIDE DEF x
    <3> QED BY <2>2, <3>1, Allocated DEF Arrays
  <2>4. \A s \in 1 .. g.qset : x[s] = <<>>  OBVIOUS
  <2>5. WithArray(ls, p, g) = new  BY <1>2 DEF WithArray
  <2> HIDE DEF x, i
  <2>6. /\ new \in Lists(g) /\ Len(new) = Len(ls)
        /\ \A j \in 1 .. Len(ls) : new[j] = IF j = i THEN x ELSE ls[j]
    BY <2>1, <2>3, ItemReplaced
  <2> HIDE DEF new
  <2>7. HasArray(new, p)  BY <2>1, <2>3, <2>6 DEF HasArray, Reaches, i
  <2>8. ASSUME NEW v \in PlacesOf(g) PROVE At(new, v) = At(ls, v)
    <3>1. v.item \in Nat /\ v.s_pos + 1 \in 1 .. g.qset  BY DEF PlacesOf, Geometry
    <3>2. CASE v.item = p.item
      <4>1. ~HasQuantum(ls, v)  BY <1>2, <3>2 DEF HasQuantum, HasArray
      <4>2. new[v.item + 1] = x  BY <2>1, <2>6, <3>2 DEF i
      <4>3. ~HasQuantum(new, v)  BY <4>2, <2>4, <3>1 DEF HasQuantum
      <4> QED BY <4>1, <4>3 DEF At
    <3>3. CASE v.item # p.item
      <4>1. Reaches(new, v.item) <=> Reaches(ls, v.item)  BY <2>6 DEF Reaches
      <4>2. Reaches(ls, v.item) => v.item + 1 \in 1 .. Len(ls) /\ v.item + 1 # i
        BY <3>1, <3>3, <2>1, Present DEF i
      <4>3. Reaches(ls, v.item) => new[v.item + 1] = ls[v.item + 1]
        BY <4>2, <2>6
      <4> QED BY <4>1, <4>3 DEF At, HasQuantum, HasArray
    <3> QED BY <3>2, <3>3
  <2> QED BY <2>5, <2>6, <2>7, <2>8
<1> QED BY <1>1, <1>2

\* A quantum replaced in an item.
PutAt(ls, p, x) == [ls EXCEPT ![p.item + 1][p.s_pos + 1] = x]

\* It is there, its bytes are at its places, and the others where they were.
LEMMA QuantumReplaced ==
  ASSUME NEW g \in Geometry, NEW ls \in Lists(g), NEW p \in PlacesOf(g), HasArray(ls, p),
         NEW x \in [1 .. g.quantum -> Cells]
  PROVE  /\ PutAt(ls, p, x) \in Lists(g) /\ HasQuantum(PutAt(ls, p, x), p)
         /\ \A v \in PlacesOf(g) :
              At(PutAt(ls, p, x), v) = IF v.item = p.item /\ v.s_pos = p.s_pos THEN x[v.q_pos + 1]
                           ELSE At(ls, v)
<1> DEFINE i == p.item + 1
           a == p.s_pos + 1
           y == [ls[i] EXCEPT ![a] = x]
           new == PutAt(ls, p, x)
<1>1. /\ i \in 1 .. Len(ls) /\ ls[i] \in [1 .. g.qset -> Quantums(g)]
      /\ p.item \in Nat /\ a \in 1 .. g.qset /\ p.s_pos \in Nat
  BY Present DEF PlacesOf, Geometry
<1>2. new = [ls EXCEPT ![i] = y]  BY DEF PutAt
<1>3. x \in Quantums(g) /\ x # <<>>
  <2>1. g.quantum \in Nat \ {0}  BY DEF Geometry
  <2> QED BY <2>1, Allocated DEF Quantums
<1>4. y \in [1 .. g.qset -> Quantums(g)] /\ y[a] = x
      /\ \A b \in 1 .. g.qset : b # a => y[b] = ls[i][b]
  BY <1>1, <1>3
<1> HIDE DEF y
<1>5. y \in Arrays(g) /\ y # <<>>
  <2>1. g.qset \in Nat \ {0}  BY DEF Geometry
  <2> QED BY <2>1, <1>4, Allocated DEF Arrays
<1> HIDE DEF i, a, new
<1>6. /\ new \in Lists(g) /\ Len(new) = Len(ls)
      /\ \A j \in 1 .. Len(ls) : new[j] = IF j = i THEN y ELSE ls[j]
  <2> DEFINE w == [ls EXCEPT ![i] = y]
  <2>1. /\ w \in Lists(g) /\ Len(w) = Len(ls)
        /\ \A j \in 1 .. Len(ls) : w[j] = IF j = i THEN y ELSE ls[j]
    BY <1>1, <1>5, ItemReplaced
  <2> HIDE DEF w
  <2>2. new = w  BY <1>2 DEF w
  <2> QED BY <2>1, <2>2
<1>7. new[i] = y /\ \A j \in 1 .. Len(ls) : j # i => new[j] = ls[j]  BY <1>1, <1>6
<1>8. Reaches(new, p.item) /\ Reaches(ls, p.item)  BY <1>1, <1>6 DEF Reaches, HasArray, i
<1>9. HasQuantum(new, p)  BY <1>3, <1>4, <1>5, <1>7, <1>8 DEF HasQuantum, HasArray, i, a
<1>10. ASSUME NEW v \in PlacesOf(g)
       PROVE  At(new, v) = IF v.item = p.item /\ v.s_pos = p.s_pos THEN x[v.q_pos + 1]
                           ELSE At(ls, v)
  <2>1. v.item \in Nat /\ v.s_pos + 1 \in 1 .. g.qset  BY DEF PlacesOf, Geometry
  <2>2. CASE v.item = p.item /\ v.s_pos = p.s_pos
    <3>1. HasQuantum(new, v) /\ new[v.item + 1][v.s_pos + 1] = x
      BY <2>2, <1>4, <1>7, <1>9 DEF HasQuantum, HasArray, i, a
    <3>2. At(new, v) = x[v.q_pos + 1]  BY <3>1 DEF At
    <3> QED BY <3>2, <2>2
  <2>3. CASE v.item = p.item /\ v.s_pos # p.s_pos
    <3>1. v.s_pos + 1 # a  BY <2>1, <2>3, <1>1 DEF a, PlacesOf
    <3>2. new[v.item + 1][v.s_pos + 1] = ls[v.item + 1][v.s_pos + 1]
      BY <2>1, <2>3, <3>1, <1>4, <1>7 DEF i
    <3>3. HasArray(new, v) /\ HasArray(ls, v)
      BY <2>3, <1>5, <1>7, <1>8 DEF HasArray, i
    <3>4. HasQuantum(new, v) <=> HasQuantum(ls, v)  BY <3>2, <3>3 DEF HasQuantum
    <3>5. At(new, v) = At(ls, v)  BY <3>2, <3>4 DEF At
    <3> QED BY <2>3, <3>5
  <2>4. CASE v.item # p.item
    <3>1. Reaches(new, v.item) <=> Reaches(ls, v.item)  BY <1>6 DEF Reaches
    <3>2. Reaches(ls, v.item) => v.item + 1 \in 1 .. Len(ls) /\ v.item + 1 # i
      BY <2>1, <2>4, <1>1, Present DEF i
    <3>3. Reaches(ls, v.item) => new[v.item + 1] = ls[v.item + 1]  BY <3>2, <1>7
    <3>4. At(new, v) = At(ls, v)  BY <3>1, <3>3 DEF At, HasQuantum, HasArray
    <3> QED BY <2>4, <3>4
  <2> QED BY <2>2, <2>3, <2>4
<1> QED BY <1>6, <1>9, <1>10 DEF new

\* A quantum (main.c:364-368) is allocated with whatever memory holds.
LEMMA QuantumKeeps ==
  ASSUME NEW g \in Geometry, NEW ls \in Lists(g), NEW p \in PlacesOf(g), HasArray(ls, p)
  PROVE  /\ WithQuantum(ls, p, g) \in Lists(g) /\ HasQuantum(WithQuantum(ls, p, g), p)
         /\ \A v \in PlacesOf(g) : At(WithQuantum(ls, p, g), v) = At(ls, v)
<1>1. CASE HasQuantum(ls, p)  BY <1>1 DEF WithQuantum
<1>2. CASE ~HasQuantum(ls, p)
  <2> DEFINE x == [b \in 1 .. g.quantum |-> Junk]
             new == PutAt(ls, p, x)
  <2>1. x \in [1 .. g.quantum -> Cells]  BY DEF Cells
  <2>2. WithQuantum(ls, p, g) = new  BY <1>2 DEF WithQuantum, PutAt
  <2>3. \A b \in 1 .. g.quantum : x[b] = Junk  OBVIOUS
  <2> HIDE DEF x
  <2>4. /\ new \in Lists(g) /\ HasQuantum(new, p)
        /\ \A v \in PlacesOf(g) :
             At(new, v) = IF v.item = p.item /\ v.s_pos = p.s_pos THEN x[v.q_pos + 1]
                          ELSE At(ls, v)
    BY <2>1, QuantumReplaced
  <2> HIDE DEF new
  <2>5. ASSUME NEW v \in PlacesOf(g) PROVE At(new, v) = At(ls, v)
    <3>1. v.q_pos + 1 \in 1 .. g.quantum  BY DEF PlacesOf, Geometry
    <3>2. v.item = p.item /\ v.s_pos = p.s_pos => ~HasQuantum(ls, v)
      BY <1>2 DEF HasQuantum, HasArray
    <3> QED BY <3>1, <3>2, <2>3, <2>4 DEF At
  <2> QED BY <2>2, <2>4, <2>5
<1> QED BY <1>1, <1>2

\* A copy (main.c:373) changes the bytes from its place on, as many as it has.
LEMMA StoredAt ==
  ASSUME NEW g \in Geometry, NEW ls \in Lists(g), NEW p \in PlacesOf(g), HasQuantum(ls, p),
         NEW t \in Seq(Cells), p.q_pos + Len(t) <= g.quantum
  PROVE  /\ Stored(ls, p, t) \in Lists(g)
         /\ \A v \in PlacesOf(g) :
              At(Stored(ls, p, t), v) =
                IF /\ v.item = p.item /\ v.s_pos = p.s_pos
                   /\ v.q_pos \in p.q_pos .. p.q_pos + Len(t) - 1
                THEN t[v.q_pos - p.q_pos + 1] ELSE At(ls, v)
<1> DEFINE z == ls[p.item + 1][p.s_pos + 1]
           x == [b \in DOMAIN z |->
                   IF b \in p.q_pos + 1 .. p.q_pos + Len(t) THEN t[b - p.q_pos] ELSE z[b]]
           new == Stored(ls, p, t)
<1>1. HasArray(ls, p) /\ z \in [1 .. g.quantum -> Cells]  BY Present DEF HasQuantum
<1>2. Len(t) \in Nat /\ p.q_pos \in Nat  BY LenProperties DEF PlacesOf
<1>3. \A b \in p.q_pos + 1 .. p.q_pos + Len(t) : t[b - p.q_pos] \in Cells
  <2>1. \A b \in p.q_pos + 1 .. p.q_pos + Len(t) : b - p.q_pos \in 1 .. Len(t)
    BY <1>2
  <2> QED BY <2>1, ElementOfSeq
<1>4. x \in [1 .. g.quantum -> Cells]  BY <1>1, <1>3
<1>5. \A b \in 1 .. g.quantum :
        x[b] = IF b \in p.q_pos + 1 .. p.q_pos + Len(t) THEN t[b - p.q_pos] ELSE z[b]
  BY <1>1
<1>6. new = PutAt(ls, p, x)  BY DEF Stored, PutAt
<1> HIDE DEF x, new
<1>7. /\ new \in Lists(g)
      /\ \A v \in PlacesOf(g) :
           At(new, v) = IF v.item = p.item /\ v.s_pos = p.s_pos THEN x[v.q_pos + 1]
                        ELSE At(ls, v)
  BY <1>1, <1>4, <1>6, QuantumReplaced
<1>8. ASSUME NEW v \in PlacesOf(g)
      PROVE  At(new, v) = IF /\ v.item = p.item /\ v.s_pos = p.s_pos
                             /\ v.q_pos \in p.q_pos .. p.q_pos + Len(t) - 1
                          THEN t[v.q_pos - p.q_pos + 1] ELSE At(ls, v)
  <2>1. v.q_pos + 1 \in 1 .. g.quantum /\ v.q_pos \in Nat  BY DEF PlacesOf, Geometry
  <2>2. CASE v.item = p.item /\ v.s_pos = p.s_pos
    <3>1. At(new, v) = x[v.q_pos + 1]  BY <2>2, <1>7
    <3>2. v.q_pos + 1 \in p.q_pos + 1 .. p.q_pos + Len(t)
            <=> v.q_pos \in p.q_pos .. p.q_pos + Len(t) - 1
      BY <2>1, <1>2
    <3>3. (v.q_pos + 1) - p.q_pos = v.q_pos - p.q_pos + 1  BY <2>1, <1>2
    <3>4. At(ls, v) = z[v.q_pos + 1]
      BY <2>2 DEF At, HasQuantum, HasArray
    <3> HIDE DEF z
    <3> QED BY <2>1, <2>2, <3>1, <3>2, <3>3, <3>4, <1>5
  <2>3. CASE ~(v.item = p.item /\ v.s_pos = p.s_pos)  BY <2>3, <1>7
  <2> QED BY <2>2, <2>3
<1> QED BY <1>7, <1>8 DEF new
-----------------------------------------------------------------------------
(***************************************************************************)
(* The inductive invariant: every call works with the geometry the device  *)
(* has, and the list is made for it.                                       *)
(***************************************************************************)
G == [quantum |-> quantum, qset |-> qset]
DevOK ==
  /\ scull_quantum \in Quanta /\ scull_qset \in Qsets
  /\ quantum \in Nat \ {0} /\ qset \in Nat \ {0}
  /\ size \in Nat /\ list \in Lists(G)
CallsOK ==
  /\ pc \in [Files -> {"closed", "open", "trim", "r_down", "r_done", "w_down"}]
  /\ pos \in [Files -> Nat] /\ geo \in [Files -> Geometry]
  /\ count \in [Files -> Nat] /\ ubuf \in [Files -> Seq(Cells)]
CallKept(f) ==
  /\ pc[f] \in {"r_down", "w_down"} => geo[f] = G
  /\ pc[f] # "r_down" => count[f] = 0
MInv == DevOK /\ CallsOK /\ \A f \in Files : CallKept(f)

\* The bytes of the device, and what the calls carry.
Content == [i \in 1 .. size |-> ByteAt(i - 1)]
Offered(f) == IF pc[f] = "w_down" THEN {ubuf[f]} ELSE {}
Given(f) == IF pc[f] = "r_done" THEN ubuf[f] ELSE <<>>
Offers == [f \in Files |-> Offered(f)]
Givens == [f \in Files |-> Given(f)]

\* A step of f leaves the calls of the others alone.
OthersSame(f) ==
  \A g \in Files : g # f => /\ pc'[g] = pc[g] /\ geo'[g] = geo[g]
                            /\ count'[g] = count[g] /\ ubuf'[g] = ubuf[g]

\* A step that changes no byte of the device.
DevSame ==
  /\ UNCHANGED <<scull_quantum, scull_qset, quantum, qset, size>> /\ list' \in Lists(G)
  /\ \A v \in PlacesOf(G) : At(list', v) = At(list, v)

\* The geometry of a device is one.
LEMMA GeometryOK == DevOK => G \in Geometry
BY DEF DevOK, G, Geometry

\* Content is a sequence of as many bytes as the device is long.
LEMMA ContentSeq ==
  ASSUME DevOK
  PROVE  /\ Content \in Seq(Cells) /\ Len(Content) = size
         /\ \A i \in 1 .. size : Content[i] = At(list, Place(i - 1, G))
<1>1. size \in Nat /\ list \in Lists(G) /\ G \in Geometry  BY GeometryOK DEF DevOK
<1>2. \A i \in 1 .. size : Content[i] = At(list, Place(i - 1, G))
  BY DEF Content, ByteAt, At, G
<1>3. \A i \in 1 .. size : At(list, Place(i - 1, G)) \in Cells
  <2> TAKE i \in 1 .. size
  <2>1. i - 1 \in Nat  BY <1>1
  <2> QED BY <2>1, <1>1, PlaceTypes, Present
<1>4. Content \in [1 .. size -> Cells]
  <2>1. Content = [i \in 1 .. size |-> Content[i]]  BY DEF Content
  <2> QED BY <2>1, <1>2, <1>3
<1> QED BY <1>1, <1>2, <1>4

\* A step that changes no byte keeps the content, and the device's invariant.
LEMMA SameContent ==
  ASSUME DevOK, DevSame
  PROVE  Content' = Content /\ DevOK' /\ G' = G
<1>1. G' = G  BY DEF DevSame, G
<1>2. DevOK'  BY <1>1 DEF DevSame, DevOK
<1>3. size' = size /\ size \in Nat /\ G \in Geometry  BY GeometryOK DEF DevSame, DevOK
<1>4. \A i \in 1 .. size : At(list', Place(i - 1, G)) = At(list, Place(i - 1, G))
  <2> TAKE i \in 1 .. size
  <2>1. i - 1 \in Nat  BY <1>3
  <2> QED BY <2>1, <1>3, PlaceTypes DEF DevSame
<1>5. Content = [i \in 1 .. size |-> At(list, Place(i - 1, G))]
  BY DEF Content, ByteAt, At, G
<1>6. Content' = [i \in 1 .. size' |-> At(list', Place(i - 1, G'))]
  BY DEF Content, ByteAt, At, G
<1> QED BY <1>1, <1>2, <1>3, <1>4, <1>5, <1>6

\* Following the list changes no byte; all the way, it reaches the item.
LEMMA Walk ==
  ASSUME DevOK, NEW n \in Nat
  PROVE  /\ Missing(n) \in Nat
         /\ Grown(Missing(n)) \in Lists(G) /\ Reaches(Grown(Missing(n)), n)
         /\ \A ls \in Followed(n) :
              /\ ls \in Lists(G)
              /\ \A v \in PlacesOf(G) : /\ HasQuantum(ls, v) <=> HasQuantum(list, v)
                                        /\ At(ls, v) = At(list, v)
         /\ Grown(Missing(n)) \in Followed(n)
<1>1. G \in Geometry /\ list \in Lists(G) /\ Len(list) \in Nat
  BY GeometryOK, LenProperties DEF DevOK, Lists
<1>2. Missing(n) \in Nat /\ n < Len(list) + Missing(n)  BY <1>1 DEF Missing
<1>3. \A k \in Nat :
        /\ Grown(k) \in Lists(G) /\ Len(Grown(k)) = Len(list) + k
        /\ \A v \in PlacesOf(G) : /\ HasQuantum(Grown(k), v) <=> HasQuantum(list, v)
                                  /\ At(Grown(k), v) = At(list, v)
  BY <1>1, GrownKeeps
<1>4. Reaches(Grown(Missing(n)), n)  BY <1>2, <1>3 DEF Reaches
<1>5. \A ls \in Followed(n) : \E k \in Nat : ls = Grown(k)  BY <1>2 DEF Followed
<1>6. Grown(Missing(n)) \in Followed(n)  BY <1>2 DEF Followed
<1> QED BY <1>2, <1>3, <1>4, <1>5, <1>6

\* Everything a write allocates on its way is there afterwards, and no byte of
\* the device has changed.
LEMMA TargetKeeps ==
  ASSUME DevOK, NEW f \in Files, geo[f] = G, NEW p \in PlacesOf(G)
  PROVE  /\ Target(f, p) \in Lists(G) /\ HasQuantum(Target(f, p), p)
         /\ \A v \in PlacesOf(G) : At(Target(f, p), v) = At(list, v)
<1> DEFINE ls == Grown(Missing(p.item))
           la == WithArray(ls, p, G)
           lq == WithQuantum(la, p, G)
<1>1. G \in Geometry /\ p.item \in Nat  BY GeometryOK DEF PlacesOf
<1>2. /\ ls \in Lists(G) /\ Reaches(ls, p.item)
      /\ \A v \in PlacesOf(G) : At(ls, v) = At(list, v)
  BY <1>1, Walk
<1> HIDE DEF ls
<1>3. /\ la \in Lists(G) /\ HasArray(la, p)
      /\ \A v \in PlacesOf(G) : At(la, v) = At(ls, v)
  BY <1>1, <1>2, ArrayKeeps
<1> HIDE DEF la
<1>4. /\ lq \in Lists(G) /\ HasQuantum(lq, p)
      /\ \A v \in PlacesOf(G) : At(lq, v) = At(la, v)
  BY <1>1, <1>3, QuantumKeeps
<1>5. Target(f, p) = lq  BY DEF Target, la, ls
<1> HIDE DEF lq
<1> QED BY <1>2, <1>3, <1>4, <1>5

\* A copy into the target of f changes the bytes from f's position on.
LEMMA StoredBytes ==
  ASSUME DevOK, NEW f \in Files, geo[f] = G, NEW o \in Nat,
         NEW t \in Seq(Cells), Place(o, G).q_pos + Len(t) <= quantum,
         list' = Stored(Target(f, Place(o, G)), Place(o, G), t)
  PROVE  /\ list' \in Lists(G)
         /\ \A u \in Nat : At(list', Place(u, G)) =
              IF u \in o .. o + Len(t) - 1 THEN t[u - o + 1] ELSE At(list, Place(u, G))
<1> DEFINE p == Place(o, G)
           ls == Target(f, p)
           st == Stored(ls, p, t)
<1>1. G \in Geometry /\ p \in PlacesOf(G) /\ Len(t) \in Nat /\ G.quantum = quantum
  BY GeometryOK, PlaceTypes, LenProperties DEF G
<1> HIDE DEF p
<1>2. /\ ls \in Lists(G) /\ HasQuantum(ls, p)
      /\ \A v \in PlacesOf(G) : At(ls, v) = At(list, v)
  BY <1>1, TargetKeeps
<1> HIDE DEF ls
<1>a. p.q_pos + Len(t) <= G.quantum  BY <1>1 DEF p
<1>3. /\ st \in Lists(G)
      /\ \A v \in PlacesOf(G) :
           At(st, v) = IF /\ v.item = p.item /\ v.s_pos = p.s_pos
                          /\ v.q_pos \in p.q_pos .. p.q_pos + Len(t) - 1
                       THEN t[v.q_pos - p.q_pos + 1] ELSE At(ls, v)
  BY <1>1, <1>2, <1>a, StoredAt
<1>4. list' = st  BY DEF st, ls, p
<1> HIDE DEF st
<1>5. ASSUME NEW u \in Nat
      PROVE  At(st, Place(u, G)) =
               IF u \in o .. o + Len(t) - 1 THEN t[u - o + 1] ELSE At(list, Place(u, G))
  <2> DEFINE v == Place(u, G)
  <2>1. v \in PlacesOf(G) /\ v.q_pos \in Nat /\ p.q_pos \in Nat
    BY <1>1, PlaceTypes DEF PlacesOf
  <2>2. v.item = p.item /\ v.s_pos = p.s_pos => u - o = v.q_pos - p.q_pos
    BY <1>1, PlaceInQuantum DEF p
  <2>3. u \in o .. o + Len(t) - 1 =>
          v.item = p.item /\ v.s_pos = p.s_pos /\ v.q_pos = p.q_pos + (u - o)
    <3> SUFFICES ASSUME u \in o .. o + Len(t) - 1
                 PROVE  v.item = p.item /\ v.s_pos = p.s_pos /\ v.q_pos = p.q_pos + (u - o)
      OBVIOUS
    <3> DEFINE j == u - o
    <3>1. j \in Nat /\ j < Len(t) /\ o + j = u  BY <1>1
    <3>2. p.q_pos + j < G.quantum
      BY <3>1, <1>1, <1>a, <2>1 DEF Geometry
    <3> HIDE DEF j
    <3>3. Place(o + j, G) = [p EXCEPT !.q_pos = @ + j]
      <4>1. \A k \in Nat : Place(o, G).q_pos + k < G.quantum
              => Place(o + k, G) = [Place(o, G) EXCEPT !.q_pos = @ + k]
        BY <1>1, PlaceInQuantum
      <4>2. j \in Nat  BY <3>1
      <4>3. Place(o, G).q_pos + j < G.quantum  BY <3>2 DEF p
      <4> QED BY <4>1, <4>2, <4>3 DEF p
    <3>4. v = [p EXCEPT !.q_pos = @ + j]  BY <3>1, <3>3
    <3> QED BY <3>4, <1>1 DEF PlacesOf, j
  <2> HIDE DEF v
  <2>4. CASE u \in o .. o + Len(t) - 1
    <3>1. v.q_pos \in p.q_pos .. p.q_pos + Len(t) - 1 /\ v.q_pos - p.q_pos + 1 = u - o + 1
      BY <2>1, <2>3, <2>4, <1>1
    <3>2. At(st, v) = t[v.q_pos - p.q_pos + 1]  BY <3>1, <2>1, <2>3, <2>4, <1>3
    <3> QED BY <3>1, <3>2, <2>4 DEF v
  <2>5. CASE u \notin o .. o + Len(t) - 1
    <3>1. ~(/\ v.item = p.item /\ v.s_pos = p.s_pos
            /\ v.q_pos \in p.q_pos .. p.q_pos + Len(t) - 1)
      BY <2>1, <2>2, <2>5, <1>1
    <3>2. At(st, v) = At(list, v)  BY <3>1, <2>1, <1>2, <1>3
    <3> QED BY <3>2, <2>5 DEF v
  <2> QED BY <2>4, <2>5
<1> QED BY <1>3, <1>4, <1>5
-----------------------------------------------------------------------------
(***************************************************************************)
(* What each action does to the calls.                                     *)
(***************************************************************************)
\* Where a call goes on to: the end of its quantum at most, and somewhere if it
\* has somewhere to go (main.c:321-322, 370-371).
LEMMA WithinQuantum ==
  ASSUME NEW g \in Geometry, NEW p \in PlacesOf(g), NEW k \in Nat
  PROVE  /\ InQuantum(k, p, g) \in 0 .. k
         /\ p.q_pos + InQuantum(k, p, g) <= g.quantum
         /\ k > 0 => InQuantum(k, p, g) > 0
<1>1. g.quantum \in Nat /\ p.q_pos \in 0 .. g.quantum - 1  BY DEF Geometry, PlacesOf
<1> QED BY <1>1 DEF InQuantum, Lesser

\* The lesser of two numbers.
LEMMA LesserOf ==
  ASSUME NEW a \in Nat, NEW b \in Nat
  PROVE  Lesser(a, b) \in 0 .. a /\ Lesser(a, b) \in 0 .. b /\ (Lesser(a, b) = a \/ Lesser(a, b) = b)
BY DEF Lesser

\* A part of a sequence.
LEMMA PartOf ==
  ASSUME NEW S, NEW s \in Seq(S), NEW n \in 0 .. Len(s)
  PROVE  /\ SubSeq(s, 1, n) \in Seq(S) /\ Len(SubSeq(s, 1, n)) = n
         /\ \A i \in 1 .. n : SubSeq(s, 1, n)[i] = s[i]
<1>1. Len(s) \in Nat /\ n \in Nat  BY LenProperties
<1>2. \A i \in 1 .. n : s[i] \in S  BY <1>1, ElementOfSeq
<1> DEFINE t == SubSeq(s, 1, n)
<1>3. /\ t \in Seq(S) /\ Len(t) = IF 1 <= n THEN n - 1 + 1 ELSE 0
      /\ \A i \in 1 .. n - 1 + 1 : t[i] = s[1 + i - 1]
  BY <1>1, <1>2, SubSeqProperties
<1> HIDE DEF t
<1>4. t \in Seq(S) /\ Len(t) = n /\ \A i \in 1 .. n : t[i] = s[i]
  BY <1>1, <1>3
<1> QED BY <1>4 DEF t

\* A piece of a function on numbers.
LEMMA PieceOf ==
  ASSUME NEW S, NEW z, NEW a \in Nat, NEW n \in Nat, \A i \in a + 1 .. a + n : z[i] \in S
  PROVE  /\ SubSeq(z, a + 1, a + n) \in Seq(S) /\ Len(SubSeq(z, a + 1, a + n)) = n
         /\ \A i \in 1 .. n : SubSeq(z, a + 1, a + n)[i] = z[a + i]
<1> DEFINE t == SubSeq(z, a + 1, a + n)
<1>1. /\ t \in Seq(S) /\ Len(t) = IF a + 1 <= a + n THEN (a + n) - (a + 1) + 1 ELSE 0
      /\ \A i \in 1 .. (a + n) - (a + 1) + 1 : t[i] = z[(a + 1) + i - 1]
  BY SubSeqProperties
<1> HIDE DEF t
<1>2. t \in Seq(S) /\ Len(t) = n  BY <1>1
<1>3. \A i \in 1 .. n : t[i] = z[a + i]
  <2> TAKE i \in 1 .. n
  <2>1. i \in 1 .. (a + n) - (a + 1) + 1 /\ (a + 1) + i - 1 = a + i  OBVIOUS
  <2> QED BY <2>1, <1>1
<1> QED BY <1>2, <1>3 DEF t

\* The data a write may offer are cells.
LEMMA DataOK == Data \subseteq Seq(Cells)
<1> SUFFICES ASSUME NEW s \in Data PROVE s \in Seq(Cells)
  OBVIOUS
<1>1. s \in Seq(Bytes) /\ Bytes \subseteq Cells  BY BytesAssumption DEF Cells
<1> QED BY <1>1, SeqMonotonic

\* What a read copies (main.c:304-329): n bytes of the device, from its position
\* on, and none only if none was asked for; and nothing else changes.
LEMMA ReadCopyDoes ==
  ASSUME DevOK, CallsOK, NEW f \in Files, geo[f] = G, ReadCopy(f)
  PROVE  /\ DevSame
         /\ \E n \in 0 .. count[f] :
              /\ n = 0 => count[f] = 0
              /\ pos[f] + n <= size
              /\ pos' = [pos EXCEPT ![f] = pos[f] + n]
              /\ SubSeq(Content, pos[f] + 1, pos[f] + n) \in Seq(Cells)
              /\ ubuf' = [ubuf EXCEPT ![f] = SubSeq(Content, pos[f] + 1, pos[f] + n)]
<1> DEFINE o == pos[f]
           p == Place(o, G)
           k == Lesser(count[f], size - o)
           n == InQuantum(k, p, G)
           ls == Grown(Missing(p.item))
           z == ls[p.item + 1][p.s_pos + 1]
           r == SubSeq(z, p.q_pos + 1, p.q_pos + n)
           c == SubSeq(Content, o + 1, o + n)
<1>1. /\ G \in Geometry /\ o \in Nat /\ size \in Nat /\ count[f] \in Nat /\ o < size
      /\ p \in PlacesOf(G) /\ p.item \in Nat /\ p.q_pos \in Nat /\ p.q_pos + 1 \in 1 .. G.quantum
      /\ G.quantum \in Nat
  <2>1. G \in Geometry /\ o \in Nat /\ size \in Nat /\ count[f] \in Nat /\ o < size
    BY GeometryOK DEF DevOK, CallsOK, ReadCopy
  <2>2. p \in PlacesOf(G)  BY <2>1, PlaceTypes
  <2> HIDE DEF p
  <2>3. p.item \in Nat /\ p.q_pos \in Nat /\ p.q_pos + 1 \in 1 .. G.quantum /\ G.quantum \in Nat
    BY <2>1, <2>2 DEF PlacesOf, Geometry
  <2> QED BY <2>1, <2>2, <2>3
<1>2. /\ HasQuantum(ls, p) /\ list' = ls
      /\ ubuf' = [ubuf EXCEPT ![f] = r]
      /\ pos' = [pos EXCEPT ![f] = pos[f] + n]
      /\ UNCHANGED <<scull_quantum, scull_qset, quantum, qset, size>>
  BY DEF ReadCopy, globals
<1> HIDE DEF o, p
<1>3. /\ ls \in Lists(G)
      /\ \A v \in PlacesOf(G) : At(ls, v) = At(list, v) /\ (HasQuantum(ls, v) <=> HasQuantum(list, v))
  BY <1>1, Walk
<1> HIDE DEF ls
<1>4. DevSame  BY <1>2, <1>3 DEF DevSame
<1>5. k \in 0 .. count[f] /\ k \in 0 .. size - o /\ (k = 0 => count[f] = 0)
  BY <1>1, LesserOf
<1> HIDE DEF k
<1>6. n \in 0 .. k /\ p.q_pos + n <= G.quantum /\ (k > 0 => n > 0)
  <2>1. k \in Nat  BY <1>5, <1>1
  <2> QED BY <1>1, <2>1, WithinQuantum
<1> HIDE DEF n
<1>7. n \in 0 .. count[f] /\ (n = 0 => count[f] = 0) /\ o + n <= size /\ n \in Nat
  BY <1>1, <1>5, <1>6
<1>8. z \in [1 .. G.quantum -> Cells]  BY <1>1, <1>2, <1>3, Present
<1>9. /\ Content \in Seq(Cells) /\ Len(Content) = size
      /\ \A i \in 1 .. size : Content[i] = At(list, Place(i - 1, G))
  BY ContentSeq
<1>10. \A j \in 1 .. n : z[p.q_pos + j] = Content[o + j]
  <2> TAKE j \in 1 .. n
  <2>1. j - 1 \in Nat /\ p.q_pos + (j - 1) < G.quantum /\ o + j \in 1 .. size /\ (o + j) - 1 = o + (j - 1)
    BY <1>1, <1>6, <1>7
  <2> DEFINE v == Place(o + (j - 1), G)
  <2>2. v = [p EXCEPT !.q_pos = @ + (j - 1)]
    <3>1. \A i \in Nat : Place(o, G).q_pos + i < G.quantum
            => Place(o + i, G) = [Place(o, G) EXCEPT !.q_pos = @ + i]
      BY <1>1, PlaceInQuantum
    <3>2. Place(o, G).q_pos + (j - 1) < G.quantum  BY <2>1 DEF p
    <3> QED BY <3>1, <3>2, <2>1 DEF p
  <2>3. v \in PlacesOf(G)
    <3>1. o + (j - 1) \in Nat  BY <1>1, <2>1
    <3> QED BY <3>1, <1>1, PlaceTypes
  <2> HIDE DEF v
  <2>4. v.item = p.item /\ v.s_pos = p.s_pos /\ v.q_pos + 1 = p.q_pos + j
    <3>1. v.item = p.item /\ v.s_pos = p.s_pos /\ v.q_pos = p.q_pos + (j - 1)
      BY <2>2, <1>1 DEF PlacesOf
    <3> QED BY <3>1, <1>1, <2>1
  <2>5. At(ls, v) = z[p.q_pos + j]
    BY <1>2, <2>4 DEF At, HasQuantum, HasArray
  <2>6. Content[o + j] = At(list, v)  BY <1>9, <2>1 DEF v
  <2> QED BY <2>3, <2>5, <2>6, <1>3
<1> HIDE DEF z
<1>11. /\ c \in Seq(Cells) /\ Len(c) = n /\ \A i \in 1 .. n : c[i] = Content[o + i]
  <2>1. \A i \in o + 1 .. o + n : Content[i] \in Cells
    <3>1. \A i \in o + 1 .. o + n : i \in 1 .. Len(Content)  BY <1>1, <1>7, <1>9
    <3> QED BY <3>1, <1>9, ElementOfSeq
  <2>2. o \in Nat /\ n \in Nat  BY <1>1, <1>7
  <2> QED BY <2>1, <2>2, PieceOf
<1>12. /\ r \in Seq(Cells) /\ Len(r) = n /\ \A i \in 1 .. n : r[i] = z[p.q_pos + i]
  <2> DEFINE a == p.q_pos
  <2>1. \A i \in a + 1 .. a + n : z[i] \in Cells
    BY <1>1, <1>6, <1>7, <1>8
  <2>2. a \in Nat /\ n \in Nat  BY <1>1, <1>7
  <2>3. r = SubSeq(z, a + 1, a + n)  BY DEF a
  <2> HIDE DEF a, r
  <2>4. /\ r \in Seq(Cells) /\ Len(r) = n /\ \A i \in 1 .. n : r[i] = z[a + i]
    BY <2>1, <2>2, <2>3, PieceOf
  <2> QED BY <2>4 DEF a
<1> HIDE DEF r, c
<1>13. r = c  BY <1>10, <1>11, <1>12, SeqEqual
<1> QED BY <1>2, <1>4, <1>7, <1>11, <1>13 DEF o, c
-----------------------------------------------------------------------------
(***************************************************************************)
(* What each action does to the bytes of the device.                       *)
(***************************************************************************)
\* The bytes of the device, before and after a step.
LEMMA ContentIs ==
  /\ Content = [i \in 1 .. size |-> At(list, Place(i - 1, G))]
  /\ Content' = [i \in 1 .. size' |-> At(list', Place(i - 1, G'))]
BY DEF Content, ByteAt, At, G

\* t stands at o afterwards; what is beyond the old end and before o is anything.
Overwrites(o, t) ==
  /\ Len(Content') = IF o + Len(t) > Len(Content) THEN o + Len(t) ELSE Len(Content)
  /\ \A i \in 1 .. Len(Content') :
       IF i \in o + 1 .. o + Len(t) THEN Content'[i] = t[i - o]
       ELSE IF i <= Len(Content) THEN Content'[i] = Content[i] ELSE Content'[i] \in Cells

\* A part of t stands at o afterwards, as far as the device reaches.
Damages(o, t, n) ==
  /\ Len(Content') = Len(Content)
  /\ \A i \in 1 .. Len(Content) :
       Content'[i] = IF i \in o + 1 .. o + n THEN t[i - o] ELSE Content[i]

\* A copy into the target of f, the size set to k, leaves the device in order;
\* its bytes are the copied ones, and the old ones where nothing was copied.
LEMMA CopyDoes ==
  ASSUME DevOK, NEW f \in Files, geo[f] = G, NEW o \in Nat,
         NEW t \in Seq(Cells), Place(o, G).q_pos + Len(t) <= quantum,
         list' = Stored(Target(f, Place(o, G)), Place(o, G), t),
         NEW k \in Nat, size' = k,
         UNCHANGED <<scull_quantum, scull_qset, quantum, qset>>
  PROVE  /\ DevOK' /\ G' = G /\ Len(Content') = k
         /\ \A i \in 1 .. k :
              /\ i \in o + 1 .. o + Len(t) => Content'[i] = t[i - o]
              /\ i \notin o + 1 .. o + Len(t) => Content'[i] = At(list, Place(i - 1, G))
              /\ Content'[i] \in Cells
<1>1. G' = G  BY DEF G
<1>2. /\ list' \in Lists(G)
      /\ \A u \in Nat : At(list', Place(u, G)) =
           IF u \in o .. o + Len(t) - 1 THEN t[u - o + 1] ELSE At(list, Place(u, G))
  BY StoredBytes
<1>3. DevOK'  BY <1>1, <1>2 DEF DevOK
<1>4. Content' = [i \in 1 .. k |-> At(list', Place(i - 1, G))]  BY <1>1, ContentIs
<1>5. Len(Content') = k  BY <1>4
<1>6. ASSUME NEW i \in 1 .. k
      PROVE  /\ i \in o + 1 .. o + Len(t) => Content'[i] = t[i - o]
             /\ i \notin o + 1 .. o + Len(t) => Content'[i] = At(list, Place(i - 1, G))
             /\ Content'[i] \in Cells
  <2> DEFINE u == i - 1
  <2>0. Len(t) \in Nat  BY LenProperties
  <2>1. u \in Nat /\ u - o + 1 = i - o
        /\ (i \in o + 1 .. o + Len(t) <=> u \in o .. o + Len(t) - 1)
    BY <2>0
  <2>2. Content'[i] = At(list', Place(u, G))  BY <1>4
  <2> HIDE DEF u
  <2>3. At(list', Place(u, G)) =
          IF u \in o .. o + Len(t) - 1 THEN t[u - o + 1] ELSE At(list, Place(u, G))
    BY <2>1, <1>2
  <2>4. At(list', Place(u, G)) \in Cells
    <3>1. G \in Geometry  BY GeometryOK
    <3>2. Place(u, G) \in PlacesOf(G)  BY <3>1, <2>1, PlaceTypes
    <3> QED BY <3>1, <3>2, <1>2, Present
  <2>5. t[u - o + 1] = t[i - o]  BY <2>1
  <2>6. At(list, Place(u, G)) = At(list, Place(i - 1, G))  BY DEF u
  <2> QED BY <2>1, <2>2, <2>3, <2>4, <2>5, <2>6
<1> QED BY <1>1, <1>3, <1>5, <1>6

\* A write (main.c:349-382) stores a part of its bytes at its position, one at
\* least if it has one.
LEMMA WriteCopyDoes ==
  ASSUME DevOK, CallsOK, NEW f \in Files, geo[f] = G, WriteCopy(f)
  PROVE  /\ DevOK' /\ G' = G
         /\ \E n \in 0 .. Len(ubuf[f]) :
              /\ n = 0 => ubuf[f] = <<>>
              /\ pos' = [pos EXCEPT ![f] = pos[f] + n]
              /\ Overwrites(pos[f], SubSeq(ubuf[f], 1, n))
<1> DEFINE o == pos[f]
           b == ubuf[f]
           p == Place(o, G)
           n == InQuantum(Len(b), p, G)
           t == SubSeq(b, 1, n)
           k == IF size < o + n THEN o + n ELSE size
<1>1. G \in Geometry /\ o \in Nat /\ b \in Seq(Cells) /\ size \in Nat /\ G.quantum = quantum
  BY GeometryOK DEF DevOK, CallsOK, G
<1>2. p \in PlacesOf(G) /\ Len(b) \in Nat  BY <1>1, PlaceTypes, LenProperties
<1>3. /\ list' = Stored(Target(f, p), p, t)
      /\ pos' = [pos EXCEPT ![f] = o + n]
      /\ size' = IF size < pos'[f] THEN pos'[f] ELSE size
      /\ UNCHANGED <<scull_quantum, scull_qset, quantum, qset>>
  BY DEF WriteCopy, globals
<1>4. n \in 0 .. Len(b) /\ p.q_pos + n <= quantum /\ (Len(b) > 0 => n > 0)
  <2> HIDE DEF p
  <2> QED BY <1>1, <1>2, WithinQuantum
<1>5. pos'[f] = o + n
  <2>1. pos \in [Files -> Nat]  BY DEF CallsOK
  <2> HIDE DEF n, o
  <2> QED BY <2>1, <1>3
<1>6. size' = k  BY <1>3, <1>5
<1> HIDE DEF n
<1>7. t \in Seq(Cells) /\ Len(t) = n  BY <1>1, <1>4, PartOf
<1> HIDE DEF t
<1>8. k \in Nat /\ n \in Nat  BY <1>1, <1>2, <1>4
<1> HIDE DEF k
<1>9. /\ DevOK' /\ G' = G /\ Len(Content') = k
      /\ \A i \in 1 .. k :
           /\ i \in o + 1 .. o + Len(t) => Content'[i] = t[i - o]
           /\ i \notin o + 1 .. o + Len(t) => Content'[i] = At(list, Place(i - 1, G))
           /\ Content'[i] \in Cells
  <2>1. Place(o, G).q_pos + Len(t) <= quantum  BY <1>4, <1>7
  <2>2. UNCHANGED <<scull_quantum, scull_qset, quantum, qset>>  BY <1>3
  <2>3. list' = Stored(Target(f, Place(o, G)), Place(o, G), t)  BY <1>3
  <2> HIDE DEF o
  <2> QED BY <2>1, <2>2, <2>3, <1>1, <1>6, <1>7, <1>8, CopyDoes
<1>10. Len(Content) = size /\ \A i \in 1 .. size : Content[i] = At(list, Place(i - 1, G))
  BY ContentSeq
<1>11. Overwrites(o, t)
  <2>1. Len(Content') = IF o + Len(t) > Len(Content) THEN o + Len(t) ELSE Len(Content)
    BY <1>1, <1>7, <1>8, <1>9, <1>10 DEF k
  <2>2. ASSUME NEW i \in 1 .. Len(Content')
        PROVE  IF i \in o + 1 .. o + Len(t) THEN Content'[i] = t[i - o]
               ELSE IF i <= Len(Content) THEN Content'[i] = Content[i] ELSE Content'[i] \in Cells
    <3>1. i \in 1 .. k  BY <1>9
    <3>2. i <= Len(Content) => i \in 1 .. size  BY <3>1, <1>1, <1>8, <1>10
    <3> QED BY <3>1, <3>2, <1>9, <1>10
  <2> QED BY <2>1, <2>2 DEF Overwrites
<1>12. n = 0 => b = <<>>
  <2>1. n = 0 => Len(b) = 0  BY <1>2, <1>4
  <2> QED BY <2>1, <1>1, EmptySeq
<1> QED BY <1>3, <1>4, <1>9, <1>11, <1>12 DEF t

\* A write that faults (main.c:373-376) may have stored a part of its bytes where
\* there were bytes before; the device is as long as it was.
LEMMA WriteFaultsDoes ==
  ASSUME DevOK, CallsOK, NEW f \in Files, geo[f] = G, WriteFaults(f)
  PROVE  /\ DevOK' /\ G' = G
         /\ \/ Content' = Content
            \/ \E n \in 1 .. Len(ubuf[f]) : Damages(pos[f], ubuf[f], n)
<1> DEFINE o == pos[f]
           b == ubuf[f]
           p == Place(o, G)
<1>1. G \in Geometry /\ o \in Nat /\ b \in Seq(Cells) /\ size \in Nat /\ G.quantum = quantum
  BY GeometryOK DEF DevOK, CallsOK, G
<1>2. p \in PlacesOf(G) /\ Len(b) \in Nat /\ p.q_pos \in Nat
  <2>1. p \in PlacesOf(G)  BY <1>1, PlaceTypes
  <2> HIDE DEF p
  <2> QED BY <2>1, <1>1, LenProperties DEF PlacesOf
<1>3. /\ \E n \in 0 .. InQuantum(Len(b), p, G) - 1 : list' = Stored(Target(f, p), p, SubSeq(b, 1, n))
      /\ UNCHANGED <<scull_quantum, scull_qset, quantum, qset, size>>
  BY DEF WriteFaults, globals
<1>4. InQuantum(Len(b), p, G) \in 0 .. Len(b) /\ p.q_pos + InQuantum(Len(b), p, G) <= quantum
  <2> HIDE DEF p
  <2> QED BY <1>1, <1>2, WithinQuantum
<1>5. PICK n \in 0 .. InQuantum(Len(b), p, G) - 1 : list' = Stored(Target(f, p), p, SubSeq(b, 1, n))
  BY <1>3
<1>6. n \in 0 .. Len(b) /\ p.q_pos + n <= quantum
  <2> DEFINE m == InQuantum(Len(b), p, G)
  <2>1. n \in 0 .. m - 1 /\ m \in 0 .. Len(b) /\ p.q_pos + m <= quantum  BY <1>4, <1>5
  <2>2. quantum \in Nat  BY DEF DevOK
  <2> HIDE DEF m, p, b
  <2> QED BY <2>1, <2>2, <1>2
<1> DEFINE t == SubSeq(b, 1, n)
<1>7. t \in Seq(Cells) /\ Len(t) = n /\ \A i \in 1 .. n : t[i] = b[i]  BY <1>1, <1>6, PartOf
<1>8. list' = Stored(Target(f, Place(o, G)), Place(o, G), t)  BY <1>5
<1> HIDE DEF t
<1>9. /\ DevOK' /\ G' = G /\ Len(Content') = size
      /\ \A i \in 1 .. size :
           /\ i \in o + 1 .. o + Len(t) => Content'[i] = t[i - o]
           /\ i \notin o + 1 .. o + Len(t) => Content'[i] = At(list, Place(i - 1, G))
           /\ Content'[i] \in Cells
  <2>1. Place(o, G).q_pos + Len(t) <= quantum  BY <1>6, <1>7
  <2>2. UNCHANGED <<scull_quantum, scull_qset, quantum, qset>> /\ size' = size  BY <1>3
  <2> HIDE DEF o
  <2> QED BY <2>1, <2>2, <1>1, <1>7, <1>8, CopyDoes
<1>10. /\ Content \in Seq(Cells) /\ Len(Content) = size
       /\ \A i \in 1 .. size : Content[i] = At(list, Place(i - 1, G))
  BY ContentSeq
<1>11. \A i \in 1 .. size : Content'[i] = IF i \in o + 1 .. o + n THEN b[i - o] ELSE Content[i]
  <2> TAKE i \in 1 .. size
  <2>1. i \in o + 1 .. o + n => i - o \in 1 .. n  BY <1>1, <1>2, <1>6
  <2>2. i \in o + 1 .. o + n => t[i - o] = b[i - o]  BY <2>1, <1>7
  <2> QED BY <2>2, <1>7, <1>9, <1>10
<1>12. CASE n = 0
  <2>1. \A i \in 1 .. size : Content'[i] = Content[i]  BY <1>1, <1>11, <1>12
  <2>2. Content' = [i \in 1 .. size |-> Content'[i]] /\ Content = [i \in 1 .. size |-> Content[i]]
    <3>1. size' = size  BY <1>3
    <3> QED BY <3>1, ContentIs
  <2>3. Content' = Content  BY <2>1, <2>2
  <2> QED BY <2>3, <1>9
<1>13. CASE n # 0
  <2>1. n \in 1 .. Len(b)  BY <1>2, <1>6, <1>13
  <2>2. Damages(o, b, n)  BY <1>9, <1>10, <1>11 DEF Damages
  <2> QED BY <2>1, <2>2, <1>9
<1> QED BY <1>12, <1>13

\* A read that finds a hole or faults, a write that gets no memory (main.c:262-286,
\* 315-327, 355-367): what they allocate on their way changes no byte.
LEMMA FollowDoes ==
  ASSUME DevOK, CallsOK, NEW f \in Files, geo[f] = G,
         ReadHole(f) \/ ReadFaults(f) \/ WriteNoMemory(f)
  PROVE  DevSame
<1> DEFINE p == Place(pos[f], G)
<1>1. G \in Geometry /\ p \in PlacesOf(G)
  <2>1. G \in Geometry /\ pos[f] \in Nat  BY GeometryOK DEF CallsOK
  <2> QED BY <2>1, PlaceTypes
<1>2. UNCHANGED <<scull_quantum, scull_qset, quantum, qset, size>>
  BY DEF ReadHole, ReadFaults, WriteNoMemory, globals
<1>3. \/ \E ls \in Followed(p.item) : list' = ls
      \/ list' = Grown(Missing(p.item))
      \/ \E ls \in Followed(p.item) : Reaches(ls, p.item) /\ list' = WithArray(ls, p, G)
  BY DEF ReadHole, ReadFaults, WriteNoMemory
<1> HIDE DEF p
<1>4. /\ Grown(Missing(p.item)) \in Followed(p.item)
      /\ \A ls \in Followed(p.item) :
           ls \in Lists(G) /\ \A v \in PlacesOf(G) : At(ls, v) = At(list, v)
  <2>1. p.item \in Nat  BY <1>1 DEF PlacesOf
  <2> QED BY <2>1, Walk
<1>5. CASE \E ls \in Followed(p.item) : list' = ls
  BY <1>2, <1>4, <1>5 DEF DevSame
<1>6. CASE list' = Grown(Missing(p.item))
  BY <1>2, <1>4, <1>6 DEF DevSame
<1>7. CASE \E ls \in Followed(p.item) : Reaches(ls, p.item) /\ list' = WithArray(ls, p, G)
  <2> PICK ls \in Followed(p.item) : Reaches(ls, p.item) /\ list' = WithArray(ls, p, G)
    BY <1>7
  <2>1. ls \in Lists(G) /\ \A v \in PlacesOf(G) : At(ls, v) = At(list, v)  BY <1>4
  <2>2. /\ WithArray(ls, p, G) \in Lists(G)
        /\ \A v \in PlacesOf(G) : At(WithArray(ls, p, G), v) = At(ls, v)
    BY <2>1, <1>1, ArrayKeeps
  <2>3. list' \in Lists(G) /\ \A v \in PlacesOf(G) : At(list', v) = At(list, v)
    BY <2>1, <2>2
  <2> QED BY <2>3, <1>2 DEF DevSame
<1> QED BY <1>3, <1>5, <1>6, <1>7

\* A read finds a hole (main.c:317) only where nothing was written.
LEMMA HoleDoes ==
  ASSUME DevOK, CallsOK, NEW f \in Files, geo[f] = G, ReadHole(f)
  PROVE  pos[f] < Len(Content) /\ Content[pos[f] + 1] = Junk
<1> DEFINE o == pos[f]
           p == Place(o, G)
<1>1. G \in Geometry /\ o \in Nat /\ size \in Nat /\ o < size
  BY GeometryOK DEF DevOK, CallsOK, ReadHole
<1>2. p \in PlacesOf(G)  BY <1>1, PlaceTypes
<1>3. \E ls \in Followed(p.item) : ~HasQuantum(ls, p)  BY DEF ReadHole
<1> HIDE DEF p
<1>4. \A ls \in Followed(p.item) : HasQuantum(ls, p) <=> HasQuantum(list, p)
  <2>1. p.item \in Nat  BY <1>2 DEF PlacesOf
  <2> QED BY <2>1, <1>2, Walk
<1>5. At(list, p) = Junk  BY <1>3, <1>4 DEF At
<1>6. Len(Content) = size /\ \A i \in 1 .. size : Content[i] = At(list, Place(i - 1, G))
  BY ContentSeq
<1>7. o + 1 \in 1 .. size /\ (o + 1) - 1 = o  BY <1>1
<1>8. Content[o + 1] = At(list, Place(o, G))  BY <1>6, <1>7
<1> QED BY <1>1, <1>5, <1>6, <1>8 DEF p
-----------------------------------------------------------------------------
(***************************************************************************)
(* The calls keep their invariant.                                         *)
(***************************************************************************)
Labels == {"closed", "open", "trim", "r_down", "r_done", "w_down"}

\* What f's call has after a step of it.
Carries(f) ==
  /\ pc'[f] \in {"r_down", "w_down"} => geo'[f] = G
  /\ pc'[f] # "r_down" => count'[f] = 0

\* A call that returns has nothing left (main.c:331-333, 384-386).
LEMMA ReturnDoes ==
  ASSUME CallsOK, NEW f \in Files, Return(f)
  PROVE  /\ pc' \in [Files -> Labels] /\ geo' \in [Files -> Geometry]
         /\ count' \in [Files -> Nat] /\ ubuf' \in [Files -> Seq(Cells)]
         /\ OthersSame(f) /\ Carries(f)
         /\ pc'[f] = "open" /\ count'[f] = 0 /\ ubuf'[f] = <<>>
<1>1. NoGeo \in Geometry  BY GeometryAssumption DEF NoGeo, Geometry
<1>2. <<>> \in Seq(Cells)  BY EmptySeq
<1> QED BY <1>1, <1>2 DEF CallsOK, Return, Goto, OthersSame, Carries, Labels

\* Every step of f leaves the other calls alone, and its own well-formed.
LEMMA CallsStep ==
  ASSUME MInv, NEW f \in Files, Step(f) \/ Trim(f)
  PROVE  CallsOK' /\ OthersSame(f) /\ Carries(f)
<1>0. DevOK /\ CallsOK /\ CallKept(f) /\ G \in Geometry  BY GeometryOK DEF MInv
<1>1. CASE Open(f)
  BY <1>0, <1>1 DEF Open, CallsOK, Goto, OthersSame, Carries, CallKept, call
<1>2. CASE TrimInterrupted(f)
  BY <1>0, <1>2 DEF TrimInterrupted, CallsOK, Goto, OthersSame, Carries, CallKept, call
<1>3. CASE Release(f)
  BY <1>0, <1>3 DEF Release, CallsOK, Goto, OthersSame, Carries, CallKept, call
<1>4. CASE Seek(f)
  BY <1>0, <1>4, BoundsAssumption DEF Seek, CallsOK, OthersSame, Carries, CallKept, call
<1>5. CASE Read(f)
  <2>1. geo' = [geo EXCEPT ![f] = G]  BY <1>5 DEF Read, G
  <2> QED BY <1>0, <1>5, <2>1, BoundsAssumption DEF Read, CallsOK, Goto, OthersSame, Carries
<1>6. CASE ReadEnd(f)
  BY <1>0, <1>6, ReturnDoes DEF ReadEnd, CallsOK, Labels
<1>7. CASE ReadHole(f)
  BY <1>0, <1>7, ReturnDoes DEF ReadHole, CallsOK, Labels
<1>8. CASE ReadCopy(f)
  <2>1. geo[f] = G  BY <1>0, <1>8 DEF ReadCopy, CallKept
  <2>2. PICK n \in 0 .. count[f] :
          /\ pos' = [pos EXCEPT ![f] = pos[f] + n]
          /\ SubSeq(Content, pos[f] + 1, pos[f] + n) \in Seq(Cells)
          /\ ubuf' = [ubuf EXCEPT ![f] = SubSeq(Content, pos[f] + 1, pos[f] + n)]
    BY <1>0, <1>8, <2>1, ReadCopyDoes
  <2>3. n \in Nat  BY <1>0 DEF CallsOK
  <2>4. /\ pc' = [pc EXCEPT ![f] = "r_done"] /\ geo' = [geo EXCEPT ![f] = NoGeo]
        /\ count' = [count EXCEPT ![f] = 0]
    BY <1>8 DEF ReadCopy, Goto
  <2>5. NoGeo \in Geometry  BY GeometryAssumption DEF NoGeo, Geometry
  <2>7. pos' \in [Files -> Nat]
    <3>1. pos' = [pos EXCEPT ![f] = pos[f] + n]  BY <2>2
    <3> QED BY <1>0, <2>3, <3>1 DEF CallsOK
  <2> DEFINE b == SubSeq(Content, pos[f] + 1, pos[f] + n)
  <2>6. b \in Seq(Cells) /\ ubuf' = [ubuf EXCEPT ![f] = b]  BY <2>2
  <2> HIDE DEF b
  <2> QED BY <1>0, <2>4, <2>5, <2>6, <2>7 DEF CallsOK, OthersSame, Carries
<1>9. CASE ReadReturns(f)
  BY <1>0, <1>9, ReturnDoes DEF ReadReturns, CallsOK, Labels
<1>10. CASE ReadFaults(f)
  BY <1>0, <1>10, ReturnDoes DEF ReadFaults, CallsOK, Labels
<1>11. CASE Write(f)
  <2>1. geo' = [geo EXCEPT ![f] = G]  BY <1>11 DEF Write, G
  <2>2. PICK s \in Data : ubuf' = [ubuf EXCEPT ![f] = s]  BY <1>11 DEF Write
  <2>3. s \in Seq(Cells)  BY DataOK
  <2>4. pc' = [pc EXCEPT ![f] = "w_down"] /\ UNCHANGED <<pos, count>> /\ pc[f] = "open"
    BY <1>11 DEF Write, Goto
  <2> QED BY <1>0, <2>1, <2>2, <2>3, <2>4 DEF CallsOK, OthersSame, Carries, CallKept
<1>12. CASE WriteNoMemory(f)
  BY <1>0, <1>12, ReturnDoes DEF WriteNoMemory, CallsOK, Labels
<1>13. CASE WriteCopy(f)
  <2>1. geo[f] = G  BY <1>0, <1>13 DEF WriteCopy, CallKept
  <2>2. PICK n \in 0 .. Len(ubuf[f]) : pos' = [pos EXCEPT ![f] = pos[f] + n]
    BY <1>0, <1>13, <2>1, WriteCopyDoes
  <2>3. n \in Nat
    <3>1. ubuf[f] \in Seq(Cells)  BY <1>0 DEF CallsOK
    <3> QED BY <3>1, LenProperties
  <2>4. pos' \in [Files -> Nat]  BY <1>0, <2>2, <2>3 DEF CallsOK
  <2>5. Return(f)  BY <1>13 DEF WriteCopy
  <2> QED BY <1>0, <2>4, <2>5, ReturnDoes DEF CallsOK, Labels
<1>14. CASE WriteFaults(f)
  BY <1>0, <1>14, ReturnDoes DEF WriteFaults, CallsOK, Labels
<1>15. CASE Interrupted(f)
  BY <1>0, <1>15, ReturnDoes DEF Interrupted, CallsOK, Labels
<1>16. CASE Trim(f)
  BY <1>0, <1>16 DEF Trim, CallsOK, Goto, OthersSame, Carries, CallKept, call
<1> QED BY <1>1, <1>2, <1>3, <1>4, <1>5, <1>6, <1>7, <1>8, <1>9, <1>10, <1>11, <1>12,
           <1>13, <1>14, <1>15, <1>16 DEF Step

\* So while the device keeps its geometry, the calls keep theirs.
LEMMA CallsKept ==
  ASSUME MInv, NEW f \in Files, CallsOK', OthersSame(f), Carries(f), G' = G
  PROVE  \A g \in Files : CallKept(g)'
<1> TAKE g \in Files
<1>1. CASE g = f  BY <1>1 DEF Carries, CallKept
<1>2. CASE g # f  BY <1>2 DEF MInv, OthersSame, CallKept
<1> QED BY <1>1, <1>2
-----------------------------------------------------------------------------
(***************************************************************************)
(* The steps of the file.                                                  *)
(***************************************************************************)
\* What the other calls carry to the file does not change.
LEMMA CarriedSame ==
  ASSUME NEW f \in Files, OthersSame(f)
  PROVE  /\ Offers' = [Offers EXCEPT ![f] = Offered(f)'] /\ Givens' = [Givens EXCEPT ![f] = Given(f)']
         /\ Offered(f)' = Offered(f) => Offers' = Offers
         /\ Given(f)' = Given(f) => Givens' = Givens
<1>1. \A g \in Files : g # f => Offered(g)' = Offered(g) /\ Given(g)' = Given(g)
  BY DEF OthersSame, Offered, Given
<1> QED BY <1>1 DEF Offers, Givens

\* A count that was 0 and is set to 0 stays.
LEMMA CountStays ==
  ASSUME CallsOK, CallsOK', NEW f \in Files, OthersSame(f), count[f] = 0, count'[f] = 0
  PROVE  count' = count
<1>1. \A g \in Files : count'[g] = count[g]  BY DEF OthersSame
<1> QED BY <1>1 DEF CallsOK

Stutters == UNCHANGED <<Content, pos, Offers, count, Givens>>

\* Nothing the file shows changes.
LEMMA MapsStutter ==
  ASSUME Stutters
  PROVE  UNCHANGED File!vars
BY DEF Stutters, File!vars, Content, Offers, Givens, Offered, Given

\* Closing a file.
LEMMA MapsClose ==
  ASSUME NEW f \in Files, UNCHANGED <<Content, Offers, count, Givens>>, pos' = [pos EXCEPT ![f] = 0]
  PROVE  File!Close(f)
BY DEF File!Close, File!Set, Content, Offers, Givens, Offered, Given

\* Seeking in a file.
LEMMA MapsSeek ==
  ASSUME NEW f \in Files, UNCHANGED <<Content, Offers, count, Givens>>,
         \E o \in 0 .. MaxSize : pos' = [pos EXCEPT ![f] = o]
  PROVE  File!Seek(f)
BY DEF File!Seek, File!Set, Content, Offers, Givens, Offered, Given

\* Truncating a file.
LEMMA MapsTruncate ==
  ASSUME Content' = <<>>, UNCHANGED <<pos, Offers, count, Givens>>
  PROVE  File!Truncate
BY DEF File!Truncate, Content, Offers, Givens, Offered, Given

\* Asking to write or to read.
LEMMA MapsAsk ==
  ASSUME NEW f \in Files, UNCHANGED <<Content, pos, Givens>>,
         \/ \E s \in Data : Offers' = [Offers EXCEPT ![f] = {s}] /\ UNCHANGED count
         \/ \E n \in Counts : count' = [count EXCEPT ![f] = n] /\ UNCHANGED Offers
  PROVE  File!Ask(f)
BY DEF File!Ask, File!Set, Content, Offers, Givens, Offered, Given

\* Reading.
LEMMA MapsRead ==
  ASSUME NEW f \in Files, UNCHANGED <<Content, Offers>>,
         NEW n \in 0 .. count[f], n > 0 => pos[f] + n <= Len(Content),
         n = 0 => count[f] = 0 \/ pos[f] >= Len(Content) \/ Content[pos[f] + 1] = Junk,
         Givens' = [Givens EXCEPT ![f] = SubSeq(Content, pos[f] + 1, pos[f] + n)],
         pos' = [pos EXCEPT ![f] = pos[f] + n],
         count' = [count EXCEPT ![f] = 0]
  PROVE  File!Read(f)
BY DEF File!Read, File!Set, Content, Offers, Givens, Offered, Given

\* Writing.
LEMMA MapsWrite ==
  ASSUME NEW f \in Files, UNCHANGED <<count, Givens>>,
         NEW s, Offers[f] = {s}, NEW n \in 0 .. Len(s), n = 0 => s = <<>>,
         Overwrites(pos[f], SubSeq(s, 1, n)),
         pos' = [pos EXCEPT ![f] = pos[f] + n],
         Offers' = [Offers EXCEPT ![f] = {}]
  PROVE  File!Write(f)
BY DEF File!Write, File!Set, File!Overwritten, Overwrites, Cells, Content, Offers, Givens, Offered, Given

\* Failing without a trace.
LEMMA MapsFail ==
  ASSUME NEW f \in Files, UNCHANGED <<Content, pos, Givens>>,
         Offers' = [Offers EXCEPT ![f] = {}], count' = [count EXCEPT ![f] = 0]
  PROVE  File!Fail(f)
BY DEF File!Fail, File!Set, Content, Offers, Givens, Offered, Given

\* Failing with a part of the write done.
LEMMA MapsDamage ==
  ASSUME NEW f \in Files, UNCHANGED <<pos, Givens>>,
         NEW s, Offers[f] = {s}, NEW n \in 1 .. Len(s), Damages(pos[f], s, n),
         Offers' = [Offers EXCEPT ![f] = {}], count' = [count EXCEPT ![f] = 0]
  PROVE  File!Fail(f)
<1>1. \E z \in Offers[f] : \E m \in 1 .. Len(z) : Damages(pos[f], z, m)
  OBVIOUS
<1> QED BY <1>1 DEF File!Fail, File!Set, Damages, Content, Offers, Givens, Offered, Given

\* Returning what was read.
LEMMA MapsReturn ==
  ASSUME NEW f \in Files, UNCHANGED <<Content, pos, Offers, count>>,
         Givens' = [Givens EXCEPT ![f] = <<>>]
  PROVE  File!Return(f)
BY DEF File!Return, File!Set, Content, Offers, Givens, Offered, Given

\* Reading nothing, at the end or in a hole.
LEMMA MapsReadNone ==
  ASSUME CallsOK, NEW f \in Files, UNCHANGED <<Content, pos, Offers, Givens>>, Given(f) = <<>>,
         pos[f] >= Len(Content) \/ Content[pos[f] + 1] = Junk,
         count' = [count EXCEPT ![f] = 0]
  PROVE  File!Read(f)
<1>1. pos[f] \in Nat /\ count[f] \in Nat /\ pos[f] + 0 = pos[f]  BY DEF CallsOK
<1>2. 0 \in 0 .. count[f]  BY <1>1
<1>3. SubSeq(Content, pos[f] + 1, pos[f] + 0) = <<>>  BY <1>1, SubSeqEmpty
<1>4. pos' = [pos EXCEPT ![f] = pos[f] + 0]  BY <1>1 DEF CallsOK
<1>5. Givens' = [Givens EXCEPT ![f] = SubSeq(Content, pos[f] + 1, pos[f] + 0)]
  BY <1>3 DEF Givens
<1>6. /\ 0 > 0 => pos[f] + 0 <= Len(Content)
      /\ 0 = 0 => count[f] = 0 \/ pos[f] >= Len(Content) \/ Content[pos[f] + 1] = Junk
  OBVIOUS
<1> DEFINE n == 0
<1>7. /\ n \in 0 .. count[f] /\ (n > 0 => pos[f] + n <= Len(Content))
      /\ n = 0 => count[f] = 0 \/ pos[f] >= Len(Content) \/ Content[pos[f] + 1] = Junk
  BY <1>2, <1>6
<1>8. /\ Givens' = [Givens EXCEPT ![f] = SubSeq(Content, pos[f] + 1, pos[f] + n)]
      /\ pos' = [pos EXCEPT ![f] = pos[f] + n]
  BY <1>4, <1>5
<1> HIDE DEF n
<1> QED BY <1>7, <1>8, MapsRead

\* A step that leaves the device alone changes no byte.
LEMMA DevUnchanged ==
  ASSUME DevOK, UNCHANGED <<globals, dev>>
  PROVE  DevSame
BY DEF DevOK, DevSame, globals, dev
-----------------------------------------------------------------------------
\* Every step of a call keeps the invariant, and is a step of the file or none.
LEMMA StepMaps ==
  ASSUME MInv, NEW f \in Files, Step(f)
  PROVE  MInv' /\ (File!Next \/ UNCHANGED File!vars)
<1>1. /\ DevOK /\ CallsOK /\ CallKept(f)
      /\ CallsOK' /\ OthersSame(f) /\ Carries(f)
  BY CallsStep DEF MInv
<1>2. /\ Offers' = [Offers EXCEPT ![f] = Offered(f)'] /\ Givens' = [Givens EXCEPT ![f] = Given(f)']
      /\ Offered(f)' = Offered(f) => Offers' = Offers
      /\ Given(f)' = Given(f) => Givens' = Givens
  BY <1>1, CarriedSame
<1>3. DevSame => Content' = Content /\ DevOK' /\ G' = G  BY <1>1, SameContent
<1>4. UNCHANGED <<globals, dev>> => DevSame  BY <1>1, DevUnchanged
<1>5. Return(f) => /\ pc'[f] = "open" /\ count' = [count EXCEPT ![f] = 0]
                    /\ Offered(f)' = {} /\ Given(f)' = <<>>
  BY <1>1 DEF Return, Goto, Offered, Given, CallsOK
<1>6. pc[f] # "w_down" => Offered(f) = {}  BY DEF Offered
<1>7. pc[f] # "r_done" => Given(f) = <<>>  BY DEF Given
<1>8. pc[f] # "r_down" => count[f] = 0  BY <1>1 DEF CallKept
<1>9. pc[f] \in {"r_down", "w_down"} => geo[f] = G  BY <1>1 DEF CallKept
<1> DEFINE Maps == DevOK' /\ G' = G /\ (File!Next \/ UNCHANGED File!vars)
<1> SUFFICES Maps
  BY <1>1, CallsKept DEF MInv
<1>10. CASE Open(f)
  <2>1. UNCHANGED <<globals, dev, pos, call>> /\ pc[f] = "closed" /\ pc'[f] \in {"open", "trim"}
    BY <1>1, <1>10 DEF Open, Goto, CallsOK
  <2>2. Offered(f)' = {} /\ Given(f)' = <<>>  BY <2>1 DEF Offered, Given
  <2>3. Stutters  BY <2>1, <2>2, <1>2, <1>3, <1>4, <1>6, <1>7 DEF Stutters, call
  <2> QED BY <2>1, <2>3, <1>3, <1>4, MapsStutter
<1>11. CASE TrimInterrupted(f)
  <2>1. UNCHANGED <<globals, dev, pos, call>> /\ pc[f] = "trim" /\ pc'[f] = "closed"
    BY <1>1, <1>11 DEF TrimInterrupted, Goto, CallsOK
  <2>2. Offered(f)' = {} /\ Given(f)' = <<>>  BY <2>1 DEF Offered, Given
  <2>3. Stutters  BY <2>1, <2>2, <1>2, <1>3, <1>4, <1>6, <1>7 DEF Stutters, call
  <2> QED BY <2>1, <2>3, <1>3, <1>4, MapsStutter
<1>12. CASE Release(f)
  <2>1. /\ UNCHANGED <<globals, dev, call>> /\ pc[f] = "open" /\ pc'[f] = "closed"
        /\ pos' = [pos EXCEPT ![f] = 0]
    BY <1>1, <1>12 DEF Release, Goto, CallsOK
  <2>2. Offered(f)' = {} /\ Given(f)' = <<>>  BY <2>1 DEF Offered, Given
  <2>3. UNCHANGED <<Content, Offers, count, Givens>>
    BY <2>1, <2>2, <1>2, <1>3, <1>4, <1>6, <1>7 DEF call
  <2>4. File!Close(f)  BY <2>1, <2>3, MapsClose
  <2> QED BY <2>1, <2>4, <1>3, <1>4 DEF File!Next
<1>13. CASE Seek(f)
  <2>1. /\ UNCHANGED <<globals, dev, pc, call>>
        /\ \E o \in 0 .. MaxSize : pos' = [pos EXCEPT ![f] = o]
    BY <1>13 DEF Seek
  <2>2. Offered(f)' = Offered(f) /\ Given(f)' = Given(f)  BY <2>1 DEF Offered, Given, call
  <2>3. UNCHANGED <<Content, Offers, count, Givens>>  BY <2>1, <2>2, <1>2, <1>3, <1>4 DEF call
  <2>4. File!Seek(f)  BY <2>1, <2>3, MapsSeek
  <2> QED BY <2>1, <2>4, <1>3, <1>4 DEF File!Next
<1>14. CASE Read(f)
  <2>1. /\ UNCHANGED <<globals, dev, pos, ubuf>> /\ pc[f] = "open" /\ pc'[f] = "r_down"
        /\ \E n \in Counts : count' = [count EXCEPT ![f] = n]
    BY <1>1, <1>14 DEF Read, Goto, CallsOK
  <2>2. Offered(f)' = {} /\ Given(f)' = <<>>  BY <2>1 DEF Offered, Given
  <2>3. UNCHANGED <<Content, pos, Offers, Givens>>  BY <2>1, <2>2, <1>2, <1>3, <1>4, <1>6, <1>7
  <2>4. File!Ask(f)  BY <2>1, <2>3, MapsAsk
  <2> QED BY <2>1, <2>4, <1>3, <1>4 DEF File!Next
<1>15. CASE ReadEnd(f)
  <2>1. UNCHANGED <<globals, dev, pos>> /\ pc[f] = "r_down" /\ Return(f) /\ pos[f] >= size
    BY <1>15 DEF ReadEnd
  <2>2. UNCHANGED <<Content, pos, Offers, Givens>>
    BY <2>1, <1>2, <1>3, <1>4, <1>5, <1>6, <1>7
  <2>3. pos[f] >= Len(Content)  BY <2>1, <1>1, ContentSeq
  <2>4. File!Read(f)  BY <2>1, <2>2, <2>3, <1>1, <1>5, <1>7, MapsReadNone
  <2> QED BY <2>1, <2>4, <1>3, <1>4 DEF File!Next
<1>16. CASE ReadHole(f)
  <2>1. UNCHANGED pos /\ pc[f] = "r_down" /\ Return(f)  BY <1>16 DEF ReadHole
  <2>2. DevSame  BY <2>1, <1>1, <1>9, <1>16, FollowDoes
  <2>3. UNCHANGED <<Content, pos, Offers, Givens>>
    BY <2>1, <2>2, <1>2, <1>3, <1>5, <1>6, <1>7
  <2>4. Content[pos[f] + 1] = Junk  BY <2>1, <1>1, <1>9, <1>16, HoleDoes
  <2>5. File!Read(f)  BY <2>1, <2>3, <2>4, <1>1, <1>5, <1>7, MapsReadNone
  <2> QED BY <2>2, <2>5, <1>3 DEF File!Next
<1>17. CASE ReadCopy(f)
  <2>1. /\ pc[f] = "r_down" /\ pc'[f] = "r_done" /\ count' = [count EXCEPT ![f] = 0]
    BY <1>1, <1>17 DEF ReadCopy, Goto, CallsOK
  <2>2. DevSame  BY <2>1, <1>1, <1>9, <1>17, ReadCopyDoes
  <2>3. PICK n \in 0 .. count[f] :
          /\ n = 0 => count[f] = 0
          /\ pos[f] + n <= size
          /\ pos' = [pos EXCEPT ![f] = pos[f] + n]
          /\ ubuf' = [ubuf EXCEPT ![f] = SubSeq(Content, pos[f] + 1, pos[f] + n)]
    BY <2>1, <1>1, <1>9, <1>17, ReadCopyDoes
  <2>4. Offered(f)' = {} /\ Given(f)' = ubuf'[f]  BY <2>1 DEF Offered, Given
  <2>5. UNCHANGED <<Content, Offers>>  BY <2>1, <2>2, <2>4, <1>2, <1>3, <1>6
  <2>6. ubuf'[f] = SubSeq(Content, pos[f] + 1, pos[f] + n)
    <3> DEFINE b == SubSeq(Content, pos[f] + 1, pos[f] + n)
    <3>1. ubuf' = [ubuf EXCEPT ![f] = b]  BY <2>3
    <3>2. f \in DOMAIN ubuf  BY <1>1 DEF CallsOK
    <3> HIDE DEF b
    <3>3. ubuf'[f] = b  BY <3>1, <3>2
    <3> QED BY <3>3 DEF b
  <2>7. Givens' = [Givens EXCEPT ![f] = SubSeq(Content, pos[f] + 1, pos[f] + n)]
    BY <2>4, <2>6, <1>2
  <2>8. Len(Content) = size  BY <1>1, ContentSeq
  <2>9. File!Read(f)  BY <2>1, <2>3, <2>5, <2>7, <2>8, MapsRead
  <2> QED BY <2>2, <2>9, <1>3 DEF File!Next
<1>18. CASE ReadReturns(f)
  <2>1. UNCHANGED <<globals, dev, pos>> /\ pc[f] = "r_done" /\ Return(f)
    BY <1>18 DEF ReadReturns
  <2>2. UNCHANGED <<Content, pos, Offers>>  BY <2>1, <1>2, <1>3, <1>4, <1>5, <1>6
  <2>3. count'[f] = 0  BY <2>1, <1>1, <1>5 DEF Carries
  <2>4. count' = count  BY <2>1, <2>3, <1>1, <1>8, CountStays
  <2>5. Givens' = [Givens EXCEPT ![f] = <<>>]  BY <2>1, <1>2, <1>5
  <2>6. File!Return(f)  BY <2>2, <2>4, <2>5, MapsReturn
  <2> QED BY <2>1, <2>6, <1>3, <1>4 DEF File!Next
<1>19. CASE ReadFaults(f) \/ WriteNoMemory(f)
  <2>1. UNCHANGED pos /\ pc[f] \in {"r_down", "w_down"} /\ Return(f)
    BY <1>19 DEF ReadFaults, WriteNoMemory
  <2>2. DevSame  BY <2>1, <1>1, <1>9, <1>19, FollowDoes
  <2>3. UNCHANGED <<Content, pos, Givens>>  BY <2>1, <2>2, <1>2, <1>3, <1>5, <1>7
  <2>4. Offers' = [Offers EXCEPT ![f] = {}]  BY <2>1, <1>2, <1>5
  <2>5. File!Fail(f)  BY <2>1, <2>3, <2>4, <1>5, MapsFail
  <2> QED BY <2>2, <2>5, <1>3 DEF File!Next
<1>20. CASE Interrupted(f)
  <2>1. UNCHANGED <<globals, dev, pos>> /\ pc[f] \in {"r_down", "w_down"} /\ Return(f)
    BY <1>20 DEF Interrupted
  <2>2. UNCHANGED <<Content, pos, Givens>>  BY <2>1, <1>2, <1>3, <1>4, <1>5, <1>7
  <2>3. Offers' = [Offers EXCEPT ![f] = {}]  BY <2>1, <1>2, <1>5
  <2>4. File!Fail(f)  BY <2>1, <2>2, <2>3, <1>5, MapsFail
  <2> QED BY <2>1, <2>4, <1>3, <1>4 DEF File!Next
<1>21. CASE Write(f)
  <2>1. /\ UNCHANGED <<globals, dev, pos, count>> /\ pc[f] = "open" /\ pc'[f] = "w_down"
        /\ \E s \in Data : ubuf' = [ubuf EXCEPT ![f] = s]
    BY <1>1, <1>21 DEF Write, Goto, CallsOK
  <2>2. PICK s \in Data : ubuf' = [ubuf EXCEPT ![f] = s]  BY <2>1
  <2>3. ubuf'[f] = s  BY <2>2, <1>1 DEF CallsOK
  <2>4. Offered(f)' = {s} /\ Given(f)' = <<>>  BY <2>1, <2>3 DEF Offered, Given
  <2>5. UNCHANGED <<Content, pos, Givens, count>>  BY <2>1, <2>4, <1>2, <1>3, <1>4, <1>7
  <2>6. Offers' = [Offers EXCEPT ![f] = {s}]  BY <2>4, <1>2
  <2>7. File!Ask(f)  BY <2>5, <2>6, MapsAsk
  <2> QED BY <2>1, <2>7, <1>3, <1>4 DEF File!Next
<1>22. CASE WriteCopy(f)
  <2>1. pc[f] = "w_down" /\ Return(f)  BY <1>22 DEF WriteCopy
  <2>2. /\ DevOK' /\ G' = G
        /\ \E n \in 0 .. Len(ubuf[f]) :
             /\ n = 0 => ubuf[f] = <<>>
             /\ pos' = [pos EXCEPT ![f] = pos[f] + n]
             /\ Overwrites(pos[f], SubSeq(ubuf[f], 1, n))
    BY <2>1, <1>1, <1>9, <1>22, WriteCopyDoes
  <2>3. count'[f] = 0  BY <2>1, <1>1, <1>5 DEF Carries
  <2>4. count' = count /\ Givens' = Givens
    BY <2>1, <2>3, <1>1, <1>2, <1>5, <1>7, <1>8, CountStays
  <2>5. Offers[f] = {ubuf[f]} /\ Offers' = [Offers EXCEPT ![f] = {}]
    BY <2>1, <1>2, <1>5 DEF Offers, Offered
  <2>6. File!Write(f)  BY <2>2, <2>4, <2>5, MapsWrite
  <2> QED BY <2>2, <2>6 DEF File!Next
<1>23. CASE WriteFaults(f)
  <2>1. pc[f] = "w_down" /\ Return(f) /\ UNCHANGED pos  BY <1>23 DEF WriteFaults
  <2>2. /\ DevOK' /\ G' = G
        /\ \/ Content' = Content
           \/ \E n \in 1 .. Len(ubuf[f]) : Damages(pos[f], ubuf[f], n)
    BY <2>1, <1>1, <1>9, <1>23, WriteFaultsDoes
  <2>3. UNCHANGED <<pos, Givens>> /\ count' = [count EXCEPT ![f] = 0]
    BY <2>1, <1>2, <1>5, <1>7
  <2>4. Offers[f] = {ubuf[f]} /\ Offers' = [Offers EXCEPT ![f] = {}]
    BY <2>1, <1>2, <1>5 DEF Offers, Offered
  <2>5. File!Fail(f)
    <3>1. CASE Content' = Content  BY <3>1, <2>3, <2>4, MapsFail
    <3>2. CASE \E n \in 1 .. Len(ubuf[f]) : Damages(pos[f], ubuf[f], n)
      BY <3>2, <2>3, <2>4, MapsDamage
    <3> QED BY <2>2, <3>1, <3>2
  <2> QED BY <2>2, <2>5 DEF File!Next
<1> QED BY <1>10, <1>11, <1>12, <1>13, <1>14, <1>15, <1>16, <1>17, <1>18, <1>19, <1>20,
           <1>21, <1>22, <1>23 DEF Step

\* A trim (main.c:63-84) empties the file, and leaves a geometry that suits every
\* call under way.
LEMMA TrimMaps ==
  ASSUME MInv, NEW f \in Files, Trim(f), Standing = {} \/ <<quantum, qset>> = globals
  PROVE  MInv' /\ File!Truncate
<1>1. /\ DevOK /\ CallsOK /\ \A g \in Files : CallKept(g)
      /\ CallsOK' /\ OthersSame(f) /\ Carries(f)
  BY CallsStep DEF MInv
<1>2. /\ size' = 0 /\ list' = <<>> /\ quantum' = scull_quantum /\ qset' = scull_qset
      /\ pc[f] = "trim" /\ pc'[f] = "open"
      /\ UNCHANGED <<scull_quantum, scull_qset, pos, geo, count, ubuf>>
  BY <1>1 DEF Trim, Goto, globals, call, CallsOK
<1>3. DevOK'
  <2>1. <<>> \in Lists(G')  BY EmptySeq DEF Lists
  <2>2. scull_quantum \in Nat \ {0} /\ scull_qset \in Nat \ {0}
    BY <1>1, GeometryAssumption DEF DevOK
  <2> QED BY <1>1, <1>2, <2>1, <2>2 DEF DevOK
<1>4. ASSUME NEW g \in Files PROVE CallKept(g)'
  <2>1. CASE g = f  BY <1>1, <1>2, <2>1 DEF Carries, CallKept
  <2>2. CASE g # f
    <3>1. pc'[g] = pc[g] /\ geo'[g] = geo[g] /\ count'[g] = count[g]  BY <1>1, <2>2 DEF OthersSame
    <3>2. pc[g] \in {"r_down", "w_down"} => G' = G
      BY <1>2 DEF Standing, globals, G
    <3> QED BY <3>1, <3>2, <1>1 DEF CallKept
  <2> QED BY <2>1, <2>2
<1>5. Offered(f)' = Offered(f) /\ Given(f)' = Given(f)  BY <1>2 DEF Offered, Given
<1>6. UNCHANGED <<pos, Offers, count, Givens>>  BY <1>1, <1>2, <1>5, CarriedSame
<1>7. Content' = <<>>  BY <1>2, ContentIs
<1>8. File!Truncate  BY <1>6, <1>7, MapsTruncate
<1> QED BY <1>1, <1>3, <1>4, <1>8 DEF MInv

\* The ioctls change nothing but the geometry of the next trim.
LEMMA IoctlMaps ==
  ASSUME MInv, Ioctl
  PROVE  MInv' /\ UNCHANGED File!vars
<1>1. /\ UNCHANGED <<quantum, qset, size, list, pc, pos, geo, count, ubuf>>
      /\ scull_quantum' \in Quanta /\ scull_qset' \in Qsets
  BY GeometryAssumption DEF MInv, DevOK, Ioctl, SetQuantum, SetQset, Reset, dev, call
<1>2. G' = G  BY <1>1 DEF G
<1>3. MInv'
  <2>1. DevOK'  BY <1>1, <1>2 DEF MInv, DevOK
  <2>2. CallsOK'  BY <1>1 DEF MInv, CallsOK
  <2>3. \A f \in Files : CallKept(f)'  BY <1>1, <1>2 DEF MInv, CallKept
  <2> QED BY <2>1, <2>2, <2>3 DEF MInv
<1>4. Stutters
  BY <1>1, <1>2, ContentIs DEF Stutters, Offers, Givens, Offered, Given
<1> QED BY <1>3, <1>4, MapsStutter

\* Initially the device is the empty file.
LEMMA InitMaps == Init => MInv /\ File!Init
<1> SUFFICES ASSUME Init PROVE MInv /\ File!Init
  OBVIOUS
<1>1. DevOK
  <2>1. <<>> \in Lists(G)  BY EmptySeq DEF Lists
  <2> QED BY <2>1, GeometryAssumption DEF Init, DevOK
<1>2. CallsOK
  <2>1. NoGeo \in Geometry  BY GeometryAssumption DEF NoGeo, Geometry
  <2>2. <<>> \in Seq(Cells)  BY EmptySeq
  <2> QED BY <2>1, <2>2 DEF Init, CallsOK
<1>3. \A f \in Files : CallKept(f)  BY DEF Init, CallKept
<1>4. Content = <<>>  BY ContentIs DEF Init
<1>5. Offers = [f \in Files |-> {}] /\ Givens = [f \in Files |-> <<>>]
  BY DEF Init, Offers, Givens, Offered, Given
<1>6. File!Init
  BY <1>4, <1>5 DEF Init, File!Init, Content, Offers, Givens, Offered, Given
<1> QED BY <1>1, <1>2, <1>3, <1>6 DEF MInv

\* Every step keeps the invariant, and is a step of the file or none.
LEMMA NextMaps == MInv /\ [QuietNext]_vars => MInv' /\ [File!Next]_(File!vars)
<1> SUFFICES ASSUME MInv, [QuietNext]_vars
             PROVE  MInv' /\ (File!Next \/ UNCHANGED File!vars)
  OBVIOUS
<1>1. CASE Ioctl  BY <1>1, IoctlMaps
<1>2. ASSUME NEW f \in Files, Step(f)
      PROVE  MInv' /\ (File!Next \/ UNCHANGED File!vars)
  BY <1>2, StepMaps
<1>3. ASSUME NEW f \in Files, (Standing = {} \/ <<quantum, qset>> = globals) /\ Trim(f)
      PROVE  MInv' /\ (File!Next \/ UNCHANGED File!vars)
  BY <1>3, TrimMaps DEF File!Next
<1>4. CASE UNCHANGED vars
  <2>1. UNCHANGED <<scull_quantum, scull_qset, quantum, qset, size, list, pc, pos, geo, count, ubuf>>
    BY <1>4 DEF vars, globals, dev, call
  <2>2. G' = G  BY <2>1 DEF G
  <2>3. DevOK' /\ CallsOK' /\ \A f \in Files : CallKept(f)'
    BY <2>1, <2>2 DEF MInv, DevOK, CallsOK, CallKept
  <2>4. Stutters  BY <2>1, <2>2, ContentIs DEF Stutters, Offers, Givens, Offered, Given
  <2> QED BY <2>3, <2>4, MapsStutter DEF MInv
<1> QED BY <1>1, <1>2, <1>3, <1>4 DEF QuietNext

\* The device is a file of bytes, whatever its geometry (main.c:262-387): what is
\* written at an offset is what is read there, nothing else changes, and a read
\* returns nothing only at the end or where nothing was written.
THEOREM MemIsFile == QuietSpec => IsFile
BY InitMaps, NextMaps, PTL DEF QuietSpec, IsFile, File!Spec
=============================================================================
