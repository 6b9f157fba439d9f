---------------------------- MODULE EmbedParityProof ----------------------------
(***************************************************************************)
(* Theorems about EmbedParity, for any checks whose sides have a vector    *)
(* for each text, and any batch size.                                      *)
(*                                                                         *)
(* A server answers a batch in any order; the sort puts the items back     *)
(* (OrderKept), so what is kept of a side is always the beginning of its   *)
(* own vectors (Kept), and a verdict compares all of them (Judged). That a *)
(* model compared with itself passes rests on the best documents of a      *)
(* query being a total order's first Depth places (AllInCommon).           *)
(***************************************************************************)
EXTENDS EmbedParity, SequenceTheorems, FunctionTheorems, FiniteSetTheorems, TLAPS

(* R orders 1..n strictly and totally. *)
Ordered(R, n) ==
  /\ \A i \in 1..n : <<i, i>> \notin R
  /\ \A i, j \in 1..n : i # j => <<i, j>> \in R \/ <<j, i>> \in R
  /\ \A i, j, k \in 1..n : <<i, j>> \in R /\ <<j, k>> \in R => <<i, k>> \in R

Below(R, n, i) == {j \in 1..n : <<j, i>> \in R}

Rank(R, n) == [i \in 1..n |-> Cardinality(Below(R, n, i))]

Down(n) == 0..(n - 1)

LEMMA Sizes ==
  ASSUME NEW n \in Nat
  PROVE  /\ IsFiniteSet(1..n) /\ Cardinality(1..n) = n
         /\ IsFiniteSet(Down(n)) /\ Cardinality(Down(n)) = n
<1>1. IsFiniteSet(1..n) /\ Cardinality(1..n) = n
  BY FS_Interval
<1>2. IsFiniteSet(Down(n)) /\ Cardinality(Down(n)) = n
  BY FS_Interval DEF Down
<1> QED
  BY <1>1, <1>2

(* To be counted below is to have a place of one's own. *)
LEMMA RankIsPlace ==
  ASSUME NEW n \in Nat, NEW R, Ordered(R, n)
  PROVE  Rank(R, n) \in Bijection(1..n, Down(n))
<1>1. ASSUME NEW i \in 1..n
      PROVE  /\ Below(R, n, i) \in SUBSET (1..n) /\ i \notin Below(R, n, i)
             /\ IsFiniteSet(Below(R, n, i)) /\ Cardinality(Below(R, n, i)) \in Down(n)
  <2>1. Below(R, n, i) \in SUBSET (1..n) /\ i \notin Below(R, n, i)
    BY DEF Below, Ordered
  <2>2. /\ IsFiniteSet(Below(R, n, i))
        /\ Cardinality(Below(R, n, i)) <= n
        /\ n = Cardinality(Below(R, n, i)) => 1..n = Below(R, n, i)
    BY <2>1, Sizes, FS_Subset
  <2>3. Cardinality(Below(R, n, i)) \in Nat
    BY <2>2, FS_CardinalityType
  <2> QED
    BY <2>1, <2>2, <2>3 DEF Down
<1>2. ASSUME NEW i \in 1..n, NEW j \in 1..n, <<i, j>> \in R
      PROVE  Cardinality(Below(R, n, i)) < Cardinality(Below(R, n, j))
  <2>1. Below(R, n, i) \in SUBSET Below(R, n, j)
    BY <1>2 DEF Below, Ordered
  <2>2. i \in Below(R, n, j) /\ i \notin Below(R, n, i)
    BY <1>1, <1>2 DEF Below
  <2>3. /\ IsFiniteSet(Below(R, n, j))
        /\ Cardinality(Below(R, n, i)) \in Int /\ Cardinality(Below(R, n, j)) \in Int
    BY <1>1 DEF Down
  <2>4. /\ Cardinality(Below(R, n, i)) <= Cardinality(Below(R, n, j))
        /\ Cardinality(Below(R, n, j)) = Cardinality(Below(R, n, i)) =>
             Below(R, n, j) = Below(R, n, i)
    BY <2>1, <2>3, FS_Subset
  <2> QED
    BY <2>2, <2>3, <2>4
<1>3. Rank(R, n) \in [1..n -> Down(n)]
  BY <1>1 DEF Rank
<1>4. Rank(R, n) \in Injection(1..n, Down(n))
  <2> SUFFICES ASSUME NEW i \in 1..n, NEW j \in 1..n, Rank(R, n)[i] = Rank(R, n)[j], i # j
               PROVE  FALSE
    BY <1>3, Fun_IsInj
  <2>1. Cardinality(Below(R, n, i)) = Cardinality(Below(R, n, j))
    BY DEF Rank
  <2>2. <<i, j>> \in R \/ <<j, i>> \in R
    BY DEF Ordered
  <2>3. Cardinality(Below(R, n, i)) \in Int /\ Cardinality(Below(R, n, j)) \in Int
    BY <1>1 DEF Down
  <2> QED
    BY <1>2, <2>1, <2>2, <2>3
<1>5. Rank(R, n) \in Surjection(1..n, Down(n))
  BY <1>4, Sizes, FS_Injection
<1> QED
  BY <1>4, <1>5, Fun_IsBij

(* The first k places are taken by k. *)
LEMMA FirstPlaces ==
  ASSUME NEW n \in Nat, NEW f \in Bijection(1..n, Down(n)), NEW k \in Nat, k <= n
  PROVE  Cardinality({i \in 1..n : f[i] < k}) = k
<1> DEFINE S == {i \in 1..n : f[i] < k}
           g == [i \in S |-> f[i]]
<1>1. /\ f \in [1..n -> Down(n)] /\ \A i, j \in 1..n : f[i] = f[j] => i = j
      /\ \A m \in Down(n) : \E i \in 1..n : f[i] = m
  BY Fun_BijectionProperties
<1>2. g \in [S -> Down(k)]
  BY <1>1 DEF Down
<1>3. \A i, j \in S : g[i] = g[j] => i = j
  BY <1>1
<1>4. \A m \in Down(k) : \E i \in S : g[i] = m
  <2> SUFFICES ASSUME NEW m \in Down(k) PROVE \E i \in S : g[i] = m
    OBVIOUS
  <2>1. m \in Down(n) /\ m < k
    BY DEF Down
  <2>2. PICK i \in 1..n : f[i] = m
    BY <1>1, <2>1
  <2> QED
    BY <2>1, <2>2
<1>5. g \in Bijection(S, Down(k))
  <2> HIDE DEF S, g
  <2> QED
    BY <1>2, <1>3, <1>4, Fun_IsBij
<1>6. IsFiniteSet(S)
  <2>1. S \in SUBSET (1..n)
    OBVIOUS
  <2> QED
    BY <2>1, Sizes, FS_Subset
<1>7. Cardinality(Down(k)) = Cardinality(S)
  <2>1. ExistsBijection(S, Down(k))
    BY <1>5 DEF ExistsBijection
  <2> HIDE DEF S
  <2> QED
    BY <1>6, <2>1, FS_Bijection
<1> QED
  BY <1>7, Sizes

-----------------------------------------------------------------------------
(* Items that come as the places q are put back as the texts were sent.      *)
LEMMA PutBack ==
  ASSUME NEW S, NEW input \in Seq(S), NEW items, NEW q \in [1..Len(input) -> 1..Len(input)],
         DOMAIN items = 1..Len(input),
         \A m \in 1..Len(input) : \E i \in 1..Len(input) : q[i] = m,
         \A i \in 1..Len(input) :
           items[i].vector = input[q[i]] /\ Place(items, i) = q[i] - 1
  PROVE  InOrder(items) = input
<1> DEFINE n == Len(input)
           at(m) == CHOOSE i \in DOMAIN items : Place(items, i) = m - 1
<1>1. n \in Nat /\ input = [m \in 1..n |-> input[m]]
  OBVIOUS
<1>2. ASSUME NEW m \in 1..n PROVE items[at(m)].vector = input[m]
  <2>1. \E i \in DOMAIN items : Place(items, i) = m - 1
    <3>1. PICK i \in 1..n : q[i] = m
      OBVIOUS
    <3> QED
      BY <3>1
  <2>2. at(m) \in 1..n /\ Place(items, at(m)) = m - 1
    BY <2>1
  <2> HIDE DEF at
  <2>3. q[at(m)] \in 1..n /\ q[at(m)] - 1 = m - 1
    BY <2>2
  <2>4. q[at(m)] = m
    <3> HIDE DEF at, n
    <3>1. q[at(m)] \in Int /\ m \in Int
      BY <1>1, <2>3
    <3> QED
      BY <2>3, <3>1
  <2> QED
    BY <2>2, <2>4
<1>3. InOrder(items) = [m \in 1..n |-> items[at(m)].vector]
  BY DEF InOrder
<1> HIDE DEF at
<1>4. [m \in 1..n |-> items[at(m)].vector] = [m \in 1..n |-> input[m]]
  BY <1>2
<1> QED
  BY <1>1, <1>3, <1>4

(* Whatever order a server answers in, embed returns the vectors in the      *)
(* order of the texts.                                                       *)
LEMMA OrderKept ==
  ASSUME NEW S, NEW input \in Seq(S), NEW items \in Replies(input)
  PROVE  InOrder(items) = input
<1> DEFINE n == Len(input)
<1>1. n \in Nat
  OBVIOUS
<1>2. ASSUME NEW p \in [1..n -> 1..n], \A i, j \in 1..n : p[i] = p[j] => i = j,
             items = [i \in 1..n |-> [index |-> p[i], vector |-> input[p[i]]]]
      PROVE  InOrder(items) = input
  <2> DEFINE f == [i \in 1..n |-> p[i] - 1]
  <2>1. f \in [1..n -> Down(n)]
    BY <1>1 DEF Down
  <2>2. ASSUME NEW i \in 1..n, NEW j \in 1..n, f[i] = f[j] PROVE i = j
    <3>1. p[i] \in Int /\ p[j] \in Int /\ p[i] - 1 = p[j] - 1
      BY <1>1, <2>2
    <3>2. p[i] = p[j]
      BY <3>1
    <3> QED
      BY <1>2, <3>2
  <2>3. f \in Injection(1..n, Down(n))
    <3> HIDE DEF f
    <3> QED
      BY <2>1, <2>2, Fun_IsInj
  <2>4. f \in Bijection(1..n, Down(n))
    <3>1. f \in Surjection(1..n, Down(n))
      BY <1>1, <2>3, Sizes, FS_Injection
    <3> QED
      BY <2>3, <3>1, Fun_IsBij
  <2>5. \A m \in 1..n : \E i \in 1..n : p[i] = m
    <3> SUFFICES ASSUME NEW m \in 1..n PROVE \E i \in 1..n : p[i] = m
      OBVIOUS
    <3>1. m - 1 \in Down(n)
      BY <1>1 DEF Down
    <3>2. PICK i \in 1..n : f[i] = m - 1
      BY <2>4, <3>1, Fun_BijectionProperties
    <3>3. p[i] \in 1..n /\ p[i] - 1 = m - 1
      BY <3>2
    <3> QED
      BY <1>1, <3>3
  <2>6. ASSUME NEW i \in 1..n PROVE Place(items, i) = p[i] - 1
    <3>1. Place(items, i) = Cardinality({j \in 1..n : f[j] < f[i]})
      <4>1. ASSUME NEW j \in 1..n
            PROVE  (items[j].index < items[i].index
                     \/ (items[j].index = items[i].index /\ j < i)) <=> f[j] < f[i]
        <5>1. p[i] \in Int /\ p[j] \in Int /\ i \in Int /\ j \in Int
          BY <1>1
        <5>2. items[j].index = p[j] /\ items[i].index = p[i]
          BY <1>2
        <5>3. f[j] = p[j] - 1 /\ f[i] = p[i] - 1
          OBVIOUS
        <5>4. p[i] = p[j] => i = j
          BY <1>2
        <5> HIDE DEF f
        <5> QED
          BY <5>1, <5>2, <5>3, <5>4
      <4>2. DOMAIN items = 1..n
        BY <1>2
      <4> HIDE DEF f
      <4>3. {j \in DOMAIN items : \/ items[j].index < items[i].index
                                  \/ items[j].index = items[i].index /\ j < i}
              = {j \in 1..n : f[j] < f[i]}
        BY <4>1, <4>2
      <4> QED
        BY <4>3 DEF Place
    <3>2. f[i] \in Nat /\ f[i] <= n /\ f[i] = p[i] - 1
      BY <1>1
    <3> HIDE DEF f
    <3>3. Cardinality({j \in 1..n : f[j] < f[i]}) = f[i]
      BY <1>1, <2>4, <3>2, FirstPlaces
    <3> QED
      BY <3>1, <3>2, <3>3
  <2>7. DOMAIN items = 1..n /\ \A i \in 1..n : items[i].vector = input[p[i]]
    BY <1>2
  <2> QED
    BY <2>5, <2>6, <2>7, PutBack
<1>3. ASSUME items = [i \in 1..n |-> [index |-> 0, vector |-> input[i]]]
      PROVE  InOrder(items) = input
  <2> DEFINE q == [i \in 1..n |-> i]
  <2>1. ASSUME NEW i \in 1..n PROVE Place(items, i) = i - 1
    <3>1. {j \in DOMAIN items : \/ items[j].index < items[i].index
                                \/ items[j].index = items[i].index /\ j < i} = 1..(i - 1)
      BY <1>1, <1>3
    <3>2. Cardinality(1..(i - 1)) = i - 1
      BY <1>1, FS_Interval
    <3> QED
      BY <3>1, <3>2 DEF Place
  <2>2. /\ q \in [1..n -> 1..n] /\ DOMAIN items = 1..n
        /\ \A m \in 1..n : \E i \in 1..n : q[i] = m
        /\ \A i \in 1..n : items[i].vector = input[q[i]] /\ q[i] - 1 = i - 1
    BY <1>3
  <2> HIDE DEF q
  <2>3. \A i \in 1..n : Place(items, i) = q[i] - 1
    BY <2>1, <2>2
  <2> QED
    BY <2>2, <2>3, PutBack
<1> QED
  BY <1>2, <1>3 DEF Replies

-----------------------------------------------------------------------------
Directions == 0..Far

LEMMA NearIsNumber ==
  ASSUME Far \in Nat, NEW x \in Directions, NEW y \in Directions
  PROVE  Near(x, y) \in Int /\ Near(x, x) = 6
  BY DEF Near, Directions

LookUp(vectors, q) ==
  {x \in (1..c.docs) \X (1..c.docs) : Nearer(vectors, q, x[1], x[2])}

(* Nearness, then the place in the file, orders a query's documents. *)
LEMMA NearerOrders ==
  ASSUME Far \in Nat, c.docs \in Nat, NEW vectors \in Seq(Directions), c.docs <= Len(vectors),
         NEW q \in 1..Len(vectors)
  PROVE  Ordered(LookUp(vectors, q), c.docs)
<1> DEFINE far(i) == Near(vectors[q], vectors[i])
<1>1. ASSUME NEW i \in 1..c.docs PROVE i \in Int /\ far(i) \in Int
  <2>1. i \in 1..Len(vectors)
    OBVIOUS
  <2>2. vectors[q] \in Directions /\ vectors[i] \in Directions
    BY <2>1
  <2> QED
    BY <2>2, NearIsNumber
<1> HIDE DEF far
<1>2. ASSUME NEW i \in 1..c.docs, NEW j \in 1..c.docs
      PROVE  <<i, j>> \in LookUp(vectors, q) <=> far(i) > far(j) \/ (far(i) = far(j) /\ i < j)
  BY DEF LookUp, Nearer, far
<1>3. \A i \in 1..c.docs : <<i, i>> \notin LookUp(vectors, q)
  BY <1>1, <1>2
<1>4. ASSUME NEW i \in 1..c.docs, NEW j \in 1..c.docs, i # j
      PROVE  <<i, j>> \in LookUp(vectors, q) \/ <<j, i>> \in LookUp(vectors, q)
  <2>1. <<i, j>> \in LookUp(vectors, q) <=> far(i) > far(j) \/ (far(i) = far(j) /\ i < j)
    BY <1>2
  <2>2. <<j, i>> \in LookUp(vectors, q) <=> far(j) > far(i) \/ (far(j) = far(i) /\ j < i)
    BY <1>2
  <2>3. i \in Int /\ j \in Int /\ far(i) \in Int /\ far(j) \in Int
    BY <1>1
  <2> QED
    BY <1>4, <2>1, <2>2, <2>3
<1>5. ASSUME NEW i \in 1..c.docs, NEW j \in 1..c.docs, NEW k \in 1..c.docs,
             <<i, j>> \in LookUp(vectors, q), <<j, k>> \in LookUp(vectors, q)
      PROVE  <<i, k>> \in LookUp(vectors, q)
  <2>1. far(i) > far(j) \/ (far(i) = far(j) /\ i < j)
    BY <1>2, <1>5
  <2>2. far(j) > far(k) \/ (far(j) = far(k) /\ j < k)
    BY <1>2, <1>5
  <2>3. /\ i \in Int /\ j \in Int /\ k \in Int
        /\ far(i) \in Int /\ far(j) \in Int /\ far(k) \in Int
    BY <1>1
  <2>4. far(i) > far(k) \/ (far(i) = far(k) /\ i < k)
    BY <2>1, <2>2, <2>3
  <2> QED
    BY <1>2, <2>4
<1> QED
  BY <1>3, <1>4, <1>5 DEF Ordered

(* A query's best documents are those of the first ranks. *)
LEMMA TopByRank ==
  ASSUME Far \in Nat, c.docs \in Nat, NEW vectors \in Seq(Directions), c.docs <= Len(vectors),
         NEW q \in 1..Len(vectors), NEW k
  PROVE  /\ Rank(LookUp(vectors, q), c.docs) \in Bijection(1..c.docs, Down(c.docs))
         /\ \A i \in 1..c.docs :
              i \in TopK(vectors, q, k) <=> Rank(LookUp(vectors, q), c.docs)[i] < k
<1>1. ASSUME NEW i \in 1..c.docs
      PROVE  {j \in 1..c.docs : Nearer(vectors, q, j, i)} = Below(LookUp(vectors, q), c.docs, i)
  BY DEF Below, LookUp
<1>2. ASSUME NEW i \in 1..c.docs
      PROVE  i \in TopK(vectors, q, k) <=> Rank(LookUp(vectors, q), c.docs)[i] < k
  BY <1>1 DEF TopK, Rank
<1>3. Ordered(LookUp(vectors, q), c.docs)
  BY NearerOrders
<1> QED
  BY <1>2, <1>3, RankIsPlace

(* Two sides with the same vectors have all of their best documents in       *)
(* common, as many a query as the depth says.                                *)
LEMMA AllInCommon ==
  ASSUME Far \in Nat, c.docs \in Nat, c.queries \in Nat, c.k \in Nat \ {0},
         NEW a \in Seq(Directions), Len(a) = c.docs + c.queries
  PROVE  Depth \in Nat /\ Common(a, a) = Depth * c.queries
<1> DEFINE Q == 1..c.queries
           D == 1..c.docs
           rank(q) == Rank(LookUp(a, c.docs + q), c.docs)
           S == {x \in Q \X D : rank(x[1])[x[2]] < Depth}
           h == [x \in S |-> <<x[1], rank(x[1])[x[2]]>>]
<1>1. Depth \in Nat /\ Depth <= c.docs
  BY DEF Depth
<1>2. ASSUME NEW q \in Q
      PROVE  /\ rank(q) \in Bijection(D, Down(c.docs))
             /\ \A i \in D : i \in TopK(a, c.docs + q, Depth) <=> rank(q)[i] < Depth
  <2>1. c.docs + q \in 1..Len(a) /\ c.docs <= Len(a)
    OBVIOUS
  <2> QED
    BY <2>1, TopByRank
<1> HIDE DEF rank
<1>3. Common(a, a) = Cardinality(S)
  <2>1. {x \in Q \X D : x[2] \in TopK(a, c.docs + x[1], Depth) \cap TopK(a, c.docs + x[1], Depth)}
          = S
    BY <1>2
  <2> QED
    BY <2>1 DEF Common
<1>4. ASSUME NEW q \in Q
      PROVE  /\ rank(q) \in [D -> Down(c.docs)]
             /\ \A i, j \in D : rank(q)[i] = rank(q)[j] => i = j
             /\ \A m \in Down(c.docs) : \E i \in D : rank(q)[i] = m
  BY <1>2, Fun_BijectionProperties
<1>5. h \in Bijection(S, Q \X Down(Depth))
  <2>1. ASSUME NEW x \in S
        PROVE  /\ h[x] = <<x[1], rank(x[1])[x[2]]>> /\ x[1] \in Q /\ x[2] \in D
               /\ x = <<x[1], x[2]>> /\ rank(x[1])[x[2]] \in Down(Depth)
    BY <1>1, <1>4 DEF Down
  <2>2. h \in [S -> Q \X Down(Depth)]
    BY <2>1
  <2>3. ASSUME NEW x \in S, NEW y \in S, h[x] = h[y] PROVE x = y
    <3>1. x[1] = y[1] /\ rank(x[1])[x[2]] = rank(x[1])[y[2]]
      BY <2>1, <2>3
    <3>2. x[2] = y[2]
      BY <1>4, <2>1, <3>1
    <3> QED
      BY <2>1, <3>1, <3>2
  <2>4. ASSUME NEW t \in Q \X Down(Depth) PROVE \E x \in S : h[x] = t
    <3>1. t[1] \in Q /\ t[2] \in Down(c.docs) /\ t[2] < Depth /\ t = <<t[1], t[2]>>
      BY <1>1 DEF Down
    <3>2. PICK i \in D : rank(t[1])[i] = t[2]
      BY <1>4, <3>1
    <3>3. <<t[1], i>> \in S
      BY <3>1, <3>2
    <3>4. h[<<t[1], i>>] = t
      BY <3>1, <3>2, <3>3
    <3> QED
      BY <3>3, <3>4
  <2> HIDE DEF h, S
  <2> QED
    BY <2>2, <2>3, <2>4, Fun_IsBij
<1>6. IsFiniteSet(S)
  <2>1. IsFiniteSet(Q \X D)
    BY Sizes, FS_Product
  <2>2. S \in SUBSET (Q \X D)
    OBVIOUS
  <2> HIDE DEF S
  <2> QED
    BY <2>1, <2>2, FS_Subset
<1>7. Cardinality(Q \X Down(Depth)) = c.queries * Depth
  <2>1. IsFiniteSet(Q) /\ Cardinality(Q) = c.queries
    BY Sizes
  <2>2. IsFiniteSet(Down(Depth)) /\ Cardinality(Down(Depth)) = Depth
    BY <1>1, Sizes
  <2> HIDE DEF Q
  <2>3. Cardinality(Q \X Down(Depth)) = Cardinality(Q) * Cardinality(Down(Depth))
    BY <2>1, <2>2, FS_Product, Zenon
  <2> QED
    BY <2>1, <2>2, <2>3
<1>8. Cardinality(Q \X Down(Depth)) = Cardinality(S)
  <2>1. ExistsBijection(S, Q \X Down(Depth))
    BY <1>5 DEF ExistsBijection
  <2> HIDE DEF S
  <2> QED
    BY <1>6, <2>1, FS_Bijection
<1>9. c.queries * Depth = Depth * c.queries
  BY <1>1
<1> HIDE DEF S
<1> QED
  BY <1>1, <1>3, <1>7, <1>8, <1>9

-----------------------------------------------------------------------------
Begins(a, b) == Len(a) <= Len(b) /\ \A i \in 1..Len(a) : a[i] = b[i]

Alike == (\A i \in 1..Texts : Similar(i) >= c.min) /\ Overlaps

ParityTypes ==
  /\ c \in Checks
  /\ got \in [mine : Seq(0..Far), theirs : Seq(0..Far)]
  /\ server \in {"mine", "theirs"}
  /\ code \in {-1, 0, 1, 2}

(* What is kept of a side is the beginning of its own vectors, text by text, *)
(* and the second side is asked when the first is whole.                     *)
Kept ==
  /\ Begins(got.mine, c.mine) /\ Begins(got.theirs, c.theirs)
  /\ server = "theirs" => Len(got.mine) = Texts /\ Accepted

(* A verdict is about all texts of both sides.                               *)
Judged ==
  code \in {0, 1} =>
    /\ server = "theirs" /\ Len(got.theirs) = Texts
    /\ code = 0 => Texts # 0 /\ c.fault # "dimensions" /\ Alike
    /\ code = 1 => c.fault = "dimensions" \/ ~Alike

PInv == ParityTypes /\ Kept /\ Judged

LEMMA Whole ==
  ASSUME NEW S, NEW a \in Seq(S), NEW b \in Seq(S), Begins(a, b), Len(a) = Len(b)
  PROVE  a = b
  BY DEF Begins

(* A batch continues what is kept. *)
LEMMA Continued ==
  ASSUME NEW S, NEW a \in Seq(S), NEW b \in Seq(S), Begins(a, b),
         NEW to \in Nat, Len(a) < to, to <= Len(b),
         NEW batch, batch = SubSeq(b, Len(a) + 1, to)
  PROVE  batch \in Seq(S) /\ a \o batch \in Seq(S) /\ Begins(a \o batch, b)
<1>1. Len(a) \in Nat /\ Len(b) \in Nat
  OBVIOUS
<1>2. batch \in Seq(S) /\ Len(batch) = to - Len(a)
  BY <1>1
<1>3. \A i \in 1..Len(batch) : batch[i] = b[Len(a) + i]
  BY <1>1, <1>2
<1>4. a \o batch \in Seq(S) /\ Len(a \o batch) = to
  BY <1>1, <1>2
<1>5. ASSUME NEW i \in 1..to PROVE (a \o batch)[i] = b[i]
  <2>1. CASE i <= Len(a)
    BY <1>1, <1>2, <2>1 DEF Begins
  <2>2. CASE i > Len(a)
    <3>1. i - Len(a) \in 1..Len(batch) /\ Len(a) + (i - Len(a)) = i
      BY <1>1, <1>2, <2>2
    <3>2. (a \o batch)[i] = batch[i - Len(a)]
      BY <1>1, <1>2, <2>2
    <3> QED
      BY <1>3, <3>1, <3>2
  <2> QED
    BY <1>1, <2>1, <2>2
<1> QED
  BY <1>2, <1>4, <1>5 DEF Begins

LEMMA CheckShape ==
  ASSUME c \in Checks
  PROVE  /\ c.docs \in Nat /\ c.queries \in Nat /\ c.k \in Nat \ {0} /\ Texts \in Nat
         /\ c.mine \in Seq(0..Far) /\ c.theirs \in Seq(0..Far)
         /\ Len(c.mine) = Texts /\ Texts = c.docs + c.queries
         /\ Accepted => Len(c.theirs) = Texts
         /\ c.min \in 0..6 /\ c.overlap \in 0..100
         /\ c.fault \in {"none", "counts", "dimensions"}
         /\ c.fault = "counts" => c.reference
  BY ChecksAssumption DEF CheckType, Texts, Accepted

LEMMA ParityStart ==
  ASSUME ParityInit
  PROVE  PInv
<1>1. ParityTypes
  BY DEF ParityInit, ParityTypes
<1>2. Kept
  BY CheckShape DEF ParityInit, Kept, Begins
<1> QED
  BY <1>1, <1>2 DEF PInv, Judged, ParityInit

LEMMA EmbedKeeps ==
  ASSUME PInv, Embed
  PROVE  PInv'
<1> USE DEF PInv
<1> DEFINE from == Len(got[server])
           to == IF from + Batch < Texts THEN from + Batch ELSE Texts
           input == SubSeq(Asked, from + 1, to)
<1>1. /\ Begun /\ from < Texts /\ UNCHANGED <<c, server, code>>
      /\ \E items \in Replies(input) : got' = [got EXCEPT ![server] = @ \o InOrder(items)]
  BY DEF Embed
<1>2. /\ c \in Checks /\ got \in [mine : Seq(0..Far), theirs : Seq(0..Far)]
      /\ server \in {"mine", "theirs"} /\ code = -1 /\ Accepted
  BY <1>1 DEF ParityTypes, Begun
<1>3. /\ Asked \in Seq(0..Far) /\ Len(Asked) = Texts /\ Texts \in Nat
      /\ got[server] \in Seq(0..Far) /\ Begins(got[server], Asked)
  BY <1>2, CheckShape DEF Asked, Kept
<1>4. to \in Nat /\ from < to /\ to <= Len(Asked)
  BY <1>1, <1>3, ChecksAssumption
<1> HIDE DEF to
<1>5. /\ input \in Seq(0..Far) /\ got[server] \o input \in Seq(0..Far)
      /\ Begins(got[server] \o input, Asked)
  BY <1>3, <1>4, Continued
<1> HIDE DEF input
<1>6. got' = [got EXCEPT ![server] = @ \o input]
  <2>1. PICK items \in Replies(input) : got' = [got EXCEPT ![server] = @ \o InOrder(items)]
    BY <1>1
  <2>2. InOrder(items) = input
    BY <1>5, OrderKept
  <2> QED
    BY <2>1, <2>2
<1>7. ParityTypes'
  BY <1>1, <1>2, <1>5, <1>6 DEF ParityTypes
<1>8. Kept'
  <2>1. Texts' = Texts /\ Accepted' = Accepted
    BY <1>1 DEF Texts, Accepted
  <2>2. CASE server = "mine"
    <3>1. got'.mine = got.mine \o input /\ got'.theirs = got.theirs /\ Asked = c.mine
      BY <1>2, <1>6, <2>2 DEF Asked
    <3> QED
      BY <1>1, <1>5, <2>2, <3>1 DEF Kept
  <2>3. CASE server = "theirs"
    <3>1. got'.theirs = got.theirs \o input /\ got'.mine = got.mine /\ Asked = c.theirs
      BY <1>2, <1>6, <2>3 DEF Asked
    <3> QED
      BY <1>1, <1>5, <2>1, <2>3, <3>1 DEF Kept
  <2> QED
    BY <1>2, <2>2, <2>3
<1>9. Judged'
  BY <1>1, <1>2 DEF Judged
<1> QED
  BY <1>7, <1>8, <1>9

LEMMA TurnKeeps ==
  ASSUME PInv, Turn
  PROVE  PInv'
<1> USE DEF PInv
<1>1. /\ c \in Checks /\ got \in [mine : Seq(0..Far), theirs : Seq(0..Far)] /\ code = -1
      /\ server' = "theirs" /\ c' = c /\ code' = code /\ Len(got.mine) = Texts /\ Accepted
      /\ got' = IF c.reference THEN [got EXCEPT !.theirs = c.theirs] ELSE got
  BY DEF Turn, Begun, ParityTypes
<1>2. /\ got' \in [mine : Seq(0..Far), theirs : Seq(0..Far)] /\ got'.mine = got.mine
      /\ got'.theirs \in {got.theirs, c.theirs}
  BY <1>1, CheckShape
<1>3. ParityTypes'
  BY <1>1, <1>2 DEF ParityTypes
<1>4. Begins(c.theirs, c.theirs)
  BY <1>1, CheckShape DEF Begins
<1>5. Texts' = Texts /\ Accepted' = Accepted
  BY <1>1 DEF Texts, Accepted
<1>6. Kept'
  BY <1>1, <1>2, <1>4, <1>5 DEF Kept
<1>7. Judged'
  BY <1>1 DEF Judged
<1> QED
  BY <1>3, <1>6, <1>7

LEMMA AlikeStays ==
  ASSUME c' = c, got' = got
  PROVE  Texts' = Texts /\ Alike' = Alike
<1>1. Texts' = Texts /\ Depth' = Depth
  BY DEF Texts, Depth
<1>2. Common(got.mine, got.theirs)' = Common(got.mine, got.theirs)
  BY <1>1 DEF Common, TopK, Nearer, Near
<1>3. Overlaps' = Overlaps
  BY <1>1, <1>2 DEF Overlaps
<1>4. (\A i \in 1..Texts : Similar(i) >= c.min)' = (\A i \in 1..Texts : Similar(i) >= c.min)
  BY <1>1 DEF Similar, Near
<1> QED
  BY <1>1, <1>3, <1>4 DEF Alike

LEMMA DecideKeeps ==
  ASSUME PInv, Decide
  PROVE  PInv'
<1> USE DEF PInv
<1>1. /\ server = "theirs" /\ Len(got.theirs) = Texts /\ UNCHANGED <<c, got, server>>
      /\ code' = IF Texts = 0 \/ (c.reference /\ c.fault = "dimensions") THEN 2
                 ELSE IF c.fault = "dimensions" THEN 1
                 ELSE IF Alike THEN 0 ELSE 1
  BY DEF Decide, Alike
<1>2. /\ Texts' = Texts /\ Alike' = Alike
  BY <1>1, AlikeStays
<1>3. ParityTypes'
  BY <1>1 DEF ParityTypes
<1>4. Kept'
  BY <1>1, <1>2 DEF Kept, Accepted
<1>5. Judged'
  BY <1>1, <1>2 DEF Judged
<1> QED
  BY <1>3, <1>4, <1>5

LEMMA ParityStep ==
  ASSUME PInv, [ParityNext]_parityVars
  PROVE  PInv'
<1>1. CASE Refuse \/ RequestFails
  <2>1. code' = 2 /\ UNCHANGED <<c, got, server>>
    BY <1>1 DEF Refuse, RequestFails
  <2> QED
    BY <2>1 DEF PInv, ParityTypes, Kept, Judged, Texts, Accepted
<1>2. CASE Embed
  BY <1>2, EmbedKeeps
<1>3. CASE Turn
  BY <1>3, TurnKeeps
<1>4. CASE Decide
  BY <1>4, DecideKeeps
<1>5. CASE UNCHANGED parityVars
  <2>1. UNCHANGED <<c, got, server, code>> /\ Texts' = Texts /\ Alike' = Alike
    BY <1>5, AlikeStays DEF parityVars
  <2> QED
    BY <2>1 DEF PInv, ParityTypes, Kept, Judged, Accepted
<1> QED
  BY <1>1, <1>2, <1>3, <1>4, <1>5 DEF ParityNext

(* What is kept is the servers' own vectors; a verdict is the comparison of  *)
(* all of them.                                                              *)
THEOREM ParityInvariant == ParitySpec => []PInv
<1>1. ParityInit => PInv
  BY ParityStart
<1>2. PInv /\ [ParityNext]_parityVars => PInv'
  BY ParityStep
<1> QED
  BY <1>1, <1>2, PTL DEF ParitySpec

(* A verdict is about the vectors the two sides have for the texts. *)
LEMMA WholeSides ==
  ASSUME PInv, code \in {0, 1}
  PROVE  got.mine = c.mine /\ got.theirs = c.theirs
<1>1. /\ got.mine \in Seq(0..Far) /\ got.theirs \in Seq(0..Far)
      /\ c.mine \in Seq(0..Far) /\ c.theirs \in Seq(0..Far)
      /\ Len(c.mine) = Texts /\ (Accepted => Len(c.theirs) = Texts)
  BY CheckShape DEF PInv, ParityTypes
<1>2. /\ server = "theirs" /\ Len(got.theirs) = Texts
      /\ Len(got.mine) = Texts /\ Accepted
      /\ Begins(got.mine, c.mine) /\ Begins(got.theirs, c.theirs)
  BY DEF PInv, Judged, Kept
<1>3. got.mine = c.mine
  BY <1>1, <1>2, Whole
<1>4. got.theirs = c.theirs
  BY <1>1, <1>2, Whole
<1> QED
  BY <1>3, <1>4

(* A pass says what it is for: each text's two directions, and no other      *)
(* text's, are as near as asked and the queries keep their best documents.   *)
THEOREM PassIsParity == ParitySpec => []PassMeansParity
<1>1. PInv => PassMeansParity
  <2> SUFFICES ASSUME PInv, code = 0
               PROVE  /\ c.fault = "none"
                      /\ \A i \in 1..Texts : Near(c.mine[i], c.theirs[i]) >= c.min
                      /\ 100 * Common(c.mine, c.theirs) >= c.overlap * Depth * c.queries
    BY DEF PassMeansParity
  <2>1. got.mine = c.mine /\ got.theirs = c.theirs
    BY WholeSides
  <2>2. Alike /\ c.fault # "dimensions" /\ Accepted
    BY DEF PInv, Judged, Kept
  <2>3. c \in Checks
    BY DEF PInv, ParityTypes
  <2>4. c.fault = "none"
    BY <2>2, <2>3, CheckShape DEF Accepted
  <2>5. \A i \in 1..Texts : Near(c.mine[i], c.theirs[i]) >= c.min
    BY <2>1, <2>2 DEF Alike, Similar
  <2>6. 100 * Common(c.mine, c.theirs) >= c.overlap * Depth * c.queries
    <3>1. CASE c.queries # 0
      BY <2>1, <2>2, <3>1 DEF Alike, Overlaps
    <3>2. CASE c.queries = 0
      <4>1. {x \in (1..c.queries) \X (1..c.docs) :
               x[2] \in TopK(c.mine, c.docs + x[1], Depth)
                          \cap TopK(c.theirs, c.docs + x[1], Depth)} = {}
        BY <3>2
      <4>2. Common(c.mine, c.theirs) = 0
        BY <4>1, FS_EmptySet DEF Common
      <4>3. c.docs \in Nat /\ c.k \in Nat /\ c.overlap \in 0..100
        BY <2>3, CheckShape
      <4>4. Depth \in Nat
        BY <4>3 DEF Depth
      <4> QED
        BY <3>2, <4>2, <4>3, <4>4
    <3> QED
      BY <3>1, <3>2
  <2> QED
    BY <2>4, <2>5, <2>6
<1> QED
  BY <1>1, ParityInvariant, PTL

LEMMA WholeShare ==
  ASSUME NEW k \in Nat, NEW q \in Nat, NEW o \in 0..100
  PROVE  100 * (k * q) >= o * k * q
<1> DEFINE p == k * q
<1>1. p \in Nat /\ o * k * q = o * p
  OBVIOUS
<1> HIDE DEF p
<1>2. 100 * p >= o * p
  BY <1>1
<1> QED
  BY <1>1, <1>2 DEF p

(* A model compared with itself passes, in whatever order its items come and *)
(* however its texts fall into batches.                                      *)
THEOREM ItselfPasses == ParitySpec => []SameModelPasses
<1>1. PInv => SameModelPasses
  <2> SUFFICES ASSUME PInv, code = 1, c.fault = "none", c.docs > 0,
                      \A i \in 1..Texts : c.mine[i] = c.theirs[i]
               PROVE  FALSE
    BY DEF SameModelPasses
  <2>1. got.mine = c.mine /\ got.theirs = c.theirs
    BY WholeSides
  <2>2. ~Alike
    BY DEF PInv, Judged
  <2>3. c \in Checks /\ Accepted
    BY DEF PInv, ParityTypes, Judged, Kept
  <2>4. /\ c.docs \in Nat /\ c.queries \in Nat /\ c.k \in Nat \ {0}
        /\ c.mine \in Seq(0..Far) /\ c.theirs \in Seq(0..Far)
        /\ Len(c.mine) = Texts /\ Texts = c.docs + c.queries /\ Len(c.theirs) = Texts
        /\ c.min \in 0..6 /\ c.overlap \in 0..100 /\ Far \in Nat
    BY <2>3, CheckShape, ChecksAssumption
  <2>5. c.mine = c.theirs
    <3>1. c.mine \in Seq(0..Far) /\ c.theirs \in Seq(0..Far)
      BY <2>4
    <3>2. Len(c.mine) = Texts /\ Len(c.theirs) = Texts
      BY <2>4
    <3>3. \A i \in 1..Texts : c.mine[i] = c.theirs[i]
      OBVIOUS
    <3>4. Begins(c.mine, c.theirs)
      BY <3>2, <3>3, <2>4 DEF Begins
    <3> QED
      BY <3>1, <3>2, <3>4, Whole
  <2>6. \A i \in 1..Texts : Similar(i) >= c.min
    <3> SUFFICES ASSUME NEW i \in 1..Texts PROVE Similar(i) >= c.min
      OBVIOUS
    <3>1. c.mine[i] \in Directions
      <4>1. c.mine \in Seq(Directions) /\ Len(c.mine) = Texts
        BY <2>4 DEF Directions
      <4> QED
        BY <4>1, ElementOfSeq
    <3>2. Near(c.mine[i], c.mine[i]) = 6
      BY <2>4, <3>1, NearIsNumber
    <3>3. Similar(i) = 6
      BY <2>1, <2>5, <3>2 DEF Similar
    <3>4. c.min \in 0..6
      BY <2>4
    <3> QED
      BY <3>3, <3>4
  <2>7. Depth \in Nat /\ Common(c.mine, c.mine) = Depth * c.queries
    <3>1. c.mine \in Seq(Directions)
      BY <2>4 DEF Directions
    <3> QED
      BY <2>4, <3>1, AllInCommon
  <2>8. 100 * (Depth * c.queries) >= c.overlap * Depth * c.queries
    BY <2>4, <2>7, WholeShare
  <2>9. Overlaps
    BY <2>1, <2>5, <2>7, <2>8 DEF Overlaps
  <2> QED
    BY <2>2, <2>6, <2>9 DEF Alike
<1> QED
  BY <1>1, ParityInvariant, PTL
=================================================================================
