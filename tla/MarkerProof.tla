------------------------------ MODULE MarkerProof ------------------------------
(***************************************************************************)
(* Theorems about the marker reader, for any source, Dockerfile and        *)
(* Cargo.toml: what it says is true of the binary the image ships.         *)
(*                                                                         *)
(* The reader and Docker read the same lines. Along the stages the image   *)
(* is made from (Walk) the reader knows the directory, and that nothing    *)
(* but one copy can leave a binary (Runtime); along those of the copy's    *)
(* source, that nothing but one command writes its output (Building); and  *)
(* the features of that command, followed through the table, are the       *)
(* smallest closed set Cargo turns on (VisitIsBuilt). So what is derived   *)
(* is shipped (DerivedIsShipped), unless a RUN the reader takes for        *)
(* harmless replaces the binary, and what the source is found to spell out *)
(* with these features it does in the binary (DetectionTrue). And it does  *)
(* answer: files of the forms of ReaderForms are read, whatever their one  *)
(* command and their manifest (FormsAreRead).                              *)
(*                                                                         *)
(* The proofs by induction rest on Least and Recursion; the bad numbers    *)
(* have a least one.                                                       *)
(***************************************************************************)
EXTENDS ReaderForms, WellFoundedInduction, FiniteSetTheorems, FunctionTheorems, TLAPS

(* A set of numbers has a least element: what a proof by induction rests on. *)
LEMMA Least ==
  ASSUME NEW T, T \subseteq Nat, T # {}
  PROVE  \E x \in T : \A y \in T : x <= y
<1> DEFINE R == {ss \in Nat \X Nat : ss[1] < ss[2]}
<1>1. IsWellFoundedOn(R, Nat)
  BY NatLessThanWellFounded DEF OpToRel
<1> HIDE DEF R
<1>2. PICK x \in T : \A y \in T : ~ (<<y, x>> \in R)
  BY <1>1, WFMin
<1>3. ASSUME NEW y \in T PROVE x <= y
  <2>1. x \in Nat /\ y \in Nat /\ ~ (<<y, x>> \in R)
    BY <1>2
  <2>2. ~(y < x)
    BY <2>1 DEF R
  <2> QED
    BY <2>1, <2>2
<1> QED
  BY <1>3

(* ... and a greatest one, if it is bounded. *)
LEMMA Greatest ==
  ASSUME NEW n \in Nat, NEW T, T \subseteq 0..n, T # {}
  PROVE  Max(T) \in T /\ \A y \in T : y <= Max(T)
<1> DEFINE D == {d \in 0..n : n - d \in T}
<1>1. PICK z \in T : TRUE
  OBVIOUS
<1>2. n - z \in D /\ n - (n - z) = z
  BY <1>1
<1>3. PICK d \in D : \A y \in D : d <= y
  <2> HIDE DEF D
  <2> D # {}
    BY <1>2
  <2> D \subseteq Nat
    BY DEF D
  <2> QED
    BY Least
<1>4. \A y \in T : n - d >= y
  <2> SUFFICES ASSUME NEW y \in T PROVE n - d >= y
    OBVIOUS
  <2>1. n - y \in D
    <3>1. y \in 0..n /\ n - y \in 0..n /\ n - (n - y) = y
      OBVIOUS
    <3> QED
      BY <3>1
  <2>2. d <= n - y
    BY <1>3, <2>1
  <2> QED
    BY <2>2
<1>5. \E m \in T : \A y \in T : m >= y
  BY <1>4
<1>6. Max(T) \in T /\ \A y \in T : Max(T) >= y
  BY <1>5 DEF Max
<1>7. \A x, y \in T : x >= y => y <= x
  OBVIOUS
<1> HIDE DEF D
<1> QED
  BY <1>6, <1>7

LEMMA Smallest ==
  ASSUME NEW T, T \subseteq Nat, T # {}
  PROVE  Min(T) \in T /\ \A y \in T : Min(T) <= y
<1>1. \E m \in T : \A y \in T : m <= y
  BY Least
<1> QED
  BY <1>1 DEF Min

(* A step that gives a value at n from the values at smaller numbers ...     *)
Descends(D, V, step) ==
  /\ D \subseteq Nat /\ V # {} /\ step \in [[D -> V] \X D -> V]
  /\ \A g, h \in [D -> V] : \A n \in D :
       (\A k \in D : k < n => g[k] = h[k]) => step[<<g, n>>] = step[<<h, n>>]

(* ... defines a function. *)
LEMMA Recursion ==
  ASSUME NEW D, NEW V, NEW step, Descends(D, V, step)
  PROVE  \E f \in [D -> V] : \A n \in D : f[n] = step[<<f, n>>]
<1> USE DEF Descends
<1> DEFINE Upto == [n \in D |-> {g \in [D -> V] : \A k \in D : k <= n => g[k] = step[<<g, k>>]}]
<1>0. \A n \in D : n \in Nat
  OBVIOUS
<1>1. ASSUME NEW m \in D, NEW n \in D, m <= n, NEW g \in Upto[m], NEW h \in Upto[n]
      PROVE  g[m] = h[m]
  <2> DEFINE T == {k \in D : k <= m /\ g[k] # h[k]}
  <2>0. /\ g \in [D -> V] /\ h \in [D -> V]
        /\ \A k \in D : k <= m => g[k] = step[<<g, k>>] /\ h[k] = step[<<h, k>>]
    <3>1. \A k \in D : k <= m => k <= n
      BY <1>0, <1>1
    <3> QED
      BY <3>1
  <2> HIDE DEF Upto
  <2>1. T = {}
    <3> SUFFICES ASSUME T # {} PROVE FALSE
      OBVIOUS
    <3>1. PICK k \in T : \A j \in T : k <= j
      <4> T \subseteq Nat
        OBVIOUS
      <4> HIDE DEF T
      <4> QED
        BY Least
    <3>2. ASSUME NEW j \in D, j < k PROVE g[j] = h[j]
      <4>1. j \in Nat /\ k \in Nat /\ m \in Nat /\ k <= m
        BY <1>0, <3>1
      <4>2. ~ (k <= j) /\ j <= m
        BY <3>2, <4>1
      <4> QED
        BY <3>1, <4>2
    <3>3. step[<<g, k>>] = step[<<h, k>>]
      BY <2>0, <3>2
    <3> QED
      BY <2>0, <3>3
  <2>2. m <= m
    BY <1>0
  <2> QED
    BY <2>1, <2>2
<1>2. ASSUME NEW m \in D, \A k \in D : k < m => Upto[k] # {} PROVE Upto[m] # {}
  <2> DEFINE Up == [k \in D |-> CHOOSE g : g \in Upto[k]]
  <2> HIDE DEF Upto
  <2>1. \A k \in D : k < m => Up[k] \in Upto[k]
    BY <1>2
  <2>2. PICK v \in V : TRUE
    OBVIOUS
  <2> HIDE DEF Up
  <2>3. \A k \in D : k < m => Up[k] \in [D -> V]
    BY <2>1 DEF Upto
  <2> DEFINE h == [k \in D |-> IF k < m THEN Up[k][k] ELSE v]
             H == [k \in D |-> IF k = m THEN step[<<h, m>>] ELSE h[k]]
  <2>4. h \in [D -> V]
    BY <2>3
  <2>5. <<h, m>> \in [D -> V] \X D
    BY <2>4
  <2>6. \A k \in D : k < m => h[k] = Up[k][k]
    OBVIOUS
  <2> HIDE DEF h
  <2>7. step[<<h, m>>] \in V
    BY <2>5
  <2>8. H \in [D -> V] /\ H[m] = step[<<h, m>>]
    BY <2>4, <2>7
  <2>9. \A k \in D : k < m => H[k] = h[k]
    BY <1>0
  <2> HIDE DEF H
  <2>10. H[m] = step[<<H, m>>]
    BY <2>4, <2>8, <2>9
  <2>11. ASSUME NEW k \in D, k < m PROVE H[k] = step[<<H, k>>]
    <3>1. Up[k] \in Upto[k] /\ Up[k] \in [D -> V]
      BY <2>1, <2>3, <2>11
    <3>2. Up[k][k] = step[<<Up[k], k>>]
      <4>1. k <= k
        BY <1>0
      <4> QED
        BY <3>1, <4>1 DEF Upto
    <3>3. ASSUME NEW j \in D, j < k PROVE H[j] = Up[k][j]
      <4>1. j <= k /\ j < m
        <5>1. j \in Nat /\ k \in Nat /\ m \in Nat
          BY <1>0
        <5> QED
          BY <2>11, <3>3, <5>1
      <4>2. Up[j] \in Upto[j]
        BY <2>1, <4>1
      <4>3. Up[j][j] = Up[k][j]
        BY <1>1, <3>1, <4>1, <4>2
      <4> QED
        BY <2>6, <2>9, <4>1, <4>3
    <3>4. step[<<H, k>>] = step[<<Up[k], k>>]
      BY <2>8, <3>1, <3>3
    <3>5. H[k] = Up[k][k]
      BY <2>6, <2>9, <2>11
    <3> QED
      BY <3>2, <3>4, <3>5
  <2>12. \A k \in D : k <= m => H[k] = step[<<H, k>>]
    <3>1. \A k \in D : k <= m => k < m \/ k = m
      BY <1>0
    <3> QED
      BY <2>10, <2>11, <3>1
  <2> QED
    BY <2>8, <2>12 DEF Upto
<1>3. \A n \in D : Upto[n] # {}
  <2> DEFINE T == {k \in D : Upto[k] = {}}
  <2> HIDE DEF Upto
  <2> SUFFICES ASSUME T # {} PROVE FALSE
    OBVIOUS
  <2>1. PICK m \in T : \A j \in T : m <= j
    <3> T \subseteq Nat
      OBVIOUS
    <3> HIDE DEF T
    <3> QED
      BY Least
  <2>2. ASSUME NEW k \in D, k < m PROVE Upto[k] # {}
    <3>1. k \in Nat /\ m \in Nat
      BY <1>0, <2>1
    <3>2. ~ (m <= k)
      BY <2>2, <3>1
    <3> QED
      BY <2>1, <3>2
  <2> QED
    BY <1>2, <2>1, <2>2
<1> DEFINE Up == [k \in D |-> CHOOSE g : g \in Upto[k]]
           f == [k \in D |-> Up[k][k]]
<1>4. \A k \in D : Up[k] \in Upto[k]
  <2> HIDE DEF Upto
  <2> QED
    BY <1>3
<1>5. \A k \in D : Up[k] \in [D -> V] /\ Up[k][k] = step[<<Up[k], k>>]
  <2> HIDE DEF Up
  <2>1. \A k \in D : k <= k
    BY <1>0
  <2> QED
    BY <1>4, <2>1
<1> HIDE DEF Up, Upto
<1>6. f \in [D -> V] /\ \A k \in D : f[k] = Up[k][k]
  BY <1>5
<1> HIDE DEF f
<1>7. ASSUME NEW k \in D PROVE f[k] = step[<<f, k>>]
  <2>1. ASSUME NEW j \in D, j < k PROVE f[j] = Up[k][j]
    <3>1. j <= k
      BY <1>0, <2>1
    <3>2. Up[j][j] = Up[k][j]
      BY <1>1, <1>4, <3>1
    <3> QED
      BY <1>6, <3>2
  <2> QED
    BY <1>5, <1>6, <2>1
<1> QED
  BY <1>6, <1>7

-----------------------------------------------------------------------------
(* The stage of a line is the last FROM up to it. *)
LEMMA StageOf ==
  ASSUME NEW lines \in Seq(Instructions), NEW n \in 0..Len(lines)
  PROVE  /\ StageAt(lines, n) \in {0} \cup Froms(lines)
         /\ StageAt(lines, n) <= n
         /\ \A f \in Froms(lines) : f <= n => f <= StageAt(lines, n)
         /\ n \in Froms(lines) => StageAt(lines, n) = n
<1> DEFINE T == {0} \cup {f \in Froms(lines) : f <= n}
<1>1. Len(lines) \in Nat /\ Froms(lines) \subseteq 1..Len(lines)
  BY DEF Froms
<1>2. T \subseteq 0..n /\ T # {} /\ n \in Nat
  BY <1>1
<1>3. Max(T) \in T /\ \A y \in T : y <= Max(T)
  <2> HIDE DEF T
  <2> QED
    BY <1>2, Greatest
<1>4. StageAt(lines, n) = Max(T)
  BY DEF StageAt
<1> HIDE DEF T
<1>5. \A y \in T : y \in Nat /\ y <= n
  BY <1>2
<1>6. n \in Froms(lines) => n \in T
  BY <1>2 DEF T
<1>7. n \in Froms(lines) => n <= StageAt(lines, n)
  BY <1>3, <1>4, <1>6
<1>8. StageAt(lines, n) \in Nat /\ StageAt(lines, n) <= n
  BY <1>3, <1>4, <1>5
<1>9. StageAt(lines, n) \in {0} \cup Froms(lines)
  BY <1>3, <1>4 DEF T
<1>10. \A f \in Froms(lines) : f <= n => f <= StageAt(lines, n)
  BY <1>3, <1>4 DEF T
<1> QED
  BY <1>2, <1>7, <1>8, <1>9, <1>10

(* A line that is no FROM is in the stage of the line before. *)
LEMMA StageBefore ==
  ASSUME NEW lines \in Seq(Instructions), NEW n \in 1..Len(lines), n \notin Froms(lines)
  PROVE  StageAt(lines, n - 1) = StageAt(lines, n)
<1>1. Len(lines) \in Nat /\ n - 1 \in 0..Len(lines) /\ n \in 0..Len(lines)
  OBVIOUS
<1>2. \A f \in Froms(lines) : f \in Nat /\ f # n
  BY DEF Froms
<1>3. \A f \in Froms(lines) : f <= n <=> f <= n - 1
  BY <1>1, <1>2
<1>4. {f \in Froms(lines) : f <= n} = {f \in Froms(lines) : f <= n - 1}
  BY <1>3
<1> QED
  BY <1>4 DEF StageAt

(* The stage of a later line is no earlier one. *)
LEMMA StageGrows ==
  ASSUME NEW lines \in Seq(Instructions), NEW n \in 0..Len(lines), NEW m \in 0..Len(lines), m <= n
  PROVE  StageAt(lines, m) <= StageAt(lines, n)
<1>1. Len(lines) \in Nat /\ m \in Nat /\ n \in Nat /\ Froms(lines) \subseteq 1..Len(lines)
  BY DEF Froms
<1>2. StageAt(lines, m) \in {0} \cup Froms(lines) /\ StageAt(lines, m) <= m
  BY StageOf
<1>3. \A f \in Froms(lines) : f <= n => f <= StageAt(lines, n)
  BY StageOf
<1>4. StageAt(lines, n) \in {0} \cup Froms(lines)
  BY StageOf
<1> QED
  BY <1>1, <1>2, <1>3, <1>4

LEMMA EndOf ==
  ASSUME NEW lines \in Seq(Instructions), NEW f \in Froms(lines)
  PROVE  /\ StageEnd(lines, f) \in 1..Len(lines) /\ f <= StageEnd(lines, f)
         /\ StageAt(lines, StageEnd(lines, f)) = f
         /\ \A n \in 1..Len(lines) : StageAt(lines, n) <= f => n <= StageEnd(lines, f)
         /\ \A g \in Froms(lines) : f < g => StageEnd(lines, f) < g
<1> DEFINE T == {n \in 1..Len(lines) : StageAt(lines, n) = f}
<1>1. /\ Len(lines) \in Nat /\ Froms(lines) \subseteq 1..Len(lines)
      /\ f \in 1..Len(lines) /\ f \in 0..Len(lines)
  BY DEF Froms
<1>2. StageAt(lines, f) = f
  BY <1>1, StageOf
<1>3. T \subseteq 0..Len(lines) /\ f \in T
  BY <1>1, <1>2
<1>4. StageEnd(lines, f) = Max(T)
  BY DEF StageEnd
<1>5. StageEnd(lines, f) \in T /\ \A y \in T : y <= StageEnd(lines, f)
  <2> HIDE DEF T
  <2> QED
    BY <1>1, <1>3, <1>4, Greatest
<1>6. ASSUME NEW n \in 1..Len(lines), StageAt(lines, n) <= f PROVE n <= StageEnd(lines, f)
  <2>1. CASE n < f
    BY <1>1, <1>3, <1>5, <2>1
  <2>2. CASE ~ (n < f)
    <3>1. n \in 0..Len(lines) /\ f <= n
      BY <1>1, <2>2
    <3>2. f <= StageAt(lines, n) /\ StageAt(lines, n) \in Nat
      BY <1>1, <3>1, StageOf
    <3>3. StageAt(lines, n) = f
      BY <1>1, <1>6, <3>2
    <3> QED
      BY <1>5, <3>3
  <2> QED
    BY <2>1, <2>2
<1>7. ASSUME NEW g \in Froms(lines), f < g PROVE StageEnd(lines, f) < g
  <2>1. StageAt(lines, StageEnd(lines, f)) = f /\ StageEnd(lines, f) \in 0..Len(lines)
    BY <1>1, <1>5
  <2>2. g <= StageEnd(lines, f) => g <= f
    BY <1>1, <2>1, StageOf
  <2> QED
    BY <1>1, <1>5, <1>7, <2>2
<1> QED
  BY <1>3, <1>5, <1>6, <1>7

-----------------------------------------------------------------------------
(* The stages before a FROM that its base may name. *)
LEMMA EarlierOf ==
  ASSUME NEW lines \in Seq(Instructions), NEW f \in Froms(lines), NEW name
  PROVE  Earlier(lines, name, f) = {p \in StagesOf(lines, name) : p < f}
<1>1. f \in 0..Len(lines)
  BY DEF Froms
<1>2. StageAt(lines, f) = f
  BY <1>1, StageOf
<1> QED
  BY <1>2 DEF Earlier

(* The chain of a stage: the recursion of chainOf ends. *)
LEMMA ChainsOf ==
  ASSUME NEW lines \in Seq(Instructions)
  PROVE  /\ Chains(lines) \in [Froms(lines) -> SUBSET Froms(lines)]
         /\ \A f \in Froms(lines) :
              Chains(lines)[f] =
                {f} \cup UNION {Chains(lines)[p] : p \in Earlier(lines, lines[f].base, f)}
<1> DEFINE D == Froms(lines)
           V == SUBSET Froms(lines)
           Before(f) == Earlier(lines, lines[f].base, f)
           step == [x \in [D -> V] \X D |-> {x[2]} \cup UNION {x[1][p] : p \in Before(x[2])}]
           Is(c) == c = [f \in D |-> {f} \cup UNION {c[p] : p \in Before(f)}]
<1>1. \A f \in D : \A p \in Before(f) : p \in D /\ p < f
  BY EarlierOf DEF StagesOf
<1>2. D \subseteq Nat /\ V # {}
  BY DEF Froms
<1>3. Chains(lines) = CHOOSE c : Is(c)
  BY Zenon DEF Chains
<1> HIDE DEF Before
<1>4. step \in [[D -> V] \X D -> V]
  <2>1. ASSUME NEW x \in [D -> V] \X D PROVE {x[2]} \cup UNION {x[1][p] : p \in Before(x[2])} \in V
    <3>1. x[1] \in [D -> V] /\ x[2] \in D
      OBVIOUS
    <3>2. \A p \in Before(x[2]) : x[1][p] \in V
      BY <1>1, <3>1
    <3> HIDE DEF D
    <3> QED
      BY <3>1, <3>2 DEF D
  <2> QED
    BY <2>1
<1>5. ASSUME NEW g \in [D -> V], NEW h \in [D -> V], NEW n \in D,
             \A k \in D : k < n => g[k] = h[k]
      PROVE  step[<<g, n>>] = step[<<h, n>>]
  <2>1. \A p \in Before(n) : g[p] = h[p]
    BY <1>1, <1>5
  <2>2. {g[p] : p \in Before(n)} = {h[p] : p \in Before(n)}
    BY <2>1
  <2>3. <<g, n>> \in [D -> V] \X D /\ <<h, n>> \in [D -> V] \X D
    OBVIOUS
  <2>4. /\ step[<<g, n>>] = {n} \cup UNION {g[p] : p \in Before(n)}
        /\ step[<<h, n>>] = {n} \cup UNION {h[p] : p \in Before(n)}
    BY <2>3
  <2> QED
    BY <2>2, <2>4
<1>6. PICK c \in [D -> V] : \A n \in D : c[n] = step[<<c, n>>]
  <2> HIDE DEF step, D, V, Is
  <2>1. Descends(D, V, step)
    BY <1>2, <1>4, <1>5 DEF Descends
  <2> QED
    BY <2>1, Recursion
<1>7. \A n \in D : c[n] = {n} \cup UNION {c[p] : p \in Before(n)}
  <2> TAKE n \in D
  <2>1. <<c, n>> \in [D -> V] \X D
    OBVIOUS
  <2>2. step[<<c, n>>] = {n} \cup UNION {c[p] : p \in Before(n)}
    BY <2>1
  <2> HIDE DEF step
  <2> QED
    BY <1>6, <2>2
<1>8. Is(c)
  BY <1>6, <1>7
<1>9. Is(Chains(lines))
  <2> HIDE DEF Is
  <2> QED
    BY <1>3, <1>8, Zenon
<1>10. \A n \in D : Chains(lines)[n] = {n} \cup UNION {Chains(lines)[p] : p \in Before(n)}
  BY <1>9
<1>11. \A n \in D : Chains(lines)[n] \in V
  <2> DEFINE T == {n \in D : Chains(lines)[n] \notin V}
  <2> SUFFICES ASSUME T # {} PROVE FALSE
    OBVIOUS
  <2>1. PICK n \in T : \A j \in T : n <= j
    <3>1. T \subseteq Nat
      BY <1>2
    <3> HIDE DEF T
    <3> QED
      BY <3>1, Least
  <2>2. \A p \in Before(n) : Chains(lines)[p] \in V
    <3> TAKE p \in Before(n)
    <3>1. p \in D /\ p < n
      BY <1>1
    <3>2. ~(n <= p)
      BY <1>2, <3>1
    <3> QED
      BY <2>1, <3>1, <3>2
  <2> HIDE DEF D
  <2> QED
    BY <1>10, <2>2 DEF D
<1>12. Chains(lines) = [n \in D |-> Chains(lines)[n]]
  BY <1>9
<1> QED
  BY <1>10, <1>11, <1>12 DEF Before

(* A name is that of one stage. *)
LEMMA OneName ==
  ASSUME NEW lines, Readable(lines), NEW name, NEW f \in StagesOf(lines, name),
         NEW g \in StagesOf(lines, name)
  PROVE  f = g
<1>1. f \in Froms(lines) /\ g \in Froms(lines) /\ lines[f].name = name /\ lines[g].name = name
      /\ name # "none"
  BY DEF StagesOf
<1> QED
  BY <1>1 DEF Readable

(* Where a stage comes from: a base image, or the one earlier stage of the   *)
(* name its base is.                                                         *)
LEMMA ChainStep ==
  ASSUME NEW lines \in Seq(Instructions), Readable(lines), NEW f \in Froms(lines)
  PROVE  \/ /\ Earlier(lines, lines[f].base, f) = {}
            /\ Chains(lines)[f] = {f}
         \/ \E p \in Froms(lines) :
              /\ p < f
              /\ Earlier(lines, lines[f].base, f) = {p}
              /\ Chains(lines)[f] = {f} \cup Chains(lines)[p]
<1> DEFINE E == Earlier(lines, lines[f].base, f)
<1>1. Chains(lines)[f] = {f} \cup UNION {Chains(lines)[p] : p \in E}
  BY ChainsOf
<1>2. \A p \in E : p \in StagesOf(lines, lines[f].base) /\ p < f /\ p \in Froms(lines)
  BY EarlierOf DEF StagesOf
<1>3. \A p, q \in E : p = q
  BY <1>2, OneName
<1>4. CASE E = {}
  BY <1>1, <1>4
<1>5. CASE E # {}
  <2>1. PICK p \in E : TRUE
    BY <1>5
  <2>2. E = {p}
    BY <1>3, <2>1
  <2>3. Chains(lines)[f] = {f} \cup Chains(lines)[p]
    BY <1>1, <2>2
  <2> QED
    BY <1>2, <2>2, <2>3
<1> QED
  BY <1>4, <1>5

(* A chain goes back through the file, and that of a stage of it is the part *)
(* of it up to that stage.                                                   *)
LEMMA ChainBack ==
  ASSUME NEW lines \in Seq(Instructions), Readable(lines), NEW t \in Froms(lines)
  PROVE  /\ t \in Chains(lines)[t] /\ Chains(lines)[t] \subseteq Froms(lines)
         /\ \A f \in Chains(lines)[t] :
              f <= t /\ Chains(lines)[f] = {g \in Chains(lines)[t] : g <= f}
<1> DEFINE C == Chains(lines)
           Good(n) == /\ n \in C[n] /\ C[n] \subseteq Froms(lines)
                      /\ \A f \in C[n] : f <= n /\ C[f] = {g \in C[n] : g <= f}
           T == {n \in Froms(lines) : ~ Good(n)}
<1>1. Froms(lines) \subseteq Nat
  BY DEF Froms
<1> SUFFICES ASSUME T # {} PROVE FALSE
  BY DEF Good
<1>2. PICK n \in T : \A j \in T : n <= j
  <2>1. T \subseteq Nat
    BY <1>1
  <2> HIDE DEF T
  <2> QED
    BY <2>1, Least
<1> HIDE DEF Good
<1>3. ASSUME NEW p \in Froms(lines), p < n PROVE Good(p)
  <2>1. ~ (n <= p)
    BY <1>1, <1>3
  <2> QED
    BY <1>2, <2>1
<1>4. n \in Nat /\ n \in Froms(lines)
  BY <1>1
<1>5. CASE C[n] = {n}
  BY <1>4, <1>5 DEF Good
<1>6. ASSUME NEW p \in Froms(lines), p < n, C[n] = {n} \cup C[p] PROVE Good(n)
  <2>1. /\ p \in C[p] /\ C[p] \subseteq Froms(lines)
        /\ \A f \in C[p] : f <= p /\ C[f] = {g \in C[p] : g <= f}
    BY <1>3, <1>6 DEF Good
  <2>2. \A f \in C[n] : f \in Nat /\ f <= n
    BY <1>1, <1>4, <1>6, <2>1
  <2>3. C[n] = {g \in C[n] : g <= n}
    BY <2>2
  <2>4. ASSUME NEW f \in C[p] PROVE C[f] = {g \in C[n] : g <= f}
    <3>1. f \in Nat /\ p \in Nat /\ f <= p /\ ~(n <= f)
      BY <1>1, <1>4, <1>6, <2>1
    <3>2. C[f] = {g \in C[p] : g <= f}
      BY <2>1
    <3>3. \A g \in C[n] : g <= f => g \in C[p]
      BY <1>6, <3>1
    <3> QED
      BY <1>6, <3>2, <3>3
  <2>5. \A f \in C[n] : C[f] = {g \in C[n] : g <= f}
    BY <1>6, <2>3, <2>4
  <2> QED
    BY <1>4, <1>6, <2>1, <2>2, <2>5 DEF Good
<1> QED
  BY <1>2, <1>4, <1>5, <1>6, ChainStep

-----------------------------------------------------------------------------
(* The file systems of the stages: what a line leaves of the one before it.  *)
Binaries(cargo) == [ok : BOOLEAN, features : SUBSET DOMAIN cargo.graph]

FileSystems(cargo) ==
  [rust : BOOLEAN, toolchain : BOOLEAN, rs : BOOLEAN, dir : {"/"} \cup STRING,
   trigger : BOOLEAN, shell : BOOLEAN, out : Binaries(cargo), bin : Binaries(cargo)]

LEMMA LastOf ==
  ASSUME NEW lines \in Seq(Instructions), NEW n \in 1..Len(lines), NEW name,
         Earlier(lines, name, n) # {}
  PROVE  /\ Last(lines, name, n) \in 1..Len(lines) /\ Last(lines, name, n) < n
         /\ StageAt(lines, Last(lines, name, n)) \in Earlier(lines, name, n)
<1> DEFINE p == CHOOSE f \in Earlier(lines, name, n) : TRUE
<1>1. p \in Earlier(lines, name, n)
  OBVIOUS
<1> HIDE DEF p
<1>2. p \in Froms(lines) /\ p < StageAt(lines, n)
  BY <1>1 DEF Earlier, StagesOf
<1>3. n \in 0..Len(lines) /\ n \in Nat /\ Froms(lines) \subseteq Nat
  BY DEF Froms
<1>4. StageAt(lines, n) \in Froms(lines) /\ StageAt(lines, n) <= n
  BY <1>2, <1>3, StageOf
<1>5. StageEnd(lines, p) \in 1..Len(lines) /\ StageAt(lines, StageEnd(lines, p)) = p
      /\ StageEnd(lines, p) < StageAt(lines, n)
  BY <1>2, <1>4, EndOf
<1>6. StageEnd(lines, p) < n
  BY <1>3, <1>4, <1>5
<1>7. Last(lines, name, n) = StageEnd(lines, p)
  BY DEF Last, p
<1> QED
  BY <1>1, <1>5, <1>6, <1>7

LEMMA CargoBuildsType ==
  ASSUME NEW program, NEW cargo
  PROVE  CargoBuilds(program, cargo) \in Binaries(cargo)
BY DEF CargoBuilds, Binaries, Nothing, Found

LEMMA CleanType ==
  ASSUME NEW cargo, NEW base
  PROVE  Clean(base) \in FileSystems(cargo)
<1> DEFINE rust == base = "rust"
<1>1. rust \in BOOLEAN
  OBVIOUS
<1>2. Nothing \in Binaries(cargo)
  BY DEF Nothing, Binaries
<1>3. Clean(base) =
        [rust |-> rust, toolchain |-> FALSE, rs |-> FALSE, dir |-> "/", trigger |-> FALSE,
         shell |-> FALSE, out |-> Nothing, bin |-> Nothing]
  BY DEF Clean
<1> HIDE DEF rust
<1> QED
  BY <1>1, <1>2, <1>3 DEF FileSystems

LEMMA EffectType ==
  ASSUME NEW cargo, NEW fs \in FileSystems(cargo), NEW given \in Binaries(cargo),
         NEW l \in Instructions
  PROVE  Effect(fs, given, l, cargo) \in FileSystems(cargo)
<1>1. Nothing \in Binaries(cargo)
  BY DEF Nothing, Binaries
<1>2. \A program : CargoBuilds(program, cargo) \in Binaries(cargo)
  BY CargoBuildsType
<1>3. CASE l.kw = "WORKDIR"
  <2>1. l.dir \in STRING
    BY <1>3 DEF Instructions
  <2> QED
    BY <1>3, <2>1 DEF Effect, FileSystems
<1>4. CASE l.kw = "ENV"
  <2>1. l.toolchain \in BOOLEAN
    BY <1>4 DEF Instructions
  <2> QED
    BY <1>4, <2>1 DEF Effect, FileSystems
<1>5. CASE l.kw \in {"SHELL", "ONBUILD"}
  BY <1>5 DEF Effect, FileSystems
<1>6. CASE l.kw = "RUN"
  BY <1>1, <1>2, <1>6 DEF Effect, FileSystems
<1>7. CASE l.kw \in {"COPY", "ADD"}
  <2> DEFINE rs == IF l.dest = "/src/" THEN l.from = "none" /\ l.src = "rs/" ELSE fs.rs
             out == IF l.dest = "/out/" THEN Nothing ELSE fs.out
             bin == IF ~Writes(l, fs.dir) THEN fs.bin ELSE IF OfOutput(l) THEN given ELSE Nothing
  <2>1. rs \in BOOLEAN /\ out \in Binaries(cargo) /\ bin \in Binaries(cargo)
    BY <1>1 DEF FileSystems
  <2>2. Effect(fs, given, l, cargo) = [fs EXCEPT !.rs = rs, !.out = out, !.bin = bin]
    BY <1>7 DEF Effect
  <2> HIDE DEF rs, out, bin
  <2> QED
    BY <2>1, <2>2 DEF FileSystems
<1>8. CASE l.kw \notin {"WORKDIR", "ENV", "SHELL", "ONBUILD", "RUN", "COPY", "ADD"}
  BY <1>8 DEF Effect
<1> QED
  BY <1>3, <1>4, <1>5, <1>6, <1>7, <1>8

LEMMA RootAtType ==
  ASSUME NEW lines \in Seq(Instructions), NEW cargo,
         NEW root \in [0..Len(lines) -> FileSystems(cargo)], NEW n \in 0..Len(lines)
  PROVE  RootAt(lines, cargo, root, n) \in FileSystems(cargo)
<1>1. \A base : Clean(base) \in FileSystems(cargo)
  BY CleanType
<1>2. CASE n = 0
  BY <1>1, <1>2 DEF RootAt
<1>3. ASSUME n # 0 PROVE RootAt(lines, cargo, root, n) \in FileSystems(cargo)
  <2>1. n \in 1..Len(lines) /\ n - 1 \in 0..Len(lines) /\ Len(lines) \in Nat
    BY <1>3
  <2>2. ASSUME NEW name, Earlier(lines, name, n) # {}
        PROVE  root[Last(lines, name, n)] \in FileSystems(cargo)
    <3>1. Last(lines, name, n) \in 0..Len(lines)
      BY <2>1, <2>2, LastOf
    <3> QED
      BY <3>1
  <2>3. Given(lines, root, n) \in Binaries(cargo)
    <3>1. \A fs \in FileSystems(cargo) : fs.out \in Binaries(cargo)
      BY DEF FileSystems
    <3>2. Nothing \in Binaries(cargo)
      BY DEF Nothing, Binaries
    <3> QED
      BY <2>2, <3>1, <3>2 DEF Given
  <2>4. lines[n] \in Instructions /\ root[n - 1] \in FileSystems(cargo)
    BY <2>1
  <2>5. Effect(root[n - 1], Given(lines, root, n), lines[n], cargo) \in FileSystems(cargo)
    BY <2>3, <2>4, EffectType
  <2> QED
    BY <1>1, <1>3, <2>2, <2>5 DEF RootAt
<1> QED
  BY <1>2, <1>3

(* A line's file system is made of those of earlier lines. *)
LEMMA RootAtBack ==
  ASSUME NEW lines \in Seq(Instructions), NEW cargo, NEW g, NEW h, NEW n \in 0..Len(lines),
         \A k \in 0..Len(lines) : k < n => g[k] = h[k]
  PROVE  RootAt(lines, cargo, g, n) = RootAt(lines, cargo, h, n)
<1>1. CASE n = 0
  BY <1>1 DEF RootAt
<1>2. ASSUME n # 0 PROVE RootAt(lines, cargo, g, n) = RootAt(lines, cargo, h, n)
  <2>1. n \in 1..Len(lines) /\ n - 1 \in 0..Len(lines) /\ n - 1 < n
    BY <1>2
  <2>2. ASSUME NEW name, Earlier(lines, name, n) # {}
        PROVE  g[Last(lines, name, n)] = h[Last(lines, name, n)]
    <3>1. Last(lines, name, n) \in 0..Len(lines) /\ Last(lines, name, n) < n
      BY <2>1, <2>2, LastOf
    <3> QED
      BY <3>1
  <2>3. Given(lines, g, n) = Given(lines, h, n)
    BY <2>2 DEF Given
  <2>4. g[n - 1] = h[n - 1]
    BY <2>1
  <2> QED
    BY <1>2, <2>2, <2>3, <2>4 DEF RootAt
<1> QED
  BY <1>1, <1>2

LEMMA RootsOf ==
  ASSUME NEW lines \in Seq(Instructions), NEW cargo
  PROVE  /\ Roots(lines, cargo) \in [0..Len(lines) -> FileSystems(cargo)]
         /\ \A n \in 0..Len(lines) :
              Roots(lines, cargo)[n] = RootAt(lines, cargo, Roots(lines, cargo), n)
<1> DEFINE D == 0..Len(lines)
           V == FileSystems(cargo)
           step == [x \in [D -> V] \X D |-> RootAt(lines, cargo, x[1], x[2])]
           Is(r) == r = [n \in D |-> RootAt(lines, cargo, r, n)]
<1>1. Roots(lines, cargo) = CHOOSE r : Is(r)
  BY DEF Roots
<1>2. D \subseteq Nat /\ V # {}
  <2>1. Clean("none") \in V
    BY CleanType
  <2> HIDE DEF V
  <2> QED
    BY <2>1
<1>3. step \in [[D -> V] \X D -> V]
  <2>1. ASSUME NEW x \in [D -> V] \X D PROVE RootAt(lines, cargo, x[1], x[2]) \in V
    <3>1. x[1] \in [D -> V] /\ x[2] \in D
      OBVIOUS
    <3> QED
      BY <3>1, RootAtType
  <2> QED
    BY <2>1
<1>4. \A r \in [D -> V] : \A n \in D : step[<<r, n>>] = RootAt(lines, cargo, r, n)
  <2> TAKE r \in [D -> V]
  <2> TAKE n \in D
  <2>1. <<r, n>> \in [D -> V] \X D
    OBVIOUS
  <2> QED
    BY <2>1
<1>5. Descends(D, V, step)
  <2>1. ASSUME NEW g \in [D -> V], NEW h \in [D -> V], NEW n \in D,
               \A k \in D : k < n => g[k] = h[k]
        PROVE  step[<<g, n>>] = step[<<h, n>>]
    <3>1. RootAt(lines, cargo, g, n) = RootAt(lines, cargo, h, n)
      BY <2>1, RootAtBack
    <3> HIDE DEF step, D, V
    <3> QED
      BY <1>4, <3>1
  <2> HIDE DEF step, D, V
  <2> QED
    BY <1>2, <1>3, <2>1 DEF Descends
<1>6. PICK r \in [D -> V] : \A n \in D : r[n] = step[<<r, n>>]
  <2> HIDE DEF step, D, V, Is
  <2> QED
    BY <1>5, Recursion
<1> HIDE DEF step
<1>7. Is(r)
  BY <1>4, <1>6
<1>8. Is(Roots(lines, cargo))
  <2> HIDE DEF Is
  <2> QED
    BY <1>1, <1>7, Zenon
<1>9. Roots(lines, cargo) = r
  (* both solve the equation; the least line where they differ is refuted *)
  <2> DEFINE R == Roots(lines, cargo)
             T == {n \in D : R[n] # r[n]}
  <2>0. /\ R = [n \in D |-> RootAt(lines, cargo, R, n)]
        /\ r = [n \in D |-> RootAt(lines, cargo, r, n)]
    BY <1>7, <1>8
  <2> HIDE DEF R, Is
  <2>1. T = {}
    <3> SUFFICES ASSUME T # {} PROVE FALSE
      OBVIOUS
    <3>1. PICK n \in T : \A j \in T : n <= j
      <4> T \subseteq Nat
        OBVIOUS
      <4> HIDE DEF T
      <4> QED
        BY Least
    <3>2. ASSUME NEW k \in D, k < n PROVE R[k] = r[k]
      <4>1. ~ (n <= k)
        BY <3>2
      <4> QED
        BY <3>1, <4>1
    <3>3. RootAt(lines, cargo, R, n) = RootAt(lines, cargo, r, n)
      BY <3>2, RootAtBack
    <3>4. R[n] = r[n]
      BY <2>0, <3>3
    <3> QED
      BY <3>4
  <2>2. \A n \in D : R[n] = r[n]
    BY <2>1
  <2> QED
    BY <2>0, <2>2 DEF R
<1> QED
  BY <1>4, <1>6, <1>9

(* Without heredocs every line is an instruction. *)
LEMMA ActiveAll ==
  ASSUME NEW lines \in Seq(Instructions), Readable(lines)
  PROVE  Active(lines) = lines
<1> DEFINE D == 0..Len(lines)
           Is(b) == b = [n \in D |-> IF n = 0 THEN 0
                                     ELSE IF b[n - 1] > 0 THEN b[n - 1] - 1
                                     ELSE IF lines[n].kw = "HEREDOC" THEN lines[n].body ELSE 0]
           body == CHOOSE b : Is(b)
           zero == [n \in D |-> 0]
<1>1. \A n \in 1..Len(lines) : lines[n].kw # "HEREDOC"
  BY DEF Readable
<1>2. Len(lines) \in Nat
  OBVIOUS
<1>3. Active(lines) =
        [n \in 1..Len(lines) |-> IF body[n - 1] > 0 THEN Word("BODY") ELSE lines[n]]
  BY DEF Active
<1>4. Is(zero)
  <2>1. \A n \in D : n # 0 => n \in 1..Len(lines) /\ zero[n - 1] = 0
    BY <1>2
  <2> QED
    BY <1>1, <2>1
<1>5. Is(body)
  <2> HIDE DEF Is
  <2> QED
    BY <1>4, Zenon
<1> HIDE DEF body
<1>6. \A n \in D : body[n] = 0
  <2> DEFINE T == {n \in D : body[n] # 0}
  <2> SUFFICES ASSUME T # {} PROVE FALSE
    OBVIOUS
  <2>1. PICK n \in T : \A j \in T : n <= j
    <3>1. T \subseteq Nat
      OBVIOUS
    <3> HIDE DEF T
    <3> QED
      BY <3>1, Least
  <2>2. CASE n = 0
    BY <1>5, <2>1, <2>2
  <2>3. ASSUME n # 0 PROVE FALSE
    <3>1. n - 1 \in D /\ n \in 1..Len(lines) /\ ~(n <= n - 1)
      BY <1>2, <2>3
    <3>2. body[n - 1] = 0
      BY <2>1, <3>1
    <3>3. body[n] = 0
      BY <1>1, <1>5, <2>3, <3>1, <3>2
    <3> QED
      BY <2>1, <3>3
  <2> QED
    BY <2>2, <2>3
<1>7. \A n \in 1..Len(lines) : n - 1 \in D
  BY <1>2
<1>8. lines = [n \in 1..Len(lines) |-> lines[n]]
  OBVIOUS
<1>9. \A n \in 1..Len(lines) : ~(body[n - 1] > 0)
  BY <1>6, <1>7
<1> QED
  BY <1>3, <1>8, <1>9

(* Along a chain, a line is the first of all, with the base image; or a FROM *)
(* that begins where the stage it is from ends; or the next instruction.     *)
Follows(lines, cargo, C, ins, n) ==
  LET root == Roots(lines, cargo)
  IN \/ /\ n \in C /\ \A f \in C : n <= f
        /\ root[n] = Clean(lines[n].base)
        /\ \A m \in ins : n < m
     \/ /\ n \in C
        /\ \E e \in 1..Len(lines) :
             /\ e < n /\ StageAt(lines, e) \in C
             /\ root[e].trigger = FALSE => root[n] = root[e]
             /\ \A m \in ins : m <= n => m <= e
     \/ /\ n \in ins /\ n - 1 \in 1..Len(lines) /\ StageAt(lines, n - 1) \in C
        /\ root[n] = Effect(root[n - 1], Given(lines, root, n), lines[n], cargo)

LEMMA Walk ==
  ASSUME NEW lines \in Seq(Instructions), NEW cargo, Readable(lines), NEW t \in Froms(lines),
         NEW n \in 1..Len(lines), StageAt(lines, n) \in Chains(lines)[t]
  PROVE  Follows(lines, cargo, Chains(lines)[t], InsOf(lines, Chains(lines)[t]), n)
<1> DEFINE C == Chains(lines)[t]
           ins == InsOf(lines, C)
           root == Roots(lines, cargo)
<1>0. Len(lines) \in Nat /\ n \in Nat /\ n \in 0..Len(lines) /\ n # 0
  OBVIOUS
<1>1. root[n] = RootAt(lines, cargo, root, n)
  BY <1>0, RootsOf
<1>2. Froms(lines) \subseteq 1..Len(lines) /\ C \subseteq Froms(lines)
  BY ChainBack DEF Froms
<1>3. \A m \in ins : /\ m \in 1..Len(lines) /\ m \notin Froms(lines) /\ StageAt(lines, m) \in C
                     /\ StageAt(lines, m) \in Nat /\ StageAt(lines, m) <= m
  <2> TAKE m \in ins
  <2>1. m \in 1..Len(lines) /\ lines[m].kw # "FROM" /\ StageAt(lines, m) \in C
    BY DEF InsOf
  <2>2. m \in 0..Len(lines)
    BY <2>1
  <2>3. StageAt(lines, m) <= m
    BY <2>2, StageOf
  <2> QED
    BY <1>2, <2>1, <2>3 DEF Froms
<1>4. CASE n \in Froms(lines)
  <2>1. StageAt(lines, n) = n /\ n \in C
    BY <1>0, <1>4, StageOf
  <2>2. Chains(lines)[n] = {g \in C : g <= n}
    BY <2>1, ChainBack
  <2>3. lines[n].kw = "FROM"
    BY <1>4 DEF Froms
  <2>4. CASE Earlier(lines, lines[n].base, n) = {} /\ Chains(lines)[n] = {n}
    <3>1. \A f \in C : f <= n => f = n
      BY <2>2, <2>4
    <3>2. \A f \in C : n <= f
      BY <1>0, <1>2, <3>1
    <3>3. root[n] = Clean(lines[n].base)
      BY <1>0, <1>1, <2>3, <2>4 DEF RootAt
    <3>4. \A m \in ins : n < m
      BY <1>0, <1>3, <1>4, <3>2
    <3> QED
      BY <2>1, <3>2, <3>3, <3>4 DEF Follows
  <2>5. ASSUME NEW p \in Froms(lines), p < n, Earlier(lines, lines[n].base, n) = {p},
               Chains(lines)[n] = {n} \cup Chains(lines)[p]
        PROVE  \E e \in 1..Len(lines) :
                 /\ e < n /\ StageAt(lines, e) \in C
                 /\ root[e].trigger = FALSE => root[n] = root[e]
                 /\ \A m \in ins : m <= n => m <= e
    <3> DEFINE e == Last(lines, lines[n].base, n)
    <3>1. e = StageEnd(lines, p)
      BY <2>5 DEF Last
    <3>2. e \in 1..Len(lines) /\ e < n /\ StageAt(lines, e) = p
      BY <2>5, LastOf
    <3>3. p \in C
      BY <2>2, <2>5, ChainBack
    <3>4. root[e].trigger = FALSE => root[n] = root[e]
      BY <1>0, <1>1, <2>3, <2>5 DEF RootAt
    <3>5. ASSUME NEW m \in ins, m <= n PROVE m <= e
      <4>1. m \in 1..Len(lines) /\ StageAt(lines, m) \in C /\ StageAt(lines, m) <= m /\ m # n
            /\ StageAt(lines, m) \in Nat
        BY <1>3, <1>4
      <4>2. StageAt(lines, m) < n
        BY <1>0, <3>5, <4>1
      <4>3. StageAt(lines, m) \in Chains(lines)[p]
        BY <1>0, <2>2, <2>5, <4>1, <4>2
      <4>4. StageAt(lines, m) <= p
        BY <2>5, <4>3, ChainBack
      <4> QED
        BY <2>5, <3>1, <4>1, <4>4, EndOf
    <3> HIDE DEF e, root, ins, C
    <3> QED
      BY <3>2, <3>3, <3>4, <3>5
  <2> QED
    BY <1>4, <2>1, <2>4, <2>5, ChainStep DEF Follows
<1>5. CASE n \notin Froms(lines)
  <2>1. lines[n].kw # "FROM" /\ n # 1
    BY <1>5 DEF Froms, Readable
  <2>2. n - 1 \in 1..Len(lines)
    BY <1>0, <2>1
  <2>3. StageAt(lines, n - 1) = StageAt(lines, n)
    BY <1>5, StageBefore
  <2>4. n \in ins
    BY <2>1 DEF InsOf
  <2>5. root[n] = Effect(root[n - 1], Given(lines, root, n), lines[n], cargo)
    BY <1>0, <1>1, <2>1 DEF RootAt
  <2> QED
    BY <2>2, <2>3, <2>4, <2>5 DEF Follows
<1> QED
  BY <1>4, <1>5

-----------------------------------------------------------------------------
(* The directory the reader finds before a line. *)
LEMMA DirStep ==
  ASSUME NEW lines \in Seq(Instructions), NEW ins, ins \subseteq 1..Len(lines), NEW n \in Nat
  PROVE  /\ n \in ins /\ lines[n].kw = "WORKDIR" => DirAt(lines, ins, n + 1) = lines[n].dir
         /\ ~(n \in ins /\ lines[n].kw = "WORKDIR")
              => DirAt(lines, ins, n + 1) = DirAt(lines, ins, n)
         /\ (\A m \in ins : n < m) => DirAt(lines, ins, n + 1) = "/"
         /\ \A e \in Nat : e < n /\ (\A m \in ins : m <= n => m <= e)
              => DirAt(lines, ins, n + 1) = DirAt(lines, ins, e + 1)
<1> DEFINE Dirs(k) == {m \in ins : m < k /\ lines[m].kw = "WORKDIR"}
<1>1. \A k : DirAt(lines, ins, k) = IF Dirs(k) = {} THEN "/" ELSE lines[Max(Dirs(k))].dir
  BY DEF DirAt
<1>2. Len(lines) \in Nat /\ \A m \in ins : m \in Nat
  OBVIOUS
<1>3. ASSUME n \in ins, lines[n].kw = "WORKDIR" PROVE DirAt(lines, ins, n + 1) = lines[n].dir
  <2>1. n \in Dirs(n + 1) /\ Dirs(n + 1) \subseteq 0..Len(lines) /\ \A m \in Dirs(n + 1) : m <= n
    <3>1. n < n + 1 /\ \A m \in Nat : m < n + 1 => m <= n
      OBVIOUS
    <3>2. \A m \in ins : m \in 0..Len(lines)
      BY <1>2
    <3> QED
      BY <1>2, <1>3, <3>1, <3>2
  <2>2. Max(Dirs(n + 1)) \in Dirs(n + 1) /\ n <= Max(Dirs(n + 1))
    <3> HIDE DEF Dirs
    <3> QED
      BY <1>2, <2>1, Greatest
  <2>3. Max(Dirs(n + 1)) = n
    <3>1. Max(Dirs(n + 1)) \in Nat /\ Max(Dirs(n + 1)) <= n
      <4>1. \A m \in Dirs(n + 1) : m \in Nat
        BY <1>2
      <4> HIDE DEF Dirs
      <4> QED
        BY <2>1, <2>2, <4>1
    <3> HIDE DEF Dirs
    <3> QED
      BY <2>2, <3>1
  <2> HIDE DEF Dirs
  <2> QED
    BY <1>1, <2>1, <2>3
<1>4. ~(n \in ins /\ lines[n].kw = "WORKDIR") => Dirs(n + 1) = Dirs(n)
  <2>1. \A m \in ins : m < n + 1 <=> m < n \/ m = n
    BY <1>2
  <2> QED
    BY <2>1
<1>5. (\A m \in ins : n < m) => Dirs(n + 1) = {}
  <2>1. \A m \in Nat : n < m => ~(m < n + 1)
    OBVIOUS
  <2> QED
    BY <1>2, <2>1
<1>6. ASSUME NEW e \in Nat, e < n, \A m \in ins : m <= n => m <= e
      PROVE  Dirs(n + 1) = Dirs(e + 1)
  <2>1. \A m \in ins : m < n + 1 <=> m < e + 1
    BY <1>2, <1>6
  <2> QED
    BY <2>1
<1> HIDE DEF Dirs
<1> QED
  BY <1>1, <1>3, <1>4, <1>5, <1>6

(* What an instruction that neither triggers nor overwrites leaves. *)
LEMMA EffectMild ==
  ASSUME NEW cargo, NEW fs \in FileSystems(cargo), NEW given, NEW l \in Instructions,
         l.kw \notin {"ONBUILD", "SHELL"}, l.kw = "RUN" => l.program.form = "plain"
  PROVE  /\ Effect(fs, given, l, cargo).dir = IF l.kw = "WORKDIR" THEN l.dir ELSE fs.dir
         /\ Effect(fs, given, l, cargo).trigger = fs.trigger
         /\ Effect(fs, given, l, cargo).bin =
              IF ~Writes(l, fs.dir) THEN fs.bin ELSE IF OfOutput(l) THEN given ELSE Nothing
<1>1. CASE l.kw = "WORKDIR"
  BY <1>1 DEF Effect, FileSystems, Writes
<1>2. CASE l.kw = "ENV"
  BY <1>2 DEF Effect, FileSystems, Writes
<1>3. CASE l.kw = "RUN"
  BY <1>3 DEF Effect, FileSystems, Writes
<1>4. CASE l.kw \in {"COPY", "ADD"}
  <2> DEFINE rs == IF l.dest = "/src/" THEN l.from = "none" /\ l.src = "rs/" ELSE fs.rs
             out == IF l.dest = "/out/" THEN Nothing ELSE fs.out
             bin == IF ~Writes(l, fs.dir) THEN fs.bin ELSE IF OfOutput(l) THEN given ELSE Nothing
  <2>1. Effect(fs, given, l, cargo) = [fs EXCEPT !.rs = rs, !.out = out, !.bin = bin]
    BY <1>4 DEF Effect
  <2> HIDE DEF rs, out, bin
  <2>2. /\ Effect(fs, given, l, cargo).dir = fs.dir
        /\ Effect(fs, given, l, cargo).trigger = fs.trigger
        /\ Effect(fs, given, l, cargo).bin = bin
    BY <2>1 DEF FileSystems
  <2> QED
    BY <1>4, <2>2 DEF bin
<1>5. CASE l.kw \notin {"WORKDIR", "ENV", "RUN", "COPY", "ADD"}
  BY <1>5 DEF Effect, FileSystems, Writes
<1> QED
  BY <1>1, <1>2, <1>3, <1>4, <1>5

(* The binary of the runtime stage is the output of the stage it is copied   *)
(* from: nothing that follows the one copy, in any stage of the chain, can   *)
(* replace it.                                                               *)
Kept(lines, cargo, ins, hit, n) ==
  LET root == Roots(lines, cargo)
  IN /\ root[n].dir = DirAt(lines, ins, n + 1)
     /\ root[n].trigger = FALSE
     /\ root[n].bin = IF hit <= n THEN Given(lines, root, hit) ELSE Nothing

LEMMA Runtime ==
  ASSUME NEW lines \in Seq(Instructions), NEW cargo, Readable(lines), NEW t \in Froms(lines),
         NEW ins, ins = InsOf(lines, Chains(lines)[t]), ~Overwritable(lines, ins),
         \A m \in ins : lines[m].kw = "RUN" => lines[m].program.form # "unnamed",
         NEW hit, Placed(lines, ins) = {hit}, OfOutput(lines[hit]),
         NEW n \in 1..Len(lines), StageAt(lines, n) \in Chains(lines)[t]
  PROVE  Kept(lines, cargo, ins, hit, n)
<1> DEFINE C == Chains(lines)[t]
           root == Roots(lines, cargo)
           Good(k) == Kept(lines, cargo, ins, hit, k)
           T == {k \in 1..Len(lines) : StageAt(lines, k) \in C /\ ~Good(k)}
<1>1. Len(lines) \in Nat /\ ins \subseteq 1..Len(lines)
  BY DEF InsOf
<1> SUFFICES ASSUME T # {} PROVE FALSE
  OBVIOUS
<1>2. PICK k \in T : \A j \in T : k <= j
  <2>1. T \subseteq Nat
    BY <1>1
  <2> HIDE DEF T
  <2> QED
    BY <2>1, Least
<1>3. k \in Nat /\ k \in 1..Len(lines) /\ StageAt(lines, k) \in C /\ ~Good(k)
  BY <1>1, <1>2
<1>4. ASSUME NEW e \in 1..Len(lines), e < k, StageAt(lines, e) \in C PROVE Good(e)
  <2>1. ~(k <= e)
    BY <1>3, <1>4
  <2> QED
    BY <1>2, <1>4, <2>1
<1>5. hit \in ins /\ hit \in Nat /\ hit \in 1..Len(lines)
  BY <1>1 DEF Placed
<1>6. ASSUME root[k] = Clean(lines[k].base), \A m \in ins : k < m PROVE FALSE
  <2>1. DirAt(lines, ins, k + 1) = "/"
    BY <1>1, <1>3, <1>6, DirStep
  <2>2. ~(hit <= k)
    BY <1>3, <1>5, <1>6
  <2>3. root[k].dir = "/" /\ root[k].trigger = FALSE /\ root[k].bin = Nothing
    BY <1>6 DEF Clean
  <2> QED
    BY <1>3, <2>1, <2>2, <2>3 DEF Kept
<1>7. ASSUME NEW e \in 1..Len(lines), e < k, StageAt(lines, e) \in C,
             root[e].trigger = FALSE => root[k] = root[e], \A m \in ins : m <= k => m <= e
      PROVE  FALSE
  <2>1. Good(e) /\ e \in Nat
    BY <1>1, <1>4, <1>7
  <2>2. root[k] = root[e]
    BY <1>7, <2>1 DEF Kept
  <2>3. DirAt(lines, ins, k + 1) = DirAt(lines, ins, e + 1)
    BY <1>1, <1>3, <1>7, <2>1, DirStep
  <2>4. hit <= k <=> hit <= e
    BY <1>3, <1>5, <1>7, <2>1
  <2>5. Good(k)
    BY <2>1, <2>2, <2>3, <2>4 DEF Kept
  <2> QED
    BY <1>3, <2>5
<1>8. ASSUME k \in ins, k - 1 \in 1..Len(lines), StageAt(lines, k - 1) \in C,
             root[k] = Effect(root[k - 1], Given(lines, root, k), lines[k], cargo)
      PROVE  FALSE
  <2>1. Good(k - 1) /\ (k - 1) + 1 = k
    BY <1>3, <1>4, <1>8
  <2>2. root[k - 1].dir = DirAt(lines, ins, k) /\ root[k - 1].trigger = FALSE
        /\ root[k - 1].bin = IF hit <= k - 1 THEN Given(lines, root, hit) ELSE Nothing
    BY <2>1 DEF Kept
  <2>3. root[k - 1] \in FileSystems(cargo) /\ lines[k] \in Instructions
    <3>1. k - 1 \in 0..Len(lines)
      BY <1>1, <1>8
    <3> QED
      BY <1>3, <3>1, RootsOf
  <2>4. /\ lines[k].kw \notin {"ONBUILD", "SHELL"}
        /\ lines[k].kw = "RUN" => lines[k].program.form = "plain"
    <3>1. lines[k].kw = "RUN" =>
            lines[k].program.form \in {"literal", "selector", "touching", "unnamed", "plain"}
      BY <2>3 DEF Instructions, Programs
    <3> QED
      BY <1>8, <3>1 DEF Overwritable
  <2>5. /\ root[k].dir = IF lines[k].kw = "WORKDIR" THEN lines[k].dir ELSE root[k - 1].dir
        /\ root[k].trigger = root[k - 1].trigger
        /\ root[k].bin =
             IF ~Writes(lines[k], root[k - 1].dir) THEN root[k - 1].bin
             ELSE IF OfOutput(lines[k]) THEN Given(lines, root, k) ELSE Nothing
    BY <1>8, <2>3, <2>4, EffectMild
  <2>6. root[k].dir = DirAt(lines, ins, k + 1)
    BY <1>1, <1>3, <1>8, <2>2, <2>5, DirStep
  <2>7. Writes(lines[k], root[k - 1].dir) <=> k = hit
    BY <1>8, <2>2 DEF Placed
  <2>8. CASE k = hit
    BY <1>3, <2>2, <2>5, <2>6, <2>7, <2>8 DEF Kept
  <2>9. CASE k # hit
    <3>1. hit <= k <=> hit <= k - 1
      BY <1>3, <1>5, <2>9
    <3>2. root[k].bin = root[k - 1].bin
      BY <2>5, <2>7, <2>9
    <3>3. Good(k)
      BY <2>2, <2>5, <2>6, <3>1, <3>2 DEF Kept
    <3> QED
      BY <1>3, <3>3
  <2> QED
    BY <2>8, <2>9
<1> HIDE DEF root, C
<1>9. Follows(lines, cargo, C, ins, k)
  BY <1>3, Walk DEF C
<1> QED
  BY <1>6, <1>7, <1>8, <1>9 DEF Follows, root

(* The output of the build stage is what Cargo makes of the one command:     *)
(* the toolchain, the sources and the directory stand before it, and nothing *)
(* replaces it after.                                                        *)
BuiltUpTo(lines, cargo, a, b, c, d, n) ==
  LET root == Roots(lines, cargo)
  IN /\ root[n].rust = TRUE /\ root[n].shell = FALSE /\ root[n].trigger = FALSE
     /\ root[n].toolchain = (a <= n) /\ root[n].rs = (b <= n)
     /\ root[n].dir = IF c <= n THEN "/src" ELSE "/"
     /\ root[n].out = IF d <= n THEN CargoBuilds(lines[d].program, cargo) ELSE Nothing

LEMMA Building ==
  ASSUME NEW lines \in Seq(Instructions), NEW cargo, Readable(lines), NEW t \in Froms(lines),
         NEW ins, ins = InsOf(lines, Chains(lines)[t]),
         lines[Min(Chains(lines)[t])].base = "rust",
         NEW a \in ins, NEW b \in ins, NEW c \in ins, NEW d \in ins, Front(lines, ins, a, b, c, d),
         NEW n \in 1..Len(lines), StageAt(lines, n) \in Chains(lines)[t]
  PROVE  BuiltUpTo(lines, cargo, a, b, c, d, n)
<1> DEFINE C == Chains(lines)[t]
           root == Roots(lines, cargo)
           Good(k) == BuiltUpTo(lines, cargo, a, b, c, d, k)
           T == {k \in 1..Len(lines) : StageAt(lines, k) \in C /\ ~Good(k)}
<1>1. Len(lines) \in Nat /\ ins \subseteq 1..Len(lines)
  BY DEF InsOf
<1> SUFFICES ASSUME T # {} PROVE FALSE
  OBVIOUS
<1>2. PICK k \in T : \A j \in T : k <= j
  <2>1. T \subseteq Nat
    BY <1>1
  <2> HIDE DEF T
  <2> QED
    BY <2>1, Least
<1>3. k \in Nat /\ k \in 1..Len(lines) /\ StageAt(lines, k) \in C /\ ~Good(k)
  BY <1>1, <1>2
<1>4. ASSUME NEW e \in 1..Len(lines), e < k, StageAt(lines, e) \in C PROVE Good(e)
  <2>1. ~(k <= e)
    BY <1>3, <1>4
  <2> QED
    BY <1>2, <1>4, <2>1
<1>5. /\ ins = {a, b, c, d} /\ a < b /\ b < c /\ c < d
      /\ a \in Nat /\ b \in Nat /\ c \in Nat /\ d \in Nat
  BY <1>1 DEF Front
<1>6. /\ lines[a].kw = "ENV" /\ lines[a].toolchain = TRUE
      /\ lines[b].kw = "COPY" /\ lines[b].from = "none" /\ lines[b].src = "rs/"
      /\ lines[b].dest = "/src/"
      /\ lines[c].kw = "WORKDIR" /\ lines[c].dir = "/src"
      /\ lines[d].kw = "RUN" /\ PlainBuild(lines[d].program)
  BY DEF Front, Env, Copy, WorkDir
<1>7. ASSUME root[k] = Clean(lines[k].base), k \in C, \A f \in C : k <= f,
             \A m \in ins : k < m
      PROVE  FALSE
  <2>1. Min(C) = k
    <3>1. C \subseteq Nat /\ C # {}
      BY <1>7, ChainBack DEF Froms
    <3>2. Min(C) \in C /\ \A f \in C : Min(C) <= f
      <4> HIDE DEF C
      <4> QED
        BY <3>1, Smallest
    <3>3. Min(C) \in Nat /\ Min(C) <= k /\ k <= Min(C)
      BY <1>7, <3>1, <3>2
    <3> QED
      BY <1>3, <3>3
  <2>2. lines[k].base = "rust"
    BY <2>1
  <2>3. ~(a <= k) /\ ~(b <= k) /\ ~(c <= k) /\ ~(d <= k)
    BY <1>3, <1>5, <1>7
  <2>4. (a <= k) = FALSE /\ (b <= k) = FALSE
    BY <2>3
  <2>5. /\ root[k].rust = TRUE /\ root[k].shell = FALSE /\ root[k].trigger = FALSE
        /\ root[k].toolchain = FALSE /\ root[k].rs = FALSE
        /\ root[k].dir = "/" /\ root[k].out = Nothing
    <3> DEFINE rust == lines[k].base = "rust"
    <3>1. rust = TRUE
      BY <2>2
    <3>2. root[k] =
            [rust |-> rust, toolchain |-> FALSE, rs |-> FALSE, dir |-> "/", trigger |-> FALSE,
             shell |-> FALSE, out |-> Nothing, bin |-> Nothing]
      BY <1>7 DEF Clean
    <3> HIDE DEF rust, root
    <3> QED
      BY <3>1, <3>2
  <2> QED
    BY <1>3, <2>3, <2>4, <2>5 DEF BuiltUpTo
<1>8. ASSUME NEW e \in 1..Len(lines), e < k, StageAt(lines, e) \in C,
             root[e].trigger = FALSE => root[k] = root[e], \A m \in ins : m <= k => m <= e
      PROVE  FALSE
  <2>1. Good(e) /\ e \in Nat
    BY <1>1, <1>4, <1>8
  <2>2. root[k] = root[e]
    BY <1>8, <2>1 DEF BuiltUpTo
  <2>3. \A m \in ins : (m <= k) = (m <= e)
    BY <1>1, <1>3, <1>8, <2>1, SMTT(30)
  <2>4. Good(k)
    BY <2>1, <2>2, <2>3 DEF BuiltUpTo
  <2> QED
    BY <1>3, <2>4
<1>9. ASSUME k \in ins, k - 1 \in 1..Len(lines), StageAt(lines, k - 1) \in C,
             root[k] = Effect(root[k - 1], Given(lines, root, k), lines[k], cargo)
      PROVE  FALSE
  <2> DEFINE fs == root[k - 1]
  <2>1. /\ fs.rust = TRUE /\ fs.shell = FALSE /\ fs.trigger = FALSE
        /\ fs.toolchain = (a <= k - 1) /\ fs.rs = (b <= k - 1)
        /\ fs.dir = IF c <= k - 1 THEN "/src" ELSE "/"
        /\ fs.out = IF d <= k - 1 THEN CargoBuilds(lines[d].program, cargo) ELSE Nothing
    <3>1. k - 1 < k
      BY <1>3
    <3>2. Good(k - 1)
      BY <1>4, <1>9, <3>1
    <3> QED
      BY <3>2 DEF BuiltUpTo
  <2>2. fs \in FileSystems(cargo)
    <3>1. k - 1 \in 0..Len(lines)
      BY <1>1, <1>9
    <3> QED
      BY <3>1, RootsOf
  <2>3. \A m \in ins : m # k => (m <= k - 1) = (m <= k)
    BY <1>1, <1>3, SMTT(30)
  <2>4. (k <= k) = TRUE /\ (k <= k - 1) = FALSE
    BY <1>3
  <2> HIDE DEF root, fs, C
  <2>5. CASE k = a
    <3>1. root[k] = [fs EXCEPT !.toolchain = TRUE]
      BY <1>6, <1>9, <2>5 DEF Effect, fs
    <3>2. /\ root[k].toolchain = TRUE /\ root[k].rust = fs.rust /\ root[k].shell = fs.shell
          /\ root[k].trigger = fs.trigger /\ root[k].rs = fs.rs /\ root[k].dir = fs.dir
          /\ root[k].out = fs.out
      BY <2>2, <3>1 DEF FileSystems
    <3>3. a # b /\ a # c /\ a # d
      BY <1>5
    <3> QED
      BY <1>3, <2>1, <2>3, <2>4, <2>5, <3>2, <3>3 DEF BuiltUpTo, root
  <2>6. CASE k = b
    <3>1. ~Writes(lines[k], fs.dir)
      BY <1>6, <2>6 DEF Writes
    <3>2. root[k] = [fs EXCEPT !.rs = TRUE, !.out = fs.out, !.bin = fs.bin]
      BY <1>6, <1>9, <2>6, <3>1 DEF Effect, fs
    <3>3. /\ root[k].rs = TRUE /\ root[k].rust = fs.rust /\ root[k].shell = fs.shell
          /\ root[k].trigger = fs.trigger /\ root[k].toolchain = fs.toolchain
          /\ root[k].dir = fs.dir /\ root[k].out = fs.out
      BY <2>2, <3>2 DEF FileSystems
    <3>4. b # a /\ b # c /\ b # d
      BY <1>5
    <3> QED
      BY <1>3, <2>1, <2>3, <2>4, <2>6, <3>3, <3>4 DEF BuiltUpTo, root
  <2>7. CASE k = c
    <3>1. root[k] = [fs EXCEPT !.dir = "/src"]
      BY <1>6, <1>9, <2>7 DEF Effect, fs
    <3>2. /\ root[k].dir = "/src" /\ root[k].rust = fs.rust /\ root[k].shell = fs.shell
          /\ root[k].trigger = fs.trigger /\ root[k].toolchain = fs.toolchain
          /\ root[k].rs = fs.rs /\ root[k].out = fs.out
      BY <2>2, <3>1 DEF FileSystems
    <3>3. c # a /\ c # b /\ c # d
      BY <1>5
    <3> QED
      BY <1>3, <2>1, <2>3, <2>4, <2>7, <3>2, <3>3 DEF BuiltUpTo, root
  <2>8. CASE k = d
    <3>1. a <= k - 1 /\ b <= k - 1 /\ c <= k - 1
      BY <1>5, <2>8
    <3>2. /\ fs.rust = TRUE /\ fs.toolchain = TRUE /\ fs.rs = TRUE /\ fs.shell = FALSE
          /\ fs.dir = "/src"
      BY <2>1, <3>1
    <3>3. lines[k].program.form \in {"literal", "selector"}
      BY <1>6, <2>8 DEF PlainBuild
    <3>4. root[k] = [fs EXCEPT !.out = CargoBuilds(lines[k].program, cargo)]
      BY <1>6, <1>9, <2>8, <3>2, <3>3 DEF Effect, fs
    <3>5. /\ root[k].out = CargoBuilds(lines[k].program, cargo) /\ root[k].rust = fs.rust
          /\ root[k].shell = fs.shell /\ root[k].trigger = fs.trigger
          /\ root[k].toolchain = fs.toolchain /\ root[k].rs = fs.rs /\ root[k].dir = fs.dir
      BY <2>2, <3>4 DEF FileSystems
    <3>6. d # a /\ d # b /\ d # c
      BY <1>5
    <3> QED
      BY <1>3, <2>1, <2>3, <2>4, <2>8, <3>5, <3>6 DEF BuiltUpTo, root
  <2> QED
    BY <1>5, <1>9, <2>5, <2>6, <2>7, <2>8
<1> HIDE DEF root, C
<1>10. Follows(lines, cargo, C, ins, k)
  BY <1>3, Walk DEF C
<1> QED
  BY <1>7, <1>8, <1>9, <1>10 DEF Follows, root

-----------------------------------------------------------------------------
(* visit: the closure grows, and ends when it no longer does. *)
LEMMA ReachOf ==
  ASSUME NEW graph, NEW start
  PROVE  /\ Reach(graph, start)[0] = start
         /\ \A n \in Nat : Reach(graph, start)[n + 1] = Grown(graph, Reach(graph, start)[n])
<1> DEFINE U == start \cup UNION {graph[f] : f \in DOMAIN graph}
           V == SUBSET U
           next(r, n) == IF n = 0 THEN start ELSE Grown(graph, r[n - 1])
           step == [x \in [Nat -> V] \X Nat |-> next(x[1], x[2])]
           Is(r) == r = [n \in Nat |-> next(r, n)]
<1>1. Reach(graph, start) = CHOOSE r : Is(r)
  BY DEF Reach
<1>2. \A s \in V : Grown(graph, s) \in V
  BY DEF Grown
<1>3. \A r \in [Nat -> V] : \A n \in Nat : next(r, n) \in V
  <2> TAKE r \in [Nat -> V]
  <2> TAKE n \in Nat
  <2>1. n # 0 => r[n - 1] \in V
    <3> HIDE DEF V
    <3> QED
      OBVIOUS
  <2> QED
    BY <1>2, <2>1
<1>4. \A r \in [Nat -> V] : \A n \in Nat : step[<<r, n>>] = next(r, n)
  <2> HIDE DEF next, V
  <2> TAKE r \in [Nat -> V]
  <2> TAKE n \in Nat
  <2>1. <<r, n>> \in [Nat -> V] \X Nat
    OBVIOUS
  <2> QED
    BY <2>1
<1>5. Descends(Nat, V, step)
  <2>1. step \in [[Nat -> V] \X Nat -> V]
    <3>1. \A x \in [Nat -> V] \X Nat : next(x[1], x[2]) \in V
      <4> HIDE DEF next, V
      <4> QED
        BY <1>3
    <3> HIDE DEF next, V
    <3> QED
      BY <3>1
  <2>2. ASSUME NEW g \in [Nat -> V], NEW h \in [Nat -> V], NEW n \in Nat,
               \A k \in Nat : k < n => g[k] = h[k]
        PROVE  next(g, n) = next(h, n)
    <3>1. n # 0 => n - 1 \in Nat /\ n - 1 < n
      OBVIOUS
    <3> QED
      BY <2>2, <3>1
  <2>3. V # {}
    OBVIOUS
  <2> HIDE DEF next, step, V
  <2>4. \A g, h \in [Nat -> V] : \A n \in Nat :
          (\A k \in Nat : k < n => g[k] = h[k]) => step[<<g, n>>] = step[<<h, n>>]
    BY <1>4, <2>2
  <2> QED
    BY <2>1, <2>3, <2>4 DEF Descends
<1>6. PICK r \in [Nat -> V] : \A n \in Nat : r[n] = step[<<r, n>>]
  <2> HIDE DEF step, V, Is
  <2> QED
    BY <1>5, Recursion
<1> HIDE DEF step
<1>7. Is(r)
  <2> HIDE DEF next, V
  <2>1. \A n \in Nat : r[n] = next(r, n)
    BY <1>4, <1>6
  <2>2. r = [n \in Nat |-> r[n]]
    OBVIOUS
  <2> QED
    BY <2>1, <2>2
<1>8. Is(Reach(graph, start))
  <2> HIDE DEF Is
  <2> QED
    BY <1>1, <1>7, Zenon
<1> DEFINE R == Reach(graph, start)
<1> HIDE DEF R
<1>9. \A n \in Nat : R[n] = next(R, n)
  BY <1>8 DEF R
<1>10. R[0] = start
  BY <1>9
<1>11. \A n \in Nat : R[n + 1] = Grown(graph, R[n])
  <2> TAKE n \in Nat
  <2>1. n + 1 \in Nat /\ n + 1 # 0 /\ (n + 1) - 1 = n
    OBVIOUS
  <2> QED
    BY <1>9, <2>1
<1> QED
  BY <1>10, <1>11 DEF R

LEMMA ReachGrows ==
  ASSUME NEW graph, NEW start, NEW n \in Nat, NEW m \in Nat, m <= n
  PROVE  Reach(graph, start)[m] \subseteq Reach(graph, start)[n]
<1> DEFINE R == Reach(graph, start)
           T == {k \in Nat : m <= k /\ ~(R[m] \subseteq R[k])}
<1>0. \A k \in Nat : R[k] \subseteq R[k + 1]
  BY ReachOf DEF Grown
<1> HIDE DEF R
<1> SUFFICES ASSUME T # {} PROVE FALSE
  BY DEF R
<1>1. PICK k \in T : \A j \in T : k <= j
  <2> T \subseteq Nat
    OBVIOUS
  <2> HIDE DEF T
  <2> QED
    BY Least
<1>2. k \in Nat /\ m <= k /\ k # m
  BY <1>1
<1>3. k - 1 \in Nat /\ m <= k - 1 /\ ~(k <= k - 1) /\ (k - 1) + 1 = k
  BY <1>2
<1>4. R[m] \subseteq R[k - 1]
  BY <1>1, <1>3
<1>5. R[k - 1] \subseteq R[k]
  BY <1>0, <1>3
<1> QED
  BY <1>1, <1>4, <1>5

(* What is closed under the table holds all that is reached. *)
LEMMA ReachWithin ==
  ASSUME NEW graph, NEW start, NEW s, start \subseteq s,
         \A f \in s \cap DOMAIN graph : graph[f] \ Elsewhere \subseteq s, NEW n \in Nat
  PROVE  Reach(graph, start)[n] \subseteq s
<1> DEFINE R == Reach(graph, start)
           T == {k \in Nat : ~(R[k] \subseteq s)}
<1>0. R[0] = start /\ \A k \in Nat : R[k + 1] = Grown(graph, R[k])
  BY ReachOf
<1> HIDE DEF R
<1> SUFFICES ASSUME T # {} PROVE FALSE
  BY DEF R
<1>1. PICK k \in T : \A j \in T : k <= j
  <2> T \subseteq Nat
    OBVIOUS
  <2> HIDE DEF T
  <2> QED
    BY Least
<1>2. k \in Nat /\ k # 0
  BY <1>0, <1>1
<1>3. k - 1 \in Nat /\ ~(k <= k - 1) /\ (k - 1) + 1 = k
  BY <1>2
<1>4. R[k - 1] \subseteq s
  BY <1>1, <1>3
<1>5. R[k] = Grown(graph, R[k - 1])
  BY <1>0, <1>3
<1> QED
  BY <1>1, <1>4, <1>5 DEF Grown

(* One more step than there are features in the table adds nothing. *)
LEMMA ReachEnds ==
  ASSUME NEW graph, NEW start, IsFiniteSet(DOMAIN graph),
         Visit(graph, start) \subseteq DOMAIN graph
  PROVE  Grown(graph, Visit(graph, start)) = Visit(graph, start)
<1> DEFINE R == Reach(graph, start)
           D == DOMAIN graph
           N == Cardinality(D) + 1
           T == {k \in Nat : k <= N /\ ~(Cardinality(R[k]) >= k \/ R[k + 1] = R[k])}
<1>1. Cardinality(D) \in Nat /\ N \in Nat
  BY FS_CardinalityType
<1>2. Visit(graph, start) = R[N]
  BY DEF Visit
<1>3. \A k \in Nat : R[k + 1] = Grown(graph, R[k]) /\ R[k] \subseteq R[k + 1]
  BY ReachOf DEF Grown
<1>4. ASSUME NEW k \in Nat, k <= N
      PROVE  /\ R[k] \subseteq D /\ IsFiniteSet(R[k])
             /\ Cardinality(R[k]) \in Nat /\ Cardinality(R[k]) <= Cardinality(D)
  <2>1. R[k] \subseteq D
    BY <1>1, <1>2, <1>4, ReachGrows
  <2> HIDE DEF R, D
  <2> QED
    BY <2>1, FS_Subset, FS_CardinalityType DEF D
<1> HIDE DEF R, N
<1>5. T = {}
  <2> SUFFICES ASSUME T # {} PROVE FALSE
    OBVIOUS
  <2>1. PICK k \in T : \A j \in T : k <= j
    <3> T \subseteq Nat
      OBVIOUS
    <3> HIDE DEF T
    <3> QED
      BY Least
  <2>2. k \in Nat /\ k <= N /\ ~(Cardinality(R[k]) >= k) /\ R[k + 1] # R[k]
    BY <2>1
  <2>3. k # 0
    BY <1>4, <2>2
  <2>4. k - 1 \in Nat /\ k - 1 <= N /\ ~(k <= k - 1) /\ (k - 1) + 1 = k
    BY <1>1, <2>2, <2>3
  <2>5. Cardinality(R[k - 1]) >= k - 1 \/ R[k] = R[k - 1]
    BY <2>1, <2>4
  <2>6. R[k] # R[k - 1]
    BY <1>3, <2>2, <2>4
  <2>7. R[k - 1] \subseteq R[k] /\ IsFiniteSet(R[k])
    BY <1>3, <1>4, <2>2, <2>4
  <2>8. Cardinality(R[k - 1]) <= Cardinality(R[k]) /\ Cardinality(R[k - 1]) # Cardinality(R[k])
    BY <2>6, <2>7, FS_Subset
  <2>9. Cardinality(R[k - 1]) \in Nat /\ Cardinality(R[k]) \in Nat
    BY <1>4, <2>2, <2>4
  <2> QED
    BY <2>2, <2>5, <2>6, <2>8, <2>9
<1>6. N <= N
  BY <1>1
<1>7. ~(Cardinality(R[N]) >= N)
  <2>1. Cardinality(R[N]) \in Nat /\ Cardinality(R[N]) <= Cardinality(D)
    BY <1>1, <1>4, <1>6
  <2> QED
    BY <1>1, <2>1 DEF N
<1>8. R[N + 1] = R[N]
  BY <1>1, <1>5, <1>6, <1>7
<1> QED
  BY <1>1, <1>2, <1>3, <1>8

(* The features deriveFeatures visits are those Cargo turns on. *)
LEMMA VisitIsBuilt ==
  ASSUME NEW program, NEW cargo, IsFiniteSet(DOMAIN cargo.graph),
         Visit(cargo.graph, WithDefault(program, cargo)) \subseteq DOMAIN cargo.graph
  PROVE  CargoBuilds(program, cargo) = Found(Visit(cargo.graph, WithDefault(program, cargo)))
<1> DEFINE graph == cargo.graph
           start == WithDefault(program, cargo)
           V == Visit(graph, start)
           closed == {s \in SUBSET DOMAIN graph :
                        start \subseteq s /\ \A f \in s : graph[f] \ Elsewhere \subseteq s}
<1> DEFINE default == IF program.segments[1].noDefault THEN {} ELSE {"default"} \cap DOMAIN graph
<1>1. start = Requested(program, cargo) \cup default
  BY DEF WithDefault
<1>2. CargoBuilds(program, cargo) =
        IF closed = {} THEN Nothing ELSE Found({f \in DOMAIN graph : \A s \in closed : f \in s})
  <2>1. closed =
          {s \in SUBSET DOMAIN graph :
             /\ Requested(program, cargo) \cup default \subseteq s
             /\ \A f \in s : graph[f] \ Elsewhere \subseteq s}
    BY <1>1
  <2> HIDE DEF closed
  <2> QED
    BY <2>1 DEF CargoBuilds
<1> HIDE DEF start
<1>3. Grown(graph, V) = V
  <2> HIDE DEF graph
  <2> QED
    BY ReachEnds DEF graph, start
<1>4. V \in closed
  <2>1. start \subseteq V
    <3>1. Cardinality(DOMAIN graph) + 1 \in Nat /\ 0 <= Cardinality(DOMAIN graph) + 1
      BY FS_CardinalityType
    <3>2. Reach(graph, start)[0] \subseteq V
      <4> HIDE DEF graph
      <4> QED
        BY <3>1, ReachGrows DEF Visit
    <3> QED
      BY <3>2, ReachOf
  <2> HIDE DEF V
  <2>2. V \subseteq DOMAIN graph
    BY DEF V, start
  <2> QED
    BY <1>3, <2>1, <2>2 DEF Grown
<1>5. ASSUME NEW s \in closed PROVE V \subseteq s
  <2>1. Cardinality(DOMAIN graph) + 1 \in Nat
    BY FS_CardinalityType
  <2>2. start \subseteq s /\ \A f \in s \cap DOMAIN graph : graph[f] \ Elsewhere \subseteq s
    OBVIOUS
  <2> HIDE DEF graph, closed
  <2> QED
    BY <2>1, <2>2, ReachWithin DEF Visit
<1>6. V \subseteq DOMAIN graph
  BY DEF start
<1> HIDE DEF V, closed, graph
<1>7. {f \in DOMAIN graph : \A s \in closed : f \in s} = V
  BY <1>4, <1>5, <1>6
<1>8. closed # {}
  BY <1>4
<1>9. CargoBuilds(program, cargo) = Found(V)
  BY <1>2, <1>7, <1>8
<1> QED
  BY <1>9 DEF V, graph, start

(* The last line is in the last stage. *)
LEMMA LastStage ==
  ASSUME NEW lines \in Seq(Instructions), Readable(lines)
  PROVE  /\ Len(lines) \in 1..Len(lines) /\ Max(Froms(lines)) \in Froms(lines)
         /\ StageAt(lines, Len(lines)) = Max(Froms(lines))
<1>1. Len(lines) \in Nat /\ lines # <<>> /\ Len(lines) # 0
  BY DEF Readable
<1>2. 1 \in Froms(lines) /\ Froms(lines) \subseteq 1..Len(lines)
  BY <1>1 DEF Readable, Froms
<1>3. Max(Froms(lines)) \in Froms(lines) /\ \A f \in Froms(lines) : f <= Max(Froms(lines))
  <2>1. Froms(lines) \subseteq 0..Len(lines)
    BY <1>2
  <2> QED
    BY <1>1, <1>2, <2>1, Greatest
<1>4. /\ StageAt(lines, Len(lines)) \in {0} \cup Froms(lines)
      /\ \A f \in Froms(lines) : f <= Len(lines) => f <= StageAt(lines, Len(lines))
  BY <1>1, StageOf
<1>5. StageAt(lines, Len(lines)) \in Froms(lines)
  BY <1>1, <1>2, <1>4
<1>6. \A f \in Froms(lines) : f \in Nat /\ f <= Len(lines)
  BY <1>1, <1>2
<1>7. /\ Max(Froms(lines)) <= StageAt(lines, Len(lines))
      /\ StageAt(lines, Len(lines)) <= Max(Froms(lines))
  BY <1>3, <1>4, <1>5, <1>6
<1>8. Max(Froms(lines)) \in Nat /\ StageAt(lines, Len(lines)) \in Nat
  BY <1>3, <1>5, <1>6
<1> QED
  BY <1>1, <1>3, <1>7, <1>8

(* What proveBuild finds is what the stage leaves in /out. *)
LEMMA BuildIsOutput ==
  ASSUME NEW lines \in Seq(Instructions), NEW cargo, Readable(lines), NEW s \in Froms(lines),
         ProveBuild(lines, s, cargo).ok
  PROVE  \E program :
           /\ ProveBuild(lines, s, cargo) = Found(WithDefault(program, cargo))
           /\ Roots(lines, cargo)[StageEnd(lines, s)].out = CargoBuilds(program, cargo)
<1> DEFINE C == Chains(lines)[s]
           ins == InsOf(lines, C)
<1>1. lines[Min(C)].base = "rust" /\ ProveBuild(lines, s, cargo) = Built(lines, ins, cargo)
  BY DEF ProveBuild, Nothing
<1>2. PICK a, b, c, d \in ins : Front(lines, ins, a, b, c, d)
  BY <1>1 DEF Built, Nothing
<1>3. ProveBuild(lines, s, cargo) = Found(WithDefault(lines[Max(ins)].program, cargo))
  BY <1>1, <1>2 DEF Built
<1>4. Len(lines) \in Nat /\ ins \subseteq 1..Len(lines)
  BY DEF InsOf
<1>5. ins = {a, b, c, d} /\ a < b /\ b < c /\ c < d
      /\ a \in Nat /\ b \in Nat /\ c \in Nat /\ d \in Nat
  BY <1>2, <1>4 DEF Front
<1>6. Max(ins) = d
  <2>1. ins \subseteq 0..Len(lines) /\ ins # {}
    BY <1>4
  <2>2. Max(ins) \in ins /\ d <= Max(ins)
    <3> HIDE DEF ins
    <3> QED
      BY <1>4, <2>1, Greatest
  <2> HIDE DEF ins
  <2> QED
    BY <1>5, <2>2
<1>7. /\ s \in C /\ \A f \in C : f <= s
      /\ StageEnd(lines, s) \in 1..Len(lines) /\ StageAt(lines, StageEnd(lines, s)) = s
      /\ \A n \in 1..Len(lines) : StageAt(lines, n) <= s => n <= StageEnd(lines, s)
  BY ChainBack, EndOf
<1>8. d <= StageEnd(lines, s)
  BY <1>2, <1>7 DEF InsOf
<1>9. Roots(lines, cargo)[StageEnd(lines, s)].out = CargoBuilds(lines[d].program, cargo)
  <2> DEFINE e == StageEnd(lines, s)
  <2>1. e \in 1..Len(lines) /\ StageAt(lines, e) \in Chains(lines)[s] /\ d <= e
    BY <1>7, <1>8
  <2>2. ins = InsOf(lines, Chains(lines)[s]) /\ lines[Min(Chains(lines)[s])].base = "rust"
    BY <1>1
  <2> HIDE DEF ins, e, C
  <2>3. BuiltUpTo(lines, cargo, a, b, c, d, e)
    BY <1>2, <2>1, <2>2, Building
  <2> QED
    BY <2>1, <2>3 DEF e, BuiltUpTo
<1> QED
  BY <1>3, <1>6, <1>9

(* What the reader derives is what the image ships: for every manifest and   *)
(* every Dockerfile in whose image no RUN replaces the binary unnamed,       *)
(* whenever deriveFeatures answers, the binary in the image is certain to be *)
(* the noevia-server of rs/ with exactly these features.                     *)
THEOREM DerivedIsShipped ==
  ASSUME NEW lines \in Seq(Instructions), NEW cargo, IsFiniteSet(DOMAIN cargo.graph),
         DeriveFeatures(lines, cargo).ok, ~Unseen(lines)
  PROVE  Ships(lines, cargo) = DeriveFeatures(lines, cargo)
<1> DEFINE root == Roots(lines, cargo)
           t == Max(Froms(lines))
           C == Chains(lines)[t]
           ins == InsOf(lines, C)
           hit == CHOOSE n \in Placed(lines, ins) : TRUE
           s == CHOOSE f \in StagesOf(lines, lines[hit].from) : TRUE
           proof == ProveFeatures(lines, cargo)
           visited == Visit(cargo.graph, proof.features)
<1>1. /\ proof.ok /\ visited \subseteq DOMAIN cargo.graph
      /\ DeriveFeatures(lines, cargo) = Found(visited)
  <2> HIDE DEF proof, visited
  <2> QED
    BY DEF DeriveFeatures, Nothing, proof, visited
<1>2. /\ Readable(lines) /\ ~Overwritable(lines, ins) /\ Cardinality(Placed(lines, ins)) = 1
      /\ ProvenCopy(lines, hit) /\ proof = ProveBuild(lines, s, cargo)
  <2>1. proof =
          IF /\ Readable(lines)
             /\ ChainKnown(lines, C) /\ lines[Min(C)].base = "node"
             /\ ~Overwritable(lines, ins)
             /\ Cardinality(Placed(lines, ins)) = 1 /\ ProvenCopy(lines, hit)
          THEN ProveBuild(lines, s, cargo) ELSE Nothing
    BY DEF ProveFeatures
  <2> HIDE DEF proof, C, ins, hit, s
  <2> QED
    BY <1>1, <2>1 DEF Nothing
<1>3. Placed(lines, ins) = {hit}
  <2>1. Placed(lines, ins) \subseteq 1..Len(lines) /\ Len(lines) \in Nat
    BY DEF Placed, InsOf
  <2>2. IsFiniteSet(Placed(lines, ins))
    <3>1. IsFiniteSet(1..Len(lines))
      BY <2>1, FS_Interval
    <3> HIDE DEF ins
    <3> QED
      BY <2>1, <3>1, FS_Subset
  <2>3. \E x : Placed(lines, ins) = {x}
    <3> HIDE DEF ins
    <3> QED
      BY <1>2, <2>2, FS_Singleton
  <2> HIDE DEF ins
  <2> QED
    BY <2>3
<1>4. hit \in ins /\ hit \in 1..Len(lines)
  BY <1>3 DEF Placed, InsOf
<1> HIDE DEF hit
<1>5. Earlier(lines, lines[hit].from, hit) # {} /\ OfOutput(lines[hit])
  BY <1>2 DEF ProvenCopy
<1>6. s \in StagesOf(lines, lines[hit].from) /\ Earlier(lines, lines[hit].from, hit) = {s}
  <2>1. PICK p \in Earlier(lines, lines[hit].from, hit) : TRUE
    BY <1>5
  <2>2. Earlier(lines, lines[hit].from, hit) \subseteq StagesOf(lines, lines[hit].from)
    BY DEF Earlier
  <2>3. s \in StagesOf(lines, lines[hit].from)
    BY <2>1, <2>2
  <2>4. \A f \in StagesOf(lines, lines[hit].from) : f = s
    <3> HIDE DEF s
    <3> QED
      BY <1>2, <2>3, OneName
  <2> HIDE DEF s
  <2> QED
    BY <2>1, <2>2, <2>3, <2>4
<1>7. Last(lines, lines[hit].from, hit) = StageEnd(lines, s)
  <2> HIDE DEF s
  <2> QED
    BY <1>6 DEF Last
<1>8. s \in Froms(lines)
  BY <1>6 DEF StagesOf
<1> HIDE DEF s
<1>9. PICK program :
        /\ proof = Found(WithDefault(program, cargo))
        /\ root[StageEnd(lines, s)].out = CargoBuilds(program, cargo)
  <2> HIDE DEF proof
  <2> QED
    BY <1>1, <1>2, <1>8, BuildIsOutput
<1>10. CargoBuilds(program, cargo) = Found(visited)
  <2>1. proof.features = WithDefault(program, cargo)
    BY <1>9 DEF Found
  <2> HIDE DEF proof
  <2> QED
    BY <1>1, <2>1, VisitIsBuilt
<1>11. Given(lines, root, hit) = Found(visited)
  <2> HIDE DEF root, visited
  <2> QED
    BY <1>5, <1>7, <1>9, <1>10 DEF Given
<1>12. root[Len(lines)].bin = Given(lines, root, hit)
  <2>1. /\ Len(lines) \in 1..Len(lines) /\ t \in Froms(lines)
        /\ StageAt(lines, Len(lines)) = t
    BY <1>2, LastStage
  <2>2. StageAt(lines, Len(lines)) \in C
    BY <1>2, <2>1, ChainBack
  <2>3. hit <= Len(lines)
    BY <1>4
  <2>4. \A m \in ins : lines[m].kw = "RUN" => lines[m].program.form # "unnamed"
    BY DEF Unseen
  <2> HIDE DEF t, ins, root
  <2>5. Kept(lines, cargo, ins, hit, Len(lines))
    BY <1>2, <1>3, <1>5, <2>1, <2>2, <2>4, Runtime DEF ins
  <2> QED
    BY <2>3, <2>5 DEF Kept, root
<1>13. Ships(lines, cargo) = root[Len(lines)].bin
  BY <1>2, ActiveAll DEF Ships
<1> QED
  BY <1>1, <1>11, <1>12, <1>13

-----------------------------------------------------------------------------
(* Detection: sources of any length, with any number of attributes.          *)
LEMMA OnlyOne ==
  ASSUME NEW n \in Nat, NEW S \in SUBSET (1..n), S # {}, ~(Cardinality(S) > 1)
  PROVE  S = {CHOOSE x \in S : TRUE}
<1>1. IsFiniteSet(S)
  <2>1. IsFiniteSet(1..n)
    BY FS_Interval
  <2> QED
    BY <2>1, FS_Subset
<1>2. Cardinality(S) \in Nat /\ Cardinality(S) # 0
  BY <1>1, FS_CardinalityType, FS_EmptySet
<1>3. Cardinality(S) = 1
  BY <1>2
<1>4. PICK x : S = {x}
  BY <1>1, <1>3, FS_Singleton
<1> QED
  BY <1>4

(* An element's attributes, none or one of them a cfg, hold as the reader    *)
(* takes them to.                                                            *)
LEMMA AttrsHold ==
  ASSUME NEW attrs \in Seq(STRING), NEW built
  PROVE  /\ Cfgs(attrs) = {} => Holds(attrs, built)
         /\ /\ Cfgs(attrs) # {} /\ ~(Cardinality(Cfgs(attrs)) > 1)
            /\ attrs[CHOOSE n \in Cfgs(attrs) : TRUE] # "not f1"
            => (Holds(attrs, built) <=> attrs[CHOOSE n \in Cfgs(attrs) : TRUE] \in built)
<1>1. ASSUME Cfgs(attrs) = {} PROVE Holds(attrs, built)
  BY <1>1 DEF Cfgs, Holds
<1>2. ASSUME Cfgs(attrs) # {}, ~(Cardinality(Cfgs(attrs)) > 1),
             attrs[CHOOSE n \in Cfgs(attrs) : TRUE] # "not f1"
      PROVE  Holds(attrs, built) <=> attrs[CHOOSE n \in Cfgs(attrs) : TRUE] \in built
  <2> DEFINE k == CHOOSE n \in Cfgs(attrs) : TRUE
  <2>1. Cfgs(attrs) \in SUBSET (1..Len(attrs)) /\ Len(attrs) \in Nat
    BY DEF Cfgs
  <2>2. Cfgs(attrs) = {k}
    BY <1>2, <2>1, OnlyOne
  <2> HIDE DEF k
  <2>3. k \in 1..Len(attrs) /\ attrs[k] # "harmless"
        /\ \A n \in 1..Len(attrs) : n # k => attrs[n] = "harmless"
    BY <2>2 DEF Cfgs
  <2>4. attrs[k] # "not f1"
    BY <1>2 DEF k
  <2>5. Holds(attrs, built) <=> attrs[k] \in built
    BY <2>3, <2>4 DEF Holds
  <2> QED
    BY <2>5 DEF k
<1> QED
  BY <1>1, <1>2

(* The array: the literal is in it as the reader says.                       *)
LEMMA ArrayTrue ==
  ASSUME NEW elements \in Seq(ElementType),
         NEW proof, NEW built, proof.ok => proof.features = built,
         Array(elements, proof) # "invalid"
  PROVE  Array(elements, proof) = "v1" <=>
           \E m \in 1..Len(elements) :
             elements[m].value = "cap" /\ Holds(elements[m].attrs, built)
<1> DEFINE hits == {n \in 1..Len(elements) : elements[n].value = "cap"}
           k == CHOOSE n \in hits : TRUE
           attrs == elements[k].attrs
           cfg == attrs[CHOOSE n \in Cfgs(attrs) : TRUE]
           says == \E m \in 1..Len(elements) :
                     elements[m].value = "cap" /\ Holds(elements[m].attrs, built)
<1>1. Array(elements, proof) =
        IF (\E n \in 1..Len(elements) : elements[n].value = "expression") \/ Cardinality(hits) > 1
        THEN "invalid"
        ELSE IF hits = {} THEN "legacy"
        ELSE IF Cfgs(attrs) = {} THEN "v1"
        ELSE IF Cardinality(Cfgs(attrs)) > 1 \/ cfg = "not f1" \/ ~proof.ok THEN "invalid"
        ELSE IF cfg \in proof.features THEN "v1" ELSE "legacy"
  BY ZenonT(60) DEF Array
<1>2. ~(Cardinality(hits) > 1)
  BY <1>1
<1>3. hits \in SUBSET (1..Len(elements)) /\ Len(elements) \in Nat
  OBVIOUS
<1>4. CASE hits = {}
  <2>1. ~says
    BY <1>4
  <2>2. Array(elements, proof) = "legacy"
    BY <1>1, <1>2, <1>4
  <2> QED
    BY <2>1, <2>2
<1>5. CASE hits # {}
  <2>1. hits = {k}
    BY <1>2, <1>3, <1>5, OnlyOne
  <2>2. k \in hits
    BY <1>5
  <2>3. says <=> Holds(attrs, built)
    <3> HIDE DEF k
    <3>1. k \in 1..Len(elements) /\ elements[k].value = "cap"
          /\ \A m \in 1..Len(elements) : elements[m].value = "cap" => m = k
      BY <2>1, <2>2
    <3> QED
      BY <3>1
  <2>4. attrs \in Seq(STRING)
    <3>1. elements[k] \in ElementType
      <4>1. k \in 1..Len(elements)
        BY <2>2
      <4> HIDE DEF k
      <4> QED
        BY <4>1
    <3> HIDE DEF k
    <3> QED
      BY <3>1 DEF ElementType
  <2> HIDE DEF hits, k, attrs, says
  <2>5. CASE Cfgs(attrs) = {}
    BY <1>1, <1>2, <1>5, <2>3, <2>4, <2>5, AttrsHold DEF says
  <2>6. CASE Cfgs(attrs) # {}
    <3>1. ~(Cardinality(Cfgs(attrs)) > 1) /\ cfg # "not f1" /\ proof.ok
          /\ Array(elements, proof) = IF cfg \in proof.features THEN "v1" ELSE "legacy"
      BY <1>1, <1>2, <1>5, <2>6
    <3>2. Holds(attrs, built) <=> cfg \in built
      BY <2>4, <2>6, <3>1, AttrsHold
    <3> QED
      BY <2>3, <3>1, <3>2 DEF says
  <2> QED
    BY <2>5, <2>6
<1> QED
  BY <1>4, <1>5

(* An answer of the marker reader is true of every build with the features   *)
(* it was given, and, where it could be given none, of every build at all,   *)
(* for any source, however its attributes and paths are put: "v1" says that  *)
(* the capability is a literal of FEATURES there, "legacy" that it is not.   *)
THEOREM DetectionTrue ==
  ASSUME NEW source \in Seq(ItemType), NEW proof, NEW built, proof.ok => proof.features = built,
         Detect(source, proof) # "invalid"
  PROVE  Detect(source, proof) = "v1" <=> Spells(source, built)
<1> DEFINE targets == {n \in 1..Len(source) : source[n].kind \in {"root", "odd", "nested"}}
           t == CHOOSE n \in targets : TRUE
<1>1. Detect(source, proof) =
        IF targets = {} THEN "legacy"
        ELSE IF \/ Cardinality(targets) > 1
                \/ source[t].kind # "root" \/ ~Harmless(source[t].attrs)
                \/ \E n \in 1..Len(source) : source[n].kind = "inner" /\ ~Harmless(source[n].attrs)
             THEN "invalid"
        ELSE Array(source[t].elements, proof)
  BY DEF Detect
<1>2. targets \in SUBSET (1..Len(source)) /\ Len(source) \in Nat
  OBVIOUS
<1>3. \A attrs : Harmless(attrs) => Holds(attrs, built)
  BY DEF Harmless, Holds
<1>4. CASE targets = {}
  <2>1. ~Spells(source, built)
    BY <1>4 DEF Spells, Lists
  <2> QED
    BY <1>1, <1>4, <2>1
<1>5. CASE targets # {}
  <2>1. /\ ~(Cardinality(targets) > 1) /\ source[t].kind = "root" /\ Harmless(source[t].attrs)
        /\ \A n \in 1..Len(source) : source[n].kind = "inner" => Harmless(source[n].attrs)
        /\ Detect(source, proof) = Array(source[t].elements, proof)
    BY <1>1, <1>5
  <2>2. targets = {t} /\ t \in targets
    BY <1>2, <1>5, <2>1, OnlyOne
  <2> HIDE DEF t
  <2>3. /\ t \in 1..Len(source)
        /\ \A n \in 1..Len(source) : source[n].kind \in {"root", "odd"} => n = t
    BY <2>2
  <2>4. source[t].elements \in Seq(ElementType)
    <3>1. source[t] \in ItemType
      BY <2>3
    <3> QED
      BY <3>1 DEF ItemType
  <2>5. Detect(source, proof) = "v1" <=>
          \E m \in 1..Len(source[t].elements) :
            source[t].elements[m].value = "cap" /\ Holds(source[t].elements[m].attrs, built)
    <3> DEFINE es == source[t].elements
    <3>1. es \in Seq(ElementType) /\ Array(es, proof) # "invalid"
      BY <2>1, <2>4
    <3> HIDE DEF es
    <3>2. Array(es, proof) = "v1" <=>
            \E m \in 1..Len(es) : es[m].value = "cap" /\ Holds(es[m].attrs, built)
      BY <3>1, ArrayTrue
    <3> QED
      BY <2>1, <3>2 DEF es
  <2>6. /\ \A n \in 1..Len(source) : source[n].kind = "inner" => Holds(source[n].attrs, built)
        /\ Holds(source[t].attrs, built)
    BY <1>3, <2>1
  <2>7. Spells(source, built) <=>
          \E m \in 1..Len(source[t].elements) :
            source[t].elements[m].value = "cap" /\ Holds(source[t].elements[m].attrs, built)
    BY <2>1, <2>3, <2>6 DEF Spells, Lists
  <2> QED
    BY <2>5, <2>7
<1> QED
  BY <1>4, <1>5

-----------------------------------------------------------------------------
(* What the command says is what it makes of the three files. *)
Said ==
  /\ reading \in Readings
  /\ answer \in {"none", Reads(reading.source, reading.file, reading.cargo)}

LEMMA Saying == ReaderSpec => []Said
<1>1. ReaderInit => Said
  BY DEF ReaderInit, Said
<1>2. Said /\ [ReadMarker]_readVars => Said'
  BY DEF Said, ReadMarker, readVars
<1> QED
  BY <1>1, <1>2, PTL DEF ReaderSpec

LEMMA SpelledIsSaid ==
  ASSUME NEW source, NEW built, Spells(source, built)
  PROVE  Says(source, built)
BY DEF Says, Spells, Lists

(* RsCapability: for every source and manifest, and every Dockerfile in      *)
(* whose image no RUN replaces the binary unnamed, "v1" is true of the       *)
(* binary the image ships - its FEATURES has the capability - and "legacy"   *)
(* - not as a literal - and, where Docker's result is not certain, of the    *)
(* source in a build with any features.                                      *)
THEOREM MarkersTrue == ReaderSpec => []MarkerTrue
<1>1. ASSUME Said PROVE MarkerTrue
  <2> DEFINE file == reading.file
             cargo == reading.cargo
             source == reading.source
             ships == Ships(file, cargo)
             derived == DeriveFeatures(file, cargo)
  <2>1. file \in Seq(Instructions) /\ source \in Seq(ItemType) /\ IsFiniteSet(DOMAIN cargo.graph)
    BY <1>1, ReadingsAssumption DEF Said
  <2> SUFFICES ASSUME ~Unseen(file), answer \in {"v1", "legacy"}
               PROVE  IF ships.ok THEN TrueOf(ships.features)
                      ELSE \A features \in SUBSET DOMAIN cargo.graph : TrueOf(features)
    BY DEF MarkerTrue, AnswerTrue
  <2>2. answer = Detect(source, derived) /\ Detect(source, derived) # "invalid"
    BY <1>1 DEF Said, Reads
  <2>3. derived.ok => ships = derived
    BY <2>1, DerivedIsShipped
  <2>4. ASSUME NEW features, derived.ok => derived.features = features PROVE TrueOf(features)
    <3>1. answer = "v1" <=> Spells(source, features)
      <4> HIDE DEF derived, source
      <4> QED
        BY <2>1, <2>2, <2>4, DetectionTrue
    <3> QED
      BY <3>1, SpelledIsSaid DEF TrueOf
  <2> HIDE DEF ships, derived
  <2>5. CASE derived.ok
    BY <2>3, <2>4, <2>5
  <2>6. CASE ~derived.ok
    BY <2>4, <2>6
  <2> QED
    BY <2>5, <2>6
<1> QED
  BY <1>1, Saying, PTL

-----------------------------------------------------------------------------
(* That the reader answers: chains of a file whose stages are known.         *)
LEMMA ChainAlone ==
  ASSUME NEW lines \in Seq(Instructions), Readable(lines), NEW f \in Froms(lines),
         StagesOf(lines, lines[f].base) = {}
  PROVE  Chains(lines)[f] = {f} /\ Earlier(lines, lines[f].base, f) = {}
<1>1. Earlier(lines, lines[f].base, f) = {}
  BY DEF Earlier
<1>2. \/ Chains(lines)[f] = {f}
      \/ \E p \in Froms(lines) : Earlier(lines, lines[f].base, f) = {p}
  BY ChainStep
<1>3. \A p : {p} # {}
  OBVIOUS
<1>4. Chains(lines)[f] = {f}
  BY <1>1, <1>2, <1>3
<1> QED
  BY <1>1, <1>4

Inherits(lines, f, p) ==
  /\ f \in Froms(lines) /\ p \in Froms(lines) /\ p < f
  /\ lines[f].base = lines[p].name /\ lines[p].name # "none"

Continues(lines, f, p) ==
  /\ Chains(lines)[f] = {f} \cup Chains(lines)[p]
  /\ StagesOf(lines, lines[f].base) = {p} /\ Earlier(lines, lines[f].base, f) = {p}

LEMMA ChainFrom ==
  ASSUME NEW lines \in Seq(Instructions), Readable(lines), NEW f, NEW p, Inherits(lines, f, p)
  PROVE  Continues(lines, f, p)
<1> USE DEF Inherits
<1>1. StagesOf(lines, lines[f].base) = {p}
  <2>1. p \in StagesOf(lines, lines[f].base)
    BY DEF StagesOf
  <2> QED
    BY <2>1, OneName
<1>2. Earlier(lines, lines[f].base, f) = {p}
  BY <1>1, EarlierOf
<1>3. PICK q \in Froms(lines) : Earlier(lines, lines[f].base, f) = {q}
                               /\ Chains(lines)[f] = {f} \cup Chains(lines)[q]
  <2>1. Earlier(lines, lines[f].base, f) # {}
    BY <1>2
  <2>2. \/ /\ Earlier(lines, lines[f].base, f) = {}
           /\ Chains(lines)[f] = {f}
        \/ \E q \in Froms(lines) :
             /\ q < f
             /\ Earlier(lines, lines[f].base, f) = {q}
             /\ Chains(lines)[f] = {f} \cup Chains(lines)[q]
    BY ChainStep
  <2> QED
    BY <2>1, <2>2
<1>4. q = p
  BY <1>2, <1>3
<1> QED
  BY <1>1, <1>2, <1>3, <1>4 DEF Continues

(* A stage that is built by the four lines, and no other, is proven to be.   *)
BuildForm(lines, s, C, r, ins, a, b, c, d) ==
  /\ Chains(lines)[s] = C /\ ChainKnown(lines, C)
  /\ r \in C /\ (\A f \in C : f \in Nat /\ r <= f) /\ lines[r].base = "rust"
  /\ InsOf(lines, C) = ins /\ Front(lines, ins, a, b, c, d)

LEMMA BuildRead ==
  ASSUME NEW lines \in Seq(Instructions), NEW cargo, NEW s, NEW C, NEW r, NEW ins,
         NEW a, NEW b, NEW c, NEW d, BuildForm(lines, s, C, r, ins, a, b, c, d)
  PROVE  ProveBuild(lines, s, cargo) = Found(WithDefault(lines[d].program, cargo))
<1> USE DEF BuildForm
<1>1. Min(C) = r
  <2>1. C \subseteq Nat /\ C # {}
    OBVIOUS
  <2>2. Min(C) \in C /\ \A y \in C : Min(C) <= y
    BY <2>1, Smallest
  <2> QED
    BY <2>2
<1>2. ins = {a, b, c, d} /\ a < b /\ b < c /\ c < d
      /\ ins \subseteq 0..Len(lines) /\ Len(lines) \in Nat
  <2>1. InsOf(lines, C) \subseteq 1..Len(lines) /\ Len(lines) \in Nat
    BY DEF InsOf
  <2>2. ins \subseteq 0..Len(lines)
    BY <2>1
  <2> QED
    BY <2>1, <2>2 DEF Front
<1>3. Max(ins) = d
  <2>1. Max(ins) \in ins /\ \A y \in ins : y <= Max(ins)
    BY <1>2, Greatest
  <2> QED
    BY <1>2, <2>1
<1>4. Built(lines, ins, cargo) = Found(WithDefault(lines[d].program, cargo))
  <2>1. \E x1, x2, x3, x4 \in ins : Front(lines, ins, x1, x2, x3, x4)
    <3>1. a \in ins /\ b \in ins /\ c \in ins /\ d \in ins
      BY <1>2
    <3> QED
      BY <3>1
  <2> QED
    BY <1>3, <2>1 DEF Built
<1> QED
  BY <1>1, <1>4 DEF ProveBuild

(* A runtime stage with one copy of the binary, and the last one from it.    *)
ImageForm(lines, s, r, t, ins, hit) ==
  /\ t \in Froms(lines) /\ t = Len(lines) /\ r \in Froms(lines) /\ r < t
  /\ lines[t].base = "runtime" /\ lines[r].name = "runtime" /\ lines[r].base = "node"
  /\ StagesOf(lines, "node") = {}
  /\ InsOf(lines, {r, t}) = ins /\ ~Overwritable(lines, ins)
  /\ Placed(lines, ins) = {hit} /\ StageAt(lines, hit) = r
  /\ lines[hit].kw = "COPY" /\ OfOutput(lines[hit])
  /\ s \in Froms(lines) /\ s < r /\ lines[s].name = lines[hit].from /\ lines[s].name # "none"

LEMMA ImageRead ==
  ASSUME NEW lines \in Seq(Instructions), NEW cargo, Readable(lines), NEW s, NEW r, NEW t,
         NEW ins, NEW hit, ImageForm(lines, s, r, t, ins, hit)
  PROVE  ProveFeatures(lines, cargo) = ProveBuild(lines, s, cargo)
<1> USE DEF ImageForm
<1> DEFINE C == {r, t}
<1>1. /\ Chains(lines)[r] = {r} /\ Earlier(lines, lines[r].base, r) = {}
      /\ Chains(lines)[t] = C
      /\ StagesOf(lines, lines[t].base) = Earlier(lines, lines[t].base, t)
  <2>1. /\ Chains(lines)[r] = {r} /\ Earlier(lines, lines[r].base, r) = {}
    BY ChainAlone
  <2>2. /\ Chains(lines)[t] = {t} \cup Chains(lines)[r]
        /\ StagesOf(lines, lines[t].base) = {r} /\ Earlier(lines, lines[t].base, t) = {r}
    <3>1. Inherits(lines, t, r)
      BY DEF Inherits
    <3>2. Continues(lines, t, r)
      <4> HIDE DEF ImageForm
      <4> QED
        BY <3>1, ChainFrom
    <3> QED
      BY <3>2 DEF Continues
  <2> QED
    BY <2>1, <2>2
<1>2. ChainKnown(lines, C)
  BY <1>1 DEF ChainKnown
<1>3. r \in Nat /\ t \in Nat /\ r < t
  BY DEF Froms
<1>4. Min(C) = r
  <2>1. Min(C) \in C /\ \A y \in C : Min(C) <= y
    <3>1. C \subseteq Nat /\ C # {}
      BY <1>3
    <3> HIDE DEF C
    <3> QED
      BY <3>1, Smallest
  <2> QED
    BY <1>3, <2>1
<1>5. Max(Froms(lines)) = t
  <2>1. Max(Froms(lines)) \in Froms(lines) /\ \A y \in Froms(lines) : y <= Max(Froms(lines))
    <3>1. Froms(lines) \subseteq 0..Len(lines) /\ Len(lines) \in Nat
      BY DEF Froms
    <3> QED
      BY <3>1, Greatest
  <2>2. Max(Froms(lines)) \in Nat /\ Max(Froms(lines)) <= t
    <3>1. Froms(lines) \subseteq 1..Len(lines) /\ Len(lines) = t /\ t \in Nat
      BY <1>3 DEF Froms
    <3> QED
      BY <2>1, <3>1
  <2> QED
    BY <1>3, <2>1, <2>2
<1>6. StagesOf(lines, lines[hit].from) = {s}
  <2>1. s \in StagesOf(lines, lines[hit].from)
    BY DEF StagesOf
  <2> QED
    BY <2>1, OneName
<1>7. Earlier(lines, lines[hit].from, hit) = {s}
  BY <1>6 DEF Earlier
<1>8. Cardinality({hit}) = 1
  BY FS_Singleton
<1> DEFINE I == InsOf(lines, C)
           x == CHOOSE n \in Placed(lines, I) : TRUE
<1>9. I = ins /\ x = hit
  OBVIOUS
<1>10. (CHOOSE f \in StagesOf(lines, lines[x].from) : TRUE) = s
  BY <1>6, <1>9
<1>11. ProvenCopy(lines, x)
  <2> HIDE DEF x
  <2> QED
    BY <1>7, <1>9 DEF ProvenCopy
<1>12. Chains(lines)[Max(Froms(lines))] = C
  BY <1>1, <1>5
<1>13. ProveFeatures(lines, cargo) =
        IF /\ Readable(lines)
           /\ ChainKnown(lines, C) /\ lines[Min(C)].base = "node"
           /\ ~Overwritable(lines, I)
           /\ Cardinality(Placed(lines, I)) = 1 /\ ProvenCopy(lines, x)
        THEN ProveBuild(lines, CHOOSE f \in StagesOf(lines, lines[x].from) : TRUE, cargo)
        ELSE Nothing
  <2> HIDE DEF C
  <2> QED
    BY <1>12 DEF ProveFeatures
<1> HIDE DEF C, I, x
<1> QED
  BY <1>2, <1>4, <1>8, <1>9, <1>10, <1>11, <1>13

-----------------------------------------------------------------------------
(* The three forms. The stages and lines of each.                            *)
LEMMA OneBuildLines ==
  ASSUME NEW p
  PROVE  LET lines == OneBuild(p)
         IN /\ Len(lines) = 9 /\ lines[1] = From("rust", "front") /\ lines[2] = Env(TRUE)
            /\ lines[3] = Copy("COPY", "none", "rs/", "/src/") /\ lines[4] = WorkDir("/src")
            /\ lines[5] = Run(p)
            /\ lines[6] = From("node", "runtime") /\ lines[7] = WorkDir("/app")
            /\ lines[8] = Shipped("front") /\ lines[9] = From("runtime", "production")
BY DEF OneBuild, File, FrontStage, Production

LEMMA OneFileLines ==
  ASSUME NEW p
  PROVE  LET lines == OneFile(p)
         IN /\ Len(lines) = 12 /\ lines[1] = From("rust", "front") /\ lines[2] = Env(TRUE)
            /\ lines[3] = Copy("COPY", "none", "rs/", "/src/") /\ lines[4] = WorkDir("/src")
            /\ lines[5] = Run(p)
            /\ lines[6] = From("node", "runtime") /\ lines[7] = WorkDir("/app")
            /\ lines[8] = Copy("COPY", "front", "/out/noevia-server", "BIN")
            /\ lines[9] = Rogue(".") /\ lines[10] = From("node", "unused")
            /\ lines[11] = Shipped("front") /\ lines[12] = From("runtime", "production")
BY DEF OneFile, File, FrontStage, Production, Unused

LEMMA AmongLines ==
  ASSUME NEW p, NEW s
  PROVE  LET lines == Among(p, s)
         IN /\ Len(lines) = 15 /\ lines[1] = From("rust", "front") /\ lines[2] = Env(TRUE)
            /\ lines[3] = Copy("COPY", "none", "rs/", "/src/") /\ lines[4] = WorkDir("/src")
            /\ lines[5] = Run(p)
            /\ lines[6] = From("rust", "legacy") /\ lines[7] = Env(TRUE)
            /\ lines[8] = Copy("COPY", "none", "rs/", "/src/") /\ lines[9] = WorkDir("/src")
            /\ lines[10] = Run(LegacyBuild) /\ lines[11] = From("front", "copied")
            /\ lines[12] = From("node", "runtime") /\ lines[13] = WorkDir("/app")
            /\ lines[14] = Shipped(s) /\ lines[15] = From("runtime", "production")
BY DEF Among, File, FrontStage, Production, Others, Legacy, LegacyBuild

(* The stage of a line, where no other begins in between. *)
LEMMA StageIs ==
  ASSUME NEW lines \in Seq(Instructions), NEW f \in Froms(lines), NEW n \in 1..Len(lines), f <= n,
         \A g \in Froms(lines) : g <= f \/ n < g
  PROVE  StageAt(lines, n) = f
<1>1. n \in 0..Len(lines) /\ n \in Nat /\ Froms(lines) \subseteq Nat
  BY DEF Froms
<1>2. /\ StageAt(lines, n) \in {0} \cup Froms(lines) /\ StageAt(lines, n) <= n
      /\ f <= StageAt(lines, n)
  BY <1>1, StageOf
<1> QED
  BY <1>1, <1>2

LEMMA OneBuildRead ==
  ASSUME NEW p, PlainBuild(p), NEW cargo, OneBuild(p) \in Seq(Instructions)
  PROVE  ProveFeatures(OneBuild(p), cargo) = Found(WithDefault(p, cargo))
<1> DEFINE lines == OneBuild(p)
<1>1. /\ Len(lines) = 9 /\ lines[1] = From("rust", "front") /\ lines[2] = Env(TRUE)
      /\ lines[3] = Copy("COPY", "none", "rs/", "/src/") /\ lines[4] = WorkDir("/src")
      /\ lines[5] = Run(p)
      /\ lines[6] = From("node", "runtime") /\ lines[7] = WorkDir("/app")
      /\ lines[8] = Shipped("front") /\ lines[9] = From("runtime", "production")
  BY OneBuildLines
<1> HIDE DEF lines
<1>0. lines \in Seq(Instructions) /\ lines # <<>>
  <2>1. lines \in Seq(Instructions)
    BY DEF lines
  <2>2. Len(<<>>) = 0 /\ Len(lines) # 0
    BY <1>1
  <2> QED
    BY <2>1, <2>2
<1>2. /\ lines[1].kw = "FROM" /\ lines[1].base = "rust" /\ lines[1].name = "front"
      /\ lines[2].kw = "ENV" /\ lines[3].kw = "COPY"
      /\ lines[4].kw = "WORKDIR" /\ lines[5].kw = "RUN"
      /\ lines[6].kw = "FROM" /\ lines[6].base = "node" /\ lines[6].name = "runtime"
      /\ lines[7].kw = "WORKDIR" /\ lines[8].kw = "COPY"
      /\ lines[9].kw = "FROM" /\ lines[9].base = "runtime" /\ lines[9].name = "production"
  BY <1>1 DEF From, Env, Copy, WorkDir, Run, Shipped
<1>3. \A n \in 1..9 : lines[n].kw = "FROM" <=> n \in {1, 6, 9}
  BY <1>2
<1>4. Froms(lines) = {1, 6, 9}
  BY <1>1, <1>3 DEF Froms
<1>5. Readable(lines)
  <2>1. \A n \in 1..9 : lines[n].kw \notin {"HEREDOC", "ESCAPE", "UNFINISHED"}
    BY <1>2
  <2>2. \A n \in 1..9 : lines[n].kw = "FROM" => lines[n].base # "platform"
    BY <1>2, <1>3
  <2> QED
    BY <1>0, <1>1, <1>2, <1>4, <2>1, <2>2 DEF Readable
<1>6. \A n \in 1..9 : StageAt(lines, n) = IF n < 6 THEN 1 ELSE IF n < 9 THEN 6 ELSE 9
  <2> TAKE n \in 1..9
  <2>1. CASE n < 6
    <3>1. 1 \in Froms(lines) /\ 1 <= n /\ \A g \in Froms(lines) : g <= 1 \/ n < g
      BY <1>4, <2>1
    <3>2. n \in 1..Len(lines)
      BY <1>1
    <3>3. StageAt(lines, n) = 1
      BY <1>0, <3>1, <3>2, StageIs
    <3> QED
      BY <2>1, <3>3
  <2>2. CASE 6 <= n /\ n < 9
    <3>1. 6 \in Froms(lines) /\ 6 <= n /\ \A g \in Froms(lines) : g <= 6 \/ n < g
      BY <1>4, <2>2
    <3>2. n \in 1..Len(lines)
      BY <1>1
    <3>3. StageAt(lines, n) = 6
      BY <1>0, <3>1, <3>2, StageIs
    <3> QED
      BY <2>2, <3>3
  <2>3. CASE n = 9
    <3>1. 9 \in Froms(lines) /\ 9 <= n /\ \A g \in Froms(lines) : g <= 9 \/ n < g
      BY <1>4, <2>3
    <3>2. n \in 1..Len(lines)
      BY <1>1
    <3>3. StageAt(lines, n) = 9
      BY <1>0, <3>1, <3>2, StageIs
    <3> QED
      BY <2>3, <3>3
  <2> QED
    BY <2>1, <2>2, <2>3
<1>7. InsOf(lines, {1}) = {2, 3, 4, 5} /\ InsOf(lines, {6, 9}) = {7, 8}
  BY <1>1, <1>3, <1>6 DEF InsOf
<1>8. StagesOf(lines, "rust") = {} /\ StagesOf(lines, "node") = {}
  BY <1>2, <1>4 DEF StagesOf
<1>9. ProveFeatures(lines, cargo) = ProveBuild(lines, 1, cargo)
  <2>1. ~Overwritable(lines, {7, 8}) /\ Placed(lines, {7, 8}) = {8}
    BY <1>1, <1>2 DEF Overwritable, Placed, Writes, Shipped, Copy
  <2>2. OfOutput(lines[8]) /\ lines[8].from = "front"
    BY <1>1 DEF OfOutput, Shipped, Copy
  <2>3. StageAt(lines, 8) = 6
    BY <1>6
  <2>4. /\ 9 \in Froms(lines) /\ 6 \in Froms(lines) /\ 1 \in Froms(lines)
        /\ 6 < 9 /\ 1 < 6 /\ lines[1].name # "none" /\ lines[1].name = lines[8].from
        /\ lines[9].base = "runtime" /\ lines[6].name = "runtime" /\ lines[6].base = "node"
        /\ lines[8].kw = "COPY"
    BY <1>2, <1>4, <2>2
  <2>5. ImageForm(lines, 1, 6, 9, {7, 8}, 8)
    BY <1>1, <1>7, <1>8, <2>1, <2>2, <2>3, <2>4 DEF ImageForm
  <2> QED
    BY <1>0, <1>5, <2>5, ImageRead
<1>10. ProveBuild(lines, 1, cargo) = Found(WithDefault(p, cargo))
  <2>1. Chains(lines)[1] = {1} /\ Earlier(lines, "rust", 1) = {}
    BY <1>0, <1>2, <1>4, <1>5, <1>8, ChainAlone
  <2>2. ChainKnown(lines, {1})
    <3>1. lines[1].base # "var"
          /\ StagesOf(lines, lines[1].base) = {} /\ Earlier(lines, lines[1].base, 1) = {}
      BY <1>2, <1>8, <2>1
    <3> QED
      BY <3>1 DEF ChainKnown
  <2>3. Front(lines, {2, 3, 4, 5}, 2, 3, 4, 5) /\ lines[5].program = p
    BY <1>1 DEF Front, Run
  <2>4. 1 \in {1} /\ \A f \in {1} : f \in Nat /\ 1 <= f
    OBVIOUS
  <2>5. BuildForm(lines, 1, {1}, 1, {2, 3, 4, 5}, 2, 3, 4, 5)
    BY <1>2, <1>7, <2>1, <2>2, <2>3, <2>4 DEF BuildForm
  <2> QED
    BY <1>0, <2>3, <2>5, BuildRead
<1> QED
  BY <1>9, <1>10 DEF lines

LEMMA OneFileRead ==
  ASSUME NEW p, PlainBuild(p), NEW cargo, OneFile(p) \in Seq(Instructions)
  PROVE  ProveFeatures(OneFile(p), cargo) = Found(WithDefault(p, cargo))
<1> DEFINE lines == OneFile(p)
<1>1. /\ Len(lines) = 12 /\ lines[1] = From("rust", "front") /\ lines[2] = Env(TRUE)
      /\ lines[3] = Copy("COPY", "none", "rs/", "/src/") /\ lines[4] = WorkDir("/src")
      /\ lines[5] = Run(p)
      /\ lines[6] = From("node", "runtime") /\ lines[7] = WorkDir("/app")
      /\ lines[8] = Copy("COPY", "front", "/out/noevia-server", "BIN")
      /\ lines[9] = Rogue(".") /\ lines[10] = From("node", "unused")
      /\ lines[11] = Shipped("front") /\ lines[12] = From("runtime", "production")
  BY OneFileLines
<1> HIDE DEF lines
<1>0. lines \in Seq(Instructions) /\ lines # <<>>
  <2>1. lines \in Seq(Instructions)
    BY DEF lines
  <2>2. Len(<<>>) = 0 /\ Len(lines) # 0
    BY <1>1
  <2> QED
    BY <2>1, <2>2
<1>2. /\ lines[1].kw = "FROM" /\ lines[1].base = "rust" /\ lines[1].name = "front"
      /\ lines[2].kw = "ENV" /\ lines[3].kw = "COPY"
      /\ lines[4].kw = "WORKDIR" /\ lines[5].kw = "RUN"
      /\ lines[6].kw = "FROM" /\ lines[6].base = "node" /\ lines[6].name = "runtime"
      /\ lines[7].kw = "WORKDIR" /\ lines[8].kw = "COPY" /\ lines[9].kw = "COPY"
      /\ lines[10].kw = "FROM" /\ lines[10].base = "node" /\ lines[10].name = "unused"
      /\ lines[11].kw = "COPY"
      /\ lines[12].kw = "FROM" /\ lines[12].base = "runtime" /\ lines[12].name = "production"
  BY <1>1 DEF From, Env, Copy, WorkDir, Run, Shipped, Rogue
<1>3. \A n \in 1..12 : lines[n].kw = "FROM" <=> n \in {1, 6, 10, 12}
  BY <1>2
<1>4. Froms(lines) = {1, 6, 10, 12}
  BY <1>1, <1>3 DEF Froms
<1>5. Readable(lines)
  <2>1. \A n \in 1..12 : lines[n].kw \notin {"HEREDOC", "ESCAPE", "UNFINISHED"}
    <3>1. \A n \in 1..6 : lines[n].kw \notin {"HEREDOC", "ESCAPE", "UNFINISHED"}
      BY <1>2
    <3>2. \A n \in 7..12 : lines[n].kw \notin {"HEREDOC", "ESCAPE", "UNFINISHED"}
      BY <1>2
    <3>3. \A n \in 1..12 : n \in 1..6 \/ n \in 7..12
      OBVIOUS
    <3> QED
      BY <3>1, <3>2, <3>3
  <2>2. \A n \in 1..12 : lines[n].kw = "FROM" => lines[n].base # "platform"
    BY <1>2, <1>3
  <2> QED
    BY <1>0, <1>1, <1>2, <1>4, <2>1, <2>2 DEF Readable
<1>6. \A n \in 1..12 :
        StageAt(lines, n) = IF n < 6 THEN 1 ELSE IF n < 10 THEN 6 ELSE IF n < 12 THEN 10 ELSE 12
  <2> TAKE n \in 1..12
  <2>1. CASE n < 6
    <3>1. 1 \in Froms(lines) /\ 1 <= n /\ \A g \in Froms(lines) : g <= 1 \/ n < g
      BY <1>4, <2>1
    <3>2. n \in 1..Len(lines)
      BY <1>1
    <3>3. StageAt(lines, n) = 1
      BY <1>0, <3>1, <3>2, StageIs
    <3> QED
      BY <2>1, <3>3
  <2>2. CASE 6 <= n /\ n < 10
    <3>1. 6 \in Froms(lines) /\ 6 <= n /\ \A g \in Froms(lines) : g <= 6 \/ n < g
      BY <1>4, <2>2
    <3>2. n \in 1..Len(lines)
      BY <1>1
    <3>3. StageAt(lines, n) = 6
      BY <1>0, <3>1, <3>2, StageIs
    <3> QED
      BY <2>2, <3>3
  <2>3. CASE 10 <= n /\ n < 12
    <3>1. 10 \in Froms(lines) /\ 10 <= n /\ \A g \in Froms(lines) : g <= 10 \/ n < g
      BY <1>4, <2>3
    <3>2. n \in 1..Len(lines)
      BY <1>1
    <3>3. StageAt(lines, n) = 10
      BY <1>0, <3>1, <3>2, StageIs
    <3> QED
      BY <2>3, <3>3
  <2>4. CASE n = 12
    <3>1. 12 \in Froms(lines) /\ 12 <= n /\ \A g \in Froms(lines) : g <= 12 \/ n < g
      BY <1>4, <2>4
    <3>2. n \in 1..Len(lines)
      BY <1>1
    <3>3. StageAt(lines, n) = 12
      BY <1>0, <3>1, <3>2, StageIs
    <3> QED
      BY <2>4, <3>3
  <2> QED
    BY <2>1, <2>2, <2>3, <2>4
<1>7. InsOf(lines, {1}) = {2, 3, 4, 5} /\ InsOf(lines, {6, 12}) = {7, 8, 9}
  BY <1>1, <1>3, <1>6 DEF InsOf
<1>8. StagesOf(lines, "rust") = {} /\ StagesOf(lines, "node") = {}
  BY <1>2, <1>4 DEF StagesOf
<1>9. ProveFeatures(lines, cargo) = ProveBuild(lines, 1, cargo)
  <2>1. DirAt(lines, {7, 8, 9}, 9) = "/app"
    <3>1. {m \in {7, 8, 9} : m < 9 /\ lines[m].kw = "WORKDIR"} = {7}
      BY <1>2
    <3>2. Max({7}) = 7
      BY 7 \in Nat, {7} \subseteq 0..7, Greatest
    <3>3. lines[7].dir = "/app"
      BY <1>1 DEF WorkDir
    <3> QED
      BY <3>1, <3>2, <3>3 DEF DirAt
  <2>2. ~Overwritable(lines, {7, 8, 9}) /\ Placed(lines, {7, 8, 9}) = {8}
    <3>1. ~Overwritable(lines, {7, 8, 9})
      BY <1>2 DEF Overwritable
    <3>2. ~Writes(lines[7], DirAt(lines, {7, 8, 9}, 7))
      BY <1>2 DEF Writes
    <3>3. Writes(lines[8], DirAt(lines, {7, 8, 9}, 8))
      BY <1>1, <1>2 DEF Writes, Copy
    <3>4. ~Writes(lines[9], DirAt(lines, {7, 8, 9}, 9))
      BY <1>1, <2>1 DEF Writes, Rogue, Copy
    <3> QED
      BY <3>1, <3>2, <3>3, <3>4 DEF Placed
  <2>3. OfOutput(lines[8]) /\ lines[8].from = "front"
    BY <1>1 DEF OfOutput, Copy
  <2>4. StageAt(lines, 8) = 6
    BY <1>6
  <2>5. /\ 12 \in Froms(lines) /\ 6 \in Froms(lines) /\ 1 \in Froms(lines)
        /\ 6 < 12 /\ 1 < 6 /\ lines[1].name # "none" /\ lines[1].name = lines[8].from
        /\ lines[12].base = "runtime" /\ lines[6].name = "runtime" /\ lines[6].base = "node"
        /\ lines[8].kw = "COPY"
    BY <1>2, <1>4, <2>3
  <2>6. ImageForm(lines, 1, 6, 12, {7, 8, 9}, 8)
    BY <1>1, <1>7, <1>8, <2>2, <2>3, <2>4, <2>5 DEF ImageForm
  <2> QED
    BY <1>0, <1>5, <2>6, ImageRead
<1>10. ProveBuild(lines, 1, cargo) = Found(WithDefault(p, cargo))
  <2>1. Chains(lines)[1] = {1} /\ Earlier(lines, "rust", 1) = {}
    BY <1>0, <1>2, <1>4, <1>5, <1>8, ChainAlone
  <2>2. ChainKnown(lines, {1})
    <3>1. lines[1].base # "var"
          /\ StagesOf(lines, lines[1].base) = {} /\ Earlier(lines, lines[1].base, 1) = {}
      BY <1>2, <1>8, <2>1
    <3> QED
      BY <3>1 DEF ChainKnown
  <2>3. Front(lines, {2, 3, 4, 5}, 2, 3, 4, 5) /\ lines[5].program = p
    BY <1>1 DEF Front, Run
  <2>4. 1 \in {1} /\ \A f \in {1} : f \in Nat /\ 1 <= f
    OBVIOUS
  <2>5. BuildForm(lines, 1, {1}, 1, {2, 3, 4, 5}, 2, 3, 4, 5)
    BY <1>2, <1>7, <2>1, <2>2, <2>3, <2>4 DEF BuildForm
  <2> QED
    BY <1>0, <2>3, <2>5, BuildRead
<1> QED
  BY <1>9, <1>10 DEF lines

LEMMA LegacyPlain == PlainBuild(LegacyBuild)
BY DEF LegacyBuild, Literal, Build, Program, Cargo, PlainBuild, Server

LEMMA AmongRead ==
  ASSUME NEW p, PlainBuild(p), NEW cargo, NEW s \in {"front", "copied", "legacy"},
         Among(p, s) \in Seq(Instructions)
  PROVE  ProveFeatures(Among(p, s), cargo) =
           Found(WithDefault(IF s = "legacy" THEN LegacyBuild ELSE p, cargo))
<1> DEFINE lines == Among(p, s)
<1>1. /\ Len(lines) = 15 /\ lines[1] = From("rust", "front") /\ lines[2] = Env(TRUE)
      /\ lines[3] = Copy("COPY", "none", "rs/", "/src/") /\ lines[4] = WorkDir("/src")
      /\ lines[5] = Run(p)
      /\ lines[6] = From("rust", "legacy") /\ lines[7] = Env(TRUE)
      /\ lines[8] = Copy("COPY", "none", "rs/", "/src/") /\ lines[9] = WorkDir("/src")
      /\ lines[10] = Run(LegacyBuild) /\ lines[11] = From("front", "copied")
      /\ lines[12] = From("node", "runtime") /\ lines[13] = WorkDir("/app")
      /\ lines[14] = Shipped(s) /\ lines[15] = From("runtime", "production")
  BY AmongLines
<1> HIDE DEF lines
<1>0. lines \in Seq(Instructions) /\ lines # <<>>
  <2>1. lines \in Seq(Instructions)
    BY DEF lines
  <2>2. Len(<<>>) = 0 /\ Len(lines) # 0
    BY <1>1
  <2> QED
    BY <2>1, <2>2
<1>2. /\ lines[1].kw = "FROM" /\ lines[1].base = "rust" /\ lines[1].name = "front"
      /\ lines[2].kw = "ENV" /\ lines[3].kw = "COPY"
      /\ lines[4].kw = "WORKDIR" /\ lines[5].kw = "RUN"
      /\ lines[6].kw = "FROM" /\ lines[6].base = "rust" /\ lines[6].name = "legacy"
      /\ lines[7].kw = "ENV" /\ lines[8].kw = "COPY"
      /\ lines[9].kw = "WORKDIR" /\ lines[10].kw = "RUN"
      /\ lines[11].kw = "FROM" /\ lines[11].base = "front" /\ lines[11].name = "copied"
      /\ lines[12].kw = "FROM" /\ lines[12].base = "node" /\ lines[12].name = "runtime"
      /\ lines[13].kw = "WORKDIR" /\ lines[14].kw = "COPY"
      /\ lines[15].kw = "FROM" /\ lines[15].base = "runtime" /\ lines[15].name = "production"
  BY <1>1 DEF From, Env, Copy, WorkDir, Run, Shipped
<1>3. \A n \in 1..15 : lines[n].kw = "FROM" <=> n \in {1, 6, 11, 12, 15}
  BY <1>2
<1>4. Froms(lines) = {1, 6, 11, 12, 15}
  BY <1>1, <1>3 DEF Froms
<1>5. Readable(lines)
  <2>1. \A n \in 1..15 : lines[n].kw \notin {"HEREDOC", "ESCAPE", "UNFINISHED"}
    <3>1. \A n \in 1..5 : lines[n].kw \notin {"HEREDOC", "ESCAPE", "UNFINISHED"}
      BY <1>2
    <3>2. \A n \in 6..10 : lines[n].kw \notin {"HEREDOC", "ESCAPE", "UNFINISHED"}
      BY <1>2
    <3>3. \A n \in 11..15 : lines[n].kw \notin {"HEREDOC", "ESCAPE", "UNFINISHED"}
      BY <1>2
    <3>4. \A n \in 1..15 : n \in 1..5 \/ n \in 6..10 \/ n \in 11..15
      OBVIOUS
    <3> QED
      BY <3>1, <3>2, <3>3, <3>4
  <2>2. \A n \in 1..15 : lines[n].kw = "FROM" => lines[n].base # "platform"
    BY <1>2, <1>3
  <2> QED
    BY <1>0, <1>1, <1>2, <1>4, <2>1, <2>2 DEF Readable
<1>6. \A n \in 1..15 :
        StageAt(lines, n) = IF n < 6 THEN 1 ELSE IF n < 11 THEN 6 ELSE IF n < 12 THEN 11
                            ELSE IF n < 15 THEN 12 ELSE 15
  <2> TAKE n \in 1..15
  <2>1. CASE n < 6
    <3>1. 1 \in Froms(lines) /\ 1 <= n /\ \A g \in Froms(lines) : g <= 1 \/ n < g
      BY <1>4, <2>1
    <3>2. n \in 1..Len(lines)
      BY <1>1
    <3>3. StageAt(lines, n) = 1
      BY <1>0, <3>1, <3>2, StageIs
    <3> QED
      BY <2>1, <3>3
  <2>2. CASE 6 <= n /\ n < 11
    <3>1. 6 \in Froms(lines) /\ 6 <= n /\ \A g \in Froms(lines) : g <= 6 \/ n < g
      BY <1>4, <2>2
    <3>2. n \in 1..Len(lines)
      BY <1>1
    <3>3. StageAt(lines, n) = 6
      BY <1>0, <3>1, <3>2, StageIs
    <3> QED
      BY <2>2, <3>3
  <2>3. CASE n = 11
    <3>1. 11 \in Froms(lines) /\ 11 <= n /\ \A g \in Froms(lines) : g <= 11 \/ n < g
      BY <1>4, <2>3
    <3>2. n \in 1..Len(lines)
      BY <1>1
    <3>3. StageAt(lines, n) = 11
      BY <1>0, <3>1, <3>2, StageIs
    <3> QED
      BY <2>3, <3>3
  <2>4. CASE 12 <= n /\ n < 15
    <3>1. 12 \in Froms(lines) /\ 12 <= n /\ \A g \in Froms(lines) : g <= 12 \/ n < g
      BY <1>4, <2>4
    <3>2. n \in 1..Len(lines)
      BY <1>1
    <3>3. StageAt(lines, n) = 12
      BY <1>0, <3>1, <3>2, StageIs
    <3> QED
      BY <2>4, <3>3
  <2>5. CASE n = 15
    <3>1. 15 \in Froms(lines) /\ 15 <= n /\ \A g \in Froms(lines) : g <= 15 \/ n < g
      BY <1>4, <2>5
    <3>2. n \in 1..Len(lines)
      BY <1>1
    <3>3. StageAt(lines, n) = 15
      BY <1>0, <3>1, <3>2, StageIs
    <3> QED
      BY <2>5, <3>3
  <2> QED
    BY <2>1, <2>2, <2>3, <2>4, <2>5
<1>7. /\ InsOf(lines, {1}) = {2, 3, 4, 5} /\ InsOf(lines, {1, 11}) = {2, 3, 4, 5}
      /\ InsOf(lines, {6}) = {7, 8, 9, 10} /\ InsOf(lines, {12, 15}) = {13, 14}
  BY <1>1, <1>3, <1>6 DEF InsOf
<1>8. StagesOf(lines, "rust") = {} /\ StagesOf(lines, "node") = {}
  BY <1>2, <1>4 DEF StagesOf
<1>9. ASSUME NEW k \in {1, 6, 11}, lines[k].name = s
      PROVE  ProveFeatures(lines, cargo) = ProveBuild(lines, k, cargo)
  <2>1. ~Overwritable(lines, {13, 14}) /\ Placed(lines, {13, 14}) = {14}
    BY <1>1, <1>2 DEF Overwritable, Placed, Writes, Shipped, Copy
  <2>2. OfOutput(lines[14]) /\ lines[14].from = s
    BY <1>1 DEF OfOutput, Shipped, Copy
  <2>3. StageAt(lines, 14) = 12
    BY <1>6
  <2>4. /\ 15 \in Froms(lines) /\ 12 \in Froms(lines) /\ k \in Froms(lines)
        /\ 12 < 15 /\ k < 12 /\ lines[k].name # "none" /\ lines[k].name = lines[14].from
        /\ lines[15].base = "runtime" /\ lines[12].name = "runtime" /\ lines[12].base = "node"
        /\ lines[14].kw = "COPY"
    BY <1>2, <1>4, <1>9, <2>2
  <2>5. ImageForm(lines, k, 12, 15, {13, 14}, 14)
    BY <1>1, <1>7, <1>8, <2>1, <2>2, <2>3, <2>4 DEF ImageForm
  <2> QED
    BY <1>0, <1>5, <2>5, ImageRead
<1>10. Chains(lines)[1] = {1} /\ Chains(lines)[6] = {6} /\ Chains(lines)[11] = {1, 11}
       /\ Earlier(lines, "rust", 1) = {} /\ Earlier(lines, "rust", 6) = {}
       /\ StagesOf(lines, "front") = {1} /\ Earlier(lines, "front", 11) = {1}
  <2>1. /\ Chains(lines)[1] = {1} /\ Chains(lines)[6] = {6}
        /\ Earlier(lines, "rust", 1) = {} /\ Earlier(lines, "rust", 6) = {}
    BY <1>0, <1>2, <1>4, <1>5, <1>8, ChainAlone
  <2>2. /\ Chains(lines)[11] = {11} \cup Chains(lines)[1]
        /\ StagesOf(lines, "front") = {1} /\ Earlier(lines, "front", 11) = {1}
    <3>1. Inherits(lines, 11, 1) /\ lines[11].base = "front"
      BY <1>2, <1>4 DEF Inherits
    <3>2. Continues(lines, 11, 1)
      BY <1>0, <1>5, <3>1, ChainFrom
    <3> QED
      BY <3>1, <3>2 DEF Continues
  <2> QED
    BY <2>1, <2>2
<1>11. ProveBuild(lines, 1, cargo) = Found(WithDefault(p, cargo))
       /\ ProveBuild(lines, 11, cargo) = Found(WithDefault(p, cargo))
  <2>1. ChainKnown(lines, {1}) /\ ChainKnown(lines, {1, 11})
    <3>1. lines[1].base = "rust" /\ lines[11].base = "front"
      BY <1>2
    <3> QED
      BY <1>8, <1>10, <3>1 DEF ChainKnown
  <2>2. Front(lines, {2, 3, 4, 5}, 2, 3, 4, 5) /\ lines[5].program = p
    BY <1>1 DEF Front, Run
  <2>3. 1 \in {1} /\ 1 \in {1, 11} /\ \A f \in {1, 11} : f \in Nat /\ 1 <= f
    OBVIOUS
  <2>4. BuildForm(lines, 1, {1}, 1, {2, 3, 4, 5}, 2, 3, 4, 5)
    BY <1>2, <1>7, <1>10, <2>1, <2>2, <2>3 DEF BuildForm
  <2>5. BuildForm(lines, 11, {1, 11}, 1, {2, 3, 4, 5}, 2, 3, 4, 5)
    BY <1>2, <1>7, <1>10, <2>1, <2>2, <2>3 DEF BuildForm
  <2> QED
    BY <1>0, <2>2, <2>4, <2>5, BuildRead
<1>12. ProveBuild(lines, 6, cargo) = Found(WithDefault(LegacyBuild, cargo))
  <2>1. ChainKnown(lines, {6})
    <3>1. lines[6].base # "var"
          /\ StagesOf(lines, lines[6].base) = {} /\ Earlier(lines, lines[6].base, 6) = {}
      BY <1>2, <1>8, <1>10
    <3> QED
      BY <3>1 DEF ChainKnown
  <2>2. Front(lines, {7, 8, 9, 10}, 7, 8, 9, 10) /\ lines[10].program = LegacyBuild
    BY <1>1, LegacyPlain DEF Front, Run
  <2>3. 6 \in {6} /\ \A f \in {6} : f \in Nat /\ 6 <= f
    OBVIOUS
  <2>4. BuildForm(lines, 6, {6}, 6, {7, 8, 9, 10}, 7, 8, 9, 10)
    BY <1>2, <1>7, <1>10, <2>1, <2>2, <2>3 DEF BuildForm
  <2> QED
    BY <1>0, <2>2, <2>4, BuildRead
<1>13. /\ s = "front" => ProveFeatures(lines, cargo) = ProveBuild(lines, 1, cargo)
       /\ s = "copied" => ProveFeatures(lines, cargo) = ProveBuild(lines, 11, cargo)
       /\ s = "legacy" => ProveFeatures(lines, cargo) = ProveBuild(lines, 6, cargo)
  <2>1. lines[1].name = "front" /\ lines[11].name = "copied" /\ lines[6].name = "legacy"
    BY <1>2
  <2> QED
    BY <1>9, <2>1
<1>14. ProveFeatures(lines, cargo) =
         Found(WithDefault(IF s = "legacy" THEN LegacyBuild ELSE p, cargo))
  BY <1>11, <1>12, <1>13
<1> QED
  BY <1>14 DEF lines

(* A table that declares what it names declares all that is visited. *)
Declares(cargo, features) ==
  /\ cargo.tables = 1 /\ features \subseteq DOMAIN cargo.graph
  /\ \A f \in DOMAIN cargo.graph : cargo.graph[f] \ Elsewhere \subseteq DOMAIN cargo.graph

LEMMA Derived ==
  ASSUME NEW lines, NEW cargo, IsFiniteSet(DOMAIN cargo.graph), NEW start,
         ProveFeatures(lines, cargo) = Found(start), Declares(cargo, start)
  PROVE  DeriveFeatures(lines, cargo).ok
<1> DEFINE graph == cargo.graph
<1>1. Cardinality(DOMAIN graph) + 1 \in Nat
  BY FS_CardinalityType
<1>2. start \subseteq DOMAIN graph
      /\ \A f \in DOMAIN graph \cap DOMAIN graph : graph[f] \ Elsewhere \subseteq DOMAIN graph
  BY DEF Declares
<1>3. Visit(graph, start) \subseteq DOMAIN graph
  <2> HIDE DEF graph
  <2> QED
    BY <1>1, <1>2, ReachWithin DEF Visit
<1>4. ProveFeatures(lines, cargo).ok /\ ProveFeatures(lines, cargo).features = start
  BY DEF Found
<1>5. DeriveFeatures(lines, cargo) = Found(Visit(graph, start))
  BY <1>3, <1>4 DEF DeriveFeatures, Declares
<1> QED
  BY <1>5 DEF Found

(* Every RUN of these forms is a build command.                              *)
LEMMA FormsAreSeen ==
  ASSUME NEW p, PlainBuild(p),
         NEW lines \in {OneBuild(p), OneFile(p)}
                         \cup {Among(p, s) : s \in {"front", "copied", "legacy"}}
  PROVE  ~Unseen(lines)
<1> DEFINE Known(ls) ==
             \A n \in 1..Len(ls) : ls[n].kw = "RUN" => ls[n].program \in {p, LegacyBuild}
<1>1. Known(OneBuild(p))
  <2> DEFINE ls == OneBuild(p)
  <2>1. /\ Len(ls) = 9 /\ ls[1] = From("rust", "front") /\ ls[2] = Env(TRUE)
        /\ ls[3] = Copy("COPY", "none", "rs/", "/src/") /\ ls[4] = WorkDir("/src")
        /\ ls[5] = Run(p)
        /\ ls[6] = From("node", "runtime") /\ ls[7] = WorkDir("/app")
        /\ ls[8] = Shipped("front") /\ ls[9] = From("runtime", "production")
    BY OneBuildLines
  <2> HIDE DEF ls
  <2>2. /\ ls[1].kw = "FROM" /\ ls[2].kw = "ENV" /\ ls[3].kw = "COPY" /\ ls[4].kw = "WORKDIR"
        /\ ls[5].program = p /\ ls[6].kw = "FROM" /\ ls[7].kw = "WORKDIR" /\ ls[8].kw = "COPY"
        /\ ls[9].kw = "FROM"
    BY <2>1 DEF From, Env, Copy, WorkDir, Run, Shipped, Rogue
  <2>3. \A n \in 1..9 : n \in {1, 2, 3, 4, 5, 6, 7, 8, 9}
    OBVIOUS
  <2>4. Known(ls)
    BY <2>1, <2>2, <2>3
  <2> QED
    BY <2>4 DEF ls
<1>2. Known(OneFile(p))
  <2> DEFINE ls == OneFile(p)
  <2>1. /\ Len(ls) = 12 /\ ls[1] = From("rust", "front") /\ ls[2] = Env(TRUE)
        /\ ls[3] = Copy("COPY", "none", "rs/", "/src/") /\ ls[4] = WorkDir("/src")
        /\ ls[5] = Run(p)
        /\ ls[6] = From("node", "runtime") /\ ls[7] = WorkDir("/app")
        /\ ls[8] = Copy("COPY", "front", "/out/noevia-server", "BIN")
        /\ ls[9] = Rogue(".") /\ ls[10] = From("node", "unused")
        /\ ls[11] = Shipped("front") /\ ls[12] = From("runtime", "production")
    BY OneFileLines
  <2> HIDE DEF ls
  <2>2. /\ ls[1].kw = "FROM" /\ ls[2].kw = "ENV" /\ ls[3].kw = "COPY" /\ ls[4].kw = "WORKDIR"
        /\ ls[5].program = p /\ ls[6].kw = "FROM" /\ ls[7].kw = "WORKDIR" /\ ls[8].kw = "COPY"
        /\ ls[9].kw = "COPY" /\ ls[10].kw = "FROM" /\ ls[11].kw = "COPY" /\ ls[12].kw = "FROM"
    BY <2>1 DEF From, Env, Copy, WorkDir, Run, Shipped, Rogue
  <2>3. \A n \in 1..12 : n \in {1, 2, 3, 4, 5, 6, 7, 8, 9, 10, 11, 12}
    OBVIOUS
  <2>4. Known(ls)
    BY <2>1, <2>2, <2>3
  <2> QED
    BY <2>4 DEF ls
<1>3. ASSUME NEW s \in {"front", "copied", "legacy"} PROVE Known(Among(p, s))
  <2> DEFINE ls == Among(p, s)
  <2>1. /\ Len(ls) = 15 /\ ls[1] = From("rust", "front") /\ ls[2] = Env(TRUE)
        /\ ls[3] = Copy("COPY", "none", "rs/", "/src/") /\ ls[4] = WorkDir("/src")
        /\ ls[5] = Run(p)
        /\ ls[6] = From("rust", "legacy") /\ ls[7] = Env(TRUE)
        /\ ls[8] = Copy("COPY", "none", "rs/", "/src/") /\ ls[9] = WorkDir("/src")
        /\ ls[10] = Run(LegacyBuild) /\ ls[11] = From("front", "copied")
        /\ ls[12] = From("node", "runtime") /\ ls[13] = WorkDir("/app")
        /\ ls[14] = Shipped(s) /\ ls[15] = From("runtime", "production")
    BY AmongLines
  <2> HIDE DEF ls
  <2>2. /\ ls[1].kw = "FROM" /\ ls[2].kw = "ENV" /\ ls[3].kw = "COPY" /\ ls[4].kw = "WORKDIR"
        /\ ls[5].program = p /\ ls[6].kw = "FROM" /\ ls[7].kw = "ENV" /\ ls[8].kw = "COPY"
        /\ ls[9].kw = "WORKDIR" /\ ls[10].program = LegacyBuild /\ ls[11].kw = "FROM" /\ ls[12].kw = "FROM"
        /\ ls[13].kw = "WORKDIR" /\ ls[14].kw = "COPY" /\ ls[15].kw = "FROM"
    BY <2>1 DEF From, Env, Copy, WorkDir, Run, Shipped, Rogue
  <2>3. \A n \in 1..15 : n \in {1, 2, 3, 4, 5, 6, 7, 8, 9, 10, 11, 12, 13, 14, 15}
    OBVIOUS
  <2>4. Known(ls)
    BY <2>1, <2>2, <2>3
  <2> QED
    BY <2>4 DEF ls
<1>4. Known(lines)
  BY <1>1, <1>2, <1>3
<1>5. p.form # "unnamed" /\ LegacyBuild.form # "unnamed"
  BY LegacyPlain DEF PlainBuild
<1> QED
  BY <1>4, <1>5 DEF Unseen, InsOf

(* A Dockerfile of these forms is read, whatever the one plain command and   *)
(* the manifest, if that declares the features that are asked for; and so it *)
(* is known what the image ships.                                            *)
THEOREM FormsAreRead ==
  ASSUME NEW p, PlainBuild(p), NEW cargo, IsFiniteSet(DOMAIN cargo.graph),
         Declares(cargo, WithDefault(p, cargo) \cup {"f2"}),
         NEW lines \in {OneBuild(p), OneFile(p)}
                         \cup {Among(p, s) : s \in {"front", "copied", "legacy"}},
         lines \in Seq(Instructions)
  PROVE  /\ DeriveFeatures(lines, cargo).ok
         /\ Ships(lines, cargo) = DeriveFeatures(lines, cargo)
<1>1. WithDefault(LegacyBuild, cargo) = {"f2"}
  <2>1. LegacyBuild.segments[1].features = {"f2"} /\ LegacyBuild.segments[1].noDefault = TRUE
        /\ LegacyBuild.select = {}
    BY DEF LegacyBuild, Literal, Program, Build, Cargo
  <2>2. Requested(LegacyBuild, cargo) = {"f2"}
    BY <2>1 DEF Requested
  <2> QED
    BY <2>1, <2>2 DEF WithDefault
<1>2. Declares(cargo, WithDefault(p, cargo)) /\ Declares(cargo, WithDefault(LegacyBuild, cargo))
  BY <1>1 DEF Declares
<1>3. ASSUME lines = OneBuild(p) PROVE DeriveFeatures(lines, cargo).ok
  <2>1. ProveFeatures(lines, cargo) = Found(WithDefault(p, cargo))
    BY <1>3, OneBuildRead
  <2> QED
    BY <1>2, <2>1, Derived
<1>4. ASSUME lines = OneFile(p) PROVE DeriveFeatures(lines, cargo).ok
  <2>1. ProveFeatures(lines, cargo) = Found(WithDefault(p, cargo))
    BY <1>4, OneFileRead
  <2> QED
    BY <1>2, <2>1, Derived
<1>5. ASSUME NEW s \in {"front", "copied", "legacy"}, lines = Among(p, s)
      PROVE  DeriveFeatures(lines, cargo).ok
  <2> DEFINE program == IF s = "legacy" THEN LegacyBuild ELSE p
  <2>1. ProveFeatures(lines, cargo) = Found(WithDefault(program, cargo))
    BY <1>5, AmongRead
  <2>2. Declares(cargo, WithDefault(program, cargo))
    BY <1>2
  <2> HIDE DEF program
  <2> QED
    BY <2>1, <2>2, Derived
<1>6. DeriveFeatures(lines, cargo).ok
  BY <1>3, <1>4, <1>5
<1>7. ~Unseen(lines)
  BY FormsAreSeen
<1> QED
  BY <1>6, <1>7, DerivedIsShipped

-----------------------------------------------------------------------------
(* The commands, manifests and sources of the run are of this kind.          *)
LEMMA UsualPlain ==
  ASSUME NEW p \in Usual
  PROVE  /\ PlainBuild(p) /\ p.segments[1].features \subseteq {"f1", "f2"}
         /\ \A t \in p.select : t.f \in {"f2", "none"}
<1>1. ASSUME NEW fs \in SUBSET {"f1", "f2"}, NEW d \in BOOLEAN, NEW b \in {{}, Server},
             p = Optioned(fs, d, b)
      PROVE  PlainBuild(p) /\ p.segments[1].features = fs /\ p.select = {}
  BY <1>1 DEF PlainBuild, Optioned, Literal, Program, Build, Cargo, Server
<1>2. ASSUME NEW f \in {"f2", "none"}, NEW x \in BOOLEAN,
             p = Selecting(f, x)
      PROVE  /\ PlainBuild(p) /\ p.segments[1].features = {"f1"}
             /\ \A t \in p.select : t.f \in {"f2", "none"}
  BY <1>2 DEF PlainBuild, Selecting, Program, Build, Cargo, Server
<1>3. \/ \E fs \in SUBSET {"f1", "f2"}, d \in BOOLEAN, b \in {{}, Server} :
           p = Optioned(fs, d, b)
      \/ \E f \in {"f2", "none"}, x \in BOOLEAN :
           p = Selecting(f, x)
  BY DEF Usual
<1> QED
  BY <1>1, <1>2, <1>3

LEMMA CargosDeclare ==
  ASSUME NEW cargo \in Cargos, NEW p \in Usual
  PROVE  /\ IsFiniteSet(DOMAIN cargo.graph)
         /\ Declares(cargo, WithDefault(p, cargo) \cup {"f2"})
<1>1. /\ DOMAIN cargo.graph \in {{"f1", "f2"}, {"f1", "f2", "default"}}
      /\ cargo.tables = 1 /\ cargo.spaced \subseteq {"f2"}
      /\ \A f \in DOMAIN cargo.graph : cargo.graph[f] \subseteq {"f1", "f2", "dep:x", "x/y"}
  BY DEF Cargos, Manifest
<1>2. IsFiniteSet(DOMAIN cargo.graph)
  <2>1. IsFiniteSet({"f1"}) /\ IsFiniteSet({"f2"}) /\ IsFiniteSet({"default"})
    BY FS_Singleton
  <2>2. IsFiniteSet({"f1"} \cup {"f2"})
    BY <2>1, FS_Union
  <2>3. IsFiniteSet(({"f1"} \cup {"f2"}) \cup {"default"})
    BY <2>1, <2>2, FS_Union
  <2>4. {"f1", "f2"} = {"f1"} \cup {"f2"}
        /\ {"f1", "f2", "default"} = ({"f1"} \cup {"f2"}) \cup {"default"}
    OBVIOUS
  <2> QED
    BY <1>1, <2>2, <2>3, <2>4
<1>3. Requested(p, cargo) \subseteq {"f1", "f2"}
  BY <1>1, UsualPlain DEF Requested, Exact
<1>4. WithDefault(p, cargo) \cup {"f2"} \subseteq DOMAIN cargo.graph
  BY <1>1, <1>3 DEF WithDefault
<1> QED
  BY <1>1, <1>2, <1>4 DEF Declares, Elsewhere

LEMMA SourceRead ==
  ASSUME NEW a \in {<<>>, <<"f1">>, <<"f2">>, <<"harmless", "f1">>}, NEW proof, proof.ok
  PROVE  Detect(Conditional(a), proof) # "invalid"
<1> DEFINE elements == <<Element("other", <<>>), Element("cap", a)>>
           source == <<Item("root", <<>>, elements)>>
<1>1. /\ Len(elements) = 2 /\ elements[1].value = "other"
      /\ elements[2].value = "cap" /\ elements[2].attrs = a
  BY DEF Element
<1>2. Cfgs(a) = {} \/ \E k : Cfgs(a) = {k} /\ a[k] # "not f1"
  <2>1. CASE a = <<>>
    BY <2>1 DEF Cfgs
  <2>2. CASE a \in {<<"f1">>, <<"f2">>}
    <3>1. CASE a = <<"f1">>
      <4>1. Cfgs(a) = {1} /\ a[1] # "not f1"
        BY <3>1 DEF Cfgs
      <4> QED
        BY <4>1
    <3>2. CASE a = <<"f2">>
      <4>1. Cfgs(a) = {1} /\ a[1] # "not f1"
        BY <3>2 DEF Cfgs
      <4> QED
        BY <4>1
    <3> QED
      BY <2>2, <3>1, <3>2
  <2>3. CASE a = <<"harmless", "f1">>
    <3>1. Cfgs(a) = {2} /\ a[2] # "not f1"
      BY <2>3 DEF Cfgs
    <3> QED
      BY <3>1
  <2> QED
    BY <2>1, <2>2, <2>3
<1>3. Array(elements, proof) # "invalid"
  <2> HIDE DEF elements
  <2>1. {n \in 1..Len(elements) : elements[n].value = "cap"} = {2}
        /\ \A n \in 1..Len(elements) : elements[n].value # "expression"
    BY <1>1
  <2>2. \A k : ~(Cardinality({k}) > 1)
    <3>1. \A k : Cardinality({k}) = 1
      BY FS_Singleton
    <3> QED
      BY <3>1
  <2>3. CASE Cfgs(a) = {}
    BY <1>1, <2>1, <2>2, <2>3 DEF Array
  <2>4. ASSUME NEW k, Cfgs(a) = {k}, a[k] # "not f1" PROVE Array(elements, proof) # "invalid"
    BY <1>1, <2>1, <2>2, <2>4 DEF Array
  <2> QED
    BY <1>2, <2>3, <2>4
<1>4. /\ Len(source) = 1 /\ source[1].kind = "root" /\ source[1].attrs = <<>>
      /\ source[1].elements = elements /\ Conditional(a) = source
  BY DEF Item, Conditional, Declared
<1> HIDE DEF source, elements
<1>5. {n \in 1..Len(source) : source[n].kind \in {"root", "odd", "nested"}} = {1}
  BY <1>4
<1>6. ~(Cardinality({1}) > 1)
  <2>1. Cardinality({1}) = 1
    BY FS_Singleton
  <2> QED
    BY <2>1
<1>7. Harmless(<<>>) /\ ~ \E n \in 1..Len(source) : source[n].kind = "inner"
  BY <1>4 DEF Harmless
<1>8. Detect(source, proof) = Array(elements, proof)
  BY <1>4, <1>5, <1>6, <1>7 DEF Detect
<1> QED
  BY <1>3, <1>4, <1>8

(* RsCapability: where it is meant to answer, the command answers. *)
THEOREM MarkersRead == ReaderSpec => []MarkerRead
<1>1. ASSUME Said PROVE MarkerRead
  <2> SUFFICES ASSUME answer = "invalid",
                      NEW a \in {<<>>, <<"f1">>, <<"f2">>, <<"harmless", "f1">>},
                      reading.source = Conditional(a),
                      reading.cargo \in Cargos, reading.file \in Canonical
               PROVE  FALSE
    BY DEF MarkerRead
  <2> DEFINE file == reading.file
             cargo == reading.cargo
  <2>1. PICK p \in Usual :
          file \in {OneBuild(p), OneFile(p)}
                     \cup {Among(p, s) : s \in {"front", "copied", "legacy"}}
    BY DEF Canonical
  <2>2. file \in Seq(Instructions)
    BY <1>1, ReadingsAssumption DEF Said
  <2>3. IsFiniteSet(DOMAIN cargo.graph) /\ Declares(cargo, WithDefault(p, cargo) \cup {"f2"})
    BY CargosDeclare
  <2>4. DeriveFeatures(file, cargo).ok
    <3>1. PlainBuild(p)
      BY UsualPlain
    <3> HIDE DEF file, cargo
    <3> QED
      BY <2>1, <2>2, <2>3, <3>1, FormsAreRead
  <2>5. Detect(reading.source, DeriveFeatures(file, cargo)) # "invalid"
    BY <2>4, SourceRead
  <2> QED
    BY <1>1, <2>5 DEF Said, Reads
<1> QED
  BY <1>1, Saying, PTL
================================================================================
