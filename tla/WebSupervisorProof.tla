-------------------------- MODULE WebSupervisorProof --------------------------
(***************************************************************************)
(* Proofs about WebSupervisor, for every set of starts, every set of       *)
(* images and any number of signals: the type invariant, SingleWriter and  *)
(* the refinement of PairLifetime; and what a stop promises, for the       *)
(* signals that do not break it: FrontStopsFirst and JoinedAtExit. Also    *)
(* about its start checks on their own, StartCheck: OneOwner,              *)
(* RollbackStarts and PortsValid.                                          *)
(***************************************************************************)
EXTENDS WebSupervisor, StartCheck, WellFoundedInduction, FiniteSetTheorems, TLAPS

(* A child holds the descriptor exactly while it runs. *)
FdOfChildren == \A s \in Starts, p \in Procs : p \in fd[s] <=> Live(s, p)

(* The script holds it exactly from the lock to its end. *)
FdOfScript == \A s \in Starts : "sup" \in fd[s] <=> main[s] \in Running \ {"lock"}

(* At most one start has the descriptor open anywhere. *)
OneHolder == \A s, t \in Starts : fd[s] # {} /\ fd[t] # {} => s = t

(* A start that is past the gate, or has something left, was let through. *)
Gated == \A s \in Starts : main[s] \in Running \/ fd[s] # {} => StartAllowed(image[s])

LockInv == FdOfChildren /\ FdOfScript /\ OneHolder /\ Gated
IInv == TypeOK /\ LockInv

-----------------------------------------------------------------------------
(* The gate: no image it lets through has a route or store with two owners.  *)
THEOREM GateOneOwner ==
  ASSUME NEW img \in Image, StartAllowed(img)
  PROVE  CoreOwns(img) \cap FrontOwns(img) = {}
<1> SUFFICES ASSUME NEW r, r \in CoreOwns(img), r \in FrontOwns(img)
             PROVE  FALSE
  OBVIOUS
<1> USE PairsAssumption, DistinctFeatures
<1>1. Embedding \notin Pairs /\ Store \notin Pairs /\ Embedding # Store
  BY DEF Singles, Embedding, Store
<1>2. CASE r \in Pairs
  <2>1. r \in img.features
    BY <1>1, <1>2 DEF FrontOwns
  <2>2. r \in img.marks
    BY <1>2, <2>1 DEF StartAllowed, PairAllowed, PairsAgree
  <2>3. r = SourceWork /\ img.worker
    BY <1>1, <1>2, <2>2 DEF CoreOwns
  <2> QED
    BY <2>2, <2>3 DEF StartAllowed, PairAllowed, WorkerRemoved
<1>3. CASE r = Embedding
  <2>1. img.embedding # "owned"
    BY <1>1, <1>3 DEF CoreOwns
  <2>2. img.embedding = "owned"
    BY <1>1, <1>3 DEF FrontOwns
  <2> QED
    BY <2>1, <2>2
<1>4. CASE r = Store
  <2>1. img.client # "canonical" /\ SourceJobs \notin img.marks
    BY <1>1, <1>4 DEF CoreOwns
  <2>2. Store \in img.features \/ SourceJobs \in img.features
    BY <1>1, <1>4 DEF FrontOwns
  <2> QED
    BY <2>1, <2>2 DEF StartAllowed, PairAllowed, SourceJobsAgree, PairsAgree
<1> QED
  BY <1>2, <1>3, <1>4 DEF CoreOwns

(* ... nor one with none: what Core has given away, the front beside it has. *)
LEMMA GateSomeOwner ==
  ASSUME NEW img \in Image, StartAllowed(img)
  PROVE  Routes \subseteq CoreOwns(img) \cup FrontOwns(img)
<1> SUFFICES ASSUME NEW r \in Routes, r \notin CoreOwns(img)
             PROVE  r \in FrontOwns(img)
  OBVIOUS
<1> USE PairsAssumption
<1>1. CASE r \in Pairs
  <2>1. r \in img.marks
    BY <1>1 DEF CoreOwns
  <2>2. r \in img.features
    BY <1>1, <2>1 DEF StartAllowed, PairAllowed, PairsAgree
  <2> QED
    BY <1>1, <2>2 DEF FrontOwns
<1>2. CASE r = Embedding
  <2>1. img.embedding = "owned"
    BY <1>2 DEF CoreOwns
  <2>2. Embedding \in img.features
    BY <2>1 DEF StartAllowed, PairAllowed, EmbeddingAgrees
  <2> QED
    BY <1>2, <2>1, <2>2 DEF FrontOwns
<1>3. CASE r = Store
  <2>1. img.client = "canonical" \/ SourceJobs \in img.marks
    BY <1>3 DEF CoreOwns
  <2>2. Store \in img.features \/ SourceJobs \in img.features
    BY <2>1 DEF StartAllowed, PairAllowed, SourceJobsAgree, PairsAgree
  <2> QED
    BY <1>3, <2>2 DEF FrontOwns
<1> QED
  BY <1>1, <1>2, <1>3 DEF Routes

-----------------------------------------------------------------------------
(* A set of numbers has a least element: what a proof by induction rests on. *)
LEMMA Least ==
  ASSUME NEW T, T \subseteq Nat, T # {}
  PROVE  \E x \in T : \A y \in T : x <= y
<1> DEFINE R == {ss \in Nat \X Nat : ss[1] < ss[2]}
<1>1. IsWellFoundedOn(R, Nat)
  BY NatLessThanWellFounded DEF OpToRel
<1> HIDE DEF R
<1>2. PICK x \in T : \A y \in T : ~ (<<y, x>> \in R)
  BY <1>1, WFMin
<1>3. ASSUME NEW y \in T PROVE x <= y
  <2>1. x \in Nat /\ y \in Nat /\ ~ (<<y, x>> \in R)
    BY <1>2
  <2>2. ~(y < x)
    BY <2>1 DEF R
  <2> QED
    BY <2>1, <2>2
<1> QED
  BY <1>3

(* The number is read digit by digit: read[n] is what the first n name.      *)
Reads(text, base, read) ==
  /\ read \in [0..Len(text) -> Nat]
  /\ read[0] = 0
  /\ \A n \in 1..Len(text) : read[n] = base * read[n - 1] + text[n]

LEMMA NumberRead ==
  ASSUME NEW text \in Seq(Nat), NEW base \in Nat
  PROVE  \E read : Reads(text, base, read) /\ Number(text, base) = read[Len(text)]
<1> DEFINE D == 0..Len(text)
           At(read, n) == IF n = 0 THEN 0 ELSE base * read[n - 1] + text[n]
           Is(read) == read = [n \in D |-> At(read, n)]
           UpTo(n) == {read \in [D -> Nat] : \A k \in D : k <= n => read[k] = At(read, k)}
           Bad == {n \in D : UpTo(n) = {}}
<1>0. Len(text) \in Nat /\ \A n \in 1..Len(text) : text[n] \in Nat
  OBVIOUS
<1>a. \A number, digit \in Nat : base * number + digit \in Nat
  OBVIOUS
<1>1. ASSUME NEW read \in [D -> Nat], NEW n \in D PROVE At(read, n) \in Nat
  <2>1. CASE n = 0
    BY <2>1
  <2>2. CASE n # 0
    <3>1. n - 1 \in D /\ n \in 1..Len(text)
      BY <1>0, <2>2
    <3>2. read[n - 1] \in Nat /\ text[n] \in Nat
      BY <1>0, <3>1
    <3>3. base * read[n - 1] + text[n] \in Nat
      BY <1>a, <3>2
    <3> QED
      BY <2>2, <3>3
  <2> QED
    BY <2>1, <2>2
<1>2. Bad = {}
  <2> SUFFICES ASSUME Bad # {} PROVE FALSE
    OBVIOUS
  <2>1. PICK n \in Bad : \A k \in Bad : n <= k
    <3> Bad \subseteq Nat
      OBVIOUS
    <3> HIDE DEF Bad
    <3> QED
      BY Least
  <2>2. PICK g \in [D -> Nat] : \A k \in D : k < n => g[k] = At(g, k)
    <3>1. CASE n = 0
      <4>1. [k \in D |-> 0] \in [D -> Nat] /\ \A k \in D : ~(k < n)
        BY <1>0, <3>1
      <4> HIDE DEF At
      <4> QED
        BY <4>1
    <3>2. CASE n # 0
      <4>1. n - 1 \in D /\ ~(n <= n - 1)
        BY <1>0, <3>2
      <4>2. n - 1 \notin Bad
        BY <2>1, <4>1
      <4>3. PICK g \in UpTo(n - 1) : TRUE
        BY <4>1, <4>2
      <4>4. \A k \in D : k < n => k <= n - 1
        BY <4>1
      <4> QED
        BY <4>3, <4>4
    <3> QED
      BY <3>1, <3>2
  <2> DEFINE h == [k \in D |-> IF k = n THEN At(g, n) ELSE g[k]]
  <2>3. h \in [D -> Nat]
    BY <1>1
  <2>4. ASSUME NEW k \in D, k <= n PROVE At(h, k) = At(g, k)
    <3>1. k # 0 => k - 1 \in D /\ k - 1 # n
      BY <2>4
    <3> QED
      BY <3>1
  <2>5. \A k \in D : k <= n => h[k] = At(h, k)
    <3> HIDE DEF At
    <3>1. \A k \in D : k <= n /\ k # n => k < n
      OBVIOUS
    <3> QED
      BY <2>2, <2>4, <3>1
  <2> QED
    BY <2>3, <2>5
<1>3. PICK read \in UpTo(Len(text)) : TRUE
  <2>1. Len(text) \in D /\ Len(text) \notin Bad
    <3> HIDE DEF Bad
    <3> QED
      BY <1>0, <1>2
  <2>2. UpTo(Len(text)) # {}
    <3> HIDE DEF UpTo, D
    <3> QED
      BY <2>1
  <2> HIDE DEF UpTo
  <2> QED
    BY <2>2
<1>4. Is(read)
  <2> HIDE DEF At
  <2>1. \A k \in D : read[k] = At(read, k)
    BY <1>0, <1>3
  <2> QED
    BY <1>3, <2>1
<1> DEFINE R == CHOOSE r : Is(r)
<1>5. Is(R)
  <2> HIDE DEF Is
  <2> QED
    BY <1>4
<1>6. Number(text, base) = R[Len(text)]
  BY DEF Number
<1> HIDE DEF R
<1>7. R \in [D -> Nat]
  <2> DEFINE Wrong == {n \in D : R[n] \notin Nat}
  <2>1. \A n \in D : R[n] = At(R, n)
    BY <1>5
  <2>2. Wrong = {}
    <3> SUFFICES ASSUME Wrong # {} PROVE FALSE
      OBVIOUS
    <3>1. PICK n \in Wrong : \A k \in Wrong : n <= k
      <4> Wrong \subseteq Nat
        OBVIOUS
      <4> HIDE DEF Wrong
      <4> QED
        BY Least
    <3>2. n # 0
      BY <2>1
    <3>3. n - 1 \in D /\ ~(n <= n - 1) /\ n \in 1..Len(text)
      BY <1>0, <3>2
    <3>4. R[n - 1] \in Nat
      BY <3>1, <3>3
    <3>5. text[n] \in Nat
      BY <1>0, <3>3
    <3>6. R[n] = base * R[n - 1] + text[n]
      BY <2>1, <3>2
    <3>7. R[n] \in Nat
      <4> HIDE DEF Wrong, At
      <4> QED
        BY <1>a, <3>4, <3>5, <3>6
    <3> QED
      BY <3>7
  <2>3. DOMAIN R = D /\ R = [n \in D |-> R[n]]
    BY <1>5
  <2> QED
    BY <2>2, <2>3
<1>8. Reads(text, base, R)
  <2>1. R[0] = 0 /\ 0 \in D
    BY <1>0, <1>5
  <2>2. ASSUME NEW n \in 1..Len(text) PROVE R[n] = base * R[n - 1] + text[n]
    <3>1. n \in D /\ n # 0
      BY <1>0
    <3>2. R[n] = At(R, n)
      <4> HIDE DEF At
      <4> QED
        BY <1>5, <3>1
    <3> QED
      BY <3>1, <3>2
  <2> QED
    BY <1>7, <2>1, <2>2 DEF Reads
<1> QED
  BY <1>6, <1>8

(* Read as octal, a text of digits never names a greater number.             *)
LEMMA OctalIsLess ==
  ASSUME NEW text \in Seq(Nat)
  PROVE  /\ Number(text, 8) \in Nat /\ Number(text, 10) \in Nat
         /\ Number(text, 8) <= Number(text, 10)
<1>1. PICK octal : Reads(text, 8, octal) /\ Number(text, 8) = octal[Len(text)]
  BY NumberRead
<1>2. PICK decimal : Reads(text, 10, decimal) /\ Number(text, 10) = decimal[Len(text)]
  BY NumberRead
<1> DEFINE D == 0..Len(text)
           Bad == {n \in D : ~(octal[n] <= decimal[n])}
<1>3. Len(text) \in D /\ Len(text) \in Nat /\ \A n \in 1..Len(text) : text[n] \in Nat
  OBVIOUS
<1>4. Bad = {}
  <2> SUFFICES ASSUME Bad # {} PROVE FALSE
    OBVIOUS
  <2>1. PICK n \in Bad : \A k \in Bad : n <= k
    <3> Bad \subseteq Nat
      OBVIOUS
    <3> HIDE DEF Bad
    <3> QED
      BY Least
  <2>2. n # 0
    BY <1>1, <1>2 DEF Reads
  <2>3. n - 1 \in D /\ ~(n <= n - 1) /\ n \in 1..Len(text)
    BY <1>3, <2>2
  <2>4. octal[n - 1] <= decimal[n - 1]
    BY <2>1, <2>3
  <2>5. /\ octal[n] = 8 * octal[n - 1] + text[n] /\ decimal[n] = 10 * decimal[n - 1] + text[n]
        /\ octal[n - 1] \in Nat /\ decimal[n - 1] \in Nat /\ text[n] \in Nat
    BY <1>1, <1>2, <1>3, <2>3 DEF Reads
  <2>6. \A less, more, digit \in Nat : less <= more => 8 * less + digit <= 10 * more + digit
    OBVIOUS
  <2>7. 8 * octal[n - 1] + text[n] <= 10 * decimal[n - 1] + text[n]
    <3> HIDE DEF Bad
    <3> QED
      BY <2>4, <2>5, <2>6
  <2> QED
    BY <2>1, <2>5, <2>7
<1> QED
  BY <1>1, <1>2, <1>3, <1>4 DEF Reads

LEMMA UiPortType ==
  ASSUME NEW text \in Text PROVE UiPort(text) \in Seq(Nat) /\ Len(UiPort(text)) >= 1
  BY DEF Text, UiPort, Letter

(* What the shell adds to a number well inside its word is added to it.      *)
LEMMA WrapSmall ==
  ASSUME NEW n \in Nat, 2 * n < 262144 PROVE Wrap(n) = n
<1>1. ShellWord \in Int /\ ShellWord > 0 /\ n < ShellWord /\ 2 * n < ShellWord
  BY WordAssumption
<1>2. n % ShellWord = n
  BY <1>1
<1> QED
  BY <1>1, <1>2 DEF Wrap

LEMMA PlusSmall ==
  ASSUME NEW text \in Text, Decimal(text) <= 64535
  PROVE  \E shell \in Nat :
           /\ shell <= Decimal(text)
           /\ Plus(text, 1000) = shell + 1000 /\ Plus(text, 2000) = shell + 2000
           /\ ~LeadingZero(text) => shell = Decimal(text)
<1> DEFINE given == UiPort(text)
           shell == Number(given, IF LeadingZero(text) THEN 8 ELSE 10)
<1>1. /\ shell \in Nat /\ shell <= Decimal(text) /\ Decimal(text) \in Nat
      /\ ~LeadingZero(text) => shell = Decimal(text)
  <2>1. /\ Number(given, 8) \in Nat /\ Number(given, 10) \in Nat
        /\ Number(given, 8) <= Number(given, 10)
    BY UiPortType, OctalIsLess
  <2> HIDE DEF given
  <2>2. Decimal(text) = Number(given, 10)
    BY DEF Decimal, given
  <2> QED
    BY <2>1, <2>2
<1>2. \A n : Plus(text, n) = Wrap(shell + n)
  BY DEF Plus
<1> HIDE DEF shell
<1>3. ASSUME NEW n \in {1000, 2000} PROVE Plus(text, n) = shell + n
  <2>1. shell + n \in Nat /\ 2 * (shell + n) < 262144
    BY <1>1
  <2> QED
    BY <1>2, <2>1, WrapSmall
<1> QED
  BY <1>1, <1>3

-----------------------------------------------------------------------------
(* The checks on their own are those of a start. *)
LEMMA SameGate ==
  /\ G!Image = Image /\ G!Routes = Routes /\ G!Guard = Guard /\ G!Store = Store
  /\ \A img :
       /\ G!StartAllowed(img) <=> StartAllowed(img)
       /\ \A p : G!Owns(img, p) = Owns(img, p)
       /\ G!LegacyPort(img) = LegacyPort(img) /\ G!StorePort(img) = StorePort(img)
<1> USE DEF G!Guard, Guard, G!Embedding, Embedding, G!Baseline, Baseline, G!Store, Store,
            G!Claim, Claim
<1>1. G!Image = Image
  BY DEF G!Image, Image, G!Features, Features, G!Singles, Singles, G!Text, Text, G!Letter, Letter
<1>2. G!Routes = Routes
  BY DEF G!Routes, Routes
<1>2a. ASSUME NEW text
       PROVE  /\ G!UiPort(text) = UiPort(text) /\ G!Decimal(text) = Decimal(text)
              /\ \A n : G!Plus(text, n) = Plus(text, n)
  <2>1. G!UiPort(text) = UiPort(text)
    BY DEF G!UiPort, UiPort
  <2>2. \A digits, base : G!Number(digits, base) = Number(digits, base)
    BY DEF G!Number, Number
  <2>3. G!LeadingZero(text) <=> LeadingZero(text)
    BY <2>1 DEF G!LeadingZero, LeadingZero
  <2>4. \A n : G!Wrap(n) = Wrap(n)
    BY DEF G!Wrap, Wrap
  <2>5. G!Decimal(text) = Decimal(text)
    BY <2>1, <2>2 DEF G!Decimal, Decimal
  <2> DEFINE base == IF LeadingZero(text) THEN 8 ELSE 10
  <2>6. \A n : Plus(text, n) = Wrap(Number(UiPort(text), base) + n)
    BY DEF Plus
  <2>7. \A n : G!Plus(text, n) = G!Wrap(G!Number(G!UiPort(text), base) + n)
    BY <2>3 DEF G!Plus
  <2> HIDE DEF base
  <2> QED
    BY <2>1, <2>2, <2>4, <2>5, <2>6, <2>7
<1>3. ASSUME NEW img
      PROVE  /\ G!StartAllowed(img) <=> StartAllowed(img)
             /\ \A p : G!Owns(img, p) = Owns(img, p)
             /\ G!LegacyPort(img) = LegacyPort(img) /\ G!StorePort(img) = StorePort(img)
  <2>1. /\ G!FrontSelected(img) <=> FrontSelected(img)
        /\ G!CodeNetGuarded(img) <=> CodeNetGuarded(img)
        /\ G!RequiredListed(img) <=> RequiredListed(img)
    BY DEF G!FrontSelected, FrontSelected, G!CodeNetGuarded, CodeNetGuarded,
           G!RequiredListed, RequiredListed
  <2>2. /\ G!PairsAgree(img) <=> PairsAgree(img)
        /\ G!EmbeddingAgrees(img) <=> EmbeddingAgrees(img)
        /\ G!BaselineAgrees(img) <=> BaselineAgrees(img)
    BY DEF G!PairsAgree, PairsAgree, G!EmbeddingAgrees, EmbeddingAgrees,
           G!BaselineAgrees, BaselineAgrees
  <2>3. /\ G!SourceJobsAgree(img) <=> SourceJobsAgree(img)
        /\ G!WorkerRemoved(img) <=> WorkerRemoved(img)
        /\ G!ClaimNamed(img) <=> ClaimNamed(img)
    BY DEF G!SourceJobsAgree, SourceJobsAgree, G!WorkerRemoved, WorkerRemoved,
           G!ClaimNamed, ClaimNamed
  <2>4. G!LegacyPort(img) = LegacyPort(img) /\ G!StorePort(img) = StorePort(img)
    BY <1>2a DEF G!LegacyPort, LegacyPort, G!StorePort, StorePort
  <2>5. G!PortsFit(img) <=> PortsFit(img)
    BY <2>4, <1>2a DEF G!PortsFit, PortsFit, G!InRange, InRange, G!ShellReads, ShellReads,
       G!AllDigits, AllDigits, G!Comparable, Comparable, G!LeadingZero, LeadingZero,
       G!Letter, Letter
  <2>6. G!CoreOwns(img) = CoreOwns(img) /\ G!FrontOwns(img) = FrontOwns(img)
    BY DEF G!CoreOwns, CoreOwns, G!FrontOwns, FrontOwns
  <2> QED
    BY <2>1, <2>2, <2>3, <2>4, <2>5, <2>6
       DEF G!StartAllowed, StartAllowed, G!PairAllowed, PairAllowed, G!Owns, Owns
<1> QED
  BY <1>1, <1>2, <1>3

(* The verdict is StartAllowed, of an image of any kind. *)
Decided ==
  /\ asked \in Image /\ started \in {"none", "start", "refuse"}
  /\ started = "start" => StartAllowed(asked)
  /\ started = "refuse" => ~StartAllowed(asked)

LEMMA StartDecided == StartSpec => []Decided
<1>1. StartInit => Decided
  BY SameGate DEF StartInit, Decided
<1>2. Decided /\ [Decide]_startVars => Decided'
  <2> SUFFICES ASSUME Decided, [Decide]_startVars PROVE Decided'
    OBVIOUS
  <2>1. CASE Decide
    <3>1. asked' = asked /\ started' \in {"start", "refuse"}
      BY <2>1 DEF Decide
    <3>2. started' = "start" <=> StartAllowed(asked)
      BY <2>1, SameGate DEF Decide
    <3>3. asked' \in Image /\ (StartAllowed(asked)' <=> StartAllowed(asked))
      BY <3>1 DEF Decided
    <3> QED
      BY <3>1, <3>2, <3>3 DEF Decided
  <2>2. CASE UNCHANGED startVars
    BY <2>2 DEF Decided, startVars
  <2> QED
    BY <2>1, <2>2
<1> QED
  BY <1>1, <1>2, PTL DEF StartSpec

(* A started pair answers every route from exactly one of its halves:       *)
(* neither from both nor from none.                                          *)
THEOREM StartOneOwner == StartSpec => []OneOwner
<1>1. Decided => OneOwner
  <2> SUFFICES ASSUME Decided, started = "start", NEW r \in Routes
               PROVE  Cardinality({p \in {"node", "front"} : r \in Owns(asked, p)}) = 1
    BY SameGate DEF OneOwner
  <2> DEFINE owners == {p \in {"node", "front"} : r \in Owns(asked, p)}
  <2>1. /\ CoreOwns(asked) \cap FrontOwns(asked) = {}
        /\ r \in CoreOwns(asked) \cup FrontOwns(asked)
    BY GateOneOwner, GateSomeOwner DEF Decided
  <2>2. "node" \in owners <=> r \in CoreOwns(asked)
    BY DEF Owns
  <2>3. "front" \in owners <=> r \in FrontOwns(asked)
    BY DEF Owns
  <2>4. owners = {"node"} \/ owners = {"front"}
    BY <2>1, <2>2, <2>3
  <2> QED
    BY <2>4, FS_Singleton
<1> QED
  BY <1>1, StartDecided, PTL

(* No check refuses a front that only adds one-way capabilities to a Core    *)
(* that gave nothing away: the image of the rollback starts.                 *)
THEOREM RollbackIsStarted == StartSpec => []RollbackStarts
<1>1. Decided => RollbackStarts
  <2> SUFFICES ASSUME Decided, started = "refuse",
                      asked.front = "rust", asked.bin = "absolute",
                      AllDigits(asked.port), ~LeadingZero(asked.port),
                      1 <= Decimal(asked.port), Decimal(asked.port) <= 63535,
                      asked.marks = {}, asked.embedding = "absent", asked.client = "absent",
                      Required \cup {Guard} \subseteq asked.features,
                      asked.features \cap (Pairs \cup {Store}) = {}
               PROVE  FALSE
    BY SameGate DEF RollbackStarts
  <2>1. FrontSelected(asked) /\ CodeNetGuarded(asked) /\ RequiredListed(asked)
    BY DEF FrontSelected, CodeNetGuarded, RequiredListed
  <2>2. PairsAgree(asked) /\ EmbeddingAgrees(asked) /\ BaselineAgrees(asked)
    BY DEF PairsAgree, EmbeddingAgrees, BaselineAgrees
  <2>3. SourceJobsAgree(asked) /\ WorkerRemoved(asked) /\ ClaimNamed(asked)
    BY DEF SourceJobsAgree, WorkerRemoved, ClaimNamed
  <2>4. PortsFit(asked)
    <3>1. asked.port \in Text
      BY DEF Decided, Image
    <3>2. Decimal(asked.port) \in Nat /\ Decimal(asked.port) <= 64535
      BY <3>1, UiPortType, OctalIsLess DEF Decimal
    <3>3. Plus(asked.port, 2000) = Decimal(asked.port) + 2000
      BY <3>1, <3>2, PlusSmall
    <3> QED
      BY <3>2, <3>3 DEF PortsFit, InRange, ShellReads, StorePort
  <2> QED
    BY <2>1, <2>2, <2>3, <2>4 DEF Decided, StartAllowed, PairAllowed
<1> QED
  BY <1>1, StartDecided, PTL

(* The ports of a started pair are valid, and distinct as far as a leading   *)
(* zero lets them be, for every UI_PORT the shell can compare.               *)
THEOREM StartPorts == StartSpec => []PortsValid
<1>1. Decided => PortsValid
  <2> SUFFICES ASSUME Decided, started = "start", Comparable(asked.port) PROVE PortsValid
    BY DEF PortsValid
  <2> DEFINE n == Decimal(asked.port)
             legacy == Plus(asked.port, 1000)
             store == Plus(asked.port, 2000)
             ports == {n, legacy, store}
  <2>1. asked.port \in Text /\ PortsFit(asked)
    BY DEF Decided, StartAllowed, Image
  <2>2. n \in Nat /\ 1 <= n /\ n <= 64535 /\ store <= 65535
    BY <2>1, UiPortType, OctalIsLess DEF Decimal, PortsFit, InRange, StorePort
  <2>3. PICK shell \in Nat :
          /\ shell <= n /\ legacy = shell + 1000 /\ store = shell + 2000
          /\ ~LeadingZero(asked.port) => shell = n
    BY <2>1, <2>2, PlusSmall
  <2>4. legacy # store
    BY <2>3
  <2> HIDE DEF n, legacy, store
  <2>5. \A m \in ports : 1 <= m /\ m <= 65535
    BY <2>2, <2>3, <2>4
  <2>6. ASSUME ~LeadingZero(asked.port) PROVE Cardinality(ports) = 3
    <3>1. n # legacy /\ store \notin {n, legacy}
      BY <2>2, <2>3, <2>6
    <3> DEFINE two == {n} \cup {legacy}
    <3>2. Cardinality({n}) = 1 /\ IsFiniteSet({n})
      BY FS_Singleton
    <3>3. Cardinality(two) = 2 /\ IsFiniteSet(two)
      BY <3>1, <3>2, FS_AddElement
    <3>4. Cardinality(two \cup {store}) = 3
      BY <3>1, <3>3, FS_AddElement
    <3>5. ports = two \cup {store}
      OBVIOUS
    <3> QED
      BY <3>4, <3>5
  <2> QED
    BY <2>4, <2>5, <2>6, SameGate DEF PortsValid, LegacyPort, StorePort, n, legacy, store
<1> QED
  BY <1>1, StartDecided, PTL

-----------------------------------------------------------------------------
LEMMA InitInv == Init => IInv
<1> SUFFICES ASSUME Init PROVE IInv
  OBVIOUS
<1> USE DEF Init
<1>1. TypeOK
  BY MaxSignalsAssumption
     DEF TypeOK, Phases, Bodies, NoCode, Procs
<1>2. LockInv
  BY DEF LockInv, FdOfChildren, FdOfScript, OneHolder, Gated, Live, Alive,
         Procs, Running, Trapped, Launching
<1> QED
  BY <1>1, <1>2 DEF IInv

LEMMA FdMinus ==
  ASSUME TypeOK, NEW s \in Starts, NEW X
  PROVE  [fd EXCEPT ![s] = @ \ X] \in [Starts -> SUBSET (Procs \cup {"sup"})]
<1> DEFINE f == fd
<1>1. f \in [Starts -> SUBSET (Procs \cup {"sup"})]
  BY DEF TypeOK
<1>2. f[s] \ X \in SUBSET (Procs \cup {"sup"})
  BY <1>1
<1> HIDE DEF f
<1>3. [f EXCEPT ![s] = @ \ X] \in [Starts -> SUBSET (Procs \cup {"sup"})]
  BY <1>1, <1>2
<1> QED
  BY <1>3 DEF f

LEMMA EnterStopTypes ==
  ASSUME TypeOK, NEW s \in Starts, EnterStop(s)
  PROVE  body' \in [Starts -> Bodies] /\ stopping' \in [Starts -> BOOLEAN]
<1>1. CASE stopping[s]
  BY <1>1 DEF TypeOK, EnterStop
<1>2. CASE ~stopping[s]
  <2> DEFINE b == IF "front" \in pid[s] THEN "term" ELSE "core"
  <2>1. b \in Bodies
    BY DEF Bodies
  <2>2. body' = [body EXCEPT ![s] = b] /\ stopping' = [stopping EXCEPT ![s] = TRUE]
    BY <1>2 DEF EnterStop
  <2> HIDE DEF b
  <2> QED
    BY <2>1, <2>2 DEF TypeOK
<1> QED
  BY <1>1, <1>2

LEMMA RefusedStatus == \A img : RefusedWith(img) \in {1, 2}
  BY DEF RefusedWith

(* Every step keeps the types. *)
LEMMA TypeStep ==
  ASSUME TypeOK, [Next]_vars
  PROVE  TypeOK'
<1> USE MaxSignalsAssumption
        DEF TypeOK, Procs, Phases, Bodies, NoCode, Running, Trapped, Launching,
            control, AtLine, GoTo, End, Body, Kill, Live, Alive
<1>1. ASSUME NEW s \in Starts, Boot(s) PROVE TypeOK'
  <2>1. CASE GoTo(s, "lock") /\ UNCHANGED <<body, code, fd>>
    BY <1>1, <2>1 DEF Boot
  <2>2. CASE End(s, RefusedWith(image[s]))
    BY <1>1, <2>2, FdMinus, RefusedStatus DEF Boot
  <2> QED
    BY <1>1, <2>1, <2>2 DEF Boot
<1>2. ASSUME NEW s \in Starts, TryLock(s) PROVE TypeOK'
  <2>1. CASE End(s, 2)
    BY <1>2, <2>1, FdMinus DEF TryLock
  <2>2. CASE fd' = [fd EXCEPT ![s] = {"sup"}] /\ GoTo(s, "locked") /\ UNCHANGED <<body, code>>
    BY <1>2, <2>2 DEF TryLock
  <2> QED
    BY <1>2, <2>1, <2>2 DEF TryLock
<1>3. ASSUME NEW s \in Starts, InstallTrap(s) PROVE TypeOK'
  BY <1>3 DEF InstallTrap
<1>4. ASSUME NEW s \in Starts, Launch(s) PROVE TypeOK'
  <2>1. CASE Fork(s, "node", "forkNode", "recNode")
    BY <2>1 DEF Fork
  <2>2. CASE Record(s, "node", "recNode", "forkFront")
    BY <2>2 DEF Record
  <2>3. CASE Fork(s, "front", "forkFront", "recFront")
    BY <2>3 DEF Fork
  <2>4. CASE Record(s, "front", "recFront", "waitAny")
    BY <2>4 DEF Record
  <2> QED
    BY <1>4, <2>1, <2>2, <2>3, <2>4 DEF Launch
<1>5. ASSUME NEW s \in Starts, WaitAny(s) PROVE TypeOK'
  BY <1>5 DEF WaitAny
<1>6. ASSUME NEW s \in Starts, CallStop(s) PROVE TypeOK'
  <2>1. main' \in [Starts -> Phases]
    BY <1>6 DEF CallStop
  <2> QED
    BY <1>6, <2>1, EnterStopTypes DEF CallStop
<1>7. ASSUME NEW s \in Starts, WaitBoth(s) PROVE TypeOK'
  BY <1>7 DEF WaitBoth, WaitFor
<1>8. ASSUME NEW s \in Starts, Exit(s) PROVE TypeOK'
  BY <1>8, FdMinus DEF Exit
<1>9. ASSUME NEW s \in Starts, Stop(s) PROVE TypeOK'
  <2>1. CASE TermFront(s)
    BY <2>1 DEF TermFront
  <2>2. CASE PollFront(s)
    BY <2>2 DEF PollFront
  <2>3. CASE FrontDeadline(s)
    BY <2>3 DEF FrontDeadline
  <2>4. CASE JoinFront(s)
    BY <2>4 DEF JoinFront
  <2>5. CASE TermCore(s)
    BY <2>5 DEF TermCore
  <2> QED
    BY <1>9, <2>1, <2>2, <2>3, <2>4, <2>5 DEF Stop
<1>10. ASSUME NEW s \in Starts, Signal(s) PROVE TypeOK'
  <2>1. main' \in [Starts -> Phases]
    BY <1>10 DEF Signal, AfterWait
  <2>2. body' \in [Starts -> Bodies] /\ stopping' \in [Starts -> BOOLEAN]
    BY <1>10, EnterStopTypes DEF Signal
  <2>3. signals' \in [Starts -> 0..MaxSignals]
    BY <1>10 DEF Signal
  <2> QED
    BY <1>10, <2>1, <2>2, <2>3 DEF Signal
<1>11. ASSUME NEW s \in Starts, Die(s) PROVE TypeOK'
  BY <1>11, FdMinus DEF Die
<1>12. ASSUME NEW s \in Starts, NEW p \in Procs, ChildExit(s, p) PROVE TypeOK'
  BY <1>12, FdMinus DEF ChildExit
<1>13. CASE UNCHANGED vars
  BY <1>13 DEF vars
<1> QED
  BY <1>1, <1>2, <1>3, <1>4, <1>5, <1>6, <1>7, <1>8, <1>9, <1>10, <1>11, <1>12,
     <1>13 DEF Next, Script

-----------------------------------------------------------------------------
(* Kept folded where only the domain of fd matters. *)
Holding == SUBSET (Procs \cup {"sup"})

LEMMA FdType == TypeOK => fd \in [Starts -> Holding]
BY DEF TypeOK, Holding

(* A step that leaves the descriptors, the life of the children and the      *)
(* place of the main line with respect to the lock as they were.             *)
LEMMA QuietStep ==
  ASSUME LockInv, image' = image, fd' = fd,
         \A s \in Starts, p \in Procs : Live(s, p)' <=> Live(s, p),
         \A s \in Starts : main'[s] \in Running <=> main[s] \in Running,
         \A s \in Starts : main'[s] = "lock" <=> main[s] = "lock"
  PROVE  LockInv'
BY DEF LockInv, FdOfChildren, FdOfScript, OneHolder, Gated

(* The script ends, in whatever way; its children may still hold the lock.   *)
LEMMA EndStep ==
  ASSUME TypeOK, LockInv, NEW s \in Starts, NEW c, End(s, c), UNCHANGED <<image, proc>>
  PROVE  LockInv'
<1>1. \A t \in Starts : fd'[t] = IF t = s THEN fd[t] \ {"sup"} ELSE fd[t]
  BY FdType DEF End
<1>2. \A t \in Starts : main'[t] = IF t = s THEN "gone" ELSE main[t]
  BY DEF End, GoTo, TypeOK
<1>3. FdOfChildren'
  BY <1>1 DEF LockInv, FdOfChildren, Live, Procs
<1>4. FdOfScript'
  BY <1>1, <1>2 DEF LockInv, FdOfScript, Running, Trapped, Launching
<1>5. OneHolder'
  BY <1>1 DEF LockInv, OneHolder
<1>6. Gated'
  BY <1>1, <1>2 DEF LockInv, Gated, Running, Trapped, Launching
<1> QED
  BY <1>3, <1>4, <1>5, <1>6 DEF LockInv

LEMMA BootLock ==
  ASSUME IInv, NEW s \in Starts, Boot(s)
  PROVE  LockInv'
<1>1. CASE End(s, RefusedWith(image[s]))
  BY <1>1, EndStep DEF Boot, IInv
<1>2. CASE StartAllowed(image[s]) /\ GoTo(s, "lock") /\ UNCHANGED <<body, code, fd>>
  <2>1. \A t \in Starts : main'[t] = IF t = s THEN "lock" ELSE main[t]
    BY <1>2 DEF GoTo, IInv, TypeOK
  <2>2. UNCHANGED <<image, fd, proc>> /\ main[s] = "off"
    BY <1>2 DEF Boot
  <2>3. FdOfScript'
    BY <2>1, <2>2 DEF IInv, LockInv, FdOfScript, Running, Trapped, Launching
  <2>4. Gated'
    BY <1>2, <2>1, <2>2 DEF IInv, LockInv, Gated
  <2> QED
    BY <2>2, <2>3, <2>4 DEF IInv, LockInv, FdOfChildren, OneHolder, Live
<1> QED
  BY <1>1, <1>2 DEF Boot

(* Taking the lock: nobody else has it, and nothing of this start runs yet.  *)
LEMMA TryLockLock ==
  ASSUME IInv, NEW s \in Starts, TryLock(s)
  PROVE  LockInv'
<1>1. CASE End(s, 2)
  BY <1>1, EndStep DEF TryLock, IInv
<1>2. CASE /\ \A t \in Starts : fd[t] = {}
           /\ fd' = [fd EXCEPT ![s] = {"sup"}]
           /\ GoTo(s, "locked")
  <2>1. \A t \in Starts : main'[t] = IF t = s THEN "locked" ELSE main[t]
    BY <1>2 DEF GoTo, IInv, TypeOK
  <2>2. \A t \in Starts : fd'[t] = IF t = s THEN {"sup"} ELSE {}
    BY <1>2, FdType DEF IInv
  <2>3. UNCHANGED <<image, proc>> /\ main[s] = "lock"
    BY DEF TryLock, AtLine
  <2>4. FdOfChildren'
    BY <1>2, <2>2, <2>3 DEF IInv, LockInv, FdOfChildren, Live, Procs
  <2>5. FdOfScript'
    BY <1>2, <2>1, <2>2 DEF IInv, LockInv, FdOfScript, Running
  <2>6. OneHolder'
    BY <2>2 DEF OneHolder
  <2>7. Gated'
    BY <1>2, <2>1, <2>2, <2>3 DEF IInv, LockInv, Gated, Running
  <2> QED
    BY <2>4, <2>5, <2>6, <2>7 DEF LockInv
<1> QED
  BY <1>1, <1>2 DEF TryLock

(* A child inherits the descriptor of the script that launches it. *)
LEMMA ForkLock ==
  ASSUME IInv, NEW s \in Starts, NEW p \in Procs, NEW from, NEW to \in Running \ {"lock"},
         from \in Running \ {"lock"}, Fork(s, p, from, to)
  PROVE  LockInv'
<1>1. \A t \in Starts : main'[t] = IF t = s THEN to ELSE main[t]
  BY DEF Fork, GoTo, IInv, TypeOK
<1>2. \A t \in Starts : fd'[t] = IF t = s THEN fd[t] \cup {p} ELSE fd[t]
  BY FdType DEF Fork, IInv
<1>3. \A t \in Starts, q \in Procs :
        proc'[t][q] = IF t = s /\ q = p THEN "up" ELSE proc[t][q]
  BY DEF Fork, IInv, TypeOK
<1>4. main[s] = from /\ image' = image
  BY DEF Fork, AtLine, control
<1>5. "sup" \in fd[s]
  BY <1>4 DEF IInv, LockInv, FdOfScript
<1>6. FdOfChildren'
  <2> SUFFICES ASSUME NEW t \in Starts, NEW q \in Procs
               PROVE  q \in fd'[t] <=> Alive(proc'[t][q])
    BY DEF FdOfChildren, Live, Alive
  <2>1. q \in fd[t] <=> Alive(proc[t][q])
    BY DEF IInv, LockInv, FdOfChildren, Live
  <2> QED
    BY <1>2, <1>3, <2>1 DEF Alive
<1>7. FdOfScript'
  BY <1>1, <1>2, <1>4, <1>5 DEF IInv, LockInv, FdOfScript, Procs
<1>8. OneHolder'
  BY <1>2, <1>5 DEF IInv, LockInv, OneHolder
<1>9. Gated'
  BY <1>1, <1>2, <1>4, <1>5 DEF IInv, LockInv, Gated
<1> QED
  BY <1>6, <1>7, <1>8, <1>9 DEF LockInv

(* A child that ends closes its copy. *)
LEMMA ChildExitLock ==
  ASSUME IInv, NEW s \in Starts, NEW p \in Procs, ChildExit(s, p)
  PROVE  LockInv'
<1>1. \A t \in Starts : fd'[t] = IF t = s THEN fd[t] \ {p} ELSE fd[t]
  BY FdType DEF ChildExit, IInv
<1>2. \A t \in Starts, q \in Procs :
        proc'[t][q] = IF t = s /\ q = p THEN "dead" ELSE proc[t][q]
  BY DEF ChildExit, IInv, TypeOK
<1>3. main' = main /\ image' = image
  BY DEF ChildExit, control
<1>4. FdOfChildren'
  <2> SUFFICES ASSUME NEW t \in Starts, NEW q \in Procs
               PROVE  q \in fd'[t] <=> Alive(proc'[t][q])
    BY DEF FdOfChildren, Live, Alive
  <2>1. q \in fd[t] <=> Alive(proc[t][q])
    BY DEF IInv, LockInv, FdOfChildren, Live
  <2> QED
    BY <1>1, <1>2, <2>1 DEF Alive
<1>5. FdOfScript'
  BY <1>1, <1>3 DEF IInv, LockInv, FdOfScript, Procs
<1>6. OneHolder'
  BY <1>1 DEF IInv, LockInv, OneHolder
<1>7. Gated'
  BY <1>1, <1>3 DEF IInv, LockInv, Gated
<1> QED
  BY <1>4, <1>5, <1>6, <1>7 DEF LockInv

(* A signal sent to a child neither ends it nor brings it to life. *)
LEMMA KillLives ==
  ASSUME TypeOK, NEW s \in Starts, NEW p \in Procs, NEW sig \in {"termed", "killed"},
         Kill(s, p, sig)
  PROVE  \A t \in Starts, q \in Procs : Live(t, q)' <=> Live(t, q)
BY DEF TypeOK, Kill, Live, Alive

(* The main line moves among the phases between the lock and the end. *)
LEMMA MoveStep ==
  ASSUME IInv, NEW s \in Starts, NEW to \in Running \ {"lock"},
         main[s] \in Running \ {"lock"}, GoTo(s, to), UNCHANGED <<image, fd, proc>>
  PROVE  LockInv'
<1>1. \A t \in Starts : main'[t] = IF t = s THEN to ELSE main[t]
  BY DEF GoTo, IInv, TypeOK
<1>2. \A t \in Starts, p \in Procs : Live(t, p)' <=> Live(t, p)
  BY DEF Live
<1> QED
  BY <1>1, <1>2, QuietStep DEF IInv

LEMMA LockStep ==
  ASSUME IInv, [Next]_vars
  PROVE  LockInv'
<1> USE DEF Running, Trapped, Launching
<1>1. ASSUME NEW s \in Starts, Boot(s) PROVE LockInv'
  BY <1>1, BootLock
<1>2. ASSUME NEW s \in Starts, TryLock(s) PROVE LockInv'
  BY <1>2, TryLockLock
<1>3. ASSUME NEW s \in Starts, InstallTrap(s) PROVE LockInv'
  BY <1>3, MoveStep DEF InstallTrap, AtLine, control
<1>4. ASSUME NEW s \in Starts, Launch(s) PROVE LockInv'
  <2>1. CASE Fork(s, "node", "forkNode", "recNode")
    BY <2>1, ForkLock DEF Procs
  <2>2. CASE Record(s, "node", "recNode", "forkFront")
    BY <2>2, MoveStep DEF Record, AtLine, control
  <2>3. CASE Fork(s, "front", "forkFront", "recFront")
    BY <2>3, ForkLock DEF Procs
  <2>4. CASE Record(s, "front", "recFront", "waitAny")
    BY <2>4, MoveStep DEF Record, AtLine, control
  <2> QED
    BY <1>4, <2>1, <2>2, <2>3, <2>4 DEF Launch
<1>5. ASSUME NEW s \in Starts, WaitAny(s) PROVE LockInv'
  BY <1>5, MoveStep DEF WaitAny, AtLine, control
<1>6. ASSUME NEW s \in Starts, CallStop(s) PROVE LockInv'
  <2>1. CASE stopping[s]
    BY <1>6, <2>1, MoveStep DEF CallStop, AtLine, control
  <2>2. CASE ~stopping[s]
    BY <1>6, <2>2, QuietStep DEF CallStop, control, IInv, Live
  <2> QED
    BY <2>1, <2>2
<1>7. ASSUME NEW s \in Starts, WaitBoth(s) PROVE LockInv'
  BY <1>7, MoveStep DEF WaitBoth, WaitFor, AtLine, control
<1>8. ASSUME NEW s \in Starts, Exit(s) PROVE LockInv'
  BY <1>8, EndStep DEF Exit, IInv
<1>9. ASSUME NEW s \in Starts, Stop(s) PROVE LockInv'
  <2>1. UNCHANGED <<image, main, fd>>
    BY <1>9 DEF Stop, TermFront, PollFront, FrontDeadline, JoinFront, TermCore, control
  <2>2. \/ UNCHANGED proc
        \/ \E p \in Procs, sig \in {"termed", "killed"} : Kill(s, p, sig)
    BY <1>9 DEF Stop, TermFront, PollFront, FrontDeadline, JoinFront, TermCore, Procs
  <2>3. \A t \in Starts, p \in Procs : Live(t, p)' <=> Live(t, p)
    <3>1. CASE UNCHANGED proc
      BY <3>1 DEF Live
    <3>2. CASE \E p \in Procs, sig \in {"termed", "killed"} : Kill(s, p, sig)
      BY <3>2, KillLives DEF IInv
    <3> QED
      BY <2>2, <3>1, <3>2
  <2> QED
    BY <2>1, <2>3, QuietStep DEF IInv
<1>10. ASSUME NEW s \in Starts, Signal(s) PROVE LockInv'
  <2>1. UNCHANGED <<image, fd, proc>>
    BY <1>10 DEF Signal, control
  <2>2. CASE UNCHANGED main
    BY <2>1, <2>2, QuietStep DEF IInv, Live
  <2>3. CASE \E next \in {main[s], AfterWait(main[s])} : GoTo(s, next)
    <3>1. main[s] \in Trapped /\ AfterWait(main[s]) \in Trapped
      BY <1>10 DEF Signal, AfterWait
    <3> QED
      BY <2>1, <2>3, <3>1, MoveStep
  <2> QED
    BY <1>10, <2>2, <2>3 DEF Signal
<1>11. ASSUME NEW s \in Starts, Die(s) PROVE LockInv'
  BY <1>11, EndStep DEF Die, IInv
<1>12. ASSUME NEW s \in Starts, NEW p \in Procs, ChildExit(s, p) PROVE LockInv'
  BY <1>12, ChildExitLock
<1>13. CASE UNCHANGED vars
  BY <1>13, QuietStep DEF vars, IInv, Live
<1> QED
  BY <1>1, <1>2, <1>3, <1>4, <1>5, <1>6, <1>7, <1>8, <1>9, <1>10, <1>11, <1>12,
     <1>13 DEF Next, Script

-----------------------------------------------------------------------------
(* The type invariant and the invariant of the lock hold of every start of   *)
(* build/web-supervisor.sh over one data directory.                          *)
THEOREM Invariant == Spec => []IInv
<1>1. Init => IInv
  BY InitInv
<1>2. IInv /\ [Next]_vars => IInv'
  BY TypeStep, LockStep DEF IInv
<1> QED
  BY <1>1, <1>2, PTL DEF Spec

(* Types of the supervisor's variables. *)
THEOREM TypeCorrect == Spec => []TypeOK
BY Invariant, PTL DEF IInv

(* A route or a store never has two owning processes: the lock keeps the     *)
(* live processes within one start, and the gate divides the routes there.   *)
THEOREM OneWriter == Spec => []SingleWriter
<1>1. IInv => SingleWriter
  <2> SUFFICES ASSUME IInv, NEW s \in Starts, NEW t \in Starts, NEW p \in Procs, NEW q \in Procs,
                      Live(s, p), Live(t, q), <<s, p>> # <<t, q>>
               PROVE  Owns(image[s], p) \cap Owns(image[t], q) = {}
    BY DEF SingleWriter
  <2>1. p \in fd[s] /\ q \in fd[t]
    BY DEF IInv, LockInv, FdOfChildren
  <2>2. s = t
    BY <2>1 DEF IInv, LockInv, OneHolder
  <2>3. image[s] \in Image /\ StartAllowed(image[s])
    BY <2>1, ImagesAssumption DEF IInv, TypeOK, LockInv, Gated
  <2>4. CoreOwns(image[s]) \cap FrontOwns(image[s]) = {}
    BY <2>3, GateOneOwner
  <2>5. (p = "node" /\ q = "front") \/ (p = "front" /\ q = "node")
    BY <2>2 DEF Procs
  <2> QED
    BY <2>2, <2>4, <2>5 DEF Owns
<1> QED
  BY <1>1, Invariant, PTL

-----------------------------------------------------------------------------
(* stop() of one start, from its main line m, the call b of stop(), whether  *)
(* it was ever called (st), the signals sg it has had, the stored pids p and *)
(* the states of node (n) and front (f). Once the front may run, Core is     *)
(* TERMed only by a call that has joined the front, or that was made because *)
(* one of the two had ended: a second signal would cut the join short.       *)
Orderly(m, b, st, sg, p, n, f) ==
  /\ m \in {"off", "lock", "locked", "forkFront", "recFront", "gone"} => b = "none"
  /\ m \in {"off", "lock", "locked", "forkNode", "recNode"} => "node" \notin p
  /\ m \in {"off", "lock", "locked"} \cup Launching => n # "termed"
  /\ m \in {"waitAny", "stop"} => "front" \in p
  /\ m \in {"waitNode", "waitFront", "exit"} => st /\ b = "none"
  /\ b = "core" => m \in {"forkNode", "recNode"} \/ ~Alive(f) \/ ~Alive(n)
  /\ b # "none" /\ sg = 0 => m = "stop"
  /\ m = "stop" /\ sg = 0 => ~Alive(f) \/ ~Alive(n)
  /\ n = "termed" => ~Alive(f)

StopInv ==
  \A s \in Starts :
    Orderly(main[s], body[s], stopping[s], signals[s], pid[s], proc[s]["node"], proc[s]["front"])

LEMMA StopStep ==
  ASSUME TypeOK, StopInv, [Next]_vars,
         SignalPhases \cap {"forkFront", "recFront"} = {}, MaxSignals <= 1
  PROVE  StopInv'
<1> USE MaxSignalsAssumption
        DEF TypeOK, Procs, Phases, Bodies, NoCode, Running, Trapped, Launching,
            control, AtLine, GoTo, End, Body, Kill, Live, Alive, StopInv, Orderly
<1>1. ASSUME NEW s \in Starts, Boot(s) PROVE StopInv'
  BY <1>1 DEF Boot
<1>2. ASSUME NEW s \in Starts, TryLock(s) PROVE StopInv'
  BY <1>2 DEF TryLock
<1>3. ASSUME NEW s \in Starts, InstallTrap(s) PROVE StopInv'
  BY <1>3 DEF InstallTrap
<1>4. ASSUME NEW s \in Starts, Launch(s) PROVE StopInv'
  <2>1. CASE Fork(s, "node", "forkNode", "recNode")
    BY <2>1 DEF Fork
  <2>2. CASE Record(s, "node", "recNode", "forkFront")
    BY <2>2 DEF Record
  <2>3. CASE Fork(s, "front", "forkFront", "recFront")
    BY <2>3 DEF Fork
  <2>4. CASE Record(s, "front", "recFront", "waitAny")
    BY <2>4 DEF Record
  <2> QED
    BY <1>4, <2>1, <2>2, <2>3, <2>4 DEF Launch
<1>5. ASSUME NEW s \in Starts, WaitAny(s) PROVE StopInv'
  BY <1>5 DEF WaitAny
<1>6. ASSUME NEW s \in Starts, CallStop(s) PROVE StopInv'
  BY <1>6 DEF CallStop, EnterStop
<1>7. ASSUME NEW s \in Starts, WaitBoth(s) PROVE StopInv'
  BY <1>7 DEF WaitBoth, WaitFor
<1>8. ASSUME NEW s \in Starts, Exit(s) PROVE StopInv'
  BY <1>8 DEF Exit
<1>9. ASSUME NEW s \in Starts, Stop(s) PROVE StopInv'
  <2>1. CASE TermFront(s)
    BY <2>1 DEF TermFront
  <2>2. CASE PollFront(s)
    BY <2>2 DEF PollFront
  <2>3. CASE FrontDeadline(s)
    BY <2>3 DEF FrontDeadline
  <2>4. CASE JoinFront(s)
    BY <2>4 DEF JoinFront
  <2>5. CASE TermCore(s)
    BY <2>5 DEF TermCore
  <2> QED
    BY <1>9, <2>1, <2>2, <2>3, <2>4, <2>5 DEF Stop
<1>10. ASSUME NEW s \in Starts, Signal(s) PROVE StopInv'
  <2>1. /\ main[s] \in Trapped \ {"forkFront", "recFront"}
        /\ UNCHANGED <<pid, proc>>
    BY <1>10 DEF Signal
  <2>4. signals[s] = 0 /\ signals' = [signals EXCEPT ![s] = signals[s] + 1]
    <3>1. signals[s] \in 0..MaxSignals
      BY DEF TypeOK
    <3>2. signals[s] < MaxSignals /\ signals' = [signals EXCEPT ![s] = @ + 1]
      BY <1>10 DEF Signal
    <3>3. \A k \in 0..MaxSignals : k < MaxSignals => k = 0
      BY SMT, MaxSignalsAssumption
    <3> QED
      BY <3>1, <3>2, <3>3
  <2>2. CASE body[s] # "none"
    <3>1. /\ body' = [body EXCEPT ![s] = IF @ = "join" THEN "core" ELSE @]
          /\ UNCHANGED <<main, stopping>>
      BY <1>10, <2>2 DEF Signal
    <3> QED
      BY <2>1, <2>2, <2>4, <3>1
  <2>3. CASE body[s] = "none"
    <3>1. /\ EnterStop(s)
          /\ \E to \in {main[s], AfterWait(main[s])} : main' = [main EXCEPT ![s] = to]
      BY <1>10, <2>3 DEF Signal
    <3>2. CASE stopping[s]
      <4>1. UNCHANGED <<body, stopping>>
        BY <3>1, <3>2 DEF EnterStop
      <4> QED
        BY <2>1, <2>3, <2>4, <3>1, <3>2, <4>1 DEF AfterWait
    <3>3. CASE ~stopping[s]
      <4>1. /\ stopping' = [stopping EXCEPT ![s] = TRUE]
            /\ body' = [body EXCEPT ![s] = IF "front" \in pid[s] THEN "term" ELSE "core"]
        BY <3>1, <3>3 DEF EnterStop
      <4>2. main[s] \in {"forkNode", "recNode", "waitAny", "stop"}
        BY <2>1, <3>3
      <4> QED
        BY <2>1, <2>3, <2>4, <3>1, <4>1, <4>2 DEF AfterWait
    <3> QED
      BY <3>2, <3>3
  <2> QED
    BY <2>2, <2>3
<1>11. ASSUME NEW s \in Starts, Die(s) PROVE StopInv'
  BY <1>11 DEF Die
<1>12. ASSUME NEW s \in Starts, NEW p \in Procs, ChildExit(s, p) PROVE StopInv'
  BY <1>12 DEF ChildExit
<1>13. CASE UNCHANGED vars
  BY <1>13 DEF vars
<1> QED
  BY <1>1, <1>2, <1>3, <1>4, <1>5, <1>6, <1>7, <1>8, <1>9, <1>10, <1>11, <1>12,
     <1>13 DEF Next, Script

(* What the two waits have seen: m, n, f as above, c the exit status.        *)
Joined(m, n, f, c) ==
  /\ m \in {"waitFront", "exit"} => ~Alive(n)
  /\ m = "exit" => ~Alive(f)
  /\ c # NoCode => m = "gone"
  /\ c \in {0, 1} \/ m = "off" => ~Alive(n) /\ ~Alive(f)

JoinInv == \A s \in Starts : Joined(main[s], proc[s]["node"], proc[s]["front"], code[s])

LEMMA JoinStep ==
  ASSUME TypeOK, JoinInv, [Next]_vars, SignalPhases \cap {"waitNode", "waitFront"} = {}
  PROVE  JoinInv'
<1> USE DEF TypeOK, Procs, Phases, Bodies, NoCode, Running, Trapped, Launching,
            control, AtLine, GoTo, End, Body, Kill, Live, Alive, JoinInv, Joined
<1>1. ASSUME NEW s \in Starts, Boot(s) PROVE JoinInv'
  BY <1>1, RefusedStatus DEF Boot
<1>2. ASSUME NEW s \in Starts, TryLock(s) PROVE JoinInv'
  BY <1>2 DEF TryLock
<1>3. ASSUME NEW s \in Starts, InstallTrap(s) PROVE JoinInv'
  BY <1>3 DEF InstallTrap
<1>4. ASSUME NEW s \in Starts, Launch(s) PROVE JoinInv'
  <2>1. CASE Fork(s, "node", "forkNode", "recNode")
    BY <2>1 DEF Fork
  <2>2. CASE Record(s, "node", "recNode", "forkFront")
    BY <2>2 DEF Record
  <2>3. CASE Fork(s, "front", "forkFront", "recFront")
    BY <2>3 DEF Fork
  <2>4. CASE Record(s, "front", "recFront", "waitAny")
    BY <2>4 DEF Record
  <2> QED
    BY <1>4, <2>1, <2>2, <2>3, <2>4 DEF Launch
<1>5. ASSUME NEW s \in Starts, WaitAny(s) PROVE JoinInv'
  BY <1>5 DEF WaitAny
<1>6. ASSUME NEW s \in Starts, CallStop(s) PROVE JoinInv'
  BY <1>6 DEF CallStop, EnterStop
<1>7. ASSUME NEW s \in Starts, WaitBoth(s) PROVE JoinInv'
  BY <1>7 DEF WaitBoth, WaitFor
<1>8. ASSUME NEW s \in Starts, Exit(s) PROVE JoinInv'
  BY <1>8 DEF Exit
<1>9. ASSUME NEW s \in Starts, Stop(s) PROVE JoinInv'
  <2>1. CASE TermFront(s)
    BY <2>1 DEF TermFront
  <2>2. CASE PollFront(s)
    BY <2>2 DEF PollFront
  <2>3. CASE FrontDeadline(s)
    BY <2>3 DEF FrontDeadline
  <2>4. CASE JoinFront(s)
    BY <2>4 DEF JoinFront
  <2>5. CASE TermCore(s)
    BY <2>5 DEF TermCore
  <2> QED
    BY <1>9, <2>1, <2>2, <2>3, <2>4, <2>5 DEF Stop
<1>10. ASSUME NEW s \in Starts, Signal(s) PROVE JoinInv'
  BY <1>10 DEF Signal, AfterWait
<1>11. ASSUME NEW s \in Starts, Die(s) PROVE JoinInv'
  BY <1>11 DEF Die
<1>12. ASSUME NEW s \in Starts, NEW p \in Procs, ChildExit(s, p) PROVE JoinInv'
  BY <1>12 DEF ChildExit
<1>13. CASE UNCHANGED vars
  BY <1>13 DEF vars
<1> QED
  BY <1>1, <1>2, <1>3, <1>4, <1>5, <1>6, <1>7, <1>8, <1>9, <1>10, <1>11, <1>12,
     <1>13 DEF Next, Script

(* Core is TERMed only when the front is down, provided that no signal comes *)
(* between the launch of the front and the note of its pid, and that a start *)
(* gets one signal: a second one during the join of a killed front ends the  *)
(* wait and goes on to Core.                                                 *)
THEOREM FrontIsFirst ==
  ASSUME SignalPhases \cap {"forkFront", "recFront"} = {}, MaxSignals <= 1
  PROVE  Spec => []FrontStopsFirst
<1>1. Init => StopInv
  BY DEF Init, StopInv, Orderly, Alive, Procs, Launching
<1>2. TypeOK /\ StopInv /\ [Next]_vars => StopInv'
  BY StopStep
<1>3. StopInv => FrontStopsFirst
  BY DEF StopInv, Orderly, FrontStopsFirst, Live
<1> QED
  BY <1>1, <1>2, <1>3, TypeCorrect, PTL DEF Spec

(* An exit status that is not of a refusal or a KILL reports a pair that has *)
(* ended, whatever signals come before the two waits, however many: only one *)
(* that arrives during a wait can leave a process behind.                    *)
THEOREM PairIsJoined ==
  ASSUME SignalPhases \cap {"waitNode", "waitFront"} = {}
  PROVE  Spec => []JoinedAtExit
<1>1. Init => JoinInv
  BY DEF Init, JoinInv, Joined, Alive, Procs, NoCode
<1>2. TypeOK /\ JoinInv /\ [Next]_vars => JoinInv'
  BY JoinStep
<1>3. JoinInv => JoinedAtExit
  BY DEF JoinInv, Joined, JoinedAtExit, Live, Procs
<1> QED
  BY <1>1, <1>2, <1>3, TypeCorrect, PTL DEF Spec

-----------------------------------------------------------------------------
(* Every step but taking the lock and launching a child only ends things (or *)
(* leaves them): the abstract End.                                           *)
LEMMA EndsOrStays ==
  ASSUME IInv, IInv',
         \A t \in Starts : fd'[t] \subseteq fd[t]
  PROVE  Pair!End
<1>1. Holders' \subseteq Holders
  BY DEF Holders
<1>2. LivePairs' \subseteq LivePairs
  BY DEF LivePairs, IInv, LockInv, FdOfChildren
<1>3. \A s \in Starts, p \in Procs : <<s, p>> \in LivePairs' => s \in Holders'
  BY DEF LivePairs, Holders, IInv, LockInv, FdOfChildren
<1> QED
  BY <1>1, <1>2, <1>3 DEF Pair!End

LEMMA TryLockPair ==
  ASSUME IInv, IInv', NEW s \in Starts, TryLock(s)
  PROVE  Pair!Next
<1>1. CASE End(s, 2)
  <2>1. \A t \in Starts : fd'[t] \subseteq fd[t]
    BY <1>1, FdType DEF End, IInv
  <2> QED
    BY <2>1, EndsOrStays DEF Pair!Next
<1>2. CASE /\ \A t \in Starts : fd[t] = {}
           /\ fd' = [fd EXCEPT ![s] = {"sup"}]
  <2>1. \A t \in Starts : fd'[t] = IF t = s THEN {"sup"} ELSE {}
    BY <1>2, FdType DEF IInv
  <2>2. Holders = {} /\ Holders' = {s}
    BY <1>2, <2>1 DEF Holders
  <2>3. LivePairs' = LivePairs
    BY DEF TryLock, LivePairs, Live
  <2>4. Pair!Acquire(s)
    BY <2>2, <2>3 DEF Pair!Acquire
  <2> QED
    BY <2>4 DEF Pair!Next
<1> QED
  BY <1>1, <1>2 DEF TryLock

LEMMA ForkPair ==
  ASSUME IInv, IInv', NEW s \in Starts, NEW p \in Procs, NEW from \in Running \ {"lock"}, NEW to,
         Fork(s, p, from, to)
  PROVE  Pair!Next
<1>1. \A t \in Starts : fd'[t] = IF t = s THEN fd[t] \cup {p} ELSE fd[t]
  BY FdType DEF Fork, IInv
<1>2. "sup" \in fd[s]
  BY DEF Fork, AtLine, IInv, LockInv, FdOfScript
<1>3. Holders' = Holders /\ s \in Holders
  BY <1>1, <1>2 DEF Holders
<1>4. LivePairs' = LivePairs \cup {<<s, p>>}
  <2>1. \A t \in Starts, q \in Procs : Live(t, q)' <=> Live(t, q) \/ (t = s /\ q = p)
    BY <1>1 DEF IInv, LockInv, FdOfChildren
  <2> QED
    BY <2>1 DEF LivePairs
<1> QED
  BY <1>3, <1>4 DEF Pair!Next, Pair!Launch

LEMMA PairStep ==
  ASSUME IInv, IInv', [Next]_vars
  PROVE  [Pair!Next]_(Pair!pairVars)
<1>1. ASSUME NEW s \in Starts, TryLock(s) PROVE Pair!Next
  BY <1>1, TryLockPair
<1>2. ASSUME NEW s \in Starts, Launch(s) PROVE Pair!Next
  <2>1. CASE Fork(s, "node", "forkNode", "recNode")
    BY <2>1, ForkPair DEF Procs, Running, Trapped, Launching
  <2>2. CASE Fork(s, "front", "forkFront", "recFront")
    BY <2>2, ForkPair DEF Procs, Running, Trapped, Launching
  <2>3. CASE UNCHANGED fd
    BY <2>3, EndsOrStays DEF Pair!Next
  <2> QED
    BY <1>2, <2>1, <2>2, <2>3 DEF Launch, Record
<1>3. ASSUME NEW s \in Starts,
             \/ Boot(s) \/ InstallTrap(s) \/ WaitAny(s) \/ CallStop(s) \/ WaitBoth(s)
             \/ Exit(s) \/ Stop(s) \/ Signal(s) \/ Die(s)
             \/ \E p \in Procs : ChildExit(s, p)
      PROVE  Pair!Next
  <2>1. \/ UNCHANGED fd
        \/ \E x : fd' = [fd EXCEPT ![s] = @ \ {x}]
    <3>1. CASE Boot(s)
      BY <3>1 DEF Boot, End
    <3>2. CASE InstallTrap(s) \/ WaitAny(s) \/ CallStop(s) \/ WaitBoth(s)
      BY <3>2 DEF InstallTrap, WaitAny, CallStop, WaitBoth, WaitFor
    <3>3. CASE Exit(s) \/ Die(s)
      BY <3>3 DEF Exit, Die, End
    <3>4. CASE Stop(s) \/ Signal(s)
      BY <3>4 DEF Stop, TermFront, PollFront, FrontDeadline, JoinFront, TermCore, Signal
    <3>5. CASE \E p \in Procs : ChildExit(s, p)
      BY <3>5 DEF ChildExit
    <3> QED
      BY <1>3, <3>1, <3>2, <3>3, <3>4, <3>5
  <2>2. \A t \in Starts : fd'[t] \subseteq fd[t]
    BY <2>1, FdType DEF IInv
  <2> QED
    BY <2>2, EndsOrStays DEF Pair!Next
<1>4. CASE UNCHANGED vars
  BY <1>4, EndsOrStays DEF Pair!Next, vars
<1> QED
  BY <1>1, <1>2, <1>3, <1>4 DEF Next, Script

(* The starts implement PairLifetime: a start acquires the data directory    *)
(* only when every process of every other start has ended.                   *)
THEOREM Refinement == Spec => PairSpec
<1>1. Init => Pair!Init
  BY DEF Init, Pair!Init, Holders, LivePairs, Live, Alive, Procs
<1>2. IInv /\ IInv' /\ [Next]_vars => [Pair!Next]_(Pair!pairVars)
  BY PairStep
<1> QED
  BY <1>1, <1>2, Invariant, PTL DEF Spec, PairSpec, Pair!Spec
=============================================================================
