------------------------------ MODULE ReleaseProof ------------------------------
(***************************************************************************)
(* Theorems about what the release tools look at before anything is        *)
(* replaced: what is put together, and whether somebody is at work.        *)
(*                                                                         *)
(* ReleaseAssembly, for any lock, any two commits and any table of pairs   *)
(* with the properties its three assumptions name: the tree does not       *)
(* change between the guards and the rename, so a release that is made is  *)
(* of commits the guards accept (AInv). What a release promises then       *)
(* follows from the guards alone; and so does it that commits which have   *)
(* moved a closed set of pairs pass (RollbackAccepted).                    *)
(*                                                                         *)
(* IdleGate, for any accounts, any --cap and any number of jobs: while the *)
(* gate reads, every directory with an old job is still to be read or has  *)
(* been counted, and every unknown one is still to be read (Reading).      *)
(* Accounts that move in have no old jobs (Elsewhere), and old jobs only   *)
(* end, so neither the server nor the order of the reading can break that. *)
(***************************************************************************)
EXTENDS ReleaseAssembly, IdleGate, FiniteSetTheorems, TLAPS

(* Every part that was fetched has the checksum of the lock, ... *)
Fetched == \A c \in Components : tree[c] = "pinned" => lock[c].sum = "served"

(* ... and what is packed has passed the guards. *)
Passed == pc \in {"pack", "publish", "made"} => Accepts(core, Rust, noevia)

Output == (Made <=> pc = "made") /\ (partial => pc = "publish")

AInv == TypeOK /\ Fetched /\ Passed /\ Output

LEMMA AssemblyStart == AssemblyInit => AInv
<1> SUFFICES ASSUME AssemblyInit PROVE AInv
  OBVIOUS
<1> USE DEF AssemblyInit, Empty
<1>1. TypeOK
  BY DEF TypeOK
<1>2. Fetched /\ Passed
  BY DEF Fetched, Passed
<1>3. Output
  BY DEF Output, Made
<1> QED
  BY <1>1, <1>2, <1>3 DEF AInv

(* A component that is resolved, wherever it comes from. *)
LEMMA ResolvedStep ==
  ASSUME AInv, NEW c \in Components, pc = c,
         NEW from \in {"none", "self", "pinned"}, Resolved(c, from),
         from = "pinned" => lock[c].sum = "served"
  PROVE  AInv'
<1>1. /\ lock' = lock /\ noevia' = noevia /\ partial' = partial /\ out' = out
      /\ tree' = [tree EXCEPT ![c] = from]
      /\ pc' \in {"core", "services", "rs", "guards"}
  BY DEF Resolved, inputs, After
<1>2. pc \notin {"pack", "publish", "made"} /\ pc' \notin {"pack", "publish", "made", "died"}
  BY <1>1 DEF Components
<1>3. TypeOK'
  BY <1>1 DEF AInv, TypeOK, Components
<1>4. Fetched'
  <2> SUFFICES ASSUME NEW d \in Components, tree'[d] = "pinned" PROVE lock'[d].sum = "served"
    BY DEF Fetched
  <2>1. tree \in [Components -> {"none", "self", "pinned"}]
    BY DEF AInv, TypeOK
  <2>2. CASE d = c
    BY <1>1, <2>1, <2>2
  <2>3. CASE d # c
    BY <1>1, <2>1, <2>3 DEF AInv, Fetched
  <2> QED
    BY <2>2, <2>3
<1>5. Passed'
  BY <1>2 DEF Passed
<1>6. Output'
  BY <1>1, <1>2 DEF AInv, Output, Made
<1> QED
  BY <1>3, <1>4, <1>5, <1>6 DEF AInv

LEMMA AssemblyStep == AInv /\ [Next]_assemblyVars => AInv'
<1> SUFFICES ASSUME AInv, [Next]_assemblyVars PROVE AInv'
  OBVIOUS
<1>1. ASSUME NEW c \in Components, ExportSelf(c) PROVE AInv'
  BY <1>1, ResolvedStep DEF ExportSelf
<1>2. ASSUME NEW c \in Components, Fetch(c) PROVE AInv'
  BY <1>2, ResolvedStep DEF Fetch
<1>3. CASE NoRs
  BY <1>3, ResolvedStep DEF NoRs, Components
<1>4. CASE Guard
  <2>1. pc = "guards" /\ pc' \in {"pack", "died"} /\ UNCHANGED <<inputs, tree, partial, out>>
    BY <1>4 DEF Guard
  <2>2. pc' = "pack" => Accepts(core, Rust, noevia)
    BY <1>4 DEF Guard
  <2>3. Accepts(core, Rust, noevia)' <=> Accepts(core, Rust, noevia)
    BY <2>1 DEF inputs, Rust
  <2>4. TypeOK' /\ Fetched'
    BY <2>1 DEF AInv, TypeOK, Fetched, inputs
  <2>5. Passed'
    BY <2>1, <2>2, <2>3 DEF Passed
  <2>6. Output'
    BY <2>1 DEF AInv, Output, Made
  <2> QED
    BY <2>4, <2>5, <2>6 DEF AInv
<1>5. CASE Pack \/ Publish \/ Die
  <2>1. UNCHANGED <<inputs, tree>>
    BY <1>5 DEF Pack, Publish, Die
  <2>2. /\ pc' \in {"publish", "made", "died"}
        /\ pc' \in {"publish", "made"} => pc \in {"pack", "publish"}
    BY <1>5 DEF Pack, Publish, Die
  <2>3. Accepts(core, Rust, noevia)' <=> Accepts(core, Rust, noevia)
    BY <2>1 DEF inputs, Rust
  <2>4. TypeOK'
    BY <1>5, <2>1 DEF AInv, TypeOK, inputs, Pack, Publish, Die
  <2>5. Fetched' /\ Passed'
    BY <2>1, <2>2, <2>3 DEF AInv, Fetched, Passed, inputs
  <2>6. Output'
    BY <1>5 DEF AInv, TypeOK, Output, Made, Pack, Publish, Die
  <2> QED
    BY <2>4, <2>5, <2>6 DEF AInv
<1>6. CASE UNCHANGED assemblyVars
  <2>1. Accepts(core, Rust, noevia)' <=> Accepts(core, Rust, noevia)
    BY <1>6 DEF assemblyVars, Rust
  <2> QED
    BY <1>6, <2>1 DEF AInv, TypeOK, Fetched, Passed, Output, Made, assemblyVars
<1> QED
  BY <1>1, <1>2, <1>3, <1>4, <1>5, <1>6 DEF Next

LEMMA AssemblyInvariant == AssemblySpec => []AInv
<1> QED
  BY AssemblyStart, AssemblyStep, PTL DEF AssemblySpec

(* A release that is made has passed every guard. *)
LEMMA MadeIsAccepted == ASSUME AInv, Made PROVE Accepts(core, Rust, noevia)
<1> QED
  BY DEF AInv, Output, Passed

-----------------------------------------------------------------------------
(* The types of a run's variables, for any lock and any two commits.         *)
THEOREM AssemblyTypes == AssemblySpec => []TypeOK
<1> QED
  BY AssemblyInvariant, PTL DEF AInv

(* The output is verified and whole, or as it was, at whatever command the   *)
(* run fails.                                                                *)
THEOREM OutputVerified == AssemblySpec => []Verified
<1>1. AInv => Verified
  BY DEF AInv, Fetched, Output, Verified
<1> QED
  BY <1>1, AssemblyInvariant, PTL

(* A transcript of a made release has one writer, whatever the two commits.  *)
THEOREM TranscriptOneWriter == AssemblySpec => []ChatOneWriter
<1>1. AInv => ChatOneWriter
  <2> SUFFICES ASSUME AInv, Made, Rust.table PROVE ChatOneWriter
    BY DEF ChatOneWriter
  <2>1. HistoryAgrees(core, Rust) /\ DeletesAgree(core, Rust)
    BY MadeIsAccepted DEF Accepts, TableAgrees
  <2> QED
    BY <2>1 DEF ChatOneWriter, HistoryAgrees, DeletesAgree
<1> QED
  BY <1>1, AssemblyInvariant, PTL

(* ... and Core's mirror and brain follow it.                                *)
THEOREM TranscriptFollowed == AssemblySpec => []ChatFollowed
<1>1. AInv => ChatFollowed
  <2> SUFFICES ASSUME AInv, Made, Rust.table, HistoryOwned(Rust, "POST") PROVE ChatFollowed
    BY DEF ChatFollowed
  <2>1. HistoryAgrees(core, Rust) /\ BrainAgrees(core, Rust)
    BY MadeIsAccepted DEF Accepts, TableAgrees
  <2> QED
    BY <2>1 DEF ChatFollowed, HistoryAgrees, BrainAgrees
<1> QED
  BY <1>1, AssemblyInvariant, PTL

-----------------------------------------------------------------------------
(* What fits of the front's commit fits of the tree without one.             *)
LEMMA TreeFits ==
  ASSUME CommitsFit, Accepts(core, Rust, noevia) PROVE Fit(core, Rust)
<1>1. CASE tree["rs"] = "pinned"
  BY <1>1 DEF CommitsFit, Rust
<1>2. CASE tree["rs"] # "pinned"
  <2>1. Rust = NoRust
    BY <1>2 DEF Rust
  <2>2. Rust.rows = {} /\ Rust.features = {} /\ Rust.table = FALSE
    BY <2>1 DEF NoRust
  <2>3. core.marks \subseteq PairNames
    BY DEF CommitsFit, Fit
  <2>4. core.marks = {}
    BY <2>2, <2>3 DEF Accepts, PairAgrees
  <2> QED
    BY <2>2, <2>4 DEF CommitsFit, Fit
<1> QED
  BY <1>1, <1>2

(* The rows of a moved pair are the front's, with its methods.               *)
LEMMA MovedOwns ==
  ASSUME NEW r, NEW p \in PairNames, Contract(r, p), NEW q \in Claims(Want(r, p))
  PROVE  Owns(r, q[1], q[2])
<1>1. PICK path \in DOMAIN Want(r, p) : \E m \in Want(r, p)[path] : q = <<path, m>>
  BY DEF Claims
<1>2. PICK m \in Want(r, p)[path] : q = <<path, m>>
  BY <1>1
<1>3. PICK x \in RowsOf(r, p) : x.path = path
  BY DEF Contract
<1>4. x.owner = "rust" /\ ~x.switched /\ m \in x.methods /\ x \in r.rows
  BY <1>2, <1>3 DEF Contract, RowsOf
<1>5. <<path, m>> \in FrontRoutes(r)
  BY <1>3, <1>4 DEF FrontRoutes
<1> QED
  BY <1>2, <1>5 DEF Owns

(* A mark the guards accept is of a pair that moved, if there are rows.      *)
LEMMA MarkMoved ==
  ASSUME Accepts(core, Rust, noevia), Fit(core, Rust), NEW p \in core.marks
  PROVE  p \in PairNames /\ p \in Rust.features /\ Rust.table /\ Moved(core, Rust, p)
<1>1. p \in PairNames /\ PairAgrees(core, Rust, p)
  BY DEF Fit, Accepts
<1>2. p \in Rust.features
  BY <1>1 DEF PairAgrees
<1>3. Rust.table
  BY <1>1, <1>2 DEF Fit
<1> QED
  BY <1>1, <1>2, <1>3 DEF PairAgrees, Skipped

(* ... and what it refuses is the front's.                                   *)
LEMMA RefusedOwned ==
  ASSUME Accepts(core, Rust, noevia), Fit(core, Rust),
         NEW p \in core.marks, NEW q \in core.refuses[p]
  PROVE  q \in Claims(Want(Rust, p)) /\ Owns(Rust, q[1], q[2])
<1>1. p \in PairNames /\ Moved(core, Rust, p)
  BY MarkMoved
<1>2. q \in Claims(Want(Rust, p))
  BY <1>1 DEF Moved, Fit
<1> QED
  BY <1>1, <1>2, MovedOwns DEF Moved

(* The refusals of the chats' routes: the front answers each of them.        *)
LEMMA ListedOwned ==
  ASSUME Accepts(core, Rust, noevia), Fit(core, Rust), Rust.table, NEW q \in Listed(core)
  PROVE  Owns(Rust, q[1], q[2])
<1>1. TableAgrees(core, Rust, noevia)
  BY DEF Accepts
<1>2. CASE q = <<History, "POST">>
  <2>1. HistoryOwned(Rust, "POST")
    BY <1>1, <1>2 DEF TableAgrees, HistoryAgrees
  <2>2. PICK x \in Rust.rows :
          x.path = History /\ x.owner = "rust" /\ x.methods \cap {"ALL", "POST"} # {}
    BY <2>1 DEF HistoryOwned
  <2>3. ~x.switched
    BY <1>1 DEF TableAgrees, NoSwitch
  <2>4. PICK m \in {"ALL", "POST"} : m \in x.methods
    BY <2>2
  <2>5. <<History, m>> \in FrontRoutes(Rust)
    BY <2>2, <2>3, <2>4 DEF FrontRoutes
  <2> QED
    BY <1>2, <2>4, <2>5 DEF Owns
<1>3. ASSUME NEW d \in Deletes, q = <<d, "DELETE">> PROVE Owns(Rust, q[1], q[2])
  <2>1. DeleteOwned(Rust, d)
    BY <1>1, <1>3 DEF TableAgrees, DeletesAgree
  <2> QED
    BY <1>3, <2>1 DEF DeleteOwned
<1>4. CASE q[1] = MovePath /\ MoveRefused(core)
  <2>1. q[2] = "POST" /\ MoveOwned(Rust)
    BY <1>1, <1>4 DEF TableAgrees, MoveAgrees, MoveTouched
  <2> QED
    BY <1>4, <2>1 DEF MoveOwned, Owns
<1> QED
  BY <1>2, <1>3, <1>4 DEF Fit, ChatRoutes

(* The refusals of the web address: the same.                                *)
LEMMA WebOwner ==
  ASSUME Accepts(core, Rust, noevia), NEW q \in core.refuses["rust-web-address"]
  PROVE  Rust.table /\ Owns(Rust, q[1], q[2])
<1>1. Rust.table
  BY DEF Accepts, WebAddressAgrees
<1>2. q \in WebOwned(Rust) /\ \A x \in WebRows(Rust) : ~x.switched
  BY <1>1 DEF Accepts, WebAddressAgrees
<1>3. PICK x \in WebRows(Rust) : \E m \in x.methods : q = <<x.path, m>>
  BY <1>2 DEF WebOwned
<1>4. q \in FrontRoutes(Rust)
  BY <1>2, <1>3 DEF WebRows, FrontRoutes
<1> QED
  BY <1>1, <1>3, <1>4 DEF Owns

(* The commits do not change under a run. *)
Released ==
  AInv /\ CommitsFit /\ (Made => Accepts(core, Rust, noevia) /\ Fit(core, Rust))

LEMMA ReleaseInvariant == AssemblySpec /\ CommitsFit => []Released
<1>1. CommitsFit /\ [Next]_assemblyVars => CommitsFit'
  <2> SUFFICES ASSUME CommitsFit, [Next]_assemblyVars PROVE CommitsFit'
    OBVIOUS
  <2>1. UNCHANGED <<core, rs>>
    BY DEF Next, assemblyVars, inputs, ExportSelf, Fetch, NoRs, Resolved, Guard, Pack, Publish, Die
  <2> QED
    BY <2>1 DEF CommitsFit
<1>2. AInv /\ CommitsFit => Released
  BY MadeIsAccepted, TreeFits DEF Released
<1> QED
  BY <1>1, <1>2, AssemblyInvariant, PTL DEF AssemblySpec

(* No made release strands a route, whatever two commits that fit the lock   *)
(* names.                                                                    *)
THEOREM ReleaseStrandsNothing == AssemblySpec /\ CommitsFit => []NothingStranded
<1>1. Released => NothingStranded
  <2> SUFFICES ASSUME Released, Made, Rust.table,
                      NEW f \in Mounted, NEW q \in core.refuses[f]
               PROVE  Owns(Rust, q[1], q[2])
    BY DEF NothingStranded
  <2>1. Accepts(core, Rust, noevia) /\ Fit(core, Rust)
    BY DEF Released
  <2>2. CASE f \in core.marks
    BY <2>1, <2>2, RefusedOwned
  <2>3. CASE f = "rust-projects"
    BY <2>1, <2>3, ListedOwned DEF Listed
  <2>4. CASE f = "rust-web-address"
    BY <2>1, <2>4, WebOwner
  <2> QED
    BY <2>2, <2>3, <2>4 DEF Mounted
<1> QED
  BY <1>1, ReleaseInvariant, PTL

-----------------------------------------------------------------------------
(* A route of a pair that has moved is the front's, and refused by Node.     *)
LEMMA MovedAnswers ==
  ASSUME Accepts(core, Rust, noevia), Fit(core, Rust), NEW p \in core.marks,
         BothRead(p), NEW q \in Claims(Table[p].want)
  PROVE  Owns(Rust, q[1], q[2]) /\ ~NodeAnswers(q)
<1>1. p \in PairNames /\ Moved(core, Rust, p)
  BY MarkMoved
<1>2. Want(Rust, p) = Table[p].want /\ "refusal" \in Table[p].checks
  BY <1>1, TableAssumption DEF Want
<1>3. q \in core.refuses[p]
  BY <1>1, <1>2 DEF Moved
<1>4. Owns(Rust, q[1], q[2])
  BY <1>3, RefusedOwned
<1> QED
  BY <1>3, <1>4 DEF NodeAnswers, Refuses, Mounted

(* One of a pair that has not is in no row of the front, in no list of       *)
(* Core's, and Node still answers it.                                        *)
LEMMA UnmovedAnswers ==
  ASSUME Accepts(core, Rust, noevia), Fit(core, Rust), NEW p \in PairNames, p \notin core.marks,
         BothRead(p), NEW q \in Claims(Table[p].want)
  PROVE  ~Owns(Rust, q[1], q[2]) /\ NodeAnswers(q)
<1>1. q[1] \in DOMAIN Table[p].want
  BY DEF Claims
<1>2. PairAgrees(core, Rust, p) /\ p \notin Rust.features
  BY DEF Accepts, PairAgrees
<1>3. ~Owns(Rust, q[1], q[2])
  <2>1. CASE Rust.table
    <3>1. StillNodes(Rust, p)
      BY <1>2, <2>1 DEF PairAgrees, Skipped, BothRead
    <3>2. ASSUME NEW m, <<q[1], m>> \in FrontRoutes(Rust) PROVE FALSE
      <4>1. PICK x \in Rust.rows : x.owner = "rust" /\ x.path = q[1]
        BY <3>2 DEF FrontRoutes
      <4> QED
        BY <1>1, <3>1, <4>1 DEF StillNodes, RowsOf
    <3> QED
      BY <3>2 DEF Owns
  <2>2. CASE ~Rust.table
    <3>1. FrontRoutes(Rust) = {}
      BY <2>2 DEF Fit, FrontRoutes
    <3> QED
      BY <3>1 DEF Owns
  <2> QED
    BY <2>1, <2>2
<1>4. ASSUME NEW f \in Mounted, q \in core.refuses[f] PROVE FALSE
  <2>1. CASE f \in core.marks
    BY <1>3, <1>4, <2>1, RefusedOwned
  <2>2. CASE f = "rust-projects" /\ Rust.table
    BY <1>3, <1>4, <2>2, ListedOwned DEF Listed
  <2>3. CASE f = "rust-projects" /\ ~Rust.table
    <3>1. q[1] \in {History, MovePath} \cup Deletes
      BY <1>4, <2>3 DEF Fit, Listed, ChatRoutes
    <3> QED
      BY <1>1, <3>1, TableAssumption
  <2>4. CASE f = "rust-web-address"
    BY <1>3, <1>4, <2>4, WebOwner
  <2> QED
    BY <2>1, <2>2, <2>3, <2>4 DEF Mounted
<1>5. p \in core.handlers
  BY DEF Fit
<1> QED
  BY <1>3, <1>4, <1>5 DEF NodeAnswers, Refuses

(* In every made release a route of a pair that is read on both sides is     *)
(* answered once.                                                            *)
THEOREM ReleaseAnswersOnce == AssemblySpec /\ CommitsFit => []OneAnswerer
<1>1. Released => OneAnswerer
  <2> SUFFICES ASSUME Released, Made, NEW p \in PairNames, BothRead(p),
                      NEW q \in Claims(Table[p].want)
               PROVE  Cardinality(Answerers(q)) = 1
    BY DEF OneAnswerer
  <2>1. Accepts(core, Rust, noevia) /\ Fit(core, Rust)
    BY DEF Released
  <2>2. Owns(Rust, q[1], q[2]) <=> ~NodeAnswers(q)
    BY <2>1, MovedAnswers, UnmovedAnswers
  <2>3. Answerers(q) = {"front"} \/ Answerers(q) = {"node"}
    BY <2>2 DEF Answerers
  <2> QED
    BY <2>3, FS_Singleton
<1> QED
  BY <1>1, ReleaseInvariant, PTL

-----------------------------------------------------------------------------
(* The image of a made release with a front. *)
LEMMA ImageStarts ==
  ASSUME Accepts(core, Rust, noevia), Fit(core, Rust) PROVE SG!PairAllowed(Image)
<1>1. /\ SG!FrontSelected(Image) /\ SG!CodeNetGuarded(Image) /\ SG!RequiredListed(Image)
      /\ SG!EmbeddingAgrees(Image) /\ SG!ClaimNamed(Image)
  BY DEF Image, SG!FrontSelected, SG!CodeNetGuarded, SG!RequiredListed, SG!EmbeddingAgrees,
         SG!ClaimNamed
<1>2. ASSUME NEW p \in PairNames PROVE p \in Image.marks <=> p \in Image.features
  <2>1. p \in core.marks <=> p \in Rust.features
    BY DEF Accepts, PairAgrees
  <2>2. p \notin SG!Singles \cup {"rust-auth"} \cup WebPairs
    BY TableAssumption, NamesAssumption
  <2>3. p \in Image.marks <=> p \in core.marks
    BY <2>2 DEF Image, WebPairs
  <2>4. p \in Image.features <=> p \in Rust.features
    BY <2>2 DEF Image, SG!Singles
  <2> QED
    BY <2>1, <2>3, <2>4
<1>3. ASSUME NEW p \in WebPairs PROVE p \in Image.marks <=> p \in Image.features
  <2> DEFINE node == core.refuses["rust-web-address"]
  <2>1. p \notin core.marks /\ p \notin SG!Singles \cup {"rust-auth"}
    BY TableAssumption, NamesAssumption DEF Fit
  <2>2. p \in Image.features <=> p \in Rust.features
    BY <2>1 DEF Image, SG!Singles
  <2>3. p \in Image.marks <=>
          \/ p = "rust-web-address-read" /\ WebReads \subseteq node
          \/ p = "rust-web-address-write" /\ WebWrites \subseteq node
    BY <2>1 DEF Image, WebPairs
  <2>4. WebAddressAgrees(core, Rust, noevia)
    BY DEF Accepts
  <2>5. <<"/api/instance", "GET">> \in WebReads /\ <<"/api/admin/web-address", "POST">> \in WebWrites
    BY DEF WebReads, WebWrites
  <2>6. <<"/api/admin/web-address", "POST">> \notin WebReads
    BY DEF WebReads
  <2>7. CASE p = "rust-web-address-read"
    <3>1. ASSUME WebReads \subseteq node PROVE p \in Rust.features
      BY <2>4, <2>5, <2>7, <3>1 DEF WebAddressAgrees
    <3>2. ASSUME p \in Rust.features PROVE WebReads \subseteq node
      <4>1. WebReads \subseteq WebOwned(Rust)
        BY <2>7, <3>2 DEF Fit
      <4>2. Rust.table
        BY <2>5, <4>1 DEF Fit, WebOwned, WebRows
      <4> QED
        BY <2>4, <2>5, <4>1, <4>2 DEF WebAddressAgrees
    <3> QED
      BY <2>2, <2>3, <2>7, <3>1, <3>2
  <2>8. CASE p = "rust-web-address-write"
    <3>1. ASSUME WebWrites \subseteq node PROVE p \in Rust.features
      BY <2>4, <2>5, <2>6, <2>8, <3>1 DEF WebAddressAgrees
    <3>2. ASSUME p \in Rust.features PROVE WebWrites \subseteq node
      <4>1. WebWrites \subseteq WebOwned(Rust)
        BY <2>8, <3>2 DEF Fit
      <4>2. Rust.table
        BY <2>5, <4>1 DEF Fit, WebOwned, WebRows
      <4> QED
        BY <2>4, <2>5, <4>1, <4>2 DEF WebAddressAgrees
    <3> QED
      BY <2>2, <2>3, <2>8, <3>1, <3>2
  <2> QED
    BY <2>7, <2>8 DEF WebPairs
<1>4. SG!PairsAgree(Image)
  BY <1>2, <1>3 DEF SG!PairsAgree
<1>5. SG!BaselineAgrees(Image)
  <2>1. SG!Baseline \notin PairNames \cup WebPairs
    BY NamesAssumption DEF SG!Singles
  <2> QED
    BY <2>1 DEF SG!BaselineAgrees, Image, Fit, WebPairs
<1>6. SG!SourceJobsAgree(Image)
  <2>1. SG!Store \notin Rust.features /\ SG!Store # "rust-auth" /\ SG!Store # SG!Guard
    BY DEF Fit, SG!Singles, SG!Store, SG!Guard
  <2>2. SG!Store \in Image.features <=> "source-store" \in Rust.caps
    BY <2>1 DEF Image
  <2>3. "source-client" \in core.caps <=> "source-store" \in Rust.caps
    BY DEF Accepts, SourceStoreAgrees
  <2> QED
    BY <2>2, <2>3 DEF SG!SourceJobsAgree, Image
<1>7. SG!WorkerRemoved(Image)
  <2> DEFINE w == "rust-project-source-work"
  <2>1. w \in PairNames /\ w \notin WebPairs /\ "handler" \in Table[w].checks
    BY NamesAssumption, TableAssumption
  <2>2. w \in Image.marks => w \in core.marks
    BY <2>1 DEF Image, WebPairs
  <2>3. w \in core.marks => w \notin core.handlers
    BY <2>1, MarkMoved DEF Moved
  <2>4. Image.worker = (w \in core.handlers)
    BY DEF Image
  <2> HIDE DEF w
  <2> QED
    BY <2>2, <2>3, <2>4 DEF SG!WorkerRemoved, w
<1> QED
  BY <1>1, <1>4, <1>5, <1>6, <1>7 DEF SG!PairAllowed

(* What the assembler makes, the supervisor starts.                          *)
THEOREM ReleaseStarts == AssemblySpec /\ CommitsFit => []StartsOnceMade
<1>1. Released => StartsOnceMade
  BY ImageStarts DEF Released, StartsOnceMade
<1> QED
  BY <1>1, ReleaseInvariant, PTL

-----------------------------------------------------------------------------
(* The front that has moved a closed set wants of a pair what the table      *)
(* says, and of a route the same whoever it belongs to.                      *)
LEMMA WantedPaths ==
  ASSUME NEW r, NEW p \in PairNames
  PROVE  /\ DOMAIN Want(r, p) = DOMAIN Table[p].want
         /\ p # "rust-provider-test" => Want(r, p) = Table[p].want
  BY TableAssumption DEF Want

LEMMA WantedOnce ==
  ASSUME NEW moved, Closed(moved), NEW r, r.features = Features(moved),
         NEW p \in moved, NEW q \in moved,
         NEW path \in DOMAIN Want(r, p) \cap DOMAIN Want(r, q)
  PROVE  Want(r, p)[path] = Want(r, q)[path]
<1> DEFINE probe == "rust-provider-test"
           registry == "rust-providers"
<1>1. p \in PairNames /\ q \in PairNames
  BY DEF Closed
<1>2. path \in DOMAIN Table[p].want \cap DOMAIN Table[q].want
  BY <1>1, WantedPaths
<1>3. CASE p = q
  BY <1>3
<1>4. ASSUME NEW a \in moved, NEW b \in moved, a = probe, b = registry,
             path \in DOMAIN Table[a].want
      PROVE  Want(r, a)[path] = Want(r, b)[path]
  <2>1. a \in PairNames /\ b \in PairNames
    BY DEF Closed
  <2>2. path = "/api/providers/test"
    BY <1>4, <2>1, TableAssumption
  <2>3. b \in r.features
    BY DEF Features
  <2>4. Want(r, a) = [x \in {"/api/providers/test"} |-> {"POST", "PUT", "DELETE"}]
    BY <1>4, <2>3 DEF Want
  <2>5. Want(r, b) = Table[b].want
    BY <1>4, <2>1, WantedPaths
  <2> QED
    BY <1>4, <2>2, <2>4, <2>5, RoutesAssumption
<1>5. CASE p # q /\ {p, q} = {probe, registry}
  <2>1. (p = probe /\ q = registry) \/ (q = probe /\ p = registry)
    BY <1>5
  <2> QED
    BY <1>2, <1>4, <2>1
<1>6. CASE p # q /\ {p, q} # {probe, registry}
  <2>1. Table[p].want[path] = Table[q].want[path] /\ probe \notin {p, q}
    BY <1>1, <1>2, <1>6, RoutesAssumption
  <2> QED
    BY <1>1, <2>1, WantedPaths
<1> QED
  BY <1>3, <1>5, <1>6

(* Its rows: a moved pair's are the front's and as the pair wants them, and  *)
(* a row of the front is the session's or of a moved pair.                   *)
LEMMA FrontRows ==
  ASSUME NEW moved, Closed(moved), NEW x \in RsOf(moved).rows
  PROVE  /\ ~x.switched
         /\ \A p \in moved : x.path \in DOMAIN Want(RsOf(moved), p) =>
              x.owner = "rust" /\ x.methods = Want(RsOf(moved), p)[x.path]
         /\ x.owner = "rust" =>
              \/ x.path = Session
              \/ \E p \in moved : x.path \in DOMAIN Want(RsOf(moved), p)
<1> DEFINE r == RsOf(moved)
           with == [features |-> Features(moved)]
           owned == UNION {DOMAIN Want(with, p) : p \in moved}
           rest  == (UNION {DOMAIN Table[p].want : p \in PairNames}) \ owned
           of(path) == {p \in moved : path \in DOMAIN Want(with, p)}
<1>1. r.features = Features(moved) /\ with.features = Features(moved)
  BY DEF RsOf
<1>2. ASSUME NEW p \in moved PROVE Want(r, p) = Want(with, p)
  BY <1>1 DEF Want
<1>3. \/ x = Row(Session, "rust", {"GET"})
      \/ \E path \in owned : x = Row(path, "rust", UNION {Want(with, p)[path] : p \in of(path)})
      \/ \E path \in rest : x = Row(path, "node", Every)
  BY DEF RsOf
<1>4. CASE x = Row(Session, "rust", {"GET"})
  <2>1. ASSUME NEW p \in moved PROVE Session \notin DOMAIN Want(r, p)
    BY WantedPaths, RoutesAssumption DEF Closed
  <2> QED
    BY <1>4, <2>1 DEF Row
<1>5. ASSUME NEW path \in owned,
             x = Row(path, "rust", UNION {Want(with, p)[path] : p \in of(path)})
      PROVE  /\ ~x.switched /\ x.owner = "rust" /\ x.path = path
             /\ \E p \in moved : path \in DOMAIN Want(r, p)
             /\ \A p \in moved : path \in DOMAIN Want(r, p) => x.methods = Want(r, p)[path]
  <2>1. PICK q \in moved : path \in DOMAIN Want(with, q)
    OBVIOUS
  <2>2. ASSUME NEW p \in moved, path \in DOMAIN Want(r, p) PROVE x.methods = Want(r, p)[path]
    <3>1. p \in of(path)
      BY <1>2, <2>2
    <3>2. ASSUME NEW y \in of(path) PROVE Want(with, y)[path] = Want(r, p)[path]
      <4>1. path \in DOMAIN Want(r, y)
        BY <1>2
      <4>2. Want(r, y)[path] = Want(r, p)[path]
        BY <1>1, <2>2, <4>1, WantedOnce
      <4> QED
        BY <1>2, <4>2
    <3>3. UNION {Want(with, y)[path] : y \in of(path)} = Want(r, p)[path]
      BY <3>1, <3>2
    <3> QED
      BY <1>5, <3>3 DEF Row
  <2> QED
    BY <1>2, <1>5, <2>1, <2>2 DEF Row
<1>6. ASSUME NEW path \in rest, x = Row(path, "node", Every)
      PROVE  /\ ~x.switched /\ x.owner = "node"
             /\ \A p \in moved : x.path \notin DOMAIN Want(r, p)
  <2>1. ASSUME NEW p \in moved, path \in DOMAIN Want(r, p) PROVE FALSE
    <3>1. path \in DOMAIN Want(with, p)
      BY <1>2, <2>1
    <3>2. path \in owned
      BY <3>1
    <3>3. path \notin owned
      <4> HIDE DEF owned
      <4> QED
        BY <1>6
    <3> QED
      BY <3>2, <3>3
  <2> QED
    BY <1>6, <2>1 DEF Row
<1>7. CASE \E path \in owned : x = Row(path, "rust", UNION {Want(with, p)[path] : p \in of(path)})
  <2>1. PICK path \in owned : x = Row(path, "rust", UNION {Want(with, p)[path] : p \in of(path)})
    BY <1>7
  <2>2. /\ ~x.switched /\ x.owner = "rust" /\ x.path = path
        /\ \E p \in moved : path \in DOMAIN Want(r, p)
        /\ \A p \in moved : path \in DOMAIN Want(r, p) => x.methods = Want(r, p)[path]
    BY <1>5, <2>1
  <2> HIDE DEF r, owned, of, with
  <2> QED
    BY <2>2 DEF r
<1>8. CASE \E path \in rest : x = Row(path, "node", Every)
  <2>1. ~x.switched /\ x.owner = "node" /\ \A p \in moved : x.path \notin DOMAIN Want(r, p)
    BY <1>6, <1>8
  <2> QED
    BY <2>1
<1> QED
  BY <1>3, <1>4, <1>7, <1>8

(* Every route of a pair has a row. *)
LEMMA RowEach ==
  ASSUME NEW moved, Closed(moved), NEW p \in moved, NEW path \in DOMAIN Want(RsOf(moved), p)
  PROVE  \E x \in RsOf(moved).rows : x.path = path
<1> DEFINE with == [features |-> Features(moved)]
           methods(q) == UNION {Want(with, y)[q] : y \in {z \in moved : q \in DOMAIN Want(with, z)}}
<1>1. Want(RsOf(moved), p) = Want(with, p)
  BY DEF RsOf, Want
<1>2. path \in UNION {DOMAIN Want(with, q) : q \in moved}
  BY <1>1
<1>3. Row(path, "rust", methods(path)) \in RsOf(moved).rows
  BY <1>2 DEF RsOf
<1> QED
  BY <1>3 DEF Row

(* A row that the script looks for before a pair has moved is still Node's.  *)
LEMMA RowsStillNodes ==
  ASSUME NEW moved, Closed(moved), NEW p \in PairNames, p \notin moved,
         "old" \in Table[p].checks \/ \E y \in PairNames : p \in Leaves(y)
  PROVE  StillNodes(RsOf(moved), p)
<1> SUFFICES ASSUME NEW x \in RsOf(moved).rows, x.path \in DOMAIN Table[p].want,
                    x.owner # "node"
             PROVE  FALSE
  BY DEF StillNodes, RowsOf
<1>1. x.owner = "rust"
  BY DEF RsOf, Row
<1>2. x.path # Session
  BY RoutesAssumption
<1>3. PICK q \in moved : x.path \in DOMAIN Want(RsOf(moved), q)
  BY <1>1, <1>2, FrontRows
<1>4. q \in PairNames /\ q # p /\ x.path \in DOMAIN Table[q].want
  BY <1>3, WantedPaths DEF Closed
<1> QED
  BY <1>4, RoutesAssumption

LEMMA RollbackRoutes ==
  ASSUME NEW moved, Closed(moved), NEW q \in FrontRoutes(RsOf(moved))
  PROVE  \/ q[1] = Session
         \/ \E p \in moved : q \in Claims(Want(RsOf(moved), p))
<1>1. PICK x \in RsOf(moved).rows : x.owner = "rust" /\ q[1] = x.path /\ q[2] \in x.methods
                                    /\ q = <<q[1], q[2]>>
  BY DEF FrontRoutes
<1>2. CASE x.path = Session
  BY <1>1, <1>2
<1>3. ASSUME NEW p \in moved, x.path \in DOMAIN Want(RsOf(moved), p)
      PROVE  q \in Claims(Want(RsOf(moved), p))
  <2>1. x.methods = Want(RsOf(moved), p)[x.path]
    BY <1>3, FrontRows
  <2> QED
    BY <1>1, <1>3, <2>1 DEF Claims
<1> QED
  BY <1>1, <1>2, <1>3, FrontRows

(* What a pair's block reads. *)
LEMMA RollbackPair ==
  ASSUME NEW moved, Closed(moved), NEW p \in PairNames
  PROVE  PairAgrees(CoreOf(moved), RsOf(moved), p)
<1> DEFINE r == RsOf(moved)
           c == CoreOf(moved)
<1>1. /\ r.features = Features(moved) /\ r.table = TRUE
      /\ c.marks = moved /\ c.handlers = PairNames \ moved /\ c.bridges = moved
  BY DEF RsOf, CoreOf
<1>2. p \in c.marks <=> p \in r.features
  BY <1>1 DEF Features
<1>3. ASSUME p \in moved PROVE c.refuses[p] = Claims(Want(r, p))
  <2>1. Want(r, p) = Want([features |-> Features(moved)], p)
    BY <1>1 DEF Want
  <2> QED
    BY <1>3, <2>1 DEF CoreOf, Files
<1>4. ASSUME p \in moved PROVE Moved(c, r, p)
  <2>1. Table[p].needs \subseteq r.features
    BY <1>1, <1>4 DEF Closed, Features
  <2>2. Contract(r, p)
    <3>1. \A x \in RowsOf(r, p) :
            x.owner = "rust" /\ ~x.switched /\ x.methods = Want(r, p)[x.path]
      BY <1>4, FrontRows, WantedPaths DEF RowsOf
    <3>2. {x.path : x \in RowsOf(r, p)} = DOMAIN Want(r, p)
      <4>1. \A x \in RowsOf(r, p) : x.path \in DOMAIN Want(r, p)
        BY WantedPaths DEF RowsOf
      <4>2. ASSUME NEW path \in DOMAIN Want(r, p) PROVE \E x \in RowsOf(r, p) : x.path = path
        BY <1>4, RowEach, WantedPaths DEF RowsOf
      <4> QED
        BY <4>1, <4>2
    <3> QED
      BY <1>1, <3>1, <3>2 DEF Contract
  <2>3. ASSUME NEW q \in Leaves(p) \ r.features PROVE StillNodes(r, q)
    <3>1. q \in PairNames /\ q \notin moved
      BY <1>1, RoutesAssumption DEF Features
    <3> QED
      BY <3>1, RowsStillNodes
  <2>4. ASSUME NEW path \in Named(p)
        PROVE  \E m \in Every \cup {"GET", "POST"} : <<path, m>> \in c.refuses[p]
    <3>1. Want(r, p) = Table[p].want /\ path \in DOMAIN Table[p].want
      BY RoutesAssumption, WantedPaths
    <3>2. PICK m \in Every \cup {"GET", "POST"} : m \in Table[p].want[path]
      BY RoutesAssumption
    <3>3. <<path, m>> \in Claims(Want(r, p))
      BY <3>1, <3>2 DEF Claims
    <3> QED
      BY <1>3, <1>4, <3>2, <3>3
  <2> QED
    BY <1>1, <1>3, <1>4, <2>1, <2>2, <2>3, <2>4 DEF Moved
<1>5. ASSUME p \notin moved, "old" \in Table[p].checks PROVE StillNodes(r, p)
  BY <1>5, RowsStillNodes
<1> QED
  BY <1>1, <1>2, <1>4, <1>5 DEF PairAgrees

(* What the guards read that are of no pair.                                 *)
LEMMA RollbackFiles ==
  ASSUME NEW moved, Closed(moved)
  PROVE  \A f \in {"rust-projects", "rust-web-address"} : CoreOf(moved).refuses[f] = {}
<1>1. \A f \in {"rust-projects", "rust-web-address"} : f \in Files /\ f \notin moved
  BY TableAssumption DEF Closed, Files
<1> QED
  BY <1>1 DEF CoreOf

LEMMA RollbackProjects ==
  ASSUME NEW moved, Closed(moved)
  PROVE  ProjectsAgree(CoreOf(moved), RsOf(moved))
<1> DEFINE r == RsOf(moved)
           c == CoreOf(moved)
<1>1. "refuseOwnedRoute" \in c.caps
  BY DEF CoreOf
<1>2. ASSUME NEW q \in ProjectRoutes(r)
      PROVE  \E f \in ProjectFiles : q \in c.refuses[f]
  <2>1. q \in FrontRoutes(r) /\ q[1] \in ProjectPaths
    BY DEF ProjectRoutes
  <2>2. q[1] # Session
    <3>1. ASSUME NEW f \in ProjectFiles \ {"rust-projects"}, Session \in DOMAIN Table[f].want
          PROVE  FALSE
      <4>1. f \in PairNames
        BY RoutesAssumption
      <4> QED
        BY <3>1, <4>1, RoutesAssumption
    <3> QED
      BY <2>1, <3>1 DEF ProjectPaths, Session, Deletes, MovePath
  <2>3. PICK p \in moved : q \in Claims(Want(r, p))
    BY <2>1, <2>2, RollbackRoutes
  <2>4. p \in PairNames /\ q[1] \in DOMAIN Table[p].want
    BY <2>3, WantedPaths DEF Closed, Claims
  <2>5. p \in ProjectFiles
    BY <2>1, <2>4, RoutesAssumption
  <2>6. Want(r, p) = Want([features |-> Features(moved)], p)
    BY DEF RsOf, Want
  <2>7. c.refuses[p] = Claims(Want(r, p))
    BY <2>4, <2>6 DEF CoreOf, Files
  <2> QED
    BY <2>3, <2>5, <2>7
<1> QED
  BY <1>1, <1>2 DEF ProjectsAgree

(* Commits that have moved any closed set of pairs, and nothing else, pass   *)
(* every guard, whatever the released commit.                                *)
LEMMA RollbackAccepted ==
  ASSUME NEW moved, Closed(moved), NEW n
  PROVE  Accepts(CoreOf(moved), RsOf(moved), n)
<1> DEFINE r == RsOf(moved)
           c == CoreOf(moved)
<1>1. /\ r.features = Features(moved) /\ r.table = TRUE /\ r.caps = {}
      /\ c.caps = {"refuseOwnedRoute", "refuseOwned"}
      /\ c.refuses["rust-projects"] = {} /\ c.refuses["rust-web-address"] = {}
  BY RollbackFiles DEF RsOf, CoreOf
<1>2. ASSUME NEW x \in r.rows, x.owner = "rust"
      PROVE  x.path \notin {History, MovePath, "/api/account/retention"} \cup Deletes \cup WebPaths
  <2>1. CASE x.path = Session
    BY <2>1 DEF Session, History, MovePath, Deletes, WebPaths, WebReads, WebWrites
  <2>2. ASSUME NEW p \in moved, x.path \in DOMAIN Want(r, p)
        PROVE  x.path \notin {History, MovePath, "/api/account/retention"} \cup Deletes \cup WebPaths
    <3>1. p \in PairNames /\ x.path \in DOMAIN Table[p].want
      BY <2>2, WantedPaths DEF Closed
    <3> QED
      BY <3>1, RoutesAssumption
  <2> QED
    BY <1>2, <2>1, <2>2, FrontRows
<1>3. ASSUME NEW q \in FrontRoutes(r)
      PROVE  q[1] \notin {History, MovePath} \cup Deletes
  <2>1. PICK x \in r.rows : x.owner = "rust" /\ q[1] = x.path
    BY DEF FrontRoutes
  <2> QED
    BY <1>2, <2>1
<1>4. TableAgrees(c, r, n)
  <2>1. NoSwitch(r)
    BY FrontRows DEF NoSwitch
  <2>2. ProjectsAgree(c, r)
    BY RollbackProjects
  <2>3. SignInAgrees(c, r)
    <3>1. Row(Session, "rust", {"GET"}) \in r.rows
      BY DEF RsOf
    <3> QED
      BY <1>1, <3>1 DEF SignInAgrees, Row
  <2>4. StartIdAgrees(r, n) /\ BrainAgrees(c, r)
    BY <1>1 DEF StartIdAgrees, BrainAgrees
  <2>5. ~HistoryOwned(r, "GET") /\ ~HistoryOwned(r, "POST")
    BY <1>2 DEF HistoryOwned
  <2>6. RunningMarked(c, r) /\ HistoryAgrees(c, r)
    BY <1>1, <2>5 DEF RunningMarked, HistoryAgrees, Listed
  <2>7. DeletesAgree(c, r)
    <3>1. \A path \in Deletes : ~DeleteOwned(r, path)
      BY <1>3 DEF DeleteOwned, Owns
    <3> QED
      BY <1>1, <3>1 DEF DeletesAgree, Listed
  <2>8. MoveAgrees(c, r)
    <3>1. ~MoveOwned(r) /\ ~MoveRefused(c)
      BY <1>1, <1>3 DEF MoveOwned, MoveRefused, Listed
    <3> QED
      BY <1>1, <3>1 DEF MoveAgrees, MoveTouched
  <2> QED
    BY <2>1, <2>2, <2>3, <2>4, <2>6, <2>7, <2>8 DEF TableAgrees
<1>5. RetentionAgrees(c, r)
  BY <1>1, <1>2 DEF RetentionAgrees
<1>6. WebAddressAgrees(c, r, n)
  <2>1. WebRows(r) = {}
    BY <1>2 DEF WebRows
  <2>2. WebOwned(r) = {}
    BY <2>1 DEF WebOwned
  <2> QED
    BY <1>1, <2>2 DEF WebAddressAgrees
<1>7. SourceStoreAgrees(c, r)
  BY <1>1 DEF SourceStoreAgrees
<1>8. \A p \in PairNames : PairAgrees(c, r, p)
  BY RollbackPair
<1> QED
  BY <1>1, <1>4, <1>5, <1>6, <1>7, <1>8 DEF Accepts

(* ... so a run that reaches the guards with them goes on: no pair has to    *)
(* move before another that it does not name, in any order of moves.         *)
THEOREM RollbackPasses == AssemblySpec => []RollbackAssembles
<1>1. RollbackAssembles
  BY RollbackAccepted DEF RollbackAssembles, Rust
<1> QED
  BY <1>1, PTL

-----------------------------------------------------------------------------
(* IdleGate.                                                                 *)

Elsewhere ==
  /\ unknown \subseteq accounts \cup {Root}
  /\ \A a \in Accounts \ accounts : old[a] = 0

Proved == gpc \in {"list", "read"} => store = "strict"

Reading ==
  gpc = "read" =>
    /\ users # "other"
    /\ unknown \subseteq todo
    /\ \A d \in Dirs : old[d] > 0 => d \in todo \/ active > 0

Final == verdict # "none" => gpc = "done"

IInv ==
  /\ IdleTypeOK /\ Elsewhere /\ Proved /\ Reading /\ Final
  /\ NoOldJobMissed /\ UnknownIsBusy

-----------------------------------------------------------------------------
LEMMA Initially == IdleInit => IInv
<1> SUFFICES ASSUME IdleInit PROVE IInv
  OBVIOUS
<1> USE IdleAssumption DEF IdleInit
<1>1. IdleTypeOK
  BY DEF IdleTypeOK, Dirs
<1>2. Elsewhere
  BY DEF Elsewhere
<1>3. Proved /\ Reading /\ Final /\ NoOldJobMissed /\ UnknownIsBusy
  BY DEF Proved, Reading, Final, NoOldJobMissed, UnknownIsBusy
<1> QED
  BY <1>1, <1>2, <1>3 DEF IInv

(* The gate's own steps leave the server's state, and may answer.            *)
LEMMA GateSteps ==
  ASSUME IInv, Prove \/ List \/ Answer \/ GiveUp
  PROVE  IInv'
<1> USE IdleAssumption DEF IInv, Answered, jobs
<1>1. CASE Prove
  <2>1. IdleTypeOK'
    BY <1>1 DEF Prove, IdleTypeOK
  <2>2. Elsewhere' /\ Proved' /\ Reading' /\ Final' /\ NoOldJobMissed' /\ UnknownIsBusy'
    BY <1>1 DEF Prove, Elsewhere, Proved, Reading, Final, NoOldJobMissed, UnknownIsBusy, IdleTypeOK
  <2> QED BY <2>1, <2>2
<1>2. CASE List
  <2>1. Folders \subseteq Dirs /\ \A d \in Dirs : old[d] > 0 => d \in Folders
    BY DEF Folders, Dirs, IdleTypeOK, Elsewhere
  <2>2. IdleTypeOK'
    BY <1>2, <2>1 DEF List, IdleTypeOK
  <2>3. Reading'
    BY <1>2, <2>1 DEF List, Reading, Elsewhere, Folders
  <2>4. Elsewhere' /\ Proved' /\ Final' /\ NoOldJobMissed' /\ UnknownIsBusy'
    BY <1>2 DEF List, Elsewhere, Proved, Final, NoOldJobMissed, UnknownIsBusy, IdleTypeOK
  <2> QED BY <2>2, <2>3, <2>4
<1>3. CASE Answer
  <2>1. IdleTypeOK'
    BY <1>3 DEF Answer, IdleTypeOK
  <2>2. Elsewhere' /\ Proved' /\ Reading' /\ Final'
    BY <1>3 DEF Answer, Elsewhere, Proved, Reading, Final
  <2>3. NoOldJobMissed'
    BY <1>3 DEF Answer, Reading, NoOldJobMissed, IdleTypeOK
  <2>4. UnknownIsBusy'
    BY <1>3 DEF Answer, Reading, Proved, UnknownIsBusy
  <2> QED BY <2>1, <2>2, <2>3, <2>4
<1>4. CASE GiveUp
  <2>1. IdleTypeOK'
    BY <1>4 DEF GiveUp, IdleTypeOK
  <2>2. Elsewhere' /\ Proved' /\ Reading' /\ Final' /\ NoOldJobMissed' /\ UnknownIsBusy'
    BY <1>4 DEF GiveUp, Elsewhere, Proved, Reading, Final, NoOldJobMissed, UnknownIsBusy
  <2> QED BY <2>1, <2>2
<1> QED
  BY <1>1, <1>2, <1>3, <1>4

(* One directory is read: its old jobs are counted. *)
LEMMA ReadStep ==
  ASSUME IInv, NEW d \in Dirs, Read(d)
  PROVE  IInv'
<1> USE DEF IInv, Answered, jobs
<1>1. IdleTypeOK'
  BY DEF Read, IdleTypeOK
<1>2. Reading'
  BY DEF Read, Reading, IdleTypeOK
<1>3. Elsewhere' /\ Proved' /\ Final' /\ NoOldJobMissed' /\ UnknownIsBusy'
  BY DEF Read, Elsewhere, Proved, Final, NoOldJobMissed, UnknownIsBusy
<1> QED
  BY <1>1, <1>2, <1>3

(* The server's steps add no old job and no unknown directory. *)
LEMMA ServerSteps ==
  ASSUME IInv,
         \/ \E d \in Dirs : Begin(d) \/ End(d)
         \/ \E a \in Accounts : Join(a)
  PROVE  IInv'
<1> USE IdleAssumption DEF IInv
<1>1. /\ gpc # "done" /\ UNCHANGED <<store, unknown, todo, active, gpc, verdict>>
      /\ accounts \subseteq accounts' /\ accounts' \subseteq Accounts
      /\ users' = users \/ (users # "other" /\ users' = "directory")
      /\ old' \in [Dirs -> 0..MaxJobs] /\ new' \in [Dirs -> 0..MaxJobs]
      /\ \A d \in Dirs : old'[d] <= old[d]
  <2>1. CASE \E d \in Dirs : Begin(d)
    BY <2>1 DEF Begin, IdleTypeOK
  <2>2. CASE \E d \in Dirs : End(d)
    BY <2>2 DEF End, IdleTypeOK
  <2>3. CASE \E a \in Accounts : Join(a)
    BY <2>3 DEF Join, jobs, IdleTypeOK
  <2> QED BY <2>1, <2>2, <2>3
<1>2. \A d \in Dirs : old[d] = 0 => old'[d] = 0
  BY <1>1 DEF IdleTypeOK
<1>3. IdleTypeOK'
  BY <1>1 DEF IdleTypeOK
<1>4. Elsewhere'
  BY <1>1, <1>2 DEF Elsewhere, Dirs
<1>5. Reading'
  BY <1>1, <1>2 DEF Reading, IdleTypeOK
<1>6. Proved' /\ Final' /\ NoOldJobMissed' /\ UnknownIsBusy'
  BY <1>1 DEF Proved, Final, NoOldJobMissed, UnknownIsBusy, IdleTypeOK
<1> QED
  BY <1>3, <1>4, <1>5, <1>6

LEMMA Stuttering ==
  ASSUME IInv, UNCHANGED idleVars
  PROVE  IInv'
BY DEF IInv, IdleTypeOK, Elsewhere, Proved, Reading, Final, NoOldJobMissed, UnknownIsBusy,
       idleVars, jobs

LEMMA Inductive == IdleSpec => []IInv
<1>1. IInv /\ [IdleNext]_idleVars => IInv'
  BY GateSteps, ReadStep, ServerSteps, Stuttering DEF IdleNext
<1> QED
  BY Initially, <1>1, PTL DEF IdleSpec

-----------------------------------------------------------------------------
(* The types of the gate's variables. *)
THEOREM IdleTypeCorrect == IdleSpec => []IdleTypeOK
<1>1. IInv => IdleTypeOK
  BY DEF IInv
<1> QED
  BY <1>1, Inductive, PTL

(* release-idle-jobs.cjs: an idle answer misses no job from before the       *)
(* question, however many accounts and jobs there are and whatever starts,   *)
(* ends or moves in while it reads.                                          *)
THEOREM IdleMissesNothingOld == IdleSpec => []NoOldJobMissed
<1>1. IInv => NoOldJobMissed
  BY DEF IInv
<1> QED
  BY <1>1, Inductive, PTL

(* release-idle-jobs.cjs: what cannot be read exactly is never idle.         *)
THEOREM IdleMeansKnown == IdleSpec => []UnknownIsBusy
<1>1. IInv => UnknownIsBusy
  BY DEF IInv
<1> QED
  BY <1>1, Inductive, PTL
================================================================================
