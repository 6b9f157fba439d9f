------------------------------ MODULE StartGate ------------------------------
(***************************************************************************)
(* What build/web-supervisor.sh checks before it launches anything: that   *)
(* the two halves of the web image (the Rust front noevia-server and the   *)
(* Node Core) agree on which of them owns every route and every store.     *)
(* An image is described by what the script reads: the lines printed by    *)
(* `noevia-server --features` and the markers it greps for in Core's       *)
(* files. Every refusal is an exit with nothing started, so the order of   *)
(* the checks does not matter and StartAllowed is their conjunction; only  *)
(* the exit status of a refusal (RefusedWith) tells some of them apart.    *)
(***************************************************************************)
EXTENDS StartPairs, PortText

Guard     == "code-net-guard"
Embedding == "rust-embedding-background-v1"
Baseline  == "rust-preset-baseline"
Store     == "noevia-source-jobs-store/1"
Claim     == "legacy-root-claim"

Singles == {Guard, Embedding, Baseline, Store, Claim}

ASSUME DistinctFeatures == Singles \cap (Pairs \cup Required) = {}

Features == Pairs \cup Required \cup Singles

(* What the script reads of one container start. *)
Image ==
  [front     : {"rust", "other"},                \* NOEVIA_FRONT (unset means rust)
   bin       : {"absolute", "relative", "none"}, \* how noevia-server is named, if executable
   codeNet   : BOOLEAN,                          \* COWORK_CODE_NET_ADDR is set
   features  : SUBSET Features,                  \* noevia-server --features
   marks     : SUBSET (Pairs \cup {Baseline}),   \* markers found in Core's files
   embedding : {"absent", "owned", "broken"},    \* Core's embedding ownership export
   client    : {"absent", "canonical", "broken"},\* Core's source-jobs client export
   worker    : BOOLEAN,                          \* Core still ships the source worker path
   port      : Text]                             \* UI_PORT

-----------------------------------------------------------------------------
FrontSelected(img) == img.front = "rust" /\ img.bin # "none"

CodeNetGuarded(img) == img.codeNet => Guard \in img.features

RequiredListed(img) == Required \subseteq img.features

(* Mutant: only a Core that refuses a route is checked, not the front that   *)
(* answers it.                                                               *)
PairsAgreeOneWay(img) == \A p \in Pairs : p \in img.marks => p \in img.features

(* One block per pair in the script: the marker in Core's index.cjs and the  *)
(* feature of the front must both be there or both be missing.               *)
PairsAgree(img) == \A p \in Pairs : (p \in img.marks) <=> (p \in img.features)

(* Mutant: the idle front beside an old Core is refused too. *)
EmbeddingAgreesBothWays(img) ==
  /\ img.embedding # "broken"
  /\ (img.embedding = "owned") <=> (Embedding \in img.features)

(* One direction only: a Core that gave embedding away needs the front that  *)
(* took it; a declaration that does not export the canonical value is        *)
(* refused; a new front beside an old Core stays idle.                       *)
EmbeddingAgrees(img) ==
  /\ img.embedding # "broken"
  /\ img.embedding = "owned" => Embedding \in img.features

BaselineAgrees(img) == Baseline \in img.marks => Baseline \in img.features

SourceJobsAgree(img) ==
  /\ img.client # "broken"
  /\ (img.client = "canonical") <=> (Store \in img.features)

WorkerRemoved(img) == SourceWork \in img.marks => ~img.worker

ClaimNamed(img) == Claim \in img.features => img.bin = "absolute"

(* The ports of the two listeners beside the front: Core's and the store's.  *)
LegacyPort(img) == Plus(img.port, 1000)
StorePort(img)  == Plus(img.port, 2000)

(* Mutant: the room for the project store port is not checked. *)
PortsFitLegacyOnly(img) == InRange(img.port) /\ ShellReads(img.port)

PortsFit(img) == InRange(img.port) /\ ShellReads(img.port) /\ StorePort(img) <= 65535

PairAllowed(img) ==
  /\ FrontSelected(img)
  /\ CodeNetGuarded(img)
  /\ RequiredListed(img)
  /\ PairsAgree(img)
  /\ EmbeddingAgrees(img)
  /\ BaselineAgrees(img)
  /\ SourceJobsAgree(img)
  /\ WorkerRemoved(img)
  /\ ClaimNamed(img)

StartAllowed(img) == PairAllowed(img) /\ PortsFit(img)

(* A check that fails is exit 2; but a UI_PORT the arithmetic cannot read    *)
(* leaves store_port unset, and `set -u` ends the script with 1.             *)
RefusedWith(img) ==
  IF PairAllowed(img) /\ InRange(img.port) /\ ~ShellReads(img.port) THEN 1 ELSE 2

-----------------------------------------------------------------------------
(* Who serves what once started, as the comments beside each check say: a    *)
(* Core without the marker still answers the route, one with the marker      *)
(* refuses it; a front with the feature answers it. The embedding front      *)
(* works only once Core has given the job away; the source-job store is the  *)
(* front's behind Core's client (the older pair) or by rust-source-jobs; a   *)
(* Core that still carries the worker path runs the source operations.       *)
Routes == Pairs \cup {Embedding, Store}

CoreOwns(img) ==
  (Pairs \ img.marks)
    \cup {r \in {Embedding} : img.embedding # "owned"}
    \cup {r \in {Store} : img.client # "canonical" /\ SourceJobs \notin img.marks}
    \cup {r \in {SourceWork} : img.worker}

FrontOwns(img) ==
  (img.features \cap Pairs)
    \cup {r \in {Embedding} : img.embedding = "owned" /\ Embedding \in img.features}
    \cup {r \in {Store} : img.features \cap {Store, SourceJobs} # {}}

Owns(img, p) == IF p = "node" THEN CoreOwns(img) ELSE FrontOwns(img)
=============================================================================
