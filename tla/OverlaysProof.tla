----------------------------- MODULE OverlaysProof -----------------------------
(***************************************************************************)
(* The two overlay scripts, one at a time, for any number of runs, releases *)
(* and faults: what a run of either leaves behind.                         *)
(*                                                                         *)
(* The parts of the inductive invariant follow the scripts: Preparing up to *)
(* the line that writes DIARY_VERSION, Cutover from there into rollback(), *)
(* Leaving for the trap and recover_diary, Resting between runs, Releasing *)
(* for overlay-release.sh. byHand, cut and wcut are the ways in which a run *)
(* may have left the container as nobody wanted it.                        *)
(***************************************************************************)
EXTENDS MCOverlays, TLAPS

Containers == [image : {"old", "new"}, running : BOOLEAN]
Current == [image |-> env, running |-> TRUE]
EarlyWeb == {"checks", "build", "copy", "link", "version", "up"}

DiaryTypes ==
  /\ env \in {"old", "new"}
  /\ tag \in BOOLEAN /\ cand \in BOOLEAN
  /\ stopped \in BOOLEAN /\ built \in BOOLEAN /\ complete \in BOOLEAN
  /\ byHand \in BOOLEAN /\ cut \in BOOLEAN /\ unremoved \in BOOLEAN
  /\ pc \in Body \cup Rollback \cup {"recover", "onExit", "end"}
  /\ exit \in {0, 1, 2}

Counts == runs \in 0..MaxRuns /\ faults \in 0..MaxFaults

WebTypes ==
  /\ cowork \in {"old", "new"} /\ link \in {"old", "new"} /\ kept \in {"old", "new"}
  /\ web \in Containers
  /\ bak \in [cowork : {"old", "new"}, diary : {"old", "new"}]
  /\ wpc \in EarlyWeb \cup {"unlink", "restore", "upAgain", "confirmed", "rolledBack", "end"}
  /\ wcut \in BOOLEAN

Types == box \in Containers /\ DiaryTypes /\ Counts /\ WebTypes

Apart == DiaryRests \/ WebRests

Resting ==
  /\ pc = "checks" => exit = 2 /\ ~byHand /\ ~stopped /\ ~built /\ ~complete
  /\ pc = "end" => exit \in {0, 1} /\ (exit = 1 /\ built /\ ~cut => env = "old")
  /\ DiaryRests /\ ~byHand /\ ~wcut /\ wpc \in EarlyWeb \cup {"end"} =>
       (~cut => box = Current) /\ (stopped => box.running)

Preparing ==
  pc \in Before \ {"checks"} =>
    /\ env = "old" /\ box.image = "old" /\ exit = 2 /\ ~complete /\ ~byHand
    /\ tag <=> pc = "setEnv"
    /\ built <=> pc # "build"
    /\ stopped <=> pc \in {"archive", "tagV", "setEnv"}
    /\ ~stopped /\ ~cut /\ ~wcut => box.running

Cutover ==
  pc \in {"up", "isolated", "health", "inspect", "rmCand", "restoreEnv", "rmTag"} =>
    /\ env = IF pc = "rmTag" THEN "old" ELSE "new"
    /\ tag /\ built /\ ~stopped /\ ~complete /\ ~byHand /\ exit = 2
    /\ pc \in {"isolated", "health", "inspect", "rmCand"} => box = Current

Leaving ==
  /\ pc = "recover" =>
       /\ exit = 1 /\ ~complete /\ ~byHand
       /\ stopped /\ built /\ cand => tag \/ unremoved
       /\ ~stopped => built
       /\ ~cut \/ ~stopped => env = "old"
  /\ pc = "onExit" /\ exit # 1 => exit = 0 /\ complete /\ ~cand /\ ~stopped /\ box = Current
  /\ pc = "onExit" /\ exit = 1 =>
       /\ ~complete
       /\ stopped => ~byHand /\ box.image = "old"
       /\ ~cut => env = "old"
       /\ ~cut /\ ~wcut /\ ~stopped => byHand \/ box = Current

Releasing ==
  /\ wpc \in {"build", "copy", "link"} => link = "old" /\ cowork = "old"
  /\ wpc = "version" => link = "new" /\ cowork = "old"
  /\ wpc \in {"up", "unlink", "confirmed"} => link = "new" /\ cowork = "new"
  /\ wpc = "restore" => link = "old"
  /\ wpc \in {"upAgain", "rolledBack"} => link = "old" /\ cowork = "old"
  /\ wpc \in {"confirmed", "rolledBack"} =>
       web = [image |-> cowork, running |-> TRUE] /\ box = Current
  /\ wpc \in {"link", "version", "up", "unlink", "restore"} =>
       bak = [cowork |-> "old", diary |-> env]

IInv == Types /\ Apart /\ Resting /\ Preparing /\ Cutover /\ Leaving /\ Releasing

-----------------------------------------------------------------------------
(* A container with a known image is a container, stopped or running. *)
LEMMA OneContainer ==
  /\ \A i \in {"old", "new"}, r \in BOOLEAN : [image |-> i, running |-> r] \in Containers
  /\ \A b \in Containers, r \in BOOLEAN : [b EXCEPT !.running = r] \in Containers
BY DEF Containers

LEMMA Initially == OverlayInit => IInv
<1> SUFFICES ASSUME OverlayInit PROVE IInv
  OBVIOUS
<1> USE DEF OverlayInit, Init, W!Init
<1>1. Types
  <2>1. box \in Containers /\ web \in Containers
    BY OneContainer
  <2>2. DiaryTypes
    BY DEF DiaryTypes, Before, Body
  <2>3. Counts
    BY OverlayAssumption DEF Counts
  <2>4. WebTypes
    BY <2>1 DEF WebTypes, EarlyWeb
  <2> QED BY <2>1, <2>2, <2>3, <2>4 DEF Types
<1>2. Apart /\ Resting /\ Preparing /\ Cutover /\ Leaving /\ Releasing
  BY DEF Apart, DiaryRests, WebRests, Resting, Preparing, Cutover, Leaving, Releasing, Current, EarlyWeb
<1> QED
  BY <1>1, <1>2 DEF IInv

-----------------------------------------------------------------------------
(* The web release's part of the state during a step of the Diary script. *)
Aside ==
  /\ WebRests
  /\ cowork' \in {cowork, kept} /\ kept' \in {cowork, kept}
  /\ UNCHANGED <<link, web, bak, wpc, releases, wcut>>

(* The refusals. *)
LEMMA ChecksStep ==
  ASSUME IInv, Aside, Checks
  PROVE  IInv'
<1> USE DEF IInv, Aside, Checks, images, flags, ends
<1>1. Types'
  <2>2. box' \in Containers
    BY DEF Types
  <2>3. DiaryTypes'
    BY DEF Types, DiaryTypes, Before, Body, Rollback
  <2>4. Counts' /\ WebTypes'
    BY DEF Types, Counts, WebTypes, EarlyWeb
  <2> QED BY <2>2, <2>3, <2>4 DEF Types
<1>2. Apart' /\ Releasing'
  BY DEF Apart, Releasing, WebRests
<1>3. Resting'
  BY DEF Resting, DiaryRests, Current
<1>4. Preparing' /\ Cutover'
  BY DEF WebTypes, Resting, Preparing, Cutover, DiaryRests, WebRests, Current, Before, EarlyWeb
<1>5. Leaving'
  BY DEF Leaving
<1> QED
  BY <1>1, <1>2, <1>3, <1>4, <1>5

LEMMA BuildStep ==
  ASSUME IInv, Aside, Build
  PROVE  IInv'
<1> USE DEF IInv, Aside, Build, At, images, flags, ends
<1>1. Types'
  <2>2. box' \in Containers
    BY DEF Types
  <2>3. DiaryTypes'
    BY DEF Types, DiaryTypes, Before, Body, Rollback
  <2>4. Counts' /\ WebTypes'
    BY DEF Types, Counts, WebTypes, EarlyWeb
  <2> QED BY <2>2, <2>3, <2>4 DEF Types
<1>2. Apart' /\ Releasing'
  BY DEF Apart, Releasing, WebRests
<1>3. Resting'
  BY DEF Resting, DiaryRests
<1>4. Preparing' /\ Cutover'
  BY DEF Preparing, Cutover, Before
<1>5. Leaving'
  BY DEF Leaving
<1> QED
  BY <1>1, <1>2, <1>3, <1>4, <1>5

LEMMA ProveStep ==
  ASSUME IInv, Aside, Prove
  PROVE  IInv'
<1> USE DEF IInv, Aside, Prove, At, images, flags, ends
<1>1. Types'
  <2>2. box' \in Containers
    BY DEF Types
  <2>3. DiaryTypes'
    BY DEF Types, DiaryTypes, Before, Body, Rollback
  <2>4. Counts' /\ WebTypes'
    BY DEF Types, Counts, WebTypes, EarlyWeb
  <2> QED BY <2>2, <2>3, <2>4 DEF Types
<1>2. Apart' /\ Releasing'
  BY DEF Apart, Releasing, WebRests
<1>3. Resting'
  BY DEF Resting, DiaryRests
<1>4. Preparing' /\ Cutover'
  BY DEF Preparing, Cutover, Before
<1>5. Leaving'
  BY DEF Leaving
<1> QED
  BY <1>1, <1>2, <1>3, <1>4, <1>5

(* The backup. *)
LEMMA StopDiaryStep ==
  ASSUME IInv, Aside, StopDiary
  PROVE  IInv'
<1> USE DEF IInv, Aside, StopDiary, At, images, flags, ends
<1>1. Types'
  <2>1. box \in Containers /\ env \in {"old", "new"}
    BY DEF Types, DiaryTypes
  <2>2. box' \in Containers
    BY <2>1, OneContainer
  <2>3. DiaryTypes'
    BY DEF Types, DiaryTypes, Before, Body, Rollback
  <2>4. Counts' /\ WebTypes'
    BY DEF Types, Counts, WebTypes, EarlyWeb
  <2> QED BY <2>2, <2>3, <2>4 DEF Types
<1>2. Apart' /\ Releasing'
  BY DEF Apart, Releasing, WebRests
<1>3. Resting'
  BY DEF Resting, DiaryRests
<1>4. Preparing' /\ Cutover'
  BY DEF Preparing, Cutover, Before
<1>5. Leaving'
  BY DEF Leaving
<1> QED
  BY <1>1, <1>2, <1>3, <1>4, <1>5

LEMMA ArchiveStep ==
  ASSUME IInv, Aside, Archive
  PROVE  IInv'
<1> USE DEF IInv, Aside, Archive, At, images, flags, ends
<1>1. Types'
  <2>2. box' \in Containers
    BY DEF Types
  <2>3. DiaryTypes'
    BY DEF Types, DiaryTypes, Before, Body, Rollback
  <2>4. Counts' /\ WebTypes'
    BY DEF Types, Counts, WebTypes, EarlyWeb
  <2> QED BY <2>2, <2>3, <2>4 DEF Types
<1>2. Apart' /\ Releasing'
  BY DEF Apart, Releasing, WebRests
<1>3. Resting'
  BY DEF Resting, DiaryRests
<1>4. Preparing' /\ Cutover'
  BY DEF Preparing, Cutover, Before
<1>5. Leaving'
  BY DEF Leaving
<1> QED
  BY <1>1, <1>2, <1>3, <1>4, <1>5

LEMMA TagVStep ==
  ASSUME IInv, Aside, TagV
  PROVE  IInv'
<1> USE DEF IInv, Aside, TagV, At, images, flags, ends
<1>1. Types'
  <2>2. box' \in Containers
    BY DEF Types
  <2>3. DiaryTypes'
    BY DEF Types, DiaryTypes, Before, Body, Rollback
  <2>4. Counts' /\ WebTypes'
    BY DEF Types, Counts, WebTypes, EarlyWeb
  <2> QED BY <2>2, <2>3, <2>4 DEF Types
<1>2. Apart' /\ Releasing'
  BY DEF Apart, Releasing, WebRests
<1>3. Resting'
  BY DEF Resting, DiaryRests
<1>4. Preparing' /\ Cutover'
  BY DEF Preparing, Cutover, Before
<1>5. Leaving'
  BY DEF Leaving
<1> QED
  BY <1>1, <1>2, <1>3, <1>4, <1>5

(* From here rollback() owns the container. *)
LEMMA SetEnvStep ==
  ASSUME IInv, Aside, SetEnv
  PROVE  IInv'
<1> USE DEF IInv, Aside, SetEnv, At, images, flags, ends
<1>1. Types'
  <2>2. box' \in Containers
    BY DEF Types
  <2>3. DiaryTypes'
    BY DEF Types, DiaryTypes, Body, Rollback
  <2>4. Counts' /\ WebTypes'
    BY DEF Types, Counts, WebTypes, EarlyWeb
  <2> QED BY <2>2, <2>3, <2>4 DEF Types
<1>2. Apart' /\ Releasing'
  BY DEF Apart, Releasing, WebRests
<1>3. Resting'
  BY DEF Resting, DiaryRests
<1>4. Preparing' /\ Cutover'
  BY DEF Preparing, Cutover, Before
<1>5. Leaving'
  BY DEF Leaving
<1> QED
  BY <1>1, <1>2, <1>3, <1>4, <1>5

(* The cutover and its checks. *)
LEMMA CutOverStep ==
  ASSUME IInv, Aside, CutOver
  PROVE  IInv'
<1> USE DEF IInv, Aside, CutOver, Fault, UpDone, Recreated, AfterFailedUp, images, flags, ends
<1>1. Types'
  <2>1. box \in Containers /\ env \in {"old", "new"}
    BY DEF Types, DiaryTypes
  <2>2. box' \in Containers
    BY <2>1, OneContainer
  <2>3. DiaryTypes'
    BY DEF Types, DiaryTypes, Body, Rollback
  <2>4. Counts' /\ WebTypes'
    BY OverlayAssumption DEF Types, Counts, WebTypes, EarlyWeb
  <2> QED BY <2>2, <2>3, <2>4 DEF Types
<1>2. Apart' /\ Releasing'
  BY DEF Apart, Releasing, WebRests
<1>3. Resting'
  BY DEF Resting, DiaryRests
<1>4. Preparing' /\ Cutover'
  BY DEF Preparing, Cutover, Current, Before
<1>5. Leaving'
  BY DEF Leaving
<1> QED
  BY <1>1, <1>2, <1>3, <1>4, <1>5

LEMMA ConfirmStep ==
  ASSUME IInv, Aside, Confirm
  PROVE  IInv'
<1> USE DEF IInv, Aside, Confirm, At, Fault, images, flags, ends
<1>1. Types'
  <2>2. box' \in Containers
    BY DEF Types
  <2>3. DiaryTypes'
    BY DEF Types, DiaryTypes, Body, Late, Rollback
  <2>4. Counts' /\ WebTypes'
    BY OverlayAssumption DEF Types, Counts, WebTypes, EarlyWeb
  <2> QED BY <2>2, <2>3, <2>4 DEF Types
<1>2. Apart' /\ Releasing'
  BY DEF Apart, Releasing, WebRests
<1>3. Resting'
  BY DEF Resting, DiaryRests
<1>4. Preparing' /\ Cutover'
  BY DEF Preparing, Cutover, Current, Before
<1>5. Leaving'
  BY DEF Leaving
<1> QED
  BY <1>1, <1>2, <1>3, <1>4, <1>5

LEMMA ReportStep ==
  ASSUME IInv, Aside, Report
  PROVE  IInv'
<1> USE DEF IInv, Aside, Report, At, images, flags, ends
<1>1. Types'
  <2>2. box' \in Containers
    BY DEF Types
  <2>3. DiaryTypes'
    BY DEF Types, DiaryTypes, Body, Late, Rollback
  <2>4. Counts' /\ WebTypes'
    BY DEF Types, Counts, WebTypes, EarlyWeb
  <2> QED BY <2>2, <2>3, <2>4 DEF Types
<1>2. Apart' /\ Releasing'
  BY DEF Apart, Releasing, WebRests
<1>3. Resting'
  BY DEF Resting, DiaryRests
<1>4. Preparing' /\ Cutover'
  BY DEF Preparing, Cutover, Current, Before
<1>5. Leaving'
  BY DEF Leaving
<1> QED
  BY <1>1, <1>2, <1>3, <1>4, <1>5

LEMMA FinishStep ==
  ASSUME IInv, Aside, Finish
  PROVE  IInv'
<1> USE DEF IInv, Aside, Finish, At, images, flags, ends
<1>1. Types'
  <2>2. box' \in Containers
    BY DEF Types
  <2>3. DiaryTypes'
    BY DEF Types, DiaryTypes
  <2>4. Counts' /\ WebTypes'
    BY DEF Types, Counts, WebTypes, EarlyWeb
  <2> QED BY <2>2, <2>3, <2>4 DEF Types
<1>2. Apart' /\ Releasing'
  BY DEF Apart, Releasing, WebRests
<1>3. Resting'
  BY DEF Resting, DiaryRests
<1>4. Preparing' /\ Cutover'
  BY DEF Preparing, Cutover, Before
<1>5. Leaving'
  BY DEF Cutover, Leaving, Current
<1> QED
  BY <1>1, <1>2, <1>3, <1>4, <1>5

(* set -e, and the trap. *)
LEMMA AbortStep ==
  ASSUME IInv, Aside, Abort
  PROVE  IInv'
<1> USE DEF IInv, Aside, Abort, Fault, Partial, Flagged, CutOff, Recreated, AfterFailedUp, images, flags, ends
<1>1. Types'
  <2>1. box \in Containers /\ env \in {"old", "new"}
    BY DEF Types, DiaryTypes
  <2>2. box' \in Containers
    BY <2>1, OneContainer
  <2>3. DiaryTypes'
    BY DEF Types, DiaryTypes
  <2>4. Counts' /\ WebTypes'
    BY OverlayAssumption DEF Types, Counts, WebTypes, EarlyWeb
  <2> QED BY <2>2, <2>3, <2>4 DEF Types
<1>2. Apart' /\ Releasing'
  BY DEF Apart, Releasing, WebRests
<1>3. Resting'
  BY DEF Resting, DiaryRests
<1>4. Preparing' /\ Cutover'
  BY DEF Preparing, Cutover, Before
<1>5. Leaving'
  BY DEF Types, DiaryTypes, Containers, Preparing, Cutover, Leaving, Current, Late
<1> QED
  BY <1>1, <1>2, <1>3, <1>4, <1>5

LEMMA InterruptStep ==
  ASSUME IInv, Aside, Interrupt
  PROVE  IInv'
<1> USE DEF IInv, Aside, Interrupt, Fault, Partial, Flagged, CutOff, Recreated, AfterFailedUp, images, flags, ends
<1>1. Types'
  <2>1. box \in Containers /\ env \in {"old", "new"}
    BY DEF Types, DiaryTypes
  <2>2. box' \in Containers
    BY <2>1, OneContainer
  <2>3. DiaryTypes'
    BY ZenonT(60) DEF Types, DiaryTypes
  <2>4. Counts' /\ WebTypes'
    BY OverlayAssumption DEF Types, Counts, WebTypes, EarlyWeb
  <2> QED BY <2>2, <2>3, <2>4 DEF Types
<1>2. Apart' /\ Releasing'
  BY DEF Apart, Releasing, WebRests
<1>3. Resting'
  BY DEF Resting, DiaryRests
<1>4. Preparing' /\ Cutover'
  BY DEF Preparing, Cutover, Before
<1>5. Leaving'
  BY DEF Types, DiaryTypes, Containers, Preparing, Cutover, Leaving, Current, Late, Body, Rollback
<1> QED
  BY <1>1, <1>2, <1>3, <1>4, <1>5

(* rollback(), and recover_diary. *)
LEMMA RestoreEnvStep ==
  ASSUME IInv, Aside, RestoreEnv
  PROVE  IInv'
<1> USE DEF IInv, Aside, RestoreEnv, images, flags, ends
<1>1. Types'
  <2>2. box' \in Containers
    BY DEF Types
  <2>3. DiaryTypes'
    BY DEF Types, DiaryTypes, Body, Rollback
  <2>4. Counts' /\ WebTypes'
    BY DEF Types, Counts, WebTypes, EarlyWeb
  <2> QED BY <2>2, <2>3, <2>4 DEF Types
<1>2. Apart' /\ Releasing'
  BY DEF Apart, Releasing, WebRests
<1>3. Resting'
  BY DEF Resting, DiaryRests
<1>4. Preparing' /\ Cutover'
  BY DEF Preparing, Cutover, Before
<1>5. Leaving'
  BY DEF Leaving
<1> QED
  BY <1>1, <1>2, <1>3, <1>4, <1>5

LEMMA RemoveTagStep ==
  ASSUME IInv, Aside, RemoveTag
  PROVE  IInv'
<1> USE DEF IInv, Aside, RemoveTag, At, Fault, images, flags, ends
<1>1. Types'
  <2>2. box' \in Containers
    BY DEF Types
  <2>3. DiaryTypes'
    BY ZenonT(60) DEF Types, DiaryTypes
  <2>4. Counts' /\ WebTypes'
    BY OverlayAssumption DEF Types, Counts, WebTypes, EarlyWeb
  <2> QED BY <2>2, <2>3, <2>4 DEF Types
<1>2. Apart' /\ Releasing'
  BY DEF Apart, Releasing, WebRests
<1>3. Resting'
  BY DEF Resting, DiaryRests
<1>4. Preparing' /\ Cutover'
  BY DEF Preparing, Cutover, Before
<1>5. Leaving'
  BY DEF Cutover, Leaving
<1> QED
  BY <1>1, <1>2, <1>3, <1>4, <1>5

LEMMA RecoverStep ==
  ASSUME IInv, Aside, Recover
  PROVE  IInv'
<1> USE DEF IInv, Aside, Recover, Fault, UpDone, Recreated, AfterFailedUp, images, flags, ends
<1>1. Types'
  <2>1. box \in Containers /\ env \in {"old", "new"}
    BY DEF Types, DiaryTypes
  <2>2. box' \in Containers
    BY <2>1, OneContainer
  <2>3. DiaryTypes'
    BY ZenonT(80) DEF Types, DiaryTypes
  <2>4. Counts' /\ WebTypes'
    BY OverlayAssumption DEF Types, Counts, WebTypes, EarlyWeb
  <2> QED BY <2>2, <2>3, <2>4 DEF Types
<1>2. Apart' /\ Releasing'
  BY DEF Apart, Releasing, WebRests
<1>3. Resting'
  BY DEF Types, DiaryTypes, Containers, Resting, Leaving, Current
<1>4. Preparing' /\ Cutover'
  BY DEF Preparing, Cutover, Before
<1>5. Leaving'
  BY DEF Types, DiaryTypes, Containers, Leaving, Current
<1> QED
  BY <1>1, <1>2, <1>3, <1>4, <1>5

(* The trap. *)
LEMMA OnExitStep ==
  ASSUME IInv, Aside, OnExit
  PROVE  IInv'
<1> USE DEF IInv, Aside, OnExit, DropCandidate, InUse, Fault, images, flags, ends
<1>1. Types'
  <2>2. box' \in Containers
    BY DEF Types
  <2>3. DiaryTypes'
    <3>1. cand' \in BOOLEAN /\ unremoved' \in BOOLEAN
      BY DEF Types, DiaryTypes
    <3> QED
      BY <3>1 DEF Types, DiaryTypes
  <2>4. Counts' /\ WebTypes'
    BY OverlayAssumption DEF Types, Counts, WebTypes, EarlyWeb
  <2> QED BY <2>2, <2>3, <2>4 DEF Types
<1>2. Apart' /\ Releasing'
  BY DEF Apart, Releasing, WebRests
<1>3. Resting'
  BY DEF Resting, Leaving, DiaryRests, Current
<1>4. Preparing' /\ Cutover'
  BY DEF Preparing, Cutover, Before
<1>5. Leaving'
  BY DEF Leaving
<1> QED
  BY <1>1, <1>2, <1>3, <1>4, <1>5

(* The operator's next run. *)
LEMMA RunAgainStep ==
  ASSUME IInv, Aside, RunAgain
  PROVE  IInv'
<1> USE DEF IInv, Aside, RunAgain, UpDone, Recreated, images, flags, ends
<1>1. Types'
  <2>1. box \in Containers /\ env \in {"old", "new"}
    BY DEF Types, DiaryTypes
  <2>2. box' \in Containers
    BY <2>1, OneContainer
  <2>3. DiaryTypes'
    BY DEF Types, DiaryTypes, Before, Body, Rollback
  <2>4. Counts' /\ WebTypes'
    BY OverlayAssumption DEF Types, Counts, WebTypes, EarlyWeb
  <2> QED BY <2>2, <2>3, <2>4 DEF Types
<1>2. Apart' /\ Releasing'
  BY DEF Apart, Releasing, WebRests
<1>3. Resting'
  BY DEF Resting, DiaryRests, Current
<1>4. Preparing' /\ Cutover'
  BY DEF Preparing, Cutover
<1>5. Leaving'
  BY DEF Leaving
<1> QED
  BY <1>1, <1>2, <1>3, <1>4, <1>5

LEMMA DiarySteps ==
  ASSUME IInv, ~Overlap, DiaryStep
  PROVE  IInv'
<1>1. Aside
  BY DEF DiaryStep, Aside
<1>2. Next
  BY DEF DiaryStep
<1> QED
  BY <1>1, <1>2, ChecksStep, BuildStep, ProveStep, StopDiaryStep, ArchiveStep, TagVStep, SetEnvStep, CutOverStep, ConfirmStep, ReportStep, FinishStep, AbortStep, InterruptStep, RestoreEnvStep, RemoveTagStep, RecoverStep, OnExitStep, RunAgainStep DEF Next

-----------------------------------------------------------------------------
(* The Diary script's part of the state during a step of the web release. *)
Between ==
  /\ DiaryRests
  /\ UNCHANGED <<cand, flags, ends, pc, kept>>

LEMMA WebChecksStep ==
  ASSUME IInv, Between, W!Checks
  PROVE  IInv'
<1> USE DEF IInv, Between, W!Checks, W!DiaryAsIs, flags, ends
<1>1. Types'
  <2>1. box \in Containers /\ web \in Containers /\ env \in {"old", "new"} /\ cowork \in {"old", "new"}
    BY DEF Types, DiaryTypes, WebTypes
  <2>2. box' \in Containers /\ web' \in Containers
    BY <2>1, OneContainer
  <2>3. DiaryTypes' /\ Counts'
    BY OverlayAssumption DEF Types, DiaryTypes, Counts, WebTypes
  <2>4. WebTypes'
    BY <2>2 DEF Types, DiaryTypes, WebTypes, EarlyWeb
  <2> QED BY <2>2, <2>3, <2>4 DEF Types
<1>2. Apart' /\ Preparing' /\ Cutover' /\ Leaving'
  BY DEF Apart, DiaryRests, Preparing, Cutover, Leaving
<1>3. Resting'
  BY DEF WebTypes, Resting, Releasing, Current, EarlyWeb
<1>4. Releasing'
  BY DEF Releasing
<1> QED
  BY <1>1, <1>2, <1>3, <1>4

LEMMA WebBuildStep ==
  ASSUME IInv, Between, W!Build
  PROVE  IInv'
<1> USE DEF IInv, Between, W!Build, W!At, W!DiaryAsIs, flags, ends
<1>1. Types'
  <2>1. box \in Containers /\ web \in Containers /\ env \in {"old", "new"} /\ cowork \in {"old", "new"}
    BY DEF Types, DiaryTypes, WebTypes
  <2>2. box' \in Containers /\ web' \in Containers
    BY <2>1, OneContainer
  <2>3. DiaryTypes' /\ Counts'
    BY OverlayAssumption DEF Types, DiaryTypes, Counts, WebTypes
  <2>4. WebTypes'
    BY <2>2 DEF Types, DiaryTypes, WebTypes, EarlyWeb
  <2> QED BY <2>2, <2>3, <2>4 DEF Types
<1>2. Apart' /\ Preparing' /\ Cutover' /\ Leaving'
  BY DEF Apart, DiaryRests, Preparing, Cutover, Leaving
<1>3. Resting'
  BY DEF WebTypes, Resting, Releasing, Current, EarlyWeb
<1>4. Releasing'
  BY DEF Releasing
<1> QED
  BY <1>1, <1>2, <1>3, <1>4

LEMMA WebCopyEnvStep ==
  ASSUME IInv, Between, W!CopyEnv
  PROVE  IInv'
<1> USE DEF IInv, Between, W!CopyEnv, W!At, W!DiaryAsIs, flags, ends
<1>1. Types'
  <2>1. box \in Containers /\ web \in Containers /\ env \in {"old", "new"} /\ cowork \in {"old", "new"}
    BY DEF Types, DiaryTypes, WebTypes
  <2>2. box' \in Containers /\ web' \in Containers
    BY <2>1, OneContainer
  <2>3. DiaryTypes' /\ Counts'
    BY OverlayAssumption DEF Types, DiaryTypes, Counts, WebTypes
  <2>4. WebTypes'
    BY <2>2 DEF Types, DiaryTypes, WebTypes, EarlyWeb
  <2> QED BY <2>2, <2>3, <2>4 DEF Types
<1>2. Apart' /\ Preparing' /\ Cutover' /\ Leaving'
  BY DEF Apart, DiaryRests, Preparing, Cutover, Leaving
<1>3. Resting'
  BY DEF WebTypes, Resting, Releasing, Current, EarlyWeb
<1>4. Releasing'
  BY DEF Releasing
<1> QED
  BY <1>1, <1>2, <1>3, <1>4

LEMMA WebRepointStep ==
  ASSUME IInv, Between, W!Repoint
  PROVE  IInv'
<1> USE DEF IInv, Between, W!Repoint, W!At, W!DiaryAsIs, flags, ends
<1>1. Types'
  <2>1. box \in Containers /\ web \in Containers /\ env \in {"old", "new"} /\ cowork \in {"old", "new"}
    BY DEF Types, DiaryTypes, WebTypes
  <2>2. box' \in Containers /\ web' \in Containers
    BY <2>1, OneContainer
  <2>3. DiaryTypes' /\ Counts'
    BY OverlayAssumption DEF Types, DiaryTypes, Counts, WebTypes
  <2>4. WebTypes'
    BY <2>2 DEF Types, DiaryTypes, WebTypes, EarlyWeb
  <2> QED BY <2>2, <2>3, <2>4 DEF Types
<1>2. Apart' /\ Preparing' /\ Cutover' /\ Leaving'
  BY DEF Apart, DiaryRests, Preparing, Cutover, Leaving
<1>3. Resting'
  BY DEF WebTypes, Resting, Releasing, Current, EarlyWeb
<1>4. Releasing'
  BY DEF Releasing
<1> QED
  BY <1>1, <1>2, <1>3, <1>4

LEMMA WebSetVersionStep ==
  ASSUME IInv, Between, W!SetVersion
  PROVE  IInv'
<1> USE DEF IInv, Between, W!SetVersion, W!At, W!DiaryAsIs, flags, ends
<1>1. Types'
  <2>1. box \in Containers /\ web \in Containers /\ env \in {"old", "new"} /\ cowork \in {"old", "new"}
    BY DEF Types, DiaryTypes, WebTypes
  <2>2. box' \in Containers /\ web' \in Containers
    BY <2>1, OneContainer
  <2>3. DiaryTypes' /\ Counts'
    BY OverlayAssumption DEF Types, DiaryTypes, Counts, WebTypes
  <2>4. WebTypes'
    BY <2>2 DEF Types, DiaryTypes, WebTypes, EarlyWeb
  <2> QED BY <2>2, <2>3, <2>4 DEF Types
<1>2. Apart' /\ Preparing' /\ Cutover' /\ Leaving'
  BY DEF Apart, DiaryRests, Preparing, Cutover, Leaving
<1>3. Resting'
  BY DEF WebTypes, Resting, Releasing, Current, EarlyWeb
<1>4. Releasing'
  BY DEF Releasing
<1> QED
  BY <1>1, <1>2, <1>3, <1>4

LEMMA WebCutOverStep ==
  ASSUME IInv, Between, W!CutOver
  PROVE  IInv'
<1> USE DEF IInv, Between, W!CutOver, W!Ups, W!UpFails, W!On, W!Fault, flags, ends
<1>1. Types'
  <2>1. box \in Containers /\ web \in Containers /\ env \in {"old", "new"} /\ cowork \in {"old", "new"}
    BY DEF Types, DiaryTypes, WebTypes
  <2>2. box' \in Containers /\ web' \in Containers
    BY <2>1, OneContainer
  <2>3. DiaryTypes' /\ Counts'
    BY OverlayAssumption DEF Types, DiaryTypes, Counts, WebTypes
  <2>4. WebTypes'
    BY <2>2 DEF Types, DiaryTypes, WebTypes, EarlyWeb
  <2> QED BY <2>2, <2>3, <2>4 DEF Types
<1>2. Apart' /\ Preparing' /\ Cutover' /\ Leaving'
  BY DEF Apart, DiaryRests, Preparing, Cutover, Leaving, Before
<1>3. Resting'
  BY DEF WebTypes, Resting, Releasing, EarlyWeb
<1>4. Releasing'
  BY DEF Releasing, Current
<1> QED
  BY <1>1, <1>2, <1>3, <1>4

LEMMA WebUnlinkStep ==
  ASSUME IInv, Between, W!Unlink
  PROVE  IInv'
<1> USE DEF IInv, Between, W!Unlink, W!At, W!DiaryAsIs, flags, ends
<1>1. Types'
  <2>1. box \in Containers /\ web \in Containers /\ env \in {"old", "new"} /\ cowork \in {"old", "new"}
    BY DEF Types, DiaryTypes, WebTypes
  <2>2. box' \in Containers /\ web' \in Containers
    BY <2>1, OneContainer
  <2>3. DiaryTypes' /\ Counts'
    BY OverlayAssumption DEF Types, DiaryTypes, Counts, WebTypes
  <2>4. WebTypes'
    BY <2>2 DEF Types, DiaryTypes, WebTypes, EarlyWeb
  <2> QED BY <2>2, <2>3, <2>4 DEF Types
<1>2. Apart' /\ Preparing' /\ Cutover' /\ Leaving'
  BY DEF Apart, DiaryRests, Preparing, Cutover, Leaving
<1>3. Resting'
  BY DEF WebTypes, Resting, Releasing, EarlyWeb
<1>4. Releasing'
  BY DEF Releasing
<1> QED
  BY <1>1, <1>2, <1>3, <1>4

LEMMA WebRestoreStep ==
  ASSUME IInv, Between, W!Restore
  PROVE  IInv'
<1> USE DEF IInv, Between, W!Restore, W!At, flags, ends
<1>1. Types'
  <2>1. box \in Containers /\ web \in Containers /\ env \in {"old", "new"} /\ cowork \in {"old", "new"}
    BY DEF Types, DiaryTypes, WebTypes
  <2>2. box' \in Containers /\ web' \in Containers
    BY <2>1, OneContainer
  <2>3. DiaryTypes' /\ Counts'
    BY OverlayAssumption DEF Types, DiaryTypes, Counts, WebTypes
  <2>4. WebTypes'
    BY <2>2 DEF Types, DiaryTypes, WebTypes, EarlyWeb
  <2> QED BY <2>2, <2>3, <2>4 DEF Types
<1>2. Apart' /\ Preparing' /\ Cutover' /\ Leaving'
  BY DEF Apart, DiaryRests, Preparing, Cutover, Leaving, Before
<1>3. Resting'
  BY DEF WebTypes, Resting, Releasing, EarlyWeb
<1>4. Releasing'
  BY DEF Releasing
<1> QED
  BY <1>1, <1>2, <1>3, <1>4

LEMMA WebUpAgainStep ==
  ASSUME IInv, Between, W!UpAgain
  PROVE  IInv'
<1> USE DEF IInv, Between, W!UpAgain, W!Ups, W!UpFails, W!On, W!Fault, flags, ends
<1>1. Types'
  <2>1. box \in Containers /\ web \in Containers /\ env \in {"old", "new"} /\ cowork \in {"old", "new"}
    BY DEF Types, DiaryTypes, WebTypes
  <2>2. box' \in Containers /\ web' \in Containers
    BY <2>1, OneContainer
  <2>3. DiaryTypes' /\ Counts'
    BY OverlayAssumption DEF Types, DiaryTypes, Counts, WebTypes
  <2>4. WebTypes'
    BY <2>2 DEF Types, DiaryTypes, WebTypes, EarlyWeb
  <2> QED BY <2>2, <2>3, <2>4 DEF Types
<1>2. Apart' /\ Preparing' /\ Cutover' /\ Leaving'
  BY DEF Apart, DiaryRests, Preparing, Cutover, Leaving
<1>3. Resting'
  BY DEF Resting, Releasing, Current
<1>4. Releasing'
  BY DEF Releasing, Current
<1> QED
  BY <1>1, <1>2, <1>3, <1>4

LEMMA WebFinishStep ==
  ASSUME IInv, Between, W!Finish
  PROVE  IInv'
<1> USE DEF IInv, Between, W!Finish, W!At, W!DiaryAsIs, flags, ends
<1>1. Types'
  <2>1. box \in Containers /\ web \in Containers /\ env \in {"old", "new"} /\ cowork \in {"old", "new"}
    BY DEF Types, DiaryTypes, WebTypes
  <2>2. box' \in Containers /\ web' \in Containers
    BY <2>1, OneContainer
  <2>3. DiaryTypes' /\ Counts'
    BY OverlayAssumption DEF Types, DiaryTypes, Counts, WebTypes
  <2>4. WebTypes'
    BY <2>2 DEF Types, DiaryTypes, WebTypes, EarlyWeb
  <2> QED BY <2>2, <2>3, <2>4 DEF Types
<1>2. Apart' /\ Preparing' /\ Cutover' /\ Leaving'
  BY DEF Apart, DiaryRests, Preparing, Cutover, Leaving
<1>3. Resting'
  BY DEF Resting, Releasing, Current
<1>4. Releasing'
  BY DEF Releasing
<1> QED
  BY <1>1, <1>2, <1>3, <1>4

LEMMA WebCutShortStep ==
  ASSUME IInv, Between, W!CutShort
  PROVE  IInv'
<1> USE DEF IInv, Between, W!CutShort, W!UpFails, W!On, W!Fault, flags, ends
<1>1. Types'
  <2>1. box \in Containers /\ web \in Containers /\ env \in {"old", "new"} /\ cowork \in {"old", "new"}
    BY DEF Types, DiaryTypes, WebTypes
  <2>2. box' \in Containers /\ web' \in Containers
    BY <2>1, OneContainer
  <2>3. DiaryTypes' /\ Counts'
    BY OverlayAssumption DEF Types, DiaryTypes, Counts, WebTypes
  <2>4. WebTypes'
    BY <2>2 DEF Types, DiaryTypes, WebTypes, EarlyWeb
  <2> QED BY <2>2, <2>3, <2>4 DEF Types
<1>2. Apart' /\ Preparing' /\ Cutover' /\ Leaving'
  BY DEF Apart, DiaryRests, Preparing, Cutover, Leaving, Before
<1>3. Resting'
  BY DEF WebTypes, Resting, Releasing, Current, EarlyWeb
<1>4. Releasing'
  BY DEF Releasing
<1> QED
  BY <1>1, <1>2, <1>3, <1>4

LEMMA WebRunAgainStep ==
  ASSUME IInv, Between, W!RunAgain
  PROVE  IInv'
<1> USE DEF IInv, Between, W!RunAgain, W!DiaryAsIs, flags, ends
<1>1. Types'
  <2>1. box \in Containers /\ web \in Containers /\ env \in {"old", "new"} /\ cowork \in {"old", "new"}
    BY DEF Types, DiaryTypes, WebTypes
  <2>2. box' \in Containers /\ web' \in Containers
    BY <2>1, OneContainer
  <2>3. DiaryTypes' /\ Counts'
    BY OverlayAssumption DEF Types, DiaryTypes, Counts, WebTypes
  <2>4. WebTypes'
    BY <2>2 DEF Types, DiaryTypes, WebTypes, EarlyWeb
  <2> QED BY <2>2, <2>3, <2>4 DEF Types
<1>2. Apart' /\ Preparing' /\ Cutover' /\ Leaving'
  BY DEF Apart, DiaryRests, Preparing, Cutover, Leaving
<1>3. Resting'
  BY DEF Resting, Releasing, Current
<1>4. Releasing'
  BY DEF Releasing
<1> QED
  BY <1>1, <1>2, <1>3, <1>4

LEMMA WebSteps ==
  ASSUME IInv, ~Overlap, WebStep
  PROVE  IInv'
<1>1. Between
  BY DEF WebStep, Between
<1>2. W!Next
  BY DEF WebStep
<1> QED
  BY <1>1, <1>2, WebChecksStep, WebBuildStep, WebCopyEnvStep, WebRepointStep, WebSetVersionStep, WebCutOverStep, WebUnlinkStep, WebRestoreStep, WebUpAgainStep, WebFinishStep, WebCutShortStep, WebRunAgainStep DEF W!Next

LEMMA Stuttering ==
  ASSUME IInv, UNCHANGED <<vars, webVars, kept>>
  PROVE  IInv'
<1> USE DEF IInv, vars, webVars, images, flags, ends
<1>1. Types'
  BY DEF Types, DiaryTypes, Counts, WebTypes
<1>2. Apart' /\ Resting' /\ Preparing' /\ Cutover' /\ Leaving' /\ Releasing'
  BY DEF Apart, DiaryRests, WebRests, Resting, Preparing, Cutover, Leaving, Releasing, Current
<1> QED BY <1>1, <1>2

LEMMA Inductive ==
  ASSUME ~Overlap
  PROVE  OverlaySpec => []IInv
<1>1. IInv /\ [OverlayNext]_<<vars, webVars, kept>> => IInv'
  BY DiarySteps, WebSteps, Stuttering DEF OverlayNext
<1> QED
  BY Initially, <1>1, PTL DEF OverlaySpec

-----------------------------------------------------------------------------
(* The types of the Diary script's variables. *)
THEOREM DiaryTypeCorrect ==
  ASSUME ~Overlap
  PROVE  OverlaySpec => []TypeOK
<1>1. IInv => TypeOK
  BY DEF IInv, Types, DiaryTypes, Counts, Containers, TypeOK
<1> QED
  BY <1>1, Inductive, PTL

(* After a run that was not cut off from its rollback, and after one that    *)
(* held Diary stopped for the backup whatever ended it, Diary runs, unless   *)
(* the operator was asked to start it: for any number of runs of both        *)
(* scripts and of failing commands, one script at a time.                    *)
THEOREM DiaryIsRunning ==
  ASSUME ~Overlap
  PROVE  OverlaySpec => []DiaryRunning
<1>1. IInv => DiaryRunning
  BY DEF IInv, Resting, DiaryRunning, RunningAfter, Undisturbed, DiaryRests, WebRests, Current, EarlyWeb
<1> QED
  BY <1>1, Inductive, PTL

(* A failed run leaves .env and the container on the old version. *)
THEOREM DiaryIsRolledBack ==
  ASSUME ~Overlap
  PROVE  OverlaySpec => []DiaryRolledBack
<1>1. IInv => DiaryRolledBack
  BY DEF IInv, Resting, DiaryRolledBack, RolledBack, Failed, Undisturbed, DiaryRests, WebRests, Current, EarlyWeb
<1> QED
  BY <1>1, Inductive, PTL

(* What runs is what .env names, so the next `compose up` changes nothing. *)
THEOREM DiaryIsNamed ==
  ASSUME ~Overlap
  PROVE  OverlaySpec => []DiaryNamed
<1>1. IInv => DiaryNamed
  BY DEF IInv, Resting, DiaryNamed, EnvNamesRunning, Undisturbed, DiaryRests, WebRests, Current, EarlyWeb
<1> QED
  BY <1>1, Inductive, PTL

(* A failed run leaves the candidate image only if docker failed to remove   *)
(* it, V names the same one or a failed recovery left Diary on it.           *)
THEOREM CandidateRemoved ==
  ASSUME ~Overlap
  PROVE  OverlaySpec => NoStrayCandidate
<1> DEFINE Gone == pc # "end" /\ Failed' /\ cand' /\ ~unremoved' => tag' \/ box'.image = "new"
<1>1. ASSUME IInv, DiaryStep PROVE Gone
  <2> SUFFICES ASSUME pc # "end", Failed', cand', ~unremoved' PROVE tag' \/ box'.image = "new"
    OBVIOUS
  <2>1. Checks \/ Recover \/ OnExit
    BY <1>1 DEF DiaryStep, Next, Failed, Build, Prove, StopDiary, Archive, TagV, SetEnv, CutOver,
       Confirm, Report, Finish, Abort, Interrupt, RestoreEnv, RemoveTag, RunAgain, At
  <2>2. CASE Checks
    BY <1>1, <2>2 DEF Checks, Failed, IInv, Resting, flags
  <2>3. CASE Recover
    BY <1>1, <2>3 DEF Recover, Failed, IInv, Leaving, flags
  <2>4. CASE OnExit
    BY <1>1, <2>4 DEF OnExit, DropCandidate, InUse, Failed, IInv, Leaving, flags
  <2> QED
    BY <2>1, <2>2, <2>3, <2>4
<1>2. ASSUME IInv, [OverlayNext]_<<vars, webVars, kept>> PROVE [Gone]_vars
  <2>1. ASSUME WebStep PROVE Gone
    BY <2>1 DEF WebStep, Failed
  <2> QED
    BY <1>1, <1>2, <2>1 DEF OverlayNext
<1> QED
  BY <1>2, Inductive, PTL DEF OverlaySpec, NoStrayCandidate

(* A web release, confirmed or rolled back, leaves the link, COWORK_VERSION  *)
(* and the containers on one release, however the runs before it had ended.  *)
THEOREM ReleaseIsOne ==
  ASSUME ~Overlap
  PROVE  OverlaySpec => []OneRelease
<1>1. IInv => OneRelease
  BY DEF IInv, Releasing, OneRelease, W!OneRelease, W!On, Current
<1> QED
  BY <1>1, Inductive, PTL
=============================================================================
