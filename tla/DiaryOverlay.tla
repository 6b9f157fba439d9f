----------------------------- MODULE DiaryOverlay -----------------------------
(***************************************************************************)
(* deploy/examples/diary-overlay.sh: build a candidate Diary image, stop   *)
(* Diary for the scoped backup, cut over to the new tag with up.sh, check  *)
(* it, and roll back or restart the old Diary when something fails. Every  *)
(* command may fail (set -e); the EXIT trap on_exit and rollback() are the *)
(* two recovery paths, both through recover_diary(). The operator may run  *)
(* the script again after it has ended.                                    *)
(***************************************************************************)
EXTENDS Naturals

CONSTANTS MaxFaults,      \* bound: failing commands and signals over all runs
          MaxRuns         \* bound: runs of the script

ASSUME OverlayAssumption == MaxFaults \in Nat /\ MaxRuns \in Nat \ {0}

VARIABLES env,      \* DIARY_VERSION in .env
          box,      \* cowork-diary-1: its image and whether it runs
          tag,      \* the image cowork-diary:V exists
          cand,     \* the image cowork-diary:V-candidate exists
          stopped, built, complete,   \* diary_stopped, candidate_built, overlay_complete
          pc, exit, \* the next command; the exit status, once one is decided
          byHand,   \* the script has told the operator to start Diary by hand
          cut,      \* history: a run ended in or after its cutover without a whole rollback()
          unremoved,\* history: docker failed the removal of this run's candidate
          runs, faults

images == <<env, box, tag, cand>>
flags == <<stopped, built, complete>>
ends == <<exit, byHand, cut, unremoved, runs>>
vars == <<images, flags, ends, pc, faults>>

Before == {"checks", "build", "test", "copyEnv", "stop", "archive", "tagV", "setEnv"}
Late   == {"inspect", "rmCand"}
Body   == Before \cup {"up", "isolated", "health"} \cup Late
Rollback == {"restoreEnv", "rmTag"}

TypeOK ==
  /\ env \in {"old", "new"}
  /\ box \in [image : {"old", "new"}, running : BOOLEAN]
  /\ tag \in BOOLEAN /\ cand \in BOOLEAN
  /\ stopped \in BOOLEAN /\ built \in BOOLEAN /\ complete \in BOOLEAN
  /\ byHand \in BOOLEAN /\ cut \in BOOLEAN /\ unremoved \in BOOLEAN
  /\ pc \in Body \cup Rollback \cup {"recover", "onExit", "end"}
  /\ exit \in {0, 1, 2}                          \* 2: not decided yet
  /\ runs \in 0..MaxRuns /\ faults \in 0..MaxFaults

Init ==
  /\ env = "old" /\ box = [image |-> "old", running |-> TRUE]
  /\ tag = FALSE /\ cand = FALSE
  /\ stopped = FALSE /\ built = FALSE /\ complete = FALSE
  /\ pc = "checks" /\ exit = 2 /\ byHand = FALSE /\ cut = FALSE
  /\ unremoved = FALSE /\ runs = 1 /\ faults = 0

Fault == faults < MaxFaults /\ faults' = faults + 1
At(from, to) == pc = from /\ pc' = to

-----------------------------------------------------------------------------
(* Everything refused before the trap is set: the release's files, the       *)
(* running image, a tag that exists already.                                 *)
Checks ==
  /\ pc = "checks"
  /\ IF env = "old" /\ ~tag /\ box.image = "old"
       THEN pc' = "build" /\ UNCHANGED exit
       ELSE pc' = "end" /\ exit' = 1
  /\ UNCHANGED <<images, flags, byHand, cut, unremoved, runs, faults>>

Build ==
  /\ At("build", "test")
  /\ built' = TRUE /\ cand' = TRUE
  /\ UNCHANGED <<env, box, tag, stopped, complete, ends, faults>>

Prove ==          \* imports, exact directories, self-tests, leaf smoke; copy of .env
  /\ At("test", "copyEnv") \/ At("copyEnv", "stop")
  /\ UNCHANGED <<images, flags, ends, faults>>

StopDiary ==
  /\ At("stop", "archive")
  /\ stopped' = TRUE
  /\ box' = [box EXCEPT !.running = FALSE]
  /\ UNCHANGED <<env, tag, cand, built, complete, ends, faults>>

Archive ==
  /\ At("archive", "tagV")
  /\ UNCHANGED <<images, flags, ends, faults>>

(* Mutant: diary_stopped is cleared before the tag and .env are changed.     *)
TagVCleared ==
  /\ At("tagV", "setEnv")
  /\ tag' = TRUE /\ stopped' = FALSE
  /\ UNCHANGED <<env, box, cand, built, complete, ends, faults>>

TagV ==
  /\ At("tagV", "setEnv")
  /\ tag' = TRUE
  /\ UNCHANGED <<env, box, cand, flags, ends, faults>>

(* .env names V, and from here rollback() owns the container. *)
SetEnv ==
  /\ At("setEnv", "up")
  /\ env' = "new" /\ stopped' = FALSE
  /\ UNCHANGED <<box, tag, cand, built, complete, ends, faults>>

(* up.sh recreates Diary on the image .env names, and waits until healthy.   *)
Recreated(running) == [image |-> env, running |-> running]
UpDone == box' = Recreated(TRUE)

(* ... or fails: refused by the preflight (nothing touched), not healthy, or *)
(* between the old container and the new one.                                *)
AfterFailedUp == {box, Recreated(TRUE), Recreated(FALSE)}

CutOver ==
  /\ pc = "up"
  /\ \/ UpDone /\ pc' = "isolated" /\ UNCHANGED faults
     \/ box' \in AfterFailedUp /\ pc' = "restoreEnv" /\ Fault
  /\ UNCHANGED <<env, tag, cand, flags, ends>>

(* Diary must not resolve model-loader, and must answer through web. *)
Confirm ==
  /\ \/ At("isolated", "health") /\ UNCHANGED faults
     \/ At("health", "inspect") /\ UNCHANGED faults
     \/ pc \in {"isolated", "health"} /\ pc' = "restoreEnv" /\ Fault
  /\ UNCHANGED <<images, flags, ends>>

Report ==
  /\ At("inspect", "rmCand")
  /\ UNCHANGED <<images, flags, ends, faults>>

Finish ==
  /\ At("rmCand", "onExit")
  /\ cand' = FALSE /\ complete' = TRUE /\ exit' = 0
  /\ UNCHANGED <<env, box, tag, stopped, built, byHand, cut, unremoved, runs, faults>>

-----------------------------------------------------------------------------
(* What a command that is cut short may have done: docker stop, sed, up.sh.  *)
Partial ==
  /\ box' \in CASE pc = "stop" -> {box, [box EXCEPT !.running = FALSE]}
               [] pc \in {"up", "recover"} -> AfterFailedUp
               [] OTHER -> {box}
  /\ env' \in IF pc = "setEnv" THEN {env, "new"} ELSE {env}

(* The flag a command needs is set just before it. *)
Flagged ==
  /\ built' = (built \/ pc = "build")
  /\ stopped' = (stopped \/ pc = "stop")

(* From here on only rollback() may leave the main line.                     *)
CutOff == cut' = (cut \/ env' = "new" \/ pc \in Rollback \cup {"recover"})

(* set -e: a command of the main line outside an `||` fails, or the copy     *)
(* that restores .env; the trap runs. A failing sed leaves .env as it was.   *)
Abort ==
  /\ pc \in (Before \ {"checks"}) \cup Late \cup {"restoreEnv"}
  /\ Fault
  /\ Partial /\ env' = env
  /\ Flagged /\ CutOff
  /\ pc' = "onExit" /\ exit' = 1
  /\ UNCHANGED <<tag, cand, complete, byHand, unremoved, runs>>

(* A signal (a closed ssh session) ends the run before or in the next        *)
(* command; the trap runs.                                                   *)
Interrupt ==
  /\ pc \in (Body \ {"checks"}) \cup Rollback \/ (pc = "recover" /\ ~stopped)
  /\ Fault
  /\ \/ Partial /\ Flagged
     \/ UNCHANGED <<env, box, built, stopped>>
  /\ CutOff
  /\ pc' = "onExit" /\ exit' = 1
  /\ UNCHANGED <<tag, cand, complete, byHand, unremoved, runs>>

(* Mutant: the backup of .env is not copied back. *)
RestoreEnvSkipped ==
  /\ pc = "restoreEnv"
  /\ pc' = "rmTag"
  /\ UNCHANGED <<images, flags, ends, faults>>

(* rollback(): .env as it was, the tag gone, Diary on the old image. Under   *)
(* set -e a failing copy ends it; a failing removal of the tag is ignored.   *)
RestoreEnv ==
  /\ pc = "restoreEnv"
  /\ env' = "old" /\ pc' = "rmTag"
  /\ UNCHANGED <<box, tag, cand, flags, ends, faults>>

RemoveTag ==
  /\ At("rmTag", "recover")
  /\ \/ tag' = FALSE /\ UNCHANGED faults
     \/ UNCHANGED tag /\ Fault
  /\ exit' = 1
  /\ UNCHANGED <<env, box, cand, flags, byHand, cut, unremoved, runs>>

(* Mutant: the container is started whatever image it has by then. *)
RecoverAny ==
  /\ pc = "recover"
  /\ pc' = IF stopped THEN "end" ELSE "onExit"
  /\ \/ UpDone /\ UNCHANGED faults
     \/ Fault /\ \E b \in AfterFailedUp : box' = [b EXCEPT !.running = TRUE]
  /\ UNCHANGED <<env, tag, cand, flags, ends>>

(* recover_diary: up.sh, and if that fails the unchanged old container is    *)
(* started directly; else the operator is told. From rollback() the trap is  *)
(* still to come, from on_exit it is the end.                                *)
Recover ==
  /\ pc = "recover"
  /\ pc' = IF stopped THEN "end" ELSE "onExit"
  /\ \/ UpDone /\ UNCHANGED <<faults, byHand>>
     \/ /\ Fault
        /\ \E b \in AfterFailedUp :
             \/ b.image = "old" /\ box' = [b EXCEPT !.running = TRUE] /\ UNCHANGED byHand
             \/ box' = b /\ byHand' = TRUE
  /\ UNCHANGED <<env, tag, cand, flags, exit, cut, unremoved, runs>>

(* Mutant: the candidate is not removed. *)
OnExitKeeps ==
  /\ pc = "onExit"
  /\ pc' = IF stopped THEN "recover" ELSE "end"
  /\ UNCHANGED <<images, flags, ends, faults>>

(* The last name of an image that a container has is not removed.            *)
InUse == ~tag /\ box.image = "new"

(* `docker image rm V-candidate || true`, unless the run completed or V is   *)
(* there. Either command may fail: V seems to be gone, or the name stays.    *)
DropCandidate ==
  \/ /\ cand' = (cand /\ (~built \/ complete \/ tag \/ InUse))
     /\ UNCHANGED <<unremoved, faults>>
  \/ /\ built /\ ~complete /\ Fault
     /\ \/ tag /\ cand' = FALSE /\ UNCHANGED unremoved
        \/ UNCHANGED cand /\ unremoved' = TRUE

(* on_exit: the candidate goes, and a Diary stopped for the backup is        *)
(* brought back.                                                             *)
OnExit ==
  /\ pc = "onExit"
  /\ DropCandidate
  /\ pc' = IF stopped THEN "recover" ELSE "end"
  /\ UNCHANGED <<env, box, tag, flags, exit, byHand, cut, runs>>

(* The operator runs the script again, after doing what a message asked for. *)
RunAgain ==
  /\ pc = "end" /\ runs < MaxRuns
  /\ runs' = runs + 1
  /\ IF byHand THEN UpDone ELSE UNCHANGED box
  /\ stopped' = FALSE /\ built' = FALSE /\ complete' = FALSE
  /\ pc' = "checks" /\ exit' = 2 /\ byHand' = FALSE /\ unremoved' = FALSE
  /\ UNCHANGED <<env, tag, cand, cut, faults>>

Next ==
  \/ Checks \/ Build \/ Prove \/ StopDiary \/ Archive \/ TagV \/ SetEnv \/ CutOver
  \/ Confirm \/ Report \/ Finish \/ Abort \/ Interrupt
  \/ RestoreEnv \/ RemoveTag \/ Recover \/ OnExit \/ RunAgain

Spec == Init /\ [][Next]_vars

-----------------------------------------------------------------------------
(* A run that has changed something and failed. *)
Failed == pc = "end" /\ exit = 1 /\ built

(* Diary runs after a run that held it stopped for the backup, whatever      *)
(* ended it ("Any earlier exit starts Diary again"), and after one that was  *)
(* not cut off from rollback(), unless the script asks for a start by hand.  *)
RunningAfter == pc = "end" /\ ~byHand /\ (stopped \/ ~cut) => box.running

(* ... whatever ends the run: "so a failed run never leaves it down".        *)
NeverLeftDown == pc = "end" /\ ~byHand => box.running

(* A failed run leaves .env and the container on the old version: "Rolls     *)
(* back on any failure" (unless the operator was told to finish by hand).    *)
RolledBack == Failed /\ ~cut => env = "old" /\ (byHand \/ box.image = "old")

(* A failed run that docker let remove it leaves no candidate, but when V    *)
(* names the same image or Diary was left on it by a recovery that failed.   *)
NoStrayCandidate ==
  [][pc # "end" /\ Failed' /\ cand' /\ ~unremoved'
       => tag' \/ box'.image = "new"]_vars

(* What runs is what .env names, so the next `compose up` changes nothing.   *)
EnvNamesRunning == pc = "end" /\ ~byHand /\ ~cut => box.image = env
=============================================================================
