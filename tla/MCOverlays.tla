------------------------------- MODULE MCOverlays -------------------------------
(***************************************************************************)
(* The two overlay scripts over one .env and one Diary container, in any   *)
(* order. Each copies the whole of .env back when it rolls back; nothing   *)
(* but the operator keeps them apart (Overlap).                            *)
(***************************************************************************)
EXTENDS DiaryOverlay

CONSTANTS Overlap,       \* FALSE: one script at a time
          MaxReleases

VARIABLES cowork, link, web, bak, wpc, releases, wcut,
          kept           \* COWORK_VERSION in the Diary script's copy of .env

W == INSTANCE OverlayRelease

webVars == <<cowork, link, web, bak, wpc, releases, wcut>>

WebRests   == wpc \in {"checks", "end"}
DiaryRests == pc \in {"checks", "end"}

DiaryStep ==
  /\ Overlap \/ WebRests
  /\ Next
  /\ kept' = IF pc = "copyEnv" /\ pc' = "stop" THEN cowork ELSE kept
  /\ cowork' = IF pc = "restoreEnv" /\ pc' = "rmTag" THEN kept ELSE cowork
  /\ UNCHANGED <<link, web, bak, wpc, releases, wcut>>

WebStep ==
  /\ Overlap \/ DiaryRests
  /\ W!Next
  /\ UNCHANGED <<cand, flags, ends, pc, kept>>

OverlayInit == Init /\ W!Init /\ kept = "old"
OverlayNext == DiaryStep \/ WebStep
OverlaySpec == OverlayInit /\ [][OverlayNext]_<<vars, webVars, kept>>

-----------------------------------------------------------------------------
(* What a web release was cut short in is its own; elsewhere the Diary       *)
(* script's promises hold beside it.                                         *)
Undisturbed == WebRests /\ ~wcut

(* DiaryOverlay: Diary runs after every run that is not cut off from its     *)
(* rollback, web releases between the runs or not.                           *)
DiaryRunning == Undisturbed => RunningAfter

(* DiaryOverlay: a failed run leaves .env and the container on the old       *)
(* version.                                                                  *)
DiaryRolledBack == Undisturbed => RolledBack

(* DiaryOverlay: what runs is what .env names.                               *)
DiaryNamed == Undisturbed => EnvNamesRunning

(* OverlayRelease: the link, .env and the containers are of one release.     *)
OneRelease == W!OneRelease
=============================================================================
