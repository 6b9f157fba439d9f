---------------------------- MODULE OverlayRelease ----------------------------
(***************************************************************************)
(* deploy/examples/overlay-release.sh: build the web image of a release on *)
(* the old one's, copy .env, repoint the release link and COWORK_VERSION,  *)
(* recreate web and Diary with up.sh, and roll back when that or the       *)
(* isolation check fails. set -e ends the script at any other failing      *)
(* command, and no trap recovers.                                          *)
(*                                                                         *)
(* env, box and tag are Diary's part of .env, its container and its new    *)
(* image: diary-overlay.sh has them too. ocr is recreated like Diary and   *)
(* has no other script.                                                    *)
(***************************************************************************)
EXTENDS Naturals

CONSTANTS MaxFaults,     \* bound: failing commands and signals
          MaxReleases    \* bound: runs of the script

VARIABLES env, box, tag, \* DIARY_VERSION; cowork-diary-1; the image cowork-diary:V exists
          cowork, link,  \* COWORK_VERSION; the release `current` points at
          web,           \* cowork-web-1: its image and whether it runs
          bak,           \* the copy of .env: both versions
          wpc, releases, \* the next command; runs begun
          wcut,          \* history: a run ended after its backup without a whole rollback
          faults

webVars == <<cowork, link, web, bak, wpc, releases, wcut>>

Init ==
  /\ cowork = "old" /\ link = "old" /\ web = [image |-> "old", running |-> TRUE]
  /\ bak = [cowork |-> "old", diary |-> "old"]
  /\ wpc = "checks" /\ releases = 1 /\ wcut = FALSE

At(from, to) == wpc = from /\ wpc' = to
Fault == faults < MaxFaults /\ faults' = faults + 1
DiaryAsIs == UNCHANGED <<env, box, tag>>

-----------------------------------------------------------------------------
(* Everything looked at before something changes: the link, both versions,   *)
(* the image DIARY_VERSION names, the settings, the engine.                  *)
Checks ==
  /\ wpc = "checks"
  /\ wpc' = IF link = "old" /\ cowork = "old" /\ (env = "old" \/ tag) THEN "build" ELSE "end"
  /\ DiaryAsIs /\ UNCHANGED <<cowork, link, web, bak, releases, wcut, faults>>

(* The release folder, the archives' checks, the image.                      *)
Build ==
  /\ At("build", "copy")
  /\ DiaryAsIs /\ UNCHANGED <<cowork, link, web, bak, releases, wcut, faults>>

CopyEnv ==
  /\ At("copy", "link")
  /\ bak' = [cowork |-> cowork, diary |-> env]
  /\ DiaryAsIs /\ UNCHANGED <<cowork, link, web, releases, wcut, faults>>

Repoint ==
  /\ At("link", "version")
  /\ link' = "new"
  /\ DiaryAsIs /\ UNCHANGED <<cowork, web, bak, releases, wcut, faults>>

SetVersion ==
  /\ At("version", "up")
  /\ cowork' = "new"
  /\ DiaryAsIs /\ UNCHANGED <<link, web, bak, releases, wcut, faults>>

(* up.sh recreates web and Diary on the images .env names, and waits; when   *)
(* it fails each is as it was, or on the new image, running or not.          *)
On(image, running) == [image |-> image, running |-> running]
Ups == web' = On(cowork, TRUE) /\ box' = On(env, TRUE)
UpFails ==
  /\ web' \in {web, On(cowork, TRUE), On(cowork, FALSE)}
  /\ box' \in {box, On(env, TRUE), On(env, FALSE)}

(* The condition of the `if`: up.sh and diary_isolated.                      *)
CutOver ==
  /\ wpc = "up"
  /\ \/ Ups /\ wpc' = "confirmed" /\ UNCHANGED faults
     \/ (Ups \/ UpFails) /\ wpc' = "unlink" /\ Fault
  /\ UNCHANGED <<env, tag, cowork, link, bak, releases, wcut>>

(* Mutant: the rollback leaves the link. *)
UnlinkForgotten ==
  /\ At("unlink", "restore")
  /\ DiaryAsIs /\ UNCHANGED <<cowork, link, web, bak, releases, wcut, faults>>

(* The rollback: the link, the whole .env, the containers. *)
Unlink ==
  /\ At("unlink", "restore")
  /\ link' = "old"
  /\ DiaryAsIs /\ UNCHANGED <<cowork, web, bak, releases, wcut, faults>>

Restore ==
  /\ At("restore", "upAgain")
  /\ cowork' = bak.cowork /\ env' = bak.diary
  /\ UNCHANGED <<box, tag, link, web, bak, releases, wcut, faults>>

UpAgain ==
  /\ wpc = "upAgain"
  /\ \/ Ups /\ wpc' = "rolledBack" /\ UNCHANGED <<wcut, faults>>
     \/ UpFails /\ wpc' = "end" /\ wcut' = TRUE /\ Fault
  /\ UNCHANGED <<env, tag, cowork, link, bak, releases>>

(* The message or the engine check, the sidecars and the report.             *)
Finish ==
  /\ At("rolledBack", "end") \/ At("confirmed", "end")
  /\ DiaryAsIs /\ UNCHANGED <<cowork, link, web, bak, releases, wcut, faults>>

(* set -e at a failing command, or a signal before or in one: the run ends   *)
(* with what it has done.                                                    *)
CutShort ==
  /\ wpc \in {"build", "copy", "link", "version", "up", "unlink", "restore", "upAgain", "confirmed"}
  /\ Fault
  /\ wpc' = "end" /\ wcut' = (wcut \/ wpc \notin {"build", "copy", "link"})
  /\ IF wpc \in {"up", "upAgain"} THEN UpFails ELSE UNCHANGED <<web, box>>
  /\ UNCHANGED <<env, tag, cowork, link, bak, releases>>

RunAgain ==
  /\ wpc = "end" /\ releases < MaxReleases
  /\ releases' = releases + 1 /\ wpc' = "checks"
  /\ DiaryAsIs /\ UNCHANGED <<cowork, link, web, bak, wcut, faults>>

Next ==
  \/ Checks \/ Build \/ CopyEnv \/ Repoint \/ SetVersion \/ CutOver
  \/ Unlink \/ Restore \/ UpAgain \/ Finish \/ CutShort \/ RunAgain

-----------------------------------------------------------------------------
(* A confirmed release and a rolled-back one leave the link, COWORK_VERSION  *)
(* and web on one release, and web and Diary running what .env names,        *)
(* however an earlier run of this script or of diary-overlay.sh had ended:   *)
(* "rolls back automatically if the health wait fails".                      *)
OneRelease ==
  wpc \in {"confirmed", "rolledBack"} =>
    /\ link = cowork /\ web = On(cowork, TRUE) /\ box = On(env, TRUE)
    /\ wpc = "confirmed" <=> cowork = "new"
=============================================================================
