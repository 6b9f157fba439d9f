----------------------------- MODULE OffsiteMirror -----------------------------
(***************************************************************************)
(* deploy/offsite/rclone-sync.sh: the mirror of noevia's store of sealed   *)
(* objects. A run takes its lock, refuses a folder that does not look like *)
(* a store, copies, and then prunes with `rclone sync`, while noevia goes  *)
(* on adding objects and retiring old ones, and the folder may be          *)
(* unmounted, which shows as an empty one. A run with --dry-run goes       *)
(* through the same commands and changes nothing on the remote.            *)
(*                                                                         *)
(* rclone (external; deploy/tests/test_rclone_sync.py) lists the folder,   *)
(* copies what the remote lacks, and, for sync, then deletes what it did   *)
(* not list, up to the cap. What vanished since is listed again.           *)
(***************************************************************************)
EXTENDS Naturals

CONSTANTS Objects,     \* what a store may hold
          Config,      \* its config object
          Snapshots,   \* those of its objects that are snapshots
          MirrorRuns,  \* runs that may be started at the same time
          MaxDelete,   \* MAX_DELETE
          MaxChanges   \* bound: changes of the store and its mount

ASSUME MirrorAssumption == Config \in Objects /\ MaxDelete \in Nat /\ MaxChanges \in Nat

VARIABLES store,     \* the objects noevia keeps
          mounted,   \* whether LOCAL shows them
          remote,    \* the objects on REMOTE
          mpc,       \* each run: its next command
          dry,       \* each run: whether it was given --dry-run
          listed,    \* each run: the folder as its rclone listed it
          deleted,   \* each run: what its prune has deleted, counted
          page,      \* .mirror-status.json: what the Off-site backups page shows
          retired,   \* history: objects noevia's retention has removed
          found,     \* history: each run: the folder at the start of its copy
          shown,     \* history: found, of the run the page calls ok
          rehearsed, \* history: what the page shows was written by a dry run
          torn,      \* history: unmounted under a run that had looked at the folder
          lost,      \* history: pruned, though never retired
          changes

runState   == <<mpc, dry, listed, deleted, found>>
pageState  == <<page, shown, rehearsed>>
mirrorVars == <<store, mounted, remote, runState, pageState, retired, torn, lost, changes>>

Folder == IF mounted THEN store ELSE {}

UnderWay == {"check", "list", "copy", "relist", "sync", "prune"}
Looked   == UnderWay \ {"check"}

MirrorTypeOK ==
  /\ store \subseteq Objects /\ mounted \in BOOLEAN /\ remote \subseteq Objects
  /\ mpc \in [MirrorRuns -> {"start"} \cup UnderWay] /\ dry \in [MirrorRuns -> BOOLEAN]
  /\ listed \in [MirrorRuns -> SUBSET Objects] /\ found \in [MirrorRuns -> SUBSET Objects]
  /\ deleted \in [MirrorRuns -> 0..MaxDelete]
  /\ page \in {"none", "not-connected", "refused", "waiting", "failed", "ok"}
  /\ retired \subseteq Objects /\ shown \subseteq Objects /\ lost \subseteq Objects
  /\ rehearsed \in BOOLEAN /\ torn \in BOOLEAN /\ changes \in 0..MaxChanges

(* A store, or a folder that is to become one; a remote that follows it.     *)
MirrorInit ==
  /\ store \in SUBSET Objects /\ mounted \in BOOLEAN
  /\ remote \in SUBSET Objects /\ retired = remote \ store
  /\ mpc = [r \in MirrorRuns |-> "start"] /\ dry = [r \in MirrorRuns |-> FALSE]
  /\ listed = [r \in MirrorRuns |-> {}] /\ found = listed
  /\ deleted = [r \in MirrorRuns |-> 0]
  /\ page = "none" /\ shown = {} /\ rehearsed = FALSE /\ torn = FALSE /\ lost = {} /\ changes = 0

-----------------------------------------------------------------------------
(* noevia, and the host.                                                     *)
Changed == changes < MaxChanges /\ changes' = changes + 1

Keep(o) ==
  /\ mounted /\ o \notin store /\ Changed
  /\ store' = store \cup {o}
  /\ UNCHANGED <<mounted, remote, runState, pageState, retired, torn, lost>>

Retire(o) ==
  /\ mounted /\ o \in store \ {Config} /\ Changed
  /\ store' = store \ {o} /\ retired' = retired \cup {o}
  /\ UNCHANGED <<mounted, remote, runState, pageState, torn, lost>>

Mount ==
  /\ Changed
  /\ mounted' = ~mounted
  /\ torn' = (torn \/ \E r \in MirrorRuns : mpc[r] \in Looked)
  /\ UNCHANGED <<store, remote, runState, pageState, retired, lost>>

-----------------------------------------------------------------------------
At(r, from, to) == mpc[r] = from /\ mpc' = [mpc EXCEPT ![r] = to]

(* A run is over, and what it knew; the next one begins like the first.      *)
Over(r) ==
  /\ mpc' = [mpc EXCEPT ![r] = "start"] /\ dry' = [dry EXCEPT ![r] = FALSE]
  /\ listed' = [listed EXCEPT ![r] = {}] /\ found' = [found EXCEPT ![r] = {}]
  /\ deleted' = [deleted EXCEPT ![r] = 0]

(* status(): a run ends with what it shows, a dry run too.                   *)
Ends(r, state) == Over(r) /\ page' = state /\ rehearsed' = dry[r]

Free == \A r \in MirrorRuns : mpc[r] \notin UnderWay

(* Mutant: the lock does not keep another run out. *)
LockShared(r) ==
  /\ At(r, "start", "check")
  /\ \E given \in BOOLEAN : dry' = [dry EXCEPT ![r] = given]
  /\ UNCHANGED <<store, mounted, remote, listed, deleted, found, pageState, retired, torn, lost, changes>>

(* A run, with or without --dry-run. flock -n: one that finds another under  *)
(* way ends, and shows nothing.                                              *)
Lock(r) ==
  /\ At(r, "start", "check")
  /\ Free
  /\ \E given \in BOOLEAN : dry' = [dry EXCEPT ![r] = given]
  /\ UNCHANGED <<store, mounted, remote, listed, deleted, found, pageState, retired, torn, lost, changes>>

(* Mutant: the folder is not looked at. *)
LookNot(r) ==
  /\ mpc[r] = "check"
  /\ \/ Ends(r, "not-connected")
     \/ At(r, "check", "list") /\ UNCHANGED <<dry, listed, deleted, found, page, rehearsed>>
  /\ UNCHANGED <<store, mounted, remote, retired, shown, torn, lost, changes>>

(* rclone, its configuration and its remote; then: is this a healthy store?  *)
Look(r) ==
  /\ mpc[r] = "check"
  /\ \/ Ends(r, "not-connected")
     \/ Config \notin Folder /\ Ends(r, "refused")
     \/ Config \in Folder /\ Snapshots \cap Folder = {} /\ Ends(r, "waiting")
     \/ /\ Config \in Folder /\ Snapshots \cap Folder # {}
        /\ At(r, "check", "list") /\ UNCHANGED <<dry, listed, deleted, found, page, rehearsed>>
  /\ UNCHANGED <<store, mounted, remote, retired, shown, torn, lost, changes>>

(* rclone copy, and rclone sync, begin with a listing.                       *)
List(r) ==
  /\ \/ At(r, "list", "copy") /\ found' = [found EXCEPT ![r] = Folder] /\ UNCHANGED deleted
     \/ At(r, "relist", "sync") /\ deleted' = [deleted EXCEPT ![r] = 0] /\ UNCHANGED found
  /\ listed' = [listed EXCEPT ![r] = Folder]
  /\ UNCHANGED <<store, mounted, remote, dry, pageState, retired, torn, lost, changes>>

Copying == {"copy", "sync"}

Transfer(r, o) ==
  /\ mpc[r] \in Copying /\ ~dry[r]
  /\ o \in (listed[r] \cap Folder) \ remote
  /\ remote' = remote \cup {o}
  /\ UNCHANGED <<store, mounted, runState, pageState, retired, torn, lost, changes>>

(* A listed object is gone: rclone tries again (--retries).                  *)
TryAgain(r) ==
  /\ mpc[r] \in Copying /\ ~dry[r]
  /\ ~(listed[r] \subseteq Folder \cup remote)
  /\ listed' = [listed EXCEPT ![r] = Folder]
  /\ UNCHANGED <<store, mounted, remote, mpc, dry, deleted, found, pageState, retired, torn, lost, changes>>

(* Mutant: the prune does not wait for what is still to be copied. *)
TransferredEarly(r) ==
  /\ At(r, "copy", "relist") \/ At(r, "sync", "prune")
  /\ UNCHANGED <<store, mounted, remote, dry, listed, deleted, found, pageState, retired, torn, lost, changes>>

(* A dry run only says what it would have copied, and goes on.               *)
Transferred(r) ==
  /\ At(r, "copy", "relist") \/ At(r, "sync", "prune")
  /\ dry[r] \/ listed[r] \subseteq remote
  /\ UNCHANGED <<store, mounted, remote, dry, listed, deleted, found, pageState, retired, torn, lost, changes>>

Prune(r, o) ==
  /\ mpc[r] = "prune" /\ ~dry[r] /\ deleted[r] < MaxDelete
  /\ o \in remote \ listed[r]
  /\ remote' = remote \ {o}
  /\ deleted' = [deleted EXCEPT ![r] = @ + 1]
  /\ lost' = IF o \in retired THEN lost ELSE lost \cup {o}
  /\ UNCHANGED <<store, mounted, mpc, dry, listed, found, pageState, retired, torn, changes>>

(* The copy, or the prune - at its cap, or for any other reason - stops.     *)
Fails(r) ==
  /\ mpc[r] \in {"copy", "sync", "prune"}
  /\ Ends(r, "failed")
  /\ UNCHANGED <<store, mounted, remote, retired, shown, torn, lost, changes>>

(* "ok", of a dry run too, which has removed nothing.                        *)
Finish(r) ==
  /\ mpc[r] = "prune"
  /\ dry[r] \/ remote \subseteq listed[r]
  /\ Ends(r, "ok")
  /\ shown' = found[r]
  /\ UNCHANGED <<store, mounted, remote, retired, torn, lost, changes>>

(* A run is killed, and the rclone that has inherited its lock: the page     *)
(* keeps what it showed.                                                     *)
Killed(r) ==
  /\ mpc[r] \in UnderWay
  /\ Over(r)
  /\ UNCHANGED <<store, mounted, remote, pageState, retired, torn, lost, changes>>

RunStep(r) ==
  \/ Lock(r) \/ Look(r) \/ List(r) \/ TryAgain(r) \/ Transferred(r)
  \/ Fails(r) \/ Finish(r) \/ Killed(r)
  \/ \E o \in Objects : Transfer(r, o) \/ Prune(r, o)

MirrorNext ==
  \/ Mount
  \/ \E o \in Objects : Keep(o) \/ Retire(o)
  \/ \E r \in MirrorRuns : RunStep(r)

MirrorSpec == MirrorInit /\ [][MirrorNext]_mirrorVars

-----------------------------------------------------------------------------
(* "the prune only removes what noevia's own retention already removed",     *)
(* with runs started beside each other, killed and started again, and a      *)
(* store that changes under them; unless the folder came off its mount       *)
(* after a run had looked at it.                                             *)
PruneFollowsRetention == lost # {} => torn

(* When the page says that the last run copied the store, what that run      *)
(* found is on the remote, except for what has been retired, whatever the    *)
(* runs since then did; unless it is a dry run that says so.                 *)
OkMeansCopied == page = "ok" /\ ~rehearsed /\ ~torn => shown \subseteq remote \cup retired
=============================================================================
