------------------------------- MODULE IdleGate -------------------------------
(***************************************************************************)
(* deploy/tools/release-idle-jobs.sh and the release-idle-jobs.cjs it runs *)
(* in the web container: the gate of a cutover reads, one directory after  *)
(* the other, the Coding jobs of the state root and of every account,      *)
(* while the server goes on starting and ending jobs and adding accounts.  *)
(* The names begin with Idle, or are the gate's own, so that the module    *)
(* can be extended beside the other steps of a release.                    *)
(***************************************************************************)
EXTENDS Integers, FiniteSets

CONSTANTS Accounts,  \* the directories users/ may hold
          Root,      \* the state root, with the jobs of a single-user past
          Cap,       \* --cap
          MaxJobs    \* bound: active jobs of a directory

ASSUME IdleAssumption ==
  /\ Root \notin Accounts /\ IsFiniteSet(Accounts)
  /\ Cap \in Nat \ {0} /\ MaxJobs \in Nat

Dirs == Accounts \cup {Root}

VARIABLES store,     \* jobs.cjs of the image: "strict", "lenient" or "none"
          users,     \* users/: "directory", "absent", "other" (a file, a link, unreadable)
          accounts,  \* what users/ holds
          unknown,   \* directories whose jobs cannot be read exactly, or that are none
          old, new,  \* active jobs: begun before the gate was started, and since
          todo,      \* directories the gate has yet to read
          active,    \* what it has counted
          gpc, verdict

jobs     == <<old, new>>
idleVars == <<store, users, accounts, unknown, jobs, todo, active, gpc, verdict>>

IdleTypeOK ==
  /\ store \in {"strict", "lenient", "none"} /\ users \in {"directory", "absent", "other"}
  /\ accounts \subseteq Accounts /\ unknown \subseteq Dirs
  /\ old \in [Dirs -> 0..MaxJobs] /\ new \in [Dirs -> 0..MaxJobs]
  /\ todo \subseteq Dirs /\ active \in Nat
  /\ gpc \in {"probe", "list", "read", "done"}
  /\ verdict \in {"none", "idle", "busy", "error"}

(* An absent users/ holds no account, and an account it does not hold has no *)
(* jobs.                                                                     *)
IdleInit ==
  /\ store \in {"strict", "lenient", "none"} /\ users \in {"directory", "absent", "other"}
  /\ accounts \in SUBSET Accounts /\ (users # "directory" => accounts = {})
  /\ unknown \in SUBSET (accounts \cup {Root})
  /\ old \in [Dirs -> 0..MaxJobs]
  /\ \A a \in Accounts \ accounts : old[a] = 0
  /\ new = [d \in Dirs |-> 0]
  /\ todo = {} /\ active = 0
  /\ gpc = "probe" /\ verdict = "none"

Answered(v) == gpc' = "done" /\ verdict' = v

-----------------------------------------------------------------------------
(* Mutant: any job store will do. *)
ProveAny ==
  /\ gpc = "probe"
  /\ IF store = "none" THEN Answered("error") ELSE gpc' = "list" /\ UNCHANGED verdict
  /\ UNCHANGED <<store, users, accounts, unknown, jobs, todo, active>>

(* The job store must exist, and must refuse an unreadable job of a made-up  *)
(* directory.                                                                *)
Prove ==
  /\ gpc = "probe"
  /\ IF store # "strict" THEN Answered("error") ELSE gpc' = "list" /\ UNCHANGED verdict
  /\ UNCHANGED <<store, users, accounts, unknown, jobs, todo, active>>

(* Mutant: the accounts alone, without the state root. *)
FoldersOfAccounts == accounts

Folders == accounts \cup {Root}

(* users/ is read once. *)
List ==
  /\ gpc = "list"
  /\ IF users = "other" \/ Cardinality(accounts) > Cap
     THEN Answered("busy") /\ UNCHANGED todo
     ELSE gpc' = "read" /\ todo' = Folders /\ UNCHANGED verdict
  /\ UNCHANGED <<store, users, accounts, unknown, jobs, active>>

(* list({ kind: 'code', strict: true }) of one directory. *)
Read(d) ==
  /\ gpc = "read" /\ d \in todo
  /\ IF d \in unknown THEN Answered("busy") /\ UNCHANGED <<todo, active>>
     ELSE /\ todo' = todo \ {d} /\ active' = active + old[d] + new[d]
          /\ UNCHANGED <<gpc, verdict>>
  /\ UNCHANGED <<store, users, accounts, unknown, jobs>>

Answer ==
  /\ gpc = "read" /\ todo = {}
  /\ Answered(IF active > 0 THEN "busy" ELSE "idle")
  /\ UNCHANGED <<store, users, accounts, unknown, jobs, todo, active>>

(* docker exec fails, or the 60 s pass: the wrapper's answer.                *)
GiveUp ==
  /\ gpc # "done"
  /\ Answered("error")
  /\ UNCHANGED <<store, users, accounts, unknown, jobs, todo, active>>

-----------------------------------------------------------------------------
(* The server meanwhile. *)
Begin(d) ==
  /\ gpc # "done" /\ d \in accounts \cup {Root}
  /\ new[d] < MaxJobs
  /\ new' = [new EXCEPT ![d] = @ + 1]
  /\ UNCHANGED <<store, users, accounts, unknown, old, todo, active, gpc, verdict>>

End(d) ==
  /\ gpc # "done"
  /\ \/ old[d] > 0 /\ old' = [old EXCEPT ![d] = @ - 1] /\ UNCHANGED new
     \/ new[d] > 0 /\ new' = [new EXCEPT ![d] = @ - 1] /\ UNCHANGED old
  /\ UNCHANGED <<store, users, accounts, unknown, todo, active, gpc, verdict>>

Join(a) ==
  /\ gpc # "done" /\ users # "other" /\ a \notin accounts
  /\ accounts' = accounts \cup {a} /\ users' = "directory"
  /\ UNCHANGED <<store, unknown, jobs, todo, active, gpc, verdict>>

IdleNext ==
  \/ Prove \/ List \/ Answer \/ GiveUp
  \/ \E d \in Dirs : Read(d) \/ Begin(d) \/ End(d)
  \/ \E a \in Accounts : Join(a)

IdleSpec == IdleInit /\ [][IdleNext]_idleVars

-----------------------------------------------------------------------------
(* An idle answer misses no job that was under way when the gate was asked   *)
(* and still is, whatever else began, ended or moved in while it read: what  *)
(* it can miss began behind it.                                              *)
NoOldJobMissed == verdict = "idle" => \A d \in Dirs : old[d] = 0

(* "A job directory that cannot be read exactly is BUSY, never no jobs": no  *)
(* idle answer from a store that is not strict, or with a directory that is  *)
(* unknown.                                                                  *)
UnknownIsBusy == verdict = "idle" => store = "strict" /\ users # "other" /\ unknown = {}
=============================================================================
