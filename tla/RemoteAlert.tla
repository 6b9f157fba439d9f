----------------------------- MODULE RemoteAlert -----------------------------
(***************************************************************************)
(* remote_check of deploy/tools/sidecar-restart-alert.sh, for one remote   *)
(* service (each has a line of its own in "<state file>.remote"): the      *)
(* failure counter, the alert once the threshold is reached, the recovery  *)
(* notice, the silent first run and --ack. A run reads the file and probes *)
(* (Probe), then notifies and replaces the file (Finish).                  *)
(***************************************************************************)
EXTENDS Integers

CONSTANTS Runs, Acks,       \* the runs that may be under way at once; those with --ack
          Threshold,        \* NOEVIA_REMOTE_FAIL_THRESHOLD
          Overlap,          \* FALSE: a run starts only when no other is under way
          Unconfigurable,   \* whether the health URL may be taken out of the environment
          MaxFaults         \* bound: failed sends and lost runs

VARIABLES service,  \* what a probe finds: "healthy", "down" (unhealthy, unreachable, refused), "unconfigured"
          file,     \* the service's line; fails stops at Threshold, all the script compares it with
          busy, st, prev,   \* each run: under way, its probe result, the line it read
          told,     \* history: what the operator believes; "quiet": an outage acknowledged unseen
          repeated, \* history: a notice told the operator what the last one had said
          cut,      \* history: a run was lost after its notice went out
          faults

vars == <<service, file, busy, st, prev, told, repeated, cut, faults>>

States == {"healthy", "down", "unconfigured"}
FileLine == [there : BOOLEAN, fails : 0..Threshold, alerted : BOOLEAN]
NoFile == [there |-> FALSE, fails |-> 0, alerted |-> FALSE]

TypeOK ==
  /\ service \in States
  /\ file \in FileLine
  /\ busy \in [Runs -> BOOLEAN]
  /\ st \in [Runs -> States]
  /\ prev \in [Runs -> FileLine]
  /\ told \in {"up", "down", "quiet"}
  /\ repeated \in BOOLEAN /\ cut \in BOOLEAN
  /\ faults \in 0..MaxFaults

Init ==
  /\ service \in States \ {"unconfigured"}
  /\ file = NoFile
  /\ busy = [r \in Runs |-> FALSE]
  /\ st = [r \in Runs |-> "healthy"]
  /\ prev = [r \in Runs |-> NoFile]
  /\ told = "up" /\ repeated = FALSE /\ cut = FALSE
  /\ faults = 0

Turn ==
  /\ service' \in IF Unconfigurable THEN States ELSE States \ {"unconfigured"}
  /\ service' # service
  /\ UNCHANGED <<file, busy, st, prev, told, repeated, cut, faults>>

Probe(r) ==
  /\ ~busy[r]
  /\ Overlap \/ \A q \in Runs : ~busy[q]
  /\ busy' = [busy EXCEPT ![r] = TRUE]
  /\ st' = [st EXCEPT ![r] = service]
  /\ prev' = [prev EXCEPT ![r] = file]
  /\ UNCHANGED <<service, file, told, repeated, cut, faults>>

EndRun(r) ==
  /\ busy' = [busy EXCEPT ![r] = FALSE]
  /\ st' = [st EXCEPT ![r] = "healthy"]
  /\ prev' = [prev EXCEPT ![r] = NoFile]

Write(r, fails, alerted) ==
  /\ file' = [there |-> TRUE, fails |-> fails, alerted |-> alerted]
  /\ EndRun(r)

Fault == faults < MaxFaults /\ faults' = faults + 1
Silent == UNCHANGED <<told, repeated, cut, faults>>

NeedsUp(r)   == st[r] = "healthy" /\ prev[r].alerted
NoticeUp     == told' = "up" /\ repeated' = (repeated \/ told = "up")
NoticeDown   == told' = "down" /\ repeated' = (repeated \/ told # "up")

More(n) == IF n < Threshold THEN n + 1 ELSE n

(* Mutants: a failed recovery notice is not retried; any later send after a  *)
(* recovery repeats it, since alerted is kept.                               *)
FinishUpOnce(r) ==
  /\ busy[r] /\ st[r] # "down"
  /\ \/ ~NeedsUp(r) /\ Silent
     \/ NeedsUp(r) /\ NoticeUp /\ UNCHANGED <<cut, faults>>
     \/ NeedsUp(r) /\ Fault /\ UNCHANGED <<told, repeated, cut>>
  /\ Write(r, 0, FALSE)
  /\ UNCHANGED service

FinishUpKept(r) ==
  /\ busy[r] /\ st[r] # "down"
  /\ \/ ~NeedsUp(r) /\ Silent
     \/ NeedsUp(r) /\ NoticeUp /\ UNCHANGED <<cut, faults>>
  /\ Write(r, 0, prev[r].alerted)
  /\ UNCHANGED service

(* Healthy or unconfigured: the counter starts again, and a service alerted   *)
(* before gets its recovery notice; a failed send leaves the old line.        *)
FinishUp(r) ==
  /\ busy[r] /\ st[r] # "down"
  /\ \/ /\ ~NeedsUp(r)
        /\ Write(r, 0, FALSE) /\ Silent
     \/ /\ NeedsUp(r) /\ NoticeUp
        /\ Write(r, 0, FALSE)
        /\ UNCHANGED <<cut, faults>>
     \/ /\ NeedsUp(r) /\ Fault
        /\ Write(r, prev[r].fails, TRUE)
        /\ UNCHANGED <<told, repeated, cut>>
  /\ UNCHANGED service

(* Mutant: -gt for -ge, never true of the counter that stops there. *)
DueLate(r) == More(prev[r].fails) > Threshold

Due(r) == More(prev[r].fails) >= Threshold

Unseen(r) == r \in Acks \/ ~prev[r].there
NeedsDown(r) == st[r] = "down" /\ Due(r) /\ ~prev[r].alerted /\ ~Unseen(r)

FinishDown(r) ==
  LET fails == More(prev[r].fails)
  IN /\ busy[r] /\ st[r] = "down"
     /\ \/ /\ ~Due(r) \/ (prev[r].alerted /\ ~Unseen(r))
           /\ Write(r, fails, prev[r].alerted) /\ Silent
        \/ /\ Due(r) /\ Unseen(r)
           /\ Write(r, fails, TRUE)
           /\ told' = IF told = "up" THEN "quiet" ELSE told
           /\ UNCHANGED <<repeated, cut, faults>>
        \/ /\ NeedsDown(r) /\ NoticeDown
           /\ Write(r, fails, TRUE)
           /\ UNCHANGED <<cut, faults>>
        \/ /\ NeedsDown(r) /\ Fault
           /\ Write(r, fails, FALSE)
           /\ UNCHANGED <<told, repeated, cut>>
     /\ UNCHANGED service

(* The run is killed before its notice, or between its notice and its write. *)
Lost(r) ==
  /\ busy[r] /\ Fault
  /\ EndRun(r)
  /\ \/ UNCHANGED <<told, repeated, cut>>
     \/ NeedsUp(r) /\ NoticeUp /\ cut' = TRUE
     \/ NeedsDown(r) /\ NoticeDown /\ cut' = TRUE
  /\ UNCHANGED <<service, file>>

Step(r) == Probe(r) \/ FinishUp(r) \/ FinishDown(r)
Next == Turn \/ \E r \in Runs : Step(r) \/ Lost(r)

Spec == Init /\ [][Next]_vars

(* The timer keeps starting checks, and a run that has started ends. *)
FairSpec == Spec /\ \A r \in Runs : WF_vars(Step(r))

-----------------------------------------------------------------------------
(* "alerts once; its recovery sends one notice" (the script's header): no    *)
(* second alert about an outage, no second notice about a recovery, unless a *)
(* run died between sending one and recording it.                            *)
OneNoticePerTurn == repeated => cut

(* The operator learns that a service is back for good, whatever sends failed *)
(* before ("its recovery sends one notice"); a run that dies between a notice *)
(* and the write of its line leaves a line that contradicts the notice.      *)
RecoveryTold == (<>[](service = "healthy") /\ []~cut) => <>[](told = "up")

(* The operator learns of an outage that lasts, or has acknowledged it.      *)
OutageTold == (<>[](service = "down") /\ []~cut) => <>[](told # "up")
=============================================================================
