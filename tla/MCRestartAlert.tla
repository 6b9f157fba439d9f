----------------------------- MODULE MCRestartAlert -----------------------------
(***************************************************************************)
(* The two things a run of sidecar-restart-alert.sh watches: containers    *)
(* (SidecarAlert) and remote services (RemoteAlert). They share no state   *)
(* (the services have a file of their own), so a behaviour is one of the   *)
(* containers or one of a service; the other part stays as it began.       *)
(***************************************************************************)
EXTENDS SidecarAlert

CONSTANTS RemoteRuns, RemoteAcks,   \* the runs of the service's part
          Threshold,                \* NOEVIA_REMOTE_FAIL_THRESHOLD
          RemoteFaults              \* bound: failed sends and lost runs

ASSUME RemoteAssumption ==
  RemoteAcks \subseteq RemoteRuns /\ Threshold \in Nat \ {0} /\ RemoteFaults \in Nat

VARIABLES watched,    \* whose behaviour this is: "containers" or "service"
          service, line, busy, st, prev, told, repeated, cut, missed

remote == <<service, line, busy, st, prev, told, repeated, cut, missed>>

R == INSTANCE RemoteAlert WITH
       Runs <- RemoteRuns, Acks <- RemoteAcks, Overlap <- FALSE, Unconfigurable <- FALSE,
       MaxFaults <- RemoteFaults, file <- line, faults <- missed

AlertInit ==
  /\ Init /\ R!Init
  /\ watched \in {"containers", "service"}
  /\ watched = "containers" => service = "healthy"

ContainersOnly(A) == watched = "containers" /\ A /\ UNCHANGED <<remote, watched>>
ServiceOnly(A)    == watched = "service" /\ A /\ UNCHANGED <<vars, watched>>

AlertNext == ContainersOnly(Next) \/ ServiceOnly(R!Next)

(* The timer keeps starting checks, and a run that has started ends.         *)
AlertSpec ==
  /\ AlertInit /\ [][AlertNext]_<<vars, remote, watched>>
  /\ \A r \in RemoteRuns : WF_<<vars, remote, watched>>(ServiceOnly(R!Step(r)))

-----------------------------------------------------------------------------
(* RemoteAlert: "alerts once; its recovery sends one notice".                *)
OneNoticePerTurn == R!OneNoticePerTurn

(* RemoteAlert: the operator learns of an outage that lasts, and that a      *)
(* service is back for good.                                                 *)
TurnsTold == R!OutageTold /\ R!RecoveryTold
=============================================================================
