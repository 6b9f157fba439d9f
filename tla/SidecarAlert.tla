----------------------------- MODULE SidecarAlert -----------------------------
(***************************************************************************)
(* deploy/tools/sidecar-restart-alert.sh: the check a timer starts again   *)
(* and again, and the --ack that deploy/preflight/up.sh runs after a       *)
(* successful `compose up`. Each run looks at the containers one by one,   *)
(* reads the baseline file, compares and notifies container by container,  *)
(* and replaces the file. Nothing locks the file, so runs may overlap.     *)
(***************************************************************************)
EXTENDS Integers

CONSTANTS Containers, OneShots,  \* OneShots: those that restart by design after every run
          Crashing,              \* containers that may end with a non-zero exit code
          Checks, Acks,          \* the timer's runs; the runs of up.sh with their --ack
          OneshotMax,            \* expected restarts since the last run (--oneshot-max)
          Overlap,               \* FALSE: a run starts only when no other is under way
          MaxChanges, MaxFaults  \* bounds: changes per container; failed sends and lost runs

ASSUME RunsAssumption == Checks \cap Acks = {}
ASSUME BoundsAssumption == OneshotMax \in Nat /\ MaxChanges \in Nat /\ MaxFaults \in Nat

Runs == Checks \cup Acks

VARIABLES docker,   \* each container as Docker has it
          base,     \* the baseline file: the line of each container
          file,     \* the baseline file exists
          phase, todo, snap, old, out, seen,   \* each run, see TypeOK
          known,    \* history: the last change of each container somebody was told of
          acked,    \* history: the last change of each container an --ack has recorded
          faults

run == <<phase, todo, snap, old, out, seen>>
vars == <<docker, base, file, run, known, acked, faults>>

(* n numbers the changes of a container and is history, like bad, the last   *)
(* change that was a non-zero exit; the script sees the other fields: whether *)
(* there is a container, its id and image, StartedAt and RestartCount (they   *)
(* move together), Status = running, and ExitCode = 0.                       *)
Line == [n : Nat, there : BOOLEAN, id : Nat, run : Nat, up : BOOLEAN, ok : BOOLEAN, bad : Nat]
Fresh == [n |-> 0, there |-> TRUE, id |-> 0, run |-> 0, up |-> TRUE, ok |-> TRUE, bad |-> 0]

TypeOK ==
  /\ docker \in [Containers -> Line]
  /\ base \in [Containers -> Line]
  /\ file \in BOOLEAN
  /\ phase \in [Runs -> {"idle", "up", "inspect", "compare", "write"}]
  /\ todo \in [Runs -> SUBSET Containers]         \* containers not yet inspected or compared
  /\ snap \in [Runs -> [Containers -> Line]]      \* what `docker inspect` said
  /\ old \in [Runs -> [Containers -> Line]]       \* the baseline as the run read it
  /\ out \in [Runs -> [Containers -> Line]]       \* the baseline it will write
  /\ seen \in [Runs -> [Containers -> Nat]]       \* history: acked when it read the baseline
  /\ known \in [Containers -> Nat]
  /\ acked \in [Containers -> Nat]
  /\ faults \in 0..MaxFaults

NoLines == [c \in Containers |-> [Fresh EXCEPT !.there = FALSE]]

Init ==
  /\ docker = [c \in Containers |-> Fresh]
  /\ base = NoLines /\ file = FALSE
  /\ phase = [r \in Runs |-> "idle"]
  /\ todo = [r \in Runs |-> {}]
  /\ snap = [r \in Runs |-> NoLines]
  /\ old = [r \in Runs |-> NoLines]
  /\ out = [r \in Runs |-> NoLines]
  /\ seen = [r \in Runs |-> [c \in Containers |-> 0]]
  /\ known = [c \in Containers |-> 0]
  /\ acked = [c \in Containers |-> 0]
  /\ faults = 0

Later(m, n) == IF n > m THEN n ELSE m
Change(c, line) ==
  /\ docker[c].n < MaxChanges
  /\ docker' = [docker EXCEPT ![c] = [line EXCEPT !.n = @ + 1]]

-----------------------------------------------------------------------------
(* What happens to containers outside a deploy. *)
Finish(c) ==
  /\ docker[c].there /\ docker[c].up
  /\ Change(c, [docker[c] EXCEPT !.up = FALSE])

Crash(c) ==
  /\ c \in Crashing /\ docker[c].there /\ docker[c].up
  /\ Change(c, [docker[c] EXCEPT !.up = FALSE, !.ok = FALSE, !.bad = docker[c].n + 1])

(* Docker's restart policy, or a hand: Docker resets ExitCode on a start. *)
Restart(c) ==
  /\ docker[c].there /\ ~docker[c].up
  /\ Change(c, [docker[c] EXCEPT !.run = @ + 1, !.up = TRUE, !.ok = TRUE])

Remove(c) ==
  /\ docker[c].there
  /\ Change(c, [docker[c] EXCEPT !.there = FALSE])

Replaced(c) == [docker[c] EXCEPT !.there = TRUE, !.id = @ + 1, !.run = 0, !.up = TRUE, !.ok = TRUE]
Replace(c) == Change(c, Replaced(c))

World(c) ==
  /\ Finish(c) \/ Crash(c) \/ Restart(c) \/ Remove(c) \/ Replace(c)
  /\ UNCHANGED <<base, file, run, known, acked, faults>>

(* up.sh: `docker compose up` replaces what changed; the --ack comes after. *)
Deploy(r, c) ==
  /\ r \in Acks /\ phase[r] \in {"idle", "up"}
  /\ Change(c, Replaced(c))
  /\ phase' = [phase EXCEPT ![r] = "up"]
  /\ UNCHANGED <<base, file, todo, snap, old, out, seen, known, acked, faults>>

-----------------------------------------------------------------------------
(* One run. `docker ps` names the containers there are... *)
Start(r) ==
  /\ phase[r] = IF r \in Acks THEN "up" ELSE "idle"
  /\ Overlap \/ \A q \in Runs : phase[q] \in {"idle", "up"}
  /\ phase' = [phase EXCEPT ![r] = "inspect"]
  /\ todo' = [todo EXCEPT ![r] = {c \in Containers : docker[c].there}]
  /\ snap' = [snap EXCEPT ![r] = docker]
  /\ UNCHANGED <<docker, base, file, old, out, seen, known, acked, faults>>

(* The run's process ends, and its variables with it. *)
EndRun(r) ==
  /\ phase' = [phase EXCEPT ![r] = "idle"]
  /\ todo' = [todo EXCEPT ![r] = {}]
  /\ snap' = [snap EXCEPT ![r] = NoLines]
  /\ old' = [old EXCEPT ![r] = NoLines]
  /\ out' = [out EXCEPT ![r] = NoLines]
  /\ seen' = [seen EXCEPT ![r] = [c \in Containers |-> 0]]

(* ...each is inspected; one gone since `docker ps` ends the run (exit 2). *)
Inspect(r, c) ==
  /\ phase[r] = "inspect" /\ c \in todo[r]
  /\ IF docker[c].there
       THEN /\ snap' = [snap EXCEPT ![r][c] = docker[c]]
            /\ todo' = [todo EXCEPT ![r] = @ \ {c}]
            /\ UNCHANGED <<phase, old, out, seen>>
       ELSE EndRun(r)
  /\ UNCHANGED <<docker, base, file, known, acked, faults>>

ReadBaseline(r) ==
  /\ phase[r] = "inspect" /\ todo[r] = {}
  /\ old' = [old EXCEPT ![r] = base]
  /\ seen' = [seen EXCEPT ![r] = acked]
  /\ out' = [out EXCEPT ![r] = snap[r]]
  /\ IF r \in Acks \/ ~file
       THEN /\ phase' = [phase EXCEPT ![r] = "write"]      \* baseline as it is, no alert
            /\ known' = [c \in Containers |-> Later(known[c], snap[r][c].n)]
            /\ UNCHANGED todo
       ELSE /\ phase' = [phase EXCEPT ![r] = "compare"]
            /\ todo' = [todo EXCEPT ![r] = Containers]
            /\ UNCHANGED known
  /\ UNCHANGED <<docker, base, file, snap, acked, faults>>

(* prev and cur are lines of one container. *)
SameRun(prev, cur) == prev.id = cur.id /\ prev.run = cur.run

ExpectedRestart(c, prev, cur) ==
  /\ c \in OneShots
  /\ prev.id = cur.id /\ cur.ok
  /\ cur.run >= prev.run /\ cur.run - prev.run <= OneshotMax

(* Mutant: a container that stopped within the same run is not news. *)
NewsWithoutStops(c, prev, cur) ==
  /\ prev.there
  /\ ~cur.there \/ (~SameRun(prev, cur) /\ ~ExpectedRestart(c, prev, cur))

News(c, prev, cur) ==
  /\ prev.there
  /\ \/ ~cur.there
     \/ SameRun(prev, cur) /\ prev.up /\ ~cur.up
     \/ ~SameRun(prev, cur) /\ ~ExpectedRestart(c, prev, cur)

(* Mutant: the new line is kept whether or not notify failed. *)
CompareForgetful(r, c) ==
  LET prev == old[r][c]
      cur  == snap[r][c]
      Told == known' = [known EXCEPT ![c] = Later(@, cur.n)]
  IN /\ phase[r] = "compare" /\ c \in todo[r]
     /\ todo' = [todo EXCEPT ![r] = @ \ {c}]
     /\ \/ News(c, prev, cur) /\ Told /\ UNCHANGED faults
        \/ News(c, prev, cur) /\ faults < MaxFaults /\ faults' = faults + 1 /\ UNCHANGED known
        \/ ~News(c, prev, cur) /\ UNCHANGED <<known, faults>>
     /\ UNCHANGED <<docker, base, file, phase, snap, old, out, seen, acked>>

(* The new state keeps the new line once the alert is out, the previous one  *)
(* when notify failed. Without --strict a container new to the baseline is   *)
(* kept with a log line. An expected restart tells nobody of a crash.        *)
Compare(r, c) ==
  LET prev == old[r][c]
      cur  == snap[r][c]
      Told == known' = [known EXCEPT ![c] = Later(@, cur.n)]
  IN /\ phase[r] = "compare" /\ c \in todo[r]
     /\ todo' = [todo EXCEPT ![r] = @ \ {c}]
     /\ \/ /\ News(c, prev, cur)
           /\ Told
           /\ UNCHANGED <<out, faults>>
        \/ /\ News(c, prev, cur) /\ faults < MaxFaults
           /\ faults' = faults + 1
           /\ out' = [out EXCEPT ![r][c] = prev]
           /\ UNCHANGED known
        \/ /\ ~News(c, prev, cur)
           /\ IF prev.there /\ (SameRun(prev, cur) \/ cur.bad > prev.n)
                THEN UNCHANGED known ELSE Told
           /\ UNCHANGED <<out, faults>>
     /\ UNCHANGED <<docker, base, file, phase, snap, old, seen, acked>>

(* Mutant: --ack reads but does not write, like --dry-run. *)
WriteNotAcked(r) ==
  /\ \/ phase[r] = "write"
     \/ phase[r] = "compare" /\ todo[r] = {}
  /\ IF r \in Acks THEN UNCHANGED <<base, file>> ELSE base' = out[r] /\ file' = TRUE
  /\ acked' = IF r \in Acks THEN [c \in Containers |-> Later(acked[c], out[r][c].n)] ELSE acked
  /\ EndRun(r)
  /\ UNCHANGED <<docker, known, faults>>

Write(r) ==
  /\ \/ phase[r] = "write"
     \/ phase[r] = "compare" /\ todo[r] = {}
  /\ base' = out[r] /\ file' = TRUE
  /\ acked' = IF r \in Acks THEN [c \in Containers |-> Later(acked[c], out[r][c].n)] ELSE acked
  /\ EndRun(r)
  /\ UNCHANGED <<docker, known, faults>>

(* The run is killed, Docker does not answer, or the file cannot be written. *)
Lost(r) ==
  /\ phase[r] \in {"inspect", "compare", "write"} /\ faults < MaxFaults
  /\ faults' = faults + 1
  /\ EndRun(r)
  /\ UNCHANGED <<docker, base, file, known, acked>>

Step(r) ==
  \/ Start(r) \/ ReadBaseline(r) \/ Write(r)
  \/ \E c \in Containers : Inspect(r, c) \/ Compare(r, c)

Next ==
  \/ \E c \in Containers : World(c)
  \/ \E r \in Runs : Step(r) \/ Lost(r) \/ \E c \in Containers : Deploy(r, c)

Spec == Init /\ [][Next]_vars

(* The timer keeps starting checks, a run goes on, up.sh runs its --ack. *)
FairSpec == Spec /\ \A r \in Runs : WF_vars(Step(r))

-----------------------------------------------------------------------------
(* The baseline never holds a state of a container that nobody was told of   *)
(* (by an alert, an --ack or the first run): what is in the file is what     *)
(* later runs stay silent about, so such a change would be lost. "Notify     *)
(* failures leave the old state line in place so the next run retries"; "a   *)
(* non-zero exit, a replaced container/image or a burst ... still alerts".   *)
NothingSwallowed == \A c \in Containers : base[c].there => base[c].n <= known[c]

(* A check that read the baseline after an --ack had written it raises no    *)
(* alert for a state that --ack had recorded: "A successful up is a known    *)
(* deploy: re-baseline the restart alert" (deploy/preflight/up.sh).          *)
KnownDeployQuiet ==
  \A r \in Runs : phase[r] = "compare" =>
    \A c \in todo[r] :
      News(c, old[r][c], snap[r][c]) => snap[r][c].n > seen[r][c]

(* Every change is told of in the end, whatever notify failures, lost runs   *)
(* and overlapping runs come between.                                        *)
ChangesReported ==
  \A c \in Containers : \A n \in 1..MaxChanges :
    (file /\ docker[c].n = n) ~> (known[c] >= n)
=============================================================================
