---------------------------- MODULE WebSupervisor ----------------------------
(***************************************************************************)
(* build/web-supervisor.sh from the pair lock to its exit, for several     *)
(* container starts over one data directory: the gate (StartGate), the     *)
(* non-blocking flock whose descriptor both children inherit, the launch   *)
(* of Core ("node") and of the Rust front, the TERM/INT trap that runs     *)
(* stop() between any two commands of the main line, and the joins.        *)
(* The main line is suspended while a call of stop() is in progress        *)
(* (body # "none"), whoever called it.                                     *)
(***************************************************************************)
EXTENDS StartGate, FiniteSets

CONSTANTS Starts,       \* container starts over the data directory, each used once
          Images,       \* the installed images they may run
          MaxSignals,   \* bound: TERM/INT signals per start
          SignalPhases  \* bound: main-line phases in which a trapped signal arrives

ASSUME ImagesAssumption == Images \subseteq Image
ASSUME MaxSignalsAssumption == MaxSignals \in Nat

Procs == {"node", "front"}

VARIABLES image,     \* what each start finds installed
          main,      \* where the main line of each start stands
          body,      \* where its call of stop() stands
          stopping, signalled,   \* the script's flags
          signals,   \* how many signals the start has had
          pid,       \* the children whose pid the script has stored
          proc,      \* what became of each child
          fd,        \* the processes of the start that hold descriptor 9, the pair lock
          code       \* exit status: 0, 1 for any other of a started pair, 2 refused, 137 killed

vars == <<image, main, body, stopping, signalled, signals, pid, proc, fd, code>>
control == <<image, code>>

Launching == {"forkNode", "recNode", "forkFront", "recFront"}
Trapped   == Launching \cup {"waitAny", "stop", "waitNode", "waitFront", "exit"}
Running   == {"lock", "locked"} \cup Trapped
Phases    == {"off", "gone"} \cup Running
Bodies    == {"none", "term", "poll", "join", "core"}
NoCode    == -1

TypeOK ==
  /\ image \in [Starts -> Images]
  /\ main \in [Starts -> Phases]
  /\ body \in [Starts -> Bodies]
  /\ stopping \in [Starts -> BOOLEAN]
  /\ signalled \in [Starts -> BOOLEAN]
  /\ signals \in [Starts -> 0..MaxSignals]
  /\ pid \in [Starts -> SUBSET Procs]
  /\ proc \in [Starts -> [Procs -> {"unborn", "up", "termed", "killed", "dead"}]]
  /\ fd \in [Starts -> SUBSET (Procs \cup {"sup"})]
  /\ code \in [Starts -> {NoCode, 0, 1, 2, 137}]

Init ==
  /\ image \in [Starts -> Images]
  /\ main = [s \in Starts |-> "off"]
  /\ body = [s \in Starts |-> "none"]
  /\ stopping = [s \in Starts |-> FALSE]
  /\ signalled = [s \in Starts |-> FALSE]
  /\ signals = [s \in Starts |-> 0]
  /\ pid = [s \in Starts |-> {}]
  /\ proc = [s \in Starts |-> [p \in Procs |-> "unborn"]]
  /\ fd = [s \in Starts |-> {}]
  /\ code = [s \in Starts |-> NoCode]

Alive(state) == state \in {"up", "termed", "killed"}
Live(s, p) == Alive(proc[s][p])

(* The main line takes its next command: no call of stop() is in progress.  *)
AtLine(s, phase) == main[s] = phase /\ body[s] = "none"
GoTo(s, phase) == main' = [main EXCEPT ![s] = phase]
End(s, c) ==
  /\ GoTo(s, "gone")
  /\ body' = [body EXCEPT ![s] = "none"]
  /\ code' = [code EXCEPT ![s] = c]
  /\ fd' = [fd EXCEPT ![s] = @ \ {"sup"}]

-----------------------------------------------------------------------------
(* Every check of the gate, up to the lock. *)
Boot(s) ==
  /\ main[s] = "off"
  /\ \/ StartAllowed(image[s]) /\ GoTo(s, "lock") /\ UNCHANGED <<body, code, fd>>
     \/ ~StartAllowed(image[s]) /\ End(s, RefusedWith(image[s]))
  /\ UNCHANGED <<image, stopping, signalled, signals, pid, proc>>

(* Mutant: the lock is opened but its result is not looked at. *)
TryLockIgnored(s) ==
  /\ AtLine(s, "lock")
  /\ fd' = [fd EXCEPT ![s] = {"sup"}]
  /\ GoTo(s, "locked")
  /\ UNCHANGED <<control, body, stopping, signalled, signals, pid, proc>>

(* flock -n on embedding-pair.lock: taken while any process of another      *)
(* start still has the descriptor open.                                     *)
TryLock(s) ==
  /\ AtLine(s, "lock")
  /\ \/ /\ \A t \in Starts : fd[t] = {}
        /\ fd' = [fd EXCEPT ![s] = {"sup"}]
        /\ GoTo(s, "locked")
        /\ UNCHANGED <<body, code>>
     \/ /\ \E t \in Starts : fd[t] # {}
        /\ End(s, 2)
  /\ UNCHANGED <<image, stopping, signalled, signals, pid, proc>>

InstallTrap(s) ==
  /\ AtLine(s, "locked")
  /\ GoTo(s, "forkNode")
  /\ UNCHANGED <<control, body, stopping, signalled, signals, pid, proc, fd>>

(* Mutant: the children close descriptor 9 (9>&-). *)
ForkClosed(s, p, from, to) ==
  /\ AtLine(s, from)
  /\ proc' = [proc EXCEPT ![s][p] = "up"]
  /\ GoTo(s, to)
  /\ UNCHANGED <<control, body, stopping, signalled, signals, pid, fd>>

(* `... &` and then `x_pid=$!`: two commands, and the trap may run between. *)
Fork(s, p, from, to) ==
  /\ AtLine(s, from)
  /\ proc' = [proc EXCEPT ![s][p] = "up"]
  /\ fd' = [fd EXCEPT ![s] = @ \cup {p}]
  /\ GoTo(s, to)
  /\ UNCHANGED <<control, body, stopping, signalled, signals, pid>>

Record(s, p, from, to) ==
  /\ AtLine(s, from)
  /\ pid' = [pid EXCEPT ![s] = @ \cup {p}]
  /\ GoTo(s, to)
  /\ UNCHANGED <<control, body, stopping, signalled, signals, proc, fd>>

Launch(s) ==
  \/ Fork(s, "node", "forkNode", "recNode")
  \/ Record(s, "node", "recNode", "forkFront")
  \/ Fork(s, "front", "forkFront", "recFront")
  \/ Record(s, "front", "recFront", "waitAny")

(* wait -n; a wait also ends when a trapped signal arrives, see Signal. *)
WaitAny(s) ==
  /\ AtLine(s, "waitAny")
  /\ \E p \in Procs : ~Live(s, p)
  /\ GoTo(s, "stop")
  /\ UNCHANGED <<control, body, stopping, signalled, signals, pid, proc, fd>>

(* stop() from its entry to the first kill: nothing at all when it has been  *)
(* called before.                                                            *)
EnterStop(s) ==
  IF stopping[s]
    THEN UNCHANGED <<body, stopping>>
    ELSE /\ stopping' = [stopping EXCEPT ![s] = TRUE]
         /\ body' = [body EXCEPT ![s] = IF "front" \in pid[s] THEN "term" ELSE "core"]

CallStop(s) ==
  /\ AtLine(s, "stop")
  /\ EnterStop(s)
  /\ IF stopping[s] THEN GoTo(s, "waitNode") ELSE UNCHANGED main
  /\ UNCHANGED <<control, signalled, signals, pid, proc, fd>>

(* Mutant: no wait before the exit. *)
WaitForNothing(s, p, from, to) ==
  /\ AtLine(s, from)
  /\ GoTo(s, to)
  /\ UNCHANGED <<control, body, stopping, signalled, signals, pid, proc, fd>>

WaitFor(s, p, from, to) ==
  /\ AtLine(s, from)
  /\ ~Live(s, p)
  /\ GoTo(s, to)
  /\ UNCHANGED <<control, body, stopping, signalled, signals, pid, proc, fd>>

WaitBoth(s) ==
  \/ WaitFor(s, "node", "waitNode", "waitFront")
  \/ WaitFor(s, "front", "waitFront", "exit")

(* Mutant: the raw status of `wait -n` (here 143) is passed on. *)
ExitRaw(s) ==
  /\ AtLine(s, "exit")
  /\ End(s, 143)
  /\ UNCHANGED <<image, stopping, signalled, signals, pid, proc>>

Exit(s) ==
  /\ AtLine(s, "exit")
  /\ End(s, IF signalled[s] THEN 0 ELSE 1)
  /\ UNCHANGED <<image, stopping, signalled, signals, pid, proc>>

-----------------------------------------------------------------------------
(* The rest of stop(): TERM the front, poll it until the deadline, join it,  *)
(* and only then TERM Core.                                                  *)
Body(s, from, to) == body[s] = from /\ body' = [body EXCEPT ![s] = to]

Kill(s, p, sig) ==
  proc' = IF Live(s, p) /\ proc[s][p] # "killed"
            THEN [proc EXCEPT ![s][p] = sig] ELSE proc

TermFront(s) ==
  /\ Body(s, "term", "poll")
  /\ Kill(s, "front", "termed")
  /\ UNCHANGED <<control, main, stopping, signalled, signals, pid, fd>>

PollFront(s) ==
  /\ Body(s, "poll", "join")
  /\ ~Live(s, "front")
  /\ UNCHANGED <<control, main, stopping, signalled, signals, pid, proc, fd>>

FrontDeadline(s) ==
  /\ Body(s, "poll", "join")
  /\ Live(s, "front")
  /\ Kill(s, "front", "killed")
  /\ UNCHANGED <<control, main, stopping, signalled, signals, pid, fd>>

(* Mutant: Core is signalled without joining the killed front. *)
JoinFrontSkipped(s) ==
  /\ Body(s, "join", "core")
  /\ UNCHANGED <<control, main, stopping, signalled, signals, pid, proc, fd>>

JoinFront(s) ==
  /\ Body(s, "join", "core")
  /\ ~Live(s, "front")
  /\ UNCHANGED <<control, main, stopping, signalled, signals, pid, proc, fd>>

(* Mutant: stop() returns once the front is down. *)
TermCoreForgotten(s) ==
  /\ Body(s, "core", "none")
  /\ UNCHANGED <<control, main, stopping, signalled, signals, pid, proc, fd>>

TermCore(s) ==
  /\ Body(s, "core", "none")
  /\ IF "node" \in pid[s] THEN Kill(s, "node", "termed") ELSE UNCHANGED proc
  /\ UNCHANGED <<control, main, stopping, signalled, signals, pid, fd>>

Stop(s) == TermFront(s) \/ PollFront(s) \/ FrontDeadline(s) \/ JoinFront(s) \/ TermCore(s)

-----------------------------------------------------------------------------
(* A trapped signal: signalled=1 and stop(). A `wait` it finds in progress   *)
(* returns (over 128) as soon as the trap has run; one not yet begun does    *)
(* not, so the main line may be found on either side.                        *)
AfterWait(phase) ==
  CASE phase = "waitAny"   -> "stop"
    [] phase = "waitNode"  -> "waitFront"
    [] phase = "waitFront" -> "exit"
    [] OTHER -> phase

Signal(s) ==
  /\ main[s] \in SignalPhases \cap Trapped
  /\ signals[s] < MaxSignals
  /\ signals' = [signals EXCEPT ![s] = @ + 1]
  /\ signalled' = [signalled EXCEPT ![s] = TRUE]
  /\ \/ /\ body[s] = "none"
        /\ EnterStop(s)
        /\ \E next \in {main[s], AfterWait(main[s])} : GoTo(s, next)
     \/ /\ body[s] # "none"           \* a nested stop() returns at once
        /\ body' = [body EXCEPT ![s] = IF @ = "join" THEN "core" ELSE @]
        /\ UNCHANGED <<main, stopping>>
  /\ UNCHANGED <<control, pid, proc, fd>>

(* Before the trap is set a TERM ends the script; KILL does in any phase.    *)
Die(s) ==
  /\ main[s] \in Running
  /\ End(s, 137)
  /\ UNCHANGED <<image, stopping, signalled, signals, pid, proc>>

(* A process ends by itself, after a TERM, or by KILL; its descriptor closes.*)
ChildExit(s, p) ==
  /\ Live(s, p)
  /\ proc' = [proc EXCEPT ![s][p] = "dead"]
  /\ fd' = [fd EXCEPT ![s] = @ \ {p}]
  /\ UNCHANGED <<control, main, body, stopping, signalled, signals, pid>>

(* When the script has ended, the container ends with it and the kernel      *)
(* kills what is left in it.                                                 *)
Teardown(s, p) == main[s] = "gone" /\ ChildExit(s, p)

Script(s) ==
  \/ Boot(s) \/ TryLock(s) \/ InstallTrap(s) \/ Launch(s) \/ WaitAny(s)
  \/ CallStop(s) \/ WaitBoth(s) \/ Exit(s) \/ Stop(s)

Next ==
  \E s \in Starts :
    \/ Script(s) \/ Signal(s) \/ Die(s)
    \/ \E p \in Procs : ChildExit(s, p)

Spec == Init /\ [][Next]_vars

(* The script goes on; KILL is not ignored; the container is torn down; Core  *)
(* ends within its shutdown budget once TERMed. The front may ignore TERM.   *)
Fairness ==
  \A s \in Starts :
    /\ WF_vars(Script(s))
    /\ \A p \in Procs : /\ WF_vars(proc[s][p] = "killed" /\ ChildExit(s, p))
                        /\ WF_vars(Teardown(s, p))
    /\ WF_vars(proc[s]["node"] = "termed" /\ ChildExit(s, "node"))

FairSpec == Spec /\ Fairness

-----------------------------------------------------------------------------
(* No route or store ever has two owning processes, whichever starts and     *)
(* halves they belong to: the pair lock across starts (build/web-supervisor  *)
(* .sh, "Serialize coherent pair lifetimes, including rollback to an older   *)
(* Core"), the gate within one.                                              *)
SingleWriter ==
  \A s, t \in Starts, p, q \in Procs :
    Live(s, p) /\ Live(t, q) /\ <<s, p>> # <<t, q>> =>
      Owns(image[s], p) \cap Owns(image[t], q) = {}

(* Core is signalled only after the front has been joined: "stop/join the    *)
(* native owner before stopping Core", "never overlap owners" (stop()).      *)
FrontStopsFirst ==
  \A s \in Starts : proc[s]["node"] = "termed" => ~Live(s, "front")

(* The script reports the end of the pair only when both have ended, so      *)
(* Core's shutdown hooks are not cut short by the end of the container       *)
(* ("Reserve Core's 3s shutdown-hook budget", the two waits).                *)
JoinedAtExit ==
  \A s \in Starts : code[s] \in {0, 1} => \A p \in Procs : ~Live(s, p)

(* "If either process exits, the other is stopped and the container exits". *)
EitherEndsBoth ==
  \A s \in Starts :
    (\E p \in Procs : proc[s][p] = "dead")
      ~> (main[s] = "gone" /\ \A p \in Procs : ~Live(s, p))

(* The start and its processes hold the data directory as PairLifetime says: *)
(* a replacement never starts before all of them have ended.                 *)
Holders == {s \in Starts : fd[s] # {}}
LivePairs == {x \in Starts \X Procs : Live(x[1], x[2])}
Pair == INSTANCE PairLifetime WITH holders <- Holders, live <- LivePairs
PairSpec == Pair!Spec
=============================================================================
