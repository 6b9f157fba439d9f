----------------------------- MODULE FramingEval -----------------------------
(***************************************************************************)
(* One run of experiments/framing-eval/run.cjs: the checks of main, the    *)
(* framed/unframed leg of the answer model, the reasoner leg of every      *)
(* candidate, the verdicts and the report, over the HTTP backend with its  *)
(* retries and its cap on calls.                                           *)
(*                                                                         *)
(* condense() of noevia-core (external; docs/spec-task-packet.md, "Pipeline *)
(* and fallbacks") turns every failure of its request into a fallback, and *)
(* gives up at its deadline; a request that is waiting for its retry does  *)
(* not hear of that, and goes on behind the run (late).                    *)
(***************************************************************************)
EXTENDS Integers, Sequences, FiniteSets

CONSTANTS Options,   \* the command lines and case files, see OptionsAssumption
          RetryMax   \* RETRY_MAX

(* A case is what the run reads of it. reference: 0, or the place of         *)
(* --reference among the candidates. cap: --max-calls.                       *)
Case == [reasoner : BOOLEAN, smoke : BOOLEAN]
Option ==
  [args : {"ok", "bad"}, engine : {"none", "bad", "http"}, problems : BOOLEAN,
   key : BOOLEAN, list : BOOLEAN, dry : BOOLEAN, smoke : BOOLEAN,
   approved : {"none", "malformed", "good"}, files : {"ok", "unreadable"},
   book : Seq(Case), candidates : Nat, reference : Nat, cap : Nat]

ASSUME OptionsAssumption ==
  /\ Options \subseteq Option
  /\ \A o \in Options : o.reference <= o.candidates
ASSUME RetryAssumption == RetryMax \in Nat

VARIABLES o,         \* the command line of this run
          leg, at, side,   \* framed leg 0, candidate 1..; its case; which call
          attempt, calls, retries,   \* of the backend
          late,      \* requests that outlived the deadline of their packet
          raw,       \* the framed answers: did each succeed
          rows,      \* candidate -> the success of each packet's answer
          swallowed, \* history: a packet was given up because of the cap
          report,    \* the files written: "none", "json" or "both"
          exit       \* the exit code, -1 while the run goes on

position == <<leg, at, side>>
backend  == <<attempt, calls, retries, late>>
results  == <<raw, rows, swallowed>>
vars     == <<o, position, backend, results, report, exit>>

-----------------------------------------------------------------------------
(* selectCases, and the cases the pipeline condenses: their places in the    *)
(* case file.                                                                *)
Earlier(cases, i) == Cardinality({j \in cases : j < i})

Selected ==
  IF ~o.smoke THEN DOMAIN o.book
  ELSE LET smoke == {i \in DOMAIN o.book : o.book[i].smoke}
       IN {i \in smoke : Earlier(smoke, i) < 2}

ReasonerCases == {i \in Selected : o.book[i].reasoner}

Framed   == Cardinality(Selected)
Reasoned == Cardinality(ReasonerCases)

(* Mutant: the answers from the packets are not in the plan. *)
PlannedPackets == 2 * Framed + Reasoned * o.candidates

(* plan.calls.total, what the owner approves. *)
Planned == 2 * Framed + 2 * (Reasoned * o.candidates)

Work == IF leg = 0 THEN Framed ELSE Reasoned

TypeOK ==
  /\ o \in Options
  /\ leg \in 0..(o.candidates + 1) /\ at \in Nat \ {0}
  /\ side \in {"unframed", "framed", "condense", "answer"}
  /\ attempt \in 0..RetryMax
  /\ calls \in Nat /\ retries \in Nat /\ late \in Nat
  /\ raw \in Seq(BOOLEAN) /\ rows \in Seq(Seq(BOOLEAN))
  /\ swallowed \in BOOLEAN
  /\ report \in {"none", "json", "both"}
  /\ exit \in {-1, 0, 1, 2}

Running == exit = -1 /\ leg <= o.candidates
Calling == Running /\ at <= Work

-----------------------------------------------------------------------------
(* main: what a command line comes to before a backend is built; -1 is a run *)
(* that may begin, and createHttpBackend throws for an engine it cannot call. *)
Answer(opt, planned) ==
  IF opt.args = "bad" THEN {2}
  ELSE IF opt.list THEN IF opt.engine = "none" \/ ~opt.key THEN {2} ELSE {0, 1}
  ELSE IF opt.problems \/ opt.engine = "none" \/ opt.files = "unreadable" THEN {2}
  ELSE IF opt.dry THEN {0}
  ELSE IF opt.approved # "good" \/ planned > opt.cap THEN {2}
  ELSE IF opt.engine = "bad" THEN {1} ELSE {-1}

Init ==
  /\ o \in Options
  /\ leg = 0 /\ at = 1 /\ side = "unframed"
  /\ attempt = 0 /\ calls = 0 /\ retries = 0 /\ late = 0
  /\ raw = <<>> /\ rows = <<>> /\ swallowed = FALSE
  /\ report = "none"
  /\ exit \in Answer(o, Planned)

-----------------------------------------------------------------------------
(* The position after the call at hand; a packet that is no packet has no    *)
(* answer call.                                                              *)
Then(next) == side' = next /\ UNCHANGED <<leg, at>>
NextCase ==
  /\ at' = at + 1
  /\ side' = IF leg = 0 THEN "unframed" ELSE "condense"
  /\ UNCHANGED leg

Row(success) == rows' = [rows EXCEPT ![leg] = Append(@, success)]

(* What timed() makes of an answer or of a request that failed.              *)
Scored(success) ==
  \/ side = "unframed" /\ Then("framed") /\ UNCHANGED results
  \/ /\ side = "framed" /\ NextCase
     /\ raw' = Append(raw, success) /\ UNCHANGED <<rows, swallowed>>
  \/ /\ side = "answer" /\ NextCase
     /\ Row(success) /\ UNCHANGED <<raw, swallowed>>

(* Mutant: a packet that is no packet is left out of the rows. *)
FallbackUnrecorded == NextCase /\ UNCHANGED <<raw, rows>>

(* condense() answers ok: false. *)
Fallback == NextCase /\ Row(FALSE) /\ UNCHANGED raw

MayCall == calls < o.cap

(* Mutant: the cap is looked at once per request, not before each attempt. *)
SendUncapped == Calling /\ (MayCall \/ attempt > 0) /\ calls' = calls + 1

Send == Calling /\ MayCall /\ calls' = calls + 1

(* The request is answered, or fails for good: a network error, a status     *)
(* that is not retried, the last attempt, a reply without a message.         *)
Done ==
  /\ Send
  /\ attempt' = 0
  /\ \/ side # "condense" /\ \E success \in BOOLEAN : Scored(success)
     \/ side = "condense" /\ Then("answer") /\ UNCHANGED results
     \/ side = "condense" /\ Fallback /\ UNCHANGED swallowed
  /\ UNCHANGED <<o, retries, late, report, exit>>

(* 429 or 5xx: a pause, then the same request again.                         *)
Retry ==
  /\ Send
  /\ attempt < RetryMax
  /\ attempt' = attempt + 1 /\ retries' = retries + 1
  /\ UNCHANGED <<o, position, late, results, report, exit>>

(* The deadline of a packet passes during that pause.                        *)
Deadline ==
  /\ Calling /\ side = "condense" /\ attempt > 0
  /\ Fallback /\ UNCHANGED swallowed
  /\ attempt' = 0 /\ late' = late + 1
  /\ UNCHANGED <<o, calls, retries, report, exit>>

(* The pause ends: the request is counted and fails, as its signal is        *)
(* aborted, or finds the cap reached and throws to nobody.                   *)
LateRetry ==
  /\ exit = -1 /\ late > 0
  /\ late' = late - 1
  /\ calls' = IF MayCall THEN calls + 1 ELSE calls
  /\ UNCHANGED <<o, position, attempt, retries, results, report, exit>>

(* Mutant: a packet refused its call is condensed again. *)
CapReachedAgain ==
  /\ Calling /\ ~MayCall
  /\ \/ side # "condense" /\ exit' = 1 /\ UNCHANGED swallowed
     \/ side = "condense" /\ swallowed' = TRUE /\ UNCHANGED exit
  /\ UNCHANGED <<o, position, backend, raw, rows, report>>

(* CallCapError is fatal to timed(), and a failure like any other to         *)
(* condense().                                                               *)
CapReached ==
  /\ Calling /\ ~MayCall
  /\ attempt' = 0
  /\ \/ side # "condense" /\ exit' = 1 /\ UNCHANGED <<position, results>>
     \/ side = "condense" /\ Fallback /\ swallowed' = TRUE /\ UNCHANGED exit
  /\ UNCHANGED <<o, calls, retries, late, report>>

(* The next candidate.                                                       *)
NextLeg ==
  /\ Running /\ at > Work
  /\ leg' = leg + 1 /\ at' = 1 /\ side' = "condense"
  /\ rows' = IF leg < o.candidates THEN Append(rows, <<>>) ELSE rows
  /\ UNCHANGED <<o, backend, raw, swallowed, report, exit>>

(* writeReport: the JSON, then the Markdown; the run keeps nothing else.     *)
WriteReport ==
  /\ exit = -1 /\ leg > o.candidates
  /\ \/ report' = "both" /\ exit' = 0
     \/ report' \in {"none", "json"} /\ exit' = 1
  /\ UNCHANGED <<o, position, backend, results>>

Step == Done \/ Retry \/ Deadline \/ CapReached \/ NextLeg \/ WriteReport
Next == Step \/ LateRetry

Spec == Init /\ [][Next]_vars

(* Every request has a time limit and every pause ends.                      *)
FairSpec == Spec /\ WF_vars(Step)

-----------------------------------------------------------------------------
(* summarizeCandidate and applyKill, with the rates as they are rounded to   *)
(* four places before they are compared.                                     *)
Rate(n, of) == (20000 * n + of) \div (2 * of)

(* rawRows: the framed answer to a case that is condensed; row.answer.       *)
RawOk(i)    == raw[Earlier(Selected, i) + 1]
Packet(k, i) == rows[k][Earlier(ReasonerCases, i) + 1]

RawCases   == {i \in ReasonerCases : RawOk(i)}
Successes(k) == Cardinality({i \in ReasonerCases : Packet(k, i)})
Both(k)    == Cardinality({i \in RawCases : Packet(k, i)})

(* Mutant: the share is taken of every case, not of those raw got right. *)
SufficientOfAll(k) == Rate(Both(k), Reasoned) >= 8500

Sufficient(k) == Rate(Both(k), Cardinality(RawCases)) >= 8500

Relative(k) ==
  \/ o.reference \in {0, k} \/ Successes(o.reference) = 0
  \/ 10 * Rate(Successes(k), Reasoned) >= 7 * Rate(Successes(o.reference), Reasoned)

Verdict(k) ==
  IF (RawCases # {} /\ ~Sufficient(k)) \/ ~Relative(k) THEN "KILL"
  ELSE IF RawCases = {} THEN "UNDECIDED" ELSE "PASS"

-----------------------------------------------------------------------------
(* "No backend without --approved-run": a call is made only in a run whose   *)
(* id is well formed, with its problems and its plan checked, and never more *)
(* calls than --max-calls.                                                   *)
OnlyApproved ==
  /\ calls <= o.cap
  /\ calls > 0 => /\ o.approved = "good" /\ ~o.dry /\ ~o.list /\ ~o.problems
                  /\ Planned <= o.cap

(* The plan the owner approved bounds the run: beyond the planned calls      *)
(* there are only the retries the report counts.                             *)
OnPlan == calls <= Planned + retries

(* A report has an answer for every selected case and, for every candidate,  *)
(* a row for every condensed case, so that candidates are compared "on the   *)
(* same packets".                                                            *)
ReportComplete ==
  report # "none" =>
    /\ Len(raw) = Framed /\ Len(rows) = o.candidates
    /\ \A k \in 1..o.candidates : Len(rows[k]) = Reasoned

(* A candidate is killed only for a case it failed that the raw result, or   *)
(* the reference's packet, got right; the reference is not killed by itself. *)
KilledFairly ==
  report # "none" =>
    \A k \in 1..o.candidates : Verdict(k) = "KILL" =>
      \E i \in ReasonerCases :
        ~Packet(k, i) /\ (RawOk(i) \/ (o.reference \notin {0, k} /\ Packet(o.reference, i)))

(* Every run comes to an exit code.                                          *)
EvalEnds == <>(exit # -1)

(* "a run that exceeds it (retries count) aborts": no report of a run that   *)
(* was refused a call.                                                       *)
AbortsAtCap == swallowed => report = "none"
=============================================================================
