------------------------------- MODULE RepoSplit -------------------------------
(***************************************************************************)
(* tools/repo-split: runs of `extract`, with or without --push, cut the    *)
(* split repositories out of a noevia commit, one after the other, verify  *)
(* each and replace its remote main, while people commit there too.        *)
(*                                                                         *)
(* A commit: the cut it was made from (or a person's number), what its     *)
(* tree holds, and whether its message has a Split-Source line.            *)
(***************************************************************************)
EXTENDS Naturals

CONSTANTS Targets,      \* the split repositories
          First,        \* Target::ALL: the first one,
          Follows,      \*   and what comes after each, "end" after the last
          Cuts,         \* commits of noevia
          Publishers,   \* runs that may be under way at the same time
          TrailerKept,  \* TRUE: people's commits may keep the trailer (amend, squash)
          MaxCommits    \* bound: people's commits

ASSUME SplitAssumption ==
  /\ First \in Targets /\ Follows \in [Targets -> Targets \cup {"end"}]
  /\ "end" \notin Targets /\ TrailerKept \in BOOLEAN /\ MaxCommits \in Nat

VARIABLES main,    \* repository -> its remote main
          clone,   \* run -> HEAD of the clone it works in, in a folder of its own
          ask,     \* run -> its command line
          on,      \* run -> the repository it is at, or "end"
          step,    \* run -> its next command
          saw,     \* run -> the remote main as push() read it
          people   \* how many commits people have made

splitVars == <<main, clone, ask, on, step, saw, people>>

Nothing == [of |-> 0, tree |-> "none", trailer |-> FALSE]
Commit  == [of : Cuts \cup 0..MaxCommits, tree : {"none", "noevia", "split", "other", "person"},
            trailer : BOOLEAN]

(* named: --replace-remote.                                                  *)
Arguments == [cut : Cuts, all : BOOLEAN, push : BOOLEAN, named : Commit]
NoCall    == [cut |-> 0, all |-> FALSE, push |-> FALSE, named |-> Nothing]

SplitTypeOK ==
  /\ main \in [Targets -> Commit] /\ clone \in [Publishers -> Commit]
  /\ ask \in [Publishers -> Arguments \cup {NoCall}] /\ on \in [Publishers -> Targets \cup {"end"}]
  /\ step \in [Publishers -> {"clone", "filter", "scaffold", "verify", "look", "push"}]
  /\ saw \in [Publishers -> Commit] /\ people \in 0..MaxCommits

SplitInit ==
  /\ main = [t \in Targets |-> Nothing]
  /\ clone = [p \in Publishers |-> Nothing]
  /\ ask = [p \in Publishers |-> NoCall]
  /\ on = [p \in Publishers |-> "end"] /\ step = [p \in Publishers |-> "clone"]
  /\ saw = [p \in Publishers |-> Nothing] /\ people = 0

-----------------------------------------------------------------------------
(* People.                                                                   *)
CommitTo(t) ==
  /\ main[t] # Nothing /\ people < MaxCommits
  /\ people' = people + 1
  /\ \E kept \in {FALSE} \cup {TrailerKept} :
       main' = [main EXCEPT ![t] = [of |-> people + 1, tree |-> "person", trailer |-> kept]]
  /\ UNCHANGED <<clone, ask, on, step, saw>>

-----------------------------------------------------------------------------
Becomes(p, c) == clone' = [clone EXCEPT ![p] = c]

Goes(p, from, to) ==
  /\ on[p] # "end" /\ step[p] = from
  /\ step' = [step EXCEPT ![p] = to]

(* A run begins with t, whose folder is another one, or it has ended.        *)
Begins(p, t) ==
  /\ on' = [on EXCEPT ![p] = t] /\ step' = [step EXCEPT ![p] = "clone"]
  /\ Becomes(p, Nothing) /\ saw' = [saw EXCEPT ![p] = Nothing]
  /\ ask' = IF t = "end" THEN [ask EXCEPT ![p] = NoCall] ELSE ask

(* main.rs, run(): the loop over the targets.                                *)
NextTarget(p) == Begins(p, IF ask[p].all THEN Follows[on[p]] ELSE "end")

(* --replace-remote needs --push and a single --target.                      *)
Call(p) ==
  /\ on[p] = "end"
  /\ \E c \in Cuts, all, push \in BOOLEAN, t \in Targets : \E named \in {Nothing, main[t]} :
       /\ all => t = First
       /\ named # Nothing => push /\ ~all
       /\ ask' = [ask EXCEPT ![p] = [cut |-> c, all |-> all, push |-> push, named |-> named]]
       /\ on' = [on EXCEPT ![p] = t]
  /\ UNCHANGED <<main, clone, step, saw, people>>

(* extract: a folder that is there is refused (GiveUpOn) or, with --force,   *)
(* removed; then git clone --no-checkout, of the whole of noevia.            *)
Clone(p) ==
  /\ Goes(p, "clone", "filter")
  /\ Becomes(p, [of |-> ask[p].cut, tree |-> "noevia", trailer |-> FALSE])
  /\ UNCHANGED <<main, ask, on, saw, people>>

(* main = the cut, its only ref; git filter-repo makes of it what it makes.  *)
Filter(p) ==
  /\ Goes(p, "filter", "scaffold")
  /\ \E tree \in {"split", "other"} :
       Becomes(p, [of |-> ask[p].cut, tree |-> tree, trailer |-> FALSE])
  /\ UNCHANGED <<main, ask, on, saw, people>>

(* One commit with the scaffold's files and the trailer, if there is one.    *)
Scaffold(p) ==
  /\ Goes(p, "scaffold", "verify")
  /\ \E files \in BOOLEAN : Becomes(p, [clone[p] EXCEPT !.trailer = @ \/ files])
  /\ UNCHANGED <<main, ask, on, saw, people>>

(* verify: byte identity with the cut; then, without --push, the next one.   *)
Verify(p) ==
  /\ on[p] # "end" /\ step[p] = "verify"
  /\ clone[p].tree = "split" /\ clone[p].of = ask[p].cut
  /\ \/ ask[p].push /\ Goes(p, "verify", "look") /\ UNCHANGED <<clone, ask, on, saw>>
     \/ ~ask[p].push /\ NextTarget(p)
  /\ UNCHANGED <<main, people>>

(* push: may the remote main be replaced?                                    *)
Replaceable(p, remote) ==
  \/ remote = Nothing
  \/ ask[p].named = remote
  \/ ask[p].named = Nothing /\ remote.trailer

LookAtRemote(p) ==
  LET remote == main[on[p]]
  IN \/ /\ Goes(p, "look", "push")
        /\ remote # clone[p] /\ Replaceable(p, remote)
        /\ saw' = [saw EXCEPT ![p] = remote]
        /\ UNCHANGED <<main, clone, ask, on, people>>
     \/ /\ on[p] # "end" /\ step[p] = "look" /\ remote = clone[p]
        /\ NextTarget(p)
        /\ UNCHANGED <<main, people>>

(* Mutant: a plain --force. *)
PushForced(p) ==
  /\ on[p] # "end" /\ step[p] = "push"
  /\ main' = [main EXCEPT ![on[p]] = clone[p]]
  /\ NextTarget(p)
  /\ UNCHANGED people

(* git push --force-with-lease=main:<what was read>.                         *)
Push(p) ==
  /\ on[p] # "end" /\ step[p] = "push"
  /\ main[on[p]] = saw[p]
  /\ main' = [main EXCEPT ![on[p]] = clone[p]]
  /\ NextTarget(p)
  /\ UNCHANGED people

(* A refusal, a git command that fails, or a kill ends the run, the targets  *)
(* it has not come to included.                                              *)
GiveUpOn(p) ==
  /\ on[p] # "end"
  /\ Begins(p, "end")
  /\ UNCHANGED <<main, people>>

PublisherStep(p) ==
  \/ Call(p) \/ Clone(p) \/ Filter(p) \/ Scaffold(p) \/ Verify(p)
  \/ LookAtRemote(p) \/ Push(p) \/ GiveUpOn(p)

SplitNext == (\E t \in Targets : CommitTo(t)) \/ (\E p \in Publishers : PublisherStep(p))

SplitSpec == SplitInit /\ [][SplitNext]_splitVars

-----------------------------------------------------------------------------
(* push(): a main is replaced by nothing but the verified extraction of a    *)
(* cut, and a commit somebody made there only by a run that was told of      *)
(* exactly that commit, "so a commit landing in between still fails it".     *)
Guarded(t) ==
  \/ main'[t].tree = "person"
  \/ \E p \in Publishers :
       /\ on[p] = t /\ main'[t].tree = "split" /\ main'[t].of = ask[p].cut
       /\ main[t].tree = "person" => ask[p].named = main[t]

HumanWorkKept == [][\A t \in Targets : main'[t] # main[t] => Guarded(t)]_splitVars
=============================================================================
