------------------------------- MODULE ToolsProof -------------------------------
(***************************************************************************)
(* Theorems about the tools that keep or publish what others wrote.        *)
(*                                                                         *)
(* OffsiteMirror: as long as the store's folder does not come off its      *)
(* mount under a run, the prune removes nothing but what noevia's          *)
(* retention has removed, and a page on which a run without --dry-run has  *)
(* written "ok" says it of objects that are on the remote, for any         *)
(* objects, runs and cap.                                                  *)
(*                                                                         *)
(* RepoSplit: whatever runs publish side by side and whatever people       *)
(* commit between their commands, a main is only replaced as push() says,  *)
(* for any repositories, cuts and runs.                                    *)
(***************************************************************************)
EXTENDS OffsiteMirror, RepoSplit, TLAPS


(* The lock: one run at a time.                                              *)
Alone ==
  \A p, q \in MirrorRuns : mpc[p] \in UnderWay /\ mpc[q] \in UnderWay => p = q

(* What is on the remote, and what a copy began with, came from the store.   *)
FromStore ==
  /\ remote \subseteq store \cup retired
  /\ \A r \in MirrorRuns : found[r] \subseteq store \cup retired

(* A run that has looked at the folder lists the store, not a mount point.   *)
SeesStore == ~torn => \A r \in MirrorRuns : mpc[r] \in Looked => mounted

(* What a prune may remove is what its listing lacks: retired objects.       *)
Prunable ==
  ~torn => \A r \in MirrorRuns : mpc[r] \in {"sync", "prune"} => remote \ listed[r] \subseteq retired

(* What a run found is listed while it copies, and on the remote afterwards; *)
(* a dry run's is not.                                                       *)
Copied ==
  ~torn => \A r \in MirrorRuns : ~dry[r] =>
    /\ mpc[r] = "copy" => found[r] \subseteq listed[r] \cup retired
    /\ mpc[r] \in {"relist", "sync", "prune"} => found[r] \subseteq remote \cup retired

MInv ==
  MirrorTypeOK /\ Alone /\ FromStore /\ SeesStore /\ Prunable /\ Copied
    /\ PruneFollowsRetention /\ OkMeansCopied

LEMMA OverType ==
  ASSUME MirrorTypeOK, NEW r \in MirrorRuns, Over(r)
  PROVE  /\ mpc' \in [MirrorRuns -> {"start"} \cup UnderWay] /\ dry' \in [MirrorRuns -> BOOLEAN]
         /\ listed' \in [MirrorRuns -> SUBSET Objects] /\ found' \in [MirrorRuns -> SUBSET Objects]
         /\ deleted' \in [MirrorRuns -> 0..MaxDelete]
BY MirrorAssumption DEF Over, MirrorTypeOK

LEMMA MirrorTypeStep == MirrorTypeOK /\ [MirrorNext]_mirrorVars => MirrorTypeOK'
<1> SUFFICES ASSUME MirrorTypeOK, [MirrorNext]_mirrorVars PROVE MirrorTypeOK'
  OBVIOUS
<1> USE MirrorAssumption
<1>0. Folder \subseteq Objects
  BY DEF Folder, MirrorTypeOK
<1>1. CASE Mount
  BY <1>1 DEF Mount, Changed, MirrorTypeOK, runState, pageState
<1>2. ASSUME NEW o \in Objects, Keep(o) PROVE MirrorTypeOK'
  BY <1>2 DEF Keep, Changed, MirrorTypeOK, runState, pageState
<1>3. ASSUME NEW o \in Objects, Retire(o) PROVE MirrorTypeOK'
  BY <1>3 DEF Retire, Changed, MirrorTypeOK, runState, pageState
<1>4. ASSUME NEW r \in MirrorRuns, Lock(r) PROVE MirrorTypeOK'
  BY <1>4 DEF Lock, At, MirrorTypeOK, UnderWay, pageState
<1>5. ASSUME NEW r \in MirrorRuns, Look(r) PROVE MirrorTypeOK'
  <2>1. CASE \E state \in {"not-connected", "refused", "waiting"} : Ends(r, state)
    <3>1. Over(r) /\ page' \in {"not-connected", "refused", "waiting"} /\ rehearsed' = dry[r]
      BY <2>1 DEF Ends
    <3> QED
      BY <3>1, <1>5, OverType DEF Look, MirrorTypeOK
  <2>2. CASE At(r, "check", "list") /\ UNCHANGED <<dry, listed, deleted, found, page, rehearsed>>
    BY <1>5, <2>2 DEF Look, At, MirrorTypeOK, UnderWay
  <2> QED
    BY <1>5, <2>1, <2>2 DEF Look
<1>6. ASSUME NEW r \in MirrorRuns, List(r) PROVE MirrorTypeOK'
  BY <1>6, <1>0 DEF List, At, MirrorTypeOK, UnderWay, pageState
<1>7. ASSUME NEW r \in MirrorRuns, TryAgain(r) PROVE MirrorTypeOK'
  BY <1>7, <1>0 DEF TryAgain, MirrorTypeOK, UnderWay, pageState
<1>8. ASSUME NEW r \in MirrorRuns, Transferred(r) PROVE MirrorTypeOK'
  BY <1>8 DEF Transferred, At, MirrorTypeOK, UnderWay, pageState
<1>9. ASSUME NEW r \in MirrorRuns, Fails(r) PROVE MirrorTypeOK'
  BY <1>9, OverType DEF Fails, Ends, MirrorTypeOK
<1>10. ASSUME NEW r \in MirrorRuns, Finish(r) PROVE MirrorTypeOK'
  BY <1>10, OverType DEF Finish, Ends, MirrorTypeOK
<1>11. ASSUME NEW r \in MirrorRuns, Killed(r) PROVE MirrorTypeOK'
  BY <1>11, OverType DEF Killed, MirrorTypeOK, pageState
<1>12. ASSUME NEW r \in MirrorRuns, NEW o \in Objects, Transfer(r, o) PROVE MirrorTypeOK'
  BY <1>12 DEF Transfer, MirrorTypeOK, runState, pageState
<1>13. ASSUME NEW r \in MirrorRuns, NEW o \in Objects, Prune(r, o) PROVE MirrorTypeOK'
  BY <1>13 DEF Prune, MirrorTypeOK, pageState
<1>14. CASE UNCHANGED mirrorVars
  BY <1>14 DEF mirrorVars, runState, pageState, MirrorTypeOK
<1> QED
  BY <1>1, <1>2, <1>3, <1>4, <1>5, <1>6, <1>7, <1>8, <1>9, <1>10, <1>11, <1>12, <1>13, <1>14
  DEF MirrorNext, RunStep

LEMMA MirrorTypeStart == MirrorInit => MirrorTypeOK
<1> SUFFICES ASSUME MirrorInit PROVE MirrorTypeOK
  OBVIOUS
<1> USE DEF MirrorInit
<1>1. 0 \in 0..MaxDelete /\ 0 \in 0..MaxChanges
  BY MirrorAssumption
<1>2. /\ listed \in [MirrorRuns -> SUBSET Objects] /\ found \in [MirrorRuns -> SUBSET Objects]
      /\ mpc \in [MirrorRuns -> {"start"} \cup UnderWay] /\ dry \in [MirrorRuns -> BOOLEAN]
  OBVIOUS
<1>3. deleted \in [MirrorRuns -> 0..MaxDelete] /\ changes \in 0..MaxChanges
  BY <1>1
<1>4. /\ store \subseteq Objects /\ mounted \in BOOLEAN /\ remote \subseteq Objects
      /\ retired \subseteq Objects /\ shown \subseteq Objects /\ lost \subseteq Objects
  OBVIOUS
<1>5. torn \in BOOLEAN /\ rehearsed \in BOOLEAN /\ page = "none"
  OBVIOUS
<1> QED
  BY <1>2, <1>3, <1>4, <1>5 DEF MirrorTypeOK

(* The types of the mirror's variables, for any objects, runs and cap.       *)
THEOREM MirrorTypeCorrect == MirrorSpec => []MirrorTypeOK
BY MirrorTypeStart, MirrorTypeStep, PTL DEF MirrorSpec

LEMMA MirrorStep == MInv /\ [MirrorNext]_mirrorVars => MInv'
<1> SUFFICES ASSUME MInv, [MirrorNext]_mirrorVars PROVE MInv'
  OBVIOUS
<1>0. MirrorTypeOK'
  BY MirrorTypeStep DEF MInv
<1> SUFFICES (Alone /\ FromStore /\ SeesStore /\ Prunable /\ Copied
                /\ PruneFollowsRetention /\ OkMeansCopied)'
  BY <1>0 DEF MInv
<1> USE DEF MInv, Alone, FromStore, SeesStore, Prunable, Copied, PruneFollowsRetention,
            OkMeansCopied, UnderWay, Looked, Folder, pageState
<1>t. /\ mpc \in [MirrorRuns -> {"start"} \cup UnderWay] /\ dry \in [MirrorRuns -> BOOLEAN]
      /\ listed \in [MirrorRuns -> SUBSET Objects] /\ found \in [MirrorRuns -> SUBSET Objects]
      /\ torn \in BOOLEAN /\ mounted \in BOOLEAN
  BY DEF MirrorTypeOK
<1>1. CASE Mount
  BY <1>1, <1>t DEF Mount, runState
<1>2. ASSUME NEW o \in Objects, Keep(o) PROVE MInv'
  BY <1>0, <1>2, <1>t DEF Keep, runState
<1>3. ASSUME NEW o \in Objects, Retire(o) PROVE MInv'
  BY <1>0, <1>3, <1>t DEF Retire, runState
<1>4. ASSUME NEW r \in MirrorRuns, Lock(r) PROVE MInv'
  BY <1>0, <1>4, <1>t DEF Lock, At, Free
<1>5. ASSUME NEW r \in MirrorRuns, Look(r) PROVE MInv'
  BY <1>0, <1>5, <1>t DEF Look, At, Ends, Over
<1>6. ASSUME NEW r \in MirrorRuns, List(r) PROVE MInv'
  BY <1>0, <1>6, <1>t DEF List, At
<1>7. ASSUME NEW r \in MirrorRuns, TryAgain(r) PROVE MInv'
  BY <1>0, <1>7, <1>t DEF TryAgain, Copying
<1>8. ASSUME NEW r \in MirrorRuns, Transferred(r) PROVE MInv'
  BY <1>0, <1>8, <1>t DEF Transferred, At
<1>9. ASSUME NEW r \in MirrorRuns, Fails(r) PROVE MInv'
  BY <1>0, <1>9, <1>t DEF Fails, Ends, Over
<1>10. ASSUME NEW r \in MirrorRuns, Finish(r) PROVE MInv'
  BY <1>0, <1>10, <1>t DEF Finish, Ends, Over
<1>11. ASSUME NEW r \in MirrorRuns, Killed(r) PROVE MInv'
  BY <1>0, <1>11, <1>t DEF Killed, Over
<1>12. ASSUME NEW r \in MirrorRuns, NEW o \in Objects, Transfer(r, o) PROVE MInv'
  BY <1>0, <1>12, <1>t DEF Transfer, Copying, runState
<1>13. ASSUME NEW r \in MirrorRuns, NEW o \in Objects, Prune(r, o) PROVE MInv'
  BY <1>0, <1>13, <1>t DEF Prune
<1>14. CASE UNCHANGED mirrorVars
  BY <1>14 DEF mirrorVars, runState
<1> QED
  BY <1>1, <1>2, <1>3, <1>4, <1>5, <1>6, <1>7, <1>8, <1>9, <1>10, <1>11, <1>12, <1>13, <1>14
  DEF MirrorNext, RunStep

LEMMA MirrorInvariant == MirrorSpec => []MInv
<1>1. MirrorInit => MInv
  BY MirrorTypeStart DEF MirrorInit, MInv, Alone, FromStore, SeesStore, Prunable, Copied,
     PruneFollowsRetention, OkMeansCopied, UnderWay, Looked
<1> QED
  BY <1>1, MirrorStep, PTL DEF MirrorSpec

(* "the prune only removes what noevia's own retention already removed", for *)
(* any objects, cap and number of runs, started beside each other or killed. *)
THEOREM PrunesRetired == MirrorSpec => []PruneFollowsRetention
BY MirrorInvariant, PTL DEF MInv

(* A page on which a run without --dry-run has written "ok" says it of       *)
(* objects the remote has.                                                   *)
THEOREM OkIsCopied == MirrorSpec => []OkMeansCopied
BY MirrorInvariant, PTL DEF MInv

-----------------------------------------------------------------------------
(* The push is of what verify has compared with the cut.                     *)
Compared ==
  \A p \in Publishers :
    step[p] \in {"look", "push"} => clone[p].tree = "split" /\ clone[p].of = ask[p].cut

(* A run that is under way begins with the clone.                            *)
Fresh == \A p \in Publishers : on[p] = "end" => step[p] = "clone"

(* The lease is of a main that may be replaced.                              *)
Leased == \A p \in Publishers : step[p] = "push" => Replaceable(p, saw[p])

(* People write messages of their own: no commit of theirs is taken for an   *)
(* extraction.                                                               *)
Told(c) == c.tree = "person" => ~c.trailer

OwnWords ==
  /\ \A t \in Targets : Told(main[t])
  /\ \A p \in Publishers : clone[p].tree # "person"

Safe == Fresh /\ Compared /\ Leased /\ OwnWords
SInv == SplitTypeOK /\ Safe

LEMMA NothingType == Nothing \in Commit
<1>1. 0 \in 0..MaxCommits
  BY SplitAssumption
<1> QED
  BY <1>1 DEF Nothing, Commit

LEMMA BeginsType ==
  ASSUME SplitTypeOK, NEW p \in Publishers, NEW t \in Targets \cup {"end"}, Begins(p, t)
  PROVE  /\ clone' \in [Publishers -> Commit]
         /\ ask' \in [Publishers -> Arguments \cup {NoCall}]
         /\ on' \in [Publishers -> Targets \cup {"end"}]
         /\ step' \in [Publishers -> {"clone", "filter", "scaffold", "verify", "look", "push"}]
         /\ saw' \in [Publishers -> Commit]
BY NothingType DEF SplitTypeOK, Begins, Becomes

LEMMA NextIsTarget ==
  ASSUME SplitTypeOK, NEW p \in Publishers, on[p] # "end"
  PROVE  /\ on[p] \in Targets
         /\ (IF ask[p].all THEN Follows[on[p]] ELSE "end") \in Targets \cup {"end"}
BY SplitAssumption DEF SplitTypeOK

LEMMA SplitTypeStart == SplitInit => SplitTypeOK
<1> SUFFICES ASSUME SplitInit PROVE SplitTypeOK
  OBVIOUS
<1>1. 0 \in 0..MaxCommits
  BY SplitAssumption
<1> QED
  BY <1>1, NothingType DEF SplitInit, SplitTypeOK

LEMMA SplitTypeStep == SplitTypeOK /\ [SplitNext]_splitVars => SplitTypeOK'
<1> SUFFICES ASSUME SplitTypeOK, [SplitNext]_splitVars PROVE SplitTypeOK'
  OBVIOUS
<1>1. ASSUME NEW t \in Targets, CommitTo(t) PROVE SplitTypeOK'
  <2>1. people' \in 0..MaxCommits
    BY <1>1, SplitAssumption DEF CommitTo, SplitTypeOK
  <2>2. PICK kept \in {FALSE} \cup {TrailerKept} :
          main' = [main EXCEPT ![t] = [of |-> people + 1, tree |-> "person", trailer |-> kept]]
    BY <1>1 DEF CommitTo
  <2>3. kept \in BOOLEAN /\ people + 1 \in 0..MaxCommits
    BY <1>1, <2>1, SplitAssumption DEF CommitTo
  <2>4. [of |-> people + 1, tree |-> "person", trailer |-> kept] \in Commit
    BY <2>3 DEF Commit
  <2>5. main' \in [Targets -> Commit]
    BY <2>2, <2>4 DEF SplitTypeOK
  <2> QED
    BY <1>1, <2>1, <2>5 DEF CommitTo, SplitTypeOK
<1>2. ASSUME NEW p \in Publishers, Call(p) PROVE SplitTypeOK'
  <2>0. PICK c \in Cuts, all \in BOOLEAN, push \in BOOLEAN, t \in Targets :
          \E named \in {Nothing, main[t]} :
            /\ all => t = First
            /\ named # Nothing => push /\ ~all
            /\ ask' = [ask EXCEPT ![p] = [cut |-> c, all |-> all, push |-> push, named |-> named]]
            /\ on' = [on EXCEPT ![p] = t]
    BY <1>2 DEF Call
  <2>1. PICK named \in {Nothing, main[t]} :
          /\ ask' = [ask EXCEPT ![p] = [cut |-> c, all |-> all, push |-> push, named |-> named]]
          /\ on' = [on EXCEPT ![p] = t]
    BY <2>0
  <2>2. named \in Commit
    BY <2>1, NothingType DEF SplitTypeOK
  <2>3. [cut |-> c, all |-> all, push |-> push, named |-> named] \in Arguments
    BY <2>2 DEF Arguments
  <2>4. ask' \in [Publishers -> Arguments \cup {NoCall}]
    BY <2>1, <2>3 DEF SplitTypeOK
  <2> QED
    BY <1>2, <2>1, <2>4 DEF Call, SplitTypeOK
<1>3. ASSUME NEW p \in Publishers, on[p] # "end",
             \/ Clone(p) \/ Filter(p)
      PROVE SplitTypeOK'
  <2>1. ask[p].cut \in Cuts \cup 0..MaxCommits
    BY SplitAssumption DEF SplitTypeOK, Arguments, NoCall
  <2>2. \A tree \in {"noevia", "split", "other"} :
          [of |-> ask[p].cut, tree |-> tree, trailer |-> FALSE] \in Commit
    BY <2>1 DEF Commit
  <2>3. CASE Clone(p)
    BY <2>2, <2>3 DEF Clone, Becomes, Goes, SplitTypeOK
  <2>4. CASE Filter(p)
    <3>1. PICK tree \in {"split", "other"} :
            clone' = [clone EXCEPT ![p] = [of |-> ask[p].cut, tree |-> tree, trailer |-> FALSE]]
      BY <2>4 DEF Filter, Becomes
    <3>2. clone' \in [Publishers -> Commit]
      BY <2>2, <3>1 DEF SplitTypeOK
    <3> QED
      BY <2>4, <3>2 DEF Filter, Goes, SplitTypeOK
  <2> QED
    BY <1>3, <2>3, <2>4
<1>4. ASSUME NEW p \in Publishers, Scaffold(p) PROVE SplitTypeOK'
  <2>1. \A files \in BOOLEAN : [clone[p] EXCEPT !.trailer = @ \/ files] \in Commit
    <3>1. clone[p] \in Commit
      BY DEF SplitTypeOK
    <3> QED
      BY <3>1 DEF Commit
  <2> QED
    BY <1>4, <2>1 DEF Scaffold, Becomes, Goes, SplitTypeOK
<1>5. ASSUME NEW p \in Publishers, on[p] # "end", NextTarget(p), UNCHANGED people,
             UNCHANGED main \/ main' = [main EXCEPT ![on[p]] = clone[p]]
      PROVE SplitTypeOK'
  <2>1. main' \in [Targets -> Commit]
    BY <1>5, NextIsTarget DEF SplitTypeOK
  <2> QED
    BY <1>5, <2>1, NextIsTarget, BeginsType DEF NextTarget, SplitTypeOK
<1>6. ASSUME NEW p \in Publishers, Verify(p) PROVE SplitTypeOK'
  BY <1>5, <1>6 DEF Verify, Goes, SplitTypeOK
<1>7. ASSUME NEW p \in Publishers, LookAtRemote(p) PROVE SplitTypeOK'
  <2>1. on[p] \in Targets
    BY <1>7, NextIsTarget DEF LookAtRemote, Goes
  <2> QED
    BY <1>5, <1>7, <2>1 DEF LookAtRemote, Goes, SplitTypeOK
<1>8. ASSUME NEW p \in Publishers, Push(p) PROVE SplitTypeOK'
  BY <1>5, <1>8 DEF Push
<1>9. ASSUME NEW p \in Publishers, GiveUpOn(p) PROVE SplitTypeOK'
  BY <1>9, BeginsType DEF GiveUpOn, SplitTypeOK
<1>10. CASE UNCHANGED splitVars
  BY <1>10 DEF splitVars, SplitTypeOK
<1> QED
  BY <1>1, <1>2, <1>3, <1>4, <1>6, <1>7, <1>8, <1>9, <1>10
  DEF SplitNext, PublisherStep, Clone, Filter, Goes

(* The types of a publication's variables, for any repositories and runs.    *)
THEOREM SplitTypeCorrect == SplitSpec => []SplitTypeOK
BY SplitTypeStart, SplitTypeStep, PTL DEF SplitSpec

-----------------------------------------------------------------------------
(* A run that begins with another repository, or ends, has nothing to keep.  *)
LEMMA BeginsKeeps ==
  ASSUME SplitTypeOK, Fresh, Compared, Leased, \A q \in Publishers : clone[q].tree # "person",
         NEW p \in Publishers, NEW t, Begins(p, t)
  PROVE  Fresh' /\ Compared' /\ Leased' /\ \A q \in Publishers : clone[q]'.tree # "person"
BY ZenonT(60) DEF SplitTypeOK, Fresh, Compared, Leased, Begins, Becomes, Replaceable, Nothing

LEMMA SplitStep ==
  ASSUME TrailerKept = FALSE
  PROVE  SInv /\ [SplitNext]_splitVars => SInv'
<1> SUFFICES ASSUME SInv, [SplitNext]_splitVars PROVE Safe'
  BY SplitTypeStep DEF SInv
<1> USE DEF SInv, Safe, Fresh
<1>1. ASSUME NEW t \in Targets, CommitTo(t) PROVE Safe'
  <2>1. main' = [main EXCEPT ![t] = [of |-> people + 1, tree |-> "person", trailer |-> FALSE]]
    BY <1>1 DEF CommitTo
  <2>2. \A s \in Targets : Told(main'[s])
    BY <2>1 DEF OwnWords, Told, SplitTypeOK
  <2> QED
    BY <1>1, <2>2 DEF CommitTo, Compared, Leased, OwnWords, Replaceable
<1>2. ASSUME NEW p \in Publishers, Call(p) PROVE Safe'
  BY <1>2 DEF Call, Compared, Leased, OwnWords, Replaceable, SplitTypeOK
<1>3. ASSUME NEW p \in Publishers, Clone(p) \/ Filter(p) \/ Scaffold(p) PROVE Safe'
  <2>1. /\ on[p] # "end" /\ step' = [step EXCEPT ![p] = step'[p]]
        /\ step'[p] \in {"filter", "scaffold", "verify"}
        /\ UNCHANGED <<main, ask, on, saw, people>>
    BY <1>3 DEF Clone, Filter, Scaffold, Goes, SplitTypeOK
  <2>2. \E c : Becomes(p, c) /\ c.tree # "person"
    <3>1. CASE Clone(p)
      BY <3>1 DEF Clone
    <3>2. CASE Filter(p)
      BY <3>2 DEF Filter
    <3>3. CASE Scaffold(p)
      <4>1. \A files : [clone[p] EXCEPT !.trailer = @ \/ files].tree # "person"
        BY DEF OwnWords, SplitTypeOK, Commit
      <4> QED
        BY <3>3, <4>1 DEF Scaffold
    <3> QED
      BY <1>3, <3>1, <3>2, <3>3
  <2> QED
    BY <2>1, <2>2 DEF Becomes, Compared, Leased, OwnWords, Replaceable, SplitTypeOK
<1>4. ASSUME NEW p \in Publishers, on[p] # "end", NextTarget(p),
             \/ UNCHANGED main
             \/ clone[p].tree = "split" /\ main' = [main EXCEPT ![on[p]] = clone[p]]
      PROVE Safe'
  BY <1>4, BeginsKeeps, NextIsTarget DEF NextTarget, OwnWords, Told, SplitTypeOK
<1>5. ASSUME NEW p \in Publishers, Verify(p) PROVE Safe'
  <2>1. CASE NextTarget(p)
    BY <1>4, <1>5, <2>1 DEF Verify
  <2>2. CASE Goes(p, "verify", "look") /\ UNCHANGED <<clone, ask, on, saw>>
    BY <1>5, <2>2 DEF Verify, Goes, Compared, Leased, OwnWords, Replaceable, SplitTypeOK
  <2> QED
    BY <1>5, <2>1, <2>2 DEF Verify
<1>6. ASSUME NEW p \in Publishers, LookAtRemote(p) PROVE Safe'
  <2>1. CASE on[p] # "end" /\ NextTarget(p) /\ UNCHANGED main
    BY <1>4, <2>1
  <2>2. CASE /\ Goes(p, "look", "push") /\ Replaceable(p, main[on[p]])
             /\ saw' = [saw EXCEPT ![p] = main[on[p]]]
             /\ UNCHANGED <<main, clone, ask, on, people>>
    BY <2>2 DEF Goes, Compared, Leased, OwnWords, Replaceable, SplitTypeOK
  <2> QED
    BY <1>6, <2>1, <2>2 DEF LookAtRemote
<1>7. ASSUME NEW p \in Publishers, Push(p) PROVE Safe'
  BY <1>4, <1>7 DEF Push, Compared
<1>8. ASSUME NEW p \in Publishers, GiveUpOn(p) PROVE Safe'
  BY <1>8, BeginsKeeps DEF GiveUpOn, OwnWords
<1>9. CASE UNCHANGED splitVars
  BY <1>9 DEF splitVars, Compared, Leased, OwnWords, Told, Replaceable
<1> QED
  BY <1>1, <1>2, <1>3, <1>5, <1>6, <1>7, <1>8, <1>9 DEF SplitNext, PublisherStep

LEMMA SplitInvariant ==
  ASSUME TrailerKept = FALSE
  PROVE  SplitSpec => []SInv
<1>1. SplitInit => SInv
  BY SplitTypeStart DEF SplitInit, SInv, Safe, Fresh, Compared, Leased, OwnWords, Told, Nothing
<1> QED
  BY <1>1, SplitStep, PTL DEF SplitSpec

(* What push() replaces it may replace.                                      *)
LEMMA PushGuarded ==
  ASSUME SInv, [SplitNext]_splitVars, NEW t \in Targets, main'[t] # main[t]
  PROVE  Guarded(t)
<1>1. ASSUME NEW s \in Targets, CommitTo(s) PROVE Guarded(t)
  BY <1>1 DEF CommitTo, Guarded, SInv, SplitTypeOK
<1>2. ASSUME NEW p \in Publishers, Push(p) PROVE Guarded(t)
  <2>1. on[p] = t /\ main'[t] = clone[p] /\ saw[p] = main[t] /\ step[p] = "push"
    BY <1>2, NextIsTarget DEF Push, SInv, SplitTypeOK
  <2>2. clone[p].tree = "split" /\ clone[p].of = ask[p].cut /\ Replaceable(p, main[t])
    BY <2>1 DEF SInv, Safe, Compared, Leased
  <2>3. main[t].tree = "person" => ask[p].named = main[t]
    BY <2>2 DEF Replaceable, SInv, Safe, OwnWords, Told, Nothing
  <2> QED
    BY <2>1, <2>2, <2>3 DEF Guarded
<1>3. ASSUME NEW p \in Publishers, PublisherStep(p), ~Push(p) PROVE UNCHANGED main
  BY <1>3 DEF PublisherStep, Call, Clone, Filter, Scaffold, Verify, LookAtRemote, GiveUpOn
<1> QED
  BY <1>1, <1>2, <1>3 DEF SplitNext, splitVars

(* A main is replaced by nothing but a verified extraction, and a person's   *)
(* commit only by a run that was told of exactly that commit, for any number *)
(* of repositories, runs and commits, as long as people's messages do not    *)
(* carry the trailer on.                                                     *)
THEOREM WorkIsKept ==
  ASSUME TrailerKept = FALSE
  PROVE  SplitSpec => HumanWorkKept
<1>1. SInv /\ [SplitNext]_splitVars =>
        [\A t \in Targets : main'[t] # main[t] => Guarded(t)]_splitVars
  BY PushGuarded
<1> QED
  BY <1>1, SplitInvariant, PTL DEF SplitSpec, HumanWorkKept
=============================================================================
