-------------------------------- MODULE MCTools --------------------------------
(***************************************************************************)
(* The tools the operator runs beside the deployment: the two that judge   *)
(* models (MCModelEval), the mirror of the off-site store (OffsiteMirror)  *)
(* and the publication of the split repositories (RepoSplit). They share   *)
(* nothing: a behaviour is one of one of them, the others stay as they     *)
(* began.                                                                  *)
(***************************************************************************)
EXTENDS MCModelEval, OffsiteMirror, RepoSplit

VARIABLE tool   \* whose behaviour this is: "judge", "mirror" or "split"

judgeVars == <<vars, parityVars>>

MCFollows == [t \in Targets |-> IF t = "web" /\ "core" \in Targets THEN "core" ELSE "end"]

JudgeRests  == EvalRests /\ ParityRests
MirrorRests == MirrorInit /\ store = {} /\ remote = {} /\ ~mounted

ToolsInit ==
  \/ tool = "judge" /\ ModelInit /\ MirrorRests /\ SplitInit
  \/ tool = "mirror" /\ JudgeRests /\ MirrorInit /\ SplitInit
  \/ tool = "split" /\ JudgeRests /\ MirrorRests /\ SplitInit

ToolsNext ==
  /\ \/ tool = "judge" /\ ModelNext /\ UNCHANGED <<mirrorVars, splitVars>>
     \/ tool = "mirror" /\ MirrorNext /\ UNCHANGED <<judgeVars, splitVars>>
     \/ tool = "split" /\ SplitNext /\ UNCHANGED <<judgeVars, mirrorVars>>
  /\ UNCHANGED tool

(* A framing evaluation whose requests are answered or fail goes on.         *)
ToolsSpec ==
  /\ ToolsInit /\ [][ToolsNext]_<<judgeVars, mirrorVars, splitVars, tool>>
  /\ WF_vars(Step)
=============================================================================
