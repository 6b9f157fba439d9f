----------------------------- MODULE MCModelEval -----------------------------
(***************************************************************************)
(* The two tools that judge models against live engines, each on its own:  *)
(* while one runs, the other has refused its command line.                 *)
(*                                                                         *)
(* Framing eval: the command lines main refuses, one flaw at a time, and   *)
(* runs of up to four cases with up to two candidates. Parity: three texts *)
(* in batches of two.                                                      *)
(***************************************************************************)
EXTENDS FramingEval, EmbedParity

Search == [reasoner |-> TRUE, smoke |-> TRUE]
Plain  == [reasoner |-> FALSE, smoke |-> FALSE]
Action == [reasoner |-> TRUE, smoke |-> FALSE]

Good ==
  [args |-> "ok", engine |-> "http", problems |-> FALSE, key |-> TRUE, list |-> FALSE,
   dry |-> FALSE, smoke |-> FALSE, approved |-> "good", files |-> "ok",
   book |-> <<Search, Plain>>, candidates |-> 1, reference |-> 0, cap |-> 8]

Mistyped == [Good EXCEPT !.args = "bad"]

Flawed ==
  {Mistyped, [Good EXCEPT !.engine = "bad"], [Good EXCEPT !.engine = "none"],
   [Good EXCEPT !.problems = TRUE], [Good EXCEPT !.dry = TRUE],
   [Good EXCEPT !.approved = "none"], [Good EXCEPT !.approved = "malformed"],
   [Good EXCEPT !.files = "unreadable"], [Good EXCEPT !.cap = 3],
   [Good EXCEPT !.list = TRUE], [Good EXCEPT !.list = TRUE, !.key = FALSE]}

MCOptions ==
  Flawed
    \cup {[Good EXCEPT !.cap = n] : n \in 4..9}
    \cup {[Good EXCEPT !.book = <<Search, Action, Search, Plain>>, !.smoke = s, !.candidates = x[1],
                       !.reference = x[2], !.cap = n] :
            s \in BOOLEAN, x \in {<<0, 0>>, <<1, 0>>, <<1, 1>>, <<2, 0>>, <<2, 1>>},
            n \in {8, 12, 18}}

-----------------------------------------------------------------------------
Three ==
  [docs |-> 2, queries |-> 1, mine |-> <<0, 3, 1>>, theirs |-> <<0, 3, 1>>, k |-> 1,
   min |-> 5, overlap |-> 90, reference |-> FALSE, fault |-> "none", cli |-> TRUE]

Untyped == [Three EXCEPT !.cli = FALSE]

MCChecks ==
  {Untyped, [Three EXCEPT !.fault = "dimensions"],
   [Three EXCEPT !.docs = 0, !.queries = 0, !.mine = <<>>, !.theirs = <<>>]}
    \cup {[Three EXCEPT !.docs = d, !.queries = 3 - d] : d \in 0..3}
    \cup {[Three EXCEPT !.reference = TRUE, !.fault = f] : f \in {"none", "counts", "dimensions"}}
    \cup {[Three EXCEPT !.mine = m, !.theirs = t, !.k = k, !.reference = f] :
            m, t \in [1..3 -> 0..2], k \in {1, 3}, f \in BOOLEAN}

-----------------------------------------------------------------------------
ParityRests == c = Untyped /\ got = [mine |-> <<>>, theirs |-> <<>>] /\ server = "mine" /\ code = 2
EvalRests   == o = Mistyped /\ exit = 2 /\ Init

ModelInit == (Init /\ ParityRests) \/ (ParityInit /\ EvalRests)
ModelNext == (Next /\ UNCHANGED parityVars) \/ (ParityNext /\ UNCHANGED vars)

ModelSpec == ModelInit /\ [][ModelNext]_<<vars, parityVars>>
=============================================================================
