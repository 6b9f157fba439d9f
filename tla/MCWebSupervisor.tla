--------------------------- MODULE MCWebSupervisor ---------------------------
(* A small instance of WebSupervisor: two capabilities checked in both      *)
(* directions, one required feature, and the pairings of the repository's   *)
(* releases: old/old, new/new, the older source-job client pair, an old     *)
(* Core behind a newer front that stays idle, and the two mixed pairs the   *)
(* gate must refuse.                                                        *)
EXTENDS WebSupervisor, TLC

MCPairs == {"rust-source-jobs", "rust-project-source-work"}
MCSourceJobs == "rust-source-jobs"
MCSourceWork == "rust-project-source-work"
MCRequired == {"rust-auth"}

Old == [front |-> "rust", bin |-> "absolute", codeNet |-> FALSE, features |-> Required,
        marks |-> {}, embedding |-> "absent", client |-> "absent", worker |-> TRUE,
        port |-> <<>>]
New == [Old EXCEPT !.features = Features \ {Store}, !.marks = Pairs \cup {Baseline},
                   !.embedding = "owned", !.worker = FALSE]
Client    == [Old EXCEPT !.features = Required \cup {Store}, !.client = "canonical"]
IdleFront == [Old EXCEPT !.features = Required \cup {Guard, Embedding, Baseline}]
Mixed     == [New EXCEPT !.features = Required]
Leftover  == [New EXCEPT !.worker = TRUE]

MCImages == {Old, New, Client, IdleFront, Mixed, Leftover}
MCImagesPaired == {Old, New}

Every     == Trapped
Steady    == {"waitAny", "stop"}
Launches  == Launching
Late      == {"waitNode"}

Symmetry == Permutations(Starts)
=============================================================================
