---------------------------- MODULE ReleaseGuards ----------------------------
(***************************************************************************)
(* The pairing guards of deploy/tools/assemble-release.sh: which noevia-   *)
(* core and noevia-rs commits may be shipped together. Each commit is what *)
(* the script reads of its tree:                                           *)
(*                                                                         *)
(* core  marks    the pairs whose rust-<name>.cjs it requires              *)
(*       refuses  pair -> the <<path, method>> its file lists;             *)
(*                "rust-projects" and "rust-web-address" are files too     *)
(*       handlers the pairs whose own handler, worker or store it carries  *)
(*       bridges  the pairs it offers the moved front its part of          *)
(*       caps     CoreCaps                                                 *)
(*       mover    CHAT_MOVE_PUBLIC_OWNER: "rust", "node" or "none"         *)
(* rs    features FEATURES of bins/noevia-server                           *)
(*       table    there is a contracts/http/routes.toml                    *)
(*       rows     its routes: [path, owner, switched, methods]             *)
(*       caps     RsCaps                                                   *)
(*                                                                         *)
(* Every refusal is die, so the order of the guards does not matter and    *)
(* Accepts is their conjunction.                                           *)
(***************************************************************************)
CONSTANT Table   \* the pairs: name -> [want, needs, checks], see OwnershipPairs

PairNames == DOMAIN Table

Every == {"ALL"}     \* a row without a methods key: all of them

(* The pairs a moved one must leave with Node unless they moved as well: the *)
(* local exchange (lx_owner) and the recheck.                                *)
Leaves(p) ==
  CASE p = "rust-diary-routes"      -> {"rust-diary-local-exchange"}
    [] p = "rust-model-maintenance" -> {"rust-model-evidence-recheck"}
    [] OTHER                        -> {}

(* The paths the script greps for in Core's refusal without comparing it     *)
(* whole.                                                                    *)
Named(p) ==
  CASE p = "rust-diary-routes"   -> DOMAIN Table[p].want \ {"/api/profile/diary-connectors/{*}"}
    [] p = "rust-offsite-backup" -> {"/api/admin/offsite-backup/new-store"}
    [] OTHER                     -> {}

CoreCaps == {"refuseOwnedRoute", "refuseOwned", "source-client", "retention",
             "history-client", "store-writes", "journal-reader", "needs-origin",
             "running-mark", "end-partial", "delete-client",
             "move-client", "move-enforcement", "move-reader", "move-handler"}

RsCaps == {"source-store", "start-id", "history-store", "journal", "origin",
           "delete-store", "move-foundation", "move-journal"}

Claims(want) == UNION {{<<q, m>> : m \in want[q]} : q \in DOMAIN want}

(* What the front owns without a switch, as the script prints it. *)
FrontRoutes(rs) ==
  UNION {{<<r.path, m>> : m \in r.methods} : r \in {x \in rs.rows : x.owner = "rust" /\ ~x.switched}}

Owns(rs, path, m) == {<<path, m>>, <<path, "ALL">>} \cap FrontRoutes(rs) # {}

-----------------------------------------------------------------------------
(* Mutant: the registry does not widen the probe's route. *)
WantFixed(rs, p) == Table[p].want

(* With the registry the probe's path is the front's for PUT and DELETE too. *)
Want(rs, p) ==
  IF p = "rust-provider-test" /\ "rust-providers" \in rs.features
  THEN [q \in {"/api/providers/test"} |-> {"POST", "PUT", "DELETE"}]
  ELSE Table[p].want

RowsOf(rs, p) == {r \in rs.rows : r.path \in DOMAIN Table[p].want}

Contract(rs, p) ==
  LET want == Want(rs, p) IN
  /\ \A r \in RowsOf(rs, p) : r.owner = "rust" /\ ~r.switched /\ r.methods = want[r.path]
  /\ {r.path : r \in RowsOf(rs, p)} = DOMAIN want
  /\ DOMAIN want # {} => rs.table

StillNodes(rs, p) == \A r \in RowsOf(rs, p) : r.owner = "node"

Skipped(rs, p) == "optional" \in Table[p].checks /\ ~rs.table

Moved(core, rs, p) ==
  /\ Table[p].needs \subseteq rs.features
  /\ Contract(rs, p)
  /\ \A q \in Leaves(p) \ rs.features : StillNodes(rs, q)
  /\ "refusal" \in Table[p].checks => core.refuses[p] = Claims(Want(rs, p))
  /\ \A path \in Named(p) : \E m \in Every \cup {"GET", "POST"} : <<path, m>> \in core.refuses[p]
  /\ "handler" \in Table[p].checks => p \notin core.handlers
  /\ "bridge" \in Table[p].checks => p \in core.bridges

(* Mutant: the row of a route that has not moved is not read. *)
PairAgreesNewOnly(core, rs, p) ==
  /\ p \in core.marks <=> p \in rs.features
  /\ p \in rs.features => Skipped(rs, p) \/ Moved(core, rs, p)

(* One block of the script: "Core and Rust must move together". *)
PairAgrees(core, rs, p) ==
  /\ p \in core.marks <=> p \in rs.features
  /\ \/ Skipped(rs, p)
     \/ /\ p \in rs.features => Moved(core, rs, p)
        /\ p \notin rs.features /\ "old" \in Table[p].checks => StillNodes(rs, p)

-----------------------------------------------------------------------------
(* Retention's PUT is told by Core's write guard and by the row alone. *)
RetentionAgrees(core, rs) ==
  /\ "retention" \in core.caps <=>
       \E r \in rs.rows : /\ r.path = "/api/account/retention" /\ r.owner = "rust"
                          /\ r.methods \cap {"ALL", "PUT"} # {}
  /\ "retention" \in core.caps =>
       "retention" \in core.bridges /\ "retention" \notin core.handlers

WebReads  == {<<"/api/instance", "GET">>, <<"/.well-known/webauthn", "GET">>,
              <<"/api/admin/web-address", "GET">>}
WebWrites == {<<"/api/admin/web-address", "POST">>, <<"/api/admin/web-address/remove", "POST">>}
WebPaths  == {q[1] : q \in WebReads \cup WebWrites}

WebPairs  == {"rust-web-address-read", "rust-web-address-write"}

WebRows(rs) == {r \in rs.rows : r.path \in WebPaths /\ r.owner = "rust"}
WebOwned(rs) == UNION {{<<r.path, m>> : m \in r.methods} : r \in WebRows(rs)}

(* The three reads move together, the two writes after them together. *)
WebAddressAgrees(core, rs, noevia) ==
  LET front == WebOwned(rs)
      node  == core.refuses["rust-web-address"] IN
  IF ~rs.table THEN node = {} ELSE
  front \cup node # {} =>
    /\ front = node /\ node \in {WebReads, WebReads \cup WebWrites}
    /\ \A r \in WebRows(rs) : ~r.switched
    /\ "rust-web-address-read" \in rs.features
    /\ node # WebReads => "rust-web-address-write" \in rs.features
    /\ "web-address" \in noevia

(* Mutant: a front that serves the store beside a Core that keeps its own. *)
SourceStoreAgreesOneWay(core, rs) ==
  LET client == "source-client" \in core.caps
      store  == "source-store" \in rs.caps IN
  IF "rust-source-jobs" \in rs.features THEN ~client /\ ~store ELSE client => store

(* Before rust-source-jobs the store is the front's behind Core's client. *)
SourceStoreAgrees(core, rs) ==
  LET client == "source-client" \in core.caps
      store  == "source-store" \in rs.caps IN
  IF "rust-source-jobs" \in rs.features THEN ~client /\ ~store ELSE client <=> store

-----------------------------------------------------------------------------
History    == "/api/chats/{}/history"
MovePath   == "/api/chats/{}/move"
Deletes    == {"/api/freechats/{}", "/api/projects/{}/chats/{}"}
Session    == "/api/auth/session"

(* Core's lists the front's project routes are compared with. *)
ProjectFiles ==
  {"rust-projects", "rust-project-reads", "rust-project-lifecycle", "rust-project-files",
   "rust-project-document-pages", "rust-project-documents", "rust-source-jobs",
   "rust-project-source-work", "rust-project-config", "rust-research", "rust-task-reads"}

ProjectPaths ==
  ((UNION {DOMAIN Table[p].want : p \in ProjectFiles \ {"rust-projects"}})
     \ {"/api/projects", "/api/code/active"}) \cup Deletes \cup {MovePath}

ProjectRoutes(rs) == {q \in FrontRoutes(rs) : q[1] \in ProjectPaths}

Listed(core) == core.refuses["rust-projects"]

ProjectsAgree(core, rs) ==
  /\ "refuseOwnedRoute" \in core.caps
  /\ ProjectRoutes(rs) \subseteq UNION {core.refuses[f] : f \in ProjectFiles}

SignInAgrees(core, rs) ==
  /\ \E r \in rs.rows : r.path = Session /\ r.owner = "rust" /\ ~r.switched
  /\ "refuseOwned" \in core.caps

StartIdAgrees(rs, noevia) == "start-id" \in rs.caps => "start-id" \in noevia

HistoryOwned(rs, m) ==
  \E r \in rs.rows : r.path = History /\ r.owner = "rust" /\ r.methods \cap {"ALL", m} # {}

RunningMarked(core, rs) ==
  HistoryOwned(rs, "GET") => {"running-mark", "end-partial"} \subseteq core.caps

(* Mutant: the front is trusted to serve the ops its Core calls. *)
HistoryAgreesUnserved(core, rs) ==
  IF HistoryOwned(rs, "POST")
  THEN /\ {"history-client", "store-writes", "journal-reader"} \subseteq core.caps
       /\ <<History, "POST">> \in Listed(core)
       /\ "journal" \in rs.caps
  ELSE <<History, "POST">> \notin Listed(core)

(* The transcript: who writes it, who refuses the save, who journals it. *)
HistoryAgrees(core, rs) ==
  /\ "history-client" \in core.caps => "history-store" \in rs.caps
  /\ IF HistoryOwned(rs, "POST")
     THEN /\ {"history-client", "store-writes", "journal-reader"} \subseteq core.caps
          /\ <<History, "POST">> \in Listed(core)
          /\ "journal" \in rs.caps
     ELSE <<History, "POST">> \notin Listed(core)

DeleteOwned(rs, path) == Owns(rs, path, "DELETE")

(* Mutant: one refused delete is excused by the other one's owner. *)
DeletesAgreeTogether(core, rs) ==
  /\ (\E path \in Deletes : DeleteOwned(rs, path)) => "delete-client" \in core.caps
  /\ "delete-client" \in core.caps => "delete-store" \in rs.caps
  /\ (\E path \in Deletes : <<path, "DELETE">> \in Listed(core))
        => \E path \in Deletes : DeleteOwned(rs, path)

DeletesAgree(core, rs) ==
  /\ (\E path \in Deletes : DeleteOwned(rs, path)) => "delete-client" \in core.caps
  /\ "delete-client" \in core.caps => "delete-store" \in rs.caps
  /\ \A path \in Deletes : <<path, "DELETE">> \in Listed(core) => DeleteOwned(rs, path)

MoveOwned(rs)     == <<MovePath, "POST">> \in FrontRoutes(rs)
MoveRefused(core) == <<MovePath, "POST">> \in Listed(core)

MoveTouched(core, rs) ==
  \/ MoveOwned(rs) \/ MoveRefused(core)
  \/ {"move-foundation", "move-journal"} \cap rs.caps # {}
  \/ {"move-client", "move-enforcement", "move-reader"} \cap core.caps # {}

(* A chat's move: no partial stack, even before the route changes owner. *)
MoveAgrees(core, rs) ==
  MoveTouched(core, rs) =>
    /\ \A q \in ProjectRoutes(rs) \cup Listed(core) : q[1] = MovePath => q[2] = "POST"
    /\ {"move-foundation", "move-journal", "start-id", "journal"} \subseteq rs.caps
    /\ {"move-client", "move-enforcement", "move-reader", "journal-reader"} \subseteq core.caps
    /\ \/ /\ core.mover = "rust" /\ MoveOwned(rs) /\ MoveRefused(core)
          /\ "move-handler" \notin core.caps
       \/ /\ core.mover = "node" /\ ~MoveOwned(rs) /\ ~MoveRefused(core)
          /\ "move-handler" \in core.caps

(* Mutant: any journal is taken for one that names its origin. *)
BrainAgreesAnyJournal(core, rs) ==
  {"journal-reader", "needs-origin"} \subseteq core.caps => "journal" \in rs.caps

BrainAgrees(core, rs) ==
  {"journal-reader", "needs-origin"} \subseteq core.caps /\ "journal" \in rs.caps
    => "origin" \in rs.caps

NoSwitch(rs) == \A r \in rs.rows : ~r.switched

(* The pairs whose guard reads both sides: the rows before the move and the  *)
(* Node handler after it.                                                    *)
BothRead(p) == {"old", "handler"} \subseteq Table[p].checks

(* What the proofs need to know of the table. The files of the project and   *)
(* web-address routes are no pair's; a pair read on both sides is compared   *)
(* with Core's whole refusal and has no route of the chats; the route the    *)
(* registry widens is the only one of its pair.                              *)
ASSUME TableAssumption ==
  /\ PairNames \cap (WebPairs \cup {"rust-projects", "rust-web-address"}) = {}
  /\ \A p \in PairNames : BothRead(p) =>
       /\ p # "rust-provider-test" /\ "refusal" \in Table[p].checks
       /\ DOMAIN Table[p].want \cap ({History, MovePath} \cup Deletes) = {}
  /\ "rust-provider-test" \in PairNames =>
       DOMAIN Table["rust-provider-test"].want = {"/api/providers/test"}

(* What is read only when there is a route table. *)
TableAgrees(core, rs, noevia) ==
  /\ NoSwitch(rs)
  /\ ProjectsAgree(core, rs)
  /\ SignInAgrees(core, rs)
  /\ StartIdAgrees(rs, noevia)
  /\ RunningMarked(core, rs)
  /\ HistoryAgrees(core, rs)
  /\ DeletesAgree(core, rs)
  /\ MoveAgrees(core, rs)
  /\ BrainAgrees(core, rs)

Accepts(core, rs, noevia) ==
  /\ rs.table => TableAgrees(core, rs, noevia)
  /\ RetentionAgrees(core, rs)
  /\ WebAddressAgrees(core, rs, noevia)
  /\ SourceStoreAgrees(core, rs)
  /\ \A p \in PairNames : PairAgrees(core, rs, p)
=============================================================================
