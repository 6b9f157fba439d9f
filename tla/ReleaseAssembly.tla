--------------------------- MODULE ReleaseAssembly ---------------------------
(***************************************************************************)
(* One run of deploy/tools/assemble-release.sh: the components of the lock *)
(* are resolved into a private tree in the script's order, the tree passes *)
(* the guards, is packed beside the output as <out>.partial and renamed.   *)
(* Every failing command is die or set -e; the EXIT trap clears the tree   *)
(* and the partial file.                                                   *)
(*                                                                         *)
(* A lock entry has a ref (self, pinned - 40 hex -, malformed or absent)   *)
(* and a sum (of the bytes the download serves, of other bytes, absent or  *)
(* malformed).                                                             *)
(***************************************************************************)
EXTENDS ReleaseGuards, PortText, FiniteSets

VARIABLES lock,     \* release/versions.lock at the released commit
          noevia,   \* the released commit: what its own files offer
          core,     \* what the core ref of the lock holds
          rs,       \* what the rs ref of the lock holds
          tree,     \* component -> where its files came from
          partial,  \* <out>.partial exists
          out,      \* the output file: "none", "older" or "new"
          pc

assemblyVars == <<lock, noevia, core, rs, tree, partial, out, pc>>
inputs       == <<lock, noevia, core, rs>>

Components == {"web", "core", "services", "rs"}
Entry  == [ref : {"self", "pinned", "malformed", "absent"},
           sum : {"served", "other", "absent", "malformed"}]
Empty  == [c \in Components |-> "none"]

(* The tree of a lock that pins no noevia-rs. *)
NoRust == [features |-> {}, table |-> FALSE, rows |-> {}, caps |-> {}]

(* The tree the guards read. *)
Rust == IF tree["rs"] = "pinned" THEN rs ELSE NoRust

TypeOK ==
  /\ lock \in [Components -> Entry]
  /\ noevia \subseteq {"apps", "start-id", "web-address"}
  /\ tree \in [Components -> {"none", "self", "pinned"}]
  /\ partial \in BOOLEAN
  /\ out \in {"none", "older", "new"}
  /\ pc \in {"web", "core", "services", "rs", "guards", "pack", "publish", "made", "died"}

AssemblyInit ==
  /\ lock \in [Components -> Entry]
  /\ noevia \subseteq {"apps", "start-id", "web-address"}
  /\ tree = Empty /\ partial = FALSE /\ out \in {"none", "older"} /\ pc = "web"

After(c) ==
  CASE c = "web" -> "core" [] c = "core" -> "services"
    [] c = "services" -> "rs" [] OTHER -> "guards"

(* A lock without NOEVIA_SERVICES_REF is from before the split.              *)
RefOf(c) == IF c = "services" /\ lock[c].ref = "absent" THEN "self" ELSE lock[c].ref

Resolved(c, from) ==
  /\ tree' = [tree EXCEPT ![c] = from]
  /\ pc' = After(c)
  /\ UNCHANGED <<inputs, partial, out>>

(* export_self: only a commit from before the cutover still has the paths.   *)
ExportSelf(c) ==
  /\ pc = c /\ c # "rs"
  /\ RefOf(c) = "self" /\ "apps" \in noevia
  /\ Resolved(c, "self")

(* Mutant: the checksum is compared for its form only. *)
FetchUnverified(c) ==
  /\ pc = c
  /\ lock[c].ref = "pinned" /\ lock[c].sum \in {"served", "other"}
  /\ Resolved(c, "pinned")

(* A pinned ref needs its checksum; the bytes must have it.                  *)
Fetch(c) ==
  /\ pc = c
  /\ lock[c].ref = "pinned" /\ lock[c].sum = "served"
  /\ Resolved(c, "pinned")

(* Locks from before M1 pin no checksum for noevia-rs: an empty rs/.         *)
NoRs ==
  /\ pc = "rs" /\ lock["rs"].sum = "absent"
  /\ Resolved("rs", "none")

(* A refusal is die: the release is not made.                                *)
Guard ==
  /\ pc = "guards"
  /\ pc' = IF Accepts(core, Rust, noevia) THEN "pack" ELSE "died"
  /\ UNCHANGED <<inputs, tree, partial, out>>

(* tar writes the partial file; mv -f replaces the output in one step.       *)
Pack ==
  /\ pc = "pack"
  /\ partial' = TRUE
  /\ pc' = "publish"
  /\ UNCHANGED <<inputs, tree, out>>

Publish ==
  /\ pc = "publish"
  /\ partial' = FALSE /\ out' = "new"
  /\ pc' = "made"
  /\ UNCHANGED <<inputs, tree>>

(* Mutant: the trap knows the work folder only. *)
DieLeaving ==
  /\ pc \notin {"made", "died"}
  /\ pc' = "died"
  /\ UNCHANGED <<inputs, tree, partial, out>>

(* Any command may fail at any point: a bad ref, a download, a full disk.    *)
Die ==
  /\ pc \notin {"made", "died"}
  /\ partial' = FALSE
  /\ pc' = "died"
  /\ UNCHANGED <<inputs, tree, out>>

Next ==
  \/ \E c \in Components : ExportSelf(c) \/ Fetch(c)
  \/ NoRs \/ Guard \/ Pack \/ Publish \/ Die

AssemblySpec == AssemblyInit /\ [][Next]_assemblyVars

Made == out = "new"

-----------------------------------------------------------------------------
(* The supervisor of the release, see WebSupervisor. *)
SG == INSTANCE StartGate WITH
        Pairs <- PairNames \cup WebPairs, Required <- {"rust-auth"},
        SourceJobs <- "rust-source-jobs", SourceWork <- "rust-project-source-work"

(* The capabilities the supervisor and the assembler read by their names.    *)
ASSUME NamesAssumption ==
  /\ (SG!Singles \cup {"rust-auth"}) \cap (PairNames \cup WebPairs) = {}
  /\ {"rust-source-jobs", "rust-project-source-work"} \subseteq PairNames
  /\ "handler" \in Table["rust-project-source-work"].checks

-----------------------------------------------------------------------------
(* What the script takes for granted of a noevia-core and a noevia-rs (Fit): *)
(* a Core serves every pair it has not given away; a refusal the script does *)
(* not compare lists its pair's routes, that of the projects the chats'      *)
(* routes; a front without a route table has moved no pair, and one that     *)
(* lists a web-address capability has its rows.                              *)
ChatRoutes == {<<History, "POST">>} \cup {<<d, "DELETE">> : d \in Deletes}

Fit(c, r) ==
  /\ c.marks \subseteq PairNames /\ PairNames \subseteq c.marks \cup c.handlers
  /\ \A p \in c.marks :
       "refusal" \notin Table[p].checks => c.refuses[p] \subseteq Claims(Want(r, p))
  /\ \A q \in Listed(c) : q \in ChatRoutes \/ (q[1] = MovePath /\ MoveRefused(c))
  /\ ~r.table => r.rows = {} /\ r.features \cap PairNames = {}
  /\ "rust-web-address-read" \in r.features => WebReads \subseteq WebOwned(r)
  /\ "rust-web-address-write" \in r.features => WebWrites \subseteq WebOwned(r)
  /\ r.features \cap SG!Singles = {}

CommitsFit == Fit(core, rs)

-----------------------------------------------------------------------------
(* What the shipped pair does with a request: the front answers what the     *)
(* route table gives it and streams the rest to Node; Node refuses what a    *)
(* file it requires lists, and answers with the handler it still carries.    *)
Mounted == core.marks \cup {"rust-projects", "rust-web-address"}

Refuses(q) == \E f \in Mounted : q \in core.refuses[f]

NodeAnswers(q) ==
  ~Refuses(q) /\ \E p \in core.handlers : q \in Claims(Table[p].want)

Answerers(q) ==
  {a \in {"front", "node"} : IF a = "front" THEN Owns(Rust, q[1], q[2]) ELSE NodeAnswers(q)}

(* No release leaves a route to a Node that refuses it: whatever Core's      *)
(* lists refuse, the front beside it answers.                                *)
NothingStranded ==
  Made /\ Rust.table =>
    \A f \in Mounted : \A q \in core.refuses[f] : Owns(Rust, q[1], q[2])

(* In a pair whose guard reads both sides, every route has one owner in      *)
(* every release, before the move and after it.                              *)
OneAnswerer ==
  Made =>
    \A p \in PairNames : BothRead(p) =>
      \A q \in Claims(Table[p].want) : Cardinality(Answerers(q)) = 1

(* The image the supervisor of the release reads, as far as the assembler    *)
(* reads the same things; UI_PORT is the installation's, not the release's.  *)
Image ==
  [front |-> "rust", bin |-> "absolute", codeNet |-> TRUE,
   embedding |-> "absent", worker |-> "rust-project-source-work" \in core.handlers,
   client |-> IF "source-client" \in core.caps THEN "canonical" ELSE "absent",
   features |-> Rust.features \cup {"rust-auth", SG!Guard}
                  \cup {f \in {SG!Store} : "source-store" \in Rust.caps},
   marks |-> core.marks
     \cup {f \in {"rust-web-address-read"} : WebReads \subseteq core.refuses["rust-web-address"]}
     \cup {f \in {"rust-web-address-write"} : WebWrites \subseteq core.refuses["rust-web-address"]}]

(* A release with a front passes the start checks that compare its halves:   *)
(* none is shipped that only fails once the running one has been stopped.    *)
StartsOnceMade == Made /\ tree["rs"] = "pinned" => SG!PairAllowed(Image)

(* A transcript has one writer: beside a front that saves or deletes chats,  *)
(* Node writes and deletes through the store, and the front serves it.       *)
ChatOneWriter ==
  Made /\ Rust.table =>
    /\ HistoryOwned(Rust, "POST") => "store-writes" \in core.caps /\ "history-store" \in Rust.caps
    /\ (\E d \in Deletes : DeleteOwned(Rust, d))
         => "delete-client" \in core.caps /\ "delete-store" \in Rust.caps

(* Beside a front that saves chats, Core's mirror and brain still follow     *)
(* every save.                                                               *)
ChatFollowed ==
  Made /\ Rust.table /\ HistoryOwned(Rust, "POST") =>
    /\ "journal-reader" \in core.caps /\ "journal" \in Rust.caps
    /\ "needs-origin" \in core.caps => "origin" \in Rust.caps

(* The output is a whole release, of which every pinned part is the bytes    *)
(* the lock names, or it is as it was before, with no partial file beside it *)
(* (assemble-release.sh's header and its EXIT trap).                         *)
Verified ==
  /\ Made => \A c \in Components : tree[c] = "pinned" => lock[c].sum = "served"
  /\ pc = "died" => ~partial /\ ~Made

-----------------------------------------------------------------------------
(* A pair of commits that has moved a set of pairs and nothing else: the     *)
(* front that has moved them, and the Core beside it.                        *)
Row(path, owner, methods) ==
  [path |-> path, owner |-> owner, switched |-> FALSE, methods |-> methods]

Files == PairNames \cup {"rust-projects", "rust-web-address"}

Closed(moved) ==
  moved \subseteq PairNames /\ \A p \in moved : Table[p].needs \cap PairNames \subseteq moved

Features(moved) == moved \cup ((UNION {Table[p].needs : p \in moved}) \ PairNames)

RsOf(moved) ==
  LET with == [features |-> Features(moved)]
      owned == UNION {DOMAIN Want(with, p) : p \in moved}
      rest  == (UNION {DOMAIN Table[p].want : p \in PairNames}) \ owned
  IN [features |-> Features(moved), table |-> TRUE, caps |-> {},
      rows |-> {Row(Session, "rust", {"GET"})}
        \cup {Row(path, "rust",
                UNION {Want(with, p)[path] : p \in {x \in moved : path \in DOMAIN Want(with, x)}})
              : path \in owned}
        \cup {Row(path, "node", Every) : path \in rest}]

CoreOf(moved) ==
  [marks |-> moved, handlers |-> PairNames \ moved, bridges |-> moved,
   refuses |-> [f \in Files |-> IF f \in moved
                                THEN Claims(Want([features |-> Features(moved)], f)) ELSE {}],
   caps |-> {"refuseOwnedRoute", "refuseOwned"}, mover |-> "none"]

(* "Historic old/old pins remain valid rollback pairs": commits that have    *)
(* moved any set of pairs closed under what they need, and nothing else,     *)
(* pass every guard - no pair has to move before another that it does not    *)
(* name.                                                                     *)
RollbackAssembles ==
  LET moved == core.marks IN
  /\ pc = "guards" /\ tree["rs"] = "pinned"
  /\ core = CoreOf(moved) /\ rs = RsOf(moved) /\ Closed(moved)
  => Accepts(core, Rust, noevia)

(* What that rests on. Pairs with a route in common want the same methods of *)
(* it, or they are the probe and the registry; and neither is a pair whose   *)
(* rows the script reads before it has moved. No pair has a route with a     *)
(* guard of its own, the routes of ProjectPaths are of pairs whose files     *)
(* Core's list is put together from, and what is looked for in a refusal is  *)
(* wanted.                                                                   *)
ASSUME RoutesAssumption ==
  /\ {"rust-providers", "rust-provider-test"} \cup (ProjectFiles \ {"rust-projects"})
       \subseteq PairNames
  /\ Table["rust-providers"].want["/api/providers/test"] = {"POST", "PUT", "DELETE"}
  /\ \A p, q \in PairNames : \A path \in DOMAIN Table[p].want \cap DOMAIN Table[q].want :
       p # q =>
         /\ "old" \notin Table[p].checks /\ \A x \in PairNames : p \notin Leaves(x)
         /\ \/ {p, q} = {"rust-provider-test", "rust-providers"}
            \/ /\ "rust-provider-test" \notin {p, q}
               /\ Table[p].want[path] = Table[q].want[path]
  /\ \A p \in PairNames :
       /\ Leaves(p) \subseteq PairNames
       /\ DOMAIN Table[p].want \cap
            ({Session, History, MovePath, "/api/account/retention"} \cup Deletes \cup WebPaths) = {}
       /\ DOMAIN Table[p].want \cap ProjectPaths # {} => p \in ProjectFiles
       /\ \A path \in Named(p) :
            /\ p # "rust-provider-test" /\ path \in DOMAIN Table[p].want
            /\ Table[p].want[path] \cap (Every \cup {"GET", "POST"}) # {}
=============================================================================
