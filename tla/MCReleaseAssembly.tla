-------------------------- MODULE MCReleaseAssembly --------------------------
(***************************************************************************)
(* The commits a lock may pin. A canonical pair of commits has moved a set *)
(* of pairs and nothing else; a flawed one differs from it in one thing    *)
(* the guards read. The chat's, the web address's and the source store's   *)
(* capabilities are taken in every combination.                            *)
(***************************************************************************)
EXTENDS ReleaseAssembly, Integers, FiniteSets

(* The table of the script. *)
Script  == INSTANCE OwnershipPairs
MCTable == Script!PairTable

-----------------------------------------------------------------------------
(* A pair with all its needs lead to; needs chains are at most three long.   *)
NeededBy[n \in 0..3, p \in PairNames] ==
  IF n = 0 THEN {p}
  ELSE UNION {{q} \cup (Table[q].needs \cap PairNames) : q \in NeededBy[n - 1, p]}
Needed(p)  == NeededBy[3, p]
Without(p) == {q \in PairNames : p \notin Needed(q)}

-----------------------------------------------------------------------------
Flip(set, p) == IF p \in set THEN set \ {p} ELSE set \cup {p}

(* One thing of Core that is not as the moved set would have it. A refusal   *)
(* file the script does not compare lists its pair's routes.                 *)
CoreFlaws(c, p) ==
  {[c EXCEPT !.marks = Flip(@, p)], [c EXCEPT !.handlers = @ \cup {p}],
   [c EXCEPT !.bridges = @ \ {p}]}
  \cup {[c EXCEPT !.refuses[p] = s] :
          s \in IF "refusal" \in Table[p].checks /\ p \in c.marks
                THEN {{}, c.refuses[p] \cup {<<"/api/other", "GET">>}} ELSE {}}

Rewrite(r, p, Change(_)) ==
  [r EXCEPT !.rows = {IF x.path \in DOMAIN Table[p].want THEN Change(x) ELSE x : x \in @}]

RsFlaws(r, p) ==
  LET toNode(x)   == [x EXCEPT !.owner = "node"]
      toRust(x)   == [x EXCEPT !.owner = "rust"]
      switched(x) == [x EXCEPT !.switched = TRUE]
      other(x)    == [x EXCEPT !.methods = IF @ = Every THEN {"GET"} ELSE Every]
  IN {[r EXCEPT !.features = Flip(@, p)], Rewrite(r, p, toNode), Rewrite(r, p, toRust),
      Rewrite(r, p, switched), Rewrite(r, p, other),
      [r EXCEPT !.rows = {x \in @ : x.path \notin DOMAIN Table[p].want}]}

PairCommits ==
  LET sets == {{}, PairNames} IN
  {<<CoreOf(m), RsOf(m)>> : m \in sets \cup {Needed(p) : p \in PairNames}
                                      \cup {Without(p) : p \in PairNames}}
  \cup UNION {{<<c, RsOf(m)>> : c \in CoreFlaws(CoreOf(m), p)} : m \in sets, p \in PairNames}
  \cup UNION {{<<CoreOf(m), r>> : r \in RsFlaws(RsOf(m), p)} : m \in sets, p \in PairNames}

(* A bare pair of commits: no pair has moved, no route of one is listed.     *)
BareCore(caps, listed) ==
  [CoreOf({}) EXCEPT !.caps = @ \cup caps, !.refuses["rust-projects"] = listed]
BareRs(caps, rows) ==
  [RsOf({}) EXCEPT !.caps = caps, !.rows = {Row(Session, "rust", {"GET"})} \cup rows]

HistoryCommits ==
  {<<BareCore(caps, listed), BareRs(have, rows)>> :
     caps \in SUBSET {"history-client", "store-writes", "journal-reader", "needs-origin"},
     listed \in SUBSET {<<History, "POST">>},
     have \in SUBSET {"history-store", "journal", "origin"},
     rows \in SUBSET {Row(History, "rust", {"POST"})}}
  \cup {<<BareCore(caps, listed), BareRs(have, rows)>> :
     caps \in SUBSET {"history-client", "delete-client"},
     listed \in SUBSET {<<d, "DELETE">> : d \in Deletes},
     have \in SUBSET {"history-store", "delete-store"},
     rows \in SUBSET {Row(d, "rust", {"DELETE"}) : d \in Deletes}}
  \cup {<<BareCore(caps, {}), BareRs({}, {Row(History, "rust", {"GET"})})>> :
     caps \in SUBSET {"running-mark", "end-partial"}}

(* The stack of a move: whole or short of two parts, empty or of one part.   *)
MoveStack ==
  {"move-client", "move-enforcement", "move-reader", "journal-reader", "move-handler",
   "move-foundation", "move-journal", "journal", "start-id"}
MoveParts == {s \in SUBSET MoveStack : Cardinality(s) < 2 \/ Cardinality(MoveStack \ s) < 3}

MoveCommits ==
  {<<[BareCore(s \cap CoreCaps, listed) EXCEPT !.mover = m], BareRs(s \cap RsCaps, rows)>> :
     s \in MoveParts,
     listed \in {{}, {<<MovePath, "POST">>}, {<<MovePath, "POST">>, <<MovePath, "GET">>}},
     m \in {"rust", "node", "none"},
     rows \in {{}, {Row(MovePath, "rust", {"POST"})}, {Row(MovePath, "rust", Every)}}}

(* A front that lists a web-address capability has its rows: the script does *)
(* not read the rows of a capability Core's file says nothing of.            *)
WebSets == {{}, WebReads, WebReads \cup WebWrites, WebWrites}
WebFronts ==
  {x \in WebSets \X SUBSET WebPairs :
     /\ "rust-web-address-read" \in x[2] => WebReads \subseteq x[1]
     /\ "rust-web-address-write" \in x[2] => WebWrites \subseteq x[1]}

WebCommits ==
  {<<[CoreOf({}) EXCEPT !.refuses["rust-web-address"] = node],
     [BareRs({}, {Row(path, "rust", {q[2] : q \in {x \in front[1] : x[1] = path}})
                    : path \in {x[1] : x \in front[1]}}) EXCEPT !.features = front[2]]>> :
     node \in WebSets, front \in WebFronts}

SourceCommits ==
  {<<[CoreOf(m) EXCEPT !.caps = @ \cup c], [RsOf(m) EXCEPT !.caps = s]>> :
     m \in {{}, {"rust-source-jobs"}},
     c \in SUBSET {"source-client"}, s \in SUBSET {"source-store"}}

Pinned == [c \in Components |-> [ref |-> "pinned", sum |-> "served"]]

(* One entry of the lock that is not a verified pin, or none pinned at all.  *)
Locks ==
  {Pinned, [c \in Components |-> [ref |-> "self", sum |-> "absent"]]}
    \cup {[Pinned EXCEPT ![c] = e] : c \in Components, e \in Entry}

Inputs ==
  {<<Pinned, {"start-id", "web-address"}, c>> :
     c \in PairCommits \cup HistoryCommits \cup MoveCommits \cup WebCommits \cup SourceCommits}
  \cup {<<l, n, <<CoreOf(m), RsOf(m)>>>> :
     l \in Locks, n \in SUBSET {"apps", "start-id", "web-address"}, m \in {{}, PairNames}}

Init ==
  /\ \E i \in Inputs : lock = i[1] /\ noevia = i[2] /\ core = i[3][1] /\ rs = i[3][2]
  /\ AssemblyInit

Spec == Init /\ [][Next]_assemblyVars
=============================================================================
