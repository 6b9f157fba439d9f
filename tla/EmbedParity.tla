------------------------------ MODULE EmbedParity ------------------------------
(***************************************************************************)
(* tools/embed-parity-check.cjs: the texts are embedded by one server and  *)
(* then by the other (check), or by one server beside vectors made         *)
(* elsewhere (checkReference), batch after batch; the answer compares the  *)
(* two vectors of each text and the best documents of each query.          *)
(*                                                                         *)
(* A vector is its direction, in twelfths of a turn: the nearer two        *)
(* directions, the higher their cosine, so nearness stands for it.         *)
(***************************************************************************)
EXTENDS Integers, Sequences, FiniteSets

CONSTANTS Checks,    \* what is asked for, see CheckType
          Batch,     \* texts of a request
          Far        \* directions: 0..Far, of twelve

(* texts: documents, then queries. mine and theirs: the direction in which   *)
(* either side points for each text. min: the least nearness; overlap: the   *)
(* least share of common best documents, in per cent. fault: the counts of   *)
(* the reference file do not fit, or the two sides' dimensions differ. cli:  *)
(* the arguments are complete.                                               *)
CheckType ==
  [docs : Nat, queries : Nat, mine : Seq(0..Far), theirs : Seq(0..Far), k : Nat \ {0},
   min : 0..6, overlap : 0..100, reference : BOOLEAN,
   fault : {"none", "counts", "dimensions"}, cli : BOOLEAN]

(* What main and checkReference are asked for: either side has a direction   *)
(* for each text, unless the reference file is one whose counts do not fit.  *)
ASSUME ChecksAssumption ==
  /\ Far \in 0..11 /\ Batch \in Nat \ {0}
  /\ Checks \subseteq CheckType
  /\ \A ch \in Checks :
       /\ Len(ch.mine) = ch.docs + ch.queries
       /\ ch.fault # "counts" => Len(ch.theirs) = ch.docs + ch.queries
       /\ ch.fault = "counts" => ch.reference

VARIABLES c,         \* the check under way
          got,       \* side -> the vectors kept so far
          server,      \* the side that is asked
          code       \* the exit code, -1 while the check goes on

parityVars == <<c, got, server, code>>

Texts == c.docs + c.queries

ParityInit ==
  /\ c \in Checks
  /\ got = [mine |-> <<>>, theirs |-> <<>>]
  /\ server = "mine" /\ code = -1

-----------------------------------------------------------------------------
Accepted == c.cli /\ ~(c.reference /\ c.fault = "counts")
Begun == Accepted /\ code = -1

(* The command line and the reference file are refused before a request.     *)
Refuse ==
  /\ code = -1 /\ ~Accepted
  /\ code' = 2
  /\ UNCHANGED <<c, got, server>>

(* A server answers a batch with an item for each text, in any order, each   *)
(* with the index of its text, or in order and without indices.              *)
Replies(input) ==
  LET n == Len(input)
      orders == {p \in [1..n -> 1..n] : \A i, j \in 1..n : p[i] = p[j] => i = j}
  IN {[i \in 1..n |-> [index |-> p[i], vector |-> input[p[i]]]] : p \in orders}
       \cup {[i \in 1..n |-> [index |-> 0, vector |-> input[i]]]}

(* Mutant: the items are taken as they come. *)
InOrderReceived(items) == [i \in 1..Len(items) |-> items[i].vector]

(* A stable sort by index, absent ones counting as 0: an item comes after    *)
(* those of a smaller index and those of the same that were received before. *)
Place(items, i) ==
  Cardinality({j \in DOMAIN items : \/ items[j].index < items[i].index
                                    \/ items[j].index = items[i].index /\ j < i})

InOrder(items) ==
  [n \in DOMAIN items |-> items[CHOOSE i \in DOMAIN items : Place(items, i) = n - 1].vector]

Asked == IF server = "mine" THEN c.mine ELSE c.theirs

(* embed: the next batch. *)
Embed ==
  LET from == Len(got[server])
      input == SubSeq(Asked, from + 1, IF from + Batch < Texts THEN from + Batch ELSE Texts)
  IN /\ Begun /\ from < Texts /\ ~(c.reference /\ server = "theirs")
     /\ \E items \in Replies(input) : got' = [got EXCEPT ![server] = @ \o InOrder(items)]
     /\ UNCHANGED <<c, server, code>>

(* An HTTP error, a timeout, too few items or an item without a vector.      *)
RequestFails ==
  /\ Begun /\ Len(got[server]) < Texts
  /\ code' = 2
  /\ UNCHANGED <<c, got, server>>

(* Mutant: the reference is compared with itself. *)
TurnToItself ==
  /\ Begun /\ server = "mine" /\ Len(got.mine) = Texts
  /\ server' = "theirs"
  /\ got' = IF c.reference THEN [got EXCEPT !.theirs = got.mine] ELSE got
  /\ UNCHANGED <<c, code>>

(* The second server is asked when the first has answered; a reference has   *)
(* its vectors.                                                              *)
Turn ==
  /\ Begun /\ server = "mine" /\ Len(got.mine) = Texts
  /\ server' = "theirs"
  /\ got' = IF c.reference THEN [got EXCEPT !.theirs = c.theirs] ELSE got
  /\ UNCHANGED <<c, code>>

-----------------------------------------------------------------------------
(* cosine, stats, topK and the decision of check and compare.                *)
Near(x, y) ==
  LET d == IF x > y THEN x - y ELSE y - x IN IF d > 6 THEN d - 6 ELSE 6 - d

Similar(i) == Near(got.mine[i], got.theirs[i])

(* The k nearest documents of a query; the earlier one of two as near.       *)
Nearer(vectors, q, i, j) ==
  \/ Near(vectors[q], vectors[i]) > Near(vectors[q], vectors[j])
  \/ Near(vectors[q], vectors[i]) = Near(vectors[q], vectors[j]) /\ i < j

TopK(vectors, q, k) ==
  {i \in 1..c.docs : Cardinality({j \in 1..c.docs : Nearer(vectors, q, j, i)}) < k}

Depth == IF c.k < c.docs THEN c.k ELSE c.docs

(* How many of the queries' best documents the two sides have in common.     *)
Common(a, b) ==
  Cardinality({x \in (1..c.queries) \X (1..c.docs) :
    x[2] \in TopK(a, c.docs + x[1], Depth) \cap TopK(b, c.docs + x[1], Depth)})

(* Without documents the overlap is no number, and nothing passes; without   *)
(* queries it is whole.                                                      *)
Overlaps ==
  \/ c.queries = 0
  \/ c.docs > 0 /\ 100 * Common(got.mine, got.theirs) >= c.overlap * Depth * c.queries

Decide ==
  /\ Begun /\ server = "theirs" /\ Len(got.theirs) = Texts
  /\ code' = IF Texts = 0 \/ (c.reference /\ c.fault = "dimensions") THEN 2
             ELSE IF c.fault = "dimensions" THEN 1
             ELSE IF (\A i \in 1..Texts : Similar(i) >= c.min) /\ Overlaps THEN 0 ELSE 1
  /\ UNCHANGED <<c, got, server>>

ParityNext == Refuse \/ Embed \/ RequestFails \/ Turn \/ Decide

ParitySpec == ParityInit /\ [][ParityNext]_parityVars

-----------------------------------------------------------------------------
(* A model compared with itself passes, in whatever order the servers send   *)
(* the items of a batch, wherever the batches end, and with fewer documents  *)
(* than --k.                                                                 *)
SameModelPasses ==
  code = 1 /\ c.fault = "none" /\ c.docs > 0 => \E i \in 1..Texts : c.mine[i] # c.theirs[i]

(* A pass says what it is for: the two sides' own directions for each text,  *)
(* not for some other text, are as near as was asked, and the queries keep   *)
(* the share of their best documents that was asked.                         *)
PassMeansParity ==
  code = 0 =>
    /\ c.fault = "none"
    /\ \A i \in 1..Texts : Near(c.mine[i], c.theirs[i]) >= c.min
    /\ 100 * Common(c.mine, c.theirs) >= c.overlap * Depth * c.queries
=============================================================================
