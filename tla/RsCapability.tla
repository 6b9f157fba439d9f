----------------------------- MODULE RsCapability -----------------------------
(***************************************************************************)
(* The command line of deploy/tools/lib/rs-capability.cjs: the answer to a *)
(* source, a Dockerfile and a Cargo.toml. The features matter only to a    *)
(* conditional element, so what cannot be derived may still be answered.   *)
(***************************************************************************)
EXTENDS FeatureProof, Detection

CONSTANT Readings    \* what the command is given: file, cargo, source

ASSUME ReadingsAssumption ==
  \A r \in Readings :
    /\ r.file \in Seq(Instructions) /\ r.source \in Seq(ItemType)
    /\ IsFiniteSet(DOMAIN r.cargo.graph)

VARIABLES reading, answer

readVars == <<reading, answer>>

Reads(source, lines, cargo) == Detect(source, DeriveFeatures(lines, cargo))

ReaderInit == reading \in Readings /\ answer = "none"

ReadMarker ==
  /\ answer = "none"
  /\ answer' = Reads(reading.source, reading.file, reading.cargo)
  /\ UNCHANGED reading

ReaderSpec == ReaderInit /\ [][ReadMarker]_readVars

(* What an answer says of a build: "v1", that its FEATURES has the           *)
(* capability; "legacy", that it is not there as a literal.                  *)
TrueOf(features) ==
  IF answer = "v1" THEN Says(reading.source, features) ELSE ~Spells(reading.source, features)

(* What the reader says of a capability is true of the binary the image      *)
(* ships - as Docker and Cargo would build it - or, where it cannot follow   *)
(* how that is built, of the source in every build.                          *)
AnswerTrue ==
  answer \in {"v1", "legacy"} =>
    LET ships == Ships(reading.file, reading.cargo)
    IN IF ships.ok THEN TrueOf(ships.features)
       ELSE \A features \in SUBSET DOMAIN reading.cargo.graph : TrueOf(features)

(* "Overwrites ... refuse": the answer is true of every image but those made *)
(* with a RUN that replaces the binary without naming it, which the reader   *)
(* lets through.                                                             *)
MarkerTrue == ~Unseen(reading.file) => AnswerTrue
=============================================================================
