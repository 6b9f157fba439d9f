------------------------------- MODULE Detection -------------------------------
(***************************************************************************)
(* detect of deploy/tools/lib/rs-capability.cjs: whether the source of the *)
(* front says a capability in FEATURES, given the features it is built     *)
(* with: "v1", "legacy", or no answer ("invalid"). Beside it, what rustc   *)
(* makes of the same source.                                               *)
(*                                                                         *)
(* A source is a sequence of items. An item is an inner attribute, the     *)
(* declaration of FEATURES at the crate root ("root"), one of another      *)
(* shape ("odd": private, mut, another type) or inside a body ("nested"),  *)
(* or anything else ("other"). An attribute is harmless, a cfg of one      *)
(* feature (its name), or unreadable: "not f1", which rustc can read.      *)
(***************************************************************************)
EXTENDS Integers, Sequences, FiniteSets

Item(kind, attrs, elements) == [kind |-> kind, attrs |-> attrs, elements |-> elements]

(* value: the capability asked for, another literal, a path that stands for  *)
(* the capability ("alias") or for another text, or an expression.           *)
Element(value, attrs) == [value |-> value, attrs |-> attrs]

ElementType == [value : {"cap", "other", "alias", "path", "expression"}, attrs : Seq(STRING)]

ItemType ==
  [kind : {"inner", "root", "odd", "nested", "other"}, attrs : Seq(STRING),
   elements : Seq(ElementType)]

Harmless(attrs) == \A n \in 1..Len(attrs) : attrs[n] = "harmless"
Cfgs(attrs) == {n \in 1..Len(attrs) : attrs[n] # "harmless"}

-----------------------------------------------------------------------------
(* The array: every element readable, the literal at most once, and then     *)
(* unconditional or under one cfg(feature), which needs the features. Paths  *)
(* are passed over: "this API proves literal declarations".                  *)
Array(elements, features) ==
  LET hits == {n \in 1..Len(elements) : elements[n].value = "cap"}
      attrs == elements[CHOOSE n \in hits : TRUE].attrs
      cfg == attrs[CHOOSE n \in Cfgs(attrs) : TRUE]
  IN IF \/ \E n \in 1..Len(elements) : elements[n].value = "expression"
        \/ Cardinality(hits) > 1 THEN "invalid"
     ELSE IF hits = {} THEN "legacy"
     ELSE IF Cfgs(attrs) = {} THEN "v1"
     ELSE IF Cardinality(Cfgs(attrs)) > 1 \/ cfg = "not f1" \/ ~features.ok THEN "invalid"
     ELSE IF cfg \in features.features THEN "v1" ELSE "legacy"

(* Mutant: an inner attribute counts only before the declaration. *)
DetectForward(source, features) ==
  LET targets == {n \in 1..Len(source) : source[n].kind \in {"root", "odd", "nested"}}
      target == CHOOSE n \in targets : TRUE
  IN IF targets = {} THEN "legacy"
     ELSE IF \/ Cardinality(targets) > 1
             \/ source[target].kind # "root" \/ ~Harmless(source[target].attrs)
             \/ \E n \in 1..target : source[n].kind = "inner" /\ ~Harmless(source[n].attrs)
          THEN "invalid"
     ELSE Array(source[target].elements, features)

(* detect: one unconditional public declaration at the root of a crate that  *)
(* is not conditional itself.                                                *)
Detect(source, features) ==
  LET targets == {n \in 1..Len(source) : source[n].kind \in {"root", "odd", "nested"}}
      target == CHOOSE n \in targets : TRUE
  IN IF targets = {} THEN "legacy"
     ELSE IF \/ Cardinality(targets) > 1
             \/ source[target].kind # "root" \/ ~Harmless(source[target].attrs)
             \/ \E n \in 1..Len(source) : source[n].kind = "inner" /\ ~Harmless(source[n].attrs)
          THEN "invalid"
     ELSE Array(source[target].elements, features)

-----------------------------------------------------------------------------
(* rustc: does the crate's FEATURES hold one of these values in a build with *)
(* these features?                                                           *)
Holds(attrs, features) ==
  \A n \in 1..Len(attrs) :
    CASE attrs[n] = "harmless" -> TRUE
      [] attrs[n] = "not f1"   -> "f1" \notin features
      [] OTHER                 -> attrs[n] \in features

Lists(source, features, values) ==
  /\ \A n \in 1..Len(source) : source[n].kind = "inner" => Holds(source[n].attrs, features)
  /\ \E n \in 1..Len(source) :
       /\ source[n].kind \in {"root", "odd"} /\ Holds(source[n].attrs, features)
       /\ \E m \in 1..Len(source[n].elements) :
            /\ source[n].elements[m].value \in values
            /\ Holds(source[n].elements[m].attrs, features)

(* The binary says the capability; the source has it there as a literal.     *)
Says(source, features)  == Lists(source, features, {"cap", "alias"})
Spells(source, features) == Lists(source, features, {"cap"})
================================================================================
