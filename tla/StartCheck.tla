------------------------------ MODULE StartCheck ------------------------------
(***************************************************************************)
(* The start checks of build/web-supervisor.sh on their own: an image is   *)
(* asked about, and the pair is started or refused.                        *)
(***************************************************************************)
EXTENDS StartPairs, PortText, FiniteSets

G == INSTANCE StartGate

VARIABLES asked,    \* the image
          started   \* "none", "start" or "refuse"

startVars == <<asked, started>>

StartInit == asked \in G!Image /\ started = "none"

Decide ==
  /\ started = "none"
  /\ started' = IF G!StartAllowed(asked) THEN "start" ELSE "refuse"
  /\ UNCHANGED asked

StartSpec == StartInit /\ [][Decide]_startVars

-----------------------------------------------------------------------------
(* A started pair answers every route from exactly one of its two halves:    *)
(* "Old/old images remain usable for rollback; mixed owners do not".         *)
OneOwner ==
  started = "start" =>
    \A r \in G!Routes : Cardinality({p \in {"node", "front"} : r \in G!Owns(asked, p)}) = 1

(* The rollback pair - a Core that gave nothing away beside a front that     *)
(* took nothing but what every front must list - always starts, whatever     *)
(* one-way capabilities that front also has, on any port with room for the   *)
(* other two that is written without a leading zero.                         *)
RollbackStarts ==
  /\ started = "refuse"
  /\ asked.front = "rust" /\ asked.bin = "absolute"
  /\ AllDigits(asked.port) /\ ~LeadingZero(asked.port)
  /\ 1 <= Decimal(asked.port) /\ Decimal(asked.port) <= 63535
  /\ asked.marks = {} /\ asked.embedding = "absent" /\ asked.client = "absent"
  /\ Required \cup {G!Guard} \subseteq asked.features
  => asked.features \cap (Pairs \cup {G!Store}) # {}

(* The listeners of a started pair have valid ports, and Core's is not the   *)
(* store's, for every UI_PORT the shell can compare; neither is the front's  *)
(* own, if UI_PORT has no leading zero.                                      *)
PortsValid ==
  started = "start" /\ Comparable(asked.port) =>
    LET legacy == G!LegacyPort(asked)
        store  == G!StorePort(asked)
        ports  == {Decimal(asked.port), legacy, store}
    IN /\ \A n \in ports : 1 <= n /\ n <= 65535
       /\ legacy # store
       /\ ~LeadingZero(asked.port) => Cardinality(ports) = 3
=============================================================================
