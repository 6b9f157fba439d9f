------------------------------ MODULE StartPairs ------------------------------
(***************************************************************************)
(* The capabilities that build/web-supervisor.sh compares at a start.      *)
(***************************************************************************)
CONSTANTS Pairs,       \* capabilities checked in both directions (marker <=> feature)
          Required,    \* features every front must list: rust-auth and FRONT_ROUTE_FEATURES
          SourceJobs,  \* the pair that moves the source-job store to the front for good
          SourceWork   \* the pair whose Core must also have lost its worker path

ASSUME PairsAssumption == {SourceJobs, SourceWork} \subseteq Pairs
=============================================================================
