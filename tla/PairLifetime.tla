---------------------------- MODULE PairLifetime ----------------------------
(***************************************************************************)
(* What the web supervisor promises the data directory: the lifetimes of   *)
(* Core/front pairs never overlap ("a replacement cannot start before      *)
(* both exit", build/web-supervisor.sh). A start holds the directory from  *)
(* the moment it takes the pair lock until it and both of its processes    *)
(* are gone; processes of a start exist only while it is the holder.       *)
(***************************************************************************)
CONSTANTS Starts, Procs

VARIABLES holders,   \* the starts that hold the data directory
          live       \* the running processes, as <<start, process>>
pairVars == <<holders, live>>

Init == holders = {} /\ live = {}

Acquire(s) ==
  /\ holders = {}
  /\ holders' = {s}
  /\ UNCHANGED live

Launch(s, p) ==
  /\ s \in holders
  /\ live' = live \cup {<<s, p>>}
  /\ UNCHANGED holders

(* Processes end, in any order and any number at once; a start whose        *)
(* supervisor and processes have all ended no longer holds the directory.   *)
End ==
  /\ live' \subseteq live
  /\ holders' \subseteq holders
  /\ \A s \in Starts, p \in Procs : <<s, p>> \in live' => s \in holders'

Next ==
  \/ \E s \in Starts : Acquire(s)
  \/ \E s \in Starts, p \in Procs : Launch(s, p)
  \/ End

Spec == Init /\ [][Next]_pairVars
=============================================================================
