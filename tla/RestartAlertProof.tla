--------------------------- MODULE RestartAlertProof ---------------------------
(***************************************************************************)
(* Proofs about the two parts of the restart alert.                        *)
(*                                                                         *)
(* SidecarAlert, for any containers, any number of overlapping runs,       *)
(* failures and changes: the type invariant, and NothingSwallowed when no  *)
(* one-shot ends with a non-zero exit. Without that condition the script   *)
(* does swallow one (Docker has reset the exit code by the time a          *)
(* restarted one-shot is inspected). Then KnownDeployQuiet, for runs that  *)
(* do not overlap.                                                         *)
(*                                                                         *)
(* RemoteAlert, for any threshold, runs that do not overlap, and faults:   *)
(* one notice per turn. What the line says was alerted is what the         *)
(* operator believes (Agreed), as long as no run died between the two; a   *)
(* run that is under way has the line as it is, since no other runs beside *)
(* it (OneRun).                                                            *)
(***************************************************************************)
EXTENDS MCRestartAlert, TLAPS

(* Every line of a container that Docker, the file or a run has. *)
Lines(c) ==
  {docker[c], base[c]} \cup {snap[r][c] : r \in Runs}
    \cup {old[r][c] : r \in Runs} \cup {out[r][c] : r \in Runs}

(* Two lines of one run of one container: it only goes from up to down.      *)
Ordered(l, m) ==
  l.there /\ m.there /\ SameRun(l, m) =>
    /\ l.up = m.up => l.n = m.n
    /\ l.up /\ ~m.up => l.n <= m.n

(* A line beside the container as it is now. *)
Past(l, d) ==
  l.there =>
    \/ l.id < d.id
    \/ l.id = d.id /\ l.run < d.run
    \/ SameRun(l, d) /\ (d.up => l.up)

(* What a change may make of a container. *)
Moves(d, e) ==
  /\ e.n = d.n + 1
  /\ \/ ~e.there /\ e.id = d.id /\ e.run = d.run /\ e.up = d.up
     \/ e.id = d.id + 1
     \/ e.id = d.id /\ e.run = d.run + 1
     \/ SameRun(e, d) /\ d.there /\ d.up /\ ~e.up

History ==
  \A c \in Containers :
    /\ \A l, m \in Lines(c) : Ordered(l, m)
    /\ \A l \in Lines(c) : Past(l, docker[c]) /\ l.n <= docker[c].n

Honest == \A c \in Containers \ Crashing : \A l \in Lines(c) : l.bad = 0

Told(c, l) == l.there => l.n <= known[c]

(* What a run would write has been told of, container by container. *)
ToldOf ==
  \A c \in Containers :
    /\ Told(c, base[c])
    /\ \A r \in Runs :
         /\ Told(c, old[r][c])
         /\ phase[r] = "compare" =>
              IF c \in todo[r] THEN out[r][c] = snap[r][c] ELSE Told(c, out[r][c])
         /\ phase[r] = "write" => Told(c, out[r][c])

IInv == TypeOK /\ History /\ Honest /\ ToldOf

-----------------------------------------------------------------------------
LEMMA FreshLine == Fresh \in Line /\ \A c \in Containers : NoLines[c] \in Line /\ ~NoLines[c].there
BY DEF Fresh, Line, NoLines

LEMMA InitInv == Init => IInv
<1> SUFFICES ASSUME Init PROVE IInv
  OBVIOUS
<1> USE FreshLine DEF Init
<1>1. NoLines \in [Containers -> Line]
  BY DEF NoLines
<1>2. TypeOK
  <2>1. docker \in [Containers -> Line] /\ base \in [Containers -> Line]
    BY <1>1
  <2>2. /\ snap \in [Runs -> [Containers -> Line]]
        /\ old \in [Runs -> [Containers -> Line]]
        /\ out \in [Runs -> [Containers -> Line]]
    BY <1>1
  <2>3. seen \in [Runs -> [Containers -> Nat]] /\ faults \in 0..MaxFaults
    BY BoundsAssumption
  <2>4. /\ phase \in [Runs -> {"idle", "up", "inspect", "compare", "write"}]
        /\ todo \in [Runs -> SUBSET Containers]
        /\ known \in [Containers -> Nat] /\ acked \in [Containers -> Nat]
        /\ file \in BOOLEAN
    OBVIOUS
  <2> QED
    BY <2>1, <2>2, <2>3, <2>4 DEF TypeOK
<1>3. \A c \in Containers : \A l \in Lines(c) : l = Fresh \/ l = NoLines[c]
  BY DEF Lines
<1>4. \A c \in Containers : NoLines[c].n = 0 /\ NoLines[c].bad = 0
  BY DEF NoLines, Fresh
<1>5. History
  <2> SUFFICES ASSUME NEW c \in Containers, NEW l \in Lines(c), NEW m \in Lines(c)
               PROVE  Ordered(l, m) /\ Past(l, docker[c]) /\ l.n <= docker[c].n
    BY DEF History
  <2>1. (l = Fresh \/ ~l.there) /\ (m = Fresh \/ ~m.there) /\ l.n = 0
    BY <1>3, <1>4 DEF Fresh
  <2>2. docker[c] = Fresh /\ Fresh.n = 0
    BY DEF Fresh
  <2>3. Ordered(l, m)
    BY <2>1, <2>2 DEF Ordered
  <2> QED
    BY <2>1, <2>2, <2>3 DEF Past, SameRun
<1>6. Honest
  BY <1>3, <1>4 DEF Honest, Fresh
<1>7. ToldOf
  BY <1>4 DEF ToldOf, Told
<1> QED
  BY <1>2, <1>5, <1>6, <1>7 DEF IInv

-----------------------------------------------------------------------------
(* Types. *)
LEMMA LinesTyped ==
  ASSUME TypeOK, NEW c \in Containers, NEW l \in Lines(c)
  PROVE  l \in Line
BY DEF TypeOK, Lines

LEMMA Numbered ==
  ASSUME NEW x \in Line
  PROVE  [x EXCEPT !.n = @ + 1] \in Line /\ [x EXCEPT !.n = @ + 1].bad = x.bad
<1>1. x.n + 1 \in Nat
  BY DEF Line
<1>2. \A k \in Nat : [x EXCEPT !.n = k] \in Line /\ [x EXCEPT !.n = k].bad = x.bad
  BY DEF Line
<1> QED
  BY <1>1, <1>2

(* The whole of what happens to a container, as one line that follows another. *)
LEMMA WorldMoves ==
  ASSUME TypeOK, NEW c \in Containers,
         \/ Finish(c) \/ Crash(c) \/ Restart(c) \/ Remove(c) \/ Replace(c)
         \/ Change(c, Replaced(c))
  PROVE  \E e \in Line :
           /\ docker' = [docker EXCEPT ![c] = e]
           /\ Moves(docker[c], e)
           /\ c \notin Crashing => e.bad = docker[c].bad
<1> DEFINE d == docker[c]
<1>1. d \in Line /\ d.n + 1 \in Nat /\ d.run + 1 \in Nat /\ d.id + 1 \in Nat
  BY DEF TypeOK, Line
<1>2. CASE Finish(c)
  <2> DEFINE x == [d EXCEPT !.up = FALSE]
  <2>1. x \in Line /\ x.n = d.n
    BY <1>1 DEF Line
  <2>2. Moves(d, [x EXCEPT !.n = @ + 1]) /\ x.bad = d.bad
    BY <1>1, <1>2, <2>1 DEF Finish, Moves, SameRun, Line
  <2>3. docker' = [docker EXCEPT ![c] = [x EXCEPT !.n = @ + 1]]
    BY <1>2 DEF Finish, Change
  <2> HIDE DEF x
  <2> QED
    BY <2>1, <2>2, <2>3, Numbered
<1>3. CASE Crash(c)
  <2> DEFINE x == [d EXCEPT !.up = FALSE, !.ok = FALSE, !.bad = docker[c].n + 1]
  <2>1. x \in Line /\ x.n = d.n
    BY <1>1 DEF Line
  <2>2. Moves(d, [x EXCEPT !.n = @ + 1]) /\ c \in Crashing
    BY <1>1, <1>3, <2>1 DEF Crash, Moves, SameRun, Line
  <2>3. docker' = [docker EXCEPT ![c] = [x EXCEPT !.n = @ + 1]]
    BY <1>3 DEF Crash, Change
  <2> HIDE DEF x
  <2> QED
    BY <2>1, <2>2, <2>3, Numbered
<1>4. CASE Restart(c)
  <2> DEFINE x == [d EXCEPT !.run = @ + 1, !.up = TRUE, !.ok = TRUE]
  <2>1. x \in Line /\ x.n = d.n
    BY <1>1 DEF Line
  <2>2. Moves(d, [x EXCEPT !.n = @ + 1]) /\ x.bad = d.bad
    BY <1>1, <1>4, <2>1 DEF Restart, Moves, SameRun, Line
  <2>3. docker' = [docker EXCEPT ![c] = [x EXCEPT !.n = @ + 1]]
    BY <1>4 DEF Restart, Change
  <2> HIDE DEF x
  <2> QED
    BY <2>1, <2>2, <2>3, Numbered
<1>5. CASE Remove(c)
  <2> DEFINE x == [d EXCEPT !.there = FALSE]
  <2>1. x \in Line /\ x.n = d.n
    BY <1>1 DEF Line
  <2>2. Moves(d, [x EXCEPT !.n = @ + 1]) /\ x.bad = d.bad
    BY <1>1, <1>5, <2>1 DEF Remove, Moves, SameRun, Line
  <2>3. docker' = [docker EXCEPT ![c] = [x EXCEPT !.n = @ + 1]]
    BY <1>5 DEF Remove, Change
  <2> HIDE DEF x
  <2> QED
    BY <2>1, <2>2, <2>3, Numbered
<1>6. CASE Change(c, Replaced(c))
  <2>1. Replaced(c) \in Line /\ Replaced(c).n = d.n
    BY <1>1 DEF Replaced, Line
  <2>2. Moves(d, [Replaced(c) EXCEPT !.n = @ + 1]) /\ Replaced(c).bad = d.bad
    BY <1>1, <2>1 DEF Replaced, Moves, Line
  <2>3. docker' = [docker EXCEPT ![c] = [Replaced(c) EXCEPT !.n = @ + 1]]
    BY <1>6 DEF Change
  <2> QED
    BY <2>1, <2>2, <2>3, Numbered
<1> QED
  BY <1>2, <1>3, <1>4, <1>5, <1>6 DEF Replace

(* A change leaves every earlier line behind it. *)
LEMMA ChangeStep ==
  ASSUME IInv, NEW c \in Containers, NEW e \in Line,
         docker' = [docker EXCEPT ![c] = e], Moves(docker[c], e),
         c \notin Crashing => e.bad = docker[c].bad,
         UNCHANGED <<base, snap, old, out>>
  PROVE  History' /\ Honest'
<1> DEFINE d == docker[c]
<1>1. d \in Line /\ d \in Lines(c)
  BY DEF IInv, TypeOK, Lines
<1>2. \A a \in Containers \ {c} : Lines(a)' = Lines(a) /\ docker'[a] = docker[a]
  BY DEF Lines, IInv, TypeOK
<1>3. docker'[c] = e /\ Lines(c)' \subseteq Lines(c) \cup {e}
  BY DEF Lines, IInv, TypeOK
<1>4. ASSUME NEW l \in Lines(c)
      PROVE  Past(l, e) /\ l.n <= e.n /\ Ordered(l, e) /\ Ordered(e, l)
  <2>1. l \in Line /\ Past(l, d) /\ l.n <= d.n
    BY <1>4, LinesTyped DEF IInv, History
  <2>2. l.n \in Nat /\ d.n \in Nat /\ l.id \in Nat /\ d.id \in Nat /\ l.run \in Nat /\ d.run \in Nat
    BY <1>1, <2>1 DEF Line
  <2>3. l.n <= e.n
    BY <2>1, <2>2 DEF Moves
  <2>4. Past(l, e)
    BY <2>1, <2>2 DEF Past, Moves, SameRun
  <2>5. Ordered(l, e) /\ Ordered(e, l)
    BY <2>1, <2>2, <2>3 DEF Ordered, Past, Moves, SameRun
  <2> QED
    BY <2>3, <2>4, <2>5
<1>5. Past(e, e) /\ e.n <= e.n /\ Ordered(e, e)
  BY DEF Past, Ordered, SameRun, Line
<1>6. History'
  <2> SUFFICES ASSUME NEW a \in Containers, NEW l \in Lines(a)', NEW m \in Lines(a)'
               PROVE  Ordered(l, m) /\ Past(l, docker'[a]) /\ l.n <= docker'[a].n
    BY DEF History
  <2>1. CASE a = c
    BY <2>1, <1>3, <1>4, <1>5 DEF IInv, History
  <2>2. CASE a # c
    BY <2>2, <1>2 DEF IInv, History
  <2> QED
    BY <2>1, <2>2
<1>7. Honest'
  BY <1>1, <1>2, <1>3 DEF IInv, Honest
<1> QED
  BY <1>6, <1>7

(* A step of a run only passes lines on, or drops them. *)
LEMMA PassStep ==
  ASSUME IInv, docker' = docker,
         \A c \in Containers : Lines(c)' \subseteq Lines(c) \cup {NoLines[c]}
  PROVE  History' /\ Honest'
<1>1. \A c \in Containers : /\ ~NoLines[c].there /\ NoLines[c].n = 0
                            /\ NoLines[c].bad = 0 /\ docker[c].n >= 0
  BY DEF NoLines, Fresh, IInv, TypeOK, Line
<1>2. History'
  <2> SUFFICES ASSUME NEW c \in Containers, NEW l \in Lines(c)', NEW m \in Lines(c)'
               PROVE  Ordered(l, m) /\ Past(l, docker[c]) /\ l.n <= docker[c].n
    BY DEF History
  <2>1. CASE l = NoLines[c] \/ m = NoLines[c]
    BY <1>1, <2>1 DEF Ordered, Past, IInv, History
  <2>2. CASE l # NoLines[c] /\ m # NoLines[c]
    BY <2>2 DEF IInv, History
  <2> QED
    BY <2>1, <2>2
<1>3. Honest'
  BY <1>1 DEF IInv, Honest
<1> QED
  BY <1>2, <1>3

LEMMA NoLinesTyped ==
  /\ NoLines \in [Containers -> Line]
  /\ \A c \in Containers : ~NoLines[c].there /\ NoLines[c].n = 0
BY DEF NoLines, Fresh, Line

(* The end of a run, variable by variable. *)
LEMMA EndRunTypes ==
  ASSUME TypeOK, NEW r \in Runs, EndRun(r)
  PROVE  /\ phase' \in [Runs -> {"idle", "up", "inspect", "compare", "write"}]
         /\ todo' \in [Runs -> SUBSET Containers]
         /\ snap' \in [Runs -> [Containers -> Line]]
         /\ old' \in [Runs -> [Containers -> Line]]
         /\ out' \in [Runs -> [Containers -> Line]]
         /\ seen' \in [Runs -> [Containers -> Nat]]
BY NoLinesTyped DEF TypeOK, EndRun

LEMMA LaterNat == \A m, n \in Nat : Later(m, n) \in Nat /\ Later(m, n) >= m /\ Later(m, n) >= n
BY DEF Later

LEMMA TodoMinus ==
  ASSUME TypeOK, NEW r \in Runs, NEW c
  PROVE  [todo EXCEPT ![r] = @ \ {c}] \in [Runs -> SUBSET Containers]
<1>1. todo[r] \ {c} \in SUBSET Containers
  BY DEF TypeOK
<1>2. \A x \in SUBSET Containers : [todo EXCEPT ![r] = x] \in [Runs -> SUBSET Containers]
  BY DEF TypeOK
<1> QED
  BY <1>1, <1>2

LEMMA Numbers ==
  ASSUME TypeOK, NEW r \in Runs, NEW c \in Containers
  PROVE  /\ snap[r][c] \in Line /\ snap[r][c].n \in Nat
         /\ out[r][c] \in Line /\ out[r][c].n \in Nat
         /\ old[r][c] \in Line /\ old[r][c].n \in Nat
         /\ base[c] \in Line /\ base[c].n \in Nat
         /\ known[c] \in Nat /\ acked[c] \in Nat
<1>1. \A l \in Line : l.n \in Nat
  BY DEF Line
<1> QED
  BY <1>1 DEF TypeOK

LEMMA WorldTypes ==
  ASSUME TypeOK, NEW c \in Containers,
         World(c) \/ \E r \in Runs : Deploy(r, c)
  PROVE  TypeOK'
<1>1. docker' \in [Containers -> Line]
  <2>1. PICK e \in Line : docker' = [docker EXCEPT ![c] = e]
    BY WorldMoves DEF World, Deploy
  <2> QED
    BY <2>1 DEF TypeOK
<1>2. phase' \in [Runs -> {"idle", "up", "inspect", "compare", "write"}]
  BY DEF World, run, Deploy, TypeOK
<1> QED
  BY <1>1, <1>2 DEF World, run, Deploy, TypeOK

LEMMA TypeStep ==
  ASSUME TypeOK, [Next]_vars
  PROVE  TypeOK'
<1>1. ASSUME NEW c \in Containers, World(c) PROVE TypeOK'
  BY <1>1, WorldTypes
<1>2. ASSUME NEW r \in Runs, NEW c \in Containers, Deploy(r, c) PROVE TypeOK'
  BY <1>2, WorldTypes
<1>3. ASSUME NEW r \in Runs, Start(r) PROVE TypeOK'
  <2>1. todo' \in [Runs -> SUBSET Containers] /\ snap' \in [Runs -> [Containers -> Line]]
    BY <1>3 DEF Start, TypeOK
  <2> QED
    BY <1>3, <2>1 DEF Start, TypeOK
<1>4. ASSUME NEW r \in Runs, NEW c \in Containers, Inspect(r, c) PROVE TypeOK'
  <2>1. CASE docker[c].there
    <3>1. snap' \in [Runs -> [Containers -> Line]]
      <4>1. docker[c] \in Line /\ snap \in [Runs -> [Containers -> Line]]
        BY DEF TypeOK
      <4>2. snap' = [snap EXCEPT ![r][c] = docker[c]]
        BY <1>4, <2>1 DEF Inspect
      <4> QED
        BY <4>1, <4>2
    <3>2. todo' \in [Runs -> SUBSET Containers]
      BY <1>4, <2>1, TodoMinus DEF Inspect
    <3> QED
      BY <1>4, <2>1, <3>1, <3>2 DEF Inspect, TypeOK
  <2>2. CASE ~docker[c].there
    BY <1>4, <2>2, EndRunTypes DEF Inspect, TypeOK
  <2> QED
    BY <2>1, <2>2
<1>5. ASSUME NEW r \in Runs, ReadBaseline(r) PROVE TypeOK'
  <2>1. /\ old' \in [Runs -> [Containers -> Line]]
        /\ out' \in [Runs -> [Containers -> Line]]
        /\ seen' \in [Runs -> [Containers -> Nat]]
    BY <1>5 DEF ReadBaseline, TypeOK
  <2>2. /\ phase' \in [Runs -> {"idle", "up", "inspect", "compare", "write"}]
        /\ todo' \in [Runs -> SUBSET Containers]
    BY <1>5 DEF ReadBaseline, TypeOK
  <2>3. known' \in [Containers -> Nat]
    <3>1. \A c \in Containers : Later(known[c], snap[r][c].n) \in Nat
      BY LaterNat, Numbers
    <3>2. [c \in Containers |-> Later(known[c], snap[r][c].n)] \in [Containers -> Nat]
      BY <3>1
    <3> QED
      BY <1>5, <3>2 DEF ReadBaseline, TypeOK
  <2> QED
    BY <1>5, <2>1, <2>2, <2>3 DEF ReadBaseline, TypeOK
<1>6. ASSUME NEW r \in Runs, NEW c \in Containers, Compare(r, c) PROVE TypeOK'
  <2>1. todo' \in [Runs -> SUBSET Containers]
    BY <1>6, TodoMinus DEF Compare
  <2>4. out' \in [Runs -> [Containers -> Line]]
    <3>1. old[r][c] \in Line /\ out \in [Runs -> [Containers -> Line]]
      BY Numbers DEF TypeOK
    <3>2. out' = out \/ out' = [out EXCEPT ![r][c] = old[r][c]]
      BY <1>6 DEF Compare
    <3> QED
      BY <3>1, <3>2
  <2>2. known' \in [Containers -> Nat]
    <3>1. Later(known[c], snap[r][c].n) \in Nat
      BY LaterNat, Numbers
    <3> QED
      BY <1>6, <3>1 DEF Compare, TypeOK
  <2>3. faults' \in 0..MaxFaults
    BY <1>6, BoundsAssumption DEF Compare, TypeOK
  <2> QED
    BY <1>6, <2>1, <2>2, <2>3, <2>4 DEF Compare, TypeOK
<1>7. ASSUME NEW r \in Runs, Write(r) PROVE TypeOK'
  <2>1. base' \in [Containers -> Line]
    BY <1>7 DEF Write, TypeOK
  <2>2. acked' \in [Containers -> Nat]
    <3>1. \A c \in Containers : Later(acked[c], out[r][c].n) \in Nat
      BY LaterNat, Numbers
    <3> QED
      BY <1>7, <3>1 DEF Write, TypeOK
  <2> QED
    BY <1>7, <2>1, <2>2, EndRunTypes DEF Write, TypeOK
<1>8. ASSUME NEW r \in Runs, Lost(r) PROVE TypeOK'
  <2>1. faults' \in 0..MaxFaults
    BY <1>8, BoundsAssumption DEF Lost, TypeOK
  <2> QED
    BY <1>8, <2>1, EndRunTypes DEF Lost, TypeOK
<1>9. CASE UNCHANGED vars
  BY <1>9 DEF vars, run, TypeOK
<1> QED
  BY <1>1, <1>2, <1>3, <1>4, <1>5, <1>6, <1>7, <1>8, <1>9 DEF Next, Step

-----------------------------------------------------------------------------
(* The lines a run holds after each of its steps come from Docker, the file  *)
(* or the run itself.                                                        *)
LEMMA EndRunHolds ==
  ASSUME TypeOK, NEW r \in Runs, EndRun(r)
  PROVE  /\ \A q \in Runs : phase'[q] = IF q = r THEN "idle" ELSE phase[q]
         /\ \A q \in Runs \ {r} : todo'[q] = todo[q]
         /\ \A q \in Runs : snap'[q] = IF q = r THEN NoLines ELSE snap[q]
         /\ \A q \in Runs : old'[q] = IF q = r THEN NoLines ELSE old[q]
         /\ \A q \in Runs : out'[q] = IF q = r THEN NoLines ELSE out[q]
BY DEF EndRun, TypeOK

LEMMA RunPasses ==
  ASSUME TypeOK, NEW r \in Runs, Step(r) \/ Lost(r)
  PROVE  /\ docker' = docker
         /\ \A c \in Containers : Lines(c)' \subseteq Lines(c) \cup {NoLines[c]}
<1>1. CASE Start(r)
  <2>1. \A q \in Runs : snap'[q] = IF q = r THEN docker ELSE snap[q]
    BY <1>1 DEF Start, TypeOK
  <2> QED
    BY <1>1, <2>1 DEF Start, Lines
<1>2. ASSUME NEW c \in Containers, Inspect(r, c)
      PROVE  /\ docker' = docker
             /\ \A a \in Containers : Lines(a)' \subseteq Lines(a) \cup {NoLines[a]}
  <2>1. CASE docker[c].there
    <3>1. \A q \in Runs, a \in Containers :
            snap'[q][a] = IF q = r /\ a = c THEN docker[c] ELSE snap[q][a]
      BY <1>2, <2>1 DEF Inspect, TypeOK
    <3> QED
      BY <1>2, <2>1, <3>1 DEF Inspect, Lines
  <2>2. CASE ~docker[c].there
    BY <1>2, <2>2, EndRunHolds DEF Inspect, Lines
  <2> QED
    BY <2>1, <2>2
<1>3. CASE ReadBaseline(r)
  <2>1. \A q \in Runs : /\ old'[q] = IF q = r THEN base ELSE old[q]
                        /\ out'[q] = IF q = r THEN snap[r] ELSE out[q]
    BY <1>3 DEF ReadBaseline, TypeOK
  <2> QED
    BY <1>3, <2>1 DEF ReadBaseline, Lines
<1>4. ASSUME NEW c \in Containers, Compare(r, c)
      PROVE  /\ docker' = docker
             /\ \A a \in Containers : Lines(a)' \subseteq Lines(a) \cup {NoLines[a]}
  <2>1. \/ out' = out
        \/ out' = [out EXCEPT ![r][c] = old[r][c]]
    BY <1>4 DEF Compare
  <2>2. \A q \in Runs, a \in Containers :
          out'[q][a] = out[q][a] \/ (q = r /\ a = c /\ out'[q][a] = old[r][c])
    BY <2>1 DEF TypeOK
  <2> QED
    BY <1>4, <2>2 DEF Compare, Lines
<1>5. CASE Write(r)
  BY <1>5, EndRunHolds DEF Write, Lines
<1>6. CASE Lost(r)
  BY <1>6, EndRunHolds DEF Lost, Lines
<1> QED
  BY <1>1, <1>2, <1>3, <1>4, <1>5, <1>6 DEF Step

-----------------------------------------------------------------------------
(* When the comparison stays silent about a line it keeps, that line was     *)
(* told of before, or its change is one of those the script lets pass.       *)
LEMMA SilentIsOld ==
  ASSUME IInv, NEW r \in Runs, NEW c \in Containers,
         Told(c, old[r][c]), ~News(c, old[r][c], snap[r][c]),
         old[r][c].there, SameRun(old[r][c], snap[r][c])
  PROVE  Told(c, snap[r][c])
<1> DEFINE last == old[r][c]
           cur  == snap[r][c]
<1>1. last \in Lines(c) /\ cur \in Lines(c)
  BY DEF Lines
<1>2. Ordered(last, cur) /\ Ordered(cur, last)
  BY <1>1 DEF IInv, History
<1>3. last.n \in Nat /\ cur.n \in Nat /\ known[c] \in Nat /\ last.up \in BOOLEAN /\ cur.up \in BOOLEAN
  BY Numbers DEF IInv, Line
<1>4. cur.there /\ ~(last.up /\ ~cur.up)
  BY DEF News
<1>5. cur.n <= last.n
  BY <1>2, <1>3, <1>4 DEF Ordered, SameRun
<1> QED
  BY <1>3, <1>5 DEF Told

(* An expected restart hides no non-zero exit if one-shots never have one.   *)
LEMMA NoCrashHidden ==
  ASSUME IInv, OneShots \cap Crashing = {}, NEW r \in Runs, NEW c \in Containers,
         ~News(c, old[r][c], snap[r][c]), old[r][c].there,
         ~SameRun(old[r][c], snap[r][c])
  PROVE  ~(snap[r][c].bad > old[r][c].n)
<1>1. c \in Containers \ Crashing
  BY DEF News, ExpectedRestart
<1>2. snap[r][c].bad = 0
  BY <1>1 DEF IInv, Honest, Lines
<1> QED
  BY <1>2, Numbers DEF IInv

(* More told is never less: known only grows. *)
LEMMA ToldGrows ==
  ASSUME TypeOK, \A c \in Containers : known'[c] \in Nat /\ known'[c] >= known[c],
         NEW c \in Containers, NEW l \in Line, Told(c, l)
  PROVE  Told(c, l)'
BY DEF TypeOK, Told, Line

LEMMA ToldStart ==
  ASSUME IInv, NEW r \in Runs, Start(r)
  PROVE  ToldOf'
<1>1. \A q \in Runs : phase'[q] = IF q = r THEN "inspect" ELSE phase[q]
  BY DEF Start, IInv, TypeOK
<1>2. \A q \in Runs \ {r} : todo'[q] = todo[q] /\ snap'[q] = snap[q]
  BY DEF Start, IInv, TypeOK
<1> QED
  BY <1>1, <1>2 DEF Start, IInv, ToldOf, Told

LEMMA ToldEndRun ==
  ASSUME IInv, NEW r \in Runs, EndRun(r), known' = known,
         \A c \in Containers : Told(c, base'[c])
  PROVE  ToldOf'
BY EndRunHolds, NoLinesTyped DEF IInv, ToldOf, Told

LEMMA ToldInspect ==
  ASSUME IInv, NEW r \in Runs, NEW c \in Containers, Inspect(r, c)
  PROVE  ToldOf'
<1>1. CASE docker[c].there
  <2>1. \A q \in Runs \ {r} : todo'[q] = todo[q] /\ snap'[q] = snap[q]
    BY <1>1 DEF Inspect, IInv, TypeOK
  <2>2. phase[r] = "inspect" /\ UNCHANGED <<base, phase, old, out, known>>
    BY <1>1 DEF Inspect
  <2> QED
    BY <2>1, <2>2 DEF IInv, ToldOf, Told
<1>2. CASE ~docker[c].there
  BY <1>2, ToldEndRun DEF Inspect, IInv, ToldOf
<1> QED
  BY <1>1, <1>2

LEMMA ToldReadBaseline ==
  ASSUME IInv, NEW r \in Runs, ReadBaseline(r)
  PROVE  ToldOf'
<1>1. \A q \in Runs : /\ old'[q] = IF q = r THEN base ELSE old[q]
                      /\ out'[q] = IF q = r THEN snap[r] ELSE out[q]
  BY DEF ReadBaseline, IInv, TypeOK
<1>2. base' = base /\ snap' = snap
  BY DEF ReadBaseline
<1>3. CASE r \in Acks \/ ~file
  <2>1. \A q \in Runs : phase'[q] = IF q = r THEN "write" ELSE phase[q]
    BY <1>3 DEF ReadBaseline, IInv, TypeOK
  <2>2. \A c \in Containers : known'[c] = Later(known[c], snap[r][c].n)
    BY <1>3 DEF ReadBaseline
  <2>3. \A c \in Containers : /\ known'[c] \in Nat /\ known'[c] >= known[c]
                              /\ known'[c] >= snap[r][c].n
    BY <2>2, Numbers, LaterNat DEF IInv
  <2>4. todo' = todo
    BY <1>3 DEF ReadBaseline
  <2> SUFFICES ASSUME NEW c \in Containers, NEW q \in Runs
               PROVE  /\ Told(c, base[c])' /\ Told(c, old[q][c])'
                      /\ phase'[q] = "compare" =>
                           IF c \in todo[q] THEN out'[q][c] = snap[q][c] ELSE Told(c, out[q][c])'
                      /\ phase'[q] = "write" => Told(c, out[q][c])'
    BY <1>2, <2>4 DEF ToldOf
  <2>5. Told(c, base[c]) /\ Told(c, old[q][c]) /\ base[c] \in Line /\ old[q][c] \in Line /\ out[q][c] \in Line
    BY Numbers DEF IInv, ToldOf
  <2>6. Told(c, base[c])' /\ Told(c, old[q][c])'
    BY <1>1, <1>2, <2>3, <2>5, Numbers DEF Told, IInv
  <2>7. CASE q = r
    BY <1>1, <2>1, <2>3, <2>6, <2>7 DEF Told
  <2>8. CASE q # r
    BY <1>1, <2>1, <2>3, <2>6, <2>8, Numbers DEF Told, IInv, ToldOf
  <2> QED
    BY <2>6, <2>7, <2>8
<1>4. CASE ~(r \in Acks \/ ~file)
  <2>1. \A q \in Runs : phase'[q] = IF q = r THEN "compare" ELSE phase[q]
    BY <1>4 DEF ReadBaseline, IInv, TypeOK
  <2>2. \A q \in Runs : todo'[q] = IF q = r THEN Containers ELSE todo[q]
    BY <1>4 DEF ReadBaseline, IInv, TypeOK
  <2>3. known' = known
    BY <1>4 DEF ReadBaseline
  <2> QED
    BY <1>1, <1>2, <2>1, <2>2, <2>3 DEF IInv, ToldOf, Told
<1> QED
  BY <1>3, <1>4

(* One container compared: what the run will write for it has been told of.  *)
LEMMA ToldCompare ==
  ASSUME IInv, OneShots \cap Crashing = {}, NEW r \in Runs, NEW c \in Containers, Compare(r, c)
  PROVE  ToldOf'
<1> DEFINE last == old[r][c]
           cur  == snap[r][c]
<1>1. /\ UNCHANGED <<base, phase, snap, old>>
      /\ phase[r] = "compare" /\ c \in todo[r] /\ todo' = [todo EXCEPT ![r] = @ \ {c}]
  BY DEF Compare
<1>2. /\ \A q \in Runs \ {r} : todo'[q] = todo[q]
      /\ todo'[r] = todo[r] \ {c}
  <2>1. \A x : \A q \in Runs : [todo EXCEPT ![r] = x][q] = IF q = r THEN x ELSE todo[q]
    <3> DEFINE S == SUBSET Containers
    <3>1. todo \in [Runs -> S]
      BY DEF IInv, TypeOK
    <3> HIDE DEF S
    <3> QED
      BY <3>1
  <2> QED
    BY <1>1, <2>1
<1>3. Told(c, last) /\ out[r][c] = cur
  BY <1>1 DEF IInv, ToldOf
<1>4. \/ known' = [known EXCEPT ![c] = Later(@, cur.n)]
      \/ known' = known
  BY DEF Compare
<1>5. \A a \in Containers : known'[a] \in Nat /\ known'[a] >= known[a]
  <2>1. \A a \in Containers : known[a] \in Nat /\ (known'[a] = known[a] \/ known'[a] = Later(known[a], cur.n))
    BY <1>4 DEF IInv, TypeOK
  <2>2. cur.n \in Nat
    BY Numbers DEF IInv
  <2>3. \A a \in Containers : Later(known[a], cur.n) \in Nat /\ Later(known[a], cur.n) >= known[a]
    BY <2>1, <2>2, LaterNat
  <2> QED
    BY <2>1, <2>3
<1>6. \A q \in Runs, a \in Containers : <<q, a>> # <<r, c>> => out'[q][a] = out[q][a]
  BY DEF Compare, IInv, TypeOK
<1>7. Told(c, out[r][c])'
  <2>1. CASE /\ known' = [known EXCEPT ![c] = Later(@, cur.n)] /\ out' = out
    <3>1. known'[c] >= cur.n
      BY <2>1, Numbers, LaterNat DEF IInv, TypeOK
    <3> QED
      BY <1>3, <2>1, <3>1 DEF Told
  <2>2. CASE out' = [out EXCEPT ![r][c] = last] /\ known' = known
    <3>1. out'[r][c] = last
      BY <2>2 DEF IInv, TypeOK
    <3> QED
      BY <1>3, <2>2, <3>1 DEF Told
  <2>3. CASE /\ ~News(c, last, cur)
             /\ last.there /\ (SameRun(last, cur) \/ cur.bad > last.n)
             /\ known' = known /\ out' = out
    <3>1. SameRun(last, cur)
      BY <2>3, NoCrashHidden
    <3>2. Told(c, cur)
      BY <1>3, <2>3, <3>1, SilentIsOld
    <3> QED
      BY <1>3, <2>3, <3>2 DEF Told
  <2> QED
    BY <2>1, <2>2, <2>3 DEF Compare
<1>8. ASSUME NEW a \in Containers, NEW q \in Runs
      PROVE  /\ Told(a, base[a])' /\ Told(a, old[q][a])'
             /\ phase[q] = "compare" =>
                  IF a \in todo'[q] THEN out'[q][a] = snap[q][a] ELSE Told(a, out[q][a])'
             /\ phase[q] = "write" => Told(a, out[q][a])'
  <2>1. Told(a, base[a])' /\ Told(a, old[q][a])'
    BY <1>1, <1>5, Numbers DEF IInv, ToldOf, Told
  <2>2. CASE <<q, a>> = <<r, c>>
    BY <1>1, <1>2, <1>7, <2>1, <2>2
  <2>3. CASE <<q, a>> # <<r, c>>
    <3>1. out'[q][a] = out[q][a] /\ (a \in todo'[q] <=> a \in todo[q])
      BY <1>2, <1>6, <2>3
    <3>2. Told(a, out[q][a]) => Told(a, out[q][a])'
      BY <1>5, <3>1, Numbers DEF Told, IInv
    <3> QED
      BY <2>1, <3>1, <3>2 DEF IInv, ToldOf
  <2> QED
    BY <2>2, <2>3
<1> QED
  BY <1>1, <1>8 DEF ToldOf

LEMMA ToldWrite ==
  ASSUME IInv, NEW r \in Runs, Write(r)
  PROVE  ToldOf'
<1>1. \A c \in Containers : Told(c, out[r][c])
  BY DEF Write, IInv, ToldOf
<1> QED
  BY <1>1, ToldEndRun DEF Write

LEMMA ToldChange ==
  ASSUME IInv, NEW c \in Containers, World(c) \/ \E r \in Runs : Deploy(r, c)
  PROVE  ToldOf'
<1>1. UNCHANGED <<base, todo, snap, old, out, known>>
  BY DEF World, run, Deploy
<1>2. \A q \in Runs : phase'[q] = phase[q] \/ phase'[q] = "up"
  BY DEF World, run, Deploy, IInv, TypeOK
<1> QED
  BY <1>1, <1>2 DEF IInv, ToldOf, Told

LEMMA InvStep ==
  ASSUME IInv, OneShots \cap Crashing = {}, [Next]_vars
  PROVE  IInv'
<1>1. TypeOK'
  BY TypeStep DEF IInv
<1>2. ASSUME NEW c \in Containers, World(c) \/ \E r \in Runs : Deploy(r, c)
      PROVE  History' /\ Honest' /\ ToldOf'
  <2>1. PICK e \in Line : /\ docker' = [docker EXCEPT ![c] = e]
                          /\ Moves(docker[c], e)
                          /\ c \notin Crashing => e.bad = docker[c].bad
    BY <1>2, WorldMoves DEF World, Deploy, IInv
  <2>2. UNCHANGED <<base, snap, old, out>>
    BY <1>2 DEF World, run, Deploy
  <2>3. History' /\ Honest'
    BY <2>1, <2>2, ChangeStep
  <2> QED
    BY <1>2, <2>3, ToldChange
<1>3. ASSUME NEW r \in Runs, Step(r) \/ Lost(r)
      PROVE  History' /\ Honest' /\ ToldOf'
  <2>1. History' /\ Honest'
    BY <1>3, RunPasses, PassStep DEF IInv
  <2>2. CASE Lost(r)
    <3>1. \A c \in Containers : Told(c, base[c])
      BY DEF IInv, ToldOf
    <3>2. EndRun(r) /\ known' = known /\ base' = base
      BY <2>2 DEF Lost
    <3> QED
      BY <2>1, <3>1, <3>2, ToldEndRun
  <2>3. CASE Step(r)
    <3>1. CASE Start(r) \/ ReadBaseline(r) \/ Write(r)
      BY <2>1, <3>1, ToldStart, ToldReadBaseline, ToldWrite
    <3>2. CASE \E c \in Containers : Inspect(r, c)
      BY <2>1, <3>2, ToldInspect
    <3>3. CASE \E c \in Containers : Compare(r, c)
      BY <2>1, <3>3, ToldCompare
    <3> QED
      BY <2>3, <3>1, <3>2, <3>3 DEF Step
  <2> QED
    BY <1>3, <2>1, <2>2, <2>3
<1>4. ASSUME UNCHANGED vars PROVE History' /\ Honest' /\ ToldOf'
  <2>1. UNCHANGED <<docker, base, phase, todo, snap, old, out, known>>
    BY <1>4 DEF vars, run
  <2>2. History' /\ Honest'
    BY <2>1, PassStep DEF Lines
  <2>3. ToldOf'
    BY <2>1 DEF IInv, ToldOf, Told
  <2> QED
    BY <2>2, <2>3
<1> QED
  BY <1>1, <1>2, <1>3, <1>4 DEF Next, IInv

-----------------------------------------------------------------------------
(* Types of the variables of deploy/tools/sidecar-restart-alert.sh's runs.   *)
THEOREM TypeCorrect == Spec => []TypeOK
<1>1. Init => TypeOK
  BY InitInv DEF IInv
<1>2. TypeOK /\ [Next]_vars => TypeOK'
  BY TypeStep
<1> QED
  BY <1>1, <1>2, PTL DEF Spec

(* The baseline never takes a change nobody was told of, however many runs   *)
(* overlap, fail or are lost, provided that no one-shot ends with a non-zero *)
(* exit code: with one, a restart before the next check hides it.            *)
THEOREM Swallowed ==
  ASSUME OneShots \cap Crashing = {}
  PROVE  Spec => []NothingSwallowed
<1>1. Init => IInv
  BY InitInv
<1>2. IInv /\ [Next]_vars => IInv'
  BY InvStep
<1>3. IInv => NothingSwallowed
  BY DEF IInv, ToldOf, Told, NothingSwallowed
<1> QED
  BY <1>1, <1>2, <1>3, PTL DEF Spec

-----------------------------------------------------------------------------
(* Without overlapping runs. Busy: between `docker ps` and the write.        *)
Busy == {"inspect", "compare", "write"}

Alone == \A q, r \in Runs : phase[q] \in Busy /\ phase[r] \in Busy => q = r

(* The number of a change names one line of the container.                   *)
Dated ==
  \A c \in Containers :
    /\ docker[c] # NoLines[c]
    /\ \A l \in Lines(c) : l.n <= docker[c].n
    /\ \A l, m \in Lines(c) : l.n = m.n => l = m \/ NoLines[c] \in {l, m}

(* What the file says of a container is never older than what was acked.     *)
Behind == \A c \in Containers : acked[c] <= base[c].n

(* The one run there is looked at the containers after the file was written, *)
(* compares them with what the file says still, and writes one or the other. *)
UpToDate(r) ==
  /\ phase[r] \in Busy =>
       \A c \in Containers : base[c].n <= snap[r][c].n /\ snap[r][c] # NoLines[c]
  /\ phase[r] \in {"compare", "write"} =>
       /\ old[r] = base /\ seen[r] = acked
       /\ \A c \in Containers : out[r][c] \in {snap[r][c], old[r][c]}

QuietInv == TypeOK /\ Dated /\ Alone /\ Behind /\ \A r \in Runs : UpToDate(r)

LEMMA QuietStart == Init => QuietInv
<1> SUFFICES ASSUME Init PROVE QuietInv
  OBVIOUS
<1>1. TypeOK
  BY InitInv DEF IInv
<1>2. \A c \in Containers : /\ Lines(c) \subseteq {Fresh, NoLines[c]}
                            /\ docker[c] = Fresh /\ base[c] = NoLines[c]
  BY DEF Init, Lines
<1>3. \A c \in Containers : NoLines[c].n = 0 /\ Fresh.n = 0 /\ Fresh # NoLines[c]
  BY FreshLine DEF NoLines, Fresh
<1>4. Dated
  <2> SUFFICES ASSUME NEW c \in Containers, NEW l \in Lines(c), NEW m \in Lines(c)
               PROVE  /\ docker[c] # NoLines[c] /\ l.n <= docker[c].n
                      /\ l.n = m.n => l = m \/ NoLines[c] \in {l, m}
    <3>1. \A c \in Containers : docker[c] \in Lines(c)
      BY DEF Lines
    <3> QED
      BY <3>1 DEF Dated
  <2>1. l \in {Fresh, NoLines[c]} /\ m \in {Fresh, NoLines[c]}
    BY <1>2
  <2>2. l.n = 0 /\ docker[c].n = 0
    BY <1>2, <1>3, <2>1
  <2>3. l = m \/ NoLines[c] \in {l, m}
    BY <2>1
  <2> QED
    BY <1>2, <1>3, <2>2, <2>3
<1>5. Alone /\ \A r \in Runs : UpToDate(r)
  BY DEF Init, Alone, UpToDate, Busy
<1>6. Behind
  <2> SUFFICES ASSUME NEW c \in Containers PROVE acked[c] <= base[c].n
    BY DEF Behind
  <2>1. acked[c] = 0 /\ base[c].n = 0
    BY <1>2, <1>3 DEF Init
  <2> QED
    BY <2>1
<1> QED
  BY <1>1, <1>4, <1>5, <1>6 DEF QuietInv

(* A change has a number of its own. *)
LEMMA DatedChange ==
  ASSUME TypeOK, Dated, NEW c \in Containers, NEW e \in Line,
         docker' = [docker EXCEPT ![c] = e], e.n = docker[c].n + 1,
         UNCHANGED <<base, snap, old, out>>
  PROVE  Dated'
<1>1. \A a \in Containers \ {c} : Lines(a)' = Lines(a) /\ docker'[a] = docker[a]
  BY DEF Lines, TypeOK
<1>2. docker'[c] = e /\ Lines(c)' \subseteq Lines(c) \cup {e}
  BY DEF Lines, TypeOK
<1>3. docker[c].n \in Nat /\ NoLines[c].n = 0 /\ \A l \in Lines(c) : l.n \in Nat
  BY LinesTyped, NoLinesTyped DEF TypeOK, Line
<1>4. e # NoLines[c] /\ \A l \in Lines(c) : l.n < e.n
  BY <1>3 DEF Dated
<1> SUFFICES ASSUME NEW a \in Containers, NEW l \in Lines(a)', NEW m \in Lines(a)'
             PROVE  /\ docker'[a] # NoLines[a]
                    /\ l.n <= docker'[a].n
                    /\ l.n = m.n => l = m \/ NoLines[a] \in {l, m}
  <2>1. \A a \in Containers : docker'[a] \in Lines(a)'
    BY DEF Lines
  <2> QED
    BY <2>1 DEF Dated
<1>5. CASE a = c
  <2>1. l.n <= e.n
    BY <1>2, <1>3, <1>4, <1>5
  <2>2. l.n = m.n => l = m \/ NoLines[c] \in {l, m}
    <3>1. CASE l = e \/ m = e
      BY <1>2, <1>3, <1>4, <1>5, <3>1
    <3>2. CASE l # e /\ m # e
      BY <1>2, <1>5, <3>2 DEF Dated
    <3> QED
      BY <3>1, <3>2
  <2> QED
    BY <1>2, <1>4, <1>5, <2>1, <2>2
<1>6. CASE a # c
  BY <1>1, <1>6 DEF Dated
<1> QED
  BY <1>5, <1>6

LEMMA DatedPass ==
  ASSUME TypeOK, Dated, docker' = docker,
         \A c \in Containers : Lines(c)' \subseteq Lines(c) \cup {NoLines[c]}
  PROVE  Dated'
<1>1. \A c \in Containers : NoLines[c].n = 0 /\ docker[c].n \in Nat
  BY NoLinesTyped DEF TypeOK, Line
<1> QED
  BY <1>1 DEF Dated

(* The world, a deploy: no run is looked at or changed. *)
LEMMA QuietChange ==
  ASSUME QuietInv, NEW c \in Containers, World(c) \/ \E r \in Runs : Deploy(r, c)
  PROVE  QuietInv'
<1>1. PICK e \in Line : docker' = [docker EXCEPT ![c] = e] /\ Moves(docker[c], e)
  BY WorldMoves DEF World, Deploy, QuietInv
<1>2. UNCHANGED <<base, snap, old, out, seen, acked>>
  BY DEF World, run, Deploy
<1>3. Dated'
  BY <1>1, <1>2, DatedChange DEF QuietInv, Moves
<1>4. \A q \in Runs : phase'[q] \in Busy => phase[q] = phase'[q]
  BY DEF World, run, Deploy, QuietInv, TypeOK, Busy
<1>5. TypeOK'
  BY WorldTypes DEF QuietInv
<1>6. Alone'
  BY <1>4 DEF QuietInv, Alone
<1>7. \A r \in Runs : UpToDate(r)'
  <2> SUFFICES ASSUME NEW r \in Runs PROVE UpToDate(r)'
    OBVIOUS
  <2>1. UpToDate(r)
    BY DEF QuietInv
  <2> QED
    BY <1>2, <1>4, <2>1 DEF UpToDate, Busy
<1> QED
  BY <1>2, <1>3, <1>5, <1>6, <1>7 DEF QuietInv, Behind

(* A step of a run, but for what the step itself does to it. *)
LEMMA QuietRun ==
  ASSUME QuietInv, TypeOK', NEW r \in Runs, Step(r) \/ Lost(r),
         \A q \in Runs \ {r} :
           /\ phase'[q] = phase[q] /\ snap'[q] = snap[q] /\ old'[q] = old[q]
           /\ out'[q] = out[q] /\ seen'[q] = seen[q],
         phase'[r] \in Busy => \/ phase[r] \in Busy
                               \/ \A q \in Runs : phase[q] \notin Busy,
         UNCHANGED <<base, acked>>, UpToDate(r)'
  PROVE  QuietInv'
<1>1. Dated'
  BY RunPasses, DatedPass DEF QuietInv
<1>2. Alone'
  BY DEF QuietInv, Alone
<1>3. Behind'
  BY DEF QuietInv, Behind
<1>4. \A q \in Runs \ {r} : UpToDate(q)'
  BY DEF QuietInv, UpToDate
<1> QED
  BY <1>1, <1>2, <1>3, <1>4 DEF QuietInv

LEMMA QuietLooks ==
  ASSUME ~Overlap, QuietInv, TypeOK', NEW r \in Runs,
         Start(r) \/ ReadBaseline(r) \/ \E c \in Containers : Inspect(r, c) \/ Compare(r, c)
  PROVE  QuietInv'
<1>1. UpToDate(r)
  BY DEF QuietInv
<1>2. \A c \in Containers : base[c].n <= docker[c].n /\ docker[c] # NoLines[c]
  BY DEF QuietInv, Dated, Lines
<1>3. CASE Start(r)
  <2>1. UpToDate(r)'
    BY <1>2, <1>3 DEF Start, UpToDate, Busy, QuietInv, TypeOK
  <2>2. \A q \in Runs : phase[q] \notin Busy
    BY <1>3 DEF Start, Busy
  <2>3. \A q \in Runs \ {r} : phase'[q] = phase[q] /\ snap'[q] = snap[q]
    BY <1>3 DEF Start, QuietInv, TypeOK
  <2> QED
    BY <1>3, <2>1, <2>2, <2>3, QuietRun DEF Start, Step
<1>4. CASE ReadBaseline(r)
  <2>1. UpToDate(r)'
    BY <1>1, <1>4 DEF ReadBaseline, UpToDate, Busy, QuietInv, TypeOK
  <2>2. phase[r] \in Busy
    BY <1>4 DEF ReadBaseline, Busy
  <2>3. \A q \in Runs \ {r} : /\ phase'[q] = phase[q] /\ old'[q] = old[q]
                              /\ out'[q] = out[q] /\ seen'[q] = seen[q]
    BY <1>4 DEF ReadBaseline, QuietInv, TypeOK
  <2> QED
    BY <1>4, <2>1, <2>2, <2>3, QuietRun DEF ReadBaseline, Step
<1>5. ASSUME NEW c \in Containers, Inspect(r, c) PROVE QuietInv'
  <2>1. phase[r] = "inspect" /\ UNCHANGED <<base, acked>>
    BY <1>5 DEF Inspect
  <2>2. CASE docker[c].there
    <3>1. /\ snap' = [snap EXCEPT ![r][c] = docker[c]]
          /\ UNCHANGED <<phase, old, out, seen>>
      BY <1>5, <2>2 DEF Inspect
    <3>2. \A q \in Runs, a \in Containers :
            snap'[q][a] = IF q = r /\ a = c THEN docker[c] ELSE snap[q][a]
      BY <3>1 DEF QuietInv, TypeOK
    <3>3. \A q \in Runs \ {r} : snap'[q] = snap[q]
      BY <3>1 DEF QuietInv, TypeOK
    <3>4. UpToDate(r)'
      BY <1>1, <1>2, <2>1, <3>1, <3>2 DEF UpToDate, Busy
    <3> QED
      BY <1>5, <2>1, <3>1, <3>3, <3>4, QuietRun DEF Step, Busy
  <2>3. CASE ~docker[c].there
    <3>1. EndRun(r)
      BY <1>5, <2>3 DEF Inspect
    <3>2. /\ phase'[r] = "idle"
          /\ \A q \in Runs \ {r} :
               /\ phase'[q] = phase[q] /\ snap'[q] = snap[q] /\ old'[q] = old[q]
               /\ out'[q] = out[q] /\ seen'[q] = seen[q]
      BY <3>1 DEF EndRun, QuietInv, TypeOK
    <3> QED
      BY <1>5, <2>1, <3>2, QuietRun DEF Step, Busy, UpToDate
  <2> QED
    BY <2>2, <2>3
<1>6. ASSUME NEW c \in Containers, Compare(r, c) PROVE QuietInv'
  <2>1. /\ phase[r] = "compare" /\ UNCHANGED <<base, acked, phase, snap, old, seen>>
        /\ out' = out \/ out' = [out EXCEPT ![r][c] = old[r][c]]
    BY <1>6 DEF Compare
  <2>2. \A q \in Runs, a \in Containers :
          out'[q][a] = out[q][a] \/ (q = r /\ a = c /\ out'[q][a] = old[r][c])
    BY <2>1 DEF QuietInv, TypeOK
  <2>3. \A q \in Runs \ {r} : out'[q] = out[q]
    BY <2>1 DEF QuietInv, TypeOK
  <2>4. UpToDate(r)'
    BY <1>1, <2>1, <2>2 DEF UpToDate
  <2> QED
    BY <1>6, <2>1, <2>3, <2>4, QuietRun DEF Step, Busy
<1> QED
  BY <1>3, <1>4, <1>5, <1>6

(* The write: no other run is under way that could have read the old file.   *)
LEMMA QuietWrite ==
  ASSUME QuietInv, TypeOK', NEW r \in Runs, Write(r)
  PROVE  QuietInv'
<1>1. phase[r] \in {"compare", "write"} /\ UpToDate(r)
  BY DEF Write, QuietInv
<1>2. EndRun(r) /\ base' = out[r]
  BY DEF Write
<1>3. \A q \in Runs : phase'[q] = IF q = r THEN "idle" ELSE phase[q]
  BY <1>2, EndRunHolds DEF QuietInv
<1>4. \A q \in Runs : phase'[q] \notin Busy
  BY <1>1, <1>3 DEF QuietInv, Alone, Busy
<1>5. Dated'
  BY RunPasses, DatedPass DEF QuietInv, Step
<1>6. Behind'
  <2> SUFFICES ASSUME NEW c \in Containers PROVE acked'[c] <= base'[c].n
    BY DEF Behind
  <2>1. acked[c] \in Nat /\ out[r][c].n \in Nat /\ snap[r][c].n \in Nat /\ base[c].n \in Nat
    BY Numbers DEF QuietInv
  <2>2. acked[c] <= base[c].n
    BY DEF QuietInv, Behind
  <2>3. base[c].n <= out[r][c].n
    BY <1>1, <2>1 DEF UpToDate, Busy
  <2>4. acked'[c] = acked[c] \/ acked'[c] = Later(acked[c], out[r][c].n)
    BY DEF Write
  <2> QED
    BY <1>2, <2>1, <2>2, <2>3, <2>4 DEF Later
<1> QED
  BY <1>4, <1>5, <1>6 DEF QuietInv, Alone, UpToDate, Busy

LEMMA QuietStep ==
  ASSUME ~Overlap, QuietInv, [Next]_vars
  PROVE  QuietInv'
<1>1. TypeOK'
  BY TypeStep DEF QuietInv
<1>2. ASSUME NEW c \in Containers, World(c) \/ \E r \in Runs : Deploy(r, c) PROVE QuietInv'
  BY <1>2, QuietChange
<1>3. ASSUME NEW r \in Runs, Step(r) PROVE QuietInv'
  BY <1>1, <1>3, QuietLooks, QuietWrite DEF Step
<1>4. ASSUME NEW r \in Runs, Lost(r) PROVE QuietInv'
  <2>1. EndRun(r) /\ UNCHANGED <<base, acked>>
    BY <1>4 DEF Lost
  <2>2. /\ phase'[r] = "idle"
        /\ \A q \in Runs \ {r} :
             /\ phase'[q] = phase[q] /\ snap'[q] = snap[q] /\ old'[q] = old[q]
             /\ out'[q] = out[q] /\ seen'[q] = seen[q]
    BY <2>1 DEF EndRun, QuietInv, TypeOK
  <2> QED
    BY <1>1, <1>4, <2>1, <2>2, QuietRun DEF Busy, UpToDate
<1>5. CASE UNCHANGED vars
  <2>1. UNCHANGED <<docker, base, phase, snap, old, out, seen, acked>>
    BY <1>5 DEF vars, run
  <2>2. Dated'
    BY <2>1 DEF QuietInv, Dated, Lines
  <2> QED
    BY <1>1, <2>1, <2>2 DEF QuietInv, Alone, Behind, UpToDate
<1> QED
  BY <1>2, <1>3, <1>4, <1>5 DEF Next

(* A check raises no alert for a state that the --ack it read had recorded,  *)
(* provided that runs do not overlap: with an overlap, a check may write     *)
(* back lines that it read before the --ack.                                 *)
THEOREM DeployIsQuiet ==
  ASSUME ~Overlap
  PROVE  Spec => []KnownDeployQuiet
<1>1. Init => QuietInv
  BY QuietStart
<1>2. QuietInv /\ [Next]_vars => QuietInv'
  BY QuietStep
<1>3. QuietInv => KnownDeployQuiet
  <2> SUFFICES ASSUME QuietInv, NEW r \in Runs, phase[r] = "compare", NEW c \in Containers,
                      News(c, old[r][c], snap[r][c]), ~(snap[r][c].n > seen[r][c])
               PROVE  FALSE
    BY DEF KnownDeployQuiet, QuietInv, TypeOK
  <2> DEFINE last == old[r][c]
             cur  == snap[r][c]
  <2>1. UpToDate(r) /\ Dated /\ Behind
    BY DEF QuietInv
  <2>2. last = base[c] /\ seen[r][c] = acked[c] /\ base[c].n <= cur.n /\ cur # NoLines[c]
    BY <2>1 DEF UpToDate, Busy
  <2>3. cur.n \in Nat /\ last.n \in Nat /\ acked[c] \in Nat
    BY Numbers DEF QuietInv
  <2>4. acked[c] <= last.n
    BY <2>1, <2>2 DEF Behind
  <2>5. last.n = cur.n
    BY <2>2, <2>3, <2>4
  <2>6. last \in Lines(c) /\ cur \in Lines(c)
    BY DEF Lines
  <2>7. last # NoLines[c]
    BY NoLinesTyped DEF News
  <2>8. last = cur
    BY <2>1, <2>2, <2>5, <2>6, <2>7 DEF Dated
  <2> QED
    BY <2>8 DEF News, SameRun
<1> QED
  BY <1>1, <1>2, <1>3, PTL DEF Spec

-----------------------------------------------------------------------------
(* The remote services. *)
OneRun ==
  /\ \A q, r \in RemoteRuns : busy[q] /\ busy[r] => q = r
  /\ \A r \in RemoteRuns : busy[r] => prev[r] = line

Agreed ==
  ~cut => ~repeated /\ (line.alerted <=> told # "up")

Configured ==
  /\ service # "unconfigured"
  /\ \A r \in RemoteRuns : st[r] # "unconfigured"

ServiceInv == R!TypeOK /\ OneRun /\ Agreed /\ Configured

-----------------------------------------------------------------------------
LEMMA ServiceLines ==
  /\ R!NoFile \in R!FileLine
  /\ \A n \in 0..Threshold, b \in BOOLEAN :
       [there |-> TRUE, fails |-> n, alerted |-> b] \in R!FileLine
  /\ \A l \in R!FileLine : l.fails \in 0..Threshold /\ l.alerted \in BOOLEAN
BY RemoteAssumption DEF R!NoFile, R!FileLine

LEMMA ServiceStart == AlertInit => ServiceInv
<1> SUFFICES ASSUME AlertInit PROVE ServiceInv
  OBVIOUS
<1> USE DEF AlertInit, R!Init
<1>1. R!TypeOK
  <2>1. line \in R!FileLine /\ prev \in [RemoteRuns -> R!FileLine] /\ missed \in 0..RemoteFaults
    BY ServiceLines, RemoteAssumption
  <2> QED BY <2>1 DEF R!TypeOK, R!States
<1>2. OneRun /\ Configured
  BY DEF OneRun, Configured, R!States
<1>3. Agreed
  BY DEF Agreed, R!NoFile
<1> QED
  BY <1>1, <1>2, <1>3 DEF ServiceInv

LEMMA TurnStep ==
  ASSUME ServiceInv, R!Turn
  PROVE  ServiceInv'
BY DEF ServiceInv, R!TypeOK, OneRun, Agreed, Configured, R!Turn, R!States

LEMMA ProbeStep ==
  ASSUME ServiceInv, NEW r \in RemoteRuns, R!Probe(r)
  PROVE  ServiceInv'
<1> USE DEF ServiceInv, R!Probe
<1>1. R!TypeOK'
  BY DEF R!TypeOK
<1>2. OneRun'
  BY DEF OneRun, R!TypeOK
<1>3. Agreed' /\ Configured'
  BY DEF Agreed, Configured, R!TypeOK
<1> QED
  BY <1>1, <1>2, <1>3

LEMMA FaultStep ==
  ASSUME ServiceInv, R!Fault \/ missed' = missed
  PROVE  missed' \in 0..RemoteFaults
<1>1. missed \in 0..RemoteFaults
  BY DEF ServiceInv, R!TypeOK
<1>2. CASE R!Fault
  BY <1>1, <1>2, RemoteAssumption DEF R!Fault
<1> QED
  BY <1>1, <1>2

(* A run that ends, with or without a new line. *)
LEMMA RunEnds ==
  ASSUME ServiceInv, NEW r \in RemoteRuns, busy[r], R!EndRun(r),
         service' = service, line' = line \/ line' \in R!FileLine,
         told' \in {"up", "down", "quiet"}, repeated' \in BOOLEAN, cut' \in BOOLEAN,
         missed' \in 0..RemoteFaults, Agreed'
  PROVE  ServiceInv'
<1> USE DEF ServiceInv, R!EndRun
<1>1. R!TypeOK'
  BY ServiceLines DEF R!TypeOK, R!States
<1>2. OneRun' /\ Configured'
  BY DEF OneRun, Configured, R!TypeOK
<1> QED
  BY <1>1, <1>2

LEMMA FinishUpStep ==
  ASSUME ServiceInv, NEW r \in RemoteRuns, R!FinishUp(r)
  PROVE  ServiceInv'
<1> USE DEF R!FinishUp
<1>1. st[r] = "healthy" /\ prev[r] = line /\ line \in R!FileLine /\ line.alerted \in BOOLEAN /\ line.fails \in 0..Threshold
  BY ServiceLines DEF ServiceInv, R!TypeOK, OneRun, Configured, R!States
<1>2. R!EndRun(r)
  BY DEF R!Write
<1>3. line' \in R!FileLine
  <2>1. 0 \in 0..Threshold
    BY RemoteAssumption
  <2> QED BY <1>1, <2>1, ServiceLines DEF R!Write
<1>4. told' \in {"up", "down", "quiet"} /\ repeated' \in BOOLEAN /\ cut' = cut
  BY DEF ServiceInv, R!TypeOK, R!Silent, R!NoticeUp
<1>5. missed' \in 0..RemoteFaults
  BY FaultStep DEF R!Silent
<1>6. Agreed'
  <2>1. CASE ~R!NeedsUp(r) /\ R!Write(r, 0, FALSE) /\ R!Silent
    <3>1. ~line.alerted /\ ~line'.alerted
      BY <1>1, <2>1 DEF R!NeedsUp, R!Write
    <3> QED BY <2>1, <3>1 DEF ServiceInv, Agreed, R!Silent
  <2>2. CASE R!NeedsUp(r) /\ R!NoticeUp /\ R!Write(r, 0, FALSE) /\ UNCHANGED <<cut, missed>>
    <3>1. line.alerted /\ ~line'.alerted
      BY <1>1, <2>2 DEF R!NeedsUp, R!Write
    <3> QED BY <2>2, <3>1 DEF ServiceInv, Agreed, R!NoticeUp
  <2>3. CASE R!NeedsUp(r) /\ R!Fault /\ R!Write(r, prev[r].fails, TRUE) /\ UNCHANGED <<told, repeated, cut>>
    <3>1. line.alerted /\ line'.alerted
      BY <1>1, <2>3 DEF R!NeedsUp, R!Write
    <3> QED BY <2>3, <3>1 DEF ServiceInv, Agreed
  <2> QED BY <2>1, <2>2, <2>3
<1> QED
  BY <1>2, <1>3, <1>4, <1>5, <1>6, RunEnds DEF ServiceInv, R!TypeOK

LEMMA FinishDownStep ==
  ASSUME ServiceInv, NEW r \in RemoteRuns, R!FinishDown(r)
  PROVE  ServiceInv'
<1> USE DEF R!FinishDown
<1>1. prev[r] = line /\ line \in R!FileLine /\ line.alerted \in BOOLEAN /\ line.fails \in 0..Threshold
  BY ServiceLines DEF ServiceInv, R!TypeOK, OneRun
<1>2. R!EndRun(r)
  BY DEF R!Write
<1>3. R!More(prev[r].fails) \in 0..Threshold
  BY <1>1, RemoteAssumption DEF R!More
<1>4. line' \in R!FileLine
  BY <1>1, <1>3, ServiceLines DEF R!Write
<1>5. told' \in {"up", "down", "quiet"} /\ repeated' \in BOOLEAN /\ cut' = cut
  BY DEF ServiceInv, R!TypeOK, R!Silent, R!NoticeDown
<1>6. missed' \in 0..RemoteFaults
  BY FaultStep DEF R!Silent
<1>7. Agreed'
  BY <1>1 DEF ServiceInv, Agreed, R!Write, R!NeedsDown, R!NoticeDown, R!Silent
<1> QED
  BY <1>2, <1>4, <1>5, <1>6, <1>7, RunEnds DEF ServiceInv, R!TypeOK

LEMMA LostStep ==
  ASSUME ServiceInv, NEW r \in RemoteRuns, R!Lost(r)
  PROVE  ServiceInv'
<1> USE DEF R!Lost
<1>1. told' \in {"up", "down", "quiet"} /\ repeated' \in BOOLEAN /\ cut' \in BOOLEAN
  BY DEF ServiceInv, R!TypeOK, R!NoticeUp, R!NoticeDown
<1>2. missed' \in 0..RemoteFaults
  BY FaultStep
<1>3. Agreed'
  BY DEF ServiceInv, Agreed
<1> QED
  BY <1>1, <1>2, <1>3, RunEnds

LEMMA ServiceInductive == AlertSpec => []ServiceInv
<1>1. ASSUME ServiceInv, AlertNext PROVE ServiceInv'
  <2>1. CASE UNCHANGED remote
    BY <1>1, <2>1 DEF remote, ServiceInv, R!TypeOK, OneRun, Agreed, Configured
  <2>2. CASE R!Next
    BY <1>1, <2>2, TurnStep, ProbeStep, FinishUpStep, FinishDownStep, LostStep DEF R!Next, R!Step
  <2> QED
    BY <1>1, <2>1, <2>2 DEF AlertNext, ContainersOnly, ServiceOnly
<1>2. ServiceInv /\ UNCHANGED <<vars, remote, watched>> => ServiceInv'
  BY DEF remote, ServiceInv, R!TypeOK, OneRun, Agreed, Configured
<1>3. ServiceInv /\ [AlertNext]_<<vars, remote, watched>> => ServiceInv'
  BY <1>1, <1>2
<1> QED
  BY ServiceStart, <1>3, PTL DEF AlertSpec

-----------------------------------------------------------------------------
(* No second alert about an outage and no second notice about a recovery,    *)
(* unless a run died between sending one and recording it: for any threshold *)
(* and any failed sends, of runs that do not overlap.                        *)
THEOREM OneNotice == AlertSpec => []OneNoticePerTurn
<1>1. ServiceInv => OneNoticePerTurn
  BY DEF ServiceInv, Agreed, OneNoticePerTurn, R!OneNoticePerTurn
<1> QED
  BY <1>1, ServiceInductive, PTL
================================================================================
