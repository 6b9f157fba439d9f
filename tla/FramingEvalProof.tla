--------------------------- MODULE FramingEvalProof ---------------------------
(***************************************************************************)
(* The framing evaluation for any case files, command lines and RETRY_MAX: *)
(* its types, that no call is made without an approval, that the calls     *)
(* keep to the plan, that a report has every row, and that no candidate is *)
(* killed for nothing.                                                     *)
(*                                                                         *)
(* Used is what the plan provides for up to the position of the run. A     *)
(* pause (attempt, or late once its packet is given up) stands for a call  *)
(* the plan has and the engine has not had (Counted), and the rows follow  *)
(* the position (Recorded).                                                *)
(***************************************************************************)
EXTENDS FramingEval, FiniteSetTheorems, SequenceTheorems, TLAPS

Approved ==
  /\ o.approved = "good" /\ ~o.dry /\ ~o.list /\ ~o.problems
  /\ Planned <= o.cap

Approval ==
  /\ exit = -1 => Approved
  /\ calls > 0 => Approved
  /\ calls <= o.cap

Placed ==
  /\ leg = 0 <=> side \in {"unframed", "framed"}
  /\ at <= Work + 1
  /\ side \in {"framed", "answer"} => at <= Work
  /\ leg > o.candidates => at = 1 /\ side = "condense"

Used ==
  IF leg = 0 THEN 2 * (at - 1) + (IF side = "framed" THEN 1 ELSE 0)
  ELSE 2 * Framed + 2 * (Reasoned * (leg - 1)) + 2 * (at - 1) + (IF side = "answer" THEN 1 ELSE 0)

Counted == calls + late <= Used + retries

Recorded ==
  /\ leg = 0 => Len(raw) = at - 1 /\ Len(rows) = 0
  /\ leg > 0 => Len(raw) = Framed /\ Len(rows) = IF leg > o.candidates THEN o.candidates ELSE leg
  /\ \A k \in 1..Len(rows) : Len(rows[k]) = IF k = leg THEN at - 1 ELSE Reasoned
  /\ report # "none" => leg > o.candidates

IInv == TypeOK /\ Approval /\ Placed /\ Counted /\ Recorded

-----------------------------------------------------------------------------
LEMMA OfOptions ==
  ASSUME o \in Options
  PROVE  o.candidates \in Nat /\ o.cap \in Nat /\ o.book \in Seq(Case)
BY OptionsAssumption DEF Option

LEMMA Sizes ==
  ASSUME o \in Options
  PROVE  Framed \in Nat /\ Reasoned \in Nat
<1>1. IsFiniteSet(DOMAIN o.book)
  <2>1. DOMAIN o.book = 1..Len(o.book) /\ Len(o.book) \in Nat
    BY OfOptions
  <2> QED BY <2>1, FS_Interval
<1>2. Selected \in SUBSET (DOMAIN o.book) /\ ReasonerCases \in SUBSET (DOMAIN o.book)
  BY DEF Selected, ReasonerCases
<1> QED
  BY <1>1, <1>2, FS_Subset, FS_CardinalityType DEF Framed, Reasoned

LEMMA Same ==
  ASSUME o' = o
  PROVE  Framed' = Framed /\ Reasoned' = Reasoned /\ Planned' = Planned /\ Approved' = Approved
BY DEF Framed, Reasoned, Selected, ReasonerCases, Earlier, Planned, Approved

LEMMA Times ==
  ASSUME NEW r \in Nat, NEW a \in Nat, NEW b \in Nat
  PROVE  /\ r * a \in Nat
         /\ r * (a + 1) = r * a + r
         /\ a <= b => r * a <= r * b
OBVIOUS

LEMMA Doubles ==
  ASSUME NEW f \in Nat, NEW r \in Nat, NEW a \in Nat, NEW b \in Nat, b = a + r
  PROVE  2 * f + 2 * b + 2 * 0 + 0 = 2 * f + 2 * a + 2 * r + 0
OBVIOUS

LEMMA Initially == Init => IInv
<1> SUFFICES ASSUME Init PROVE IInv
  OBVIOUS
<1> USE DEF Init
<1>1. TypeOK
  <2>1. exit \in {-1, 0, 1, 2}
    BY DEF Answer
  <2>2. <<>> \in Seq(BOOLEAN) /\ <<>> \in Seq(Seq(BOOLEAN))
    OBVIOUS
  <2>3. leg \in 0..(o.candidates + 1) /\ attempt \in 0..RetryMax /\ at \in Nat \ {0}
    BY OfOptions, RetryAssumption
  <2> QED BY <2>1, <2>2, <2>3 DEF TypeOK
<1>2. Planned \in Nat
  BY OfOptions, Sizes, Times DEF Planned
<1>3. Approval
  BY <1>2, OfOptions DEF Approval, Approved, Answer
<1>4. Placed /\ Counted /\ Recorded
  BY Sizes, OfOptions DEF Placed, Work, Counted, Used, Recorded
<1> QED
  BY <1>1, <1>3, <1>4 DEF IInv

-----------------------------------------------------------------------------
(* What a row that is added leaves of the rows. *)
LEMMA RowAdded ==
  ASSUME TypeOK, Placed, Recorded, Calling, leg > 0, NEW success \in BOOLEAN, Row(success)
  PROVE  /\ rows' \in Seq(Seq(BOOLEAN)) /\ Len(rows') = Len(rows)
         /\ \A k \in 1..Len(rows) : Len(rows'[k]) = Len(rows[k]) + (IF k = leg THEN 1 ELSE 0)
<1>1. leg \in 1..Len(rows) /\ rows \in Seq(Seq(BOOLEAN)) /\ rows[leg] \in Seq(BOOLEAN)
  BY OfOptions DEF TypeOK, Recorded, Calling, Running
<1>2. Append(rows[leg], success) \in Seq(BOOLEAN) /\ Len(Append(rows[leg], success)) = Len(rows[leg]) + 1
  BY <1>1, AppendProperties
<1>3. rows' = [rows EXCEPT ![leg] = Append(rows[leg], success)]
  BY DEF Row
<1>4. /\ rows' \in Seq(Seq(BOOLEAN)) /\ Len(rows') = Len(rows)
      /\ \A k \in 1..Len(rows) : rows'[k] = IF k = leg THEN Append(rows[leg], success) ELSE rows[k]
  BY <1>1, <1>2, <1>3, ExceptSeq
<1>5. ASSUME NEW k \in 1..Len(rows)
      PROVE  Len(rows'[k]) = Len(rows[k]) + (IF k = leg THEN 1 ELSE 0)
  <2>1. rows[k] \in Seq(BOOLEAN)
    BY <1>1
  <2>2. CASE k = leg
    BY <2>2, <1>2, <1>4
  <2>3. CASE k # leg
    <3>1. rows'[k] = rows[k] /\ Len(rows[k]) \in Nat
      BY <2>1, <2>3, <1>4
    <3> QED BY <2>3, <3>1
  <2> QED BY <2>2, <2>3
<1> QED
  BY <1>4, <1>5

(* The run moves on to the next case, with its answer in raw or in a row. *)
LEMMA Answered ==
  ASSUME IInv, Calling, o' = o, NextCase,
         NEW success \in BOOLEAN,
         \/ side = "framed" /\ raw' = Append(raw, success) /\ UNCHANGED rows
         \/ side \in {"condense", "answer"} /\ Row(success) /\ UNCHANGED raw,
         UNCHANGED report
  PROVE  /\ Placed' /\ Recorded'
         /\ leg' = leg /\ at' \in Nat \ {0} /\ side' \in {"unframed", "condense"}
         /\ raw' \in Seq(BOOLEAN) /\ rows' \in Seq(Seq(BOOLEAN))
         /\ Used' = Used + (IF side = "condense" THEN 2 ELSE 1)
<1>1. /\ Framed \in Nat /\ Reasoned \in Nat /\ Framed' = Framed /\ Reasoned' = Reasoned
      /\ o.candidates \in Nat /\ leg \in Nat /\ at \in Nat /\ at # 0
  BY Sizes, Same, OfOptions DEF IInv, TypeOK
<1>2. leg' = leg /\ at' = at + 1 /\ side' = IF leg = 0 THEN "unframed" ELSE "condense"
  BY DEF NextCase
<1>3. Work' = Work /\ Work \in Nat /\ at <= Work /\ leg <= o.candidates
  BY <1>1, <1>2 DEF Work, Calling, Running
<1>4. Placed'
  BY <1>1, <1>2, <1>3 DEF Placed
<1>5. Used' = Used + (IF side = "condense" THEN 2 ELSE 1)
  <2>1. leg = 0 => side = "framed"
    BY DEF IInv, Placed
  <2>2. leg # 0 => side \in {"condense", "answer"}
    BY DEF IInv, TypeOK, Placed
  <2>3. leg # 0 => Reasoned * (leg - 1) \in Nat
    BY <1>1, Times
  <2> QED BY <1>1, <1>2, <2>1, <2>2, <2>3 DEF Used
<1>6. raw' \in Seq(BOOLEAN) /\ Len(raw') = Len(raw) + (IF side = "framed" THEN 1 ELSE 0)
  <2>1. raw \in Seq(BOOLEAN) /\ Len(raw) \in Nat
    BY DEF IInv, TypeOK
  <2>2. CASE side = "framed" /\ raw' = Append(raw, success)
    BY <2>1, <2>2, AppendProperties
  <2>3. CASE side \in {"condense", "answer"} /\ raw' = raw
    BY <2>1, <2>3
  <2> QED BY <2>2, <2>3
<1>7. /\ rows' \in Seq(Seq(BOOLEAN)) /\ Len(rows') = Len(rows)
      /\ \A k \in 1..Len(rows) : Len(rows'[k]) = Len(rows[k]) + (IF leg > 0 /\ k = leg THEN 1 ELSE 0)
  <2>1. rows \in Seq(Seq(BOOLEAN)) /\ \A k \in 1..Len(rows) : Len(rows[k]) \in Nat
    BY DEF IInv, TypeOK
  <2>2. CASE side = "framed" /\ rows' = rows
    BY <2>1, <2>2, <1>1 DEF IInv, Placed
  <2>3. CASE side \in {"condense", "answer"} /\ Row(success)
    <3>1. leg > 0
      BY <2>3, <1>1 DEF IInv, Placed
    <3>2. TypeOK /\ Placed /\ Recorded
      BY DEF IInv
    <3>3. /\ rows' \in Seq(Seq(BOOLEAN)) /\ Len(rows') = Len(rows)
          /\ \A k \in 1..Len(rows) : Len(rows'[k]) = Len(rows[k]) + (IF k = leg THEN 1 ELSE 0)
      BY <2>3, <3>1, <3>2, RowAdded
    <3> QED BY <3>1, <3>3
  <2> QED BY <2>2, <2>3
<1>8. Recorded'
  <2>1. leg' = 0 => Len(raw') = at' - 1 /\ Len(rows') = 0
    BY <1>1, <1>2, <1>6, <1>7 DEF IInv, Recorded, Placed, TypeOK
  <2>2. leg' > 0 => Len(raw') = Framed' /\ Len(rows') = IF leg' > o'.candidates THEN o'.candidates ELSE leg'
    BY <1>1, <1>2, <1>6, <1>7 DEF IInv, Recorded, Placed, TypeOK
  <2>3. \A k \in 1..Len(rows') : Len(rows'[k]) = IF k = leg' THEN at' - 1 ELSE Reasoned'
    <3>1. leg = 0 => Len(rows) = 0
      BY DEF IInv, Recorded
    <3> SUFFICES ASSUME NEW k \in 1..Len(rows)
                 PROVE  Len(rows'[k]) = IF k = leg' THEN at' - 1 ELSE Reasoned'
      BY <1>7
    <3>2. Len(rows[k]) = IF k = leg THEN at - 1 ELSE Reasoned
      BY DEF IInv, Recorded
    <3>3. Len(rows'[k]) = Len(rows[k]) + (IF leg > 0 /\ k = leg THEN 1 ELSE 0)
      BY <1>7
    <3> QED BY <1>1, <1>2, <3>1, <3>2, <3>3
  <2>4. report' # "none" => leg' > o'.candidates
    BY <1>2 DEF IInv, Recorded
  <2> QED BY <2>1, <2>2, <2>3, <2>4 DEF Recorded
<1> QED
  BY <1>1, <1>2, <1>4, <1>5, <1>6, <1>7, <1>8

(* The counts of a run, and what the plan provides for, are numbers. *)
LEMMA Numbers ==
  ASSUME IInv
  PROVE  /\ calls \in Nat /\ late \in Nat /\ retries \in Nat /\ o.cap \in Nat
         /\ Framed \in Nat /\ Reasoned \in Nat /\ leg \in Nat /\ at \in Nat \ {0}
         /\ Used \in Nat
<1>1. /\ calls \in Nat /\ late \in Nat /\ retries \in Nat /\ o.cap \in Nat
      /\ Framed \in Nat /\ Reasoned \in Nat /\ leg \in Nat /\ at \in Nat \ {0}
  BY Sizes, OfOptions DEF IInv, TypeOK
<1>2. leg > 0 => Reasoned * (leg - 1) \in Nat
  BY <1>1, Times
<1>3. Used \in Nat
  BY <1>1, <1>2 DEF Used
<1> QED
  BY <1>1, <1>3

LEMMA DoneStep ==
  ASSUME IInv, Done
  PROVE  IInv'
<1> USE DEF Done
<1>1. /\ Calling /\ o' = o /\ calls' = calls + 1 /\ calls < o.cap
      /\ attempt' = 0 /\ UNCHANGED <<retries, late, report, exit>>
  BY DEF Send, MayCall
<1>2. Approval'
  BY <1>1, Same, Numbers DEF IInv, Approval, Calling, Running
<1>3. CASE NextCase /\ \E success \in BOOLEAN :
               \/ side = "framed" /\ raw' = Append(raw, success) /\ UNCHANGED rows
               \/ side \in {"condense", "answer"} /\ Row(success) /\ UNCHANGED raw
  <2>1. PICK success \in BOOLEAN :
               \/ side = "framed" /\ raw' = Append(raw, success) /\ UNCHANGED rows
               \/ side \in {"condense", "answer"} /\ Row(success) /\ UNCHANGED raw
    BY <1>3
  <2>2. /\ Placed' /\ Recorded'
        /\ leg' = leg /\ at' \in Nat \ {0} /\ side' \in {"unframed", "condense"}
        /\ raw' \in Seq(BOOLEAN) /\ rows' \in Seq(Seq(BOOLEAN))
        /\ Used' = Used + (IF side = "condense" THEN 2 ELSE 1)
    BY <1>1, <1>3, <2>1, Answered
  <2>3. swallowed' = swallowed
    BY <1>3 DEF Scored, Then, NextCase
  <2>4. TypeOK'
    BY <1>1, <2>2, <2>3, RetryAssumption DEF IInv, TypeOK
  <2>5. Counted'
    <3>1. Used' = Used + 1 \/ Used' = Used + 2
      BY <2>2
    <3>2. calls' = calls + 1 /\ late' = late /\ retries' = retries
      BY <1>1
    <3> QED BY <3>1, <3>2, Numbers DEF IInv, Counted
  <2> QED BY <1>2, <2>2, <2>4, <2>5 DEF IInv
<1>4. CASE /\ \/ side = "unframed" /\ side' = "framed"
              \/ side = "condense" /\ side' = "answer"
           /\ UNCHANGED <<leg, at, raw, rows, swallowed>>
  <2>1. Framed' = Framed /\ Reasoned' = Reasoned
    BY <1>1, Same
  <2>2. TypeOK'
    BY <1>1, <1>4, RetryAssumption, Numbers DEF IInv, TypeOK
  <2>3. Placed'
    <3>1. Work' = Work /\ Work \in Nat /\ at <= Work /\ leg <= o.candidates
      BY <1>1, <1>4, <2>1, Numbers DEF Work, Calling, Running
    <3>2. o.candidates \in Nat
      BY OfOptions DEF IInv, TypeOK
    <3> QED BY <1>1, <1>4, <3>1, <3>2, Numbers DEF IInv, Placed
  <2>4. Recorded'
    BY <1>1, <1>4, <2>1 DEF IInv, Recorded
  <2>5. leg > 0 => Reasoned * (leg - 1) \in Nat
    BY Numbers, Times
  <2>6. Used' = Used + 1
    BY <1>4, <2>1, <2>5, Numbers DEF Used, IInv, Placed
  <2>7. Counted'
    BY <1>1, <2>6, Numbers DEF IInv, Counted
  <2> QED BY <1>2, <2>2, <2>3, <2>4, <2>7 DEF IInv
<1> QED
  <2>1. CASE side # "condense" /\ \E success \in BOOLEAN : Scored(success)
    <3>1. PICK success \in BOOLEAN : Scored(success)
      BY <2>1
    <3>2. CASE side = "unframed" /\ Then("framed") /\ UNCHANGED results
      <4>1. /\ side = "unframed" /\ side' = "framed"
            /\ UNCHANGED <<leg, at, raw, rows, swallowed>>
        BY <3>2 DEF Then, results
      <4> QED BY <4>1, <1>4
    <3>3. CASE \/ side = "framed" /\ NextCase /\ raw' = Append(raw, success) /\ UNCHANGED <<rows, swallowed>>
               \/ side = "answer" /\ NextCase /\ Row(success) /\ UNCHANGED <<raw, swallowed>>
      BY <1>3, <3>3
    <3> QED BY <3>1, <3>2, <3>3 DEF Scored
  <2>2. CASE side = "condense" /\ Then("answer") /\ UNCHANGED results
    BY <1>4, <2>2 DEF Then, results
  <2>3. CASE side = "condense" /\ Fallback /\ UNCHANGED swallowed
    BY <1>3, <2>3 DEF Fallback
  <2> QED BY <2>1, <2>2, <2>3

(* A packet is given up: its deadline, or the cap. *)
LEMMA GivenUp ==
  ASSUME IInv, Calling, side = "condense", Fallback, o' = o, attempt' = 0,
         calls' = calls, retries' = retries, late' \in {late, late + 1},
         swallowed' \in BOOLEAN, UNCHANGED <<report, exit>>
  PROVE  IInv'
<1>1. NextCase /\ Row(FALSE) /\ UNCHANGED raw
  BY DEF Fallback
<1>2. /\ Placed' /\ Recorded'
      /\ leg' = leg /\ at' \in Nat \ {0} /\ side' \in {"unframed", "condense"}
      /\ raw' \in Seq(BOOLEAN) /\ rows' \in Seq(Seq(BOOLEAN))
      /\ Used' = Used + 2
  BY <1>1, Answered
<1>3. TypeOK'
  BY <1>2, RetryAssumption DEF IInv, TypeOK
<1>4. Approval'
  BY Same DEF IInv, Approval
<1>5. Counted'
  <2>1. late' \in Nat /\ late' <= late + 1
    BY Numbers
  <2>2. calls + late <= Used + retries
    BY DEF IInv, Counted
  <2>3. calls + late' <= (Used + 2) + retries
    BY <2>1, <2>2, Numbers
  <2> QED BY <1>2, <2>3 DEF Counted
<1> QED
  BY <1>2, <1>3, <1>4, <1>5 DEF IInv

(* The steps that leave the position of the run. *)
LEMMA InPlace ==
  ASSUME IInv, UNCHANGED <<o, position, results>>,
         attempt' \in 0..RetryMax, calls' \in Nat, retries' \in Nat, late' \in Nat,
         calls' + late' - retries' <= calls + late - retries,
         calls' = calls \/ (calls' <= o.cap /\ Approved),
         report' = report \/ (leg > o.candidates /\ report' \in {"none", "json", "both"}),
         exit' = exit \/ exit' \in {0, 1}
  PROVE  IInv'
<1> USE DEF position, results
<1>1. TypeOK'
  BY DEF IInv, TypeOK
<1>2. Framed' = Framed /\ Reasoned' = Reasoned /\ Approved' = Approved
  BY Same
<1>3. Approval'
  BY <1>2 DEF IInv, Approval
<1>4. Placed' /\ Recorded'
  BY <1>2 DEF IInv, Placed, Work, Recorded
<1>5. Used' = Used
  BY <1>2 DEF Used
<1>6. Counted'
  BY <1>5, Numbers DEF IInv, Counted
<1> QED
  BY <1>1, <1>3, <1>4, <1>6 DEF IInv

LEMMA OtherSteps ==
  ASSUME IInv, Retry \/ Deadline \/ LateRetry \/ CapReached \/ WriteReport
  PROVE  IInv'
<1> USE DEF position, results, backend
<1>1. CASE Retry
  BY <1>1, InPlace, Numbers, RetryAssumption DEF Retry, Send, MayCall, Calling, Running, IInv, TypeOK, Approval
<1>2. CASE Deadline
  BY <1>2, GivenUp DEF Deadline, Fallback, IInv, TypeOK
<1>3. CASE LateRetry
  BY <1>3, InPlace, Numbers DEF LateRetry, MayCall, IInv, TypeOK, Approval
<1>4. CASE CapReached
  <2>1. CASE side # "condense"
    BY <1>4, <2>1, InPlace, Numbers, RetryAssumption DEF CapReached
  <2>2. CASE side = "condense"
    BY <1>4, <2>2, GivenUp DEF CapReached, Fallback
  <2> QED BY <2>1, <2>2
<1>5. CASE WriteReport
  BY <1>5, InPlace, Numbers DEF WriteReport, IInv, TypeOK
<1> QED
  BY <1>1, <1>2, <1>3, <1>4, <1>5

LEMMA NextLegStep ==
  ASSUME IInv, NextLeg
  PROVE  IInv'
<1> USE DEF NextLeg, backend
<1>1. /\ Framed' = Framed /\ Reasoned' = Reasoned /\ Approved' = Approved
      /\ o.candidates \in Nat /\ leg <= o.candidates /\ at = Work + 1
  <2>1. o' = o /\ o \in Options
    BY DEF IInv, TypeOK
  <2>2. Framed' = Framed /\ Reasoned' = Reasoned /\ Approved' = Approved
    BY <2>1, Same
  <2>3. o.candidates \in Nat
    BY <2>1, OfOptions
  <2>4. leg <= o.candidates /\ at > Work /\ at <= Work + 1
    BY DEF IInv, Placed, Running
  <2>5. at = Work + 1
    BY <2>4, Numbers DEF Work
  <2> QED BY <2>2, <2>3, <2>4, <2>5
<1>2. Len(rows) = leg /\ rows \in Seq(Seq(BOOLEAN))
  BY <1>1, Numbers DEF IInv, TypeOK, Recorded
<1>3. /\ rows' \in Seq(Seq(BOOLEAN))
      /\ Len(rows') = IF leg < o.candidates THEN leg + 1 ELSE leg
      /\ \A k \in 1..Len(rows) : rows'[k] = rows[k]
      /\ leg < o.candidates => Len(rows'[leg + 1]) = 0
  <2>1. <<>> \in Seq(BOOLEAN) /\ Len(<<>>) = 0
    OBVIOUS
  <2>2. CASE leg < o.candidates
    BY <1>2, <2>1, <2>2, AppendProperties
  <2>3. CASE ~(leg < o.candidates)
    BY <1>2, <2>3
  <2> QED BY <2>2, <2>3
<1>4. TypeOK'
  BY <1>1, <1>3, Numbers DEF IInv, TypeOK
<1>5. Approval'
  BY <1>1 DEF IInv, Approval
<1>6. Placed'
  BY <1>1, Numbers DEF Placed, Work
<1>7. Used' = Used
  <2>1. leg > 0 => Reasoned * leg = Reasoned * (leg - 1) + Reasoned
    BY Numbers, Times
  <2>2. CASE leg = 0
    <3>1. side # "framed"
      <4>1. ~(at <= Work)
        BY <1>1, <2>2, Numbers DEF Work
      <4> QED BY <4>1 DEF IInv, Placed
    <3>2. at - 1 = Framed /\ leg' = 1 /\ at' = 1 /\ side' = "condense"
      BY <1>1, <2>2, Numbers DEF Work
    <3>3. Used = 2 * Framed
      BY <2>2, <3>1, <3>2, Numbers DEF Used
    <3>4. Used' = 2 * Framed + 2 * (Reasoned * 0)
      <4>1. Used' = 2 * Framed + 2 * (Reasoned * (1 - 1)) + 2 * (1 - 1) + 0
        BY <1>1, <3>2 DEF Used
      <4>2. 1 - 1 = 0 /\ 2 * Framed + 2 * (Reasoned * 0) \in Nat
        BY Numbers
      <4> QED BY <4>1, <4>2, Numbers
    <3> QED BY <3>3, <3>4, Numbers
  <2>3. CASE leg > 0
    <3>1. side = "condense"
      <4>1. side \in {"condense", "answer"}
        BY <2>3, Numbers DEF IInv, TypeOK, Placed
      <4>2. ~(at <= Work)
        BY <1>1, <2>3, Numbers DEF Work
      <4> QED BY <4>1, <4>2 DEF IInv, Placed
    <3>2. Reasoned * (leg - 1) \in Nat /\ Reasoned * leg \in Nat
      <4>1. leg - 1 \in Nat /\ leg \in Nat /\ Reasoned \in Nat
        BY <2>3, Numbers
      <4> QED BY <4>1, Times
    <3>3. at - 1 = Reasoned /\ leg' = leg + 1 /\ at' = 1 /\ side' = "condense"
      BY <1>1, <2>3, Numbers DEF Work
    <3>4. Used = 2 * Framed + 2 * (Reasoned * (leg - 1)) + 2 * Reasoned + 0
      BY <2>3, <3>1, <3>3, Numbers DEF Used
    <3>5. Used' = 2 * Framed + 2 * (Reasoned * leg) + 2 * 0 + 0
      <4>1. Used' = 2 * Framed + 2 * (Reasoned * ((leg + 1) - 1)) + 2 * (1 - 1) + 0
        BY <1>1, <2>3, <3>3, Numbers DEF Used
      <4>2. (leg + 1) - 1 = leg /\ 1 - 1 = 0
        BY Numbers
      <4> QED BY <4>1, <4>2
    <3>6. Framed \in Nat /\ Reasoned \in Nat /\ Reasoned * leg = Reasoned * (leg - 1) + Reasoned
      BY <2>1, <2>3, Numbers
    <3>7. 2 * Framed + 2 * (Reasoned * leg) + 2 * 0 + 0
            = 2 * Framed + 2 * (Reasoned * (leg - 1)) + 2 * Reasoned + 0
      BY <3>2, <3>6, Doubles
    <3> QED BY <3>4, <3>5, <3>7
  <2> QED BY <2>2, <2>3, Numbers
<1>8. Counted'
  BY <1>7 DEF IInv, Counted
<1>9. Recorded'
  <2>1. Len(raw') = Framed'
    BY <1>1, Numbers DEF IInv, Recorded, Work
  <2>2. ASSUME NEW k \in 1..Len(rows')
        PROVE  Len(rows'[k]) = IF k = leg' THEN at' - 1 ELSE Reasoned'
    <3>1. CASE k = leg + 1
      BY <1>1, <1>3, <3>1, <2>2, Numbers
    <3>2. CASE k # leg + 1
      <4>1. k \in 1..Len(rows) /\ rows'[k] = rows[k]
        BY <1>2, <1>3, <2>2, <3>2, Numbers
      <4>2. Len(rows[k]) = Reasoned
        <5>1. k \in Nat /\ k > 0 /\ k <= leg
          BY <1>2, <4>1, Numbers
        <5>2. Len(rows[k]) = IF k = leg THEN at - 1 ELSE Reasoned
          BY <4>1 DEF IInv, Recorded
        <5>3. k = leg => at - 1 = Reasoned
          BY <1>1, <5>1, Numbers DEF Work
        <5> QED BY <5>2, <5>3
      <4> QED BY <1>1, <3>2, <4>1, <4>2
    <3> QED BY <3>1, <3>2
  <2>3. report' # "none" => leg' > o'.candidates
    BY <1>1, Numbers DEF IInv, Recorded
  <2>4. Len(rows') = IF leg' > o'.candidates THEN o'.candidates ELSE leg'
    BY <1>1, <1>3, Numbers
  <2> QED BY <2>1, <2>2, <2>3, <2>4, Numbers DEF Recorded
<1> QED
  BY <1>4, <1>5, <1>6, <1>8, <1>9 DEF IInv

LEMMA Inductive == Spec => []IInv
<1>1. IInv /\ [Next]_vars => IInv'
  <2>1. IInv /\ UNCHANGED vars => IInv'
    BY InPlace, Numbers DEF vars, backend, IInv, TypeOK
  <2> QED BY <2>1, DoneStep, OtherSteps, NextLegStep DEF Next, Step
<1> QED
  BY Initially, <1>1, PTL DEF Spec

-----------------------------------------------------------------------------
(* The types of a run, for any command line. *)
THEOREM EvalTypeCorrect == Spec => []TypeOK
<1>1. IInv => TypeOK
  BY DEF IInv
<1> QED
  BY <1>1, Inductive, PTL

(* No call without an approved run id, and never more than --max-calls, for  *)
(* any case file, any candidates and any number of retries.                  *)
THEOREM CallsApproved == Spec => []OnlyApproved
<1>1. IInv => OnlyApproved
  BY DEF IInv, Approval, Approved, OnlyApproved
<1> QED
  BY <1>1, Inductive, PTL

(* Beyond the approved plan there are only the retries the report counts,    *)
(* those that go on behind a packet that was given up included.              *)
THEOREM CallsOnPlan == Spec => []OnPlan
<1>1. ASSUME IInv PROVE Used <= Planned
  <2>1. /\ Framed \in Nat /\ Reasoned \in Nat /\ o.candidates \in Nat
        /\ leg \in Nat /\ at \in Nat \ {0} /\ leg <= o.candidates + 1
    BY <1>1, Numbers, OfOptions DEF IInv, TypeOK
  <2>2. Reasoned * o.candidates \in Nat
    BY <2>1, Times
  <2>3. CASE leg = 0
    BY <1>1, <2>1, <2>2, <2>3 DEF IInv, Placed, Work, Used, Planned
  <2>4. CASE leg > 0 /\ leg <= o.candidates
    <3>1. Reasoned * (leg - 1) + Reasoned = Reasoned * leg /\ Reasoned * leg <= Reasoned * o.candidates
      BY <2>1, <2>4, Times
    <3>2. Reasoned * (leg - 1) \in Nat /\ Reasoned * leg \in Nat
      BY <2>1, <2>4, Times
    <3>3. 2 * (at - 1) + (IF side = "answer" THEN 1 ELSE 0) <= 2 * Reasoned
      BY <1>1, <2>1, <2>4 DEF IInv, Placed, Work
    <3> QED BY <2>1, <2>2, <2>4, <3>1, <3>2, <3>3 DEF Used, Planned
  <2>5. CASE leg = o.candidates + 1
    <3>1. at = 1 /\ side = "condense"
      BY <1>1, <2>1, <2>5 DEF IInv, Placed
    <3> QED BY <2>1, <2>2, <2>5, <3>1 DEF Used, Planned
  <2> QED BY <2>1, <2>3, <2>4, <2>5
<1>2. ASSUME IInv PROVE OnPlan
  <2>1. Planned \in Nat
    <3>1. Framed \in Nat /\ Reasoned \in Nat /\ o.candidates \in Nat
      BY <1>2, Numbers, OfOptions DEF IInv, TypeOK
    <3>2. Reasoned * o.candidates \in Nat
      BY <3>1, Times
    <3> QED BY <3>1, <3>2 DEF Planned
  <2> QED BY <1>1, <1>2, <2>1, Numbers DEF IInv, Counted, OnPlan
<1> QED
  BY <1>2, Inductive, PTL

(* A report has an answer for every selected case and, for every candidate,  *)
(* a row for every condensed case.                                           *)
THEOREM ReportIsComplete == Spec => []ReportComplete
<1>1. IInv => ReportComplete
  BY Numbers, OfOptions DEF IInv, TypeOK, Recorded, ReportComplete
<1> QED
  BY <1>1, Inductive, PTL

-----------------------------------------------------------------------------
(* Rounding to four places. *)
LEMMA RateRounds ==
  ASSUME NEW n \in Nat, NEW m \in Nat \ {0}
  PROVE  /\ Rate(n, m) \in Int
         /\ (2 * m) * Rate(n, m) <= 20000 * n + m
         /\ 20000 * n + m < (2 * m) * (Rate(n, m) + 1)
<1> DEFINE a == 20000 * n + m
           b == 2 * m
<1>1. a \in Int /\ b \in Int /\ b > 0
  OBVIOUS
<1> HIDE DEF a, b
<1>2. a \div b \in Int /\ b * (a \div b) <= a /\ a < b * ((a \div b) + 1)
  BY <1>1
<1> QED
  BY <1>2 DEF Rate, a, b

(* A common factor. *)
LEMMA Cancels ==
  ASSUME NEW b \in Nat \ {0}, NEW x \in Int, NEW y \in Int, b * x < b * (y + 1)
  PROVE  x <= y
<1> SUFFICES ASSUME x >= y + 1 PROVE FALSE
  OBVIOUS
<1>1. b * x >= b * (y + 1)
  OBVIOUS
<1> QED
  BY <1>1

(* The share of everything is all of it, ... *)
LEMMA RateOfAll == ASSUME NEW m \in Nat \ {0} PROVE Rate(m, m) >= 10000
<1>1. Rate(m, m) \in Int /\ 20000 * m + m < (2 * m) * (Rate(m, m) + 1)
  BY RateRounds
<1>2. (2 * m) * 10000 < (2 * m) * (Rate(m, m) + 1)
  BY <1>1
<1> QED
  BY <1>1, <1>2, Cancels

(* ... no share is less than none, and the rounding keeps the order. *)
LEMMA RateKeepsOrder ==
  ASSUME NEW m \in Nat \ {0}, NEW x \in Nat, NEW y \in Nat, x <= y
  PROVE  Rate(x, m) \in Nat /\ Rate(y, m) \in Nat /\ Rate(x, m) <= Rate(y, m)
<1>1. /\ Rate(x, m) \in Int /\ (2 * m) * Rate(x, m) <= 20000 * x + m
      /\ 20000 * x + m < (2 * m) * (Rate(x, m) + 1)
  BY RateRounds
<1>2. Rate(y, m) \in Int /\ 20000 * y + m < (2 * m) * (Rate(y, m) + 1)
  BY RateRounds
<1>3. (2 * m) * Rate(x, m) < (2 * m) * (Rate(y, m) + 1)
  <2>1. 20000 * x + m <= 20000 * y + m
    OBVIOUS
  <2> HIDE DEF Rate
  <2> QED
    BY <1>1, <1>2, <2>1
<1>4. Rate(x, m) <= Rate(y, m)
  BY <1>1, <1>2, <1>3, Cancels
<1>5. (2 * m) * 0 < (2 * m) * (Rate(x, m) + 1)
  BY <1>1
<1>6. 0 <= Rate(x, m)
  BY <1>1, <1>5, Cancels
<1> QED
  BY <1>1, <1>2, <1>4, <1>6

(* Of two sets of cases the one with more of them is no smaller.             *)
LEMMA CasesFinite ==
  ASSUME TypeOK, NEW S \in SUBSET ReasonerCases
  PROVE  IsFiniteSet(S) /\ Cardinality(S) \in Nat /\ IsFiniteSet(ReasonerCases)
<1>1. DOMAIN o.book = 1..Len(o.book) /\ Len(o.book) \in Nat
  BY OptionsAssumption DEF TypeOK, Option
<1>2. IsFiniteSet(DOMAIN o.book)
  BY <1>1, FS_Interval
<1>3. ReasonerCases \in SUBSET (DOMAIN o.book)
  BY DEF Selected, ReasonerCases
<1>4. IsFiniteSet(ReasonerCases)
  BY <1>2, <1>3, FS_Subset
<1>5. IsFiniteSet(S)
  BY <1>4, FS_Subset
<1> QED
  BY <1>4, <1>5, FS_CardinalityType

(* A candidate that got right what raw got right has the whole share.        *)
LEMMA AllSuffice ==
  ASSUME TypeOK, NEW k, RawCases # {}, \A i \in RawCases : Packet(k, i)
  PROVE  Sufficient(k)
<1>1. RawCases \in SUBSET ReasonerCases
  BY DEF RawCases
<1>2. {i \in RawCases : Packet(k, i)} = RawCases
  OBVIOUS
<1>3. IsFiniteSet(RawCases) /\ Cardinality(RawCases) \in Nat
  BY <1>1, CasesFinite
<1>4. Cardinality(RawCases) # 0
  BY <1>3, FS_EmptySet
<1>5. Rate(Cardinality(RawCases), Cardinality(RawCases)) >= 10000
  BY <1>3, <1>4, RateOfAll
<1>6. Rate(Cardinality(RawCases), Cardinality(RawCases)) \in Int
  BY <1>3, <1>4, RateRounds
<1> QED
  BY <1>2, <1>5, <1>6 DEF Sufficient, Both

(* One that got right what the reference got right is not behind it.         *)
LEMMA NotBehind ==
  ASSUME TypeOK, NEW k, NEW r, \A i \in ReasonerCases : Packet(r, i) => Packet(k, i),
         Successes(r) # 0
  PROVE  10 * Rate(Successes(k), Reasoned) >= 7 * Rate(Successes(r), Reasoned)
<1> DEFINE mine == {i \in ReasonerCases : Packet(k, i)}
           its  == {i \in ReasonerCases : Packet(r, i)}
<1>1. mine \in SUBSET ReasonerCases /\ its \in SUBSET mine /\ its \in SUBSET ReasonerCases
  OBVIOUS
<1>2. /\ IsFiniteSet(mine) /\ Cardinality(mine) \in Nat /\ Cardinality(its) \in Nat
      /\ IsFiniteSet(ReasonerCases) /\ Reasoned \in Nat
  BY <1>1, CasesFinite DEF Reasoned
<1>3. Cardinality(its) <= Cardinality(mine) /\ Cardinality(mine) <= Reasoned
  BY <1>1, <1>2, FS_Subset DEF Reasoned
<1>4. Successes(k) = Cardinality(mine) /\ Successes(r) = Cardinality(its)
  BY DEF Successes
<1>5. /\ Rate(Successes(r), Reasoned) \in Nat /\ Rate(Successes(k), Reasoned) \in Nat
      /\ Rate(Successes(r), Reasoned) <= Rate(Successes(k), Reasoned)
  <2> HIDE DEF mine, its
  <2>1. Reasoned \in Nat \ {0}
    BY <1>2, <1>3, <1>4
  <2> QED
    BY <1>2, <1>3, <1>4, <2>1, RateKeepsOrder
<1> QED
  BY <1>5

(* No candidate is killed for nothing: whatever the rounding of the rates,   *)
(* there is a case it failed and raw, or the reference, did not.             *)
THEOREM KillsFairly == Spec => []KilledFairly
<1>1. TypeOK => KilledFairly
  <2> SUFFICES ASSUME TypeOK, NEW k \in 1..o.candidates, Verdict(k) = "KILL",
                      \A i \in ReasonerCases :
                        Packet(k, i) \/ ~(RawOk(i) \/ (o.reference \notin {0, k} /\ Packet(o.reference, i)))
               PROVE  FALSE
    BY DEF KilledFairly
  <2>1. CASE RawCases # {} /\ ~Sufficient(k)
    <3>1. \A i \in RawCases : Packet(k, i)
      BY DEF RawCases
    <3> QED
      BY <2>1, <3>1, AllSuffice
  <2>2. CASE ~Relative(k)
    <3>1. /\ o.reference \notin {0, k} /\ Successes(o.reference) # 0
          /\ ~(10 * Rate(Successes(k), Reasoned) >= 7 * Rate(Successes(o.reference), Reasoned))
      BY <2>2 DEF Relative
    <3>2. \A i \in ReasonerCases : Packet(o.reference, i) => Packet(k, i)
      BY <3>1
    <3> QED
      BY <3>1, <3>2, NotBehind
  <2>3. (RawCases # {} /\ ~Sufficient(k)) \/ ~Relative(k)
    BY DEF Verdict
  <2> QED
    BY <2>1, <2>2, <2>3
<1> QED
  BY <1>1, EvalTypeCorrect, PTL
=============================================================================
