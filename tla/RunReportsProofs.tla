-------------------------- MODULE RunReportsProofs --------------------------
(***************************************************************************)
(* The view of remediation_runs is exact, for every plan and any number of *)
(* threads and faults: nothing that repeats or fails makes it lose a row   *)
(* or count one twice.  Without faults the view of get_status agrees.      *)
(***************************************************************************)
EXTENDS RunReports, RemediationRunProofs, CountingTheorems

ReportInv == ReportTypeOK /\ latest \in [Row -> ExecStatus \cup {None}]

\* Watching a run does not change it.
LEMMA ReportsRefineRun == ReportSpec => Spec
<1>1. ReportInit => Init
  BY DEF ReportInit
<1>2. [ReportNext]_reportVars => [Next]_vars
  BY DEF ReportNext, reportVars
<1> QED
  BY <1>1, <1>2, PTL DEF ReportSpec, Spec

\* A step adds to one status of one row, or to none: save writes one result.
LEMMA EvidenceStep ==
  ASSUME TypeOK, [Next]_vars
  PROVE  \/ evidence' = evidence
         \/ \E r \in Row, st \in ExecStatus :
              evidence' = [evidence EXCEPT ![r][st] = @ + 1]
<1>1. CASE \E s \in Slots, q \in Row : Save(s, q)
  BY <1>1 DEF Save, StatusOf, ExecStatus
<1>2. CASE ~\E s \in Slots, q \in Row : Save(s, q)
  BY <1>2 DEF Next, Worker, StartRun, Enqueue, EnqueueAnswerLost, AbortEnqueue, Deliver, ReadBatch,
     Act, CheckCompleted, Respond, DeadlinePasses, Fail, vars
<1> QED
  BY <1>1, <1>2

\* The latest status of a row is one that was written for it, now or before.
LEMMA ReportStep ==
  ASSUME TypeOK, ReportInv, [ReportNext]_reportVars
  PROVE  ReportInv'
<1>1. CASE UNCHANGED reportVars
  BY <1>1 DEF ReportInv, ReportTypeOK, Recorded, reportVars, vars
<1>2. CASE ReportNext
  <2>1. [Next]_vars /\ Stamp
    BY <1>2 DEF ReportNext
  <2>2. CASE evidence' = evidence
    <3>1. \A r \in Row : Gained(r) = {}
      BY <2>2 DEF Gained, TypeOK
    <3>2. latest' = latest
      <4>1. latest' = [r \in Row |-> latest[r]]
        BY <2>1, <3>1 DEF Stamp
      <4> QED
        BY <4>1 DEF ReportInv
    <3> QED
      BY <2>2, <3>2 DEF ReportInv, ReportTypeOK, Recorded
  <2>3. ASSUME NEW q \in Row, NEW st \in ExecStatus,
               evidence' = [evidence EXCEPT ![q][st] = @ + 1]
        PROVE  ReportInv'
    <3>1. /\ evidence'[q][st] = evidence[q][st] + 1
          /\ \A u \in ExecStatus \ {st} : evidence'[q][u] = evidence[q][u]
          /\ \A r \in Row \ {q} : evidence'[r] = evidence[r]
          /\ \A r \in Row, u \in ExecStatus : evidence[r][u] \in Nat
      BY <2>3 DEF TypeOK
    <3>2. Gained(q) = {st}
      BY <3>1 DEF Gained
    <3>3. \A r \in Row \ {q} : Gained(r) = {}
      BY <3>1 DEF Gained
    <3>4. /\ latest' \in [Row -> ExecStatus \cup {None}]
          /\ latest'[q] = st \/ (latest'[q] = latest[q] /\ latest[q] # None)
      BY <2>1, <3>2, <3>3 DEF Stamp, ReportInv
    <3>5. \A r \in Row \ {q} : latest'[r] = latest[r]
      BY <2>1, <3>3 DEF Stamp
    <3>6. Recorded(q)' /\ evidence'[q][latest'[q]] > 0 /\ latest'[q] \in ExecStatus
      <4>1. evidence'[q][st] > 0 /\ Recorded(q)'
        BY <3>1 DEF Recorded
      <4>2. latest[q] # None => latest[q] \in ExecStatus /\ evidence[q][latest[q]] > 0
        BY DEF ReportInv, ReportTypeOK
      <4>3. latest[q] \in ExecStatus /\ evidence[q][latest[q]] > 0 => evidence'[q][latest[q]] > 0
        BY <3>1
      <4> QED
        BY <3>4, <4>1, <4>2, <4>3
    <3>7. \A r \in Row \ {q} : Recorded(r)' = Recorded(r)
      BY <3>1 DEF Recorded
    <3> QED
      BY <3>1, <3>4, <3>5, <3>6, <3>7 DEF ReportInv, ReportTypeOK
  <2> QED
    BY <2>1, <2>2, <2>3, EvidenceStep
<1> QED
  BY <1>1, <1>2

\* Type correctness of the run and of the report, together.
LEMMA ReportInvariant == ReportSpec => [](TypeOK /\ ReportInv)
<1>1. ReportInit => ReportInv
  BY DEF ReportInit, Init, ReportInv, ReportTypeOK, Recorded
<1>2. TypeOK /\ ReportInv /\ [ReportNext]_reportVars => ReportInv'
  BY ReportStep
<1> QED
  BY <1>1, <1>2, ReportsRefineRun, TypeCorrect, PTL DEF ReportSpec

\* The window of remediation_runs never ranks a status nobody wrote, and ranks one
\* for every row that was recorded (report_repository.py, ROW_NUMBER).
THEOREM LatestIsWritten == ReportSpec => []ReportTypeOK
<1>1. ReportInv => ReportTypeOK
  BY DEF ReportInv
<1> QED
  BY <1>1, ReportInvariant, PTL

-----------------------------------------------------------------------------

\* The rows of the plan are those completed, those failed and those unrecorded,
\* each in one of the three sets.
LEMMA RowsAreSplit ==
  ASSUME ReportInv
  PROVE  RunRemaining = Cardinality({r \in Row : ~Recorded(r)})
<1> DEFINE Of(st) == {r \in Row : latest[r] = st}
           Won  == Of("SUCCESS")
           Lost == Of("FAILED")
           Left == {r \in Row : ~Recorded(r)}
<1>1. IsFiniteSet(Row) /\ Cardinality(Row) = NumPlans
  BY SizeAssumption, FS_Interval DEF Row
<1>2. IsFiniteSet(Won) /\ IsFiniteSet(Lost) /\ IsFiniteSet(Left) /\ IsFiniteSet(Won \cup Lost)
  BY <1>1, FS_Subset
<1>3. \A r \in Row : Recorded(r) <=> latest[r] \in ExecStatus
  BY DEF ReportInv, ReportTypeOK, ExecStatus, None
<1>4. Won \cap Lost = {} /\ (Won \cup Lost) \cap Left = {} /\ (Won \cup Lost) \cup Left = Row
  BY <1>3 DEF ExecStatus
<1>5. Cardinality(Won \cup Lost) = Cardinality(Won) + Cardinality(Lost)
  BY <1>2, <1>4, DisjointCount
<1>6. Cardinality(Row) = Cardinality(Won \cup Lost) + Cardinality(Left)
  BY <1>2, <1>4, DisjointCount
<1>7. /\ Cardinality(Won) \in Nat /\ Cardinality(Lost) \in Nat /\ Cardinality(Left) \in Nat
  BY <1>2, FS_CardinalityType
<1>8. RunRemaining = NumPlans - Cardinality(Won) - Cardinality(Lost)
  BY DEF RunRemaining, RunCompleted, RunFailed, LatestIs
<1>9. NumPlans = Cardinality(Won) + Cardinality(Lost) + Cardinality(Left)
  BY <1>1, <1>5, <1>6
<1> HIDE DEF Won, Lost, Left
<1>10. RunRemaining = Cardinality(Left)
  BY <1>7, <1>8, <1>9
<1> QED
  BY <1>10 DEF Left

\* What the report says is left is what has no execution row, however often a batch
\* was executed and in whatever order its rows arrived.
THEOREM RemainingIsExact == ReportSpec => []RemainingIsUnrecorded
<1>1. ReportInv => RemainingIsUnrecorded
  BY RowsAreSplit DEF RemainingIsUnrecorded
<1> QED
  BY <1>1, ReportInvariant, PTL

\* The count of unrecorded rows only falls, because evidence is append-only.
LEMMA RemainingStep ==
  ASSUME TypeOK, ReportInv, ReportInv', [ReportNext]_reportVars
  PROVE  RunRemaining' <= RunRemaining
<1> DEFINE Left == {r \in Row : ~Recorded(r)}
<1>1. [Next]_vars
  BY DEF ReportNext, reportVars
<1>2. Left' \subseteq Left
  BY <1>1, RecordedStays
<1>3. IsFiniteSet(Left)
  <2>1. IsFiniteSet(Row)
    BY SizeAssumption, FS_Interval DEF Row
  <2> QED
    BY <2>1, FS_Subset
<1>4. Cardinality(Left') <= Cardinality(Left)
  BY <1>2, <1>3, FS_Subset
<1>5. RunRemaining = Cardinality(Left)
  BY RowsAreSplit
<1>6. (RunRemaining = Cardinality(Left))'
  BY RowsAreSplit, PTL
<1> QED
  BY <1>4, <1>5, <1>6

\* The remaining count of a run never rises again, though a repeated batch may turn
\* a completed row into a failed one, and a late row may turn it back.
THEOREM RemainingOnlyFalls == ReportSpec => RemainingNeverRises
<1>1. /\ TypeOK /\ ReportInv /\ ReportInv' /\ [ReportNext]_reportVars
      => [RunRemaining' <= RunRemaining]_reportVars
  BY RemainingStep
<1> QED
  BY <1>1, ReportInvariant, PTL DEF ReportSpec, RemainingNeverRises

-----------------------------------------------------------------------------
(***************************************************************************)
(* The two views.  Without a fault no row has more than one execution, so  *)
(* that the sum of executions which get_status takes for progress counts   *)
(* the rows that have one.                                                 *)
(***************************************************************************)

\* Without a fault, both views count the rows that have an execution.
LEMMA ViewsAgree ==
  ASSUME TypeOK, ReportInv, CopiesBoundedByFaults, faults = 0
  PROVE  /\ (RunStatus = "COMPLETED") = (\A r \in Row : Recorded(r))
         /\ StatusRemaining = RunRemaining
<1> DEFINE copies == [r \in Row |-> Copies(r)]
           Done == {r \in Row : Recorded(r)}
           Left == {r \in Row : ~Recorded(r)}
<1>1. IsFiniteSet(Row) /\ Cardinality(Row) = NumPlans /\ NumPlans \in Nat \ {0}
  BY SizeAssumption, FS_Interval DEF Row
<1>2. \A r \in Row : Copies(r) \in {0, 1} /\ (Copies(r) = 1 <=> Recorded(r))
  <2> SUFFICES ASSUME NEW r \in Row
               PROVE  Copies(r) \in {0, 1} /\ (Copies(r) = 1 <=> Recorded(r))
    OBVIOUS
  <2>1. evidence[r]["SUCCESS"] \in Nat /\ evidence[r]["FAILED"] \in Nat
    BY DEF TypeOK, ExecStatus
  <2>2. evidence[r]["SUCCESS"] + evidence[r]["FAILED"] <= 1
    BY DEF CopiesBoundedByFaults, Copies
  <2>3. Recorded(r) <=> evidence[r]["SUCCESS"] > 0 \/ evidence[r]["FAILED"] > 0
    BY DEF Recorded, ExecStatus
  <2> QED BY <2>1, <2>2, <2>3 DEF Copies
<1>3. StatusProcessed = Cardinality(Done)
  <2>1. StatusProcessed = SumFunctionOnSet(copies, Row)
    BY DEF StatusProcessed, SumFunction
  <2>2. \A r \in Row : copies[r] \in {0, 1}
    BY <1>2
  <2>3. SumFunctionOnSet(copies, Row) = Cardinality({r \in Row : copies[r] = 1})
    <3> HIDE DEF copies
    <3> QED BY <1>1, <2>2, SumOfBits
  <2>4. {r \in Row : copies[r] = 1} = Done
    BY <1>2
  <2> QED BY <2>1, <2>3, <2>4
<1>4. StatusPlanned = NumPlans
  <2>1. {r \in Row : planStatus[r] \in PlanStatus} = Row
    BY DEF TypeOK
  <2> QED BY <1>1, <2>1 DEF StatusPlanned
<1>5. IsFiniteSet(Done) /\ IsFiniteSet(Left) /\ Cardinality(Done) \in Nat /\ Cardinality(Left) \in Nat
  BY <1>1, FS_Subset, FS_CardinalityType
<1>6. NumPlans = Cardinality(Done) + Cardinality(Left)
  <2>1. Done \cup Left = Row /\ Done \cap Left = {}
    OBVIOUS
  <2> HIDE DEF Done, Left
  <2> QED BY <1>1, <1>5, <2>1, DisjointCount
<1>7. RunRemaining = Cardinality(Left)
  BY RowsAreSplit
<1>8. Cardinality(Left) = 0 <=> \A r \in Row : Recorded(r)
  <2>1. Cardinality(Left) = 0 <=> Left = {}
    BY <1>5, FS_EmptySet
  <2> QED BY <2>1
<1>9. StatusRemaining = Cardinality(Left)
  <2> HIDE DEF Done, Left
  <2> QED BY <1>3, <1>4, <1>5, <1>6 DEF StatusRemaining
<1>10. (RunStatus = "COMPLETED") = (StatusRemaining = 0)
  BY <1>1, <1>4 DEF RunStatus
<1> QED
  BY <1>7, <1>8, <1>9, <1>10

\* As long as nothing goes wrong, get_status and remediation_runs tell the same of a
\* run, and what they tell is what the evidence says.
THEOREM ViewsAgreeWhenCalm ==
  ASSUME DistinctStamps
  PROVE  ReportSpec => []ViewsAgreeWithoutFaults
<1>1. TypeOK /\ ReportInv /\ CopiesBoundedByFaults => ViewsAgreeWithoutFaults
  BY ViewsAgree DEF ViewsAgreeWithoutFaults
<1> QED
  BY <1>1, ReportInvariant, ReportsRefineRun, CopiesNeedFaults, PTL

=============================================================================
