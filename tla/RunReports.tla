----------------------------- MODULE RunReports -----------------------------
(***************************************************************************)
(* The two views of a run that the API offers while RemediationRun is      *)
(* under way: get_status (GET /runs/<run_id>), which counts                *)
(* remediation_execution rows, and remediation_runs (GET /reports/runs),   *)
(* which counts each resource once, by its latest row.  remediation_plan   *)
(* never changes during a run, so the two queries of a view read one state.*)
(***************************************************************************)
EXTENDS RemediationRun, Functions

VARIABLE latest    \* row -> status of its row with the greatest executed_at, None before

reportVars == <<vars, latest>>

\* The status row r has gained in this step, if it has gained one.
Gained(r) == {st \in ExecStatus : evidence'[r][st] > evidence[r][st]}

\* Mutant of Stamp: only a first success is stamped.
StampOnce == latest' = [r \in Row |-> IF latest[r] # None \/ Gained(r) # {"SUCCESS"}
                                      THEN latest[r] ELSE "SUCCESS"]

\* save takes executed_at before it inserts the row, on the clock of its instance: a row
\* may be overtaken, and then comes in behind one that is there.
Stamp ==
  \E overtaken \in BOOLEAN :
    latest' = [r \in Row |->
                 IF Gained(r) = {} \/ (overtaken /\ latest[r] # None) THEN latest[r]
                 ELSE CHOOSE st \in Gained(r) : TRUE]

ReportInit == Init /\ latest = [r \in Row |-> None]
ReportNext == Next /\ Stamp
ReportSpec == ReportInit /\ [][ReportNext]_reportVars

\* Stamp disables no step, so the fairness of the run carries over.
FairReportSpec == ReportSpec /\ Fairness

-----------------------------------------------------------------------------
(* RunStatusService.get_status.                                            *)

StatusPlanned   == Cardinality({r \in Row : planStatus[r] \in PlanStatus})
\* Mutant of StatusProcessed: failed rows are left out of the sum.
StatusSucceeded == SumFunction([r \in Row |-> evidence[r]["SUCCESS"]])

StatusProcessed == SumFunction([r \in Row |-> Copies(r)])
StatusRemaining == IF StatusPlanned > StatusProcessed
                     THEN StatusPlanned - StatusProcessed ELSE 0
RunStatus ==
  IF StatusPlanned = 0 THEN "EMPTY"
  ELSE IF StatusRemaining = 0 THEN "COMPLETED" ELSE "RUNNING"

-----------------------------------------------------------------------------
(* ReportRepository.remediation_runs, for this run.                        *)

\* Mutant of LatestIs: without ROW_NUMBER every execution counts.
ExecutionsAre(st) == SumFunction([r \in Row |-> evidence[r][st]])

LatestIs(st)    == Cardinality({r \in Row : latest[r] = st})
RunCompleted    == LatestIs("SUCCESS")
RunFailed       == LatestIs("FAILED")
\* Mutant of RunRemaining: failed rows count as work to do.
RunUnfinished   == NumPlans - RunCompleted

RunRemaining    == NumPlans - RunCompleted - RunFailed

-----------------------------------------------------------------------------
(* Properties.                                                             *)

\* A row has a latest status exactly when it was recorded, and that status is one of
\* its rows: the window of remediation_runs never ranks a status nobody wrote.
ReportTypeOK ==
  \A r \in Row : latest[r] \in IF Recorded(r) THEN {st \in ExecStatus : evidence[r][st] > 0}
                                ELSE {None}

\* remediation_runs tells what is left of the run exactly, however often a batch
\* was executed: ROW_NUMBER over (run_id, resource_name) drops the copies.
RemainingIsUnrecorded ==
  RunRemaining = Cardinality({r \in Row : ~Recorded(r)})

\* ... so the remaining count never rises again, though a repeated batch may turn a
\* completed row into a failed one, and a late row of the first may turn it back.
RemainingNeverRises == [][RunRemaining' <= RunRemaining]_reportVars

\* As long as nothing goes wrong, the two views agree that the run is over, and
\* they agree with the evidence.
ViewsAgreeWithoutFaults ==
  faults = 0 => /\ (RunStatus = "COMPLETED") = (\A r \in Row : Recorded(r))
                /\ StatusRemaining = RunRemaining

\* Claim of docs/BROWNFIELD.md:989 ("Operational reporting must distinguish
\* orchestration completion from successful completion of all asynchronous worker
\* batches"): a run reported COMPLETED by get_status has evidence for every row.
CompletedMeansEveryRow ==
  RunStatus = "COMPLETED" => \A r \in Row : Recorded(r)

=============================================================================
