--------------------------- MODULE RemediationRun ---------------------------
(***************************************************************************)
(* One brownfield run, from the moment its plan rows are stored: the       *)
(* request thread that cuts the plan into Cloud Tasks, the queue that      *)
(* delivers each task at least once, the worker threads that execute a     *)
(* batch, and the two BigQuery tables they share, remediation_plan and     *)
(* remediation_execution.                                                  *)
(*                                                                         *)
(* A plan row is the number of its place in ORDER BY created_at.  What one *)
(* action does to the labels of its resource is the business of            *)
(* LabelWriter; here an action only has an outcome.                        *)
(***************************************************************************)
EXTENDS Integers, FiniteSets

CONSTANTS
  NumPlans,    \* rows planner.create stored for the run
  BatchSize,   \* config.REMEDIATION_BATCH_SIZE
  Orders,      \* the rankings of the rows that ORDER BY created_at may answer
  Slots,       \* threads that can serve a /worker request
  Fate,        \* row -> the outcomes its action can have
  MaxFaults    \* bound on the kills, lost answers, deadlines and failed inserts

Row        == 1..NumPlans
NumBatches == (NumPlans + BatchSize - 1) \div BatchSize
Batch      == 0..(NumBatches - 1)

Outcome    == {"updated", "bypassed", "unsupported", "failed"}
ExecStatus == {"SUCCESS", "FAILED"}
PlanStatus == {"PLANNED", "IN_PROGRESS", "SUCCESS", "FAILED"}
None       == "none"

ASSUME SizeAssumption  == NumPlans \in Nat \ {0} /\ BatchSize \in Nat \ {0}
ASSUME OrderAssumption == Orders # {} /\ Orders \subseteq [Row -> Row]
ASSUME FateAssumption  == Fate \in [Row -> SUBSET Outcome]
ASSUME SlotAssumption  == IsFiniteSet(Slots)
ASSUME FaultAssumption == MaxFaults \in Nat

VARIABLES
  orch,        \* where the /brownfield request is in execute_run
  nextBatch,   \* batch_number of its enqueue loop
  planStatus,  \* remediation_plan.status of every row
  queue,       \* batch -> copies of its task Cloud Tasks still holds
  acked,       \* batches of which Cloud Tasks has seen a 200
  pc,          \* slot -> where its request is in execute_batch
  batch,       \* slot -> the batch it was handed
  lease,       \* slot -> does Cloud Tasks still wait for its answer
  rows,        \* slot -> the rows get_planned_batch returned
  outcome,     \* slot -> row -> result of its action, None before
  unsaved,     \* slot -> rows whose result is not yet in remediation_execution
  evidence,    \* row -> status -> rows in remediation_execution
  ran,         \* row -> statuses its actions have ended with (history)
  completed,   \* has run_status.complete been called
  faults       \* faults so far

orchVars == <<orch, nextBatch>>
taskVars == <<queue, acked>>
slotVars == <<pc, batch, lease, rows, outcome, unsaved>>
vars     == <<orch, nextBatch, planStatus, queue, acked, pc, batch, lease, rows,
              outcome, unsaved, evidence, ran, completed, faults>>

StatusOf(o) == IF o = "failed" THEN "FAILED" ELSE "SUCCESS"

Recorded(r) == \E st \in ExecStatus : evidence[r][st] > 0
Copies(r)   == evidence[r]["SUCCESS"] + evidence[r]["FAILED"]

(***************************************************************************)
(* get_planned_batch: the rows of the run still PLANNED, ordered, LIMIT    *)
(* BatchSize OFFSET off.  The place of a row counts only PLANNED rows.     *)
(***************************************************************************)
Place(order, status, r) ==
  Cardinality({q \in Row : status[q] = "PLANNED" /\ order[q] <= order[r]})

\* Mutant of Page: the offset counts from one.
PageOverlaps(order, status, off) ==
  {r \in Row : /\ status[r] = "PLANNED"
               /\ off <= Place(order, status, r)
               /\ Place(order, status, r) <= off + BatchSize}

Page(order, status, off) ==
  {r \in Row : /\ status[r] = "PLANNED"
               /\ off < Place(order, status, r)
               /\ Place(order, status, r) <= off + BatchSize}

\* The rows batch b stands for when the plan was cut.
RowsOf(b) == {r \in Row : b * BatchSize < r /\ r <= (b + 1) * BatchSize}

\* Mutant of UpdateStatus: the UPDATE that is commented out is back.
UpdateStatusEnabled(status, r, st) == [status EXCEPT ![r] = st]

\* mark_success and mark_failed both end in update_status, which is disabled.
UpdateStatus(status, r, st) == status

IsCompleted == \A r \in Row : planStatus[r] \notin {"PLANNED", "IN_PROGRESS"}

AlreadyExecuted == \E r \in Row : Recorded(r)

-----------------------------------------------------------------------------

TypeOK ==
  /\ orch \in {"planned", "enqueue", "queued", "aborted"}
  /\ nextBatch \in 0..NumBatches
  /\ planStatus \in [Row -> PlanStatus]
  /\ queue \in [Batch -> Nat]
  /\ acked \subseteq Batch
  /\ pc \in [Slots -> {"idle", "read", "act", "save", "check", "respond"}]
  /\ batch \in [Slots -> Batch]
  /\ lease \in [Slots -> BOOLEAN]
  /\ rows \in [Slots -> SUBSET Row]
  /\ outcome \in [Slots -> [Row -> Outcome \cup {None}]]
  /\ unsaved \in [Slots -> SUBSET Row]
  /\ evidence \in [Row -> [ExecStatus -> Nat]]
  /\ ran \in [Row -> SUBSET ExecStatus]
  /\ completed \in BOOLEAN
  /\ faults \in 0..MaxFaults

NoOutcome == [r \in Row |-> None]

Init ==
  /\ orch = "planned"
  /\ nextBatch = 0
  /\ planStatus = [r \in Row |-> "PLANNED"]
  /\ queue = [b \in Batch |-> 0]
  /\ acked = {}
  /\ pc = [s \in Slots |-> "idle"]
  /\ batch = [s \in Slots |-> 0]
  /\ lease = [s \in Slots |-> FALSE]
  /\ rows = [s \in Slots |-> {}]
  /\ outcome = [s \in Slots |-> NoOutcome]
  /\ unsaved = [s \in Slots |-> {}]
  /\ evidence = [r \in Row |-> [st \in ExecStatus |-> 0]]
  /\ ran = [r \in Row |-> {}]
  /\ completed = FALSE
  /\ faults = 0

\* The locals of a request go with it.
Release(s) ==
  /\ pc' = [pc EXCEPT ![s] = "idle"]
  /\ batch' = [batch EXCEPT ![s] = 0]
  /\ lease' = [lease EXCEPT ![s] = FALSE]
  /\ rows' = [rows EXCEPT ![s] = {}]
  /\ outcome' = [outcome EXCEPT ![s] = NoOutcome]
  /\ unsaved' = [unsaved EXCEPT ![s] = {}]

Fault == faults < MaxFaults /\ faults' = faults + 1

-----------------------------------------------------------------------------
(* The orchestrating request.                                              *)

\* execute_run up to its loop.  The run id is fresh, so the RuntimeError of
\* already_executed and the early return for no actions are not reached.
StartRun ==
  /\ orch = "planned"
  /\ ~AlreadyExecuted
  /\ orch' = "enqueue"
  /\ UNCHANGED <<nextBatch, planStatus, taskVars, slotVars, evidence, ran, completed, faults>>

\* Mutant of Enqueue: the number of batches is rounded down.
EnqueueFullBatches ==
  /\ orch = "enqueue"
  /\ queue' = [queue EXCEPT ![nextBatch] = @ + 1]
  /\ nextBatch' = nextBatch + 1
  /\ orch' = IF nextBatch + 1 = NumPlans \div BatchSize THEN "queued" ELSE "enqueue"
  /\ UNCHANGED <<planStatus, acked, slotVars, evidence, ran, completed, faults>>

\* One turn of the loop: create_task answered.
Enqueue ==
  /\ orch = "enqueue"
  /\ queue' = [queue EXCEPT ![nextBatch] = @ + 1]
  /\ nextBatch' = nextBatch + 1
  /\ orch' = IF nextBatch + 1 = NumBatches THEN "queued" ELSE "enqueue"
  /\ UNCHANGED <<planStatus, acked, slotVars, evidence, ran, completed, faults>>

\* The task was created but the answer was lost: retry.Retry() calls again, and
\* an unnamed task is not deduplicated.
EnqueueAnswerLost ==
  /\ orch = "enqueue"
  /\ Fault
  /\ queue' = [queue EXCEPT ![nextBatch] = @ + 1]
  /\ UNCHANGED <<orchVars, planStatus, acked, slotVars, evidence, ran, completed>>

\* The retry gives up, or the request dies: the batches left get no task.
AbortEnqueue ==
  /\ orch \in {"planned", "enqueue"}
  /\ Fault
  /\ orch' = "aborted"
  /\ UNCHANGED <<nextBatch, planStatus, taskVars, slotVars, evidence, ran, completed>>

-----------------------------------------------------------------------------
(* Cloud Tasks: a copy is dispatched to one request at a time, until the    *)
(* dispatch deadline or any answer but a 200 makes it eligible again.       *)

Leased(b) == Cardinality({s \in Slots : lease[s] /\ batch[s] = b})

\* Mutant of Deliver: a batch that has evidence is refused, as a run that has is.
DeliverOnce(s, b) ==
  /\ pc[s] = "idle"
  /\ Leased(b) < queue[b]
  /\ \A r \in RowsOf(b) : ~Recorded(r)
  /\ pc' = [pc EXCEPT ![s] = "read"]
  /\ batch' = [batch EXCEPT ![s] = b]
  /\ lease' = [lease EXCEPT ![s] = TRUE]
  /\ UNCHANGED <<orchVars, planStatus, taskVars, rows, outcome, unsaved,
                 evidence, ran, completed, faults>>

\* POST /worker with a payload that names every field.
Deliver(s, b) ==
  /\ pc[s] = "idle"
  /\ Leased(b) < queue[b]
  /\ pc' = [pc EXCEPT ![s] = "read"]
  /\ batch' = [batch EXCEPT ![s] = b]
  /\ lease' = [lease EXCEPT ![s] = TRUE]
  /\ UNCHANGED <<orchVars, planStatus, taskVars, rows, outcome, unsaved,
                 evidence, ran, completed, faults>>

\* The deadline passes while the request goes on: the copy may go out again.
DeadlinePasses(s) ==
  /\ lease[s]
  /\ Fault
  /\ lease' = [lease EXCEPT ![s] = FALSE]
  /\ UNCHANGED <<orchVars, planStatus, taskVars, pc, batch, rows, outcome, unsaved,
                 evidence, ran, completed>>

-----------------------------------------------------------------------------
(* execute_batch.                                                          *)

\* An empty page is answered at once, with zero counts.
ReadBatch(s) ==
  /\ pc[s] = "read"
  /\ \E order \in Orders :
       LET page == Page(order, planStatus, batch[s] * BatchSize) IN
         /\ rows' = [rows EXCEPT ![s] = page]
         /\ unsaved' = [unsaved EXCEPT ![s] = page]
         /\ pc' = [pc EXCEPT ![s] = IF page = {} THEN "respond" ELSE "act"]
  /\ UNCHANGED <<orchVars, planStatus, taskVars, batch, lease, outcome, evidence, ran,
                 completed, faults>>

\* One future of the pool finishes; the last one ends execute.
Act(s, r) ==
  /\ pc[s] = "act"
  /\ r \in rows[s]
  /\ outcome[s][r] = None
  /\ \E o \in Fate[r] :
       /\ outcome' = [outcome EXCEPT ![s][r] = o]
       /\ ran' = [ran EXCEPT ![r] = @ \cup {StatusOf(o)}]
  /\ pc' = [pc EXCEPT ![s] =
              IF \A q \in rows[s] \ {r} : outcome[s][q] # None THEN "save" ELSE "act"]
  /\ UNCHANGED <<orchVars, planStatus, taskVars, batch, lease, rows, unsaved,
                 evidence, completed, faults>>

\* Mutant of Save: "failed" is counted among the successful results.
SaveOptimistic(s, r) ==
  /\ pc[s] = "save"
  /\ r \in unsaved[s]
  /\ evidence' = [evidence EXCEPT ![r]["SUCCESS"] = @ + 1]
  /\ planStatus' = UpdateStatus(planStatus, r, "SUCCESS")
  /\ unsaved' = [unsaved EXCEPT ![s] = @ \ {r}]
  /\ pc' = [pc EXCEPT ![s] = IF unsaved[s] = {r} THEN "check" ELSE "save"]
  /\ UNCHANGED <<orchVars, taskVars, batch, lease, rows, outcome, ran, completed, faults>>

\* One turn of the loop over the results, in the order they completed.
Save(s, r) ==
  LET st == StatusOf(outcome[s][r]) IN
  /\ pc[s] = "save"
  /\ r \in unsaved[s]
  /\ evidence' = [evidence EXCEPT ![r][st] = @ + 1]
  /\ planStatus' = UpdateStatus(planStatus, r, st)
  /\ unsaved' = [unsaved EXCEPT ![s] = @ \ {r}]
  /\ pc' = [pc EXCEPT ![s] = IF unsaved[s] = {r} THEN "check" ELSE "save"]
  /\ UNCHANGED <<orchVars, taskVars, batch, lease, rows, outcome, ran, completed, faults>>

\* is_completed, and run_status.complete when it holds.
CheckCompleted(s) ==
  /\ pc[s] = "check"
  /\ completed' = (completed \/ IsCompleted)
  /\ pc' = [pc EXCEPT ![s] = "respond"]
  /\ UNCHANGED <<orchVars, planStatus, taskVars, batch, lease, rows, outcome, unsaved,
                 evidence, ran, faults>>

\* Mutant of Respond: an answer after the deadline takes a copy away as well.
RespondLate(s) ==
  /\ pc[s] = "respond"
  /\ queue' = [queue EXCEPT ![batch[s]] = @ - 1]
  /\ acked' = acked \cup {batch[s]}
  /\ Release(s)
  /\ UNCHANGED <<orchVars, planStatus, evidence, ran, completed, faults>>

\* The 200 of the worker removes the copy, if Cloud Tasks still waits for it.
Respond(s) ==
  /\ pc[s] = "respond"
  /\ IF lease[s]
       THEN /\ queue' = [queue EXCEPT ![batch[s]] = @ - 1]
            /\ acked' = acked \cup {batch[s]}
       ELSE UNCHANGED taskVars
  /\ Release(s)
  /\ UNCHANGED <<orchVars, planStatus, evidence, ran, completed, faults>>

\* The request ends without a 200: save raised because the insert was refused,
\* a query failed, or the process was killed.  What it has saved stays.
Fail(s) ==
  /\ pc[s] # "idle"
  /\ Fault
  /\ Release(s)
  /\ UNCHANGED <<orchVars, planStatus, taskVars, evidence, ran, completed>>

-----------------------------------------------------------------------------

Worker(s) ==
  \/ \E b \in Batch : Deliver(s, b)
  \/ ReadBatch(s)
  \/ \E r \in Row : Act(s, r)
  \/ \E r \in Row : Save(s, r)
  \/ CheckCompleted(s)
  \/ Respond(s)

Next ==
  \/ StartRun \/ Enqueue \/ EnqueueAnswerLost \/ AbortEnqueue
  \/ \E s \in Slots : Worker(s) \/ DeadlinePasses(s) \/ Fail(s)

Spec == Init /\ [][Next]_vars

(***************************************************************************)
(* The request thread and the worker threads run; Cloud Tasks goes on      *)
(* dispatching what it holds.  Faults are bounded, and never forced.       *)
(***************************************************************************)
Fairness ==
  /\ WF_vars(StartRun \/ Enqueue)
  /\ \A s \in Slots : WF_vars(Worker(s))

FairSpec == Spec /\ Fairness

-----------------------------------------------------------------------------
(* Properties.                                                             *)

\* A 200 that Cloud Tasks has taken is never a silent loss: every row of that
\* batch has a remediation_execution row, whatever was killed, redelivered or
\* run twice before (execute_batch answers only after its loop over results).
AckedBatchRecorded == \A b \in acked : \A r \in RowsOf(b) : Recorded(r)

\* A run whose tasks were all created and whose queue has drained has evidence
\* for every planned row: the pages of the offsets cover the plan.
DrainedRunCovered ==
  (orch = "queued" /\ \A b \in Batch : queue[b] = 0) => \A r \in Row : Recorded(r)

\* Evidence is written after the fact: each status recorded for a row is one an
\* action on that row ended with, also when two requests run the same batch.
EvidenceBacked ==
  \A r \in Row : \A st \in ExecStatus : evidence[r][st] > 0 => st \in ran[r]

\* No row is recorded more often than once, plus once per fault: without a lost
\* answer, a missed deadline, a failed insert or a kill, execution is exactly
\* once, because pages are disjoint and a leased copy goes to one request.
CopiesBoundedByFaults == \A r \in Row : Copies(r) <= 1 + faults

\* Once every task of the run has been created, every planned row gets evidence.
QueuedRunRecorded == (orch = "queued") ~> (\A r \in Row : Recorded(r))

\* ... and no task stays in the queue, so the retries of Cloud Tasks end.
QueuedRunDrains == (orch = "queued") ~> (\A b \in Batch : queue[b] = 0)

\* Claim of is_completed ("A run is considered complete when there are no PLANNED
\* or IN_PROGRESS actions remaining"), executor.py:144-146: a drained run is
\* marked complete.
DrainedRunMarkedComplete ==
  (orch = "queued" /\ \A b \in Batch : queue[b] = 0) ~> completed


=============================================================================
