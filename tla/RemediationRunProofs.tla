------------------------ MODULE RemediationRunProofs ------------------------
(***************************************************************************)
(* RemediationRun, for every plan, batch size, number of threads and       *)
(* number of faults.                                                       *)
(***************************************************************************)
EXTENDS RemediationRunImpl, FiniteSetTheorems, TLAPS

\* Leases are held by requests, and never outnumber the copies in the queue.
LeaseInv ==
  /\ \A s \in Slots : lease[s] => pc[s] # "idle"
  /\ \A b \in Batch : Leased(b) <= queue[b]

\* Where the loop of execute_run stands.
LoopInv ==
  /\ orch \in {"planned", "enqueue"} => nextBatch < NumBatches
  /\ orch = "queued" => nextBatch = NumBatches

TypeInv == TypeOK /\ LeaseInv /\ LoopInv

-----------------------------------------------------------------------------

\* A stored plan is cut into at least one batch (math.ceil in execute_run).
LEMMA BatchCount == NumBatches \in Nat \ {0}
  BY SizeAssumption DEF NumBatches

\* The batches cover the plan: every row is in one of them.
LEMMA BatchOfRow ==
  ASSUME NEW r \in Row
  PROVE  \E b \in Batch : r \in RowsOf(b)
<1> DEFINE b == (r - 1) \div BatchSize
<1>1. b \in Nat /\ b * BatchSize <= r - 1 /\ r - 1 < (b + 1) * BatchSize
  BY SizeAssumption DEF Row
<1>2. b < NumBatches
  BY <1>1, SizeAssumption DEF Row, NumBatches
<1>3. b \in Batch
  BY <1>1, <1>2, BatchCount DEF Batch
<1>4. r \in RowsOf(b)
  BY <1>1, SizeAssumption DEF RowsOf, Row
<1> QED
  BY <1>3, <1>4

LeaseSet(b) == {s \in Slots : lease[s] /\ batch[s] = b}

\* The leases of a batch are finitely many, and Leased counts them.
LEMMA LeasedIsCount ==
  ASSUME NEW b \in Batch
  PROVE  /\ IsFiniteSet(LeaseSet(b))
         /\ Leased(b) = Cardinality(LeaseSet(b))
         /\ Leased(b) \in Nat
<1>1. LeaseSet(b) \subseteq Slots
  BY DEF LeaseSet
<1>2. IsFiniteSet(LeaseSet(b))
  BY <1>1, SlotAssumption, FS_Subset
<1>3. Leased(b) = Cardinality(LeaseSet(b))
  BY DEF Leased, LeaseSet
<1> QED
  BY <1>2, <1>3, FS_CardinalityType

\* Dropping leases never makes a batch more leased.
LEMMA FewerLeases ==
  ASSUME NEW b \in Batch, IsFiniteSet(LeaseSet(b)), LeaseSet(b)' \subseteq LeaseSet(b)
  PROVE  Leased(b)' \in Nat /\ Leased(b)' <= Leased(b)
<1>1. IsFiniteSet(LeaseSet(b)') /\ Cardinality(LeaseSet(b)') <= Cardinality(LeaseSet(b))
  BY FS_Subset
<1>2. Cardinality(LeaseSet(b)') \in Nat
  BY <1>1, FS_CardinalityType
<1> QED
  BY <1>1, <1>2 DEF Leased, LeaseSet

\* A delivery takes one of the copies that no request holds.
LEMMA DeliverKeepsType ==
  ASSUME TypeInv, NEW s \in Slots, NEW b \in Batch, Deliver(s, b)
  PROVE  TypeInv'
<1>1. TypeOK' /\ LoopInv'
  BY DEF TypeInv, TypeOK, LoopInv, Deliver, orchVars, taskVars
<1>2. \A t \in Slots : lease'[t] => pc'[t] # "idle"
  BY DEF TypeInv, TypeOK, LeaseInv, Deliver
<1>3. ASSUME NEW c \in Batch PROVE Leased(c)' <= queue'[c]
  <2>0. queue' = queue /\ ~lease[s]
    BY DEF Deliver, taskVars, TypeInv, LeaseInv
  <2>1. CASE c = b
    <3>1. LeaseSet(b)' = LeaseSet(b) \cup {s}
      BY <2>0 DEF LeaseSet, Deliver, TypeInv, TypeOK
    <3>2. s \notin LeaseSet(b)
      BY <2>0 DEF LeaseSet
    <3>3. Cardinality(LeaseSet(b)') = Leased(b) + 1
      BY <3>1, <3>2, LeasedIsCount, FS_AddElement
    <3>4. Leased(b) < queue[b] /\ queue[b] \in Nat
      BY DEF Deliver, TypeInv, TypeOK
    <3>5. Leased(b)' = Cardinality(LeaseSet(b)')
      BY DEF Leased, LeaseSet
    <3> QED
      BY <2>0, <2>1, <3>3, <3>4, <3>5, LeasedIsCount
  <2>2. CASE c # b
    <3>1. LeaseSet(c)' = LeaseSet(c)
      BY <2>0, <2>2 DEF LeaseSet, Deliver, TypeInv, TypeOK
    <3>2. Leased(c)' = Leased(c)
      BY <3>1 DEF Leased, LeaseSet
    <3> QED
      BY <2>0, <3>2 DEF TypeInv, LeaseInv
  <2> QED
    BY <2>1, <2>2
<1> QED
  BY <1>1, <1>2, <1>3 DEF TypeInv, LeaseInv

\* An answer in time removes the copy that was leased; a late one removes none.
LEMMA RespondKeepsType ==
  ASSUME TypeInv, NEW s \in Slots, Respond(s)
  PROVE  TypeInv'
<1>0. PICK b \in Batch : b = batch[s]
  BY DEF TypeInv, TypeOK
<1>1. \A t \in Slots : lease'[t] => pc'[t] # "idle"
  BY DEF TypeInv, TypeOK, LeaseInv, Respond, Release
<1>2. \A c \in Batch : LeaseSet(c)' = LeaseSet(c) \ {s}
  BY DEF LeaseSet, Respond, Release, TypeInv, TypeOK
<1>3. \A c \in Batch : Leased(c) \in Nat /\ Leased(c)' \in Nat /\ Leased(c)' <= Leased(c)
  BY <1>2, LeasedIsCount, FewerLeases
<1>z. 0 \in Batch
  BY BatchCount DEF Batch
<1>4. CASE ~lease[s]
  <2>1. queue' = queue /\ acked' = acked
    BY <1>4 DEF Respond, taskVars
  <2>2. \A c \in Batch : Leased(c)' <= queue'[c]
    BY <1>3, <2>1 DEF TypeInv, TypeOK, LeaseInv
  <2>3. TypeOK' /\ LoopInv'
    BY <2>1, <1>z DEF TypeInv, TypeOK, LoopInv, Respond, Release, NoOutcome, None, orchVars
  <2> QED
    BY <1>1, <2>2, <2>3 DEF TypeInv, LeaseInv
<1>5. CASE lease[s]
  <2>1. queue' = [queue EXCEPT ![b] = @ - 1] /\ acked' = acked \cup {b}
    BY <1>0, <1>5 DEF Respond
  <2>2. s \in LeaseSet(b)
    BY <1>0, <1>5 DEF LeaseSet
  <2>3. Cardinality(LeaseSet(b)') = Leased(b) - 1
    BY <1>2, <2>2, LeasedIsCount, FS_RemoveElement
  <2>4. Leased(b)' = Leased(b) - 1
    BY <2>3 DEF Leased, LeaseSet
  <2>5. queue[b] > 0
    BY <1>3, <2>4 DEF TypeInv, TypeOK, LeaseInv
  <2>6. TypeOK' /\ LoopInv'
    BY <2>1, <2>5, <1>z DEF TypeInv, TypeOK, LoopInv, Respond, Release, NoOutcome, None, orchVars
  <2>7. \A c \in Batch : Leased(c)' <= queue'[c]
    BY <1>3, <2>1, <2>4 DEF TypeInv, TypeOK, LeaseInv
  <2> QED
    BY <1>1, <2>6, <2>7 DEF TypeInv, LeaseInv
<1> QED
  BY <1>4, <1>5

\* A kill or a missed deadline gives a lease back and leaves the queue alone.
LEMMA FailKeepsType ==
  ASSUME TypeInv, NEW s \in Slots, Fail(s) \/ DeadlinePasses(s)
  PROVE  TypeInv'
<1>1. \A t \in Slots : lease'[t] => pc'[t] # "idle"
  BY DEF TypeInv, TypeOK, LeaseInv, Fail, DeadlinePasses, Release
<1>2. \A c \in Batch : LeaseSet(c)' = LeaseSet(c) \ {s}
  BY DEF LeaseSet, Fail, DeadlinePasses, Release, TypeInv, TypeOK
<1>3. \A c \in Batch : Leased(c) \in Nat /\ Leased(c)' \in Nat /\ Leased(c)' <= Leased(c)
  BY <1>2, LeasedIsCount, FewerLeases
<1>4. queue' = queue
  BY DEF Fail, DeadlinePasses, taskVars
<1>5. \A c \in Batch : Leased(c)' <= queue'[c]
  BY <1>3, <1>4 DEF TypeInv, TypeOK, LeaseInv
<1>6. 0 \in Batch
  BY BatchCount DEF Batch
<1>7. TypeOK' /\ LoopInv'
  <2>1. faults' \in 0..MaxFaults
    BY FaultAssumption DEF TypeInv, TypeOK, Fail, DeadlinePasses, Fault
  <2>2. CASE Fail(s)
    BY <1>6, <2>1, <2>2 DEF TypeInv, TypeOK, LoopInv, Fail, Release, NoOutcome, orchVars, taskVars
  <2>3. CASE DeadlinePasses(s)
    BY <2>1, <2>3 DEF TypeInv, TypeOK, LoopInv, DeadlinePasses, orchVars, taskVars
  <2> QED
    BY <2>2, <2>3
<1> QED
  BY <1>1, <1>5, <1>7 DEF TypeInv, LeaseInv

\* The requests of the threads that leave queue and leases alone.
LEMMA BodyKeepsType ==
  ASSUME TypeInv, NEW s \in Slots,
         ReadBatch(s) \/ (\E r \in Row : Act(s, r)) \/ (\E r \in Row : Save(s, r)) \/ CheckCompleted(s)
  PROVE  TypeInv'
<1>1. queue' = queue /\ lease' = lease /\ batch' = batch /\ orch' = orch /\ nextBatch' = nextBatch
  BY DEF ReadBatch, Act, Save, CheckCompleted, taskVars, orchVars
<1>2. \A c \in Batch : Leased(c)' = Leased(c)
  BY <1>1 DEF Leased
<1>3. \A t \in Slots : lease'[t] => pc'[t] # "idle"
  BY <1>1 DEF TypeInv, TypeOK, LeaseInv, ReadBatch, Act, Save, CheckCompleted
<1>4. TypeOK'
  <2>1. CASE ReadBatch(s)
    BY <2>1 DEF TypeInv, TypeOK, ReadBatch, Page, orchVars, taskVars
  <2>2. ASSUME NEW r \in Row, Act(s, r) PROVE TypeOK'
    <3>1. PICK o \in Fate[r] : /\ outcome' = [outcome EXCEPT ![s][r] = o]
                               /\ ran' = [ran EXCEPT ![r] = @ \cup {StatusOf(o)}]
      BY <2>2 DEF Act
    <3>2. o \in Outcome /\ StatusOf(o) \in ExecStatus
      BY FateAssumption DEF StatusOf, ExecStatus
    <3>3. /\ outcome' \in [Slots -> [Row -> Outcome \cup {None}]]
          /\ ran' \in [Row -> SUBSET ExecStatus]
      BY <3>1, <3>2 DEF TypeInv, TypeOK
    <3>4. pc' \in [Slots -> {"idle", "read", "act", "save", "check", "respond"}]
      BY <2>2 DEF TypeInv, TypeOK, Act
    <3> QED
      BY <2>2, <3>3, <3>4 DEF TypeInv, TypeOK, Act, orchVars, taskVars
  <2>3. CASE \E r \in Row : Save(s, r)
    BY <2>3 DEF TypeInv, TypeOK, Save, orchVars, taskVars, StatusOf, ExecStatus, UpdateStatus
  <2>4. CASE CheckCompleted(s)
    BY <2>4 DEF TypeInv, TypeOK, CheckCompleted, IsCompleted, orchVars, taskVars
  <2> QED
    BY <2>1, <2>2, <2>3, <2>4
<1> QED
  BY <1>1, <1>2, <1>3, <1>4 DEF TypeInv, LeaseInv, LoopInv

\* The enqueue loop stops at the last batch, and only adds copies.
LEMMA OrchestratorKeepsType ==
  ASSUME TypeInv, StartRun \/ Enqueue \/ EnqueueAnswerLost \/ AbortEnqueue
  PROVE  TypeInv'
<1>1. \A c \in Batch : Leased(c)' = Leased(c) /\ Leased(c) \in Nat
  BY LeasedIsCount DEF Leased, StartRun, Enqueue, EnqueueAnswerLost, AbortEnqueue, slotVars
<1>2. \A t \in Slots : lease'[t] => pc'[t] # "idle"
  BY DEF TypeInv, LeaseInv, StartRun, Enqueue, EnqueueAnswerLost, AbortEnqueue, slotVars
<1>3. \A c \in Batch : queue'[c] >= queue[c] /\ queue'[c] \in Nat
  BY DEF TypeInv, TypeOK, StartRun, Enqueue, EnqueueAnswerLost, AbortEnqueue, taskVars
<1>4. \A c \in Batch : Leased(c)' <= queue'[c]
  BY <1>1, <1>3 DEF TypeInv, TypeOK, LeaseInv
<1>5. TypeOK' /\ LoopInv'
  <2>1. CASE StartRun
    BY <2>1 DEF TypeInv, TypeOK, LoopInv, StartRun, slotVars, taskVars
  <2>2. CASE Enqueue
    BY <2>2, BatchCount DEF TypeInv, TypeOK, LoopInv, Batch, Enqueue, slotVars
  <2>3. CASE EnqueueAnswerLost
    <3>1. faults' \in 0..MaxFaults
      BY <2>3, FaultAssumption DEF TypeInv, TypeOK, EnqueueAnswerLost, Fault
    <3> QED
      BY <2>3, <3>1, BatchCount
         DEF TypeInv, TypeOK, LoopInv, Batch, EnqueueAnswerLost, slotVars, orchVars
  <2>4. CASE AbortEnqueue
    <3>1. faults' \in 0..MaxFaults
      BY <2>4, FaultAssumption DEF TypeInv, TypeOK, AbortEnqueue, Fault
    <3> QED
      BY <2>4, <3>1 DEF TypeInv, TypeOK, LoopInv, AbortEnqueue, slotVars, taskVars
  <2> QED
    BY <2>1, <2>2, <2>3, <2>4
<1> QED
  BY <1>2, <1>4, <1>5 DEF TypeInv, LeaseInv

\* The inductive invariant of the types: no batch is delivered more often than it
\* has copies, so that the queue never counts below zero.
LEMMA TypeInvariant == Spec => []TypeInv
<1>1. Init => TypeInv
  <2> SUFFICES ASSUME Init PROVE TypeInv
    OBVIOUS
  <2>1. 0 \in Batch /\ 0 < NumBatches
    BY BatchCount DEF Batch
  <2>2. TypeOK
    <3>1. outcome \in [Slots -> [Row -> Outcome \cup {None}]]
      BY DEF Init, NoOutcome
    <3>2. planStatus \in [Row -> PlanStatus] /\ evidence \in [Row -> [ExecStatus -> Nat]]
      BY DEF Init, PlanStatus
    <3>3. /\ orch \in {"planned", "enqueue", "queued", "aborted"}
          /\ nextBatch \in 0..NumBatches
          /\ faults \in 0..MaxFaults
          /\ acked \subseteq Batch
      BY BatchCount, FaultAssumption DEF Init
    <3>5. completed \in BOOLEAN
      BY DEF Init
    <3>4. /\ queue \in [Batch -> Nat]
          /\ pc \in [Slots -> {"idle", "read", "act", "save", "check", "respond"}]
          /\ batch \in [Slots -> Batch]
          /\ lease \in [Slots -> BOOLEAN]
          /\ rows \in [Slots -> SUBSET Row]
          /\ unsaved \in [Slots -> SUBSET Row]
          /\ ran \in [Row -> SUBSET ExecStatus]
      BY <2>1 DEF Init
    <3> QED
      BY <3>1, <3>2, <3>3, <3>4, <3>5 DEF TypeOK
  <2>5. LoopInv
    BY <2>1 DEF Init, LoopInv
  <2>3. \A b \in Batch : LeaseSet(b) = {}
    BY DEF Init, LeaseSet
  <2>4. \A b \in Batch : Leased(b) = 0
    BY <2>3, LeasedIsCount, FS_EmptySet
  <2> QED
    BY <2>2, <2>4, <2>5 DEF TypeInv, LeaseInv, Init, TypeOK
<1>2. TypeInv /\ [Next]_vars => TypeInv'
  <2> SUFFICES ASSUME TypeInv, [Next]_vars PROVE TypeInv'
    OBVIOUS
  <2>1. CASE StartRun \/ Enqueue \/ EnqueueAnswerLost \/ AbortEnqueue
    BY <2>1, OrchestratorKeepsType
  <2>2. ASSUME NEW s \in Slots, Worker(s) \/ DeadlinePasses(s) \/ Fail(s)
        PROVE  TypeInv'
    BY <2>2, DeliverKeepsType, RespondKeepsType, FailKeepsType, BodyKeepsType DEF Worker
  <2>3. CASE UNCHANGED vars
    BY <2>3 DEF vars, TypeInv, TypeOK, LeaseInv, LoopInv, Leased
  <2> QED
    BY <2>1, <2>2, <2>3 DEF Next
<1> QED
  BY <1>1, <1>2, PTL DEF Spec

\* Every variable keeps its type, the copies in the queue above all: no answer is
\* counted twice.
THEOREM TypeCorrect == Spec => []TypeOK
  BY TypeInvariant, PTL DEF TypeInv

-----------------------------------------------------------------------------
(***************************************************************************)
(* Nothing is lost silently.  The argument follows a batch through its     *)
(* request: the page read for an offset is the batch the plan was cut      *)
(* into, because no row ever stops being PLANNED and created_at orders the *)
(* rows in one way; a row leaves unsaved only with its evidence; and a 200 *)
(* comes after the last one.                                               *)
(***************************************************************************)

\* No two rows have the same created_at: ORDER BY has one answer.
DistinctStamps == Orders = {[r \in Row |-> r]}

BatchInv ==
  /\ planStatus = [r \in Row |-> "PLANNED"]
  /\ \A s \in Slots :
       /\ pc[s] \in {"act", "save"} => rows[s] = RowsOf(batch[s])
       /\ pc[s] = "act" => unsaved[s] = rows[s]
       /\ pc[s] = "save" => \A r \in RowsOf(batch[s]) \ unsaved[s] : Recorded(r)
       /\ pc[s] \in {"check", "respond"} => \A r \in RowsOf(batch[s]) : Recorded(r)
  /\ AckedBatchRecorded
  /\ \A b \in Batch : b < nextBatch => queue[b] > 0 \/ b \in acked

\* While every row is PLANNED, the place of a row is its number.
LEMMA PlaceInFullPlan ==
  ASSUME NEW r \in Row
  PROVE  Place([q \in Row |-> q], [q \in Row |-> "PLANNED"], r) = r
<1>1. {q \in Row : /\ [p \in Row |-> "PLANNED"][q] = "PLANNED"
                   /\ [p \in Row |-> p][q] <= [p \in Row |-> p][r]} = 1..r
  BY SizeAssumption DEF Row
<1>2. Cardinality(1..r) = r
  BY FS_Interval DEF Row
<1> QED
  BY <1>1, <1>2 DEF Place

\* LIMIT and OFFSET cut the plan exactly as execute_run numbered it.
LEMMA PageIsBatch ==
  ASSUME NEW b \in Batch
  PROVE  Page([q \in Row |-> q], [q \in Row |-> "PLANNED"], b * BatchSize) = RowsOf(b)
<1>1. b \in Nat /\ (b + 1) * BatchSize = b * BatchSize + BatchSize
  BY SizeAssumption DEF Batch
<1> QED
  BY <1>1, PlaceInFullPlan DEF Page, RowsOf

\* Evidence is append-only.
LEMMA RecordedStays ==
  ASSUME TypeOK, [Next]_vars, NEW r \in Row, Recorded(r)
  PROVE  Recorded(r)'
<1>1. CASE \E s \in Slots, q \in Row : Save(s, q)
  <2>1. PICK s \in Slots, q \in Row : Save(s, q)
    BY <1>1
  <2>2. PICK st \in ExecStatus : evidence[r][st] > 0
    BY DEF Recorded
  <2>3. evidence'[r][st] >= evidence[r][st]
    BY <2>1 DEF Save, TypeOK, StatusOf, ExecStatus
  <2>4. evidence'[r][st] > 0
    BY <2>1, <2>2, <2>3 DEF Save, TypeOK, StatusOf, ExecStatus
  <2> QED
    BY <2>4 DEF Recorded
<1>2. CASE ~\E s \in Slots, q \in Row : Save(s, q)
  <2>1. evidence' = evidence
    BY <1>2 DEF Next, Worker, StartRun, Enqueue, EnqueueAnswerLost, AbortEnqueue, Deliver, ReadBatch,
       Act, CheckCompleted, Respond, DeadlinePasses, Fail, vars
  <2> QED
    BY <2>1 DEF Recorded
<1> QED
  BY <1>1, <1>2

\* Plan rows stay PLANNED, so that a request reads exactly the rows of its batch and
\* answers only when each of them is recorded.
LEMMA BatchInvStep ==
  ASSUME DistinctStamps, TypeInv, TypeInv', BatchInv, [Next]_vars
  PROVE  BatchInv'
<1> USE DEF TypeInv
<1>r. \A r \in Row : Recorded(r) => Recorded(r)'
  BY RecordedStays
<1>b. \A b \in Batch : RowsOf(b) \subseteq Row
  BY DEF RowsOf
<1>1. CASE StartRun \/ AbortEnqueue \/ UNCHANGED vars
  BY <1>1, <1>r DEF BatchInv, StartRun, AbortEnqueue, vars, slotVars, taskVars, AckedBatchRecorded, Recorded
<1>2. CASE Enqueue \/ EnqueueAnswerLost
  <2>1. \A b \in Batch : b < nextBatch' => queue'[b] > 0 \/ b \in acked'
    <3>1. CASE Enqueue
      <4>1. nextBatch \in Nat /\ nextBatch' = nextBatch + 1 /\ acked' = acked
        BY <3>1, BatchCount DEF Enqueue, TypeOK
      <4>2. \A b \in Batch : b \in Nat /\ queue'[b] >= queue[b] /\ queue[b] \in Nat /\ queue'[b] \in Nat
        BY <3>1, BatchCount DEF Enqueue, TypeOK, Batch
      <4>3. nextBatch \in Batch => queue'[nextBatch] > 0
        BY <3>1 DEF Enqueue, TypeOK
      <4> SUFFICES ASSUME NEW b \in Batch, b < nextBatch'
                   PROVE  queue'[b] > 0 \/ b \in acked'
        OBVIOUS
      <4>4. b = nextBatch \/ b < nextBatch
        BY <4>1, <4>2
      <4>5. CASE b = nextBatch
        BY <4>3, <4>5
      <4>6. CASE b < nextBatch
        <5>1. queue[b] > 0 \/ b \in acked
          BY <4>6 DEF BatchInv
        <5> QED
          BY <5>1, <4>1, <4>2
      <4> QED
        BY <4>4, <4>5, <4>6
    <3>2. CASE EnqueueAnswerLost
      BY <1>2, <3>2 DEF BatchInv, EnqueueAnswerLost, TypeOK, Batch, orchVars
    <3> QED
      BY <1>2, <3>1, <3>2
  <2> QED
    BY <1>2, <2>1 DEF BatchInv, Enqueue, EnqueueAnswerLost, slotVars, AckedBatchRecorded, Recorded
<1>3. ASSUME NEW s \in Slots, NEW b \in Batch, Deliver(s, b) PROVE BatchInv'
  BY <1>3 DEF BatchInv, Deliver, TypeOK, taskVars, orchVars, AckedBatchRecorded, Recorded
<1>4. ASSUME NEW s \in Slots, DeadlinePasses(s) PROVE BatchInv'
  BY <1>4 DEF BatchInv, DeadlinePasses, taskVars, orchVars, AckedBatchRecorded, Recorded
<1>5. ASSUME NEW s \in Slots, Fail(s) PROVE BatchInv'
  BY <1>5 DEF BatchInv, Fail, Release, TypeOK, taskVars, orchVars, AckedBatchRecorded, Recorded
<1>6. ASSUME NEW s \in Slots, ReadBatch(s) PROVE BatchInv'
  <2>1. /\ rows' = [rows EXCEPT ![s] = RowsOf(batch[s])]
        /\ unsaved' = [unsaved EXCEPT ![s] = RowsOf(batch[s])]
        /\ pc' = [pc EXCEPT ![s] = IF RowsOf(batch[s]) = {} THEN "respond" ELSE "act"]
    BY <1>6, PageIsBatch DEF ReadBatch, DistinctStamps, BatchInv, TypeOK
  <2> QED
    BY <1>6, <2>1 DEF BatchInv, ReadBatch, TypeOK, taskVars, orchVars, AckedBatchRecorded, Recorded
<1>7. ASSUME NEW s \in Slots, NEW q \in Row, Act(s, q) PROVE BatchInv'
  BY <1>7 DEF BatchInv, Act, TypeOK, taskVars, orchVars, AckedBatchRecorded, Recorded
<1>8. ASSUME NEW s \in Slots, NEW q \in Row, Save(s, q) PROVE BatchInv'
  <2>1. Recorded(q)'
    BY <1>8 DEF Save, TypeOK, Recorded, StatusOf, ExecStatus
  <2>2. /\ pc' = [pc EXCEPT ![s] = IF unsaved[s] = {q} THEN "check" ELSE "save"]
        /\ unsaved' = [unsaved EXCEPT ![s] = @ \ {q}]
        /\ planStatus' = planStatus /\ rows' = rows /\ batch' = batch
        /\ queue' = queue /\ acked' = acked /\ nextBatch' = nextBatch /\ pc[s] = "save"
    BY <1>8 DEF Save, UpdateStatus, taskVars, orchVars
  <2>3. \A r \in RowsOf(batch[s]) \ unsaved'[s] : Recorded(r)'
    BY <2>1, <2>2, <1>r, <1>b DEF BatchInv, TypeOK
  <2>4. AckedBatchRecorded'
    BY <2>2, <1>r, <1>b DEF BatchInv, TypeOK, AckedBatchRecorded, RowsOf
  <2>5. ASSUME NEW t \in Slots
        PROVE /\ pc'[t] \in {"act", "save"} => rows'[t] = RowsOf(batch'[t])
              /\ pc'[t] = "act" => unsaved'[t] = rows'[t]
              /\ pc'[t] = "save" => \A r \in RowsOf(batch'[t]) \ unsaved'[t] : Recorded(r)'
              /\ pc'[t] \in {"check", "respond"} => \A r \in RowsOf(batch'[t]) : Recorded(r)'
    <3>1. CASE t = s
      BY <3>1, <2>2, <2>3 DEF BatchInv, TypeOK
    <3>2. CASE t # s
      <4>1. pc'[t] = pc[t] /\ unsaved'[t] = unsaved[t]
        BY <3>2, <2>2 DEF TypeOK
      <4> QED
        BY <4>1, <2>2, <1>r, <1>b DEF BatchInv, TypeOK
    <3> QED
      BY <3>1, <3>2
  <2> QED
    BY <2>2, <2>4, <2>5 DEF BatchInv, RowsOf
<1>9. ASSUME NEW s \in Slots, CheckCompleted(s) PROVE BatchInv'
  BY <1>9 DEF BatchInv, CheckCompleted, TypeOK, taskVars, orchVars, AckedBatchRecorded, Recorded
<1>10. ASSUME NEW s \in Slots, Respond(s) PROVE BatchInv'
  <2>1. AckedBatchRecorded'
    BY <1>10 DEF BatchInv, Respond, TypeOK, taskVars, AckedBatchRecorded, Recorded
  <2>2. ASSUME NEW b \in Batch, b < nextBatch' PROVE queue'[b] > 0 \/ b \in acked'
    <3>1. CASE lease[s] /\ b = batch[s]
      BY <1>10, <3>1 DEF Respond
    <3>2. CASE ~(lease[s] /\ b = batch[s])
      <4>1. queue'[b] = queue[b] /\ acked \subseteq acked'
        BY <1>10, <3>2 DEF Respond, TypeOK, taskVars
      <4> QED
        BY <1>10, <2>2, <4>1 DEF BatchInv, Respond, orchVars
    <3> QED
      BY <3>1, <3>2
  <2> QED
    BY <1>10, <2>1, <2>2 DEF BatchInv, Respond, Release, TypeOK, Recorded
<1> QED
  BY <1>1, <1>2, <1>3, <1>4, <1>5, <1>6, <1>7, <1>8, <1>9, <1>10 DEF Next, Worker

\* The inductive invariant of the batches holds in every reachable state.
LEMMA BatchInvariant ==
  ASSUME DistinctStamps
  PROVE  Spec => []BatchInv
<1>1. Init => BatchInv
  BY DEF Init, BatchInv, AckedBatchRecorded, Batch
<1>2. TypeInv /\ TypeInv' /\ BatchInv /\ [Next]_vars => BatchInv'
  BY BatchInvStep
<1> QED
  BY <1>1, <1>2, TypeInvariant, PTL DEF Spec

\* A batch that Cloud Tasks was told is done has evidence for each of its rows.
THEOREM AckedIsRecorded ==
  ASSUME DistinctStamps
  PROVE  Spec => []AckedBatchRecorded
<1>1. BatchInv => AckedBatchRecorded
  BY DEF BatchInv
<1> QED
  BY <1>1, BatchInvariant, PTL

\* When every task was created and the queue is empty, the whole plan has evidence.
THEOREM DrainedIsCovered ==
  ASSUME DistinctStamps
  PROVE  Spec => []DrainedRunCovered
<1>1. TypeInv /\ BatchInv => DrainedRunCovered
  <2> SUFFICES ASSUME TypeInv, BatchInv, orch = "queued", \A b \in Batch : queue[b] = 0,
                      NEW r \in Row
               PROVE  Recorded(r)
    BY DEF DrainedRunCovered
  <2>1. PICK b \in Batch : r \in RowsOf(b)
    BY BatchOfRow
  <2>2. b < nextBatch
    BY BatchCount DEF TypeInv, LoopInv, Batch
  <2>3. b \in acked
    BY <2>2 DEF BatchInv
  <2> QED
    BY <2>1, <2>3 DEF BatchInv, AckedBatchRecorded
<1> QED
  BY <1>1, TypeInvariant, BatchInvariant, PTL

-----------------------------------------------------------------------------
(***************************************************************************)
(* Evidence is true.  A result is recorded in ran when its action ends,    *)
(* and save only writes results; this needs no assumption on created_at.   *)
(***************************************************************************)

BackedInv ==
  /\ \A s \in Slots :
       /\ \A r \in Row : outcome[s][r] # None => StatusOf(outcome[s][r]) \in ran[r]
       /\ pc[s] = "act" => unsaved[s] = rows[s]
       /\ pc[s] = "save" => \A r \in unsaved[s] : outcome[s][r] # None
  /\ EvidenceBacked

\* What a request is about to save is the result of an action it has run.
LEMMA BackedInvStep ==
  ASSUME TypeInv, BackedInv, [Next]_vars
  PROVE  BackedInv'
<1> USE DEF TypeInv
<1>1. CASE StartRun \/ Enqueue \/ EnqueueAnswerLost \/ AbortEnqueue \/ UNCHANGED vars
  BY <1>1 DEF BackedInv, StartRun, Enqueue, EnqueueAnswerLost, AbortEnqueue, vars, slotVars, EvidenceBacked
<1>2. ASSUME NEW s \in Slots, DeadlinePasses(s) \/ \E b \in Batch : Deliver(s, b) PROVE BackedInv'
  BY <1>2 DEF BackedInv, Deliver, DeadlinePasses, TypeOK, EvidenceBacked
<1>3. ASSUME NEW s \in Slots, Fail(s) \/ Respond(s) PROVE BackedInv'
  BY <1>3 DEF BackedInv, Fail, Respond, Release, NoOutcome, TypeOK, EvidenceBacked
<1>4. ASSUME NEW s \in Slots, ReadBatch(s) PROVE BackedInv'
  <2>1. PICK page \in SUBSET Row : /\ rows' = [rows EXCEPT ![s] = page]
                                  /\ unsaved' = [unsaved EXCEPT ![s] = page]
                                  /\ pc' = [pc EXCEPT ![s] = IF page = {} THEN "respond" ELSE "act"]
    BY <1>4 DEF ReadBatch, Page
  <2> QED
    BY <1>4, <2>1 DEF BackedInv, ReadBatch, TypeOK, EvidenceBacked
<1>5. ASSUME NEW s \in Slots, NEW q \in Row, Act(s, q) PROVE BackedInv'
  <2>1. PICK o \in Fate[q] : /\ outcome' = [outcome EXCEPT ![s][q] = o]
                             /\ ran' = [ran EXCEPT ![q] = @ \cup {StatusOf(o)}]
    BY <1>5 DEF Act
  <2>2. o \in Outcome /\ o # None
    BY FateAssumption DEF Outcome, None
  <2>3. \A t \in Slots, r \in Row : outcome'[t][r] # None => StatusOf(outcome'[t][r]) \in ran'[r]
    BY <2>1 DEF BackedInv, TypeOK
  <2>4. EvidenceBacked'
    BY <1>5, <2>1 DEF BackedInv, EvidenceBacked, Act, TypeOK
  <2>5. \A t \in Slots : pc'[t] = "act" => unsaved'[t] = rows'[t]
    BY <1>5 DEF BackedInv, Act, TypeOK
  <2>6. ASSUME NEW t \in Slots, pc'[t] = "save", NEW r \in unsaved'[t]
        PROVE  outcome'[t][r] # None
    <3>0. r \in Row /\ unsaved' = unsaved /\ rows' = rows
      BY <1>5, <2>6 DEF Act, TypeOK
    <3>1. CASE t = s
      BY <1>5, <2>1, <2>2, <2>6, <3>0, <3>1 DEF BackedInv, Act, TypeOK
    <3>2. CASE t # s
      BY <1>5, <2>1, <2>6, <3>0, <3>2 DEF BackedInv, Act, TypeOK
    <3> QED
      BY <3>1, <3>2
  <2> QED
    BY <2>3, <2>4, <2>5, <2>6 DEF BackedInv
<1>6. ASSUME NEW s \in Slots, NEW q \in Row, Save(s, q) PROVE BackedInv'
  <2>1. outcome[s][q] # None /\ StatusOf(outcome[s][q]) \in ran[q]
    BY <1>6 DEF BackedInv, Save
  <2>2. EvidenceBacked'
    BY <1>6, <2>1 DEF BackedInv, EvidenceBacked, Save, TypeOK
  <2>3. outcome' = outcome /\ ran' = ran /\ rows' = rows
    BY <1>6 DEF Save
  <2>4. \A t \in Slots : /\ pc'[t] = "act" => unsaved'[t] = rows'[t]
                         /\ pc'[t] = "save" => \A r \in unsaved'[t] : outcome'[t][r] # None
    BY <1>6, <2>3 DEF BackedInv, Save, TypeOK
  <2> QED
    BY <2>2, <2>3, <2>4 DEF BackedInv
<1>7. ASSUME NEW s \in Slots, CheckCompleted(s) PROVE BackedInv'
  BY <1>7 DEF BackedInv, CheckCompleted, TypeOK, EvidenceBacked
<1> QED
  BY <1>1, <1>2, <1>3, <1>4, <1>5, <1>6, <1>7 DEF Next, Worker

\* Whatever is killed, redelivered or run twice at once, a status in
\* remediation_execution is one an action on that row has ended with.
THEOREM EvidenceIsBacked == Spec => []EvidenceBacked
<1>1. Init => BackedInv
  BY DEF Init, BackedInv, EvidenceBacked, NoOutcome
<1>2. TypeInv /\ BackedInv /\ [Next]_vars => BackedInv'
  BY BackedInvStep
<1>3. BackedInv => EvidenceBacked
  BY DEF BackedInv
<1> QED
  BY <1>1, <1>2, <1>3, TypeInvariant, PTL DEF Spec

-----------------------------------------------------------------------------
(***************************************************************************)
(* Nothing is executed twice without a fault.  For a row of a batch, four  *)
(* things can still add a row to remediation_execution, and each of them   *)
(* can do it once: the rows that are there, the copies of the task that no *)
(* request holds, the requests that have not saved r yet, and the turn of  *)
(* the enqueue loop that is still to come.  Every step passes one on to    *)
(* the next; only a fault makes one more.                                  *)
(***************************************************************************)

\* The requests that are going to record r, unless they fail.
PendingSet(r, b) ==
  {s \in Slots : batch[s] = b /\ (pc[s] \in {"read", "act"} \/ (pc[s] = "save" /\ r \in unsaved[s]))}

Pending(r, b) == Cardinality(PendingSet(r, b))

\* Turns of the loop that create the task of b.
ToCreate(b) == IF nextBatch <= b THEN 1 ELSE 0

CopyInv ==
  /\ \A s \in Slots : pc[s] = "save" => unsaved[s] \subseteq RowsOf(batch[s])
  /\ \A b \in Batch : \A r \in RowsOf(b) :
       Copies(r) + (queue[b] - Leased(b)) + Pending(r, b) + ToCreate(b) <= 1 + faults

\* No row is in two batches.
LEMMA BatchesDisjoint ==
  ASSUME NEW b \in Batch, NEW c \in Batch, NEW r \in RowsOf(b), r \in RowsOf(c)
  PROVE  b = c
<1>1. b \in Nat /\ c \in Nat /\ BatchSize \in Nat \ {0} /\ r \in Nat
  BY SizeAssumption DEF Batch, RowsOf, Row
<1>2. ASSUME NEW i \in Nat, NEW j \in Nat, i < j PROVE (i + 1) * BatchSize <= j * BatchSize
  BY <1>1, <1>2
<1>3. /\ b * BatchSize < r /\ r <= (b + 1) * BatchSize
      /\ c * BatchSize < r /\ r <= (c + 1) * BatchSize
  BY DEF RowsOf
<1>4. b * BatchSize \in Nat /\ c * BatchSize \in Nat
      /\ (b + 1) * BatchSize \in Nat /\ (c + 1) * BatchSize \in Nat
  BY <1>1
<1>5. ~(b < c)
  <2>1. b < c => (b + 1) * BatchSize <= c * BatchSize
    BY <1>1, <1>2
  <2> QED BY <1>1, <1>3, <1>4, <2>1
<1>6. ~(c < b)
  <2>1. c < b => (c + 1) * BatchSize <= b * BatchSize
    BY <1>1, <1>2
  <2> QED BY <1>1, <1>3, <1>4, <2>1
<1> QED
  BY <1>1, <1>5, <1>6

\* The numbers of the account are natural numbers.
LEMMA PendingIsCount ==
  ASSUME NEW b \in Batch, NEW r
  PROVE  IsFiniteSet(PendingSet(r, b)) /\ Pending(r, b) \in Nat
<1>1. PendingSet(r, b) \subseteq Slots
  BY DEF PendingSet
<1> QED
  BY <1>1, SlotAssumption, FS_Subset, FS_CardinalityType DEF Pending

\* The executions of a row are counted in natural numbers.
LEMMA CopiesIsCount ==
  ASSUME TypeOK, NEW r \in Row
  PROVE  Copies(r) \in Nat
BY DEF TypeOK, Copies, ExecStatus

\* One request more that is going to record r,
LEMMA PendingGrows ==
  ASSUME NEW b \in Batch, NEW r, NEW s, s \notin PendingSet(r, b),
         PendingSet(r, b)' = PendingSet(r, b) \cup {s}
  PROVE  Pending(r, b)' = Pending(r, b) + 1
<1>1. Cardinality(PendingSet(r, b) \cup {s}) = Cardinality(PendingSet(r, b)) + 1
  BY PendingIsCount, FS_AddElement
<1> QED
  BY <1>1 DEF Pending

\* ... or one less.
LEMMA PendingFalls ==
  ASSUME NEW b \in Batch, NEW r, NEW s, s \in PendingSet(r, b),
         PendingSet(r, b)' = PendingSet(r, b) \ {s}
  PROVE  Pending(r, b)' = Pending(r, b) - 1
<1>1. Cardinality(PendingSet(r, b) \ {s}) = Cardinality(PendingSet(r, b)) - 1
  BY PendingIsCount, FS_RemoveElement
<1> QED
  BY <1>1 DEF Pending

\* One lease more,
LEMMA LeaseGrows ==
  ASSUME NEW b \in Batch, NEW s, s \notin LeaseSet(b), LeaseSet(b)' = LeaseSet(b) \cup {s}
  PROVE  Leased(b)' = Leased(b) + 1
<1>1. Cardinality(LeaseSet(b)') = Leased(b) + 1
  BY LeasedIsCount, FS_AddElement
<1> QED
  BY <1>1 DEF Leased, LeaseSet

\* ... or one less.
LEMMA LeaseFalls ==
  ASSUME NEW b \in Batch, NEW s, s \in LeaseSet(b), LeaseSet(b)' = LeaseSet(b) \ {s}
  PROVE  Leased(b)' = Leased(b) - 1
<1>1. Cardinality(LeaseSet(b)') = Leased(b) - 1
  BY LeasedIsCount, FS_RemoveElement
<1> QED
  BY <1>1 DEF Leased, LeaseSet

\* The enqueue loop makes a copy of the turn that has come, and a lost answer one
\* more at the price of a fault.
LEMMA EnqueueKeepsAccount ==
  ASSUME TypeInv, TypeInv', CopyInv, NEW b \in Batch, NEW r \in RowsOf(b),
         StartRun \/ Enqueue \/ EnqueueAnswerLost \/ AbortEnqueue
  PROVE  Copies(r)' + (queue'[b] - Leased(b)') + Pending(r, b)' + ToCreate(b)' <= 1 + faults'
<1>1. Copies(r) \in Nat /\ Pending(r, b) \in Nat /\ Leased(b) \in Nat
  BY CopiesIsCount, PendingIsCount, LeasedIsCount DEF TypeInv, RowsOf
<1>2. Copies(r)' = Copies(r) /\ Leased(b)' = Leased(b) /\ Pending(r, b)' = Pending(r, b)
  BY DEF StartRun, Enqueue, EnqueueAnswerLost, AbortEnqueue, slotVars, Copies, Leased, Pending,
         PendingSet
<1>3. Copies(r) + (queue[b] - Leased(b)) + Pending(r, b) + ToCreate(b) <= 1 + faults
  BY DEF CopyInv
<1>4. /\ queue[b] \in Nat /\ queue'[b] \in Nat /\ nextBatch \in Nat /\ b \in Nat
      /\ faults \in Nat /\ faults' \in Nat
  BY BatchCount, FaultAssumption DEF TypeInv, TypeOK, Batch
<1>5. CASE StartRun
  BY <1>1, <1>2, <1>3, <1>4, <1>5 DEF StartRun, taskVars, ToCreate
<1>6. CASE Enqueue
  <2>1. /\ nextBatch' = nextBatch + 1 /\ faults' = faults
        /\ queue'[b] = IF b = nextBatch THEN queue[b] + 1 ELSE queue[b]
    BY <1>6 DEF Enqueue, TypeInv, TypeOK
  <2> QED BY <1>1, <1>2, <1>3, <1>4, <2>1 DEF ToCreate
<1>7. CASE EnqueueAnswerLost
  <2>1. /\ nextBatch' = nextBatch /\ faults' = faults + 1
        /\ queue'[b] = IF b = nextBatch THEN queue[b] + 1 ELSE queue[b]
    BY <1>7 DEF EnqueueAnswerLost, Fault, TypeInv, TypeOK, orchVars
  <2> QED BY <1>1, <1>2, <1>3, <1>4, <2>1 DEF ToCreate
<1>8. CASE AbortEnqueue
  BY <1>1, <1>2, <1>3, <1>4, <1>8 DEF AbortEnqueue, Fault, taskVars, ToCreate
<1> QED
  BY <1>5, <1>6, <1>7, <1>8

\* A delivery turns a copy into a request; an answer in time takes both away; a
\* missed deadline or a failure gives the copy back, at the price of a fault.
LEMMA DeliveryKeepsAccount ==
  ASSUME TypeInv, TypeInv', CopyInv, NEW b \in Batch, NEW r \in RowsOf(b), NEW s \in Slots,
         \/ \E c \in Batch : Deliver(s, c)
         \/ Respond(s) \/ DeadlinePasses(s) \/ Fail(s)
  PROVE  Copies(r)' + (queue'[b] - Leased(b)') + Pending(r, b)' + ToCreate(b)' <= 1 + faults'
<1>1. Copies(r) \in Nat /\ Pending(r, b) \in Nat /\ Leased(b) \in Nat
  BY CopiesIsCount, PendingIsCount, LeasedIsCount DEF TypeInv, RowsOf
<1>2. Copies(r)' = Copies(r) /\ ToCreate(b)' = ToCreate(b) /\ ToCreate(b) \in Nat
  BY DEF Deliver, Respond, DeadlinePasses, Fail, orchVars, Copies, ToCreate
<1>3. Copies(r) + (queue[b] - Leased(b)) + Pending(r, b) + ToCreate(b) <= 1 + faults
  BY DEF CopyInv
<1>4. queue[b] \in Nat /\ queue'[b] \in Nat /\ faults \in Nat /\ faults' \in Nat
  BY FaultAssumption DEF TypeInv, TypeOK
<1>5. ASSUME NEW c \in Batch, Deliver(s, c)
      PROVE  Copies(r)' + (queue'[b] - Leased(b)') + Pending(r, b)' + ToCreate(b)' <= 1 + faults'
  <2>1. queue' = queue /\ faults' = faults /\ ~lease[s] /\ pc[s] = "idle"
    BY <1>5 DEF Deliver, taskVars, TypeInv, LeaseInv
  <2>2. s \notin LeaseSet(b) /\ s \notin PendingSet(r, b)
    BY <2>1 DEF LeaseSet, PendingSet
  <2>3. CASE c = b
    <3>1. LeaseSet(b)' = LeaseSet(b) \cup {s}
      BY <1>5, <2>3 DEF LeaseSet, Deliver, TypeInv, TypeOK
    <3>2. PendingSet(r, b)' = PendingSet(r, b) \cup {s}
      BY <1>5, <2>3 DEF PendingSet, Deliver, TypeInv, TypeOK
    <3>3. Leased(b)' = Leased(b) + 1 /\ Pending(r, b)' = Pending(r, b) + 1
      BY <2>2, <3>1, <3>2, LeaseGrows, PendingGrows
    <3> QED BY <1>1, <1>2, <1>3, <1>4, <2>1, <3>3
  <2>4. CASE c # b
    <3>1. LeaseSet(b)' = LeaseSet(b) /\ PendingSet(r, b)' = PendingSet(r, b)
      BY <1>5, <2>1, <2>4 DEF LeaseSet, PendingSet, Deliver, TypeInv, TypeOK
    <3>2. Leased(b)' = Leased(b) /\ Pending(r, b)' = Pending(r, b)
      BY <3>1 DEF Leased, LeaseSet, Pending
    <3> QED BY <1>1, <1>2, <1>3, <1>4, <2>1, <3>2
  <2> QED BY <2>3, <2>4
<1>6. CASE Respond(s)
  <2>1. LeaseSet(b)' = LeaseSet(b) \ {s}
    BY <1>6 DEF LeaseSet, Respond, Release, TypeInv, TypeOK
  <2>2. PendingSet(r, b)' = PendingSet(r, b)
    BY <1>6 DEF PendingSet, Respond, Release, TypeInv, TypeOK
  <2>3. Pending(r, b)' = Pending(r, b) /\ faults' = faults
    BY <1>6, <2>2 DEF Pending, Respond
  <2>4. CASE s \in LeaseSet(b)
    <3>1. queue'[b] = queue[b] - 1
      BY <1>6, <2>4 DEF LeaseSet, Respond, TypeInv, TypeOK
    <3>2. Leased(b)' = Leased(b) - 1
      BY <2>1, <2>4, LeaseFalls
    <3> QED BY <1>1, <1>2, <1>3, <1>4, <2>3, <3>1, <3>2
  <2>5. CASE s \notin LeaseSet(b)
    <3>1. queue'[b] = queue[b]
      BY <1>6, <2>5 DEF LeaseSet, Respond, TypeInv, TypeOK, taskVars
    <3>2. LeaseSet(b)' = LeaseSet(b)
      BY <2>1, <2>5
    <3>3. Leased(b)' = Leased(b)
      BY <3>2 DEF Leased, LeaseSet
    <3> QED BY <1>1, <1>2, <1>3, <1>4, <2>3, <3>1, <3>3
  <2> QED BY <2>4, <2>5
<1>7. CASE DeadlinePasses(s) \/ Fail(s)
  <2>1. LeaseSet(b)' = LeaseSet(b) \ {s}
    BY <1>7 DEF LeaseSet, DeadlinePasses, Fail, Release, TypeInv, TypeOK
  <2>2. queue'[b] = queue[b] /\ faults' = faults + 1
    BY <1>7 DEF DeadlinePasses, Fail, Fault, taskVars
  <2>3. Leased(b)' = Leased(b) \/ Leased(b)' = Leased(b) - 1
    <3>1. CASE s \in LeaseSet(b)
      BY <2>1, <3>1, LeaseFalls
    <3>2. CASE s \notin LeaseSet(b)
      <4>1. LeaseSet(b)' = LeaseSet(b)
        BY <2>1, <3>2
      <4> QED BY <4>1 DEF Leased, LeaseSet
    <3> QED BY <3>1, <3>2
  <2>4. PendingSet(r, b)' = PendingSet(r, b) \/ PendingSet(r, b)' = PendingSet(r, b) \ {s}
    BY <1>7 DEF PendingSet, DeadlinePasses, Fail, Release, TypeInv, TypeOK
  <2>5. Pending(r, b)' = Pending(r, b) \/ Pending(r, b)' = Pending(r, b) - 1
    <3>1. CASE s \in PendingSet(r, b) /\ PendingSet(r, b)' = PendingSet(r, b) \ {s}
      BY <3>1, PendingFalls
    <3>2. CASE PendingSet(r, b)' = PendingSet(r, b)
      BY <3>2 DEF Pending
    <3>3. s \in PendingSet(r, b) \/ PendingSet(r, b) \ {s} = PendingSet(r, b)
      OBVIOUS
    <3> QED BY <2>4, <3>1, <3>2, <3>3
  <2> QED BY <1>1, <1>2, <1>3, <1>4, <2>2, <2>3, <2>5
<1> QED
  BY <1>5, <1>6, <1>7

\* execute_batch turns the request into a row of evidence.
LEMMA BodyKeepsAccount ==
  ASSUME DistinctStamps, TypeInv, TypeInv', BatchInv, CopyInv,
         NEW b \in Batch, NEW r \in RowsOf(b), NEW s \in Slots,
         \/ ReadBatch(s) \/ CheckCompleted(s)
         \/ \E q \in Row : Act(s, q) \/ Save(s, q)
  PROVE  Copies(r)' + (queue'[b] - Leased(b)') + Pending(r, b)' + ToCreate(b)' <= 1 + faults'
<1>1. Copies(r) \in Nat /\ Pending(r, b) \in Nat /\ Leased(b) \in Nat
  BY CopiesIsCount, PendingIsCount, LeasedIsCount DEF TypeInv, RowsOf
<1>2. /\ queue' = queue /\ faults' = faults /\ Leased(b)' = Leased(b)
      /\ ToCreate(b)' = ToCreate(b) /\ ToCreate(b) \in Nat
  BY DEF ReadBatch, CheckCompleted, Act, Save, taskVars, orchVars, Leased, ToCreate
<1>3. Copies(r) + (queue[b] - Leased(b)) + Pending(r, b) + ToCreate(b) <= 1 + faults
  BY DEF CopyInv
<1>4. queue[b] \in Nat /\ faults \in Nat
  BY FaultAssumption DEF TypeInv, TypeOK
<1>5. CASE ReadBatch(s)
  <2>1. /\ unsaved' = [unsaved EXCEPT ![s] = RowsOf(batch[s])]
        /\ pc' = [pc EXCEPT ![s] = IF RowsOf(batch[s]) = {} THEN "respond" ELSE "act"]
        /\ pc[s] = "read" /\ batch' = batch
    BY <1>5, PageIsBatch DEF ReadBatch, DistinctStamps, BatchInv, TypeInv, TypeOK
  <2>2. PendingSet(r, b)' = PendingSet(r, b)
    BY <2>1 DEF PendingSet, TypeInv, TypeOK
  <2>3. Copies(r)' = Copies(r) /\ Pending(r, b)' = Pending(r, b)
    BY <1>5, <2>2 DEF ReadBatch, Copies, Pending
  <2> QED BY <1>2, <1>3, <2>3
<1>6. CASE CheckCompleted(s)
  <2>1. PendingSet(r, b)' = PendingSet(r, b)
    BY <1>6 DEF PendingSet, CheckCompleted, TypeInv, TypeOK
  <2>2. Copies(r)' = Copies(r) /\ Pending(r, b)' = Pending(r, b)
    BY <1>6, <2>1 DEF CheckCompleted, Copies, Pending
  <2> QED BY <1>2, <1>3, <2>2
<1>7. ASSUME NEW q \in Row, Act(s, q)
      PROVE  Copies(r)' + (queue'[b] - Leased(b)') + Pending(r, b)' + ToCreate(b)' <= 1 + faults'
  <2>1. PendingSet(r, b)' = PendingSet(r, b)
    <3>1. pc[s] = "act" /\ unsaved[s] = RowsOf(batch[s])
      BY <1>7 DEF Act, BatchInv
    <3> QED BY <1>7, <3>1 DEF PendingSet, Act, TypeInv, TypeOK
  <2>2. Copies(r)' = Copies(r) /\ Pending(r, b)' = Pending(r, b)
    BY <1>7, <2>1 DEF Act, Copies, Pending
  <2> QED BY <1>2, <1>3, <2>2
<1>8. ASSUME NEW q \in Row, Save(s, q)
      PROVE  Copies(r)' + (queue'[b] - Leased(b)') + Pending(r, b)' + ToCreate(b)' <= 1 + faults'
  <2>1. /\ pc[s] = "save" /\ q \in unsaved[s] /\ batch' = batch
        /\ unsaved' = [unsaved EXCEPT ![s] = @ \ {q}]
        /\ pc' = [pc EXCEPT ![s] = IF unsaved[s] = {q} THEN "check" ELSE "save"]
    BY <1>8 DEF Save
  <2>2. q \in RowsOf(batch[s]) /\ batch[s] \in Batch
    BY <2>1 DEF CopyInv, TypeInv, TypeOK
  <2>3. CASE q = r
    <3>1. batch[s] = b
      BY <2>2, <2>3, BatchesDisjoint
    <3>2. s \in PendingSet(r, b)
      BY <2>1, <2>3, <3>1 DEF PendingSet
    <3>3. PendingSet(r, b)' = PendingSet(r, b) \ {s}
      BY <2>1, <2>3, <3>1 DEF PendingSet, TypeInv, TypeOK
    <3>4. Pending(r, b)' = Pending(r, b) - 1
      BY <3>2, <3>3, PendingFalls
    <3>5. PICK st \in ExecStatus : evidence' = [evidence EXCEPT ![r][st] = @ + 1]
      BY <1>8, <2>3 DEF Save, StatusOf, ExecStatus
    <3>6. Copies(r)' = Copies(r) + 1
      BY <2>3, <3>5 DEF Copies, TypeInv, TypeOK, ExecStatus
    <3> QED BY <1>1, <1>2, <1>3, <1>4, <3>4, <3>6
  <2>4. CASE q # r
    <3>1. PendingSet(r, b)' = PendingSet(r, b)
      BY <2>1, <2>4 DEF PendingSet, TypeInv, TypeOK
    <3>2. Copies(r)' = Copies(r) /\ Pending(r, b)' = Pending(r, b)
      BY <1>8, <2>4, <3>1 DEF Save, Copies, Pending, TypeInv, TypeOK
    <3> QED BY <1>2, <1>3, <3>2
  <2> QED BY <2>3, <2>4
<1> QED
  BY <1>5, <1>6, <1>7, <1>8

\* What a request has not saved is of its batch.
LEMMA UnsavedIsOfBatch ==
  ASSUME DistinctStamps, TypeInv, BatchInv, CopyInv, [Next]_vars, NEW s \in Slots, pc'[s] = "save"
  PROVE  unsaved'[s] \subseteq RowsOf(batch'[s])
<1> USE DEF TypeInv, TypeOK
<1>1. CASE StartRun \/ Enqueue \/ EnqueueAnswerLost \/ AbortEnqueue \/ UNCHANGED vars
  BY <1>1 DEF CopyInv, StartRun, Enqueue, EnqueueAnswerLost, AbortEnqueue, slotVars, vars
<1>2. ASSUME NEW t \in Slots,
             DeadlinePasses(t) \/ Fail(t) \/ Respond(t) \/ CheckCompleted(t) \/ ReadBatch(t)
               \/ \E b \in Batch : Deliver(t, b)
      PROVE  unsaved'[s] \subseteq RowsOf(batch'[s])
  <2>1. pc[s] = "save" /\ unsaved'[s] = unsaved[s] /\ batch'[s] = batch[s]
    BY <1>2 DEF DeadlinePasses, Fail, Respond, Release, CheckCompleted, ReadBatch, Deliver
  <2> QED BY <2>1 DEF CopyInv
<1>3. ASSUME NEW t \in Slots, NEW q \in Row, Act(t, q)
      PROVE  unsaved'[s] \subseteq RowsOf(batch'[s])
  <2>1. unsaved' = unsaved /\ batch' = batch /\ pc[s] \in {"act", "save"}
    BY <1>3 DEF Act
  <2> QED BY <2>1 DEF CopyInv, BatchInv
<1>4. ASSUME NEW t \in Slots, NEW q \in Row, Save(t, q)
      PROVE  unsaved'[s] \subseteq RowsOf(batch'[s])
  <2>1. unsaved'[s] \subseteq unsaved[s] /\ batch' = batch /\ pc[s] = "save"
    BY <1>4 DEF Save
  <2> QED BY <2>1 DEF CopyInv
<1> QED
  BY <1>1, <1>2, <1>3, <1>4 DEF Next, Worker

\* The account of copies holds in every state.
LEMMA CopyInvariant ==
  ASSUME DistinctStamps
  PROVE  Spec => []CopyInv
<1>1. TypeInv /\ Init => CopyInv
  <2> SUFFICES ASSUME TypeInv, Init PROVE CopyInv
    OBVIOUS
  <2>1. \A s \in Slots : pc[s] # "save"
    BY DEF Init
  <2>2. ASSUME NEW b \in Batch, NEW r \in RowsOf(b)
        PROVE  Copies(r) + (queue[b] - Leased(b)) + Pending(r, b) + ToCreate(b) <= 1 + faults
    <3>1. LeaseSet(b) = {} /\ PendingSet(r, b) = {}
      BY DEF Init, LeaseSet, PendingSet
    <3>2. Leased(b) = 0 /\ Pending(r, b) = 0
      BY <3>1, LeasedIsCount, FS_EmptySet DEF Pending
    <3>3. Copies(r) = 0 /\ queue[b] = 0 /\ faults = 0 /\ ToCreate(b) \in {0, 1}
      BY DEF Init, Copies, ExecStatus, RowsOf, ToCreate
    <3> QED BY <3>2, <3>3
  <2> QED BY <2>1, <2>2 DEF CopyInv
<1>2. DistinctStamps /\ TypeInv /\ TypeInv' /\ BatchInv /\ CopyInv /\ [Next]_vars => CopyInv'
  <2> SUFFICES ASSUME TypeInv, TypeInv', BatchInv, CopyInv, [Next]_vars PROVE CopyInv'
    OBVIOUS
  <2>1. ASSUME NEW b \in Batch, NEW r \in RowsOf(b)
        PROVE  Copies(r)' + (queue'[b] - Leased(b)') + Pending(r, b)' + ToCreate(b)' <= 1 + faults'
    <3>1. CASE UNCHANGED vars
      <4>1. /\ Copies(r)' = Copies(r) /\ Leased(b)' = Leased(b) /\ Pending(r, b)' = Pending(r, b)
            /\ ToCreate(b)' = ToCreate(b) /\ queue' = queue /\ faults' = faults
        BY <3>1 DEF vars, Copies, Leased, Pending, PendingSet, ToCreate
      <4> QED BY <4>1 DEF CopyInv
    <3>2. CASE Next
      BY <3>2, EnqueueKeepsAccount, DeliveryKeepsAccount, BodyKeepsAccount DEF Next, Worker
    <3> QED BY <3>1, <3>2
  <2>2. \A s \in Slots : pc'[s] = "save" => unsaved'[s] \subseteq RowsOf(batch'[s])
    BY UnsavedIsOfBatch
  <2> QED BY <2>1, <2>2 DEF CopyInv, RowsOf
<1> QED
  BY <1>1, <1>2, TypeInvariant, BatchInvariant, PTL DEF Spec

\* No row is executed more often than once, plus once per fault, however the requests
\* of a run interleave: a delivered copy goes to one request, a request saves a row
\* once, and the pages of two batches share no row.
THEOREM CopiesNeedFaults ==
  ASSUME DistinctStamps
  PROVE  Spec => []CopiesBoundedByFaults
<1>1. TypeInv /\ CopyInv => CopiesBoundedByFaults
  <2> SUFFICES ASSUME TypeInv, CopyInv, NEW r \in Row PROVE Copies(r) <= 1 + faults
    BY DEF CopiesBoundedByFaults
  <2>1. PICK b \in Batch : r \in RowsOf(b)
    BY BatchOfRow
  <2>2. Copies(r) + (queue[b] - Leased(b)) + Pending(r, b) + ToCreate(b) <= 1 + faults
    BY <2>1 DEF CopyInv
  <2>3. /\ Copies(r) \in Nat /\ Pending(r, b) \in Nat /\ ToCreate(b) \in Nat
        /\ queue[b] \in Nat /\ Leased(b) \in Nat /\ Leased(b) <= queue[b] /\ faults \in Nat
    BY CopiesIsCount, PendingIsCount, LeasedIsCount, FaultAssumption
       DEF TypeInv, TypeOK, LeaseInv, ToCreate
  <2> QED BY <2>2, <2>3
<1> QED
  BY <1>1, TypeInvariant, CopyInvariant, PTL

-----------------------------------------------------------------------------
(***************************************************************************)
(* RemediationRun implements EvidenceLedger: Save records a row for the    *)
(* first time or again, Respond finishes a batch or repeats a 200, and no  *)
(* other step is visible in the ledger.                                    *)
(***************************************************************************)

\* Save is Record or a repetition, Respond is Finish or a repetition, and no other
\* step shows in the ledger.
LEMMA LedgerStep ==
  ASSUME TypeInv, BatchInv, [Next]_vars
  PROVE  [Ledger!Next]_Ledger!ledger
<1> USE DEF TypeInv
<1>1. ASSUME NEW s \in Slots, NEW q \in Row, Save(s, q) PROVE [Ledger!Next]_Ledger!ledger
  <2>1. Recorded(q)' /\ acked' = acked
    BY <1>1 DEF Save, TypeOK, Recorded, StatusOf, ExecStatus, taskVars
  <2>2. \A r \in Row \ {q} : Recorded(r)' = Recorded(r)
    BY <1>1 DEF Save, TypeOK, Recorded
  <2>3. RecordedRows' = RecordedRows \cup {q}
    BY <2>1, <2>2, RecordedStays DEF RecordedRows
  <2>4. CASE q \in RecordedRows
    BY <2>1, <2>3, <2>4 DEF Ledger!ledger
  <2>5. CASE q \notin RecordedRows
    BY <2>1, <2>3, <2>5 DEF Ledger!Next, Ledger!Record
  <2> QED
    BY <2>4, <2>5
<1>2. ASSUME NEW s \in Slots, Respond(s) PROVE [Ledger!Next]_Ledger!ledger
  <2>1. RecordedRows' = RecordedRows
    BY <1>2 DEF Respond, RecordedRows, Recorded
  <2>2. CASE acked' = acked
    BY <2>1, <2>2 DEF Ledger!ledger
  <2>3. CASE acked' # acked
    <3>0. acked' = acked \cup {batch[s]}
      BY <1>2, <2>3 DEF Respond, taskVars
    <3>1. acked' = acked \cup {batch[s]} /\ batch[s] \in Batch \ acked
      BY <2>3, <3>0 DEF TypeOK
    <3>2. RowsOf(batch[s]) \subseteq RecordedRows
      BY <1>2 DEF BatchInv, Respond, RecordedRows, RowsOf
    <3> QED
      BY <2>1, <3>1, <3>2 DEF Ledger!Next, Ledger!Finish
  <2> QED
    BY <2>2, <2>3
<1>3. CASE /\ ~\E s \in Slots, q \in Row : Save(s, q)
           /\ ~\E s \in Slots : Respond(s)
  <2>1. evidence' = evidence /\ acked' = acked
    BY <1>3 DEF Next, Worker, StartRun, Enqueue, EnqueueAnswerLost, AbortEnqueue, Deliver, ReadBatch,
       Act, CheckCompleted, DeadlinePasses, Fail, vars, taskVars
  <2>2. RecordedRows' = RecordedRows
    BY <2>1 DEF RecordedRows, Recorded
  <2> QED
    BY <2>1, <2>2 DEF Ledger!ledger
<1> QED
  BY <1>1, <1>2, <1>3

\* Every execution of the run, seen through its evidence and acknowledgements, is
\* an execution of the ledger.
THEOREM RunImplementsLedger ==
  ASSUME DistinctStamps
  PROVE  Spec => ImplementsLedger
<1>1. Init => Ledger!Init
  BY DEF Init, Ledger!Init, RecordedRows, Recorded
<1>2. TypeInv /\ BatchInv /\ [Next]_vars => [Ledger!Next]_Ledger!ledger
  BY LedgerStep
<1> QED
  BY <1>1, <1>2, TypeInvariant, BatchInvariant, PTL DEF Spec, ImplementsLedger, Ledger!Spec

=============================================================================
