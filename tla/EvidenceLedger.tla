--------------------------- MODULE EvidenceLedger ---------------------------
(***************************************************************************)
(* What a brownfield run promises, without tasks, threads or retries: the  *)
(* planned rows are recorded one by one, and a batch is finished only when *)
(* all of its rows are.  RemediationRun implements it.                     *)
(***************************************************************************)
CONSTANTS
  Row,         \* planned rows
  Batch,       \* batches the plan is cut into
  RowsOf(_)    \* the rows of a batch

VARIABLES
  recorded,    \* rows with evidence
  finished     \* batches that will not be worked on for lack of evidence again

ledger == <<recorded, finished>>

Init == recorded = {} /\ finished = {}

Record(r) ==
  /\ r \in Row \ recorded
  /\ recorded' = recorded \cup {r}
  /\ UNCHANGED finished

Finish(b) ==
  /\ b \in Batch \ finished
  /\ RowsOf(b) \subseteq recorded
  /\ finished' = finished \cup {b}
  /\ UNCHANGED recorded

Next ==
  \/ \E r \in Row : Record(r)
  \/ \E b \in Batch : Finish(b)

Spec == Init /\ [][Next]_ledger
=============================================================================
