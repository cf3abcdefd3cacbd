------------------------- MODULE RemediationRunImpl -------------------------
(* The refinement mapping from RemediationRun to EvidenceLedger. *)
EXTENDS RemediationRun

RecordedRows == {r \in Row : Recorded(r)}

Ledger == INSTANCE EvidenceLedger WITH recorded <- RecordedRows, finished <- acked

\* Every step of queue, threads and tables is one row recorded, one batch
\* finished with all of its rows recorded, or no step of the ledger at all.
ImplementsLedger == Ledger!Spec
=============================================================================
