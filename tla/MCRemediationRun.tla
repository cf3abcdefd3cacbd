-------------------------- MODULE MCRemediationRun --------------------------
(* Three rows in batches of two: a full page and a partial one. *)
EXTENDS RemediationRun, TLC

OneOrder == {[r \in Row |-> r]}

\* Row 1 can fail or succeed, row 2 was deleted meanwhile, row 3 is patched.
MCFate == (1 :> {"updated", "failed"}) @@ (2 :> {"bypassed"}) @@ (3 :> {"updated"})

=============================================================================
