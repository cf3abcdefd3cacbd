----------------------------- MODULE Dashboard -----------------------------
(***************************************************************************)
(* GET /reports/dashboard over the tables that Brownfield fills: the       *)
(* totals of the estate and of brownfield, for the whole organization or   *)
(* for one project.  All rows of greenfield have one run_id, "GREENFIELD". *)
(***************************************************************************)
EXTENDS Brownfield, Functions

\* What Asset Inventory answers with is finite, and so are the requests of a trace.
ASSUME DashboardAssumption == IsFiniteSet(Requests) /\ IsFiniteSet(Resources)

\* _scope_filter, as the set of resources whose rows pass it.
InScope(scope) == {r \in Resources : scope = All \/ ProjectOf[r] = scope}

Planned(scope) ==
  SumFunction([q \in Requests |-> Cardinality(DOMAIN plan[q] \cap InScope(scope))])

-----------------------------------------------------------------------------
(* brownfield_summary: runs with a plan, each with its own executions.     *)

\* Mutant of ExecutedIn: rows are ranked by resource alone, without their run.
ExecutedOnce(q, scope) ==
  {r \in DOMAIN executed[q] \cap InScope(scope) :
     q = CHOOSE p \in Requests : r \in DOMAIN executed[p]}

ExecutedIn(q, scope) == DOMAIN executed[q] \cap InScope(scope)

Completed(scope) ==
  SumFunction([q \in Requests |->
                 Cardinality({r \in ExecutedIn(q, scope) : executed[q][r] = "SUCCESS"})])
Failed(scope) ==
  SumFunction([q \in Requests |->
                 Cardinality({r \in ExecutedIn(q, scope) : executed[q][r] = "FAILED"})])

Remaining(scope) == Planned(scope) - Completed(scope) - Failed(scope)

-----------------------------------------------------------------------------
(* _dashboard_summary: all plans against all executions.                   *)

EventGroups(scope) == heard \cap InScope(scope)

EstateExecuted(scope) ==
  SumFunction([q \in Requests |-> Cardinality(ExecutedIn(q, scope))])
    + Cardinality(EventGroups(scope))

EstateRemaining(scope) == Planned(scope) - EstateExecuted(scope)

-----------------------------------------------------------------------------
(* Properties.                                                             *)

Scopes == Projects \cup {All}

\* Rows that wait for a worker, or for their task.
WaitingOf(q) == IF step[q] = "queue" THEN DOMAIN plan[q] ELSE queued[q]

Waiting(scope) == SumFunction([q \in Requests |-> Cardinality(WaitingOf(q) \cap InScope(scope))])

\* What brownfield_summary shows as remaining is the work under way, of all requests
\* together and of each project: failed rows do not count as remaining, and nothing
\* remains when the queue is empty.  Only rows whose request died remain for ever.
RemainingIsWaiting ==
  (\A q \in Requests : answer[q] # "ERROR") =>
    \A scope \in Scopes : Remaining(scope) = Waiting(scope)

\* remaining_remediations of the estate is off by the events of greenfield: each
\* resource that has ever had one hides a planned row, or makes the number negative.
EstateOffByEvents ==
  (\A q \in Requests : answer[q] # "ERROR") =>
    \A scope \in Scopes :
      EstateRemaining(scope) = Waiting(scope) - Cardinality(EventGroups(scope))

=============================================================================
