--------------------------- MODULE DashboardProofs ---------------------------
(***************************************************************************)
(* What the totals of the dashboard add up to, for every estate and any    *)
(* number of overlapping requests.  Of one request the rows of the plan    *)
(* are accounted for by set reasoning; the totals are sums over requests.  *)
(***************************************************************************)
EXTENDS Dashboard, BrownfieldProofs

\* The rows of a request that has ended, and did not die, wait or are executed; and
\* an executed row has one of two statuses.
Accounted(q) ==
  /\ answer[q] = "ERROR" => step[q] = "ended"
  /\ \A r \in DOMAIN executed[q] : executed[q][r] \in {"SUCCESS", "FAILED"}
  /\ step[q] \in {"new", "scan", "plan"} => DOMAIN plan[q] = {}
  /\ step[q] = "ended" /\ answer[q] # "ERROR"
       => DOMAIN plan[q] = queued[q] \cup DOMAIN executed[q]

AccountInv == \A q \in Requests : Accounted(q)

-----------------------------------------------------------------------------
(* Every planned row is accounted for.                                     *)

\* Of what one request does, the accounts of the others know nothing.
LEMMA OtherAccounts ==
  ASSUME NEW p \in Requests, AccountInv,
         UNCHANGED <<step[p], plan[p], queued[p], executed[p], answer[p]>>
  PROVE  Accounted(p)'
BY DEF AccountInv, Accounted

\* Steps preserve the account: a row leaves the queue for the evidence.
LEMMA AccountStep == Steady /\ AccountInv /\ [Next]_vars => AccountInv'
<1> SUFFICES ASSUME Steady, AccountInv, [Next]_vars PROVE AccountInv'
  OBVIOUS
<1> USE EstateAssumption DEF Steady
<1> DEFINE Others(q) ==
      \A p \in Requests \ {q} :
        UNCHANGED <<step[p], plan[p], queued[p], executed[p], answer[p]>>
<1>1. ASSUME NEW q \in Requests, Accounted(q)', Others(q) PROVE AccountInv'
  <2> SUFFICES ASSUME NEW p \in Requests PROVE Accounted(p)'
    BY DEF AccountInv
  <2>1. CASE p = q
    BY <1>1, <2>1
  <2>2. CASE p # q
    BY <1>1, <2>2, OtherAccounts
  <2> QED BY <2>1, <2>2
<1>2. \A q \in Requests : InOrder(q) /\ Accounted(q)
  BY DEF RequestInv, AccountInv
<1>3. ASSUME NEW q \in Requests, NEW project \in Askable, Request(q, project) PROVE AccountInv'
  <2>1. /\ step[q] = "new" /\ step'[q] \in {"scan", "ended"}
        /\ answer'[q] \in {answer[q], "SKIPPED"}
        /\ UNCHANGED <<plan, queued, executed>>
    BY <1>3 DEF Request, End, TypeOK, recordVars
  <2>2. Accounted(q)'
    BY <1>2, <2>1 DEF Accounted, InOrder
  <2>3. Others(q)
    BY <1>3 DEF Request, End, TypeOK, recordVars
  <2> QED BY <1>1, <2>2, <2>3
<1>4. ASSUME NEW q \in Requests, NEW project \in Projects, ScanProject(q, project)
      PROVE  AccountInv'
  <2>1. /\ step[q] = "scan" /\ step'[q] \in {"scan", "plan"}
        /\ UNCHANGED <<plan, queued, executed, answer>>
    BY <1>4 DEF ScanProject, TypeOK, recordVars
  <2>2. Accounted(q)'
    BY <1>2, <2>1 DEF Accounted
  <2>3. Others(q)
    BY <1>4 DEF ScanProject, TypeOK, recordVars
  <2> QED BY <1>1, <2>2, <2>3
<1>5. ASSUME NEW q \in Requests, CreatePlan(q) PROVE AccountInv'
  <2>1. PICK view \in [CacheKeys(q) -> published] :
          LET planned(r) == PlannedLabels(view[CacheKey(r)], r, results[q][r])
              rows == {r \in DOMAIN results[q] : Present(planned(r)) # {}}
          IN /\ plan' = [plan EXCEPT ![q] = [r \in rows |-> planned(r)]]
             /\ IF rows = {} THEN End(q, "COMPLIANT")
                ELSE step' = [step EXCEPT ![q] = "queue"] /\ UNCHANGED answer
    BY <1>5 DEF CreatePlan
  <2> DEFINE planned(r) == PlannedLabels(view[CacheKey(r)], r, results[q][r])
             rows == {r \in DOMAIN results[q] : Present(planned(r)) # {}}
  <2>2. /\ plan' = [plan EXCEPT ![q] = [r \in rows |-> planned(r)]]
        /\ IF rows = {} THEN End(q, "COMPLIANT")
           ELSE step' = [step EXCEPT ![q] = "queue"] /\ UNCHANGED answer
    BY <2>1
  <2>3. step[q] = "plan" /\ UNCHANGED <<queued, executed>>
    BY <1>5 DEF CreatePlan, recordVars
  <2> HIDE DEF planned, rows
  <2>4. DOMAIN plan'[q] = rows
    BY <2>2 DEF TypeOK
  <2>5. /\ rows = {} => step'[q] = "ended" /\ answer'[q] = "COMPLIANT"
        /\ rows # {} => step'[q] = "queue" /\ answer'[q] = answer[q]
    BY <2>2 DEF End, TypeOK
  <2>6. queued'[q] = {} /\ DOMAIN executed'[q] = {} /\ answer[q] # "ERROR"
    BY <1>2, <2>3 DEF InOrder, Accounted
  <2>7. Accounted(q)'
    BY <2>4, <2>5, <2>6 DEF Accounted
  <2>8. Others(q)
    <3>1. /\ \E s : step' = [step EXCEPT ![q] = s]
          /\ answer' = answer \/ \E a : answer' = [answer EXCEPT ![q] = a]
      BY <2>2 DEF End
    <3> QED BY <2>2, <2>3, <3>1 DEF TypeOK
  <2> QED BY <1>1, <2>7, <2>8
<1>6. ASSUME NEW q \in Requests, Enqueue(q) PROVE AccountInv'
  <2>1. /\ step[q] = "queue" /\ step'[q] = "ended" /\ answer'[q] = "QUEUED"
        /\ queued'[q] = DOMAIN plan[q]
        /\ UNCHANGED <<plan, executed>>
    BY <1>6 DEF Enqueue, End, TypeOK
  <2>2. Accounted(q)'
    BY <1>2, <2>1 DEF Accounted, InOrder
  <2>3. Others(q)
    BY <1>6 DEF Enqueue, End, TypeOK
  <2> QED BY <1>1, <2>2, <2>3
<1>7. ASSUME NEW q \in Requests, Abort(q) PROVE AccountInv'
  <2>1. step'[q] = "ended" /\ answer'[q] = "ERROR" /\ UNCHANGED <<plan, executed>>
    BY <1>7 DEF Abort, End, TypeOK
  <2>2. Accounted(q)'
    BY <1>2, <2>1 DEF Accounted
  <2>3. Others(q)
    BY <1>7 DEF Abort, End, TypeOK
  <2> QED BY <1>1, <2>2, <2>3
<1>8. ASSUME UNCHANGED <<requestVars, executed, queued>> PROVE AccountInv'
  BY <1>8, OtherAccounts DEF requestVars, AccountInv
<1>9. ASSUME NEW x \in Actors, NEW r \in Resources, NEW status, Record(x, r, status),
             x \in Requests => r \in queued[x] /\ status \in {"SUCCESS", "FAILED"},
             UNCHANGED requestVars
      PROVE  AccountInv'
  <2>1. CASE x \notin Requests
    BY <1>8, <1>9, <2>1 DEF Record
  <2>2. CASE x \in Requests
    <3>1. executed' = [executed EXCEPT ![x] = [s \in DOMAIN executed[x] \cup {r} |->
                                                IF s = r THEN status ELSE executed[x][s]]]
      BY <1>9, <2>2 DEF Record
    <3>2. queued' = [queued EXCEPT ![x] = queued[x] \ {r}]
      BY <1>9, <2>2 DEF Record
    <3>3. /\ DOMAIN executed'[x] = DOMAIN executed[x] \cup {r}
          /\ \A s \in DOMAIN executed[x] \cup {r} :
               executed'[x][s] = IF s = r THEN status ELSE executed[x][s]
      BY <2>2, <3>1 DEF TypeOK
    <3>4. r \in queued[x] /\ queued'[x] = queued[x] \ {r} /\ UNCHANGED <<step, plan, answer>>
      BY <1>9, <2>2, <3>2 DEF TypeOK, requestVars
    <3>5. step[x] = "ended"
      BY <1>2, <2>2, <3>4 DEF InOrder
    <3>6. Accounted(x)'
      BY <1>2, <1>9, <2>2, <3>3, <3>4, <3>5 DEF Accounted
    <3>7. Others(x)
      BY <3>1, <3>2, <3>4 DEF TypeOK
    <3> QED BY <1>1, <2>2, <3>6, <3>7
  <2> QED BY <2>1, <2>2
<1>10. ASSUME NEW q \in Requests, NEW r \in Resources, Execute(q, r) PROVE AccountInv'
  <2>1. q \in Actors /\ r \in queued[q] /\ UNCHANGED requestVars
    BY <1>10 DEF Execute, Actors
  <2>2. UNCHANGED recordVars \/ Record(q, r, "FAILED")
    BY <1>10 DEF Execute
  <2> QED BY <1>8, <1>9, <2>1, <2>2 DEF recordVars
<1>11. ASSUME NEW x \in Actors, NEW r \in Resources, Apply(x, r) \/ Refused(x, r)
       PROVE  AccountInv'
  <2>1. /\ <<x, r>> \in DOMAIN actions /\ UNCHANGED requestVars
        /\ \E status \in {"SUCCESS", "FAILED"} : Record(x, r, status)
    BY <1>11 DEF Apply, Refused
  <2> QED BY <1>9, <2>1, ActionIsQueued
<1>12. ASSUME NEW e \in Events, NEW r \in Touched, NEW seed \in UserValues, Tell(e, r, seed)
       PROVE  AccountInv'
  <2>1. e \in Actors /\ e \notin Requests /\ r \in Resources /\ UNCHANGED requestVars
    BY <1>12 DEF Tell, Actors
  <2>2. UNCHANGED recordVars \/ Record(e, r, "FAILED")
    BY <1>12 DEF Tell
  <2> QED BY <1>8, <1>9, <2>1, <2>2 DEF recordVars
<1>13. ASSUME NEW e \in Events, React(e) PROVE AccountInv'
  <2>1. e \in Actors /\ e \notin Requests /\ told[e].about \in Resources /\ UNCHANGED requestVars
    BY <1>13 DEF React, Actors, TypeOK
  <2>2. UNCHANGED recordVars \/ \E status : Record(e, told[e].about, status)
    BY <1>13 DEF React
  <2> QED BY <1>8, <1>9, <2>1, <2>2 DEF recordVars
<1>14. ASSUME NEW r, NEW k, NEW v, EditLabel(r, k, v) PROVE AccountInv'
  BY <1>8, <1>14 DEF EditLabel, recordVars
<1>15. ASSUME NEW reg, EditRegistry(reg) PROVE AccountInv'
  BY <1>8, <1>15 DEF EditRegistry, recordVars
<1>16. CASE Settle \/ UNCHANGED vars
  BY <1>8, <1>16 DEF Settle, vars, recordVars
<1> QED BY <1>3, <1>4, <1>5, <1>6, <1>7, <1>10, <1>11, <1>12, <1>13, <1>14, <1>15, <1>16
     DEF Next, Run

\* The accounts hold in every state, beside what is known of requests.
LEMMA AccountInvariant == Spec => [](TypeOK /\ RequestInv /\ AccountInv)
<1>1. Init => AccountInv
  BY DEF Init, AccountInv, Accounted, None
<1>2. Steady /\ AccountInv /\ [Next]_vars => AccountInv'
  BY AccountStep
<1>3. Steady => TypeOK /\ RequestInv
  BY DEF Steady
<1> QED BY <1>1, <1>2, <1>3, Invariant, PTL DEF Spec

-----------------------------------------------------------------------------
(* Totals.                                                                 *)

\* What a request that did not die contributes: its planned rows are those that wait
\* and those that are executed, and the latter succeeded or failed.
LEMMA RowsAddUp ==
  ASSUME TypeOK, RequestInv, AccountInv, NEW q \in Requests, answer[q] # "ERROR", NEW scope
  PROVE  LET executedRows == ExecutedIn(q, scope)
             done   == {r \in executedRows : executed[q][r] = "SUCCESS"}
             failed == {r \in executedRows : executed[q][r] = "FAILED"}
             waits  == WaitingOf(q) \cap InScope(scope)
         IN /\ {Cardinality(executedRows), Cardinality(done), Cardinality(failed),
                Cardinality(waits)} \subseteq Nat
            /\ Cardinality(DOMAIN plan[q] \cap InScope(scope))
                 = Cardinality(waits) + Cardinality(executedRows)
            /\ Cardinality(executedRows) = Cardinality(done) + Cardinality(failed)
<1> DEFINE executedRows == ExecutedIn(q, scope)
           done   == {r \in executedRows : executed[q][r] = "SUCCESS"}
           failed == {r \in executedRows : executed[q][r] = "FAILED"}
           waits  == WaitingOf(q) \cap InScope(scope)
           rows   == DOMAIN plan[q] \cap InScope(scope)
<1>1. Accounted(q) /\ InOrder(q)
  BY DEF AccountInv, RequestInv
<1>2. rows = waits \cup executedRows /\ waits \cap executedRows = {}
  <2>1. /\ DOMAIN plan[q] = WaitingOf(q) \cup DOMAIN executed[q]
        /\ WaitingOf(q) \cap DOMAIN executed[q] = {}
    <3>1. step[q] \in {"new", "scan", "plan", "queue", "ended"}
      BY DEF TypeOK
    <3>2. queued[q] \subseteq DOMAIN plan[q] /\ DOMAIN executed[q] \subseteq DOMAIN plan[q] \ queued[q]
      BY DEF TypeOK
    <3> QED BY <1>1, <3>1, <3>2 DEF Accounted, InOrder, WaitingOf
  <2> QED BY <2>1 DEF ExecutedIn
<1>3. executedRows = done \cup failed /\ done \cap failed = {}
  BY <1>1 DEF Accounted, ExecutedIn
<1>4. /\ IsFiniteSet(executedRows) /\ IsFiniteSet(done)
      /\ IsFiniteSet(failed) /\ IsFiniteSet(waits)
  <2>1. InScope(scope) \subseteq Resources
    BY DEF InScope
  <2>2. /\ executedRows \subseteq Resources /\ waits \subseteq Resources
        /\ done \subseteq Resources /\ failed \subseteq Resources
    BY <2>1 DEF ExecutedIn
  <2> QED BY <2>2, DashboardAssumption, FS_Subset
<1>5. /\ Cardinality(rows) = Cardinality(waits) + Cardinality(executedRows)
      /\ Cardinality(executedRows) = Cardinality(done) + Cardinality(failed)
  <2> HIDE DEF rows, waits, executedRows, done, failed
  <2> QED BY <1>2, <1>3, <1>4, DisjointCount
<1>6. {Cardinality(executedRows), Cardinality(done), Cardinality(failed),
       Cardinality(waits)} \subseteq Nat
  BY <1>4, FS_CardinalityType
<1> QED BY <1>5, <1>6

\* Both totals of planned rows, and the two of executed ones.
LEMMA TotalsAddUp ==
  ASSUME TypeOK, RequestInv, AccountInv, \A q \in Requests : answer[q] # "ERROR", NEW scope
  PROVE  LET allExecuted == SumFunction([q \in Requests |-> Cardinality(ExecutedIn(q, scope))])
         IN /\ {allExecuted, Waiting(scope), Completed(scope), Failed(scope)} \subseteq Int
            /\ Planned(scope) = Waiting(scope) + allExecuted
            /\ allExecuted = Completed(scope) + Failed(scope)
<1> DEFINE planned == [q \in Requests |-> Cardinality(DOMAIN plan[q] \cap InScope(scope))]
           waits   == [q \in Requests |-> Cardinality(WaitingOf(q) \cap InScope(scope))]
           done    == [q \in Requests |->
                         Cardinality({r \in ExecutedIn(q, scope) : executed[q][r] = "SUCCESS"})]
           failed  == [q \in Requests |->
                         Cardinality({r \in ExecutedIn(q, scope) : executed[q][r] = "FAILED"})]
           ran     == [q \in Requests |-> Cardinality(ExecutedIn(q, scope))]
<1>1. \A q \in Requests :
        /\ waits[q] \in Int /\ ran[q] \in Int /\ done[q] \in Int /\ failed[q] \in Int
        /\ planned[q] = waits[q] + ran[q]
        /\ ran[q] = done[q] + failed[q]
  BY RowsAddUp
<1>2. /\ Planned(scope) = SumFunctionOnSet(planned, Requests)
      /\ Waiting(scope) = SumFunctionOnSet(waits, Requests)
      /\ Completed(scope) = SumFunctionOnSet(done, Requests)
      /\ Failed(scope) = SumFunctionOnSet(failed, Requests)
      /\ SumFunction(ran) = SumFunctionOnSet(ran, Requests)
  BY DEF Planned, Waiting, Completed, Failed, SumFunction
<1> HIDE DEF planned, waits, done, failed, ran
<1>3. SumFunctionOnSet(planned, Requests)
        = SumFunctionOnSet(waits, Requests) + SumFunctionOnSet(ran, Requests)
  BY <1>1, DashboardAssumption, SumPlus
<1>4. SumFunctionOnSet(ran, Requests)
        = SumFunctionOnSet(done, Requests) + SumFunctionOnSet(failed, Requests)
  BY <1>1, DashboardAssumption, SumPlus
<1>5. {SumFunctionOnSet(f, Requests) : f \in {waits, ran, done, failed}} \subseteq Int
  BY <1>1, DashboardAssumption, SumType
<1> QED BY <1>2, <1>3, <1>4, <1>5 DEF ran

\* What brownfield_summary shows as remaining is the work that waits, whatever requests
\* overlap, as long as none has died: a row that failed is not shown as remaining.
THEOREM RemainingWaits == Spec => []RemainingIsWaiting
<1>1. TypeOK /\ RequestInv /\ AccountInv => RemainingIsWaiting
  <2> SUFFICES ASSUME TypeOK, RequestInv, AccountInv, \A q \in Requests : answer[q] # "ERROR", NEW scope
               PROVE  Remaining(scope) = Waiting(scope)
    BY DEF RemainingIsWaiting
  <2> DEFINE allExecuted == SumFunction([q \in Requests |-> Cardinality(ExecutedIn(q, scope))])
  <2>1. /\ {allExecuted, Waiting(scope), Completed(scope), Failed(scope)} \subseteq Int
        /\ Planned(scope) = Waiting(scope) + allExecuted
        /\ allExecuted = Completed(scope) + Failed(scope)
    BY TotalsAddUp
  <2> HIDE DEF allExecuted
  <2> QED BY <2>1 DEF Remaining
<1> QED BY <1>1, AccountInvariant, PTL

\* The estate's remaining_remediations falls short of what waits by one for each resource
\* that has ever had an event.
THEOREM EstateFallsShort == Spec => []EstateOffByEvents
<1>1. TypeOK /\ RequestInv /\ AccountInv => EstateOffByEvents
  <2> SUFFICES ASSUME TypeOK, RequestInv, AccountInv, \A q \in Requests : answer[q] # "ERROR", NEW scope
               PROVE  EstateRemaining(scope) = Waiting(scope) - Cardinality(EventGroups(scope))
    BY DEF EstateOffByEvents
  <2>1. Cardinality(EventGroups(scope)) \in Nat
    <3>1. EventGroups(scope) \subseteq Resources
      BY DEF EventGroups, InScope
    <3> QED BY <3>1, DashboardAssumption, FS_Subset, FS_CardinalityType
  <2> QED BY <2>1, TotalsAddUp DEF EstateRemaining, EstateExecuted
<1> QED BY <1>1, AccountInvariant, PTL

=============================================================================
