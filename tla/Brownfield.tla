----------------------------- MODULE Brownfield -----------------------------
(***************************************************************************)
(* The labels of an estate, and who writes them: requests to               *)
(* GET /brownfield, which may overlap, the workers that execute their      *)
(* plans, audit events of projects that reach greenfield meanwhile, and    *)
(* users; owners edit the registry.                                        *)
(*                                                                         *)
(* A request scans its projects one by one, makes one plan of all results  *)
(* and creates tasks for it.  RemediationRun has the queue in detail,      *)
(* LabelWriter the calls of one action, Greenfield the delivery of events, *)
(* RegistryCache how old an answer of the registry can be; here a planned  *)
(* row is executed once, and an action reads a resource in one step and    *)
(* writes it in another.  The client reads it once more in between, which  *)
(* has no step: an update that is refused since the version is stale has   *)
(* reread before the last write of others, one that succeeds after it.     *)
(***************************************************************************)
EXTENDS Scope, Validation

Adapter == INSTANCE Adapters

CONSTANTS
  Requests,       \* requests, and the run_id each of them draws
  All,            \* a request without a project parameter
  Askable,        \* what requests ask for
  Registries,     \* what owners may publish, and what a load may come by
  Estates,        \* labels the resources may carry at first
  ClientOf,       \* what client_for answers for the type of a resource
  Touched,        \* the resources users create or edit
  UserValues,     \* what users set labels to
  Events,         \* audit events
  MaxTrouble      \* bound on edits and faults together

ASSUME EstateAssumption ==
  /\ Askable \subseteq Projects \cup {All}
  /\ Estates \subseteq [Resources -> Labels]
  /\ \A reg \in Registries : IsRegistry(reg)
  /\ UserValues \subseteq Values \cup {Absent}
  /\ Touched \subseteq Resources
  /\ Events \cap Requests = {}
  /\ MaxTrouble \in Nat

ASSUME ClientAssumption ==
  /\ ClientOf \in [Resources -> Adapter!ClientType]
  /\ \A r \in Resources : TypeOf[r] = Container => ClientOf[r] = Adapter!ResourceManager
  /\ Adapter!StrippedKeys \cap ProjectKeys = {}

VARIABLES
  registry,   \* what the bucket holds
  published,  \* the registries that load_all may still answer with
  labels,     \* resource -> its labels
  step,       \* request -> where it is
  asked,      \* request -> its project parameter
  todo,       \* request -> projects it has yet to scan
  results,    \* request -> compliance results, by resource
  plan,       \* request -> its rows in remediation_plan: planned_labels, by resource
  queued,     \* request -> rows that wait in Cloud Tasks
  executed,   \* request -> latest status in remediation_execution, by resource
  answer,     \* request -> "status" of its response
  inventory,  \* resources in resource_snapshot
  told,       \* events that have come -> the resource and the seed they carry
  unread,     \* those of them that wait to be evaluated
  heard,      \* resources with GREENFIELD rows in remediation_execution
  actions,    \* <<who executes, resource>> -> its action, when it has read the resource
  calm,       \* requests during which nobody edited and nothing failed (history)
  edits, faults

registryVars == <<registry, published>>
requestVars  == <<step, asked, todo, results, plan, answer, inventory>>
eventVars    == <<told, unread>>
recordVars   == <<queued, executed, heard>>
vars == <<registryVars, labels, requestVars, eventVars, recordVars, actions, calm, edits, faults>>

None == [r \in {} |-> Nothing]

Result == [compliant : BOOLEAN, missing : SUBSET (Keys \cup {SeedMissing}),
           incorrect : SUBSET Keys]

Actors == Requests \cup Events

\* What an action has in hand: the labels it has read, those it is asked for, and who has
\* had a hand in the labels of the resource since (history).
Action == [read : Labels, desired : Labels, since : SUBSET {"user", "program"}]

\* Mutant of PlannedLabels: incorrect keys are planned instead of missing ones.
PlannedIncorrect(reg, r, result) ==
  LET expected == ExpectedLabels(reg, ProjectOf[r], Absent, TypeOf[r])
  IN [k \in Keys |-> IF k \in result.incorrect THEN expected[k] ELSE Absent]

\* Mutant of PlannedLabels: the cache key leaves the project out.
PlannedFromCache(reg, r, result) ==
  LET expected == ExpectedLabels(reg, CHOOSE p \in Projects : TRUE, Absent, TypeOf[r])
  IN IF result.compliant THEN Nothing
     ELSE [k \in Keys |-> IF k \in result.missing THEN expected[k] ELSE Absent]

\* PlannerService.create, one result: missing keys alone are planned, from an
\* expectation that is asked without a seed, since results carry no labels.
PlannedLabels(reg, r, result) ==
  LET expected == ExpectedLabels(reg, ProjectOf[r], Absent, TypeOf[r])
  IN IF result.compliant THEN Nothing
     ELSE [k \in Keys |-> IF k \in result.missing THEN expected[k] ELSE Absent]

\* Mutant of FinalLabels: planned values replace what is there.
FinalOverwrites(r, existing, planned) ==
  [k \in Keys |-> IF k \in ClientOf[r].stripped THEN Absent ELSE Over(planned, existing)[k]]

\* build, and the keys popped from a project.
FinalLabels(r, existing, planned) ==
  [k \in Keys |-> IF k \in ClientOf[r].stripped THEN Absent ELSE Over(existing, planned)[k]]

\* What apply_labels may make of the labels of a resource: the Target of LabelWriter,
\* whatever PRESERVE_EXISTING_LABELS, and whatever a client that removes has reread.
Written(r, final, current) ==
  CASE ClientOf[r].way = "replace" -> {final}
    [] ClientOf[r].way = "remove" ->
         {[k \in Keys |-> IF k \in reread THEN final[k] ELSE Over(final, current)[k]] :
            reread \in SUBSET Keys}
    [] ClientOf[r].way \in {"patch", "reconcile"} -> {Over(final, current)}
    [] ClientOf[r].way = "complete" -> {Over(current, final), Over(final, current)}

-----------------------------------------------------------------------------

\* Types of the state.
TypeOK ==
  /\ registry \in published /\ published \subseteq Registries
  /\ labels \in [Resources -> Labels]
  /\ step \in [Requests -> {"new", "scan", "plan", "queue", "ended"}]
  /\ asked \in [Requests -> Projects \cup {All}]
  /\ todo \in [Requests -> SUBSET Projects]
  /\ queued \in [Requests -> SUBSET Resources]
  /\ Requests = DOMAIN results /\ Requests = DOMAIN plan /\ Requests = DOMAIN executed
  /\ \A q \in Requests :
       /\ DOMAIN results[q] \subseteq Resources
       /\ \A r \in DOMAIN results[q] : results[q][r] \in Result
       /\ DOMAIN plan[q] \subseteq Resources
       /\ \A r \in DOMAIN plan[q] : plan[q][r] \in Labels
       /\ queued[q] \subseteq DOMAIN plan[q]
       /\ DOMAIN executed[q] \subseteq DOMAIN plan[q] \ queued[q]
  /\ answer \in [Requests -> {"none", "SKIPPED", "COMPLIANT", "QUEUED", "ERROR"}]
  /\ inventory \subseteq Resources
  /\ unread \subseteq DOMAIN told /\ DOMAIN told \subseteq Events
  /\ \A e \in DOMAIN told : told[e] \in [about : Resources, seed : UserValues]
  /\ heard \subseteq Resources
  /\ DOMAIN actions \subseteq Actors \X Resources
  /\ \A a \in DOMAIN actions : actions[a] \in Action
  /\ calm \subseteq Requests
  /\ edits \in Nat /\ faults \in Nat /\ edits + faults <= MaxTrouble

Init ==
  /\ registry \in Registries /\ published = {registry}
  /\ labels \in Estates
  /\ step = [q \in Requests |-> "new"]
  /\ asked = [q \in Requests |-> All]
  /\ todo = [q \in Requests |-> {}]
  /\ results = [q \in Requests |-> None]
  /\ plan = [q \in Requests |-> None]
  /\ queued = [q \in Requests |-> {}]
  /\ executed = [q \in Requests |-> None]
  /\ answer = [q \in Requests |-> "none"]
  /\ inventory = {}
  /\ told = None /\ unread = {} /\ heard = {}
  /\ actions = None
  /\ calm = {}
  /\ edits = 0 /\ faults = 0

Fault   == edits + faults < MaxTrouble /\ faults' = faults + 1 /\ calm' = {}
NoFault == UNCHANGED <<faults, calm>>

End(q, status) ==
  /\ step' = [step EXCEPT ![q] = "ended"]
  /\ answer' = [answer EXCEPT ![q] = status]

-----------------------------------------------------------------------------
(* A request.                                                              *)

\* brownfield_endpoint: nothing is done where no project is in scope.
Request(q, project) ==
  LET scope == IF project = All THEN AllActiveProjects ELSE {project} IN
  /\ step[q] = "new"
  /\ asked' = [asked EXCEPT ![q] = project]
  /\ todo' = [todo EXCEPT ![q] = scope]
  /\ calm' = IF published = {registry} THEN calm \cup {q} ELSE calm
  /\ IF scope = {} THEN End(q, "SKIPPED")
     ELSE step' = [step EXCEPT ![q] = "scan"] /\ UNCHANGED answer
  /\ UNCHANGED <<registryVars, labels, results, plan, inventory, eventVars, recordVars,
                 actions, edits, faults>>

\* get_enabled_apis: where the list cannot be read, no API is enabled.
EnabledApis(project) == {Enabled[project], {}}

\* save_inventory: a refused insert is only logged.
SaveInventory(found, saved) == inventory' = IF saved THEN inventory \cup found ELSE inventory

\* discover and evaluate.  The refreshed registry is not kept: expected_labels asks the
\* cache again, once for all resources of a project, type and seed, and the projects
\* alone get that far, since no resource is discovered with a seed.
ScanProject(q, project) ==
  /\ step[q] = "scan"
  /\ project \in todo[q]
  /\ \A p \in todo[q] : Rank[project] <= Rank[p]
  /\ \E apis \in EnabledApis(project), saved \in BOOLEAN, reg \in published :
       LET found == Discover(project, apis)
           result(r) == Evaluate(reg, project, TypeOf[r], DiscoveredLabels(r))
       IN /\ IF apis = Enabled[project] /\ saved THEN NoFault ELSE Fault
          /\ results' = [results EXCEPT ![q] =
                           [r \in found \cup DOMAIN @ |-> IF r \in found THEN result(r) ELSE @[r]]]
          /\ SaveInventory(found, saved)
  /\ todo' = [todo EXCEPT ![q] = @ \ {project}]
  /\ step' = [step EXCEPT ![q] = IF todo[q] = {project} THEN "plan" ELSE "scan"]
  /\ UNCHANGED <<registryVars, labels, asked, plan, answer, eventVars, recordVars, actions, edits>>

\* What create asks its own reader for, once each: cache_key, of what is not compliant.
CacheKey(r)   == <<ProjectOf[r], TypeOf[r]>>
CacheKeys(q) == {CacheKey(r) : r \in {s \in DOMAIN results[q] : ~results[q][s].compliant}}

\* create and save; an empty plan ends the request.
CreatePlan(q) ==
  /\ step[q] = "plan"
  /\ \E view \in [CacheKeys(q) -> published] :
       LET planned(r) == PlannedLabels(view[CacheKey(r)], r, results[q][r])
           rows == {r \in DOMAIN results[q] : Present(planned(r)) # {}}
       IN /\ plan' = [plan EXCEPT ![q] = [r \in rows |-> planned(r)]]
          /\ IF rows = {} THEN End(q, "COMPLIANT")
             ELSE step' = [step EXCEPT ![q] = "queue"] /\ UNCHANGED answer
  /\ UNCHANGED <<registryVars, labels, asked, todo, results, inventory, eventVars, recordVars,
                 actions, calm, edits, faults>>

\* execute_run: tasks for every row.
Enqueue(q) ==
  /\ step[q] = "queue"
  /\ queued' = [queued EXCEPT ![q] = DOMAIN plan[q]]
  /\ End(q, "QUEUED")
  /\ UNCHANGED <<registryVars, labels, asked, todo, results, plan, inventory, eventVars,
                 executed, heard, actions, calm, edits, faults>>

\* Something raises, or the process is killed; tasks may have been created before.
Abort(q) ==
  /\ step[q] \in {"scan", "plan", "queue"}
  /\ Fault
  /\ \E rows \in SUBSET DOMAIN plan[q] : queued' = [queued EXCEPT ![q] = rows]
  /\ End(q, "ERROR")
  /\ UNCHANGED <<registryVars, labels, asked, todo, results, plan, inventory, eventVars,
                 executed, heard, actions, edits>>

-----------------------------------------------------------------------------
(* Actions of the executor, for a row of a plan or for an event.           *)

\* The actions of S go on, and know who has had a hand in the labels of r meanwhile.
Onward(S, r, who) ==
  [a \in S |-> IF a[2] = r THEN [actions[a] EXCEPT !.since = @ \cup who] ELSE actions[a]]

\* client.get answers.
Begin(x, r, desired) ==
  actions' = [a \in DOMAIN actions \cup {<<x, r>>} |->
                IF a = <<x, r>> THEN [read |-> labels[r], desired |-> desired, since |-> {}]
                ELSE actions[a]]

\* Mutant of Record: an action that failed leaves no row.
RecordUnlessFailed(x, r, status) ==
  /\ queued' = IF x \in Requests THEN [queued EXCEPT ![x] = @ \ {r}] ELSE queued
  /\ executed' = IF x \in Requests /\ status # "FAILED"
                   THEN [executed EXCEPT ![x] = [s \in DOMAIN @ \cup {r} |->
                                                  IF s = r THEN status ELSE @[s]]]
                   ELSE executed
  /\ heard' = IF x \in Events THEN heard \cup {r} ELSE heard

\* The row of an action: of the run with its status, or of greenfield.
Record(x, r, status) ==
  /\ queued' = IF x \in Requests THEN [queued EXCEPT ![x] = @ \ {r}] ELSE queued
  /\ executed' = IF x \in Requests
                   THEN [executed EXCEPT ![x] = [s \in DOMAIN @ \cup {r} |->
                                                  IF s = r THEN status ELSE @[s]]]
                   ELSE executed
  /\ heard' = IF x \in Events THEN heard \cup {r} ELSE heard

\* A worker takes up a row of a plan and reads the resource, or fails to.
Execute(q, r) ==
  /\ r \in queued[q]
  /\ <<q, r>> \notin DOMAIN actions
  /\ \/ Begin(q, r, plan[q][r]) /\ NoFault /\ UNCHANGED recordVars
     \/ Fault /\ Record(q, r, "FAILED") /\ UNCHANGED actions
  /\ UNCHANGED <<registryVars, labels, requestVars, eventVars, edits>>

\* apply_labels, with the final_labels of the first reading, however old it is.
Apply(x, r) ==
  LET action == actions[<<x, r>>]
      final  == FinalLabels(r, action.read, action.desired)
  IN /\ <<x, r>> \in DOMAIN actions
     /\ \E written \in Written(r, final, labels[r]) : labels' = [labels EXCEPT ![r] = written]
     /\ actions' = Onward(DOMAIN actions \ {<<x, r>>}, r, {"program"} \cup action.since)
     /\ Record(x, r, "SUCCESS")
     /\ UNCHANGED <<registryVars, requestVars, eventVars, calm, edits, faults>>

\* It is refused: the version is stale, since somebody has written, or there is a fault.
\* A client that returns False has the executor report success.
Refused(x, r) ==
  /\ <<x, r>> \in DOMAIN actions
  /\ \/ ClientOf[r].checked /\ actions[<<x, r>>].since # {} /\ NoFault
     \/ Fault
  /\ actions' = Onward(DOMAIN actions \ {<<x, r>>}, r, {})
  /\ Record(x, r, IF ClientOf[r].raises THEN "FAILED" ELSE "SUCCESS")
  /\ UNCHANGED <<registryVars, labels, requestVars, eventVars, edits>>

-----------------------------------------------------------------------------
(* GreenfieldService.process, of an event about one resource.              *)

\* It is told the resource and the product its request carries, without which nothing
\* is done.  Nothing is asked about environment, engine or exclusions.
Tell(e, r, seed) ==
  /\ e \notin DOMAIN told
  /\ TypeOf[r] \in Supported
  /\ told' = [d \in DOMAIN told \cup {e} |->
                IF d = e THEN [about |-> r, seed |-> seed] ELSE told[d]]
  /\ IF seed = Absent THEN Record(e, r, "FAILED") /\ UNCHANGED unread
     ELSE unread' = unread \cup {e} /\ UNCHANGED recordVars
  /\ UNCHANGED <<registryVars, labels, requestVars, actions, calm, edits, faults>>

\* evaluate asks one reader and expected_labels another, before the executor reads the
\* resource; a row is left whatever becomes of it.
React(e) ==
  LET r    == told[e].about
      seed == told[e].seed
  IN /\ e \in unread
     /\ unread' = unread \ {e}
     /\ \/ /\ NoFault
           /\ \E judged \in published :
                IF Evaluate(judged, ProjectOf[r], TypeOf[r], Nothing).compliant
                  THEN Record(e, r, "COMPLIANT") /\ UNCHANGED actions
                  ELSE /\ \E reg \in published :
                            Begin(e, r, ExpectedLabels(reg, ProjectOf[r], seed, TypeOf[r]))
                       /\ UNCHANGED recordVars
        \/ Fault /\ Record(e, r, "FAILED") /\ UNCHANGED actions
     /\ UNCHANGED <<registryVars, labels, requestVars, told, edits>>

-----------------------------------------------------------------------------
(* Users, owners and time.                                                 *)

Edit == edits + faults < MaxTrouble /\ edits' = edits + 1 /\ calm' = {}

EditLabel(r, k, v) ==
  /\ Edit
  /\ labels[r][k] # v
  /\ labels' = [labels EXCEPT ![r][k] = v]
  /\ actions' = Onward(DOMAIN actions, r, {"user"})
  /\ UNCHANGED <<registryVars, requestVars, eventVars, recordVars, faults>>

FilesOf(reg) == {reg[i] : i \in DOMAIN reg}

\* From here on an answer may be the new registry, an older one that the cache holds
\* or falls back to, or a load that found some files in one and some in another.
EditRegistry(reg) ==
  /\ Edit
  /\ registry # reg
  /\ registry' = reg
  /\ published' = {b \in Registries :
                     FilesOf(b) \subseteq UNION {FilesOf(p) : p \in published \cup {reg}}}
  /\ UNCHANGED <<labels, requestVars, eventVars, recordVars, actions, faults>>

\* Nothing that has read the registry is under way.
Idle == /\ \A q \in Requests : step[q] \in {"new", "ended"} /\ queued[q] = {}
        /\ unread = {} /\ DOMAIN actions = {}

\* RegistryCache!AnswersFreshEnough: in time every answer is of what the bucket holds.
Settle ==
  /\ Idle
  /\ published # {registry}
  /\ published' = {registry}
  /\ UNCHANGED <<registry, labels, requestVars, eventVars, recordVars, actions, calm, edits, faults>>

Run(q) ==
  \/ \E project \in Askable : Request(q, project)
  \/ \E project \in Projects : ScanProject(q, project)
  \/ CreatePlan(q)
  \/ Enqueue(q)
  \/ Abort(q)
  \/ \E r \in Resources : Execute(q, r)

Next ==
  \/ \E q \in Requests : Run(q)
  \/ \E x \in Actors, r \in Resources : Apply(x, r) \/ Refused(x, r)
  \/ \E e \in Events, r \in Touched, seed \in UserValues : Tell(e, r, seed)
  \/ \E e \in Events : React(e)
  \/ \E r \in Touched, k \in Keys, v \in UserValues : EditLabel(r, k, v)
  \/ \E reg \in Registries : EditRegistry(reg)
  \/ Settle

Spec == Init /\ [][Next]_vars

-----------------------------------------------------------------------------
(* Properties.                                                             *)

\* The resources that request q may touch.
Covered(q) ==
  LET scope == IF asked[q] = All THEN AllActiveProjects ELSE {asked[q]}
  IN {r \in Resources : /\ ProjectOf[r] \in scope \ {EngineProject}
                        /\ TypeOf[r] \in Supported
                        /\ ~FilteredByName(r)}

Required(r) == ExpectedLabels(registry, ProjectOf[r], labels[r][Seed], TypeOf[r])

Finished(q) == answer[q] \in {"COMPLIANT", "QUEUED"} /\ queued[q] = {}

\* After a request that nobody disturbed, no project it covers lacks a key its
\* baseline requires, whatever other requests and events did at the same time: an
\* update that others have made stale is given up, and theirs has filled the gap.
RunFillsGaps ==
  \A q \in calm : Finished(q) =>
    \A r \in Covered(q) : TypeOf[r] = Container => Missing(Required(r), labels[r]) = {}

\* The actions on r that end in this step.
Ending(r) == {a \in DOMAIN actions \ DOMAIN actions' : a[2] = r}

\* Governance never invents metadata for an unbound project: what the program adds
\* to a resource is a value that an application bound to its project carries, in a
\* registry that the bucket holds or has held of late, or one that it carried when the
\* action read it, and that others have changed meanwhile.
AddsOnlyBoundValues ==
  [][edits' = edits =>
       \A r \in Resources : \A k \in Keys :
         labels'[r][k] \notin {labels[r][k], Absent} =>
           \/ \E reg \in published : \E i \in Bound(reg, ProjectOf[r]) :
                labels'[r][k] \in {reg[i].root[k], reg[i].bindings[ProjectOf[r]][k]}
           \/ \E a \in Ending(r) :
                actions[a].since # {} /\ actions[a].read[k] = labels'[r][k]]_vars

\* The program leaves what it has found as it was, but for the keys popped from projects:
\* it only replaces or erases what its action has not seen.  While the registry is at
\* rest that takes a user's hand in a project, during the action or during another that
\* wrote meanwhile: the program does not undo its own work.
RunKeepsValues ==
  [][edits' = edits =>
       \A r \in Resources : \A k \in Keys \ ClientOf[r].stripped :
         labels[r][k] # Absent /\ labels'[r][k] # labels[r][k] =>
           \E a \in Ending(r) :
             /\ actions[a].since # {} /\ actions[a].read[k] # labels[r][k]
             /\ TypeOf[r] = Container /\ published = {registry} => "user" \in actions[a].since]_vars

\* What changes without an edit changes on account of an event that names it or of a
\* request that covers it: neither the labels nor the inventory know of the engine's
\* project, of another environment, of default or excluded resources, and the plans of
\* requests that overlap do not mix.
RunStaysInScope ==
  [][edits' = edits =>
       \A r \in Resources :
         labels'[r] # labels[r] \/ (r \in inventory') # (r \in inventory) =>
           \/ \E q \in Requests : step[q] # "new" /\ r \in Covered(q)
           \/ \E e \in DOMAIN told : told[e].about = r]_vars

\* Validation is what makes governance deterministic: while the bucket holds files that
\* it accepts, a resource has the same labels to carry whatever its seed and whichever
\* application answers for it; they are complete in a bound project, and none elsewhere.
AcceptedDetermines ==
  Accepts(registry) =>
    \A r \in Resources : TypeOf[r] # Container => \A seed \in Values \cup {Absent} :
      LET p        == ProjectOf[r]
          expected == ExpectedLabels(registry, p, seed, TypeOf[r])
      IN /\ \A i \in Bound(registry, p) :
              /\ expected = Over(registry[i].bindings[p], registry[i].root)
              /\ RequiredKeys \subseteq Present(expected)
         /\ Bound(registry, p) = {} => expected = Nothing

\* Claim of docs/TESTING.md:484, "The platform should not mutate an already
\* compliant resource without reason": a run plans nothing for a resource that
\* carries what is required of it.
CompliantNotPlanned ==
  \A q \in calm : step[q] = "queue" =>
    \A r \in DOMAIN plan[q] : ~Compare(Required(r), labels[r]).compliant

\* Claim of README.md:268, "`EXCLUDED_PROJECTS` and `EXCLUDED_BUCKETS` provide
\* exceptions. The host project and registry bucket are automatically excluded.":
\* the program changes no label of an excluded project.
ExcludedProjectsUntouched ==
  [][edits' = edits =>
       \A r \in Resources : ProjectOf[r] \in ExcludedProjects => labels'[r] = labels[r]]_vars

=============================================================================
