# A TLA+ model of platform-metadata

`platform-metadata` keeps governance labels on Google Cloud resources. A
registry of applications in a bucket says which labels the resources of a
project must carry. Two flows compare resources with it and write what is
missing: **brownfield** (a request scans existing projects, stores a plan, and
cuts it into Cloud Tasks that `/worker` executes) and **greenfield** (Pub/Sub
pushes the audit event of a new resource to `POST /`). Both leave rows in
BigQuery, from which reports and the dashboard are made.

Nothing in the program takes a lock, and nothing is a transaction. What holds
the flows together is the order of their steps, at-least-once delivery, and the
version checks of some Google services. That is what these modules are about.
Line numbers below are lines of `src/cloudrun/` unless a path says otherwise.

## 1. Inventory

| Part | State it keeps | Operations | Talks to |
|---|---|---|---|
| Brownfield request: `services/brownfield.py`, `discovery.py`, `planner.py` | `remediation_plan` and `resource_snapshot` rows | discover, evaluate, create, `execute_run` | Asset Inventory, Service Usage, registry, BigQuery, Cloud Tasks |
| Worker: `handlers/worker.py`, `services/executor.py` | `remediation_execution` rows | `execute_batch`: page, act, save, check completion | BigQuery, the clients |
| Cloud Tasks (external) | the tasks of a run | deliver, deliver again, drop on a 200 | `/worker` |
| Run reports: `run_status.py`, `report_repository.py`, `run_status_repository.py` | `run_status` rows | `get_status`, `remediation_runs`, `complete` | the two tables |
| Label writing: `executor._execute_single_action`, `ownership.py`, `clients/*` | none; the labels are those of the service | get, build, read again, update | the Google services |
| Governance: `governance.py`, `compliance.py` | none | `project_metadata`, `expected_labels`, `evaluate` | the registry |
| Registry: `registry/reader.py`, `cache/registry_cache.py` | the cached registry and its expiry (per process), the last refresh (per reader) | `load_all`, `get`, `set` | the bucket |
| Greenfield: `handlers/greenfield.py`, `services/greenfield.py`, `classification.py`, `extractors/*` | `remediation_execution` rows | `process` | Pub/Sub, the clients, the registry, the webhook |
| Pub/Sub ingress: `ingress/pubsub.py`, `routes/pubsub.py` | none | unwraps an event and hands it to `process`, which unwraps again | greenfield |
| Organisation scope: `utils/org_helper.py` | none | the projects a request without parameter covers | Resource Manager |
| Dashboard totals: `report_repository.py`, `handlers/dashboard.py` | none | sums over plans and executions of both flows | the two tables |
| Notifications: `services/notification_service.py` | none | an alert for a resource without a product | a webhook |
| Enforcement, verification, plan and execute handlers | none | read-only views over the same services; only `/verify` has a route | governance, the tables |
| Tags: `services/tag_service.py` | two caches | `apply_tags` | switched off: `SUPPORTED_TAG_RESOURCES` is empty |
| Compliance snapshots, ownership records | rows | inserts without a caller | BigQuery |
| History, metrics, health, pages | none | queries and pages | the tables |
| Registry validation: `src/validation/` | none | schema and uniqueness checks in CI | the files of the registry, before they are synchronised to the bucket |

**What is hard here.** Deliveries repeat and overlap (Cloud Tasks, Pub/Sub, a
retried `create_task`). Workers are killed between writing labels and writing
the row that says so. A page is an `OFFSET` into a filter on a status. Reports
count rows that are inserted more than once. Labels are decided on one reading
and written after another, while users and other writers edit them. Requests over the
same projects overlap, and greenfield events reach projects that a run is
remediating. The program's own updates are audited, and may come back to it as
events. The cache of the registry is shared by threads and assigned in two steps.
The hazards in `PROJECT.json` list these at their lines.

**What makes each part correct.**

* A worker's 200 means evidence for its whole batch; a drained run means
  evidence for the whole plan; evidence is about something that happened;
  duplicates have a cause; a queue drains.
* Reports neither hide a row of the plan nor count one twice.
* Writers erase no label they do not own and change no value that is there;
  executing a batch twice changes nothing; "updated" means labelled. Where the code
  does not keep this, the properties say what it takes to lose a label.
* A run fills the gaps of what it governs, stays in the scope that was asked for,
  and adds only values that an application bound to the project carries, or that
  were there when it looked.
* What the dashboard shows as remaining is the work that waits.
* No acknowledged event vanishes without trace, and none that can be answered is
  pushed for ever; the program does not feed on its own events; owners are alerted once.
* A registry answer is never older than the period of the cache, plus what the
  steps of three calls can add to it.

## 2. Modules

| Module | Models | Used by |
|---|---|---|
| `EvidenceLedger` | abstract: rows get recorded, a batch is finished only when all of its rows are | `RemediationRunImpl` |
| `RemediationRun` | a run from its stored plan on: enqueue loop, queue, workers, two tables | all below |
| `RemediationRunImpl` | the refinement mapping to `EvidenceLedger` | `MCRemediationRun`, proofs |
| `RunReports` | `get_status` and `remediation_runs` over a run under way; rows may rank behind earlier ones | `MCRunReports` |
| `RemediationRunProofs` | theorems about `RemediationRun` | |
| `Adapters` | every client of `AdapterService`, as a record of what its `apply_labels` does, and `client_for` | `LabelWriter` |
| `LabelWriter` | `_execute_single_action` of several writers on one resource | `MCLabelWriter`, proofs |
| `LabelWriterProofs` | theorems about `LabelWriter` | |
| `CountingTheorems` | lemmas on cardinalities, induction and sums, about no part of the system | proofs |
| `RunReportsProofs` | theorems about `RunReports` | |
| `Governance` | expected labels and compliance, as operators | `Scope` |
| `Validation` | what `validate_registry.py` accepts, as operators | `Brownfield` |
| `Scope` | the environment, the projects of a request, the filters of discovery | `Brownfield` |
| `Brownfield` | requests over an estate that overlap each other, events and edits: scan, plan, enqueue, execute | `Dashboard`, proofs |
| `BrownfieldProofs` | theorems about `Brownfield` | |
| `Dashboard` | the totals of the estate and of brownfield over the tables of `Brownfield` | `MCBrownfield`, proofs |
| `DashboardProofs` | theorems about `Dashboard` | |
| `Extractors` | what `classify` makes of an audit event, as operators | `Greenfield` |
| `Greenfield` | push delivery over both routes, `process` with every exit, alerts, the events of its own updates | `MCGreenfield`, proofs |
| `GreenfieldProofs` | theorems about `Greenfield` | |
| `RegistryCache` | `load_all` over the shared cache, one step per shared access | `MCRegistryCache`, proofs |
| `RegistryCacheProofs` | theorems about `RegistryCache` | |

`MC*` modules give values to constants and define nothing else. Definitions
whose comment begins with "Mutant of X" are X with a plausible bug; nothing
uses them in the model, they serve to see that a property notices.

### RemediationRun

Rows are numbers in the order of `ORDER BY created_at`. The request thread is
`orch` and `nextBatch`: `StartRun` (`already_executed`, brownfield.py:59),
`Enqueue` (executor.py:153), `EnqueueAnswerLost` (`retry.Retry()` creates the
task again), `AbortEnqueue` (the request dies in the loop). `queue[b]` counts
the copies of task *b*, `lease[s]` says that Cloud Tasks still waits for the
request in thread *s*. A worker is `Deliver`, `ReadBatch` (the `OFFSET` page),
`Act` once per row in any order (the thread pool), `Save` once per result (with
the plan status and the evidence row), `CheckCompleted`, `Respond`. `Fail` is a
500 or a kill at any place, `DeadlinePasses` lets a second delivery overlap the
first. `update_status` returns at once (remediation_repository.py:214), so
`planStatus` stays PLANNED; it is in the model because the page and
`is_completed` read it, and because its mutant shows what would happen if the
update were switched on: pages move, and rows are skipped.

Abstracted: an action is only an outcome (`Fate`). Rows are readable as soon as
they are inserted. The retry loop around `mark_success` never runs, because
`update_status` raises nothing. A row is one resource, as the planner makes them.

### Adapters and LabelWriter

`Adapters` has one record per client. They differ in the way from the labels
handed over to the labels of the resource (`way`), in whether they read again
(`rereads`), whether what they send carries a version that the service
compares (`checked`), whether errors reach the executor (`raises`), and in three
details (`skips`, `retries`, `denies`). Compute *reconciles* under a fingerprint
and retries once; Secret Manager *completes* what it read; Cloud SQL and DNS
send a REST patch; Storage removes what it has itself read; the rest replace the
whole map, half of them without reading first. `client_for` takes the first
client that supports a type, so `ProjectClient`, which would merge, is shadowed
by `ResourceManagerClient`, which replaces.

At this commit `SUPPORTED_LABEL_RESOURCES` has the project as its only entry,
all others being commented out. The model includes the other clients, which
`docs/SUPPORTED_RESOURCES.md` describes, as they would work when switched on.

`LabelWriter` runs writers on one resource. `GetResource` is `client.get` and
`OwnershipService.build` on that reading; `Reread` and `Update` are
`apply_labels`; `UpdateConflicts` is a failed version check; `ApplyDeleted`,
`ApplyRefused`, `GetDeleted` and `GetRefused` are the error paths with the
outcome the executor makes of them. Users `Edit` and `Delete` between any two.
The client and the actions of the writers are variables that only `Init` sets, so
that one run covers all clients.

What a writer reads, and what a second writer or a user does before it writes, is
followed through every call here; `ActsAsOneStep` says in which cases nothing of it can be
seen. A project that a user edits meanwhile is not among them, which is why
`Brownfield` has two steps for an action.

Abstracted: DRY_RUN is off, tags are off, an update is atomic in the service and
takes effect when it is accepted (Redis, Cloud Run and others return before
the operation is done). The GKE client names the version field
`resource_version`; should the library refuse that field, every one of its calls is
`ApplyRefused`. `Compute` is the client for the types in its REGISTRY; for any other
(a router, a subnetwork) `get` answers with no labels and `apply_labels` returns True
without writing (compute.py:90, 125), so that the executor reports "updated". No such type is
switched on, and `UpdatedMeansLabelled` does not speak of them.

### Governance, Scope and Brownfield

`Governance` translates `project_metadata` (with its baseline for projects, its
seed, and its fallback to any bound application), `expected_labels` and
`evaluate`. A registry file is one application with its bindings. Values are
taken after `normalize_label_value`.

`Validation` is what CI would accept: the keys that the schema requires, and no project
that two files bind. Registries are edited freely all the same (`EditRegistry`), because
the validation finds no files (see below). `AcceptedDetermines` says what it would
buy; one of the two registries of the run is accepted, the other is not. Project ids are
compared as they are written, while governance folds their case; a file that binds a
project twice is not represented.

`Scope` translates `get_all_active_projects` and the filters of `discover`. The
program recognises its environment and the projects of it by substrings of their
ids; `Marks` says which of "dev", "poc" and "prod" an id contains. Resources are
left out when their API is not enabled, when they belong to the engine's
project, or by name (`Defaults`, `Excluded`). `DiscoveredLabels` is empty, because
discovery builds resources without the labels it has read (discovery.py:51).

`Brownfield` runs several requests at once. `Request` draws the scope;
`ScanProject` takes the projects in the order of their ids (discovery plus
evaluation) and saves the inventory, an insert whose failure is only logged;
`EnabledApis` is empty when the list cannot be read; `CreatePlan` plans over all results;
`Enqueue` is `execute_run`, `Abort` an exception or a kill at any place, after any part
of the tasks. A greenfield event is `Tell`, which asks nothing of the scope, and
`React`, its evaluation. `EditLabel` and `EditRegistry` are people. `calm` holds the
requests during which nobody edited and nothing failed.

*The registry.* Nothing in the program holds on to one registry.
`evaluate` forces a refresh and drops its answer (compliance.py:23); `expected_labels` then
asks the cache again (compliance.py:70, governance.py:37), which another thread may have set
back; the planner asks once for each of its cache keys, `process` once to evaluate and
once for the labels. So each of these questions picks its own answer from `published`: what
the bucket holds and, since the last edit, every registry made of files that it held
before. `Settle` ends that when nothing is under way: by `RegistryCache!AnswersFreshEnough`
the period of the cache then has an end. This allows more than the cache does, in that an
older answer may come after a newer one for as long as something is under way.

*An action.* `Execute` or `React` is the first reading (executor.py:78, `Begin`); `Apply` and
`Refused` are `apply_labels`, with the `final_labels` of that reading, however old. Between
the two come users, other requests and events. The client's second reading
(resourcemanager.py:39) needs no step of its own: its labels are thrown away, and only its
etag matters, so that an update either has read it after the last write of others, and
succeeds, or before it, and is `Refused`. A client that returns False for it has
its row recorded as SUCCESS. `since` records who has had a hand in the labels since the first
reading; it is a history variable but for the guard of a stale etag. `Written` is the
`Target` of `LabelWriter`, which has the calls of one action in full, as `RemediationRun` has
repetition: here a row is executed once.

The keys that the executor pops from projects (executor.py:96) are assumed to be none that
governance requires of a project (governance.py:119): `ClientAssumption` says so, and
without it no run could fill a gap of a popped key.

What the properties then say is less than a team would wish for, and exactly what the code
does. `RunKeepsValues`: a value is replaced or erased only when the action has not seen
it, and in a project, under a registry at rest, only when a user had a hand in it;
the program's actions alone do not undo each other. `AddsOnlyBoundValues`: what is added is
bound to the project, or it is a label that was removed after the action had read it and that the
replacement of the whole map brings back. `RunFillsGaps`: an undisturbed request leaves no
gap in a project, although its update may be refused for a stale etag and
counted as SUCCESS, because the write that made it stale has filled the gap.

`Dashboard` has the SQL of `_dashboard_summary` and `brownfield_summary` as sums over
requests, for the organization and for one project. All greenfield rows have one
run id, so a resource counts once for all of its events.

### Extractors and Greenfield

An event stands for the phrases its method contains; each extractor is its if/elif
chain over them, and `Classified` the registration by service. The cutting of
names and projects out of an event is left out.

A push goes to `POST /` or to `POST /events/pubsub`. `Receive` is what the routes do
before `process` extracts anything: the ingress answers 400 to what it cannot
decode, both answer 500 to a payload that is no object, and everything that
`process` does not find an envelope in is acknowledged unheard (`Heard`). Then
come `Classify`, per resource `NextResource`, `EvaluateResource`, `Act`, `Save` and
`Alert`, and `EndOfLoop`, `Respond`. `Raise` is any exception inside the try,
`SaveException` its handler, `Fail` a 500 or a kill, `DeliverAgain` and
`DeadlinePasses` what Pub/Sub may do. `Echo` is external: the audit event of an update
that the program itself made, if the sink exports it; its labels are those the
executor handed over, and of a project the executor has popped the product.
`MutationsLeaveEvidence` speaks of events that bring the product: of another event's
resource, two users' events may have been about the same one, labelled for the first.
`UpdatesNeedUsers` bounds the updates of a resource by its mentions in such events.

### RegistryCache

In the order of the code: `Call` takes the time, `Get` looks at the shared registry and its
expiry, `Take` returns the registry that is there by then, and `Judge` looks at the
reader's refresh time only after that (reader.py:15-16). `Download` takes one file,
`SetApplications` and `SetExpiry` are the two assignments of `set`, `Refresh` is the
reader's own time. `got` is what the thread has in hand, and what it returns. Threads
may share a reader, as all greenfield requests of a process do. `past`, `asked` and
`floor` are history variables that the properties compare answers with.
`MaxLoad` bounds how long a call takes; the worker's request timeout is such a bound.

## 3. Runs

| Run | Instance | Shows |
|---|---|---|
| `remediation_run` | 3 rows, batches of 2, 2 threads, 2 faults, with fairness | `AckedBatchRecorded`, `DrainedRunCovered`, `EvidenceBacked`, `CopiesBoundedByFaults`, `QueuedRunRecorded`, `QueuedRunDrains`, `ImplementsLedger`; for the reports `RemainingIsUnrecorded`, `RemainingNeverRises`, `ViewsAgreeWithoutFaults` |
| `label_writers` | 2 writers, 3 keys, all 8 kinds of clients, 2 edits, 1 fault | `MergersEraseNothing`, `PreserversKeepValues`, `RedeliveryKeepsValues`, `UpdatedMeansLabelled`, `UpdateNeverUndone`, `ActsAsOneStep` |
| `brownfield` | 4 projects (the engine's, two of its environment, one of another), 6 resources, 3 registries, 2 requests, 1 event, 1 edit or fault | `RunFillsGaps`, `RunStaysInScope`, `AddsOnlyBoundValues`, `RunKeepsValues`, `AcceptedDetermines`; for the dashboard `RemainingIsWaiting`, `EstateOffByEvents` |
| `greenfield` | 5 batches of up to 4 messages, all three forms of payload, both routes, echoes of projects, 2 threads, 2 faults, with fairness | `AckedEventAccounted`, `DuplicatesNeedFaults`, `MutationsLeaveEvidence`, `UpdatesNeedUsers`, `AlertsMatchRows`, `EventsAcknowledged` |
| `registry_cache` | 2 files, 2 threads on one reader or on two, a period of 1 and loads of up to 1, time up to 4, one publication each | `AnswersFreshEnough`, `LoadReadsBucket` |

**Why the bounds are enough to be of interest.** Three rows in batches of two
have a full and a partial page, so that an offset can be wrong. Two threads can run
the same batch, or two batches, at once. Two faults allow a lost answer and a kill in
one history, or a batch that fails twice; each further fault repeats one of these.
Three label keys are one the registry governs, one users own, and one the executor
pops; two edits let a user act in both gaps of an action, and let compute lose its
version check twice. The estate has a project that every filter treats in another way:
governed (alpha), governed only by a later registry (beta), of another environment, the
engine's own, with a disk, and with a bucket that is excluded by name. Alpha has a gap and a
product that projects lose; beta carries beforehand what it will need. The third registry
is what a load finds half-way through an upload. Two requests can scan, plan and execute
the same project in any order, with one event among them, and one edit or fault
(`MaxTrouble`) at any place, also between the two steps of an action; users touch three of the
resources, which are a project that is labelled, one that is governed only later, and one
that is no project. Requests are symmetric, so the run takes them up to permutation; it
checks no liveness. The
batches of greenfield let an update of a project be heard again beside a second
user event, refused messages compete with others for the threads, and an event end by each
of its exits. For the cache, two threads let one replace the registry, put off the expiry or
refresh the shared reader between any two steps of the other; with a period and a load of
one tick the bound is three ticks, so that by time 4 an answer could exceed it, as its mutant's
does. Threads are alike there, and so are files.

Deadlock checking is off in all runs, because a run, an action or an event ends, and
the registry model ends at `MaxTime`.

**Fairness.** Weak fairness of the request thread and of each worker thread: a
thread that can go on goes on, which a serving process provides. In
`RemediationRun`, `Deliver` is part of a worker's fairness, because Cloud Tasks keeps
dispatching what is not acknowledged. In `Greenfield` delivery is strongly fair,
and only for messages that can be answered: messages that the routes refuse are pushed
again and again and take up threads, so delivery of the others is enabled infinitely often
but not continuously, and Pub/Sub backs off for what is refused. Faults are bounded and
never forced: liveness is claimed for histories in which failures end, and
retries are not limited by a number. `AbortEnqueue` is a fault, so liveness is claimed
of runs whose loop has ended.

### Disagreements the runs show

Seven runs expect a violation. Each states what a document, a comment or a name of
the repository says; `PROJECT.json` quotes it.

| Run | Property | What the code does |
|---|---|---|
| `remediation_complete` | `DrainedRunMarkedComplete` | plan rows stay PLANNED, so `run_status.complete` is never called |
| `run_reports_dup` | `CompletedMeansEveryRow` | `get_status` sums execution rows, so a repeated batch stands in for one that was never executed |
| `label_project_races` | `WritesEraseNothing` | a label added between the first reading and `update_project` is erased |
| `brownfield_compliant` | `CompliantNotPlanned` | discovery drops labels, so a compliant project is planned |
| `brownfield_excluded` | `ExcludedProjectsUntouched` | `EXCLUDED_PROJECTS` is read nowhere, so an excluded project is scanned and labelled |
| `greenfield_stops` | `FailureContained` | one exception ends the loop over the resources of an event |
| `registry_refresh` | `RefreshSticks` | a slower load of another thread puts an older registry back |

Seen while modelling, without a run of their own:

* a label `product`, `zone`, `region` or `application` that a user put on a project
  is removed when the project is remediated (executor.py:96 with resourcemanager.py:40);
* a refused update of a client that catches its errors is recorded as SUCCESS, because
  nobody looks at the False (executor.py:103), and greenfield records SUCCESS
  whatever the action ended with (greenfield.py:169);
* a label that a user removes from a project between executor.py:78 and the update is brought
  back, and a value changed in between is changed back (resourcemanager.py:40);
* nothing marks the rows of a request that died: `brownfield_summary` shows them as remaining
  for ever (`RemainingIsWaiting` therefore speaks of runs whose request lived);
* `executed_at` is taken before the insert (execution_repository.py:53), so that a repeated row
  may rank behind the one it repeats, and `remediation_runs` show the older outcome;
* compute overwrites a value that a user set after `client.get`, since the
  fingerprint covers only its own reading (compute.py:113);
* a wrong value of a required key is reported but never corrected (planner.py:76,
  ownership.py:7);
* the answer COMPLIANT means that nothing was planned; a resource without its seed is
  not compliant, and nothing is planned for it either (brownfield.py:46);
* a project no application is bound to is a compliant result (compliance.py:113);
* an event that arrives through `ingress/pubsub.py` is unwrapped twice, acknowledged and
  ignored (README.md:218 of the repository lists the route as the ingress);
* `save_compliance` has no caller, so `compliance_snapshot` stays empty and the
  compliance figures of the dashboard are made from nothing (docs/DATA_MODEL.md:331 describes
  the table, README.md:206 the figure);
* `get_enabled_apis` says "Fail open" and returns the empty set, on which discovery drops
  every resource but the project (clients/service_usage.py:27);
* a duplicate event is never the no-op of docs/TESTING.md:759: a resource other than a project
  is evaluated without labels, lacks its seed, and is updated again (docs/GREENFIELD.md:494);
* the echo of the program's own `UpdateProject` lacks the product, so it leaves a FAILED row
  and alerts the owners about what the program itself removed;
* `remaining_remediations` of the estate subtracts resources that greenfield has heard
  of, none of which is in a plan on that account (`EstateOffByEvents` says by how much it is off);
* a greenfield event labels also the engine's own project and projects of other
  environments, which brownfield leaves alone;
* `latest_resources` keeps resources that were deleted, since nothing removes a snapshot;
* the validation reads `registry/applications` (validation/registry_reader.py:10), while the
  registry is kept in `registry/dev` and `registry/prod`, so that it accepts everything;
  docs/APPLICATION_REGISTRY.md says "A failed validation must block promotion until
  corrected". Were it to run, it would forbid what `project_metadata` is made for, a
  baseline and an application for one project;
* `GET /verify` compares with the labels discovery drops, and asks for those of an
  application where the resource is a project, so that nothing governed is ever verified
  (services/verification.py:14);
* sync jobs of two pushes may end in another order than they began (registry-sync.yml), and
  put older files back into the bucket.

## 4. Proofs

TLAPS proves for every value of the constants that satisfies their assumptions:

| Theorem | Says |
|---|---|
| `RemediationRunProofs!TypeCorrect` | `TypeOK` |
| `RemediationRunProofs!AckedIsRecorded` | `AckedBatchRecorded` |
| `RemediationRunProofs!DrainedIsCovered` | `DrainedRunCovered` |
| `RemediationRunProofs!EvidenceIsBacked` | `EvidenceBacked` |
| `RemediationRunProofs!CopiesNeedFaults` | `CopiesBoundedByFaults` |
| `RemediationRunProofs!RunImplementsLedger` | the refinement of `EvidenceLedger` |
| `RunReportsProofs!LatestIsWritten` | `ReportTypeOK` |
| `RunReportsProofs!RemainingIsExact` | `RemainingIsUnrecorded` |
| `RunReportsProofs!RemainingOnlyFalls` | `RemainingNeverRises` |
| `RunReportsProofs!ViewsAgreeWhenCalm` | `ViewsAgreeWithoutFaults` |
| `LabelWriterProofs!TypeCorrect` | `TypeOK` |
| `LabelWriterProofs!MergersNeverErase` | `MergersEraseNothing` |
| `LabelWriterProofs!PreserversNeverChange` | `PreserversKeepValues` |
| `LabelWriterProofs!UpdatedIsLabelled` | `UpdatedMeansLabelled` |
| `LabelWriterProofs!RedeliveryIsHarmless` | `RedeliveryKeepsValues` |
| `LabelWriterProofs!ActionsAreOneStep` | `ActsAsOneStep` |
| `LabelWriterProofs!UpdatesStay` | `UpdateNeverUndone`, of the clients of `AdapterService` |
| `BrownfieldProofs!TypeCorrect` | `TypeOK` |
| `BrownfieldProofs!ValuesAreKept` | `RunKeepsValues` |
| `BrownfieldProofs!AddedIsBound` | `AddsOnlyBoundValues` |
| `BrownfieldProofs!ScopeIsKept` | `RunStaysInScope` |
| `BrownfieldProofs!AcceptedIsDeterminate` | `AcceptedDetermines` |
| `BrownfieldProofs!GapsAreFilled` | `RunFillsGaps` |
| `DashboardProofs!RemainingWaits` | `RemainingIsWaiting` |
| `DashboardProofs!EstateFallsShort` | `EstateOffByEvents` |
| `GreenfieldProofs!TypeCorrect` | `TypeOK` |
| `GreenfieldProofs!AcknowledgedIsAccounted` | `AckedEventAccounted` |
| `GreenfieldProofs!DuplicatesAreRedeliveries` | `DuplicatesNeedFaults` |
| `GreenfieldProofs!UpdatesLeaveEvidence` | `MutationsLeaveEvidence` |
| `GreenfieldProofs!UpdatesComeFromUsers` | `UpdatesNeedUsers`, of a sink that exports no product |
| `GreenfieldProofs!AlertsFollowRows` | `AlertsMatchRows` |
| `RegistryCacheProofs!TypeCorrect` | `TypeOK` |
| `RegistryCacheProofs!LoadsReadTheBucket` | `LoadReadsBucket` |
| `RegistryCacheProofs!AnswersStayFresh` | `AnswersFreshEnough` |

**RemediationRun.** Type correctness is not inductive by itself: `Respond` takes one
from a count of copies, which stays a natural number only because a lease always
stands for a copy. `TypeInv` therefore adds `LeaseInv` (per batch, no more leases
than copies, an argument on cardinalities) and `LoopInv` (where the enqueue loop is). On
top of it `BatchInv` says what a worker has done by the place it is at: the rows it
read are those of its batch, the ones it no longer has to save are recorded, an
acknowledged batch is recorded, and a batch whose loop turn has passed is in the queue
or acknowledged. `AckedBatchRecorded` and `DrainedRunCovered` follow; the
latter needs that the batches cover the rows, an argument on `div`. `BackedInv` relates
evidence to the outcomes of actions. The ledger theorem maps each action to a row recorded, a
batch finished, or a stutter (`LedgerStep`), citing `BatchInv` for the batch.

`CopiesBoundedByFaults` is not inductive either: nothing in it says where the next
execution of a row may come from. `CopyInv` is the account that does. For a row of a
batch it adds the executions there are, the copies of the task that no request holds, the
requests that have not saved the row yet, and the turn of the enqueue loop to come; each
step passes one of these on to the next, and only a fault makes one more.

The proofs assume what the module assumes of its constants, and one thing more, named
`DistinctStamps` in `RemediationRunProofs`: the ranking of the rows by `created_at` is
one-to-one. Each row of a plan is stamped by a call of its own, so that equal
stamps are a matter of the clock's resolution; with them `ORDER BY` may page a row
twice and another never.

**LabelWriter.** `ReadingCurrent` is the invariant: a reading whose version is still the
version of the resource is what the resource carries. It holds because each step
that changes labels moves the version past all readings. A client that merges into a
checked reading thus merges into what is there, and a service that merges does so
by itself. Nothing is assumed of the number of writers, keys, values, edits or faults.

`UpdatedMeansLabelled` needs that `final_labels` carry what was demanded until the update
(`DemandInFinal`). The properties of undisturbed writers rest on `OneLabelling`: until a user
edits, all writers of one action strive for the same labelling, which is what the resource
carries completed with the demand; every update reaches it (`UpdateReaches`), whatever the
client, and none leads away from it. For different actions of a client that completes what
it reads, `GapsAsDesired` says that what it hands over for a missing key is the demand alone.
`ActsAsOneStep` follows.
`UpdatesStay` assumes that clients are those of `AdapterService`: one that merges under a
version check and swallowed its conflicts would report "updated" with nothing written, and
`AdaptersReportConflicts` shows of the 21 that none does.

**RunReports.** A step of the run adds to one status of one row or to none
(`EvidenceStep`), so that what is stamped is what was written, whether or not it was overtaken
by another row's `executed_at`. The rows of a plan are
then split into completed, failed and unrecorded ones, and counted by set (`RowsAreSplit`);
that the last number never rises is `RecordedStays`. No assumption on stamps is needed.
`ViewsAgreeWhenCalm` does need `DistinctStamps`, through `CopiesNeedFaults`: without a fault no
row has two executions, so the sum that `get_status` makes of them counts rows (`SumOfBits`).

**Brownfield.** Types alone are not inductive: what a plan adds is bound to the
project only because it was planned for a resource of that request. `RequestInv` says of
each request that its results are of resources it covers, its plan of resources it has
results for, its planned values carried by an application bound to the project in a registry
of `published`, and that nothing is queued before it has ended. `ActionInv` says of each
action whose it is, that it is asked for bound values, and that it knows the labels unless
somebody has written `since`. That expected labels are bound is
a chain of lemmas up from `project_metadata`, which picks the first candidate:
that there is a first one is `LeastExists`, by the well-foundedness of strict inclusion on
finite sets. A step
disturbs one request or one action; `WhoseStep` says which, and the rest carries over.
`AddedIsBound` follows from these, and the first half of `ValuesAreKept`, for a replaced
label is one of `final_labels`, made of the reading and what was asked for (`FinalKeepsAndAdds`).

Its second half, that the program does not undo its own work, needs `RestInv`: while every
answer is of what the bucket holds, all that is planned and asked for of a project is
what the baseline requires of it, and an action that no user has interfered with
writes what it would write if it had read the labels only now (`ActionAtRest`). One
such write makes the others' equal to it, not different from it, and so it goes on.

`RunFillsGaps` follows a request along its way (`GapInv`, `Undisturbed`): a project is yet to
be scanned, or it was compared with no labels at all, so that all it needs is planned
(`AllIsPlanned`), so that each container is in the queue or carries what it needs (`Filled`).
An update that succeeds fills it (`ApplyFills`); one that is refused was overtaken by a write
that has filled it, which is the last conjunct of `Undisturbed`; and required keys are never
popped, so what others write can fill a gap but not open one (`FilledStays`). Only requests in
`calm` are spoken of, which began at a registry at rest and during which nobody edited.

`AcceptedDetermines` needs only that the bucket holds a registry: accepted files bind a
project once (`BoundOnce`), so there is one application to choose from.

**Dashboard.** `AccountInv` says of one request that its planned rows are those that wait and
those that were executed, which is disjoint by the types. Totals are sums over requests, and
two sums agree where their terms do (`SumPlus`, `SumSame`).

**Greenfield.** `Inv` adds to the types where a request is in `process` and what it holds
there: at `act` a governed resource of an event with a product, at `save` the status that its
event decides. Each of the other properties is an account that steps pass on:

* *Evidence* (`EvidenceInv`): the resources before the one at hand have their rows, and before
  the answer the event is settled, by its rows or by that of its failure. What is
  acknowledged was settled, and rows are never removed.
* *Rows* (`RowInv`): the rows there are, those the requests at work have still to write, and
  those that copies in the queue can bring are together at most one for each publication and
  each fault. An update adds a publication of its echo in the same step as the echo.
* *Updates* (`UpdateInv`): the same for updates of one resource, over the events of users
  that mention it. It needs `HeldInv`, that no known message is lost, and `QuietSink`, that no
  exported echo brings the product. The sink of docs/GREENFIELD.md section 7 is
  meant for creation events, and a project's update, which the run exports, has lost its product; a sink
  that exported the updates of other resources would have the program label them for ever.
* *Alerts* (`AlertInv`): the rows that say the product is missing are the alerts sent and those
  about to be, but for faults.

**CountingTheorems.** The induction theorems of the library take an operator, which the
provers cannot instantiate. Stated with sets they can be used: a set that has 0 and is
closed under successor has every number (`SetInduction`), and a family of finite sets that has the
empty one and is closed under one element more has every subset (`SubsetInduction`). By these
`SumFunctionOnSet` of the community modules, a fold, gets the laws that the accounts add up
by: it is defined, unfolds, is additive, and changes by what one term changes.

**RegistryCache.** The expiry alone bounds the age of an answer. The reader's refresh time
cannot, because it is looked at when the registry is already in hand, and a thread that
shares the reader may have refreshed it in between. `HistoryInv` says that the bucket only moves
forward, `LoadInv` how old what a load has downloaded can be, and `CacheInv` puts the
three calls of the bound together: the one that put off the expiry, a slower one that replaced
the registry afterwards by what it had downloaded before, and the one that answers.
`AnswersStayFresh` assumes `TTL + MaxLoad > 0`: a period of zero with loads that take no
time makes no claim.

**Only model-checked.** `QueuedRunRecorded`, `QueuedRunDrains` and `EventsAcknowledged`: liveness
under fairness, and `ENABLED`, are beyond the prover. Every other property of a passing run is
a theorem. The runs of section 3 that expect a violation are counterexamples and need none.

## 5. Not modelled

* How names and projects are cut out of events and asset names (extractors,
  `utils/compute.py`): string work that decides nothing modelled here but identity.
* The `classifiers` package and `dispatcher.py`'s routing table; the running program does
  not import the former, and the latter only maps names to handlers.
* Tags, which are switched off, and the clients commented out of `AdapterService`.
* Enforcement, verification, plan and execute handlers: only `/verify` has a route, and it
  changes nothing.
* Compliance snapshots and ownership records: nothing writes them.
* History, resource and metrics reports, health, and the pages over them.
* Delayed visibility of streamed rows, and duplicate rows of one insert.
* The formats of the registry's schema, and the order in which sync jobs end.

## 6. Plan

1. Visibility of plan rows as a step of its own in `RemediationRun`, so that a worker can
   read an empty page; its theorems then need a bound on the delay.
2. A refinement from one request of `Brownfield` to `RemediationRun`'s plan, so that the
   theorem on drained runs carries over to an estate.
3. `RegistryCache` as an implementation of an atomic register with bounded staleness, of
   which `AnswersStayFresh` would be a corollary, and which `published` of `Brownfield` would
   be replaced by.
