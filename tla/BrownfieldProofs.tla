---------------------------- MODULE BrownfieldProofs --------------------------
(***************************************************************************)
(* What the program does to an estate, for every estate, registry, number  *)
(* of requests, and however edits, events and faults fall between their    *)
(* steps: it stays in the scope of what was asked, replaces nothing that   *)
(* its action has seen, adds only what an application bound to the project *)
(* carries or what was there when the action looked, and fills the gaps of *)
(* projects although actions on one project refuse each other.             *)
(***************************************************************************)
EXTENDS Brownfield, CountingTheorems

\* v is a value of key k that an application of reg bound to the project of r carries.
BoundIn(reg, r, k, v) ==
  \E i \in Bound(reg, ProjectOf[r]) : v \in {reg[i].root[k], reg[i].bindings[ProjectOf[r]][k]}

\* The same in a registry that may still be read, for all that l carries.
BoundLabels(r, l) == \A k \in Keys : l[k] # Absent => \E reg \in published : BoundIn(reg, r, k, l[k])

\* The projects request q covers.
ScopeOf(q) == IF asked[q] = All THEN AllActiveProjects ELSE {asked[q]}

\* The plan of q is not yet executed for r.
Pending(q, r) == step[q] = "queue" \/ r \in queued[q]

\* A request has results of nothing but what it covers, plans nothing else, and
\* nothing is queued or executed before it has ended; planned values are bound ones.
InOrder(q) ==
  /\ step[q] # "ended" => queued[q] = {} /\ DOMAIN executed[q] = {}
  /\ step[q] = "new" => DOMAIN results[q] = {}
  /\ step[q] \in {"new", "scan", "plan"} => DOMAIN plan[q] = {}
  /\ todo[q] \subseteq ScopeOf(q)
  /\ DOMAIN results[q] \subseteq Covered(q)
  /\ DOMAIN plan[q] \subseteq DOMAIN results[q]
  /\ \A r \in DOMAIN plan[q] : Pending(q, r) => BoundLabels(r, plan[q][r])

RequestInv == \A q \in Requests : InOrder(q)

\* An action is that of a queued row or of an event that names its resource; it is asked
\* for bound values, and knows the labels as they are unless somebody has written.
Sound(a) ==
  /\ a[1] \in Requests => a[2] \in queued[a[1]]
  /\ a[1] \in Events => a[1] \in DOMAIN told /\ told[a[1]].about = a[2]
  /\ BoundLabels(a[2], actions[a].desired)
  /\ actions[a].since = {} => actions[a].read = labels[a[2]]

ActionInv == \A a \in DOMAIN actions : Sound(a)

\* What the baseline of its project requires of a container.
Needs(reg, r) == ExpectedLabels(reg, ProjectOf[r], Absent, Container)

\* While every answer is of what the bucket holds, all that is found, planned and in hand
\* of containers is what it requires of them, and an action that no user has interfered
\* with writes what it would write if it had read the labels only now.
RequestAtRest(q) ==
  /\ step[q] \in {"scan", "plan"} =>
       \A r \in DOMAIN results[q] : TypeOf[r] = Container =>
         results[q][r] = Compare(Needs(registry, r), Nothing)
  /\ \A r \in DOMAIN plan[q] : TypeOf[r] = Container /\ Pending(q, r) =>
       plan[q][r] = Needs(registry, r)

ActionAtRest(a) ==
  LET r == a[2] IN TypeOf[r] = Container =>
    /\ actions[a].desired = Needs(registry, r)
    /\ "user" \notin actions[a].since =>
         FinalLabels(r, actions[a].read, actions[a].desired)
           = FinalLabels(r, labels[r], Needs(registry, r))

RestInv ==
  published = {registry} => /\ \A q \in Requests : RequestAtRest(q)
                            /\ \A a \in DOMAIN actions : ActionAtRest(a)

Containers(q) == {r \in Covered(q) : TypeOf[r] = Container}

Served(q) == answer[q] \in {"COMPLIANT", "QUEUED"}

Filled(r) == Missing(Needs(registry, r), labels[r]) = {}

\* While nobody disturbs a request it misses no container, and a container that is not
\* queued, or that others have written under its action, is filled.
Undisturbed(q) ==
  /\ published = {registry}
  /\ step[q] # "new" => \A r \in Containers(q) : ProjectOf[r] \in todo[q] \/ r \in DOMAIN results[q]
  /\ step[q] = "plan" => todo[q] = {}
  /\ step[q] = "queue" => \A r \in Containers(q) : r \in DOMAIN plan[q] \/ Filled(r)
  /\ Served(q) => \A r \in Containers(q) : r \in queued[q] \/ Filled(r)
  /\ \A r \in Containers(q) :
       <<q, r>> \in DOMAIN actions /\ actions[<<q, r>>].since # {} => Filled(r)

GapOK(q) ==
  /\ step[q] # "ended" => answer[q] = "none"
  /\ q \in calm => Undisturbed(q)

GapInv == \A q \in Requests : GapOK(q)

-----------------------------------------------------------------------------
(* The registry.                                                           *)

\* The application that answers for a resource is bound to its project.
LEMMA MetadataIsBound ==
  ASSUME NEW reg, IsRegistry(reg), NEW project, NEW seed, NEW type
  PROVE  LET i == ProjectMetadata(reg, project, seed, type)
         IN i = 0 \/ i \in Bound(reg, project)
<1> DEFINE C == Candidates(reg, project, seed, type)
<1>1. C \subseteq Bound(reg, project)
  BY DEF Candidates
<1>2. C \subseteq Nat
  BY <1>1 DEF Bound, IsRegistry
<1>3. IsFiniteSet(C)
  <2>1. C \subseteq DOMAIN reg
    BY <1>1 DEF Bound
  <2> QED BY <2>1, FS_Subset DEF IsRegistry
<1>4. C # {} => (CHOOSE i \in C : \A j \in C : i <= j) \in C
  BY <1>2, <1>3, LeastExists
<1> QED BY <1>1, <1>4 DEF ProjectMetadata

\* What is required of a resource is well formed, and carried by an application
\* that is bound to its project: nothing is required in a project without one.
LEMMA ExpectedIsBound ==
  ASSUME NEW reg \in Registries, NEW r \in Resources, NEW seed
  PROVE  LET expected == ExpectedLabels(reg, ProjectOf[r], seed, TypeOf[r])
         IN /\ expected \in Labels
            /\ \A k \in Keys : expected[k] # Absent => BoundIn(reg, r, k, expected[k])
<1> DEFINE i == ProjectMetadata(reg, ProjectOf[r], seed, TypeOf[r])
           project == ProjectOf[r]
           expected == ExpectedLabels(reg, project, seed, TypeOf[r])
<1>1. IsRegistry(reg)
  BY EstateAssumption
<1>2. i = 0 \/ i \in Bound(reg, project)
  BY <1>1, MetadataIsBound
<1>3. CASE i = 0
  BY <1>3 DEF ExpectedLabels, Nothing, Labels
<1>4. CASE i \in Bound(reg, project)
  <2>1. /\ reg[i].root \in Labels
        /\ reg[i].bindings[project] \in Labels
        /\ i # 0
    BY <1>1, <1>4 DEF Bound, IsRegistry, IsApplication
  <2> DEFINE all == Over(reg[i].bindings[project], reg[i].root)
  <2>2. /\ all \in Labels
        /\ \A k \in Keys : all[k] \in {reg[i].root[k], reg[i].bindings[project][k]}
    BY <2>1 DEF Over, Labels
  <2>3. expected = IF TypeOf[r] = Container
                     THEN [k \in Keys |-> IF k \in ProjectKeys THEN all[k] ELSE Absent]
                     ELSE all
    BY <2>1 DEF ExpectedLabels
  <2> HIDE DEF all, i
  <2>4. /\ expected \in Labels
        /\ \A k \in Keys : expected[k] # Absent => expected[k] = all[k]
    BY <2>2, <2>3 DEF Labels
  <2>5. \A k \in Keys : expected[k] # Absent => BoundIn(reg, r, k, expected[k])
    BY <1>4, <2>2, <2>4 DEF BoundIn
  <2> QED BY <2>4, <2>5
<1> QED BY <1>2, <1>3, <1>4

\* The same of what is planned.
LEMMA PlannedIsBound ==
  ASSUME NEW reg \in Registries, NEW r \in Resources, NEW result
  PROVE  LET planned == PlannedLabels(reg, r, result)
         IN /\ planned \in Labels
            /\ \A k \in Keys : planned[k] # Absent => BoundIn(reg, r, k, planned[k])
<1> DEFINE expected == ExpectedLabels(reg, ProjectOf[r], Absent, TypeOf[r])
           planned  == PlannedLabels(reg, r, result)
<1>1. /\ expected \in Labels
      /\ \A k \in Keys : expected[k] # Absent => BoundIn(reg, r, k, expected[k])
  BY ExpectedIsBound
<1>2. planned = IF result.compliant THEN Nothing
                ELSE [k \in Keys |-> IF k \in result.missing THEN expected[k] ELSE Absent]
  BY DEF PlannedLabels
<1> HIDE DEF expected, planned
<1>3. /\ planned \in Labels
      /\ \A k \in Keys : planned[k] # Absent => planned[k] = expected[k]
  BY <1>1, <1>2 DEF Labels, Nothing
<1>4. \A k \in Keys : planned[k] # Absent => BoundIn(reg, r, k, planned[k])
  BY <1>1, <1>3
<1> QED BY <1>3, <1>4 DEF planned

\* Every verdict has the form of a compliance result.
LEMMA VerdictIsResult ==
  ASSUME NEW reg, NEW project, NEW type, NEW actual
  PROVE  Evaluate(reg, project, type, actual) \in Result
BY DEF Evaluate, Compare, Result, Missing, Incorrect, Present

\* The labels to write: what was read stays, but for the keys that are popped, and what
\* is desired comes besides.
LEMMA FinalKeepsAndAdds ==
  ASSUME NEW r \in Resources, NEW existing \in Labels, NEW desired \in Labels
  PROVE  LET final == FinalLabels(r, existing, desired)
         IN /\ final \in Labels
            /\ \A k \in Keys : final[k] \in {existing[k], desired[k], Absent}
            /\ \A k \in Keys \ ClientOf[r].stripped :
                 existing[k] # Absent => final[k] = existing[k]
BY DEF FinalLabels, Over, Labels

\* Whatever the client, what it writes of a key is what it was handed or what is there;
\* where the two are the same nothing changes.  A project becomes what was handed over.
LEMMA WrittenIsFinalOrCurrent ==
  ASSUME NEW r \in Resources, NEW final \in Labels, NEW current \in Labels,
         NEW written \in Written(r, final, current)
  PROVE  /\ written \in Labels
         /\ \A k \in Keys : written[k] \in {final[k], current[k]}
         /\ TypeOf[r] = Container => written = final
<1>1. ClientOf[r].way \in {"replace", "remove", "patch", "reconcile", "complete"}
  BY ClientAssumption DEF Adapter!ClientType, Adapter!Ways
<1>2. TypeOf[r] = Container => ClientOf[r].way = "replace"
  BY ClientAssumption DEF Adapter!ResourceManager, Adapter!Plain
<1>3. Over(final, current) \in Labels /\ Over(current, final) \in Labels
      /\ \A k \in Keys : /\ Over(final, current)[k] \in {final[k], current[k]}
                         /\ Over(current, final)[k] \in {final[k], current[k]}
  BY DEF Over, Labels
<1>4. CASE ClientOf[r].way = "replace"
  BY <1>4 DEF Written
<1>5. CASE ClientOf[r].way = "remove"
  <2>1. PICK reread \in SUBSET Keys :
          written = [k \in Keys |-> IF k \in reread THEN final[k] ELSE Over(final, current)[k]]
    BY <1>5 DEF Written
  <2>2. \A k \in Keys : written[k] \in {final[k], current[k]}
    BY <1>3, <2>1
  <2>3. written \in Labels
    BY <2>1, <2>2 DEF Labels
  <2> QED BY <1>2, <1>5, <2>2, <2>3
<1>6. CASE ClientOf[r].way \in {"patch", "reconcile"}
  BY <1>2, <1>3, <1>6 DEF Written
<1>7. CASE ClientOf[r].way = "complete"
  BY <1>2, <1>3, <1>7 DEF Written
<1> QED BY <1>1, <1>4, <1>5, <1>6, <1>7

-----------------------------------------------------------------------------
(* What the parts of an action of the executor do to the state.            *)

\* An action goes on as it was, but for who has written its resource.
LEMMA OnwardEffect ==
  ASSUME TypeOK, NEW S \in SUBSET DOMAIN actions, NEW r, NEW who \in SUBSET {"user", "program"},
         actions' = Onward(S, r, who)
  PROVE  /\ DOMAIN actions' = S
         /\ \A a \in S :
              /\ actions'[a] \in Action
              /\ actions'[a].read = actions[a].read
              /\ actions'[a].desired = actions[a].desired
              /\ actions'[a].since = IF a[2] = r THEN actions[a].since \cup who
                                     ELSE actions[a].since
<1> SUFFICES ASSUME NEW a \in S
             PROVE  /\ actions'[a] \in Action
                    /\ actions'[a].read = actions[a].read
                    /\ actions'[a].desired = actions[a].desired
                    /\ actions'[a].since = IF a[2] = r THEN actions[a].since \cup who
                                           ELSE actions[a].since
  BY DEF Onward
<1>1. actions[a] \in Action
  BY DEF TypeOK
<1>2. actions'[a] = IF a[2] = r THEN [actions[a] EXCEPT !.since = @ \cup who] ELSE actions[a]
  BY DEF Onward
<1> QED BY <1>1, <1>2 DEF Action

\* An action that begins has the labels in hand as they are.
LEMMA BeginEffect ==
  ASSUME TypeOK, NEW x \in Actors, NEW r \in Resources, NEW desired \in Labels,
         Begin(x, r, desired)
  PROVE  /\ DOMAIN actions' = DOMAIN actions \cup {<<x, r>>}
         /\ \A a \in DOMAIN actions' : actions'[a] \in Action
         /\ \A a \in DOMAIN actions \ {<<x, r>>} : actions'[a] = actions[a]
         /\ actions'[<<x, r>>] = [read |-> labels[r], desired |-> desired, since |-> {}]
<1>1. [read |-> labels[r], desired |-> desired, since |-> {}] \in Action
  BY DEF TypeOK, Action
<1> QED BY <1>1 DEF Begin, TypeOK

\* The row of an action of a request takes the place of its task.
LEMMA RecordEffect ==
  ASSUME TypeOK, NEW x \in Actors, NEW r \in Resources, NEW status, Record(x, r, status),
         x \in Requests => r \in queued[x]
  PROVE  /\ DOMAIN executed' = Requests
         /\ queued' \in [Requests -> SUBSET Resources]
         /\ heard' \subseteq Resources
         /\ \A q \in Requests \ {x} : queued'[q] = queued[q] /\ executed'[q] = executed[q]
         /\ x \in Requests =>
              /\ queued'[x] = queued[x] \ {r}
              /\ DOMAIN executed'[x] = DOMAIN executed[x] \cup {r}
         /\ \A q \in Requests : /\ queued'[q] \subseteq DOMAIN plan[q]
                                /\ DOMAIN executed'[q] \subseteq DOMAIN plan[q] \ queued'[q]
<1>1. CASE x \in Requests
  <2>1. /\ queued' = [queued EXCEPT ![x] = queued[x] \ {r}]
        /\ executed' = [executed EXCEPT ![x] = [s \in DOMAIN executed[x] \cup {r} |->
                                                 IF s = r THEN status ELSE executed[x][s]]]
    BY <1>1 DEF Record
  <2>2. r \in DOMAIN plan[x]
    BY <1>1 DEF TypeOK
  <2>3. heard' \subseteq Resources
    BY DEF Record, TypeOK
  <2> QED BY <1>1, <2>1, <2>2, <2>3 DEF TypeOK
<1>2. CASE x \notin Requests
  <2>1. queued' = queued /\ executed' = executed /\ heard' \subseteq Resources
    BY <1>2 DEF Record, TypeOK
  <2> QED BY <1>2, <2>1 DEF TypeOK
<1> QED BY <1>1, <1>2

\* What an action is to write is well formed, and so is what becomes of it.
LEMMA ActionIsTyped ==
  ASSUME TypeOK, NEW a \in DOMAIN actions
  PROVE  /\ a[1] \in Actors /\ a[2] \in Resources /\ a = <<a[1], a[2]>>
         /\ actions[a].read \in Labels /\ actions[a].desired \in Labels
         /\ actions[a].since \in SUBSET {"user", "program"}
         /\ FinalLabels(a[2], actions[a].read, actions[a].desired) \in Labels
<1>1. actions[a] \in Action /\ a \in Actors \X Resources
  BY DEF TypeOK
<1>2. actions[a].read \in Labels /\ actions[a].desired \in Labels
      /\ actions[a].since \in SUBSET {"user", "program"}
  BY <1>1 DEF Action
<1> QED BY <1>1, <1>2, FinalKeepsAndAdds

\* What apply_labels does when it is not refused.
LEMMA ApplyEffect ==
  ASSUME TypeOK, NEW x \in Actors, NEW r \in Resources, Apply(x, r)
  PROVE  LET a     == <<x, r>>
             final == FinalLabels(r, actions[a].read, actions[a].desired)
         IN /\ a \in DOMAIN actions
            /\ final \in Labels
            /\ labels' \in [Resources -> Labels]
            /\ \A s \in Resources \ {r} : labels'[s] = labels[s]
            /\ \A k \in Keys : labels'[r][k] \in {final[k], labels[r][k]}
            /\ TypeOf[r] = Container => labels'[r] = final
            /\ actions' = Onward(DOMAIN actions \ {a}, r, {"program"} \cup actions[a].since)
            /\ {"program"} \cup actions[a].since \in SUBSET {"user", "program"}
<1> DEFINE a     == <<x, r>>
           final == FinalLabels(r, actions[a].read, actions[a].desired)
<1>1. a \in DOMAIN actions
  BY DEF Apply
<1>2. final \in Labels /\ actions[a].since \in SUBSET {"user", "program"}
  BY <1>1, ActionIsTyped
<1>3. actions' = Onward(DOMAIN actions \ {a}, r, {"program"} \cup actions[a].since)
  BY DEF Apply
<1>4. PICK written \in Written(r, final, labels[r]) : labels' = [labels EXCEPT ![r] = written]
  BY DEF Apply
<1> HIDE DEF final
<1>5. /\ written \in Labels
      /\ \A k \in Keys : written[k] \in {final[k], labels[r][k]}
      /\ TypeOf[r] = Container => written = final
  BY <1>2, WrittenIsFinalOrCurrent DEF TypeOK
<1>6. /\ labels' \in [Resources -> Labels] /\ labels'[r] = written
      /\ \A s \in Resources \ {r} : labels'[s] = labels[s]
  BY <1>4, <1>5 DEF TypeOK
<1> QED BY <1>1, <1>2, <1>3, <1>5, <1>6 DEF final

\* Labels change by an update or by a user's edit.
LEMMA WhoWrites ==
  ASSUME TypeOK, [Next]_vars, labels' # labels
  PROVE  \/ \E x \in Actors, r \in Resources : Apply(x, r)
         \/ \E r \in Touched, k \in Keys, v \in UserValues : EditLabel(r, k, v)
<1>1. ASSUME NEW q \in Requests, Run(q) PROVE labels' = labels
  BY <1>1 DEF Run, Request, ScanProject, CreatePlan, Enqueue, Abort, Execute
<1>2. ASSUME NEW x, NEW r, Refused(x, r) PROVE labels' = labels
  BY <1>2 DEF Refused
<1>3. ASSUME NEW e, NEW r, NEW seed, Tell(e, r, seed) PROVE labels' = labels
  BY <1>3 DEF Tell
<1>4. ASSUME NEW e, React(e) PROVE labels' = labels
  BY <1>4 DEF React
<1>5. ASSUME NEW reg, EditRegistry(reg) PROVE labels' = labels
  BY <1>5 DEF EditRegistry
<1>6. CASE Settle \/ UNCHANGED vars
  BY <1>6 DEF Settle, vars
<1> QED BY <1>1, <1>2, <1>3, <1>4, <1>5, <1>6 DEF Next

-----------------------------------------------------------------------------
(* Types.                                                                  *)

\* The steps of a request itself, but for those of its workers.
OwnStep(q) ==
  \/ \E project \in Askable : Request(q, project)
  \/ \E project \in Projects : ScanProject(q, project)
  \/ CreatePlan(q) \/ Enqueue(q) \/ Abort(q)

\* The invariants that types depend on: a queue holds rows of its plan only because
\* nothing is queued before the plan is made, and an action is that of a queued row.
Steady == TypeOK /\ RequestInv /\ ActionInv

\* Whose action it is has a row in its queue.
LEMMA ActionIsQueued ==
  ASSUME ActionInv, NEW x \in Actors, NEW r \in Resources, <<x, r>> \in DOMAIN actions
  PROVE  x \in Requests => r \in queued[x]
BY DEF ActionInv, Sound

\* Steps of requests preserve the types.
LEMMA RequestTypes ==
  ASSUME Steady, NEW q \in Requests, OwnStep(q)
  PROVE  TypeOK'
<1> USE EstateAssumption, ScopeAssumption DEF Steady
<1>1. ASSUME NEW project \in Askable, Request(q, project) PROVE TypeOK'
  <2>1. project \in Projects \cup {All} /\ AllActiveProjects \subseteq Projects
    BY DEF AllActiveProjects
  <2>2. todo' \in [Requests -> SUBSET Projects] /\ asked' \in [Requests -> Projects \cup {All}]
    BY <1>1, <2>1 DEF Request, TypeOK
  <2>3. calm' \subseteq Requests
    BY <1>1 DEF Request, TypeOK
  <2>4. /\ step' \in [Requests -> {"new", "scan", "plan", "queue", "ended"}]
        /\ answer' \in [Requests -> {"none", "SKIPPED", "COMPLIANT", "QUEUED", "ERROR"}]
    <3>1. \E s \in {"ended", "scan"} : step' = [step EXCEPT ![q] = s]
      BY <1>1 DEF Request, End
    <3>2. answer' = answer \/ answer' = [answer EXCEPT ![q] = "SKIPPED"]
      BY <1>1 DEF Request, End
    <3> QED BY <3>1, <3>2 DEF TypeOK
  <2> QED BY <1>1, <2>2, <2>3, <2>4 DEF Request, TypeOK, registryVars, eventVars, recordVars
<1>2. ASSUME NEW project \in Projects, ScanProject(q, project) PROVE TypeOK'
  <2>1. PICK apis \in EnabledApis(project), saved \in BOOLEAN, reg \in published :
          /\ IF apis = Enabled[project] /\ saved THEN NoFault ELSE Fault
          /\ results' = [results EXCEPT ![q] =
                           [r \in Discover(project, apis) \cup DOMAIN results[q] |->
                              IF r \in Discover(project, apis)
                                THEN Evaluate(reg, project, TypeOf[r], DiscoveredLabels(r))
                                ELSE results[q][r]]]
          /\ SaveInventory(Discover(project, apis), saved)
    BY <1>2 DEF ScanProject
  <2>2. Discover(project, apis) \subseteq Resources
    BY DEF Discover, ActiveSupported
  <2>3. /\ DOMAIN results' = Requests
        /\ \A p \in Requests : /\ DOMAIN results'[p] \subseteq Resources
                               /\ \A r \in DOMAIN results'[p] : results'[p][r] \in Result
    BY <2>1, <2>2, VerdictIsResult DEF TypeOK
  <2>4. inventory' \subseteq Resources
    BY <2>1, <2>2 DEF SaveInventory, TypeOK
  <2>5. faults' \in Nat /\ edits + faults' <= MaxTrouble /\ calm' \subseteq Requests
    BY <2>1 DEF Fault, NoFault, TypeOK
  <2>6. step' \in [Requests -> {"new", "scan", "plan", "queue", "ended"}]
        /\ todo' \in [Requests -> SUBSET Projects]
    BY <1>2 DEF ScanProject, TypeOK
  <2>7. UNCHANGED <<registry, published, labels, asked, plan, queued, executed, answer, told,
                    unread, heard, actions, edits>>
    BY <1>2 DEF ScanProject, registryVars, eventVars, recordVars
  <2> QED BY <2>3, <2>4, <2>5, <2>6, <2>7 DEF TypeOK
<1>3. CASE CreatePlan(q)
  <2>1. PICK view \in [CacheKeys(q) -> published] :
          plan' = [plan EXCEPT ![q] =
                     [r \in {s \in DOMAIN results[q] :
                               Present(PlannedLabels(view[CacheKey(s)], s, results[q][s])) # {}} |->
                        PlannedLabels(view[CacheKey(r)], r, results[q][r])]]
    BY <1>3 DEF CreatePlan
  <2> DEFINE planned(r) == PlannedLabels(view[CacheKey(r)], r, results[q][r])
             rows == {r \in DOMAIN results[q] : Present(planned(r)) # {}}
  <2>2. rows \subseteq Resources
    BY DEF TypeOK
  <2>3. \A r \in rows : planned(r) \in Labels
    <3> SUFFICES ASSUME NEW r \in rows PROVE planned(r) \in Labels
      OBVIOUS
    <3>1. ~results[q][r].compliant
      BY DEF PlannedLabels, Present, Nothing
    <3>2. view[CacheKey(r)] \in Registries
      BY <3>1 DEF CacheKeys, TypeOK
    <3> QED BY <2>2, <3>2, PlannedIsBound
  <2>4. queued[q] = {} /\ DOMAIN executed[q] = {}
    BY <1>3 DEF CreatePlan, RequestInv, InOrder
  <2>5. plan' = [plan EXCEPT ![q] = [r \in rows |-> planned(r)]]
    BY <2>1
  <2> HIDE DEF planned, rows
  <2>6. /\ DOMAIN plan' = Requests
        /\ \A p \in Requests : /\ DOMAIN plan'[p] \subseteq Resources
                               /\ \A r \in DOMAIN plan'[p] : plan'[p][r] \in Labels
    BY <2>2, <2>3, <2>5 DEF TypeOK
  <2>7. \A p \in Requests : /\ queued[p] \subseteq DOMAIN plan'[p]
                            /\ DOMAIN executed[p] \subseteq DOMAIN plan'[p] \ queued[p]
    BY <2>4, <2>5 DEF TypeOK
  <2>8. /\ step' \in [Requests -> {"new", "scan", "plan", "queue", "ended"}]
        /\ answer' \in [Requests -> {"none", "SKIPPED", "COMPLIANT", "QUEUED", "ERROR"}]
    <3>1. \E s \in {"ended", "queue"} : step' = [step EXCEPT ![q] = s]
      BY <1>3 DEF CreatePlan, End
    <3>2. answer' = answer \/ answer' = [answer EXCEPT ![q] = "COMPLIANT"]
      BY <1>3 DEF CreatePlan, End
    <3> QED BY <3>1, <3>2 DEF TypeOK
  <2>9. UNCHANGED <<registry, published, labels, asked, todo, results, queued, executed, inventory,
                    told, unread, heard, actions, calm, edits, faults>>
    BY <1>3 DEF CreatePlan, registryVars, eventVars, recordVars
  <2> QED BY <2>6, <2>7, <2>8, <2>9 DEF TypeOK
<1>4. ASSUME Enqueue(q) \/ Abort(q) PROVE TypeOK'
  <2>1. DOMAIN executed[q] = {}
    BY <1>4 DEF Enqueue, Abort, RequestInv, InOrder
  <2>2. PICK rows \in SUBSET DOMAIN plan[q] : queued' = [queued EXCEPT ![q] = rows]
    BY <1>4 DEF Enqueue, Abort
  <2>3. faults' \in Nat /\ edits + faults' <= MaxTrouble /\ calm' \subseteq Requests
    BY <1>4 DEF Enqueue, Abort, Fault, TypeOK
  <2>4. /\ step' \in [Requests -> {"new", "scan", "plan", "queue", "ended"}]
        /\ answer' \in [Requests -> {"none", "SKIPPED", "COMPLIANT", "QUEUED", "ERROR"}]
    BY <1>4 DEF Enqueue, Abort, End, TypeOK
  <2>5. UNCHANGED <<registry, published, labels, asked, todo, results, plan, executed, inventory,
                    told, unread, heard, actions, edits>>
    BY <1>4 DEF Enqueue, Abort, registryVars, eventVars
  <2> QED BY <2>1, <2>2, <2>3, <2>4, <2>5 DEF TypeOK
<1> QED BY <1>1, <1>2, <1>3, <1>4 DEF OwnStep

\* So do the steps of actions and events.
LEMMA ActionTypes ==
  ASSUME Steady,
         \/ \E q \in Requests, r \in Resources : Execute(q, r)
         \/ \E x \in Actors, r \in Resources : Apply(x, r) \/ Refused(x, r)
         \/ \E e \in Events, r \in Touched, seed \in UserValues : Tell(e, r, seed)
         \/ \E e \in Events : React(e)
  PROVE  TypeOK'
<1> USE EstateAssumption DEF Steady
<1> DEFINE Rest ==
      /\ UNCHANGED <<registry, published, step, asked, todo, results, plan, answer, inventory>>
      /\ edits' = edits /\ faults' \in Nat /\ edits + faults' <= MaxTrouble
      /\ calm' \subseteq Requests
    Events2 == /\ unread' \subseteq DOMAIN told' /\ DOMAIN told' \subseteq Events
               /\ \A e \in DOMAIN told' : told'[e] \in [about : Resources, seed : UserValues]
    Actions2 == /\ DOMAIN actions' \subseteq Actors \X Resources
                /\ \A a \in DOMAIN actions' : actions'[a] \in Action
    Records2 == /\ DOMAIN executed' = Requests
                /\ queued' \in [Requests -> SUBSET Resources]
                /\ heard' \subseteq Resources
                /\ \A q \in Requests : /\ queued'[q] \subseteq DOMAIN plan[q]
                                       /\ DOMAIN executed'[q] \subseteq DOMAIN plan[q] \ queued'[q]
<1>1. ASSUME Rest, Events2, Actions2, Records2, labels' \in [Resources -> Labels]
      PROVE  TypeOK'
  BY <1>1 DEF TypeOK
<1>2. UNCHANGED <<told, unread>> => Events2
  BY DEF TypeOK
<1>3. UNCHANGED actions => Actions2
  BY DEF TypeOK
<1>4. UNCHANGED recordVars => Records2
  BY DEF TypeOK, recordVars
<1>5. labels \in [Resources -> Labels]
  BY DEF TypeOK
<1>6. ASSUME NEW x \in Actors, NEW r \in Resources, NEW status, Record(x, r, status),
             x \in Requests => r \in queued[x]
      PROVE  Records2
  BY <1>6, RecordEffect
<1>7. ASSUME NEW x \in Actors, NEW r \in Resources, NEW desired \in Labels, Begin(x, r, desired)
      PROVE  Actions2
  <2>1. DOMAIN actions \subseteq Actors \X Resources
    BY DEF TypeOK
  <2>2. /\ DOMAIN actions' = DOMAIN actions \cup {<<x, r>>}
        /\ \A a \in DOMAIN actions' : actions'[a] \in Action
    BY <1>7, BeginEffect
  <2>3. <<x, r>> \in Actors \X Resources
    OBVIOUS
  <2> QED BY <2>1, <2>2, <2>3
<1>8. ASSUME NoFault \/ Fault, edits' = edits
      PROVE  edits' = edits /\ faults' \in Nat /\ edits + faults' <= MaxTrouble
             /\ calm' \subseteq Requests
  BY <1>8 DEF NoFault, Fault, TypeOK
<1>9. ASSUME NEW q \in Requests, NEW r \in Resources, Execute(q, r) PROVE TypeOK'
  <2>1. q \in Actors /\ r \in queued[q] /\ plan[q][r] \in Labels
    BY <1>9 DEF Execute, Actors, TypeOK
  <2>2. UNCHANGED <<registry, published, labels, step, asked, todo, results, plan, answer,
                    inventory, told, unread, edits>> /\ (NoFault \/ Fault)
    BY <1>9 DEF Execute, registryVars, requestVars, eventVars
  <2>3. CASE Begin(q, r, plan[q][r]) /\ UNCHANGED recordVars
    BY <1>1, <1>2, <1>4, <1>5, <1>7, <1>8, <2>1, <2>2, <2>3
  <2>4. CASE Record(q, r, "FAILED") /\ UNCHANGED actions
    BY <1>1, <1>2, <1>3, <1>5, <1>6, <1>8, <2>1, <2>2, <2>4
  <2> QED BY <1>9, <2>3, <2>4 DEF Execute
<1>10. ASSUME NEW x \in Actors, NEW r \in Resources, NEW who \in SUBSET {"user", "program"},
              <<x, r>> \in DOMAIN actions,
              actions' = Onward(DOMAIN actions \ {<<x, r>>}, r, who)
       PROVE  Actions2
  <2>1. DOMAIN actions \subseteq Actors \X Resources
    BY DEF TypeOK
  <2>2. DOMAIN actions \ {<<x, r>>} \in SUBSET DOMAIN actions
    OBVIOUS
  <2>3. /\ DOMAIN actions' = DOMAIN actions \ {<<x, r>>}
        /\ \A a \in DOMAIN actions \ {<<x, r>>} : actions'[a] \in Action
    BY <1>10, <2>2, OnwardEffect
  <2> QED BY <2>1, <2>3
<1>11. ASSUME NEW x \in Actors, NEW r \in Resources, Apply(x, r) PROVE TypeOK'
  <2>1. <<x, r>> \in DOMAIN actions /\ labels' \in [Resources -> Labels]
    BY <1>11, ApplyEffect
  <2>2. Actions2
    <3> DEFINE who == {"program"} \cup actions[<<x, r>>].since
    <3>1. /\ actions' = Onward(DOMAIN actions \ {<<x, r>>}, r, who)
          /\ who \in SUBSET {"user", "program"}
      BY <1>11, ApplyEffect
    <3> HIDE DEF who
    <3> QED BY <1>10, <2>1, <3>1
  <2>3. Records2
    BY <1>6, <1>11, <2>1, ActionIsQueued DEF Apply
  <2>4. Rest /\ UNCHANGED <<told, unread>>
    BY <1>11 DEF Apply, registryVars, requestVars, eventVars, TypeOK
  <2> QED BY <1>1, <1>2, <2>1, <2>2, <2>3, <2>4
<1>12. ASSUME NEW x \in Actors, NEW r \in Resources, Refused(x, r) PROVE TypeOK'
  <2>1. <<x, r>> \in DOMAIN actions
    BY <1>12 DEF Refused
  <2>2. Actions2
    BY <1>10, <1>12, <2>1 DEF Refused
  <2>3. Records2
    BY <1>6, <1>12, <2>1, ActionIsQueued DEF Refused
  <2>4. UNCHANGED <<registry, published, labels, step, asked, todo, results, plan, answer,
                    inventory, told, unread, edits>> /\ (NoFault \/ Fault)
    BY <1>12 DEF Refused, registryVars, requestVars, eventVars
  <2> QED BY <1>1, <1>2, <1>5, <1>8, <2>2, <2>3, <2>4
<1>13. ASSUME NEW e \in Events, NEW r \in Touched, NEW seed \in UserValues, Tell(e, r, seed)
       PROVE  TypeOK'
  <2>1. e \in Actors /\ e \notin Requests /\ r \in Resources
    BY DEF Actors
  <2>2. Rest /\ UNCHANGED <<labels, actions>>
    BY <1>13 DEF Tell, registryVars, requestVars, TypeOK
  <2>3. Events2
    <3>1. unread' \subseteq unread \cup {e}
      BY <1>13 DEF Tell
    <3>2. told' = [d \in DOMAIN told \cup {e} |->
                     IF d = e THEN [about |-> r, seed |-> seed] ELSE told[d]]
      BY <1>13 DEF Tell
    <3>3. [about |-> r, seed |-> seed] \in [about : Resources, seed : UserValues]
      BY <2>1
    <3> QED BY <3>1, <3>2, <3>3 DEF TypeOK
  <2>4. Records2
    BY <1>4, <1>6, <1>13, <2>1 DEF Tell
  <2> QED BY <1>1, <1>3, <1>5, <2>2, <2>3, <2>4
<1>14. ASSUME NEW e \in Events, React(e) PROVE TypeOK'
  <2>1. e \in Actors /\ e \notin Requests /\ told[e].about \in Resources
    BY <1>14 DEF Actors, React, TypeOK
  <2>2. UNCHANGED <<registry, published, labels, step, asked, todo, results, plan, answer,
                    inventory, told, edits>> /\ (NoFault \/ Fault)
    <3>1. UNCHANGED <<registryVars, labels, requestVars, told, edits>>
      BY <1>14 DEF React
    <3>2. NoFault \/ Fault
      BY <1>14 DEF React
    <3> QED BY <3>1, <3>2 DEF registryVars, requestVars
  <2>3. Events2
    BY <1>14, <2>2 DEF React, TypeOK
  <2>4. ASSUME NEW reg \in published
        PROVE  ExpectedLabels(reg, ProjectOf[told[e].about], told[e].seed, TypeOf[told[e].about])
                 \in Labels
    BY <2>1, <2>4, ExpectedIsBound DEF TypeOK
  <2>5. (Actions2 /\ UNCHANGED recordVars)
          \/ (UNCHANGED actions /\ \E status : Record(e, told[e].about, status))
    BY <1>7, <1>14, <2>1, <2>4 DEF React
  <2>6. Actions2 /\ Records2
    BY <1>3, <1>4, <1>6, <2>1, <2>5
  <2> QED BY <1>1, <1>5, <1>8, <2>2, <2>3, <2>6
<1> QED BY <1>9, <1>11, <1>12, <1>13, <1>14

\* And those of users, owners and time.
LEMMA TypeStep == Steady /\ [Next]_vars => TypeOK'
<1> USE EstateAssumption DEF Steady
<1> SUFFICES ASSUME Steady, [Next]_vars PROVE TypeOK'
  OBVIOUS
<1>1. ASSUME NEW r \in Touched, NEW k \in Keys, NEW v \in UserValues, EditLabel(r, k, v)
      PROVE  TypeOK'
  <2>1. labels' \in [Resources -> Labels]
    BY <1>1 DEF EditLabel, TypeOK, Labels
  <2>2. edits' \in Nat /\ edits' + faults <= MaxTrouble /\ calm' \subseteq Requests
    BY <1>1 DEF EditLabel, Edit, TypeOK
  <2>3. DOMAIN actions' = DOMAIN actions /\ \A a \in DOMAIN actions : actions'[a] \in Action
    BY <1>1, OnwardEffect DEF EditLabel
  <2>4. UNCHANGED <<registry, published, step, asked, todo, results, plan, answer, inventory,
                    told, unread, queued, executed, heard, faults>>
    BY <1>1 DEF EditLabel, registryVars, requestVars, eventVars, recordVars
  <2> QED BY <2>1, <2>2, <2>3, <2>4 DEF TypeOK
<1>2. ASSUME NEW reg \in Registries, EditRegistry(reg) PROVE TypeOK'
  <2>1. registry' \in published' /\ published' \subseteq Registries
    BY <1>2 DEF EditRegistry
  <2>2. edits' \in Nat /\ edits' + faults <= MaxTrouble /\ calm' \subseteq Requests
    BY <1>2 DEF EditRegistry, Edit, TypeOK
  <2>3. UNCHANGED <<labels, step, asked, todo, results, plan, answer, inventory,
                    told, unread, queued, executed, heard, actions, faults>>
    BY <1>2 DEF EditRegistry, requestVars, eventVars, recordVars
  <2> QED BY <2>1, <2>2, <2>3 DEF TypeOK
<1>3. CASE Settle
  <2>1. registry' \in published' /\ published' \subseteq Registries
    BY <1>3 DEF Settle, TypeOK
  <2>2. UNCHANGED <<labels, step, asked, todo, results, plan, answer, inventory,
                    told, unread, queued, executed, heard, actions, calm, edits, faults>>
    BY <1>3 DEF Settle, requestVars, eventVars, recordVars
  <2> QED BY <2>1, <2>2 DEF TypeOK
<1>4. CASE UNCHANGED vars
  BY <1>4 DEF vars, registryVars, requestVars, eventVars, recordVars, TypeOK
<1> QED BY <1>1, <1>2, <1>3, <1>4, RequestTypes, ActionTypes DEF Next, Run, OwnStep

-----------------------------------------------------------------------------
(* What keeps requests in order, and actions sound.                        *)

\* Until everything is at rest no registry is forgotten.
LEMMA PublishedGrows ==
  ASSUME TypeOK, [Next]_vars, ~Settle
  PROVE  published \subseteq published'
<1>1. ASSUME NEW q \in Requests, Run(q) PROVE published' = published
  BY <1>1 DEF Run, Request, ScanProject, CreatePlan, Enqueue, Abort, Execute, registryVars
<1>2. ASSUME NEW x, NEW r, Apply(x, r) \/ Refused(x, r) PROVE published' = published
  BY <1>2 DEF Apply, Refused, registryVars
<1>3. ASSUME NEW e, NEW r, NEW seed, Tell(e, r, seed) PROVE published' = published
  BY <1>3 DEF Tell, registryVars
<1>4. ASSUME NEW e, React(e) PROVE published' = published
  BY <1>4 DEF React, registryVars
<1>5. ASSUME NEW r, NEW k, NEW v, EditLabel(r, k, v) PROVE published' = published
  BY <1>5 DEF EditLabel, registryVars
<1>6. ASSUME NEW reg \in Registries, EditRegistry(reg) PROVE published \subseteq published'
  <2>1. published' = {b \in Registries :
                        FilesOf(b) \subseteq UNION {FilesOf(p) : p \in published \cup {reg}}}
    BY <1>6 DEF EditRegistry
  <2>2. ASSUME NEW b \in published
        PROVE  FilesOf(b) \subseteq UNION {FilesOf(p) : p \in published \cup {reg}}
    OBVIOUS
  <2> QED BY <2>1, <2>2 DEF TypeOK
<1>7. CASE UNCHANGED vars
  BY <1>7 DEF vars, registryVars
<1> QED BY <1>1, <1>2, <1>3, <1>4, <1>5, <1>6, <1>7 DEF Next

\* A request stays in order while others, and its own actions, go on.
LEMMA InOrderKept ==
  ASSUME NEW q \in Requests, InOrder(q),
         step'[q] = step[q], asked'[q] = asked[q], todo'[q] = todo[q],
         results'[q] = results[q], plan'[q] = plan[q], queued'[q] \subseteq queued[q],
         step[q] # "ended" => DOMAIN executed'[q] = {},
         published \subseteq published'
  PROVE  InOrder(q)'
<1>1. Covered(q)' = Covered(q) /\ ScopeOf(q)' = ScopeOf(q)
  BY DEF Covered, ScopeOf
<1>2. ASSUME NEW r \in DOMAIN plan[q], Pending(q, r)' PROVE BoundLabels(r, plan[q][r])'
  <2>1. BoundLabels(r, plan[q][r])
    BY <1>2 DEF InOrder, Pending
  <2> QED BY <2>1 DEF BoundLabels
<1> QED BY <1>1, <1>2 DEF InOrder

\* Steps of a request keep it in order.
LEMMA RequestKeepsOrder ==
  ASSUME Steady, NEW q \in Requests, OwnStep(q)
  PROVE  InOrder(q)'
<1> USE DEF Steady
<1>0. InOrder(q)
  BY DEF RequestInv
<1>1. ASSUME NEW project \in Askable, Request(q, project) PROVE InOrder(q)'
  <2>1. /\ step[q] = "new" /\ asked'[q] = project
        /\ todo'[q] = IF project = All THEN AllActiveProjects ELSE {project}
        /\ UNCHANGED <<results, plan, queued, executed>>
    BY <1>1 DEF Request, TypeOK, recordVars
  <2>2. step'[q] \in {"scan", "ended"}
    BY <1>1 DEF Request, End, TypeOK
  <2>3. todo'[q] = ScopeOf(q)'
    BY <2>1 DEF ScopeOf
  <2>4. DOMAIN results[q] = {} /\ DOMAIN plan[q] = {} /\ queued[q] = {} /\ DOMAIN executed[q] = {}
    BY <1>0, <2>1 DEF InOrder
  <2> QED BY <2>1, <2>2, <2>3, <2>4 DEF InOrder
<1>2. ASSUME NEW project \in Projects, ScanProject(q, project) PROVE InOrder(q)'
  <2>1. PICK apis \in EnabledApis(project), reg \in published :
          results' = [results EXCEPT ![q] =
                        [r \in Discover(project, apis) \cup DOMAIN results[q] |->
                           IF r \in Discover(project, apis)
                             THEN Evaluate(reg, project, TypeOf[r], DiscoveredLabels(r))
                             ELSE results[q][r]]]
    BY <1>2 DEF ScanProject
  <2>2. /\ step[q] = "scan" /\ project \in todo[q]
        /\ todo'[q] \subseteq todo[q] /\ step'[q] \in {"scan", "plan"}
        /\ UNCHANGED <<asked, plan, queued, executed>>
    BY <1>2 DEF ScanProject, TypeOK, recordVars
  <2>3. Covered(q)' = Covered(q) /\ ScopeOf(q)' = ScopeOf(q)
    BY <2>2 DEF Covered, ScopeOf
  <2>4. Discover(project, apis) \subseteq Covered(q)
    BY <1>0, <2>2 DEF Discover, ActiveSupported, Covered, InOrder, ScopeOf
  <2>5. DOMAIN results'[q] \subseteq Covered(q)'
    BY <1>0, <2>1, <2>3, <2>4 DEF InOrder, TypeOK
  <2>6. DOMAIN plan[q] = {} /\ queued[q] = {} /\ DOMAIN executed[q] = {} /\ todo[q] \subseteq ScopeOf(q)
    BY <1>0, <2>2 DEF InOrder
  <2> QED BY <2>2, <2>3, <2>5, <2>6 DEF InOrder
<1>3. CASE CreatePlan(q)
  <2>1. PICK view \in [CacheKeys(q) -> published] :
          plan' = [plan EXCEPT ![q] =
                     [r \in {s \in DOMAIN results[q] :
                               Present(PlannedLabels(view[CacheKey(s)], s, results[q][s])) # {}} |->
                        PlannedLabels(view[CacheKey(r)], r, results[q][r])]]
    BY <1>3 DEF CreatePlan
  <2> DEFINE planned(r) == PlannedLabels(view[CacheKey(r)], r, results[q][r])
  <2>2. ASSUME NEW r \in DOMAIN plan'[q]
        PROVE  r \in DOMAIN results[q] /\ plan'[q][r] = planned(r) /\ Present(planned(r)) # {}
    BY <2>1, <2>2 DEF TypeOK
  <2>3. ASSUME NEW r \in DOMAIN plan'[q] PROVE BoundLabels(r, plan'[q][r])
    <3>1. r \in DOMAIN results[q] /\ ~results[q][r].compliant
      BY <2>2 DEF PlannedLabels, Present, Nothing
    <3>2. view[CacheKey(r)] \in published
      BY <3>1 DEF CacheKeys
    <3>3. view[CacheKey(r)] \in Registries /\ r \in Resources
      BY <3>1, <3>2 DEF TypeOK
    <3>4. \A k \in Keys : planned(r)[k] # Absent => BoundIn(view[CacheKey(r)], r, k, planned(r)[k])
      BY <3>3, PlannedIsBound
    <3> QED BY <2>2, <3>2, <3>4 DEF BoundLabels
  <2>4. /\ step[q] = "plan"
        /\ UNCHANGED <<published, asked, todo, results, queued, executed>>
    BY <1>3 DEF CreatePlan, registryVars, recordVars
  <2>5. step'[q] \in {"queue", "ended"}
    BY <1>3 DEF CreatePlan, End, TypeOK
  <2>6. Covered(q)' = Covered(q) /\ ScopeOf(q)' = ScopeOf(q)
    BY <2>4 DEF Covered, ScopeOf
  <2>7. \A r \in DOMAIN plan'[q] : BoundLabels(r, plan[q][r])'
    BY <2>3, <2>4 DEF BoundLabels
  <2>8. DOMAIN plan'[q] \subseteq DOMAIN results[q]
    BY <2>2
  <2>9. /\ queued[q] = {} /\ DOMAIN executed[q] = {} /\ todo[q] \subseteq ScopeOf(q)
        /\ DOMAIN results[q] \subseteq Covered(q)
    BY <1>0, <2>4 DEF InOrder
  <2> QED BY <2>4, <2>5, <2>6, <2>7, <2>8, <2>9 DEF InOrder
<1>4. CASE Enqueue(q) \/ Abort(q)
  <2>1. PICK rows \in SUBSET DOMAIN plan[q] : queued' = [queued EXCEPT ![q] = rows]
    BY <1>4 DEF Enqueue, Abort
  <2>2. /\ step[q] \in {"scan", "plan", "queue"}
        /\ UNCHANGED <<published, asked, todo, results, plan, executed>>
    BY <1>4 DEF Enqueue, Abort, registryVars
  <2>3. step'[q] = "ended"
    BY <1>4 DEF Enqueue, Abort, End, TypeOK
  <2>4. Covered(q)' = Covered(q) /\ ScopeOf(q)' = ScopeOf(q)
    BY <2>2 DEF Covered, ScopeOf
  <2>5. \A r \in DOMAIN plan[q] : BoundLabels(r, plan[q][r])'
    BY <1>0, <2>2 DEF InOrder, Pending, BoundLabels
  <2> QED BY <1>0, <2>2, <2>3, <2>4, <2>5 DEF InOrder
<1> QED BY <1>1, <1>2, <1>3, <1>4 DEF OwnStep

\* What others do, and its workers, takes nothing from a request but tasks of its queue.
LEMMA WhoseStep ==
  ASSUME Steady, [Next]_vars, NEW p \in Requests
  PROVE  \/ OwnStep(p)
         \/ /\ step'[p] = step[p] /\ asked'[p] = asked[p] /\ todo'[p] = todo[p]
            /\ results'[p] = results[p] /\ plan'[p] = plan[p] /\ answer'[p] = answer[p]
            /\ queued'[p] \subseteq queued[p]
            /\ step[p] # "ended" => DOMAIN executed'[p] = {}
<1> USE EstateAssumption DEF Steady
<1>0. InOrder(p)
  BY DEF RequestInv
<1> DEFINE Same == /\ step'[p] = step[p] /\ asked'[p] = asked[p] /\ todo'[p] = todo[p]
                   /\ results'[p] = results[p] /\ plan'[p] = plan[p] /\ answer'[p] = answer[p]
           Done == /\ queued'[p] \subseteq queued[p]
                   /\ step[p] # "ended" => DOMAIN executed'[p] = {}
<1>2. UNCHANGED requestVars => Same
  BY DEF requestVars
<1>3. queued'[p] = queued[p] /\ executed'[p] = executed[p] => Done
  BY <1>0 DEF InOrder
<1>4. ASSUME NEW x \in Actors, NEW r \in Resources, NEW status, Record(x, r, status),
             x \in Requests => r \in queued[x]
      PROVE  Done
  <2>1. CASE x # p
    BY <1>3, <1>4, <2>1, RecordEffect
  <2>2. CASE x = p
    <3>1. queued'[p] = queued[p] \ {r}
      BY <1>4, <2>2, RecordEffect
    <3>2. step[p] = "ended"
      BY <1>0, <1>4, <2>2 DEF InOrder
    <3> QED BY <3>1, <3>2
  <2> QED BY <2>1, <2>2
<1>5. ASSUME NEW q \in Requests, q # p, OwnStep(q) PROVE Same /\ Done
  <2>1. Same
    <3>1. CASE \E project \in Askable : Request(q, project)
      BY <1>5, <3>1 DEF Request, End, TypeOK
    <3>2. CASE \E project \in Projects : ScanProject(q, project)
      BY <1>5, <3>2 DEF ScanProject, TypeOK
    <3>3. CASE CreatePlan(q)
      <4>1. \E t : step' = [step EXCEPT ![q] = t]
        BY <3>3 DEF CreatePlan, End
      <4>2. \E rows : plan' = [plan EXCEPT ![q] = rows]
        BY <3>3 DEF CreatePlan
      <4>3. answer' = answer \/ answer' = [answer EXCEPT ![q] = "COMPLIANT"]
        BY <3>3 DEF CreatePlan, End
      <4>4. UNCHANGED <<asked, todo, results>>
        BY <3>3 DEF CreatePlan
      <4> QED BY <1>5, <4>1, <4>2, <4>3, <4>4 DEF TypeOK
    <3>4. CASE Enqueue(q) \/ Abort(q)
      BY <1>5, <3>4 DEF Enqueue, Abort, End, TypeOK
    <3> QED BY <1>5, <3>1, <3>2, <3>3, <3>4 DEF OwnStep
  <2>2. queued'[p] = queued[p] /\ executed'[p] = executed[p]
    BY <1>5 DEF OwnStep, Request, ScanProject, CreatePlan, Enqueue, Abort, recordVars, TypeOK
  <2> QED BY <1>3, <2>1, <2>2
<1>6. ASSUME NEW q \in Requests, NEW r \in Resources, Execute(q, r) PROVE Same /\ Done
  <2>1. q \in Actors /\ r \in queued[q]
    BY <1>6 DEF Execute, Actors
  <2>2. UNCHANGED recordVars \/ Record(q, r, "FAILED")
    BY <1>6 DEF Execute
  <2>3. Done
    BY <1>3, <1>4, <2>1, <2>2 DEF recordVars
  <2> QED BY <1>2, <1>6, <2>3 DEF Execute
<1>7. ASSUME NEW x \in Actors, NEW r \in Resources, Apply(x, r) \/ Refused(x, r)
      PROVE  Same /\ Done
  <2>1. <<x, r>> \in DOMAIN actions /\ \E status : Record(x, r, status)
    BY <1>7 DEF Apply, Refused
  <2>2. Done
    BY <1>4, <2>1, ActionIsQueued
  <2> QED BY <1>2, <1>7, <2>2 DEF Apply, Refused
<1>8. ASSUME NEW e \in Events, NEW r \in Touched, NEW seed \in UserValues, Tell(e, r, seed)
      PROVE  Same /\ Done
  <2>1. e \in Actors /\ e \notin Requests /\ r \in Resources
    BY DEF Actors
  <2>2. UNCHANGED recordVars \/ Record(e, r, "FAILED")
    BY <1>8 DEF Tell
  <2>3. Done
    BY <1>3, <1>4, <2>1, <2>2 DEF recordVars
  <2> QED BY <1>2, <1>8, <2>3 DEF Tell
<1>9. ASSUME NEW e \in Events, React(e) PROVE Same /\ Done
  <2>1. e \in Actors /\ e \notin Requests /\ told[e].about \in Resources
    BY <1>9 DEF Actors, React, TypeOK
  <2>2. UNCHANGED recordVars \/ \E status : Record(e, told[e].about, status)
    BY <1>9 DEF React
  <2>3. Done
    BY <1>3, <1>4, <2>1, <2>2 DEF recordVars
  <2> QED BY <1>2, <1>9, <2>3 DEF React
<1>10. ASSUME NEW r \in Touched, NEW k \in Keys, NEW v \in UserValues, EditLabel(r, k, v)
       PROVE  Same /\ Done
  BY <1>2, <1>3, <1>10 DEF EditLabel, recordVars
<1>11. ASSUME NEW reg \in Registries, EditRegistry(reg) PROVE Same /\ Done
  BY <1>2, <1>3, <1>11 DEF EditRegistry, recordVars
<1>12. CASE Settle \/ UNCHANGED vars
  BY <1>2, <1>3, <1>12 DEF Settle, vars, recordVars
<1> QED BY <1>5, <1>6, <1>7, <1>8, <1>9, <1>10, <1>11, <1>12 DEF Next, Run, OwnStep

\* Every step keeps requests in order.
LEMMA RequestStep == Steady /\ [Next]_vars => RequestInv'
<1> SUFFICES ASSUME Steady, [Next]_vars, NEW p \in Requests PROVE InOrder(p)'
  BY DEF RequestInv
<1> USE DEF Steady
<1>1. InOrder(p)
  BY DEF RequestInv
<1>2. CASE OwnStep(p)
  BY <1>2, RequestKeepsOrder
<1>3. CASE Settle
  <2>1. step[p] \in {"new", "ended"} /\ queued[p] = {}
    BY <1>3 DEF Settle, Idle
  <2>2. UNCHANGED <<step, asked, todo, results, plan, queued, executed>>
    BY <1>3 DEF Settle, requestVars, recordVars
  <2>3. Covered(p)' = Covered(p) /\ ScopeOf(p)' = ScopeOf(p)
    BY <2>2 DEF Covered, ScopeOf
  <2> QED BY <1>1, <2>1, <2>2, <2>3 DEF InOrder, Pending
<1>4. CASE ~OwnStep(p) /\ ~Settle
  <2>1. published \subseteq published'
    BY <1>4, PublishedGrows
  <2> QED BY <1>1, <1>4, <2>1, WhoseStep, InOrderKept
<1> QED BY <1>2, <1>3, <1>4

\* An action stays sound while it has its row and registries are not forgotten, since
\* it knows when somebody writes its resource.
LEMMA SoundKept ==
  ASSUME NEW a, Sound(a),
         actions'[a].read = actions[a].read, actions'[a].desired = actions[a].desired,
         actions'[a].since = {} => actions[a].since = {} /\ labels'[a[2]] = labels[a[2]],
         a[1] \in Requests => a[2] \in queued'[a[1]],
         a[1] \in Events => a[1] \in DOMAIN told' /\ told'[a[1]] = told[a[1]],
         published \subseteq published'
  PROVE  Sound(a)'
<1>1. BoundLabels(a[2], actions[a].desired)
  BY DEF Sound
<1>2. BoundLabels(a[2], actions'[a].desired)
  BY <1>1
<1>3. \A k \in Keys : actions'[a].desired[k] # Absent =>
        \E reg \in published' : BoundIn(reg, a[2], k, actions'[a].desired[k])
  BY <1>2 DEF BoundLabels
<1>4. BoundLabels(a[2], actions[a].desired)'
  BY <1>3 DEF BoundLabels
<1> QED BY <1>4 DEF Sound

\* Every step keeps actions sound.
LEMMA ActionStep == Steady /\ [Next]_vars => ActionInv'
<1> USE EstateAssumption
<1> SUFFICES ASSUME Steady, [Next]_vars PROVE ActionInv'
  OBVIOUS
<1> USE DEF Steady
<1>0. \A a \in DOMAIN actions : Sound(a) /\ a = <<a[1], a[2]>> /\ a[1] \in Actors /\ a[2] \in Resources
  BY ActionIsTyped DEF ActionInv
<1>1. ASSUME UNCHANGED <<labels, told>>, published \subseteq published',
             \A q \in Requests : queued[q] \subseteq queued'[q]
      PROVE  \A a \in DOMAIN actions : actions'[a] = actions[a] => Sound(a)'
  <2> SUFFICES ASSUME NEW a \in DOMAIN actions, actions'[a] = actions[a] PROVE Sound(a)'
    OBVIOUS
  <2>1. Sound(a)
    BY <1>0
  <2>2. a[1] \in Requests => a[2] \in queued'[a[1]]
    BY <1>1, <2>1 DEF Sound
  <2>3. a[1] \in Events => a[1] \in DOMAIN told' /\ told'[a[1]] = told[a[1]]
    BY <1>1, <2>1 DEF Sound
  <2> QED BY <1>1, <2>1, <2>2, <2>3, SoundKept
<1>2. ASSUME NEW q \in Requests, OwnStep(q)
      PROVE  ActionInv'
  <2>1. UNCHANGED <<labels, told, actions, published>>
    BY <1>2 DEF OwnStep, Request, ScanProject, CreatePlan, Enqueue, Abort, registryVars, eventVars
  <2>2. \A p \in Requests : queued[p] \subseteq queued'[p]
    <3>1. CASE queued' = queued
      BY <3>1
    <3>2. CASE Enqueue(q) \/ Abort(q)
      <4>1. queued[q] = {}
        BY <3>2 DEF Enqueue, Abort, RequestInv, InOrder
      <4>2. \E rows : queued' = [queued EXCEPT ![q] = rows]
        BY <3>2 DEF Enqueue, Abort
      <4> QED BY <4>1, <4>2 DEF TypeOK
    <3>3. queued' = queued \/ Enqueue(q) \/ Abort(q)
      BY <1>2 DEF OwnStep, Request, ScanProject, CreatePlan, recordVars
    <3> QED BY <3>1, <3>2, <3>3
  <2> QED BY <1>1, <2>1, <2>2 DEF ActionInv
<1>3. ASSUME NEW q \in Requests, NEW r \in Resources, Execute(q, r) PROVE ActionInv'
  <2>1. q \in Actors /\ r \in queued[q] /\ <<q, r>> \notin DOMAIN actions /\ q \notin Events
    BY <1>3 DEF Execute, Actors
  <2>2. UNCHANGED <<labels, told, published>>
    BY <1>3 DEF Execute, registryVars, eventVars
  <2>3. CASE Begin(q, r, plan[q][r]) /\ UNCHANGED recordVars
    <3>1. r \in DOMAIN plan[q] /\ plan[q][r] \in Labels
      BY <2>1 DEF TypeOK
    <3>2. BoundLabels(r, plan[q][r])
      BY <2>1, <3>1 DEF RequestInv, InOrder, Pending
    <3>3. /\ DOMAIN actions' = DOMAIN actions \cup {<<q, r>>}
          /\ \A a \in DOMAIN actions \ {<<q, r>>} : actions'[a] = actions[a]
          /\ actions'[<<q, r>>] = [read |-> labels[r], desired |-> plan[q][r], since |-> {}]
      BY <2>1, <2>3, <3>1, BeginEffect
    <3>4. queued' = queued
      BY <2>3 DEF recordVars
    <3>5. Sound(<<q, r>>)'
      BY <2>1, <2>2, <3>2, <3>3, <3>4 DEF Sound, BoundLabels
    <3>6. \A a \in DOMAIN actions \ {<<q, r>>} : Sound(a)'
      BY <1>1, <2>2, <3>3, <3>4
    <3> QED BY <3>3, <3>5, <3>6 DEF ActionInv
  <2>4. CASE Record(q, r, "FAILED") /\ UNCHANGED actions
    <3>0. /\ \A p \in Requests \ {q} : queued'[p] = queued[p]
          /\ queued'[q] = queued[q] \ {r}
      BY <2>1, <2>4, RecordEffect
    <3>1. \A p \in Requests : queued'[p] = IF p = q THEN queued[p] \ {r} ELSE queued[p]
      BY <3>0
    <3>2. ASSUME NEW a \in DOMAIN actions PROVE Sound(a)'
      <4>1. Sound(a) /\ a # <<q, r>> /\ a = <<a[1], a[2]>>
        BY <1>0, <2>1
      <4>2. a[1] \in Requests => a[2] \in queued'[a[1]]
        BY <3>1, <4>1 DEF Sound
      <4>3. a[1] \in Events => a[1] \in DOMAIN told
        BY <4>1 DEF Sound
      <4> QED BY <2>2, <2>4, <4>1, <4>2, <4>3, SoundKept
    <3> QED BY <2>4, <3>2 DEF ActionInv
  <2> QED BY <1>3, <2>3, <2>4 DEF Execute
<1>4. ASSUME NEW x \in Actors, NEW r \in Resources, NEW who \in SUBSET {"user", "program"},
             NEW status, <<x, r>> \in DOMAIN actions,
             actions' = Onward(DOMAIN actions \ {<<x, r>>}, r, who), Record(x, r, status),
             UNCHANGED <<told, published>>,
             \A s \in Resources : labels'[s] # labels[s] => s = r /\ who # {}
      PROVE  ActionInv'
  <2>1. PICK S \in SUBSET DOMAIN actions :
          S = DOMAIN actions \ {<<x, r>>} /\ actions' = Onward(S, r, who)
    BY <1>4
  <2>2. /\ DOMAIN actions' = S
        /\ \A a \in S :
             /\ actions'[a].read = actions[a].read
             /\ actions'[a].desired = actions[a].desired
             /\ actions'[a].since = IF a[2] = r THEN actions[a].since \cup who
                                    ELSE actions[a].since
    <3>1. DOMAIN actions' = S
      BY <2>1, OnwardEffect
    <3>2. ASSUME NEW a \in S
          PROVE  /\ actions'[a].read = actions[a].read
                 /\ actions'[a].desired = actions[a].desired
      BY <2>1, OnwardEffect
    <3>3. ASSUME NEW a \in S
          PROVE  actions'[a].since = IF a[2] = r THEN actions[a].since \cup who
                                     ELSE actions[a].since
      <4>1. TypeOK /\ S \in SUBSET DOMAIN actions
        OBVIOUS
      <4>2. a \in S /\ actions' = Onward(S, r, who)
        BY <2>1
      <4>3. actions'[a] = IF a[2] = r THEN [actions[a] EXCEPT !.since = actions[a].since \cup who]
                          ELSE actions[a]
        BY ONLY <4>2 DEF Onward
      <4>4. actions[a] \in Action
        BY <4>1 DEF TypeOK
      <4> QED BY ONLY <4>3, <4>4 DEF Action
    <3> QED BY <3>1, <3>2, <3>3
  <2>0. x \in Requests => r \in queued[x]
    BY <1>4, ActionIsQueued
  <2>3. \A p \in Requests : queued'[p] = IF p = x THEN queued[p] \ {r} ELSE queued[p]
    <3>1. \A p \in Requests \ {x} : queued'[p] = queued[p]
      BY <1>4, <2>0, RecordEffect
    <3>2. x \in Requests => queued'[x] = queued[x] \ {r}
      BY <1>4, <2>0, RecordEffect
    <3> QED BY <3>1, <3>2
  <2>4. ASSUME NEW a \in S PROVE Sound(a)'
    <3>1. Sound(a) /\ a # <<x, r>> /\ a = <<a[1], a[2]>> /\ a[2] \in Resources
      BY <1>0, <2>1
    <3>2. a[1] \in Requests => a[2] \in queued'[a[1]]
      BY <2>3, <3>1 DEF Sound
    <3>3. a[1] \in Events => a[1] \in DOMAIN told
      BY <3>1 DEF Sound
    <3>4. actions'[a].since = {} => actions[a].since = {} /\ labels'[a[2]] = labels[a[2]]
      BY <1>4, <2>2, <3>1
    <3> QED BY <1>4, <2>2, <3>1, <3>2, <3>3, <3>4, SoundKept
  <2> QED BY <2>2, <2>4 DEF ActionInv
<1>5. ASSUME NEW x \in Actors, NEW r \in Resources, Apply(x, r) PROVE ActionInv'
  <2> DEFINE who == {"program"} \cup actions[<<x, r>>].since
  <2>1. /\ <<x, r>> \in DOMAIN actions /\ labels' \in [Resources -> Labels]
        /\ \A s \in Resources \ {r} : labels'[s] = labels[s]
        /\ actions' = Onward(DOMAIN actions \ {<<x, r>>}, r, who)
        /\ who \in SUBSET {"user", "program"}
    BY <1>5, ApplyEffect
  <2>2. who # {}
    OBVIOUS
  <2> HIDE DEF who
  <2>3. Record(x, r, "SUCCESS") /\ UNCHANGED <<told, published>>
    BY <1>5 DEF Apply, eventVars, registryVars
  <2> QED BY <1>4, <2>1, <2>2, <2>3
<1>6. ASSUME NEW x \in Actors, NEW r \in Resources, Refused(x, r) PROVE ActionInv'
  <2>1. /\ <<x, r>> \in DOMAIN actions
        /\ actions' = Onward(DOMAIN actions \ {<<x, r>>}, r, {})
        /\ UNCHANGED <<labels, told, published>>
    BY <1>6 DEF Refused, eventVars, registryVars
  <2>2. \E status : Record(x, r, status)
    BY <1>6 DEF Refused
  <2>3. {} \in SUBSET {"user", "program"}
    OBVIOUS
  <2> QED BY <1>4, <2>1, <2>2, <2>3
<1>7. ASSUME NEW e \in Events, NEW r \in Touched, NEW seed \in UserValues, Tell(e, r, seed)
      PROVE  ActionInv'
  <2>1. e \notin DOMAIN told /\ e \notin Requests
    BY <1>7 DEF Tell
  <2>2. told' = [d \in DOMAIN told \cup {e} |->
                   IF d = e THEN [about |-> r, seed |-> seed] ELSE told[d]]
    BY <1>7 DEF Tell
  <2>3. UNCHANGED <<labels, actions, published, queued>>
    BY <1>7, <2>1 DEF Tell, registryVars, recordVars, Record
  <2>4. ASSUME NEW a \in DOMAIN actions PROVE Sound(a)'
    <3>1. Sound(a)
      BY <1>0
    <3>2. a[1] \in Events => a[1] \in DOMAIN told' /\ told'[a[1]] = told[a[1]]
      BY <2>1, <2>2, <3>1 DEF Sound
    <3>3. a[1] \in Requests => a[2] \in queued'[a[1]]
      BY <2>3, <3>1 DEF Sound
    <3> QED BY <2>3, <3>1, <3>2, <3>3, SoundKept
  <2> QED BY <2>3, <2>4 DEF ActionInv
<1>8. ASSUME NEW e \in Events, React(e) PROVE ActionInv'
  <2>0. e \in DOMAIN told /\ e \in Actors /\ e \notin Requests
        /\ told[e].about \in Resources
    BY <1>8 DEF Actors, React, TypeOK
  <2>1. PICK r \in Resources : r = told[e].about
    BY <2>0
  <2>2. UNCHANGED <<labels, told, published>>
    BY <1>8 DEF React, registryVars
  <2>3. queued' = queued
    BY <1>8, <2>0 DEF React, Record, recordVars
  <2>4. CASE UNCHANGED actions
    BY <1>1, <2>2, <2>3, <2>4 DEF ActionInv
  <2>5. ASSUME NEW reg \in published,
               Begin(e, r, ExpectedLabels(reg, ProjectOf[r], told[e].seed, TypeOf[r]))
        PROVE  ActionInv'
    <3> DEFINE desired == ExpectedLabels(reg, ProjectOf[r], told[e].seed, TypeOf[r])
    <3>1. /\ desired \in Labels
          /\ \A k \in Keys : desired[k] # Absent => BoundIn(reg, r, k, desired[k])
      BY ExpectedIsBound DEF TypeOK
    <3> HIDE DEF desired
    <3>2. Begin(e, r, desired)
      BY <2>5 DEF desired
    <3>3. /\ DOMAIN actions' = DOMAIN actions \cup {<<e, r>>}
          /\ \A a \in DOMAIN actions \ {<<e, r>>} : actions'[a] = actions[a]
          /\ actions'[<<e, r>>] = [read |-> labels[r], desired |-> desired, since |-> {}]
      BY <2>0, <3>1, <3>2, BeginEffect
    <3>4. BoundLabels(r, desired)
      BY <3>1 DEF BoundLabels
    <3>5. told'[e].about = r
      BY <2>1, <2>2
    <3>6. Sound(<<e, r>>)'
      <4>1. BoundLabels(r, actions'[<<e, r>>].desired)
        BY <3>3, <3>4
      <4>3. BoundLabels(r, actions[<<e, r>>].desired)'
        BY <2>2, <4>1 DEF BoundLabels
      <4>2. actions'[<<e, r>>].read = labels'[r] /\ e \in DOMAIN told'
        BY <2>0, <2>2, <3>3
      <4> QED BY <2>0, <3>5, <4>2, <4>3 DEF Sound
    <3>7. \A a \in DOMAIN actions \ {<<e, r>>} : Sound(a)'
      <4>1. \A a \in DOMAIN actions : actions'[a] = actions[a] => Sound(a)'
        BY <1>1, <2>2, <2>3
      <4> QED BY <3>3, <4>1
    <3> QED BY <3>3, <3>6, <3>7 DEF ActionInv
  <2>6. \/ UNCHANGED actions
        \/ \E reg \in published :
             Begin(e, r, ExpectedLabels(reg, ProjectOf[r], told[e].seed, TypeOf[r]))
    BY <1>8, <2>1 DEF React
  <2> QED BY <2>4, <2>5, <2>6
<1>9. ASSUME NEW r \in Touched, NEW k \in Keys, NEW v \in UserValues, EditLabel(r, k, v)
      PROVE  ActionInv'
  <2>1. actions' = Onward(DOMAIN actions, r, {"user"}) /\ UNCHANGED <<told, published, queued>>
        /\ labels' = [labels EXCEPT ![r][k] = v]
    BY <1>9 DEF EditLabel, registryVars, eventVars, recordVars
  <2>2. /\ DOMAIN actions' = DOMAIN actions
        /\ \A a \in DOMAIN actions :
             /\ actions'[a].read = actions[a].read
             /\ actions'[a].desired = actions[a].desired
             /\ actions'[a].since = IF a[2] = r THEN actions[a].since \cup {"user"}
                                    ELSE actions[a].since
    BY <2>1, OnwardEffect
  <2>3. ASSUME NEW a \in DOMAIN actions PROVE Sound(a)'
    <3>1. Sound(a) /\ a[2] \in Resources
      BY <1>0
    <3>2. actions'[a].since = {} => actions[a].since = {} /\ labels'[a[2]] = labels[a[2]]
      <4>1. a[2] # r => labels'[a[2]] = labels[a[2]]
        BY <2>1, <3>1 DEF TypeOK
      <4>2. actions'[a].since = {} => a[2] # r /\ actions[a].since = {}
        BY <2>2
      <4> QED BY <4>1, <4>2
    <3>3. /\ a[1] \in Requests => a[2] \in queued'[a[1]]
          /\ a[1] \in Events => a[1] \in DOMAIN told
      BY <2>1, <3>1 DEF Sound
    <3> QED BY <2>1, <2>2, <3>1, <3>2, <3>3, SoundKept
  <2> QED BY <2>2, <2>3 DEF ActionInv
<1>10. ASSUME NEW reg \in Registries, EditRegistry(reg), ~Settle PROVE ActionInv'
  <2>1. UNCHANGED <<labels, told, actions, queued>>
    BY <1>10 DEF EditRegistry, eventVars, recordVars
  <2>2. published \subseteq published'
    BY <1>10, PublishedGrows
  <2> QED BY <1>1, <2>1, <2>2 DEF ActionInv
<1>11. CASE Settle
  BY <1>11 DEF Settle, Idle, ActionInv
<1>12. CASE UNCHANGED vars
  <2>1. UNCHANGED <<labels, told, actions, queued, published>>
    BY <1>12 DEF vars, registryVars, eventVars, recordVars
  <2> QED BY <1>1, <2>1 DEF ActionInv
<1> QED BY <1>2, <1>3, <1>5, <1>6, <1>7, <1>8, <1>9, <1>10, <1>11, <1>12 DEF Next, Run, OwnStep

\* All of it holds at first.
LEMMA InitInv == Init => Steady
<1> SUFFICES ASSUME Init PROVE Steady
  OBVIOUS
<1>1. TypeOK
  BY EstateAssumption DEF Init, TypeOK, None
<1>2. RequestInv
  BY DEF Init, None, RequestInv, InOrder
<1>3. ActionInv
  BY DEF Init, None, ActionInv
<1> QED BY <1>1, <1>2, <1>3 DEF Steady

\* The inductive invariant of the estate.
THEOREM Invariant == Spec => []Steady
<1>1. Steady /\ [Next]_vars => Steady'
  BY TypeStep, RequestStep, ActionStep DEF Steady
<1> QED BY <1>1, InitInv, PTL DEF Spec

\* The estate, what requests know of it, and the actions under way are well formed.
THEOREM TypeCorrect == Spec => []TypeOK
<1>1. Steady => TypeOK
  BY DEF Steady
<1> QED BY <1>1, Invariant, PTL

-----------------------------------------------------------------------------
(* While the registry is at rest.                                          *)

\* What is required of a container is whitelisted, and whatever its seed the same.
LEMMA NeedsShape ==
  ASSUME NEW reg \in Registries, NEW r \in Resources, TypeOf[r] = Container
  PROVE  /\ Needs(reg, r) \in Labels
         /\ Present(Needs(reg, r)) \subseteq ProjectKeys
         /\ \A seed : ExpectedLabels(reg, ProjectOf[r], seed, TypeOf[r]) = Needs(reg, r)
<1>1. Needs(reg, r) \in Labels
  BY ExpectedIsBound DEF Needs
<1>2. \A seed : ProjectMetadata(reg, ProjectOf[r], seed, Container)
                  = ProjectMetadata(reg, ProjectOf[r], Absent, Container)
  BY DEF ProjectMetadata, Candidates
<1>3. \A seed : ExpectedLabels(reg, ProjectOf[r], seed, TypeOf[r]) = Needs(reg, r)
  BY <1>2 DEF ExpectedLabels, Needs
<1>4. Present(Needs(reg, r)) \subseteq ProjectKeys
  <2> SUFFICES ASSUME NEW k \in Keys, Needs(reg, r)[k] # Absent PROVE k \in ProjectKeys
    BY DEF Present
  <2> QED BY DEF Needs, ExpectedLabels, Nothing
<1> QED BY <1>1, <1>3, <1>4

\* A container that is compared without its labels is planned all that is required of it.
LEMMA AllIsPlanned ==
  ASSUME NEW reg \in Registries, NEW r \in Resources, TypeOf[r] = Container
  PROVE  /\ Evaluate(reg, ProjectOf[r], TypeOf[r], DiscoveredLabels(r))
              = Compare(Needs(reg, r), Nothing)
         /\ PlannedLabels(reg, r, Compare(Needs(reg, r), Nothing)) = Needs(reg, r)
<1> DEFINE n == Needs(reg, r)
           result == Compare(n, Nothing)
           planned == PlannedLabels(reg, r, result)
<1>1. n \in Labels /\ \A seed : ExpectedLabels(reg, ProjectOf[r], seed, TypeOf[r]) = n
  BY NeedsShape
<1>2. Evaluate(reg, ProjectOf[r], TypeOf[r], DiscoveredLabels(r)) = result
  BY <1>1 DEF Evaluate, DiscoveredLabels
<1>3. result.missing = Present(n) /\ result.compliant = (Present(n) = {})
  BY DEF Compare, Missing, Incorrect, Present, Nothing
<1>4. planned = IF result.compliant THEN Nothing
                ELSE [k \in Keys |-> IF k \in result.missing THEN n[k] ELSE Absent]
  BY <1>1 DEF PlannedLabels
<1> HIDE DEF n, result, planned
<1>5. CASE Present(n) = {}
  <2>1. planned = Nothing /\ \A k \in Keys : n[k] = Absent
    BY <1>3, <1>4, <1>5 DEF Present
  <2>2. planned = n
    BY <1>1, <2>1 DEF Nothing, Labels
  <2> QED BY <1>2, <2>2 DEF n, result, planned
<1>6. CASE Present(n) # {}
  <2>1. planned = [k \in Keys |-> IF k \in Present(n) THEN n[k] ELSE Absent]
    BY <1>3, <1>4, <1>6
  <2>2. planned = n
    BY <1>1, <2>1 DEF Present, Labels
  <2> QED BY <1>2, <2>2 DEF n, result, planned
<1> QED BY <1>5, <1>6

\* An action that finds its work done has nothing to add to it.
LEMMA FinalIsFinal ==
  ASSUME NEW r, NEW existing \in Labels, NEW desired \in Labels
  PROVE  FinalLabels(r, FinalLabels(r, existing, desired), desired)
           = FinalLabels(r, existing, desired)
BY DEF FinalLabels, Over, Labels

\* What a request knows stays right while others go on.
LEMMA AtRestKept ==
  ASSUME NEW q \in Requests, RequestAtRest(q), registry' = registry, step'[q] = step[q],
         results'[q] = results[q], plan'[q] = plan[q], queued'[q] \subseteq queued[q]
  PROVE  RequestAtRest(q)'
BY DEF RequestAtRest, Pending, Needs

\* And what its own steps find out is right.
LEMMA RequestRests ==
  ASSUME Steady, NEW q \in Requests, RequestAtRest(q), OwnStep(q), published = {registry}
  PROVE  RequestAtRest(q)'
<1> USE DEF Steady
<1>0. InOrder(q)
  BY DEF RequestInv
<1>1. registry' = registry /\ registry \in Registries /\ DOMAIN results[q] \subseteq Resources
      /\ \A r : Needs(registry, r)' = Needs(registry, r)
  BY DEF OwnStep, Request, ScanProject, CreatePlan, Enqueue, Abort, registryVars, TypeOK, Needs
<1>2. ASSUME NEW project \in Askable, Request(q, project) PROVE RequestAtRest(q)'
  <2>1. step[q] = "new" /\ UNCHANGED <<results, plan>>
    BY <1>2 DEF Request
  <2>2. DOMAIN results'[q] = {} /\ DOMAIN plan'[q] = {}
    BY <1>0, <2>1 DEF InOrder
  <2> QED BY <2>2 DEF RequestAtRest
<1>3. ASSUME NEW project \in Projects, ScanProject(q, project) PROVE RequestAtRest(q)'
  <2>1. PICK apis \in EnabledApis(project), reg \in published :
          results' = [results EXCEPT ![q] =
                        [r \in Discover(project, apis) \cup DOMAIN results[q] |->
                           IF r \in Discover(project, apis)
                             THEN Evaluate(reg, project, TypeOf[r], DiscoveredLabels(r))
                             ELSE results[q][r]]]
    BY <1>3 DEF ScanProject
  <2>2. step[q] = "scan" /\ plan' = plan
    BY <1>3 DEF ScanProject
  <2>3. DOMAIN plan'[q] = {}
    BY <1>0, <2>2 DEF InOrder
  <2>4. ASSUME NEW r \in DOMAIN results'[q], TypeOf[r] = Container
        PROVE  results'[q][r] = Compare(Needs(registry, r), Nothing)
    <3>1. CASE r \in Discover(project, apis)
      <4>1. r \in Resources /\ ProjectOf[r] = project
        BY <3>1 DEF Discover, ActiveSupported
      <4>2. results'[q][r] = Evaluate(registry, ProjectOf[r], TypeOf[r], DiscoveredLabels(r))
        BY <2>1, <3>1, <4>1 DEF TypeOK
      <4> QED BY <1>1, <2>4, <4>1, <4>2, AllIsPlanned
    <3>2. CASE r \notin Discover(project, apis)
      <4>1. r \in DOMAIN results[q] /\ results'[q][r] = results[q][r]
        BY <2>1, <3>2 DEF TypeOK
      <4> QED BY <2>2, <2>4, <4>1 DEF RequestAtRest
    <3> QED BY <3>1, <3>2
  <2> QED BY <1>1, <2>3, <2>4 DEF RequestAtRest
<1>4. CASE CreatePlan(q)
  <2>1. PICK view \in [CacheKeys(q) -> published] :
          plan' = [plan EXCEPT ![q] =
                     [r \in {s \in DOMAIN results[q] :
                               Present(PlannedLabels(view[CacheKey(s)], s, results[q][s])) # {}} |->
                        PlannedLabels(view[CacheKey(r)], r, results[q][r])]]
    BY <1>4 DEF CreatePlan
  <2> DEFINE planned(r) == PlannedLabels(view[CacheKey(r)], r, results[q][r])
  <2>2. step[q] = "plan"
    BY <1>4 DEF CreatePlan
  <2>3. step'[q] \in {"queue", "ended"}
    BY <1>4 DEF CreatePlan, End, TypeOK
  <2>4. ASSUME NEW r \in DOMAIN plan'[q], TypeOf[r] = Container
        PROVE  plan'[q][r] = Needs(registry, r)
    <3>1. r \in DOMAIN results[q] /\ plan'[q][r] = planned(r) /\ Present(planned(r)) # {}
      BY <2>1 DEF TypeOK
    <3>2. ~results[q][r].compliant
      BY <3>1 DEF PlannedLabels, Present, Nothing
    <3>3. view[CacheKey(r)] = registry
      BY <3>1, <3>2 DEF CacheKeys
    <3>4. results[q][r] = Compare(Needs(registry, r), Nothing)
      BY <2>2, <2>4, <3>1 DEF RequestAtRest
    <3> QED BY <1>1, <2>4, <3>1, <3>3, <3>4, AllIsPlanned
  <2> QED BY <1>1, <2>3, <2>4 DEF RequestAtRest
<1>5. CASE Enqueue(q) \/ Abort(q)
  <2>1. step[q] \in {"scan", "plan", "queue"} /\ plan' = plan
    BY <1>5 DEF Enqueue, Abort
  <2>2. step'[q] = "ended"
    BY <1>5 DEF Enqueue, Abort, End, TypeOK
  <2>3. ASSUME NEW r \in DOMAIN plan[q], TypeOf[r] = Container
        PROVE  plan[q][r] = Needs(registry, r)
    <3>1. step[q] = "queue"
      BY <1>0, <2>1, <2>3 DEF InOrder
    <3> QED BY <2>3, <3>1 DEF RequestAtRest, Pending
  <2> QED BY <1>1, <2>1, <2>2, <2>3 DEF RequestAtRest
<1> QED BY <1>2, <1>3, <1>4, <1>5 DEF OwnStep

\* An action that begins has in hand what its container requires, and one that goes on
\* keeps it: what others have written meanwhile is what it would write.
LEMMA ActionRests ==
  ASSUME Steady, RestInv, [Next]_vars, published = {registry}, UNCHANGED registryVars
  PROVE  \A a \in DOMAIN actions' : ActionAtRest(a)'
<1> USE EstateAssumption DEF Steady
<1>0. /\ registry \in Registries /\ UNCHANGED <<registry, published>>
      /\ \A r : Needs(registry, r)' = Needs(registry, r)
  BY DEF TypeOK, registryVars, Needs
<1>1. \A a \in DOMAIN actions : ActionAtRest(a) /\ a[2] \in Resources /\ actions[a].desired \in Labels
  BY ActionIsTyped DEF RestInv
<1>2. ASSUME NEW a \in DOMAIN actions,
             actions'[a].read = actions[a].read, actions'[a].desired = actions[a].desired,
             actions[a].since \subseteq actions'[a].since,
             TypeOf[a[2]] = Container /\ "user" \notin actions'[a].since =>
               labels'[a[2]] \in {labels[a[2]],
                                  FinalLabels(a[2], labels[a[2]], Needs(registry, a[2]))}
      PROVE  ActionAtRest(a)'
  <2> SUFFICES ASSUME TypeOf[a[2]] = Container
               PROVE  /\ actions'[a].desired = Needs(registry, a[2])
                      /\ "user" \notin actions'[a].since =>
                           FinalLabels(a[2], actions'[a].read, actions'[a].desired)
                             = FinalLabels(a[2], labels'[a[2]], Needs(registry, a[2]))
    BY <1>0 DEF ActionAtRest, FinalLabels
  <2>1. actions[a].desired = Needs(registry, a[2])
    BY <1>1 DEF ActionAtRest
  <2>2. ASSUME "user" \notin actions'[a].since
        PROVE  FinalLabels(a[2], actions[a].read, actions[a].desired)
                 = FinalLabels(a[2], labels'[a[2]], Needs(registry, a[2]))
    <3>1. "user" \notin actions[a].since
      BY <1>2, <2>2
    <3>2. FinalLabels(a[2], actions[a].read, actions[a].desired)
            = FinalLabels(a[2], labels[a[2]], Needs(registry, a[2]))
      BY <1>1, <3>1 DEF ActionAtRest
    <3>3. labels[a[2]] \in Labels /\ Needs(registry, a[2]) \in Labels
      BY <1>0, <1>1, NeedsShape DEF TypeOK
    <3>4. FinalLabels(a[2], FinalLabels(a[2], labels[a[2]], Needs(registry, a[2])),
                      Needs(registry, a[2]))
            = FinalLabels(a[2], labels[a[2]], Needs(registry, a[2]))
      BY <3>3, FinalIsFinal
    <3> QED BY <1>2, <2>2, <3>2, <3>4
  <2> QED BY <1>2, <2>1, <2>2
<1>3. ASSUME UNCHANGED <<actions, labels>> PROVE \A a \in DOMAIN actions' : ActionAtRest(a)'
  BY <1>2, <1>3
<1>4. ASSUME NEW x \in Actors, NEW r \in Resources, NEW desired \in Labels,
             Begin(x, r, desired), labels' = labels,
             TypeOf[r] = Container => desired = Needs(registry, r)
      PROVE  \A a \in DOMAIN actions' : ActionAtRest(a)'
  <2>1. /\ DOMAIN actions' = DOMAIN actions \cup {<<x, r>>}
        /\ \A a \in DOMAIN actions \ {<<x, r>>} : actions'[a] = actions[a]
        /\ actions'[<<x, r>>] = [read |-> labels[r], desired |-> desired, since |-> {}]
    BY <1>4, BeginEffect
  <2>2. ActionAtRest(<<x, r>>)'
    <3>1. /\ actions'[<<x, r>>].read = labels'[r]
          /\ actions'[<<x, r>>].desired = desired
      BY <1>4, <2>1
    <3> QED BY <1>0, <1>4, <3>1 DEF ActionAtRest
  <2>3. \A a \in DOMAIN actions \ {<<x, r>>} : ActionAtRest(a)'
    BY <1>2, <1>4, <2>1
  <2> QED BY <2>1, <2>2, <2>3
<1>5. ASSUME NEW x \in Actors, NEW r \in Resources, NEW who \in SUBSET {"user", "program"},
             NEW S \in SUBSET DOMAIN actions, actions' = Onward(S, r, who),
             \A s \in Resources \ {r} : labels'[s] = labels[s],
             TypeOf[r] = Container /\ "user" \notin who =>
               labels'[r] \in {labels[r], FinalLabels(r, labels[r], Needs(registry, r))}
      PROVE  \A a \in DOMAIN actions' : ActionAtRest(a)'
  <2>1. /\ DOMAIN actions' = S
        /\ \A a \in S : /\ actions'[a].read = actions[a].read
                         /\ actions'[a].desired = actions[a].desired
    BY <1>5, OnwardEffect
  <2>2. ASSUME NEW a \in S PROVE ActionAtRest(a)'
    <3>0. actions[a] \in Action
      BY DEF TypeOK
    <3>4. actions'[a] = IF a[2] = r THEN [actions[a] EXCEPT !.since = actions[a].since \cup who]
                        ELSE actions[a]
      BY <1>5 DEF Onward
    <3>1. actions[a].since \subseteq actions'[a].since
      BY ONLY <3>0, <3>4 DEF Action
    <3>2. a[2] = r => who \subseteq actions'[a].since
      BY ONLY <3>0, <3>4 DEF Action
    <3>3. a[2] # r => labels'[a[2]] = labels[a[2]]
      BY <1>1, <1>5
    <3> QED BY <1>2, <1>5, <2>1, <3>1, <3>2, <3>3
  <2> QED BY <2>1, <2>2
<1>6. ASSUME NEW q \in Requests, NEW r \in Resources, Execute(q, r)
      PROVE  \A a \in DOMAIN actions' : ActionAtRest(a)'
  <2>1. q \in Actors /\ r \in queued[q] /\ labels' = labels
    BY <1>6 DEF Execute, Actors
  <2>2. r \in DOMAIN plan[q] /\ plan[q][r] \in Labels
    BY <2>1 DEF TypeOK
  <2>3. TypeOf[r] = Container => plan[q][r] = Needs(registry, r)
    BY <2>1, <2>2 DEF RestInv, RequestAtRest, Pending
  <2>4. Begin(q, r, plan[q][r]) \/ UNCHANGED actions
    BY <1>6 DEF Execute
  <2> QED BY <1>3, <1>4, <2>1, <2>2, <2>3, <2>4
<1>7. ASSUME NEW x \in Actors, NEW r \in Resources, Apply(x, r)
      PROVE  \A a \in DOMAIN actions' : ActionAtRest(a)'
  <2>1. <<x, r>> \in DOMAIN actions
    BY <1>7 DEF Apply
  <2>0. {"program"} \cup actions[<<x, r>>].since \in SUBSET {"user", "program"}
    BY <1>7, ApplyEffect
  <2>2. PICK who \in SUBSET {"user", "program"} : who = {"program"} \cup actions[<<x, r>>].since
    BY <2>0
  <2>5. PICK S \in SUBSET DOMAIN actions : actions' = Onward(S, r, who)
    BY <1>7, <2>2 DEF Apply
  <2>3. /\ \A s \in Resources \ {r} : labels'[s] = labels[s]
        /\ TypeOf[r] = Container =>
             labels'[r] = FinalLabels(r, actions[<<x, r>>].read, actions[<<x, r>>].desired)
    BY <1>7, ApplyEffect
  <2>4. TypeOf[r] = Container /\ "user" \notin who =>
          labels'[r] = FinalLabels(r, labels[r], Needs(registry, r))
    BY <1>1, <2>1, <2>2, <2>3 DEF ActionAtRest
  <2> QED BY <1>5, <2>3, <2>4, <2>5
<1>8. ASSUME NEW x \in Actors, NEW r \in Resources, Refused(x, r)
      PROVE  \A a \in DOMAIN actions' : ActionAtRest(a)'
  <2>1. PICK S \in SUBSET DOMAIN actions : actions' = Onward(S, r, {})
    BY <1>8 DEF Refused
  <2>2. labels' = labels
    BY <1>8 DEF Refused
  <2> QED BY <1>5, <2>1, <2>2
<1>9. ASSUME NEW e \in Events, React(e) PROVE \A a \in DOMAIN actions' : ActionAtRest(a)'
  <2>1. PICK r \in Resources : r = told[e].about /\ e \in Actors
    BY <1>9 DEF React, Actors, TypeOK
  <2>2. labels' = labels
    BY <1>9 DEF React
  <2>3. UNCHANGED actions
        \/ Begin(e, r, ExpectedLabels(registry, ProjectOf[r], told[e].seed, TypeOf[r]))
    BY <1>9, <2>1 DEF React
  <2>4. PICK desired \in Labels :
          desired = ExpectedLabels(registry, ProjectOf[r], told[e].seed, TypeOf[r])
    BY <1>0, ExpectedIsBound
  <2>5. TypeOf[r] = Container => desired = Needs(registry, r)
    BY <1>0, <2>4, NeedsShape
  <2> QED BY <1>3, <1>4, <2>1, <2>2, <2>3, <2>4, <2>5
<1>10. ASSUME NEW r \in Touched, NEW k \in Keys, NEW v \in UserValues, EditLabel(r, k, v)
       PROVE  \A a \in DOMAIN actions' : ActionAtRest(a)'
  <2>1. /\ actions' = Onward(DOMAIN actions, r, {"user"})
        /\ \A s \in Resources \ {r} : labels'[s] = labels[s]
    BY <1>10 DEF EditLabel, TypeOK
  <2>2. /\ DOMAIN actions' = DOMAIN actions
        /\ \A a \in DOMAIN actions : /\ actions'[a].read = actions[a].read
                                     /\ actions'[a].desired = actions[a].desired
    BY <2>1, OnwardEffect
  <2>3. ASSUME NEW a \in DOMAIN actions PROVE ActionAtRest(a)'
    <3>1. actions[a] \in Action
      BY DEF TypeOK
    <3>2. actions'[a] = IF a[2] = r THEN [actions[a] EXCEPT !.since = actions[a].since \cup {"user"}]
                        ELSE actions[a]
      BY <2>1 DEF Onward
    <3>3. actions[a].since \subseteq actions'[a].since /\ (a[2] = r => "user" \in actions'[a].since)
      BY ONLY <3>1, <3>2 DEF Action
    <3>4. a[2] # r => labels'[a[2]] = labels[a[2]]
      BY <1>1, <2>1
    <3> QED BY <1>2, <2>2, <3>3, <3>4
  <2> QED BY <2>2, <2>3
<1>11. ASSUME NEW q \in Requests, OwnStep(q) PROVE UNCHANGED <<actions, labels>>
  BY <1>11 DEF OwnStep, Request, ScanProject, CreatePlan, Enqueue, Abort
<1>12. ASSUME NEW e, NEW r, NEW seed, Tell(e, r, seed) PROVE UNCHANGED <<actions, labels>>
  BY <1>12 DEF Tell
<1>13. ASSUME NEW reg, EditRegistry(reg) PROVE UNCHANGED <<actions, labels>>
  BY <1>13 DEF EditRegistry
<1>14. CASE Settle \/ UNCHANGED vars
  BY <1>3, <1>14 DEF Settle, vars
<1> QED BY <1>3, <1>6, <1>7, <1>8, <1>9, <1>10, <1>11, <1>12, <1>13, <1>14 DEF Next, Run, OwnStep

\* An edit of the registry ends the rest, and Settle finds nothing under way.
LEMMA RestStep == Steady /\ RestInv /\ [Next]_vars => RestInv'
<1> SUFFICES ASSUME Steady, RestInv, [Next]_vars, published' = {registry'}
             PROVE  /\ \A q \in Requests : RequestAtRest(q)'
                    /\ \A a \in DOMAIN actions' : ActionAtRest(a)'
  BY DEF RestInv
<1> USE DEF Steady
<1>1. CASE Settle
  <2>1. /\ \A q \in Requests : step[q] \in {"new", "ended"} /\ queued[q] = {}
        /\ DOMAIN actions = {}
        /\ UNCHANGED <<step, queued, actions>>
    BY <1>1 DEF Settle, Idle, requestVars, recordVars
  <2> QED BY <2>1 DEF RequestAtRest, Pending
<1>2. CASE UNCHANGED registryVars
  <2>1. published = {registry} /\ registry' = registry
    BY <1>2 DEF registryVars
  <2>2. ASSUME NEW q \in Requests PROVE RequestAtRest(q)'
    <3>1. RequestAtRest(q)
      BY <2>1 DEF RestInv
    <3> QED BY <2>1, <3>1, WhoseStep, RequestRests, AtRestKept
  <2> QED BY <1>2, <2>1, <2>2, ActionRests
<1>3. ASSUME NEW reg \in Registries, EditRegistry(reg), ~Settle PROVE FALSE
  <2>1. registry' # registry
    BY <1>3 DEF EditRegistry
  <2>2. registry \in published'
    BY <1>3, PublishedGrows DEF TypeOK
  <2> QED BY <2>1, <2>2
<1>4. ASSUME NEW q \in Requests, Run(q) PROVE UNCHANGED registryVars
  BY <1>4 DEF Run, Request, ScanProject, CreatePlan, Enqueue, Abort, Execute
<1>5. ASSUME NEW x, NEW r, Apply(x, r) \/ Refused(x, r) PROVE UNCHANGED registryVars
  BY <1>5 DEF Apply, Refused
<1>6. ASSUME NEW e, NEW r, NEW seed, Tell(e, r, seed) PROVE UNCHANGED registryVars
  BY <1>6 DEF Tell
<1>7. ASSUME NEW e, React(e) PROVE UNCHANGED registryVars
  BY <1>7 DEF React
<1>8. ASSUME NEW r, NEW k, NEW v, EditLabel(r, k, v) PROVE UNCHANGED registryVars
  BY <1>8 DEF EditLabel
<1>9. CASE UNCHANGED vars
  BY <1>2, <1>9 DEF vars
<1> QED BY <1>1, <1>2, <1>3, <1>4, <1>5, <1>6, <1>7, <1>8, <1>9 DEF Next

\* It holds at first too, so always.
LEMMA AlwaysAtRest == Spec => []RestInv
<1>1. Init => RestInv
  BY DEF Init, None, RestInv, RequestAtRest
<1> QED BY <1>1, RestStep, Invariant, PTL DEF Spec

-----------------------------------------------------------------------------
(* What the program changes.                                               *)

\* What nobody edits changes by the update of an action that ends with it.
LEMMA ProgramWrites ==
  ASSUME TypeOK, [Next]_vars, edits' = edits, NEW r \in Resources, labels'[r] # labels[r]
  PROVE  \E x \in Actors : Apply(x, r) /\ <<x, r>> \in Ending(r)
<1>1. ASSUME NEW s \in Touched, NEW k \in Keys, NEW v \in UserValues, EditLabel(s, k, v)
      PROVE  FALSE
  <2>1. edits' = edits + 1 /\ edits \in Nat
    BY <1>1 DEF EditLabel, Edit, TypeOK
  <2> QED BY <2>1
<1>2. PICK x \in Actors, s \in Resources : Apply(x, s)
  BY <1>1, WhoWrites
<1>3. s = r
  BY <1>2, ApplyEffect
<1>4. <<x, r>> \in DOMAIN actions
  BY <1>2, <1>3 DEF Apply
<1>5. \E who : actions' = Onward(DOMAIN actions \ {<<x, r>>}, r, who)
  BY <1>2, <1>3 DEF Apply
<1>6. DOMAIN actions' = DOMAIN actions \ {<<x, r>>}
  BY <1>5 DEF Onward
<1> QED BY <1>2, <1>3, <1>4, <1>6 DEF Ending

\* A value an action has seen is as it was after its update, so whatever changes was not
\* there when it looked; while the registry is at rest and no user has interfered, all of
\* a container is as the action would have it by now.
LEMMA KeptStep ==
  ASSUME Steady, RestInv, [Next]_vars, edits' = edits, NEW r \in Resources,
         NEW k \in Keys \ ClientOf[r].stripped,
         labels[r][k] # Absent, labels'[r][k] # labels[r][k]
  PROVE  \E a \in Ending(r) :
           /\ actions[a].since # {} /\ actions[a].read[k] # labels[r][k]
           /\ TypeOf[r] = Container /\ published = {registry} => "user" \in actions[a].since
<1> USE DEF Steady
<1>1. PICK x \in Actors : Apply(x, r) /\ <<x, r>> \in Ending(r)
  BY ProgramWrites
<1>2. PICK a \in DOMAIN actions : a = <<x, r>> /\ a \in Ending(r) /\ a[2] = r
  BY <1>1 DEF Apply
<1>3. PICK final : final = FinalLabels(r, actions[a].read, actions[a].desired)
  OBVIOUS
<1>4. /\ \A l \in Keys : labels'[r][l] \in {final[l], labels[r][l]}
      /\ TypeOf[r] = Container => labels'[r] = final
  BY <1>1, <1>2, <1>3, ApplyEffect
<1>5. actions[a].read \in Labels /\ actions[a].desired \in Labels /\ labels[r] \in Labels
  BY <1>2, ActionIsTyped DEF TypeOK
<1>6. labels'[r][k] = final[k]
  BY <1>4
<1>7. actions[a].read[k] # labels[r][k]
  <2>1. actions[a].read[k] # Absent => final[k] = actions[a].read[k]
    BY <1>3, <1>5, FinalKeepsAndAdds
  <2> QED BY <1>6, <2>1
<1>8. actions[a].since # {}
  BY <1>2, <1>7 DEF ActionInv, Sound
<1>9. ASSUME TypeOf[r] = Container, published = {registry}, "user" \notin actions[a].since
      PROVE  FALSE
  <2>1. final = FinalLabels(r, labels[r], Needs(registry, r))
    BY <1>2, <1>3, <1>9 DEF RestInv, ActionAtRest
  <2>2. Needs(registry, r) \in Labels
    BY <1>9, NeedsShape DEF TypeOK
  <2>3. final[k] = labels[r][k]
    BY <1>5, <2>1, <2>2, FinalKeepsAndAdds
  <2> QED BY <1>6, <2>3
<1> QED BY <1>2, <1>7, <1>8, <1>9

\* The program leaves what it has found as it was, but for the keys popped from projects:
\* it replaces or erases only what its action has not seen, and in a project, while the
\* registry is at rest, only where a user had a hand in it.
THEOREM ValuesAreKept == Spec => RunKeepsValues
<1>1. Steady /\ RestInv /\ [Next]_vars =>
        (edits' = edits =>
           \A r \in Resources : \A k \in Keys \ ClientOf[r].stripped :
             labels[r][k] # Absent /\ labels'[r][k] # labels[r][k] =>
               \E a \in Ending(r) :
                 /\ actions[a].since # {} /\ actions[a].read[k] # labels[r][k]
                 /\ TypeOf[r] = Container /\ published = {registry} => "user" \in actions[a].since)
  BY KeptStep
<1> QED BY <1>1, Invariant, AlwaysAtRest, PTL DEF Spec, RunKeepsValues

\* What comes to a label was planned, of an application bound to the project, or was
\* there when the action looked.
LEMMA AddedStep ==
  ASSUME Steady, [Next]_vars, edits' = edits, NEW r \in Resources, NEW k \in Keys,
         labels'[r][k] \notin {labels[r][k], Absent}
  PROVE  \/ \E reg \in published : \E i \in Bound(reg, ProjectOf[r]) :
              labels'[r][k] \in {reg[i].root[k], reg[i].bindings[ProjectOf[r]][k]}
         \/ \E a \in Ending(r) : actions[a].since # {} /\ actions[a].read[k] = labels'[r][k]
<1> USE DEF Steady
<1>1. PICK x \in Actors : Apply(x, r) /\ <<x, r>> \in Ending(r)
  BY ProgramWrites
<1>2. PICK a \in DOMAIN actions : a = <<x, r>> /\ a \in Ending(r) /\ a[2] = r
  BY <1>1 DEF Apply
<1>3. PICK final : final = FinalLabels(r, actions[a].read, actions[a].desired)
  OBVIOUS
<1>4. labels'[r][k] = final[k]
  <2>1. \A l \in Keys : labels'[r][l] \in {final[l], labels[r][l]}
    BY <1>1, <1>2, <1>3, ApplyEffect
  <2> QED BY <2>1
<1>5. actions[a].read \in Labels /\ actions[a].desired \in Labels
  BY <1>2, ActionIsTyped
<1>6. final[k] \in {actions[a].read[k], actions[a].desired[k], Absent}
  BY <1>3, <1>5, FinalKeepsAndAdds
<1>7. Sound(a)
  BY <1>2 DEF ActionInv
<1>8. CASE labels'[r][k] = actions[a].desired[k]
  <2>1. \E reg \in published : BoundIn(reg, r, k, actions[a].desired[k])
    BY <1>2, <1>7, <1>8 DEF Sound, BoundLabels
  <2> QED BY <1>8, <2>1 DEF BoundIn
<1>9. CASE labels'[r][k] = actions[a].read[k]
  <2>1. actions[a].since # {}
    BY <1>2, <1>7, <1>9 DEF Sound
  <2> QED BY <1>2, <1>9, <2>1
<1> QED BY <1>4, <1>6, <1>8, <1>9

\* Governance never invents metadata for an unbound project: what the program adds to a
\* resource is a value that an application bound to its project carries, or one it carried
\* when the action read it.
THEOREM AddedIsBound == Spec => AddsOnlyBoundValues
<1>1. Steady /\ [Next]_vars =>
        (edits' = edits =>
           \A r \in Resources : \A k \in Keys :
             labels'[r][k] \notin {labels[r][k], Absent} =>
               \/ \E reg \in published : \E i \in Bound(reg, ProjectOf[r]) :
                    labels'[r][k] \in {reg[i].root[k], reg[i].bindings[ProjectOf[r]][k]}
               \/ \E a \in Ending(r) :
                    actions[a].since # {} /\ actions[a].read[k] = labels'[r][k])
  BY AddedStep
<1> QED BY <1>1, Invariant, PTL DEF Spec, AddsOnlyBoundValues

\* A request changes what it covers and an event what it names.
LEMMA ScopeStep ==
  ASSUME Steady, [Next]_vars, edits' = edits, NEW r \in Resources,
         labels'[r] # labels[r] \/ (r \in inventory') # (r \in inventory)
  PROVE  \/ \E q \in Requests : step[q] # "new" /\ r \in Covered(q)
         \/ \E e \in DOMAIN told : told[e].about = r
<1> USE DEF Steady
<1>1. CASE labels'[r] # labels[r]
  <2>1. PICK x \in Actors : Apply(x, r)
    BY <1>1, ProgramWrites
  <2>2. PICK a \in DOMAIN actions : a = <<x, r>> /\ a[1] = x /\ a[2] = r
    BY <2>1 DEF Apply
  <2>3. Sound(a)
    BY DEF ActionInv
  <2>4. CASE x \in Events
    BY <2>2, <2>3, <2>4 DEF Sound
  <2>5. CASE x \in Requests
    <3>1. r \in queued[x] /\ InOrder(x)
      BY <2>2, <2>3, <2>5 DEF Sound, RequestInv
    <3>2. step[x] = "ended" /\ r \in DOMAIN plan[x]
      BY <2>5, <3>1 DEF InOrder, TypeOK
    <3>3. r \in Covered(x)
      BY <3>1, <3>2 DEF InOrder
    <3> QED BY <2>5, <3>2, <3>3
  <2> QED BY <2>4, <2>5 DEF Actors
<1>2. CASE (r \in inventory') # (r \in inventory)
  <2>1. PICK q \in Requests, project \in Projects : ScanProject(q, project)
    <3>1. ASSUME NEW q \in Requests, NEW project, Request(q, project) PROVE inventory' = inventory
      BY <3>1 DEF Request
    <3>2. ASSUME NEW q \in Requests, NEW s, CreatePlan(q) \/ Enqueue(q) \/ Abort(q) \/ Execute(q, s)
          PROVE  inventory' = inventory
      BY <3>2 DEF CreatePlan, Enqueue, Abort, Execute, requestVars
    <3>3. ASSUME NEW x, NEW s, Apply(x, s) \/ Refused(x, s) PROVE inventory' = inventory
      BY <3>3 DEF Apply, Refused, requestVars
    <3>4. ASSUME NEW e, NEW s, NEW seed, Tell(e, s, seed) \/ React(e) PROVE inventory' = inventory
      BY <3>4 DEF Tell, React, requestVars
    <3>5. ASSUME NEW s, NEW k, NEW v, EditLabel(s, k, v) PROVE inventory' = inventory
      BY <3>5 DEF EditLabel, requestVars
    <3>6. ASSUME NEW reg, EditRegistry(reg) PROVE inventory' = inventory
      BY <3>6 DEF EditRegistry, requestVars
    <3>7. CASE Settle \/ UNCHANGED vars
      BY <3>7 DEF Settle, vars, requestVars
    <3> QED BY <1>2, <3>1, <3>2, <3>3, <3>4, <3>5, <3>6, <3>7 DEF Next, Run
  <2>2. step[q] = "scan" /\ project \in todo[q] /\ todo[q] \subseteq ScopeOf(q)
    BY <2>1 DEF ScanProject, RequestInv, InOrder
  <2>3. \E apis \in EnabledApis(project) : r \in Discover(project, apis)
    BY <1>2, <2>1 DEF ScanProject, SaveInventory
  <2>4. r \in Covered(q)
    BY <2>2, <2>3 DEF Discover, ActiveSupported, Covered, ScopeOf
  <2> QED BY <2>2, <2>4
<1> QED BY <1>1, <1>2

\* Labels and inventory change only for what a request covers or an event names: never
\* for the engine's project, another environment, or default and excluded resources.
THEOREM ScopeIsKept == Spec => RunStaysInScope
<1>1. Steady /\ [Next]_vars =>
        (edits' = edits =>
           \A r \in Resources :
             labels'[r] # labels[r] \/ (r \in inventory') # (r \in inventory) =>
               \/ \E q \in Requests : step[q] # "new" /\ r \in Covered(q)
               \/ \E e \in DOMAIN told : told[e].about = r)
  BY ScopeStep
<1> QED BY <1>1, Invariant, PTL DEF Spec, RunStaysInScope

-----------------------------------------------------------------------------
(* Gaps.                                                                   *)

\* While the registry is at rest, an update leaves no gap in a container.
LEMMA ApplyFills ==
  ASSUME Steady, RestInv, published = {registry}, UNCHANGED registryVars,
         NEW x \in Actors, NEW r \in Resources, TypeOf[r] = Container, Apply(x, r)
  PROVE  Filled(r)'
<1> USE DEF Steady
<1>1. PICK a \in DOMAIN actions : a = <<x, r>> /\ a[2] = r
  BY DEF Apply
<1>2. PICK n : n = Needs(registry, r)
  OBVIOUS
<1>3. labels'[r] = FinalLabels(r, actions[a].read, n)
  BY <1>1, <1>2, ApplyEffect DEF RestInv, ActionAtRest
<1>4. Present(n) \subseteq Keys \ ClientOf[r].stripped
  <2>1. Present(n) \subseteq ProjectKeys
    BY <1>2, NeedsShape DEF TypeOK
  <2>2. ClientOf[r].stripped \subseteq Adapter!StrippedKeys
    BY ClientAssumption DEF Adapter!ResourceManager, Adapter!Plain
  <2> QED BY <2>1, <2>2, ClientAssumption DEF Present
<1>5. ASSUME NEW k \in Present(n) PROVE labels'[r][k] # Absent
  <2>1. k \in Keys \ ClientOf[r].stripped /\ n[k] # Absent
    BY <1>4 DEF Present
  <2> QED BY <1>3, <2>1 DEF FinalLabels, Over
<1>6. Needs(registry, r)' = n
  BY <1>2 DEF registryVars, Needs
<1> QED BY <1>5, <1>6 DEF Filled, Missing

\* A container that has what is required of it keeps it, until somebody edits.
LEMMA FilledStays ==
  ASSUME Steady, RestInv, [Next]_vars, edits' = edits,
         published = {registry}, UNCHANGED registryVars,
         NEW r \in Resources, TypeOf[r] = Container, Filled(r)
  PROVE  Filled(r)'
<1>1. CASE labels'[r] = labels[r]
  BY <1>1 DEF Filled, Missing, Needs, registryVars
<1>2. CASE labels'[r] # labels[r]
  BY <1>2, ProgramWrites, ApplyFills DEF Steady
<1> QED BY <1>1, <1>2

\* What nobody disturbs has begun in this step, or was undisturbed before.
LEMMA CalmStep ==
  ASSUME Steady, GapInv, [Next]_vars, NEW q \in Requests, q \in calm'
  PROVE  /\ edits' = edits /\ UNCHANGED registryVars /\ published = {registry}
         /\ q \in calm \/ \E project \in Askable : Request(q, project)
         /\ ~Fault
<1>0. q \in calm => published = {registry}
  BY DEF GapInv, GapOK, Undisturbed
<1>1. ~Fault
  BY DEF Fault
<1>2. ASSUME NEW p \in Requests, NEW project \in Askable, Request(p, project)
      PROVE  /\ edits' = edits /\ UNCHANGED registryVars
             /\ q \in calm \/ (p = q /\ published = {registry})
  BY <1>2 DEF Request
<1>3. ASSUME NoFault, edits' = edits, UNCHANGED registryVars
      PROVE  q \in calm
  BY <1>3 DEF NoFault
<1>4. ASSUME NEW p \in Requests, \/ \E project \in Projects : ScanProject(p, project)
                                 \/ CreatePlan(p) \/ Enqueue(p) \/ Abort(p)
      PROVE  edits' = edits /\ UNCHANGED registryVars /\ q \in calm
  <2>1. edits' = edits /\ UNCHANGED registryVars
    BY <1>4 DEF ScanProject, CreatePlan, Enqueue, Abort
  <2>2. Fault \/ UNCHANGED calm
    BY <1>4 DEF ScanProject, CreatePlan, Enqueue, Abort, NoFault
  <2> QED BY <1>1, <2>1, <2>2
<1>5. ASSUME NEW x, NEW r, Execute(x, r) \/ Apply(x, r) \/ Refused(x, r)
      PROVE  edits' = edits /\ UNCHANGED registryVars /\ q \in calm
  <2>1. edits' = edits /\ UNCHANGED registryVars
    BY <1>5 DEF Execute, Apply, Refused
  <2>2. Fault \/ UNCHANGED calm
    BY <1>5 DEF Execute, Apply, Refused, NoFault
  <2> QED BY <1>1, <2>1, <2>2
<1>6. ASSUME NEW e, NEW r, NEW seed, Tell(e, r, seed) \/ React(e)
      PROVE  edits' = edits /\ UNCHANGED registryVars /\ q \in calm
  <2>1. edits' = edits /\ UNCHANGED registryVars
    BY <1>6 DEF Tell, React
  <2>2. Fault \/ UNCHANGED calm
    BY <1>6 DEF Tell, React, NoFault
  <2> QED BY <1>1, <2>1, <2>2
<1>7. ASSUME Edit PROVE FALSE
  BY <1>7 DEF Edit
<1>8. CASE Settle
  <2>1. published # {registry} /\ q \in calm
    BY <1>8 DEF Settle
  <2> QED BY <1>0, <2>1
<1>9. CASE UNCHANGED vars
  BY <1>0, <1>1, <1>9 DEF vars
<1> QED BY <1>0, <1>1, <1>2, <1>4, <1>5, <1>6, <1>7, <1>8, <1>9
     DEF Next, Run, EditLabel, EditRegistry

\* An action learns that the program has written its resource when it does.
LEMMA SinceStep ==
  ASSUME TypeOK, [Next]_vars, edits' = edits, NEW a \in DOMAIN actions', actions'[a].since # {},
         a[2] \in Resources
  PROVE  \/ a \in DOMAIN actions /\ actions[a].since # {}
         \/ \E x \in Actors : Apply(x, a[2])
<1> USE EstateAssumption
<1>1. ASSUME UNCHANGED actions PROVE a \in DOMAIN actions /\ actions[a].since # {}
  BY <1>1
<1>2. ASSUME NEW x \in Actors, NEW r \in Resources, NEW desired, Begin(x, r, desired)
      PROVE  a \in DOMAIN actions /\ actions[a].since # {}
  <2>1. actions' = [b \in DOMAIN actions \cup {<<x, r>>} |->
                      IF b = <<x, r>> THEN [read |-> labels[r], desired |-> desired, since |-> {}]
                      ELSE actions[b]]
    BY <1>2 DEF Begin
  <2>2. a # <<x, r>>
    BY <2>1
  <2> QED BY <2>1, <2>2
<1>3. ASSUME NEW S \in SUBSET DOMAIN actions, NEW r, NEW who, actions' = Onward(S, r, who),
             a[2] # r \/ who = {}
      PROVE  a \in DOMAIN actions /\ actions[a].since # {}
  <2>1. a \in S /\ actions[a] \in Action
    BY <1>3 DEF Onward, TypeOK
  <2>2. actions'[a] = IF a[2] = r THEN [actions[a] EXCEPT !.since = actions[a].since \cup who]
                      ELSE actions[a]
    BY <1>3, <2>1 DEF Onward
  <2>3. actions'[a].since = actions[a].since
    BY ONLY <1>3, <2>1, <2>2 DEF Action
  <2> QED BY <2>1, <2>3
<1>4. ASSUME NEW q \in Requests, Run(q) PROVE a \in DOMAIN actions /\ actions[a].since # {}
  <2>1. CASE UNCHANGED actions
    BY <1>1, <2>1
  <2>2. CASE \E r \in Resources : Begin(q, r, plan[q][r])
    BY <1>2, <2>2 DEF Actors
  <2> QED BY <1>4, <2>1, <2>2 DEF Run, Request, ScanProject, CreatePlan, Enqueue, Abort, Execute
<1>5. ASSUME NEW x \in Actors, NEW r \in Resources, Apply(x, r) PROVE
         \/ a \in DOMAIN actions /\ actions[a].since # {}
         \/ Apply(x, a[2])
  <2>1. \E S \in SUBSET DOMAIN actions : \E who : actions' = Onward(S, r, who)
    BY <1>5 DEF Apply
  <2> QED BY <1>3, <1>5, <2>1
<1>6. ASSUME NEW x \in Actors, NEW r \in Resources, Refused(x, r)
      PROVE  a \in DOMAIN actions /\ actions[a].since # {}
  <2>1. PICK S \in SUBSET DOMAIN actions : actions' = Onward(S, r, {})
    BY <1>6 DEF Refused
  <2> QED BY <1>3, <2>1
<1>7. ASSUME NEW e \in Events, React(e) PROVE a \in DOMAIN actions /\ actions[a].since # {}
  <2>1. e \in Actors /\ told[e].about \in Resources
    BY <1>7 DEF React, TypeOK, Actors
  <2>2. UNCHANGED actions \/ \E desired : Begin(e, told[e].about, desired)
    BY <1>7 DEF React
  <2> QED BY <1>1, <1>2, <2>1, <2>2
<1>8. ASSUME NEW e, NEW r, NEW seed, Tell(e, r, seed) PROVE UNCHANGED actions
  BY <1>8 DEF Tell
<1>9. ASSUME Edit PROVE FALSE
  <2>1. edits' = edits + 1 /\ edits \in Nat
    BY <1>9 DEF Edit, TypeOK
  <2> QED BY <2>1
<1>10. CASE Settle \/ UNCHANGED vars
  BY <1>1, <1>10 DEF Settle, vars
<1> QED BY <1>1, <1>4, <1>5, <1>6, <1>7, <1>8, <1>9, <1>10 DEF Next, EditLabel, EditRegistry

\* A row leaves a queue by an update, by a refusal that knows of another, or by a fault.
LEMMA WhoDequeues ==
  ASSUME Steady, [Next]_vars, NEW q \in Requests, NEW r \in queued[q], r \notin queued'[q],
         ~OwnStep(q), ~Fault
  PROVE  \/ Apply(q, r)
         \/ <<q, r>> \in DOMAIN actions /\ actions[<<q, r>>].since # {}
<1> USE EstateAssumption DEF Steady
<1>0. r \in Resources /\ q \in Actors /\ q \notin Events
  BY DEF TypeOK, Actors
<1>1. queued' # queued
  OBVIOUS
<1>2. ASSUME NEW x, NEW s, NEW status, Record(x, s, status) PROVE x = q /\ s = r
  <2>1. CASE x \in Requests
    <3>1. queued' = [queued EXCEPT ![x] = queued[x] \ {s}]
      BY <1>2, <2>1 DEF Record
    <3> QED BY <3>1 DEF TypeOK
  <2>2. CASE x \notin Requests
    BY <1>1, <1>2, <2>2 DEF Record
  <2> QED BY <2>1, <2>2
<1>3. ASSUME NEW p \in Requests, OwnStep(p) PROVE FALSE
  <2>1. queued' = queued \/ \E rows : queued' = [queued EXCEPT ![p] = rows]
    BY <1>3 DEF OwnStep, Request, ScanProject, CreatePlan, Enqueue, Abort, recordVars
  <2> QED BY <1>3, <2>1 DEF TypeOK
<1>4. ASSUME NEW p \in Requests, NEW s \in Resources, Execute(p, s) PROVE FALSE
  BY <1>1, <1>4 DEF Execute, recordVars
<1>5. ASSUME NEW x \in Actors, NEW s \in Resources, Apply(x, s) PROVE Apply(q, r)
  <2>1. Record(x, s, "SUCCESS")
    BY <1>5 DEF Apply
  <2> QED BY <1>2, <1>5, <2>1
<1>6. ASSUME NEW x \in Actors, NEW s \in Resources, Refused(x, s)
      PROVE  <<q, r>> \in DOMAIN actions /\ actions[<<q, r>>].since # {}
  <2>1. \E status : Record(x, s, status)
    BY <1>6 DEF Refused
  <2>2. x = q /\ s = r
    BY <1>2, <2>1
  <2> QED BY <1>6, <2>2 DEF Refused
<1>7. ASSUME NEW e \in Events, NEW s, NEW seed, Tell(e, s, seed) PROVE FALSE
  <2>1. Record(e, s, "FAILED")
    BY <1>1, <1>7 DEF Tell, recordVars
  <2> QED BY <1>0, <1>2, <1>7, <2>1
<1>8. ASSUME NEW e \in Events, React(e) PROVE FALSE
  <2>1. \E status : Record(e, told[e].about, status)
    BY <1>1, <1>8 DEF React, recordVars
  <2> QED BY <1>0, <1>2, <1>8, <2>1
<1>9. ASSUME NEW s, NEW k, NEW v, EditLabel(s, k, v) PROVE FALSE
  BY <1>1, <1>9 DEF EditLabel, recordVars
<1>10. ASSUME NEW reg, EditRegistry(reg) PROVE FALSE
  BY <1>1, <1>10 DEF EditRegistry, recordVars
<1>11. CASE Settle \/ UNCHANGED vars
  BY <1>1, <1>11 DEF Settle, vars, recordVars
<1> QED BY <1>3, <1>4, <1>5, <1>6, <1>7, <1>8, <1>9, <1>10, <1>11 DEF Next, Run, OwnStep

\* What happens elsewhere leaves an undisturbed request as complete as it was: what it
\* loses of its queue is filled.
LEMMA GapElsewhere ==
  ASSUME Steady, RestInv, GapInv, [Next]_vars, NEW q \in Requests, ~OwnStep(q)
  PROVE  GapOK(q)'
<1> USE DEF Steady
<1>1. /\ step'[q] = step[q] /\ asked'[q] = asked[q] /\ todo'[q] = todo[q]
      /\ results'[q] = results[q] /\ plan'[q] = plan[q] /\ answer'[q] = answer[q]
  BY WhoseStep
<1>2. GapOK(q)
  BY DEF GapInv
<1>3. ASSUME q \in calm' PROVE Undisturbed(q)'
  <2>1. /\ edits' = edits /\ UNCHANGED registryVars /\ published = {registry} /\ ~Fault
        /\ Undisturbed(q)
    BY <1>2, <1>3, CalmStep DEF GapOK, OwnStep
  <2>2. Containers(q)' = Containers(q) /\ Served(q)' = Served(q)
    BY <1>1 DEF Containers, Covered, Served
  <2>3. ASSUME NEW r \in Containers(q) PROVE r \in Resources /\ TypeOf[r] = Container /\ q \in Actors
    BY DEF Containers, Covered, Actors
  <2>4. ASSUME NEW r \in Containers(q), Filled(r) PROVE Filled(r)'
    BY <2>1, <2>3, <2>4, FilledStays
  <2>5. ASSUME NEW r \in Containers(q), NEW x \in Actors, Apply(x, r) PROVE Filled(r)'
    BY <2>1, <2>3, <2>5, ApplyFills
  <2>6. ASSUME Served(q), NEW r \in Containers(q), r \notin queued'[q] PROVE Filled(r)'
    <3>1. CASE r \in queued[q]
      <4>0. ~Fault
        BY <2>1
      <4>1. Apply(q, r) \/ (<<q, r>> \in DOMAIN actions /\ actions[<<q, r>>].since # {})
        BY <2>6, <3>1, <4>0, WhoDequeues
      <4>2. <<q, r>> \in DOMAIN actions /\ actions[<<q, r>>].since # {} => Filled(r)
        BY <2>1 DEF Undisturbed
      <4> QED BY <2>3, <2>4, <2>5, <4>1, <4>2
    <3>2. CASE r \notin queued[q]
      BY <2>1, <2>4, <2>6, <3>2 DEF Undisturbed
    <3> QED BY <3>1, <3>2
  <2>7. ASSUME NEW r \in Containers(q), <<q, r>> \in DOMAIN actions', actions'[<<q, r>>].since # {}
        PROVE  Filled(r)'
    <3>1. PICK a \in DOMAIN actions' : a = <<q, r>> /\ a[2] = r /\ actions'[a].since # {}
      BY <2>7
    <3>2. (a \in DOMAIN actions /\ actions[a].since # {}) \/ \E x \in Actors : Apply(x, r)
      BY <2>1, <2>3, <3>1, SinceStep
    <3>3. a \in DOMAIN actions /\ actions[a].since # {} => Filled(r)
      BY <2>1, <3>1 DEF Undisturbed
    <3> QED BY <2>4, <2>5, <3>2, <3>3
  <2>8. \A r \in Containers(q) : Filled(r) => Filled(r)'
    BY <2>4
  <2>9. published' = {registry'}
    BY <2>1 DEF registryVars
  <2>10. /\ step'[q] # "new" => \A r \in Containers(q) : ProjectOf[r] \in todo'[q] \/ r \in DOMAIN results'[q]
         /\ step'[q] = "plan" => todo'[q] = {}
         /\ step'[q] = "queue" => \A r \in Containers(q) : r \in DOMAIN plan'[q] \/ Filled(r)'
    BY <1>1, <2>1, <2>8 DEF Undisturbed
  <2> QED BY <2>2, <2>6, <2>7, <2>9, <2>10 DEF Undisturbed
<1> QED BY <1>1, <1>2, <1>3 DEF GapOK

\* A request looks at every project it covers, plans what each requires, and queues all
\* it has planned; it has no action under way before it has ended.
LEMMA GapOwn ==
  ASSUME Steady, RestInv, GapInv, [Next]_vars, NEW q \in Requests, OwnStep(q)
  PROVE  GapOK(q)'
<1> USE EstateAssumption, ScopeAssumption DEF Steady
<1>0. GapOK(q) /\ InOrder(q)
  BY DEF GapInv, RequestInv
<1>1. ASSUME q \in calm'
      PROVE  /\ UNCHANGED <<registryVars, labels, actions>> /\ published = {registry}
             /\ published' = {registry'} /\ registry \in Registries
             /\ \A r : Filled(r)' = Filled(r)
             /\ step[q] # "ended"
             /\ ~Abort(q)
             /\ q \in calm => Undisturbed(q)
             /\ \A r : <<q, r>> \notin DOMAIN actions'
  <2>1. UNCHANGED registryVars /\ published = {registry} /\ ~Fault
    BY <1>1, CalmStep
  <2>2. UNCHANGED <<labels, actions>>
    BY DEF OwnStep, Request, ScanProject, CreatePlan, Enqueue, Abort
  <2>3. step[q] # "ended"
    BY DEF OwnStep, Request, ScanProject, CreatePlan, Enqueue, Abort
  <2>4. ASSUME NEW r PROVE <<q, r>> \notin DOMAIN actions
    <3>1. SUFFICES ASSUME <<q, r>> \in DOMAIN actions PROVE FALSE
      OBVIOUS
    <3>2. PICK a \in DOMAIN actions : a = <<q, r>> /\ a[1] = q
      BY <3>1
    <3>3. a[2] \in queued[q]
      BY <3>2 DEF ActionInv, Sound
    <3> QED BY <1>0, <2>3, <3>3 DEF InOrder
  <2>5. ~Abort(q)
    BY <2>1 DEF Abort
  <2>6. \A r : Filled(r)' = Filled(r)
    BY <2>1, <2>2 DEF Filled, Missing, Needs, registryVars
  <2> QED BY <1>0, <2>1, <2>2, <2>3, <2>4, <2>5, <2>6 DEF GapOK, registryVars, TypeOK
<1>2. ASSUME NEW project \in Askable, Request(q, project) PROVE GapOK(q)'
  <2>1. /\ step[q] = "new" /\ asked'[q] = project
        /\ todo'[q] = IF project = All THEN AllActiveProjects ELSE {project}
        /\ \/ step'[q] = "ended" /\ answer'[q] = "SKIPPED"
           \/ step'[q] = "scan" /\ answer'[q] = answer[q]
    BY <1>2 DEF Request, End, TypeOK
  <2>2. answer[q] = "none"
    BY <1>0, <2>1 DEF GapOK
  <2>3. \A r \in Containers(q)' : ProjectOf[r] \in todo'[q]
    BY <2>1 DEF Containers, Covered
  <2>4. ~Served(q)'
    BY <2>1, <2>2 DEF Served
  <2>5. q \in calm' => Undisturbed(q)'
    BY <1>1, <2>1, <2>3, <2>4 DEF Undisturbed
  <2> QED BY <2>1, <2>2, <2>5 DEF GapOK
<1>3. ASSUME NEW project \in Projects, ScanProject(q, project) PROVE GapOK(q)'
  <2>1. PICK apis \in EnabledApis(project), reg \in published :
          results' = [results EXCEPT ![q] =
                        [r \in Discover(project, apis) \cup DOMAIN results[q] |->
                           IF r \in Discover(project, apis)
                             THEN Evaluate(reg, project, TypeOf[r], DiscoveredLabels(r))
                             ELSE results[q][r]]]
    BY <1>3 DEF ScanProject
  <2>2. /\ step[q] = "scan" /\ step'[q] \in {"scan", "plan"}
        /\ todo'[q] = todo[q] \ {project}
        /\ step'[q] = "plan" => todo[q] = {project}
        /\ UNCHANGED <<asked, answer, calm>> \/ calm' = {}
        /\ asked' = asked /\ answer' = answer
    <3>1. UNCHANGED calm \/ calm' = {}
      BY <1>3 DEF ScanProject, NoFault, Fault
    <3> QED BY <1>3, <3>1 DEF ScanProject, TypeOK
  <2>3. DOMAIN results'[q] = Discover(project, apis) \cup DOMAIN results[q]
    BY <2>1 DEF TypeOK
  <2>4. Containers(q)' = Containers(q)
    BY <2>2 DEF Containers, Covered
  <2>5. answer'[q] = "none"
    BY <1>0, <2>2 DEF GapOK
  <2>6. ASSUME q \in calm', NEW r \in Containers(q)
        PROVE  ProjectOf[r] \in todo'[q] \/ r \in DOMAIN results'[q]
    <3>1. ProjectOf[r] \in todo[q] \/ r \in DOMAIN results[q]
      BY <1>1, <2>2, <2>6 DEF Undisturbed
    <3>2. ProjectOf[r] = project => r \in Discover(project, apis)
      BY DEF Containers, Covered, Discover, ActiveSupported
    <3> QED BY <2>2, <2>3, <3>1, <3>2
  <2>7. q \in calm' => Undisturbed(q)'
    BY <1>1, <2>2, <2>4, <2>5, <2>6 DEF Undisturbed, Served
  <2> QED BY <2>2, <2>5, <2>7 DEF GapOK
<1>4. CASE CreatePlan(q)
  <2>1. PICK view \in [CacheKeys(q) -> published] :
          LET planned(r) == PlannedLabels(view[CacheKey(r)], r, results[q][r])
              rows == {r \in DOMAIN results[q] : Present(planned(r)) # {}}
          IN /\ plan' = [plan EXCEPT ![q] = [r \in rows |-> planned(r)]]
             /\ IF rows = {} THEN End(q, "COMPLIANT")
                ELSE step' = [step EXCEPT ![q] = "queue"] /\ UNCHANGED answer
    BY <1>4 DEF CreatePlan
  <2> DEFINE planned(r) == PlannedLabels(view[CacheKey(r)], r, results[q][r])
             rows == {r \in DOMAIN results[q] : Present(planned(r)) # {}}
  <2>2. plan' = [plan EXCEPT ![q] = [r \in rows |-> planned(r)]]
    BY <2>1
  <2>3. \/ rows = {} /\ step' = [step EXCEPT ![q] = "ended"] /\ answer' = [answer EXCEPT ![q] = "COMPLIANT"]
        \/ step' = [step EXCEPT ![q] = "queue"] /\ UNCHANGED answer
    BY <2>1 DEF End
  <2>4. step[q] = "plan" /\ UNCHANGED <<asked, todo, results, queued, calm>>
    BY <1>4 DEF CreatePlan, recordVars
  <2>5. ASSUME q \in calm', NEW r \in Containers(q) PROVE r \in rows \/ Filled(r)
    <3>1. r \in Resources /\ TypeOf[r] = Container
      BY DEF Containers, Covered
    <3>2. q \in calm /\ published = {registry} /\ Undisturbed(q) /\ registry \in Registries
      BY <1>1, <2>4, <2>5
    <3>3. r \in DOMAIN results[q]
      BY <2>4, <3>2 DEF Undisturbed
    <3>4. results[q][r] = Compare(Needs(registry, r), Nothing)
      BY <2>4, <3>1, <3>2, <3>3 DEF RestInv, RequestAtRest
    <3>5. CASE results[q][r].compliant
      <4>0. PICK n : n = Needs(registry, r)
        OBVIOUS
      <4>2. Compare(n, Nothing).compliant
        BY <3>4, <3>5, <4>0
      <4>3. Missing(n, Nothing) = {}
        BY <4>2 DEF Compare
      <4>4. Missing(n, Nothing) = Present(n)
        BY DEF Missing, Present, Nothing
      <4>1. Present(Needs(registry, r)) = {}
        BY <4>0, <4>3, <4>4
      <4> QED BY <4>1 DEF Filled, Missing
    <3>6. CASE ~results[q][r].compliant
      <4>1. view[CacheKey(r)] = registry
        BY <3>2, <3>3, <3>6 DEF CacheKeys
      <4>2. planned(r) = Needs(registry, r)
        BY <3>1, <3>2, <3>4, <4>1, AllIsPlanned
      <4>3. Present(planned(r)) = {} => Filled(r)
        BY <4>2 DEF Filled, Missing
      <4> QED BY <3>3, <4>3
    <3> QED BY <3>5, <3>6
  <2> HIDE DEF rows, planned
  <2>6. DOMAIN plan'[q] = rows
    BY <2>2 DEF TypeOK
  <2>7. \/ rows = {} /\ step'[q] = "ended" /\ answer'[q] = "COMPLIANT"
        \/ step'[q] = "queue" /\ answer'[q] = "none"
    BY <1>0, <2>3, <2>4 DEF GapOK, TypeOK
  <2>8. Containers(q)' = Containers(q)
    BY <2>4 DEF Containers, Covered
  <2>9. ASSUME q \in calm', NEW r \in Containers(q)
        PROVE  /\ r \in DOMAIN results'[q]
               /\ step'[q] = "queue" => r \in DOMAIN plan'[q] \/ Filled(r)'
               /\ answer'[q] \in {"COMPLIANT", "QUEUED"} => Filled(r)'
    <3>1. r \in DOMAIN results[q]
      BY <1>1, <2>4, <2>9 DEF Undisturbed
    <3>2. r \in rows \/ Filled(r)'
      BY <1>1, <2>5, <2>9
    <3> QED BY <2>4, <2>6, <2>7, <3>1, <3>2
  <2>10. q \in calm' => Undisturbed(q)'
    BY <1>1, <2>7, <2>8, <2>9 DEF Undisturbed, Served
  <2> QED BY <2>7, <2>10 DEF GapOK
<1>5. CASE Enqueue(q)
  <2>1. /\ step[q] = "queue" /\ step'[q] = "ended" /\ queued'[q] = DOMAIN plan[q]
        /\ UNCHANGED <<asked, todo, results, plan, calm>>
    BY <1>5 DEF Enqueue, End, TypeOK
  <2>2. Containers(q)' = Containers(q)
    BY <2>1 DEF Containers, Covered
  <2>3. ASSUME q \in calm', NEW r \in Containers(q)
        PROVE  /\ ProjectOf[r] \in todo'[q] \/ r \in DOMAIN results'[q]
               /\ r \in queued'[q] \/ Filled(r)'
    <3>1. /\ ProjectOf[r] \in todo[q] \/ r \in DOMAIN results[q]
          /\ r \in DOMAIN plan[q] \/ Filled(r)
      BY <1>1, <2>1, <2>3 DEF Undisturbed
    <3> QED BY <1>1, <2>1, <2>3, <3>1
  <2>4. q \in calm' => Undisturbed(q)'
    BY <1>1, <2>1, <2>2, <2>3 DEF Undisturbed
  <2> QED BY <2>1, <2>4 DEF GapOK
<1>6. CASE Abort(q)
  <2>1. step'[q] = "ended"
    BY <1>6 DEF Abort, End, TypeOK
  <2> QED BY <1>1, <1>6, <2>1 DEF GapOK
<1> QED BY <1>2, <1>3, <1>4, <1>5, <1>6 DEF OwnStep

\* A request that nobody disturbed leaves no container it covers without a key that its
\* baseline requires, however many requests and events act on the same ones: an update
\* that others have made stale is lost, and theirs has filled the gap.
THEOREM GapsAreFilled == Spec => []RunFillsGaps
<1>1. Init => GapInv
  BY DEF Init, GapInv, GapOK
<1>2. Steady /\ GapInv => RunFillsGaps
  <2> SUFFICES ASSUME Steady, GapInv, NEW q \in calm, Finished(q), NEW r \in Covered(q),
                      TypeOf[r] = Container
               PROVE  Missing(Required(r), labels[r]) = {}
    BY DEF RunFillsGaps
  <2> USE DEF Steady
  <2>1. q \in Requests /\ r \in Containers(q) /\ r \in Resources /\ registry \in Registries
    BY DEF Containers, Covered, TypeOK
  <2>2. Filled(r)
    BY <2>1 DEF GapInv, GapOK, Undisturbed, Finished, Served
  <2>3. Required(r) = Needs(registry, r)
    BY <2>1, NeedsShape DEF Required
  <2> QED BY <2>2, <2>3 DEF Filled
<1>3. Steady /\ RestInv /\ GapInv /\ [Next]_vars => GapInv'
  BY GapOwn, GapElsewhere DEF GapInv
<1> QED BY <1>1, <1>2, <1>3, Invariant, AlwaysAtRest, PTL DEF Spec

-----------------------------------------------------------------------------
(* What validation buys.                                                   *)

\* In accepted files the applications bound to a project are one at most.
LEMMA BoundOnce ==
  ASSUME NEW reg, IsRegistry(reg), Accepts(reg), NEW p \in Projects,
         NEW i \in Bound(reg, p), NEW j \in Bound(reg, p)
  PROVE  i = j
<1>1. i \in Nat /\ j \in Nat /\ i \in DOMAIN reg /\ j \in DOMAIN reg
  BY DEF IsRegistry, Bound
<1>2. p \in DOMAIN reg[i].bindings /\ p \in DOMAIN reg[j].bindings
  BY DEF Bound
<1>3. ~(i < j) /\ ~(j < i)
  BY <1>1, <1>2 DEF Accepts, DuplicateIds
<1> QED BY <1>1, <1>3

\* So whatever the seed, that application answers, and with all keys of the schema.
LEMMA BoundAnswers ==
  ASSUME NEW reg, IsRegistry(reg), Accepts(reg), NEW p \in Projects,
         NEW seed, NEW type, type # Container
  PROVE  LET expected == ExpectedLabels(reg, p, seed, type)
         IN /\ \A i \in Bound(reg, p) :
                 /\ expected = Over(reg[i].bindings[p], reg[i].root)
                 /\ RequiredKeys \subseteq Present(expected)
            /\ Bound(reg, p) = {} => expected = Nothing
<1> DEFINE c == Candidates(reg, p, seed, type)
           expected == ExpectedLabels(reg, p, seed, type)
<1>1. c \subseteq Bound(reg, p) /\ (Bound(reg, p) # {} => c # {})
  BY DEF Candidates
<1>2. CASE Bound(reg, p) = {}
  BY <1>1, <1>2 DEF ExpectedLabels, ProjectMetadata
<1>3. ASSUME NEW i \in Bound(reg, p)
      PROVE  /\ expected = Over(reg[i].bindings[p], reg[i].root)
             /\ RequiredKeys \subseteq Present(expected)
  <2>1. c = {i}
    BY <1>1, <1>3, BoundOnce
  <2>2. i \in DOMAIN reg /\ i > 0 /\ i \in Nat
    BY DEF Bound, IsRegistry
  <2>3. (CHOOSE m \in c : \A n \in c : m <= n) = i
    BY <2>1, <2>2
  <2>4. ProjectMetadata(reg, p, seed, type) = i
    BY <2>1, <2>3 DEF ProjectMetadata
  <2>5. expected = Over(reg[i].bindings[p], reg[i].root)
    BY <2>2, <2>4 DEF ExpectedLabels
  <2>6. \A k \in RequiredKeys : k \in Keys /\ reg[i].root[k] # Absent
    BY <2>2, RequiredAssumption DEF Accepts, SchemaErrors
  <2>7. \A k \in RequiredKeys : expected[k] # Absent
    BY <2>5, <2>6 DEF Over
  <2> QED BY <2>5, <2>6, <2>7 DEF Present
<1> QED BY <1>2, <1>3

\* While the bucket holds files that validation accepts, what a resource has to carry
\* depends on nothing but its project, for every registry and every seed.
THEOREM AcceptedIsDeterminate == Spec => []AcceptedDetermines
<1>1. TypeOK => AcceptedDetermines
  <2> SUFFICES ASSUME TypeOK, Accepts(registry), NEW r \in Resources, TypeOf[r] # Container,
                      NEW seed \in Values \cup {Absent}
               PROVE  LET p        == ProjectOf[r]
                          expected == ExpectedLabels(registry, p, seed, TypeOf[r])
                      IN /\ \A i \in Bound(registry, p) :
                              /\ expected = Over(registry[i].bindings[p], registry[i].root)
                              /\ RequiredKeys \subseteq Present(expected)
                         /\ Bound(registry, p) = {} => expected = Nothing
    BY DEF AcceptedDetermines
  <2>1. IsRegistry(registry) /\ ProjectOf[r] \in Projects
    BY EstateAssumption, ScopeAssumption DEF TypeOK
  <2> QED BY <2>1, BoundAnswers
<1> QED BY <1>1, TypeCorrect, PTL
=============================================================================
