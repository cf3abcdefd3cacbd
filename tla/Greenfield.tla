----------------------------- MODULE Greenfield -----------------------------
(***************************************************************************)
(* Audit events: the Pub/Sub push subscription that delivers each message  *)
(* at least once, to POST / or to POST /events/pubsub, and                 *)
(* GreenfieldService.process, which walks through the resources of the     *)
(* event, labels them, writes rows to remediation_execution and alerts the *)
(* owners of resources without a product.                                  *)
(*                                                                         *)
(* An update of a resource is audited like any other call.  Where the sink *)
(* exports such events, the program hears of its own updates (Echo).       *)
(*                                                                         *)
(* A row names the resource of the EVENT and the asset type of the         *)
(* resource at hand, so that rows are counted here by event, asset type    *)
(* and status.                                                             *)
(***************************************************************************)
EXTENDS Extractors, FiniteSets, Bags, BagsExt, Functions

CONSTANTS
  Batches,       \* sets of messages that may be published from outside
  Supported,     \* SUPPORTED_LABEL_RESOURCES; no type is in the list for tags
  Governed,      \* projects whose baseline requires a label
  Exported,      \* methods of updates that pass the filter of the sink
  Slots,         \* threads that can serve a push
  MaxFaults,
  None

Status == {"SUCCESS", "FAILED", "COMPLIANT"}

(***************************************************************************)
(* A message: who caused it, where the subscription pushes it, whether its *)
(* data decodes to an audit log, and what the log says.  garbled: there is *)
(* no data, or it does not decode; odd: it decodes to something that is no *)
(* object.  seed: the product label of the request, where null stands for  *)
(* labels that are null.                                                   *)
(***************************************************************************)
Message == [by : {"user", "engine"}, push : {"/", "/events/pubsub"},
            form : {"log", "garbled", "odd"}, service : STRING, named : BOOLEAN,
            says : SUBSET STRING, name : STRING, project : STRING, disks : Seq(STRING),
            seed : {"given", "absent", "null"}]

UserEvents == UNION Batches

ASSUME MessageAssumption ==
  /\ UserEvents \subseteq Message
  /\ \A e \in UserEvents : e.by = "user"
  /\ IsFiniteSet(UserEvents) /\ IsFiniteSet(Slots) /\ MaxFaults \in Nat
  /\ "UNKNOWN" \notin Supported

(***************************************************************************)
(* External: the audit event of a client's update.  Its labels are those   *)
(* the executor handed over, and it pops the product of a project.         *)
(***************************************************************************)
\* Mutant of SeedAfter: the executor does not pop it.
SeedKept(type) == "given"

SeedAfter(type) == IF type = Container THEN "absent" ELSE "given"

Echo(r) ==
  [by |-> "engine", push |-> "/", form |-> "log", service |-> UpdateCall(r.type)[1],
   named |-> TRUE, says |-> {UpdateCall(r.type)[2]}, name |-> r.name, project |-> r.project,
   disks |-> <<>>, seed |-> SeedAfter(r.type)]

\* Everything that can be published: an echo of an echo's resource is that echo.
Messages ==
  LET mentioned == UNION {{Classified(e)[i] : i \in DOMAIN Classified(e)} : e \in UserEvents}
  IN UserEvents \cup {Echo(r) : r \in mentioned}

ASSUME NoneAssumption == None \notin Messages

\* What classify makes of each message.
Extracted == [e \in Messages |-> Classified(e)]

VARIABLES
  queue,      \* bag of messages that wait to be pushed
  acked,      \* messages of which Pub/Sub has seen a 200
  pc,         \* slot -> where its request is
  event,      \* slot -> the message it was handed
  lease,      \* slot -> does Pub/Sub still wait for its answer
  place,      \* slot -> index of the resource at hand
  status,     \* slot -> status to record
  evidence,   \* bag of rows in remediation_execution
  alerts,     \* bag of events whose owners were alerted
  updates,    \* bag of resources whose action ended "updated" (history)
  faults

vars == <<queue, acked, pc, event, lease, place, status, evidence, alerts, updates, faults>>

Steps == {"idle", "receive", "classify", "next", "evaluate", "act", "save", "alert",
          "except", "respond"}

\* CopiesIn, by a name of its own: the module Bags that tlapm loads does not have it.
Copies(x, bag) == IF BagIn(x, bag) THEN bag[x] ELSE 0

Row(e, type, st) == [event |-> e, type |-> type, status |-> st]

\* Types of the state; only the statuses of a row are recorded.
TypeOK ==
  /\ IsABag(queue) /\ BagToSet(queue) \cup acked \subseteq Messages
  /\ pc \in [Slots -> Steps]
  /\ event \in [Slots -> Messages \cup {None}]
  /\ \A s \in Slots : (event[s] = None) = (pc[s] = "idle")
  /\ lease \in [Slots -> BOOLEAN]
  /\ place \in [Slots -> Nat]
  /\ status \in [Slots -> Status \cup {None}]
  /\ IsABag(evidence) /\ \A row \in BagToSet(evidence) : row.status \in Status
  /\ IsABag(alerts) /\ IsABag(updates)
  /\ faults \in 0..MaxFaults

Init ==
  /\ \E batch \in Batches : queue = SetToBag(batch)
  /\ acked = {}
  /\ pc = [s \in Slots |-> "idle"]
  /\ event = [s \in Slots |-> None]
  /\ lease = [s \in Slots |-> FALSE]
  /\ place = [s \in Slots |-> 0]
  /\ status = [s \in Slots |-> None]
  /\ evidence = EmptyBag
  /\ alerts = EmptyBag
  /\ updates = EmptyBag
  /\ faults = 0

Fault == faults < MaxFaults /\ faults' = faults + 1

Goto(s, step) == pc' = [pc EXCEPT ![s] = step]

\* The resource at hand.
Current(s) == Extracted[event[s]][place[s]]

\* The locals of a request go with it.
Release(s) ==
  /\ Goto(s, "idle")
  /\ event' = [event EXCEPT ![s] = None]
  /\ lease' = [lease EXCEPT ![s] = FALSE]
  /\ place' = [place EXCEPT ![s] = 0]
  /\ status' = [status EXCEPT ![s] = None]

\* _record_execution: one more row, or an insert that is refused and raises.
Record(e, type, st) == evidence' = BagAdd(evidence, Row(e, type, st))

-----------------------------------------------------------------------------
(* Pub/Sub.                                                                *)

\* A push of a message that was not acknowledged.
Deliver(s, e) ==
  /\ pc[s] = "idle"
  /\ BagIn(e, queue)
  /\ queue' = BagRemove(queue, e)
  /\ Goto(s, "receive")
  /\ event' = [event EXCEPT ![s] = e]
  /\ lease' = [lease EXCEPT ![s] = TRUE]
  /\ UNCHANGED <<acked, place, status, evidence, alerts, updates, faults>>

\* At least once: a message may be pushed again although it was acknowledged.
DeliverAgain(s, e) ==
  /\ pc[s] = "idle"
  /\ e \in acked
  /\ Fault
  /\ Goto(s, "receive")
  /\ event' = [event EXCEPT ![s] = e]
  /\ UNCHANGED <<queue, acked, lease, place, status, evidence, alerts, updates>>

\* The acknowledgement deadline passes while the request goes on.
DeadlinePasses(s) ==
  /\ lease[s]
  /\ Fault
  /\ lease' = [lease EXCEPT ![s] = FALSE]
  /\ queue' = BagAdd(queue, event[s])
  /\ UNCHANGED <<acked, pc, event, place, status, evidence, alerts, updates>>

\* An answer that is no 200: the message waits again.
Refuse(s) ==
  /\ queue' = IF lease[s] THEN BagAdd(queue, event[s]) ELSE queue
  /\ Release(s)

-----------------------------------------------------------------------------
(* The two routes and process.                                             *)

\* The ingress hands on the log without its envelope, where process looks for one.
Heard(e) == e.form = "log" /\ e.push = "/"

\* 400 for what the ingress cannot decode; what is no object raises on both routes.
Unanswerable(e) == e.form = "odd" \/ (e.push = "/events/pubsub" /\ e.form # "log")

Receive(s) ==
  /\ pc[s] = "receive"
  /\ \/ /\ Unanswerable(event[s])
        /\ Refuse(s)
     \/ /\ ~Unanswerable(event[s])
        /\ Goto(s, IF Heard(event[s]) THEN "classify" ELSE "respond")
        /\ UNCHANGED <<queue, event, lease, place, status>>
  /\ UNCHANGED <<acked, evidence, alerts, updates, faults>>

\* Mutant of Classify: an event nothing is extracted from is refused.
ClassifyRejects(s) ==
  /\ pc[s] = "classify"
  /\ IF Extracted[event[s]] = <<>>
       THEN Refuse(s)
       ELSE /\ place' = [place EXCEPT ![s] = 1]
            /\ Goto(s, IF Unclassifiable(event[s]) THEN "except" ELSE "next")
            /\ UNCHANGED <<queue, event, lease, status>>
  /\ UNCHANGED <<acked, evidence, alerts, updates, faults>>

\* Nothing extracted is answered at once.
Classify(s) ==
  /\ pc[s] = "classify"
  /\ place' = [place EXCEPT ![s] = 1]
  /\ Goto(s, IF Unclassifiable(event[s]) THEN "except"
             ELSE IF Extracted[event[s]] = <<>> THEN "respond" ELSE "next")
  /\ UNCHANGED <<queue, acked, event, lease, status, evidence, alerts, updates, faults>>

\* One turn of the loop, up to the seed: gatekeeper, then the product label.
NextResource(s) ==
  /\ pc[s] = "next"
  /\ place[s] <= Len(Extracted[event[s]])
  /\ \/ /\ Current(s).type \notin Supported
        /\ place' = [place EXCEPT ![s] = @ + 1]
        /\ UNCHANGED <<pc, status>>
     \/ /\ Current(s).type \in Supported
        /\ UNCHANGED place
        /\ \/ event[s].seed = "null" /\ Goto(s, "except") /\ UNCHANGED status
           \/ event[s].seed = "absent" /\ Goto(s, "save")
                /\ status' = [status EXCEPT ![s] = "FAILED"]
           \/ event[s].seed = "given" /\ Goto(s, "evaluate") /\ UNCHANGED status
  /\ UNCHANGED <<queue, acked, event, lease, evidence, alerts, updates, faults>>

EndOfLoop(s) ==
  /\ pc[s] = "next"
  /\ place[s] > Len(Extracted[event[s]])
  /\ Goto(s, "respond")
  /\ UNCHANGED <<queue, acked, event, lease, place, status, evidence, alerts, updates, faults>>

\* evaluate, of a resource that carries no labels: any but a project lacks its seed.
EvaluateResource(s) ==
  /\ pc[s] = "evaluate"
  /\ IF Current(s).type = Container /\ Current(s).project \notin Governed
       THEN Goto(s, "save") /\ status' = [status EXCEPT ![s] = "COMPLIANT"]
       ELSE Goto(s, "act") /\ UNCHANGED status
  /\ UNCHANGED <<queue, acked, event, lease, place, evidence, alerts, updates, faults>>

\* apply_labels took effect, and was audited.
Updated(r) ==
  /\ updates' = BagAdd(updates, r)
  /\ queue' = IF UpdateCall(r.type)[2] \in Exported THEN BagAdd(queue, Echo(r)) ELSE queue

\* Mutant of Act: the status of the action is recorded verbatim.
ActVerbatim(s) ==
  /\ pc[s] = "act"
  /\ Updated(Current(s))
  /\ status' = [status EXCEPT ![s] = "updated"]
  /\ Goto(s, "save")
  /\ UNCHANGED <<acked, event, lease, place, evidence, alerts, faults>>

\* Mutant of Act: the status of the evaluation is kept.
ActCompliant(s) ==
  /\ pc[s] = "act"
  /\ Updated(Current(s))
  /\ status' = [status EXCEPT ![s] = "COMPLIANT"]
  /\ Goto(s, "save")
  /\ UNCHANGED <<acked, event, lease, place, evidence, alerts, faults>>

\* _execute_single_action: it does not raise, and its result is not looked at.
Act(s) ==
  /\ pc[s] = "act"
  /\ \/ Updated(Current(s)) /\ UNCHANGED faults
     \/ Fault /\ UNCHANGED <<updates, queue>>
  /\ status' = [status EXCEPT ![s] = "SUCCESS"]
  /\ Goto(s, "save")
  /\ UNCHANGED <<acked, event, lease, place, evidence, alerts>>

\* The next turn of the loop, or the alert for a missing seed.
AfterSave(s) ==
  /\ Goto(s, IF status[s] = "FAILED" THEN "alert" ELSE "next")
  /\ status' = [status EXCEPT ![s] = None]
  /\ place' = [place EXCEPT ![s] = @ + 1]

\* Mutant of Save: the row is written at the start and at the end.
SaveTwice(s) ==
  /\ pc[s] = "save"
  /\ LET row == Row(event[s], Current(s).type, status[s])
     IN evidence' = BagAdd(BagAdd(evidence, row), row)
  /\ AfterSave(s)
  /\ UNCHANGED <<queue, acked, event, lease, alerts, updates, faults>>

Save(s) ==
  /\ pc[s] = "save"
  /\ Record(event[s], Current(s).type, status[s])
  /\ AfterSave(s)
  /\ UNCHANGED <<queue, acked, event, lease, alerts, updates, faults>>

\* Mutant of Alert: the post is repeated until the webhook has answered.
AlertRepeats(s) ==
  /\ pc[s] = "alert"
  /\ alerts' = BagAdd(alerts, event[s])
  /\ \/ Goto(s, "next") /\ UNCHANGED faults
     \/ Fault /\ UNCHANGED pc
  /\ UNCHANGED <<queue, acked, event, lease, place, status, evidence, updates>>

\* send_missing_label_alert: an error of the webhook is only logged.
Alert(s) ==
  /\ pc[s] = "alert"
  /\ \/ alerts' = BagAdd(alerts, event[s]) /\ UNCHANGED faults
     \/ Fault /\ UNCHANGED alerts
  /\ Goto(s, "next")
  /\ UNCHANGED <<queue, acked, event, lease, place, status, evidence, updates>>

\* The registry cannot be read, a value does not normalize, an insert is refused
\* or its answer lost: whatever raises inside the try ends the loop.
Raise(s) ==
  /\ pc[s] \in {"classify", "next", "evaluate", "act", "save"}
  /\ Fault
  /\ Goto(s, "except")
  /\ UNCHANGED <<queue, acked, event, lease, place, status, evidence, alerts, updates>>

\* Mutant of SaveException: the exception is only logged.
LogException(s) ==
  /\ pc[s] = "except"
  /\ Goto(s, "respond")
  /\ UNCHANGED <<queue, acked, event, lease, place, status, evidence, alerts, updates, faults>>

SaveException(s) ==
  /\ pc[s] = "except"
  /\ Record(event[s], "UNKNOWN", "FAILED")
  /\ Goto(s, "respond")
  /\ UNCHANGED <<queue, acked, event, lease, place, status, alerts, updates, faults>>

\* Every answer of process is a 200.
Respond(s) ==
  /\ pc[s] = "respond"
  /\ acked' = IF lease[s] THEN acked \cup {event[s]} ELSE acked
  /\ Release(s)
  /\ UNCHANGED <<queue, evidence, alerts, updates, faults>>

\* The except branch raises itself, which app.py answers with a 500, or the
\* process is killed.
Fail(s) ==
  /\ pc[s] # "idle"
  /\ Fault
  /\ Refuse(s)
  /\ UNCHANGED <<acked, evidence, alerts, updates>>

-----------------------------------------------------------------------------

Handle(s) ==
  \/ Receive(s) \/ Classify(s) \/ NextResource(s) \/ EndOfLoop(s) \/ EvaluateResource(s)
  \/ Act(s) \/ Save(s) \/ Alert(s) \/ SaveException(s) \/ Respond(s)

Next ==
  \E s \in Slots :
    \/ Handle(s) \/ DeadlinePasses(s) \/ Raise(s) \/ Fail(s)
    \/ \E e \in BagToSet(queue) : Deliver(s, e)
    \/ \E e \in acked : DeliverAgain(s, e)

Spec == Init /\ [][Next]_vars

\* The threads run, and Pub/Sub pushes again and again what waits in its queue; the
\* messages that are refused for ever do not keep it from the others.
FairSpec ==
  /\ Spec
  /\ \A s \in Slots : WF_vars(Handle(s))
  /\ SF_vars(\E s \in Slots : \E e \in BagToSet(queue) : ~Unanswerable(e) /\ Deliver(s, e))

-----------------------------------------------------------------------------
(* Properties.                                                             *)


RowsWith(e, type, st) == Copies(Row(e, type, st), evidence)

Rows(e, type) == RowsWith(e, type, "SUCCESS") + RowsWith(e, type, "FAILED")
                   + RowsWith(e, type, "COMPLIANT")

\* The event has a row that says it failed as a whole.
FailedWhole(e) == RowsWith(e, "UNKNOWN", "FAILED") > 0

Types == {Current(s).type : s \in {t \in Slots : pc[t] = "save"}}
           \cup {row.type : row \in BagToSet(evidence)} \cup Supported

Places(e) == DOMAIN Extracted[e]

\* The resources of event e of that type that process records.
Tracked(e, type) == {i \in Places(e) : Extracted[e][i].type = type /\ type \in Supported}

\* Times that message e was published.
Published(e) ==
  IF e.by = "user" THEN 1
  ELSE Copies(Resource(Extracted[e][1].type, e.name, e.project), updates)

\* The messages there are.
Known == BagToSet(queue) \cup acked \cup ({event[s] : s \in Slots} \ {None})

\* An acknowledged event is accounted for: each of its supported resources has a
\* row, or the event has a row that says it failed.  A kill, a refused insert or a
\* failing except branch never acknowledges an event that left no trace.  (Events
\* pushed to the ingress are acknowledged unheard; see Receive.)
AckedEventAccounted ==
  \A e \in acked : Heard(e) =>
    \/ FailedWhole(e)
    \/ \A type \in Types : Rows(e, type) >= Cardinality(Tracked(e, type))

\* Rows are duplicated only by redelivery: without a fault, each supported resource
\* has at most one row per publication, also when several pushes are served at once.
DuplicatesNeedFaults ==
  \A e \in Known : \A type \in Types \ {"UNKNOWN"} :
    Rows(e, type) <= (Published(e) + faults) * Cardinality(Tracked(e, type))

\* A resource is labelled only on account of its own row: labels that were written
\* for an acknowledged event have a SUCCESS row, or the failure of the event.  (An
\* event without the product writes no labels; those on its resource are another's.)
MutationsLeaveEvidence ==
  \A e \in acked \cap UserEvents : Heard(e) /\ e.seed = "given" =>
    \A i \in Places(e) : BagIn(Extracted[e][i], updates) =>
      RowsWith(e, Extracted[e][i].type, "SUCCESS") > 0 \/ FailedWhole(e)

\* What users published with the product: nothing is labelled on account of the rest.
Seeded == {e \in Known : e.by = "user" /\ e.seed = "given"}

\* The program does not react to itself: however often its own updates come back as
\* audit events, a resource is updated only on account of what users published, once
\* for each mention and each fault.
UpdatesNeedUsers ==
  \A r \in BagToSet(updates) :
    LET mentions(e) == {i \in Places(e) : Extracted[e][i] = r}
    IN Copies(r, updates)
         <= Cardinality(UNION {{e} \X mentions(e) : e \in Seeded})
              * (1 + faults)

\* Owners are alerted once for each row that says the product is missing, and only
\* after it was written; an alert is lost with a fault alone.
AlertsMatchRows ==
  \A e \in Known :
    LET rows    == {row \in BagToSet(evidence) :
                      row.event = e /\ row.status = "FAILED" /\ row.type # "UNKNOWN"}
        failed  == SumFunctionOnSet(evidence, rows)
        pending == Cardinality({s \in Slots : event[s] = e /\ pc[s] = "alert"})
    IN /\ Copies(e, alerts) + pending <= failed
       /\ failed <= Copies(e, alerts) + pending + faults

\* Every message is acknowledged in the end, and no echo gives rise to another for
\* ever: what is left are messages that the routes refuse.
EventsAcknowledged ==
  <>[](/\ \A e \in BagToSet(queue) : Unanswerable(e)
       /\ \A s \in Slots : lease[s] => Unanswerable(event[s]))

\* Claim of README.md:439, "One resource failure must not stop independent work":
\* every supported resource of an acknowledged event was processed.
FailureContained ==
  \A e \in acked : Heard(e) =>
    \A type \in Types : Rows(e, type) >= Cardinality(Tracked(e, type))

=============================================================================
