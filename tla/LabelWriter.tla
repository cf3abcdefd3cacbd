---------------------------- MODULE LabelWriter ----------------------------
(***************************************************************************)
(* The labels of one resource, and the writers that run an action of the   *)
(* executor on it: worker threads of one or several runs, a redelivered    *)
(* batch, a greenfield event.  Users edit the same labels, or delete the   *)
(* resource, between any two calls of a writer.                            *)
(*                                                                         *)
(* An action reads the resource, builds the labels it wants from that      *)
(* reading, and hands them to the client.  Most clients read the    *)
(* resource once more before they update it.  Labels are functions on Keys;*)
(* a key the resource does not carry has the value Absent.                 *)
(***************************************************************************)
EXTENDS Integers, Adapters

CONSTANTS
  Values, Absent,
  Writers,       \* actions that run on the resource
  Demands,       \* what they may be asked: writer -> action["labels"], a key Absent
                 \* where the action does not name it
  InitialLabels, \* what the resource may carry before
  Clients,       \* what client_for may answer for its asset type
  Preserve,      \* config.PRESERVE_EXISTING_LABELS
  MaxEdits,      \* bound on the edits of users
  MaxFaults      \* bound on refused calls and lost answers

Labels == [Keys -> Values \cup {Absent}]

ASSUME AbsentAssumption  == Absent \notin Values
ASSUME ClientAssumption  == Clients \subseteq ClientType /\ Preserve \in BOOLEAN
ASSUME DemandAssumption  == Demands \subseteq [Writers -> Labels]
ASSUME InitialAssumption == InitialLabels \subseteq Labels
ASSUME BoundAssumption   == MaxEdits \in Nat /\ MaxFaults \in Nat

VARIABLES
  client,       \* the client of the resource's type
  desired,      \* writer -> action["labels"]
  labels,       \* the labels of the resource
  exists,       \* has it not been deleted
  version,      \* its etag or label fingerprint
  pc,           \* writer -> the call it makes next
  final,        \* writer -> final_labels
  seen,         \* writer -> labels the client read
  seenVersion,  \* writer -> version the client read
  retried,      \* writer -> has client retried after PreconditionFailed
  outcome,      \* writer -> status of its action
  edits, faults

fixed == <<client, desired>>
live  == <<labels, exists, version>>
vars  == <<client, desired, labels, exists, version, pc, final, seen, seenVersion,
           retried, outcome, edits, faults>>

Outcome == {"updated", "bypassed", "failed"}
None    == "none"
Nothing == [k \in Keys |-> Absent]

\* f, completed with what g has besides.
Over(f, g) == [k \in Keys |-> IF f[k] # Absent THEN f[k] ELSE g[k]]

\* Mutant of Build: the desired value wins.
BuildOverwrites(existing, wanted) == Over(wanted, existing)

\* Mutant of Build: only the labels to add are returned.
BuildAdded(existing, wanted) ==
  [k \in Keys |-> IF existing[k] = Absent THEN wanted[k] ELSE Absent]

\* OwnershipService.build: what is there stays.
Build(existing, wanted) == Over(existing, wanted)

Strip(l) == [k \in Keys |-> IF k \in client.stripped THEN Absent ELSE l[k]]

\* Mutant of Target: the client ignores PRESERVE_EXISTING_LABELS.
TargetOverwrites(wanted, read, current) ==
  IF client.way = "patch" THEN Over(wanted, current)
  ELSE IF client.way = "replace" THEN wanted ELSE Over(wanted, read)

\* The labels after the update, from final_labels, what the client has read and
\* what the resource carries.
Target(wanted, read, current) ==
  CASE client.way = "replace"   -> wanted
    [] client.way = "remove"    -> [k \in Keys |-> IF read[k] # Absent THEN wanted[k]
                                                   ELSE Over(wanted, current)[k]]
    [] client.way = "patch"     -> Over(wanted, current)
    [] client.way = "reconcile" -> Over(wanted, read)
    [] client.way = "complete"  -> IF Preserve THEN Over(read, wanted) ELSE Over(wanted, read)

\* Mutant of Swallows: every client turns errors into False.
SwallowsAll == TRUE

\* The try/except of most clients turns any error into False, which the executor
\* does not look at.
Swallows == ~client.raises

\* Mutant of Refused: a status of its own.
RefusedUnnamed == IF Swallows THEN "updated" ELSE "error"

Refused == IF Swallows THEN "updated" ELSE "failed"
Gone    == IF Swallows THEN "updated" ELSE "bypassed"

-----------------------------------------------------------------------------

TypeOK ==
  /\ client \in ClientType
  /\ desired \in [Writers -> Labels]
  /\ labels \in Labels
  /\ exists \in BOOLEAN
  /\ version \in Nat
  /\ pc \in [Writers -> {"get", "reread", "update", "done"}]
  /\ final \in [Writers -> Labels]
  /\ seen \in [Writers -> Labels]
  /\ seenVersion \in [Writers -> Nat]
  /\ retried \in [Writers -> BOOLEAN]
  /\ outcome \in [Writers -> Outcome \cup {None}]
  /\ edits \in 0..MaxEdits
  /\ faults \in 0..MaxFaults

Init ==
  /\ client \in Clients
  /\ desired \in Demands
  /\ labels \in InitialLabels
  /\ exists = TRUE
  /\ version = 0
  /\ pc = [w \in Writers |-> "get"]
  /\ final = [w \in Writers |-> Nothing]
  /\ seen = [w \in Writers |-> Nothing]
  /\ seenVersion = [w \in Writers |-> 0]
  /\ retried = [w \in Writers |-> FALSE]
  /\ outcome = [w \in Writers |-> None]
  /\ edits = 0
  /\ faults = 0

Fault == faults < MaxFaults /\ faults' = faults + 1

Finish(w, o) ==
  /\ pc' = [pc EXCEPT ![w] = "done"]
  /\ outcome' = [outcome EXCEPT ![w] = o]

-----------------------------------------------------------------------------
(* Users.                                                                  *)

Edit(k, v) ==
  /\ exists
  /\ edits < MaxEdits
  /\ labels[k] # v
  /\ labels' = [labels EXCEPT ![k] = v]
  /\ version' = version + 1
  /\ edits' = edits + 1
  /\ UNCHANGED <<exists, pc, final, seen, seenVersion, retried, outcome, faults>>

Delete ==
  /\ exists
  /\ edits < MaxEdits
  /\ exists' = FALSE
  /\ edits' = edits + 1
  /\ UNCHANGED <<labels, version, pc, final, seen, seenVersion, retried, outcome, faults>>

-----------------------------------------------------------------------------
(* _execute_single_action, from its try on; DRY_RUN is off.                *)

\* client.get, build and the keys popped for a project.
GetResource(w) ==
  /\ pc[w] = "get"
  /\ exists
  /\ final' = [final EXCEPT ![w] = Strip(Build(labels, desired[w]))]
  /\ pc' = [pc EXCEPT ![w] = IF client.rereads THEN "reread" ELSE "update"]
  /\ UNCHANGED <<live, seen, seenVersion, retried, outcome, edits, faults>>

\* NotFound, or None from the clients that catch it.
GetDeleted(w) ==
  /\ pc[w] = "get"
  /\ ~exists
  /\ Finish(w, "bypassed")
  /\ UNCHANGED <<live, final, seen, seenVersion, retried, edits, faults>>

\* Any other error of client.get; some clients answer a 403 with None.
GetRefused(w) ==
  /\ pc[w] = "get"
  /\ Fault
  /\ \/ Finish(w, "failed")
     \/ client.denies /\ Finish(w, "bypassed")
  /\ UNCHANGED <<live, final, seen, seenVersion, retried, edits>>

-----------------------------------------------------------------------------
(* apply_labels of the client.                                             *)

\* The client reads the resource again; some stop when nothing changes.
Reread(w) ==
  /\ pc[w] = "reread"
  /\ exists
  /\ seen' = [seen EXCEPT ![w] = labels]
  /\ seenVersion' = [seenVersion EXCEPT ![w] = version]
  /\ IF client.skips /\ Target(final[w], labels, labels) = labels
       THEN Finish(w, "updated")
       ELSE pc' = [pc EXCEPT ![w] = "update"] /\ UNCHANGED outcome
  /\ UNCHANGED <<live, final, retried, edits, faults>>

\* Mutant of Stale: the request does not carry the version that was read.
StaleNever(w) == FALSE

Stale(w) == client.rereads /\ client.checked /\ seenVersion[w] # version

\* The service takes the update, and its answer may be lost.
Update(w) ==
  /\ pc[w] = "update"
  /\ exists
  /\ ~Stale(w)
  /\ labels' = Target(final[w], seen[w], labels)
  /\ version' = version + 1
  /\ \/ Finish(w, "updated") /\ UNCHANGED faults
     \/ Finish(w, Refused) /\ Fault
  /\ UNCHANGED <<exists, final, seen, seenVersion, retried, edits>>

\* The version check fails; only some clients try once more.
UpdateConflicts(w) ==
  /\ pc[w] = "update"
  /\ exists
  /\ Stale(w)
  /\ IF client.retries /\ ~retried[w]
       THEN /\ pc' = [pc EXCEPT ![w] = "reread"]
            /\ retried' = [retried EXCEPT ![w] = TRUE]
            /\ UNCHANGED outcome
       ELSE Finish(w, Refused) /\ UNCHANGED retried
  /\ UNCHANGED <<live, final, seen, seenVersion, edits, faults>>

\* The resource is gone when the client calls.
ApplyDeleted(w) ==
  /\ pc[w] \in {"reread", "update"}
  /\ ~exists
  /\ Finish(w, Gone)
  /\ UNCHANGED <<live, final, seen, seenVersion, retried, edits, faults>>

\* A permission, a quota, a malformed request: the call changes nothing.
ApplyRefused(w) ==
  /\ pc[w] \in {"reread", "update"}
  /\ Fault
  /\ Finish(w, Refused)
  /\ UNCHANGED <<live, final, seen, seenVersion, retried, edits>>

-----------------------------------------------------------------------------

Write(w) ==
  \/ GetResource(w) \/ GetDeleted(w) \/ GetRefused(w)
  \/ Reread(w) \/ Update(w) \/ UpdateConflicts(w)
  \/ ApplyDeleted(w) \/ ApplyRefused(w)

Next ==
  /\ UNCHANGED fixed
  /\ \/ \E k \in Keys, v \in Values \cup {Absent} : Edit(k, v)
     \/ Delete
     \/ \E w \in Writers : Write(w)

Spec == Init /\ [][Next]_vars

-----------------------------------------------------------------------------
(* Properties.                                                             *)

\* Clients that merge into a reading whose version the service compares.
CheckedMerge == client.way \in {"reconcile", "complete"} /\ client.rereads /\ client.checked

\* Clients whose update keeps what it does not name: theirs and those of a service
\* that merges by itself.
Merges == CheckedMerge \/ client.way = "patch"

\* The client that gives way to what is there, under PRESERVE_EXISTING_LABELS.
Completes == CheckedMerge /\ client.way = "complete" /\ Preserve

\* The writers execute one and the same action: a batch that is delivered twice.
OneAction == \A v, w \in Writers : desired[v] = desired[w]

\* No writer removes a label, whoever put it there and whenever: "Adapters must
\* preserve metadata outside the managed governance keys", docs/SECURITY.md:709.
WritesEraseNothing ==
  [][edits' = edits => \A k \in Keys : labels[k] # Absent => labels'[k] # Absent]_vars

\* The clients that merge keep to it, whatever users and other writers do between
\* the two readings and the update of an action.
MergersEraseNothing ==
  [][(Merges /\ edits' = edits) =>
       \A k \in Keys : labels[k] # Absent => labels'[k] # Absent]_vars

\* "Never overwrite an existing label value set by a user", ownership.py:7: where
\* PRESERVE_EXISTING_LABELS is honoured under a version check (secret_manager), this
\* holds also for a value that was set after the executor read the labels.
PreserversKeepValues ==
  [][(Completes /\ edits' = edits) =>
       \A k \in Keys : labels[k] # Absent => labels'[k] = labels[k]]_vars

\* Executing a batch more than once, even at the same time, changes no value that is
\* there, whatever the client: nothing but a user's edit makes a reading wrong.
RedeliveryKeepsValues ==
  [][(OneAction /\ edits' = 0) =>
       \A k \in Keys \ client.stripped : labels[k] # Absent => labels'[k] = labels[k]]_vars

\* Until a user edits, an action takes effect as one step, between its calls or not:
\* what it writes completes the labels of that very moment, not those it has read.
\* So it is for writers of one action, whatever the client, and for writers of any
\* actions where the client completes what it reads under a version check.
ActsAsOneStep ==
  [][((OneAction \/ Completes) /\ edits' = 0 /\ labels' # labels) =>
       \E w \in Writers :
         /\ pc[w] = "update"
         /\ \A k \in Keys \ client.stripped :
              labels'[k] = Over(labels, desired[w])[k]]_vars

\* When an action reports "updated", its keys are on the resource at that moment,
\* or it no longer exists: the SUCCESS row that follows is evidence of something.
UpdatedMeansLabelled ==
  [][\A w \in Writers :
       (client.raises /\ outcome[w] = None /\ outcome'[w] = "updated" /\ exists) =>
         \A k \in Keys \ client.stripped : desired[w][k] # Absent => labels'[k] # Absent]_vars

\* What an action has reported as updated no other action undoes: while users do
\* nothing, the keys of every updated action stay on the resource.  It takes clients
\* that merge, or writers that want the same, and a report that is not of an error.
UpdateNeverUndone ==
  (edits = 0 /\ (Merges \/ OneAction) /\ (client.raises \/ faults = 0)) =>
    \A w \in Writers : outcome[w] = "updated" =>
      \A k \in Keys \ client.stripped : desired[w][k] # Absent => labels[k] # Absent

=============================================================================
