------------------------- MODULE LabelWriterProofs -------------------------
(***************************************************************************)
(* What merging and the version check of a service buy: for every set of   *)
(* writers, of keys and of values, and for any edits in between, a client  *)
(* that merges into a checked reading, or whose service merges, erases     *)
(* nothing.                                                                *)
(***************************************************************************)
EXTENDS LabelWriter, TLAPS

\* A reading whose version is still current is what the resource carries.
ReadingCurrent ==
  \A w \in Writers :
    /\ seenVersion[w] <= version
    /\ (pc[w] = "update" /\ seenVersion[w] = version) => seen[w] = labels

\* What a run of the model is about never changes: its client and its actions.
LEMMA FixedStays == [Next]_vars => UNCHANGED fixed
BY DEF Next, vars, fixed

\* Every variable keeps its type.
THEOREM TypeCorrect == Spec => []TypeOK
<1> USE AbsentAssumption, ClientAssumption, DemandAssumption, InitialAssumption,
        BoundAssumption
<1>1. Init => TypeOK
  BY DEF Init, TypeOK, Labels, Nothing, Outcome, None
<1>2. TypeOK /\ [Next]_vars => TypeOK'
  <2> SUFFICES ASSUME TypeOK, [Next]_vars PROVE TypeOK'
    OBVIOUS
  <2> USE FixedStays DEF fixed
  <2>1. ASSUME NEW f \in Labels, NEW g \in Labels
        PROVE  Over(f, g) \in Labels /\ Strip(f) \in Labels
    BY <2>1 DEF Over, Strip, Labels
  <2>2. ASSUME NEW f \in Labels, NEW g \in Labels, NEW h \in Labels
        PROVE  Target(f, g, h) \in Labels
    <3>1. client.way \in Ways
      BY DEF TypeOK, ClientType
    <3>2. Over(f, g) \in Labels /\ Over(g, f) \in Labels /\ Over(f, h) \in Labels
      BY <2>1, <2>2
    <3>3. CASE client.way = "remove"
      BY <2>2, <3>2, <3>3 DEF Target, Labels
    <3>4. CASE client.way # "remove"
      BY <2>2, <3>1, <3>2, <3>4 DEF Target, Ways
    <3> QED BY <3>3, <3>4
  <2>3. ASSUME NEW k \in Keys, NEW v \in Values \cup {Absent}, Edit(k, v) PROVE TypeOK'
    BY <2>3 DEF Edit, TypeOK, Labels
  <2>4. CASE Delete
    <3>1. edits' \in 0..MaxEdits
      BY <2>4 DEF Delete, TypeOK
    <3> QED BY <2>4, <3>1, Zenon DEF Delete, TypeOK
  <2>5. ASSUME NEW w \in Writers, Write(w) PROVE TypeOK'
    <3>1. CASE GetResource(w)
      <4>1. Strip(Build(labels, desired[w])) \in Labels
        BY <2>1 DEF Build, TypeOK
      <4> QED BY <3>1, <4>1 DEF GetResource, TypeOK, live
    <3>2. CASE GetDeleted(w)
      BY <3>2 DEF GetDeleted, Finish, TypeOK, live, Outcome
    <3>3. CASE GetRefused(w)
      BY <3>3 DEF GetRefused, Finish, Fault, TypeOK, live, Outcome
    <3>4. CASE Reread(w)
      BY <3>4 DEF Reread, Finish, TypeOK, live, Outcome
    <3>5. CASE Update(w)
      <4>1. labels' \in Labels
        BY <2>2, <3>5 DEF Update, TypeOK
      <4> QED BY <3>5, <4>1 DEF Update, Finish, Fault, TypeOK, Outcome, Refused
    <3>6. CASE UpdateConflicts(w)
      BY <3>6 DEF UpdateConflicts, Finish, TypeOK, live, Outcome, Refused
    <3>7. CASE ApplyDeleted(w)
      BY <3>7 DEF ApplyDeleted, Finish, TypeOK, live, Outcome, Gone
    <3>8. CASE ApplyRefused(w)
      BY <3>8 DEF ApplyRefused, Finish, Fault, TypeOK, live, Outcome, Refused
    <3> QED BY <2>5, <3>1, <3>2, <3>3, <3>4, <3>5, <3>6, <3>7, <3>8 DEF Write
  <2>6. CASE UNCHANGED vars
    BY <2>6 DEF vars, TypeOK
  <2> QED BY <2>3, <2>4, <2>5, <2>6 DEF Next
<1> QED BY <1>1, <1>2, PTL DEF Spec

-----------------------------------------------------------------------------

\* A reading stays current as long as the version does: every step that changes
\* the labels moves the version past all readings.
LEMMA ReadingCurrentStep ==
  ASSUME TypeOK, ReadingCurrent, CheckedMerge, [Next]_vars
  PROVE  ReadingCurrent'
<1> USE DEF CheckedMerge
<1>1. ASSUME NEW k \in Keys, NEW v \in Values \cup {Absent}, Edit(k, v)
      PROVE  ReadingCurrent'
  BY <1>1 DEF Edit, TypeOK, ReadingCurrent
<1>2. CASE Delete
  BY <1>2 DEF Delete, ReadingCurrent
<1>3. ASSUME NEW w \in Writers, Write(w) PROVE ReadingCurrent'
  <2>1. CASE GetResource(w)
    BY <2>1 DEF GetResource, live, TypeOK, ReadingCurrent
  <2>2. CASE GetDeleted(w)
    BY <2>2 DEF GetDeleted, Finish, live, TypeOK, ReadingCurrent
  <2>3. CASE GetRefused(w)
    BY <2>3 DEF GetRefused, Finish, live, TypeOK, ReadingCurrent
  <2>4. CASE Reread(w)
    BY <2>4 DEF Reread, Finish, live, TypeOK, ReadingCurrent
  <2>5. CASE Update(w)
    BY <2>5 DEF Update, Finish, TypeOK, ReadingCurrent
  <2>6. CASE UpdateConflicts(w)
    BY <2>6 DEF UpdateConflicts, Finish, live, TypeOK, ReadingCurrent
  <2>7. CASE ApplyDeleted(w)
    BY <2>7 DEF ApplyDeleted, Finish, live, TypeOK, ReadingCurrent
  <2>8. CASE ApplyRefused(w)
    BY <2>8 DEF ApplyRefused, Finish, live, TypeOK, ReadingCurrent
  <2> QED BY <1>3, <2>1, <2>2, <2>3, <2>4, <2>5, <2>6, <2>7, <2>8 DEF Write
<1>4. CASE UNCHANGED vars
  BY <1>4 DEF vars, ReadingCurrent
<1> QED BY <1>1, <1>2, <1>3, <1>4 DEF Next

\* In every state of a client that merges under a check, readings are current.
LEMMA ReadingInvariant == Spec => [](CheckedMerge => ReadingCurrent)
<1>1. Init => (CheckedMerge => ReadingCurrent)
  BY DEF Init, ReadingCurrent
<1>2. TypeOK /\ (CheckedMerge => ReadingCurrent) /\ [Next]_vars
        => (CheckedMerge => ReadingCurrent)'
  <2> SUFFICES ASSUME TypeOK, CheckedMerge => ReadingCurrent, [Next]_vars, CheckedMerge'
               PROVE  ReadingCurrent'
    OBVIOUS
  <2>1. CheckedMerge
    BY FixedStays DEF fixed, CheckedMerge
  <2> QED BY <2>1, ReadingCurrentStep
<1> QED BY <1>1, <1>2, TypeCorrect, PTL DEF Spec

\* The labels change without a user only by the update of a writer.
LEMMA OnlyUpdatesWrite ==
  ASSUME TypeOK, [Next]_vars, edits' = edits, labels' # labels
  PROVE  \E w \in Writers : Update(w)
<1>1. ASSUME NEW k \in Keys, NEW v \in Values \cup {Absent}, Edit(k, v) PROVE FALSE
  BY <1>1 DEF Edit, TypeOK
<1>2. ~Delete
  BY DEF Delete, TypeOK
<1>3. ASSUME NEW w \in Writers, Write(w) PROVE Update(w)
  BY <1>3 DEF Write, GetResource, GetDeleted, GetRefused, Reread, UpdateConflicts,
              ApplyDeleted, ApplyRefused, live
<1>4. ~UNCHANGED vars
  BY DEF vars
<1> QED BY <1>1, <1>2, <1>3, <1>4 DEF Next

\* A client that merges makes the new labels from those the resource carries.
LEMMA UpdatesFromCurrent ==
  ASSUME TypeOK, CheckedMerge => ReadingCurrent, Merges, [Next]_vars, edits' = edits,
         labels' # labels
  PROVE  \E w \in Writers : labels' = Target(final[w], labels, labels)
<1>1. PICK w \in Writers : Update(w)
  BY OnlyUpdatesWrite
<1>2. CASE CheckedMerge
  <2>1. seen[w] = labels
    BY <1>1, <1>2 DEF CheckedMerge, Update, Stale, ReadingCurrent
  <2> QED BY <1>1, <2>1 DEF Update
<1>3. CASE ~CheckedMerge
  <2>1. client.way = "patch"
    BY <1>3 DEF Merges
  <2>2. labels' = Target(final[w], seen[w], labels)
    BY <1>1 DEF Update
  <2>3. Target(final[w], seen[w], labels) = Target(final[w], labels, labels)
    BY <2>1 DEF Target
  <2> QED BY <2>2, <2>3
<1> QED BY <1>2, <1>3

\* ... so that no update of such a client removes a key.
LEMMA MergersKeepKeys ==
  ASSUME TypeOK, CheckedMerge => ReadingCurrent, [Next]_vars, Merges,
         edits' = edits, NEW k \in Keys, labels[k] # Absent
  PROVE  labels'[k] # Absent
<1>1. CASE labels' # labels
  <2>1. PICK w \in Writers : labels' = Target(final[w], labels, labels)
    BY <1>1, UpdatesFromCurrent
  <2> QED BY <2>1 DEF Target, Over, Merges, CheckedMerge
<1> QED BY <1>1

-----------------------------------------------------------------------------

\* A client that merges, by itself under a version check or in its service, erases
\* nothing, whatever users and other writers do between the calls of an action.
THEOREM MergersNeverErase == Spec => MergersEraseNothing
<1>1. TypeOK /\ (CheckedMerge => ReadingCurrent) /\ [Next]_vars =>
        [(Merges /\ edits' = edits) =>
           \A k \in Keys : labels[k] # Absent => labels'[k] # Absent]_vars
  BY MergersKeepKeys
<1> QED BY <1>1, TypeCorrect, ReadingInvariant, PTL DEF Spec, MergersEraseNothing

\* A client that honours PRESERVE_EXISTING_LABELS under a version check changes no
\* value that is there, also none that was set after the executor read the labels.
THEOREM PreserversNeverChange == Spec => PreserversKeepValues
<1>1. TypeOK /\ (CheckedMerge => ReadingCurrent) /\ [Next]_vars =>
        [(Completes /\ edits' = edits) =>
           \A k \in Keys : labels[k] # Absent => labels'[k] = labels[k]]_vars
  <2> SUFFICES ASSUME TypeOK, CheckedMerge => ReadingCurrent, [Next]_vars,
                      CheckedMerge, client.way = "complete", Preserve, edits' = edits,
                      NEW k \in Keys, labels[k] # Absent
               PROVE  labels'[k] = labels[k]
    BY DEF Completes
  <2>1. CASE labels' = labels
    BY <2>1
  <2>2. CASE labels' # labels
    <3>1. PICK w \in Writers : labels' = Target(final[w], labels, labels)
      BY <2>2, UpdatesFromCurrent DEF Merges
    <3> QED BY <3>1 DEF Target, Over
  <2> QED BY <2>1, <2>2
<1> QED BY <1>1, TypeCorrect, ReadingInvariant, PTL DEF Spec, PreserversKeepValues

-----------------------------------------------------------------------------
(***************************************************************************)
(* What an action hands over.  The keys of the resource that the executor  *)
(* does not pop are Own; on these final_labels completes what was read     *)
(* with what is desired.                                                   *)
(***************************************************************************)

Own == Keys \ client.stripped

\* Between its two readings and its update, an action asks for each of its keys.
DemandInFinal ==
  \A w \in Writers : pc[w] \in {"reread", "update"} =>
    \A k \in Own : desired[w][k] # Absent => final[w][k] # Absent

\* What an action is asked, and the keys it may write, never change.
LEMMA OwnStays == ASSUME [Next]_vars PROVE Own' = Own /\ desired' = desired
BY FixedStays DEF fixed, Own

\* final_labels on the keys that are not popped.
LEMMA BuiltOnOwn ==
  ASSUME NEW l, NEW d, NEW k \in Own
  PROVE  Strip(Build(l, d))[k] = Over(l, d)[k]
BY DEF Strip, Build, Over, Own

\* final_labels are set by client.get alone.
LEMMA FinalSetByGet ==
  ASSUME TypeOK, [Next]_vars, NEW w \in Writers
  PROVE  \/ GetResource(w) /\ pc'[w] \in {"reread", "update"}
         \/ final'[w] = final[w] /\ (pc'[w] \in {"reread", "update"} => pc[w] \in {"reread", "update"})
<1> USE DEF TypeOK
<1>1. ASSUME NEW v \in Writers, GetResource(v)
      PROVE  \/ GetResource(w) /\ pc'[w] \in {"reread", "update"}
             \/ final'[w] = final[w] /\ pc'[w] = pc[w]
  <2>1. CASE v = w
    BY <1>1, <2>1 DEF GetResource
  <2>2. CASE v # w
    BY <1>1, <2>2 DEF GetResource
  <2> QED BY <2>1, <2>2
<1>2. ASSUME NEW v \in Writers, Write(v), ~GetResource(v)
      PROVE  final' = final /\ (pc'[w] \in {"reread", "update"} => pc[w] \in {"reread", "update"})
  BY <1>2 DEF Write, GetDeleted, GetRefused, Reread, Update, UpdateConflicts, ApplyDeleted,
              ApplyRefused, Finish
<1>3. CASE Delete \/ UNCHANGED vars \/ \E k \in Keys, x \in Values \cup {Absent} : Edit(k, x)
  BY <1>3 DEF Delete, Edit, vars
<1> QED BY <1>1, <1>2, <1>3 DEF Next

\* So it does in every state: only client.get makes final_labels.
LEMMA DemandInvariant == Spec => []DemandInFinal
<1>1. Init => DemandInFinal
  BY DEF Init, DemandInFinal
<1>2. TypeOK /\ DemandInFinal /\ [Next]_vars => DemandInFinal'
  <2> SUFFICES ASSUME TypeOK, DemandInFinal, [Next]_vars, NEW w \in Writers,
                      pc'[w] \in {"reread", "update"}, NEW k \in Own,
                      desired[w][k] # Absent
               PROVE  final'[w][k] # Absent
    BY OwnStays DEF DemandInFinal
  <2>1. CASE GetResource(w)
    <3>1. final'[w] = Strip(Build(labels, desired[w]))
      BY <2>1 DEF GetResource, TypeOK
    <3>2. Over(labels, desired[w])[k] # Absent
      BY DEF Over, Own
    <3> QED BY <3>1, <3>2, BuiltOnOwn
  <2>2. CASE ~GetResource(w)
    BY <2>2, FinalSetByGet DEF DemandInFinal
  <2> QED BY <2>1, <2>2
<1> QED BY <1>1, <1>2, TypeCorrect, PTL DEF Spec

\* An update leaves every key on the resource that the action asks for.
LEMMA TargetHasDemand ==
  ASSUME TypeOK, NEW f, NEW g, NEW h, NEW k \in Own, f[k] # Absent
  PROVE  Target(f, g, h)[k] # Absent
BY DEF TypeOK, ClientType, Ways, Target, Over, Own

-----------------------------------------------------------------------------

\* A status is given once, and "updated" without an error only by an update, or by
\* a client that has seen that nothing would change.
LEMMA UpdatedBy ==
  ASSUME TypeOK, [Next]_vars, NEW w \in Writers, outcome'[w] = "updated",
         outcome[w] # "updated"
  PROVE  \/ Update(w)
         \/ Reread(w) /\ Target(final[w], labels, labels) = labels
         \/ Swallows /\ (UpdateConflicts(w) \/ ApplyDeleted(w) \/ ApplyRefused(w))
<1> USE DEF TypeOK
<1>1. PICK v \in Writers : Write(v)
  BY DEF Next, Delete, Edit, vars
<1>2. v = w
  BY <1>1 DEF Write, GetResource, GetDeleted, GetRefused, Reread, Update, UpdateConflicts,
              ApplyDeleted, ApplyRefused, Finish
<1>3. ~GetResource(w) /\ ~GetDeleted(w) /\ ~GetRefused(w)
  BY DEF GetResource, GetDeleted, GetRefused, Finish
<1>4. Reread(w) => Target(final[w], labels, labels) = labels
  BY DEF Reread
<1>5. UpdateConflicts(w) \/ ApplyDeleted(w) \/ ApplyRefused(w) => Swallows
  BY DEF UpdateConflicts, ApplyDeleted, ApplyRefused, Finish, Refused, Gone
<1> QED BY <1>1, <1>2, <1>3, <1>4, <1>5 DEF Write

\* Where a client lets errors through, an action that reports "updated" has put all
\* its keys on the resource, whatever users and other writers do meanwhile.
THEOREM UpdatedIsLabelled == Spec => UpdatedMeansLabelled
<1>1. TypeOK /\ DemandInFinal /\ [Next]_vars =>
        [\A w \in Writers :
           (client.raises /\ outcome[w] = None /\ outcome'[w] = "updated" /\ exists) =>
             \A k \in Keys \ client.stripped :
               desired[w][k] # Absent => labels'[k] # Absent]_vars
  <2> SUFFICES ASSUME TypeOK, DemandInFinal, [Next]_vars, NEW w \in Writers,
                      client.raises, outcome[w] = None, outcome'[w] = "updated",
                      NEW k \in Own, desired[w][k] # Absent
               PROVE  labels'[k] # Absent
    BY DEF Own
  <2>1. Update(w) \/ (Reread(w) /\ Target(final[w], labels, labels) = labels)
    BY UpdatedBy DEF None, Swallows
  <2>2. final[w][k] # Absent
    BY <2>1 DEF DemandInFinal, Update, Reread
  <2>3. CASE Update(w)
    BY <2>2, <2>3, TargetHasDemand DEF Update
  <2>4. CASE Reread(w) /\ Target(final[w], labels, labels) = labels
    <3>1. Target(final[w], labels, labels)[k] # Absent
      BY <2>2, TargetHasDemand
    <3> QED BY <2>4, <3>1 DEF Reread, live
  <2> QED BY <2>1, <2>3, <2>4
<1> QED BY <1>1, TypeCorrect, DemandInvariant, PTL DEF Spec, UpdatedMeansLabelled

-----------------------------------------------------------------------------
(***************************************************************************)
(* One action executed by several writers.  Until a user edits, all of     *)
(* them strive for one and the same labelling: what the resource carries,  *)
(* completed with what is desired.  It is what every one of them hands     *)
(* over, and no update changes it.                                         *)
(***************************************************************************)

\* A deletion is an edit, and no reading is newer than the resource.
EditsInv ==
  /\ edits = 0 => exists
  /\ \A w \in Writers : seenVersion[w] <= version

OneLabelling ==
  \A w \in Writers : \A k \in Own :
    /\ pc[w] \in {"reread", "update"} => final[w][k] = Over(labels, desired[w])[k]
    /\ seen[w][k] # Absent => seen[w][k] = labels[k]
    /\ version > 0 /\ desired[w][k] # Absent => labels[k] # Absent

\* Both hold in every state.
LEMMA EditsInvariant == Spec => []EditsInv
<1>1. Init => EditsInv
  BY DEF Init, EditsInv
<1>2. TypeOK /\ EditsInv /\ [Next]_vars => EditsInv'
  <2> SUFFICES ASSUME TypeOK, EditsInv, [Next]_vars PROVE EditsInv'
    OBVIOUS
  <2> USE DEF TypeOK, EditsInv
  <2>1. ASSUME NEW k \in Keys, NEW x \in Values \cup {Absent}, Edit(k, x) PROVE EditsInv'
    BY <2>1 DEF Edit
  <2>2. CASE Delete
    <3>1. edits' # 0 /\ UNCHANGED <<seenVersion, version>>
      BY <2>2, BoundAssumption DEF Delete
    <3> QED BY <3>1
  <2>3. ASSUME NEW w \in Writers, Write(w) PROVE EditsInv'
    BY <2>3 DEF Write, GetResource, GetDeleted, GetRefused, Reread, Update, UpdateConflicts,
                ApplyDeleted, ApplyRefused, Finish, live
  <2>4. CASE UNCHANGED vars
    BY <2>4 DEF vars
  <2> QED BY <2>1, <2>2, <2>3, <2>4 DEF Next
<1> QED BY <1>1, <1>2, TypeCorrect, PTL DEF Spec

\* No step takes an edit back.
LEMMA EditsOnlyRise == ASSUME TypeOK, [Next]_vars PROVE edits' >= edits
BY BoundAssumption DEF TypeOK, Next, Delete, Edit, vars, Write, GetResource, GetDeleted, GetRefused,
     Reread, Update, UpdateConflicts, ApplyDeleted, ApplyRefused

\* The update of any client: the labelling that all writers strive for.
LEMMA UpdateReaches ==
  ASSUME TypeOK, OneLabelling, NEW w \in Writers, Update(w), NEW k \in Own
  PROVE  labels'[k] = Over(labels, desired[w])[k]
<1>1. labels' = Target(final[w], seen[w], labels)
  BY DEF Update
<1>2. final[w][k] = Over(labels, desired[w])[k]
  BY DEF OneLabelling, Update
<1>3. seen[w][k] # Absent => seen[w][k] = labels[k]
  BY DEF OneLabelling
<1>4. k \in Keys /\ client.way \in Ways
  BY DEF Own, TypeOK, ClientType
<1>5. CASE client.way = "remove"
  BY <1>1, <1>2, <1>3, <1>4, <1>5 DEF Target, Over
<1>6. CASE client.way # "remove"
  BY <1>1, <1>2, <1>3, <1>4, <1>6 DEF Target, Over, Ways
<1> QED BY <1>5, <1>6

\* No step of a writer leads away from the labelling they strive for.
LEMMA OneLabellingStep ==
  ASSUME TypeOK, OneAction, OneLabelling, edits' = edits, [Next]_vars
  PROVE  OneLabelling'
<1> SUFFICES ASSUME NEW w \in Writers, NEW k \in Own
             PROVE  /\ pc'[w] \in {"reread", "update"} => final'[w][k] = Over(labels', desired[w])[k]
                    /\ seen'[w][k] # Absent => seen'[w][k] = labels'[k]
                    /\ version' > 0 /\ desired[w][k] # Absent => labels'[k] # Absent
  <2>1. Own' = Own /\ desired' = desired
    BY OwnStays
  <2> QED BY <2>1 DEF OneLabelling
<1> USE DEF TypeOK
<1>0. k \in Keys
  BY DEF Own
<1>1. \/ labels' = labels /\ version' = version
      \/ \E v \in Writers : Update(v)
  BY DEF Next, Delete, Edit, vars, Write, GetResource, GetDeleted, GetRefused, Reread,
         UpdateConflicts, ApplyDeleted, ApplyRefused, live
<1>2. CASE labels' = labels /\ version' = version
  <2>1. pc'[w] \in {"reread", "update"} => final'[w][k] = Over(labels, desired[w])[k]
    <3>1. CASE GetResource(w)
      <4>1. final'[w] = Strip(Build(labels, desired[w]))
        BY <3>1 DEF GetResource
      <4> QED BY <4>1, BuiltOnOwn
    <3>2. CASE ~GetResource(w)
      BY <3>2, FinalSetByGet DEF OneLabelling
    <3> QED BY <3>1, <3>2
  <2>2. seen'[w] = seen[w] \/ seen'[w] = labels
    BY DEF Next, Delete, Edit, vars, Write, GetResource, GetDeleted, GetRefused, Reread, Update,
           UpdateConflicts, ApplyDeleted, ApplyRefused
  <2>3. seen'[w][k] # Absent => seen'[w][k] = labels[k]
    BY <2>2 DEF OneLabelling
  <2>4. version > 0 /\ desired[w][k] # Absent => labels[k] # Absent
    BY DEF OneLabelling
  <2> QED BY <1>2, <2>1, <2>3, <2>4 DEF Over
<1>3. ASSUME NEW v \in Writers, Update(v)
      PROVE  /\ pc'[w] \in {"reread", "update"} => final'[w][k] = Over(labels', desired[w])[k]
             /\ seen'[w][k] # Absent => seen'[w][k] = labels'[k]
             /\ version' > 0 /\ desired[w][k] # Absent => labels'[k] # Absent
  <2>1. labels'[k] = Over(labels, desired[v])[k] /\ desired[v] = desired[w]
    BY <1>3, UpdateReaches DEF OneAction
  <2>2. pc'[w] \in {"reread", "update"} => pc[w] \in {"reread", "update"} 
    BY <1>3 DEF Update, Finish
  <2>3. final' = final /\ seen' = seen
    BY <1>3 DEF Update
  <2>4. Over(labels, desired[w])[k] = IF labels[k] # Absent THEN labels[k] ELSE desired[w][k]
    BY <1>0 DEF Over
  <2>5. Over(labels', desired[w])[k] = IF labels'[k] # Absent THEN labels'[k] ELSE desired[w][k]
    BY <1>0 DEF Over
  <2>6. Over(labels', desired[w])[k] = Over(labels, desired[w])[k]
    BY <2>1, <2>4, <2>5
  <2>7. pc'[w] \in {"reread", "update"} => final'[w][k] = Over(labels', desired[w])[k]
    BY <2>2, <2>3, <2>6 DEF OneLabelling
  <2>8. seen'[w][k] # Absent => seen'[w][k] = labels'[k]
    BY <2>1, <2>3, <2>4 DEF OneLabelling
  <2> QED BY <2>1, <2>4, <2>7, <2>8
<1> QED BY <1>1, <1>2, <1>3

\* Writers of one action strive for it in every state before the first edit.
LEMMA OneLabellingInvariant == Spec => [](OneAction /\ edits = 0 => OneLabelling)
<1>1. Init => (OneAction /\ edits = 0 => OneLabelling)
  <2> SUFFICES ASSUME Init, NEW w \in Writers, NEW k \in Own
               PROVE  pc[w] = "get" /\ seen[w][k] = Absent /\ ~(version > 0)
    BY DEF OneLabelling
  <2> QED BY DEF Init, Nothing, Own
<1>2. TypeOK /\ (OneAction /\ edits = 0 => OneLabelling) /\ [Next]_vars
        => (OneAction /\ edits = 0 => OneLabelling)'
  <2> SUFFICES ASSUME TypeOK, OneAction /\ edits = 0 => OneLabelling, [Next]_vars,
                      OneAction', edits' = 0
               PROVE  OneLabelling'
    OBVIOUS
  <2>1. OneAction
    BY OwnStays DEF OneAction
  <2>2. edits = 0
    BY BoundAssumption DEF TypeOK, Next, Delete, Edit, vars, Write, GetResource, GetDeleted, GetRefused,
         Reread, Update, UpdateConflicts, ApplyDeleted, ApplyRefused
  <2> QED BY <2>1, <2>2, OneLabellingStep
<1> QED BY <1>1, <1>2, TypeCorrect, PTL DEF Spec

\* A batch that is delivered twice, to any client: no update changes a value that is
\* there, not even one of a redelivery that runs at the same time.
THEOREM RedeliveryIsHarmless == Spec => RedeliveryKeepsValues
<1>1. TypeOK /\ (OneAction /\ edits = 0 => OneLabelling) /\ [Next]_vars =>
        [(OneAction /\ edits' = 0) =>
           \A k \in Keys \ client.stripped : labels[k] # Absent => labels'[k] = labels[k]]_vars
  <2> SUFFICES ASSUME TypeOK, OneAction /\ edits = 0 => OneLabelling, [Next]_vars,
                      OneAction, edits' = 0, NEW k \in Own, labels[k] # Absent
               PROVE  labels'[k] = labels[k]
    BY DEF Own
  <2>1. edits = 0
    BY BoundAssumption DEF TypeOK, Next, Delete, Edit, vars, Write, GetResource, GetDeleted, GetRefused,
         Reread, Update, UpdateConflicts, ApplyDeleted, ApplyRefused
  <2>2. CASE labels' # labels
    <3>1. PICK w \in Writers : Update(w)
      BY <2>1, <2>2, OnlyUpdatesWrite
    <3>2. labels'[k] = Over(labels, desired[w])[k]
      BY <2>1, <3>1, UpdateReaches
    <3> QED BY <3>2 DEF Over, Own
  <2> QED BY <2>2
<1> QED BY <1>1, TypeCorrect, OneLabellingInvariant, PTL DEF Spec, RedeliveryKeepsValues

-----------------------------------------------------------------------------
(***************************************************************************)
(* An action as one step.  Where the client completes what it reads, other *)
(* writers may fill a key in the meantime, but what is missing still goes  *)
(* by the demand alone: until a user edits, no key is taken away.          *)
(***************************************************************************)

GapsAsDesired ==
  \A w \in Writers : \A k \in Own :
    pc[w] \in {"reread", "update"} /\ labels[k] = Absent => final[w][k] = desired[w][k]

\* What a completing client hands over fills gaps as desired until the first edit.
LEMMA GapsAsDesiredInvariant == Spec => [](Completes /\ edits = 0 => GapsAsDesired)
<1>1. Init => (Completes /\ edits = 0 => GapsAsDesired)
  BY DEF Init, GapsAsDesired
<1>2. TypeOK /\ (CheckedMerge => ReadingCurrent) /\ (Completes /\ edits = 0 => GapsAsDesired)
        /\ [Next]_vars => (Completes /\ edits = 0 => GapsAsDesired)'
  <2> SUFFICES ASSUME TypeOK, CheckedMerge => ReadingCurrent,
                      Completes /\ edits = 0 => GapsAsDesired, [Next]_vars,
                      Completes', edits' = 0, NEW w \in Writers, NEW k \in Own,
                      pc'[w] \in {"reread", "update"}, labels'[k] = Absent
               PROVE  final'[w][k] = desired[w][k]
    BY OwnStays DEF GapsAsDesired
  <2>1. Completes /\ Merges
    BY FixedStays DEF fixed, Completes, Merges, CheckedMerge
  <2>2. edits = 0
    BY EditsOnlyRise DEF TypeOK
  <2>3. k \in Keys /\ labels[k] = Absent
    BY <2>1, <2>2, MergersKeepKeys DEF Own
  <2>4. CASE GetResource(w)
    <3>1. final'[w] = Strip(Build(labels, desired[w]))
      BY <2>4 DEF GetResource, TypeOK
    <3>2. final'[w][k] = Over(labels, desired[w])[k]
      BY <3>1, BuiltOnOwn
    <3>3. Over(labels, desired[w])[k] = desired[w][k]
      BY <2>3 DEF Over
    <3> QED BY <3>2, <3>3
  <2>5. CASE ~GetResource(w)
    BY <2>1, <2>2, <2>3, <2>5, FinalSetByGet DEF GapsAsDesired
  <2> QED BY <2>4, <2>5
<1> QED BY <1>1, <1>2, TypeCorrect, ReadingInvariant, PTL DEF Spec

\* Until a user edits, an action takes effect at once, by its update, on the labels of
\* that moment: for one action whatever the client, for all where the client completes.
THEOREM ActionsAreOneStep == Spec => ActsAsOneStep
<1>1. /\ TypeOK /\ (CheckedMerge => ReadingCurrent) /\ (OneAction /\ edits = 0 => OneLabelling)
      /\ (Completes /\ edits = 0 => GapsAsDesired) /\ [Next]_vars
      => [((OneAction \/ Completes) /\ edits' = 0 /\ labels' # labels) =>
            \E w \in Writers :
              /\ pc[w] = "update"
              /\ \A k \in Keys \ client.stripped :
                   labels'[k] = Over(labels, desired[w])[k]]_vars
  <2> SUFFICES ASSUME TypeOK, CheckedMerge => ReadingCurrent,
                      OneAction /\ edits = 0 => OneLabelling,
                      Completes /\ edits = 0 => GapsAsDesired, [Next]_vars,
                      OneAction \/ Completes, edits' = 0, labels' # labels
               PROVE  \E w \in Writers :
                        /\ pc[w] = "update"
                        /\ \A k \in Own : labels'[k] = Over(labels, desired[w])[k]
    BY DEF Own
  <2>1. edits = 0
    BY EditsOnlyRise DEF TypeOK
  <2>2. PICK w \in Writers : Update(w)
    BY <2>1, OnlyUpdatesWrite
  <2>3. pc[w] = "update"
    BY <2>2 DEF Update
  <2>4. ASSUME NEW k \in Own PROVE labels'[k] = Over(labels, desired[w])[k]
    <3>0. k \in Keys
      BY DEF Own
    <3>1. CASE OneAction
      BY <2>1, <2>2, <3>1, UpdateReaches
    <3>2. CASE Completes
      <4>1. seen[w] = labels
        BY <2>2, <3>2 DEF Completes, CheckedMerge, Update, Stale, ReadingCurrent
      <4>2. labels' = Over(labels, final[w])
        BY <2>2, <3>2, <4>1 DEF Update, Target, Completes
      <4>3. labels[k] = Absent => final[w][k] = desired[w][k]
        BY <2>1, <2>3, <3>2 DEF GapsAsDesired
      <4> QED BY <3>0, <4>2, <4>3 DEF Over
    <3> QED BY <3>1, <3>2
  <2> QED BY <2>2, <2>3, <2>4
<1> QED
  BY <1>1, TypeCorrect, ReadingInvariant, OneLabellingInvariant, GapsAsDesiredInvariant, PTL
     DEF Spec, ActsAsOneStep

-----------------------------------------------------------------------------
(***************************************************************************)
(* What was reported stays.  A version conflict that a client swallows is  *)
(* reported as "updated" although nothing was written: it is harmless when *)
(* all writers want the same, since the version has moved only by one of   *)
(* their updates, and no client that merges swallows it.                   *)
(***************************************************************************)

\* Clients that merge and let their version be compared let errors through.
ConflictsReported ==
  \A c \in Clients :
    c.way \in {"reconcile", "complete", "patch"} /\ c.rereads /\ c.checked => c.raises

\* True of every client of AdapterService, whatever the asset type.
LEMMA AdaptersReportConflicts ==
  ASSUME Clients \subseteq {AdapterClients[i][2] : i \in DOMAIN AdapterClients}
  PROVE  ConflictsReported
<1> DEFINE Fine(c) ==
             c.way \in {"reconcile", "complete", "patch"} /\ c.rereads /\ c.checked => c.raises
<1>1. Fine(Plain) /\ Fine(Blind) /\ Fine([Plain EXCEPT !.checked = TRUE])
  BY DEF Plain, Blind
<1>2. Fine(PubSub) /\ Fine(KMS) /\ Fine(CloudFunctions) /\ Fine(ArtifactRegistry)
  BY <1>1 DEF PubSub, KMS, CloudFunctions, ArtifactRegistry
<1>3. Fine(BigQuery) /\ Fine(GKE) /\ Fine(CloudRun)
  BY <1>1 DEF BigQuery, GKE, CloudRun
<1>4. /\ Fine(Vertex) /\ Fine(Dataplex) /\ Fine(AppEngine) /\ Fine(Redis) /\ Fine(Monitoring)
      /\ Fine(Dataform) /\ Fine(AlloyDB)
  BY <1>1 DEF Vertex, Dataplex, AppEngine, Redis, Monitoring, Dataform, AlloyDB
<1>5. Fine(Storage) /\ Fine(CloudSQL) /\ Fine(DNS)
  BY DEF Storage, CloudSQL, DNS, Blind, Plain
<1>6. Fine(Compute) /\ Fine(SecretManager) /\ Fine(Project) /\ Fine(ResourceManager)
  BY DEF Compute, SecretManager, Project, ResourceManager, Completing, Plain
<1> HIDE DEF Fine
<1>7. \A i \in DOMAIN AdapterClients : Fine(AdapterClients[i][2])
  <2>1. DOMAIN AdapterClients = 1..21
    BY DEF AdapterClients
  <2>2. /\ AdapterClients[1][2] = Compute /\ AdapterClients[2][2] = BigQuery
        /\ AdapterClients[3][2] = Storage /\ AdapterClients[4][2] = ResourceManager
        /\ AdapterClients[5][2] = KMS /\ AdapterClients[6][2] = PubSub
        /\ AdapterClients[7][2] = Project /\ AdapterClients[8][2] = GKE
        /\ AdapterClients[9][2] = CloudRun /\ AdapterClients[10][2] = CloudSQL
        /\ AdapterClients[11][2] = ArtifactRegistry /\ AdapterClients[12][2] = CloudFunctions
        /\ AdapterClients[13][2] = Vertex /\ AdapterClients[14][2] = Dataplex
        /\ AdapterClients[15][2] = AppEngine /\ AdapterClients[16][2] = Redis
        /\ AdapterClients[17][2] = SecretManager /\ AdapterClients[18][2] = Monitoring
        /\ AdapterClients[19][2] = Dataform /\ AdapterClients[20][2] = DNS
        /\ AdapterClients[21][2] = AlloyDB
    BY DEF AdapterClients
  <2> QED BY <1>2, <1>3, <1>4, <1>5, <1>6, <2>1, <2>2
<1>8. \A c \in Clients : Fine(c)
  BY <1>7
<1> QED BY <1>8 DEF ConflictsReported, Fine

\* A run has one of the clients that it may have.
LEMMA ClientInvariant == Spec => [](client \in Clients)
<1>1. Init => client \in Clients
  BY DEF Init
<1>2. client \in Clients /\ [Next]_vars => (client \in Clients)'
  BY FixedStays DEF fixed
<1> QED BY <1>1, <1>2, PTL DEF Spec

\* While users do nothing, no step removes a key of a merging client's resource, nor
\* of one that all writers want to have the same.
LEMMA NothingErased ==
  ASSUME TypeOK, CheckedMerge => ReadingCurrent, OneAction /\ edits = 0 => OneLabelling,
         [Next]_vars, edits = 0, edits' = 0, Merges \/ OneAction, NEW k \in Own,
         labels[k] # Absent
  PROVE  labels'[k] # Absent
<1>1. k \in Keys
  BY DEF Own
<1>2. CASE Merges
  BY <1>1, <1>2, MergersKeepKeys
<1>3. CASE OneAction /\ labels' # labels
  <2>1. PICK w \in Writers : Update(w)
    BY <1>3, OnlyUpdatesWrite
  <2>2. labels'[k] = Over(labels, desired[w])[k]
    BY <1>3, <2>1, UpdateReaches
  <2> QED BY <1>1, <2>2 DEF Over
<1> QED BY <1>2, <1>3

\* What an action reports as "updated" carries its keys, also where errors are
\* swallowed, as long as no call failed.
LEMMA ReportIsTrue ==
  ASSUME ConflictsReported, client \in Clients, TypeOK, DemandInFinal, EditsInv,
         OneAction /\ edits = 0 => OneLabelling, [Next]_vars, edits = 0,
         Merges \/ OneAction, client.raises \/ faults' = 0,
         NEW w \in Writers, outcome'[w] = "updated", outcome[w] # "updated",
         NEW k \in Own, desired[w][k] # Absent
  PROVE  labels'[k] # Absent
<1>1. CASE Update(w)
  BY <1>1, TargetHasDemand DEF Update, DemandInFinal
<1>2. CASE Reread(w) /\ Target(final[w], labels, labels) = labels
  <2>1. final[w][k] # Absent /\ labels' = labels
    BY <1>2 DEF Reread, DemandInFinal, live
  <2>2. Target(final[w], labels, labels)[k] # Absent
    BY <2>1, TargetHasDemand
  <2> QED BY <1>2, <2>1, <2>2
<1>3. CASE Swallows /\ UpdateConflicts(w)
  <2>1. Stale(w) /\ labels' = labels /\ ~client.raises
    BY <1>3 DEF UpdateConflicts, Swallows, live
  <2>2. OneAction
    BY <2>1 DEF Stale, Merges, CheckedMerge, ConflictsReported
  <2>3. version > 0
    BY <2>1 DEF Stale, EditsInv, TypeOK
  <2> QED BY <2>1, <2>2, <2>3 DEF OneLabelling
<1>4. ~ApplyDeleted(w)
  BY DEF ApplyDeleted, EditsInv
<1>5. ~(Swallows /\ ApplyRefused(w))
  BY DEF Swallows, ApplyRefused, Fault, TypeOK
<1> QED BY <1>1, <1>2, <1>3, <1>4, <1>5, UpdatedBy

\* What an action has reported as updated no other action undoes, whichever of the
\* clients of AdapterService the resource has.
THEOREM UpdatesStay ==
  ASSUME Clients \subseteq {AdapterClients[i][2] : i \in DOMAIN AdapterClients}
  PROVE  Spec => []UpdateNeverUndone
<1> USE AdaptersReportConflicts
<1>1. Init => UpdateNeverUndone
  BY DEF Init, UpdateNeverUndone, None
<1>2. /\ client \in Clients /\ TypeOK /\ DemandInFinal /\ EditsInv
      /\ CheckedMerge => ReadingCurrent
      /\ OneAction /\ edits = 0 => OneLabelling
      /\ UpdateNeverUndone /\ [Next]_vars
      => UpdateNeverUndone'
  <2> SUFFICES ASSUME client \in Clients, TypeOK, DemandInFinal, EditsInv,
                      CheckedMerge => ReadingCurrent,
                      OneAction /\ edits = 0 => OneLabelling,
                      UpdateNeverUndone, [Next]_vars, edits' = 0, (Merges \/ OneAction)',
                      client'.raises \/ faults' = 0, NEW w \in Writers,
                      outcome'[w] = "updated", NEW k \in Own', desired'[w][k] # Absent
               PROVE  labels'[k] # Absent
    BY DEF UpdateNeverUndone, Own
  <2>1. k \in Own /\ desired[w][k] # Absent /\ client' = client /\ (Merges \/ OneAction)
    BY OwnStays, FixedStays DEF fixed, Merges, CheckedMerge, OneAction
  <2>2. edits = 0 /\ (faults' = 0 => faults = 0)
    BY BoundAssumption DEF TypeOK, Next, Delete, Edit, vars, Write, GetResource, GetDeleted, GetRefused,
         Reread, Update, UpdateConflicts, ApplyDeleted, ApplyRefused, Fault
  <2>3. CASE outcome[w] = "updated"
    <3>1. labels[k] # Absent
      BY <2>1, <2>2, <2>3 DEF UpdateNeverUndone, Own
    <3> QED BY <2>1, <2>2, <3>1, NothingErased
  <2>4. CASE outcome[w] # "updated"
    BY <2>1, <2>2, <2>4, ReportIsTrue
  <2> QED BY <2>3, <2>4
<1> QED
  BY <1>1, <1>2, ClientInvariant, TypeCorrect, DemandInvariant, EditsInvariant,
     ReadingInvariant, OneLabellingInvariant, PTL DEF Spec

=============================================================================
