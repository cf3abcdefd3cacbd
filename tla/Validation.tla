----------------------------- MODULE Validation -----------------------------
(***************************************************************************)
(* What CI asks of the files of a registry before they are promoted:       *)
(* validate_registry.py.  Its check of one file is the JSON schema, here   *)
(* the keys that every application must have.  Project ids are compared as *)
(* they are written; Governance folds their case, which is left out.       *)
(***************************************************************************)
EXTENDS Governance

CONSTANT RequiredKeys   \* keys of "required" in application.schema.json that become labels

ASSUME RequiredAssumption == RequiredKeys \subseteq Keys

SchemaErrors(application) == {k \in RequiredKeys : application.root[k] = Absent}

\* Mutant of DuplicateIds: project_ids is emptied for every file.
DuplicateIdsInFile(reg) == {}

\* Projects that project_ids holds already when another file binds them.
DuplicateIds(reg) ==
  {p \in Projects : \E i, j \in DOMAIN reg :
     i < j /\ p \in DOMAIN reg[i].bindings /\ p \in DOMAIN reg[j].bindings}

\* main ends without SystemExit(1).
Accepts(reg) == (\A i \in DOMAIN reg : SchemaErrors(reg[i]) = {}) /\ DuplicateIds(reg) = {}

=============================================================================
