----------------------------- MODULE Governance -----------------------------
(***************************************************************************)
(* What the application registry requires of a resource, and how a         *)
(* resource measures up to it: GovernanceService and ComplianceService     *)
(* over one reading of the registry.                                       *)
(*                                                                         *)
(* A registry is the sequence of its applications, in the order the bucket *)
(* lists their files.  An application carries a product, the labels of its *)
(* root keys, and the labels of its binding for each project it is bound   *)
(* to on gcp; values are taken after normalize_label_value.                *)
(***************************************************************************)
EXTENDS Integers, Sequences, FiniteSets

CONSTANTS
  Projects,      \* project ids
  Keys,          \* label keys, "product" among them
  Values,        \* normalized label values
  Absent,        \* the value of a key that is not there
  Container,     \* cloudresourcemanager.googleapis.com/Project
  ProjectKeys,   \* allowed_project_keys
  Baseline,      \* project -> products that name its baseline: "project", its id
  Seed           \* the key "product"

SeedMissing == "product (MISSING MANDATORY SEED)"

Labels      == [Keys -> Values \cup {Absent}]
Nothing     == [k \in Keys |-> Absent]

IsApplication(a) ==
  /\ a.product \in Values /\ a.root \in Labels
  /\ DOMAIN a.bindings \subseteq Projects
  /\ a.bindings \in [DOMAIN a.bindings -> Labels]

IsRegistry(reg) ==
  /\ DOMAIN reg \subseteq Nat /\ IsFiniteSet(DOMAIN reg)
  /\ \A i \in DOMAIN reg : i > 0 /\ IsApplication(reg[i])

ASSUME ValueAssumption    == Absent \notin Values /\ Seed \in Keys /\ SeedMissing \notin Keys
ASSUME WhitelistAssumption == ProjectKeys \subseteq Keys
ASSUME BaselineAssumption == Baseline \in [Projects -> SUBSET Values]

\* f, completed with what g has besides.
Over(f, g) == [k \in Keys |-> IF f[k] # Absent THEN f[k] ELSE g[k]]

Present(l) == {k \in Keys : l[k] # Absent}

(***************************************************************************)
(* project_metadata: the place of the application that answers for a       *)
(* resource, 0 for (None, None).  Project containers look for their        *)
(* baseline only; a seed is looked up first and, when no application of    *)
(* that product is bound to the project, any that is bound will do.        *)
(***************************************************************************)
Bound(reg, project) == {i \in DOMAIN reg : project \in DOMAIN reg[i].bindings}

Candidates(reg, project, seed, type) ==
  LET bound  == Bound(reg, project)
      seeded == {i \in bound : reg[i].product = seed}
  IN IF type = Container THEN {i \in bound : reg[i].product \in Baseline[project]}
     ELSE IF seeded # {} THEN seeded ELSE bound

ProjectMetadata(reg, project, seed, type) ==
  LET c == Candidates(reg, project, seed, type)
  IN IF c = {} THEN 0 ELSE CHOOSE i \in c : \A j \in c : i <= j

\* expected_labels, and expected_tags, which differs in nothing.
ExpectedLabels(reg, project, seed, type) ==
  LET i   == ProjectMetadata(reg, project, seed, type)
      all == Over(reg[i].bindings[project], reg[i].root)
  IN IF i = 0 THEN Nothing
     ELSE IF type = Container THEN [k \in Keys |-> IF k \in ProjectKeys THEN all[k] ELSE Absent]
     ELSE all

(***************************************************************************)
(* ComplianceService.                                                      *)
(***************************************************************************)
Missing(expected, actual)   == {k \in Present(expected) : actual[k] = Absent}
Incorrect(expected, actual) == {k \in Present(expected) : actual[k] \notin {Absent, expected[k]}}

\* _evaluate_resource
Compare(expected, actual) ==
  [compliant |-> Missing(expected, actual) = {} /\ Incorrect(expected, actual) = {},
   missing   |-> Missing(expected, actual),
   incorrect |-> Incorrect(expected, actual)]

\* Mutant of Evaluate: the missing seed is reported as an incorrect value.
EvaluateMisfiled(reg, project, type, actual) ==
  IF type # Container /\ actual[Seed] = Absent
    THEN [compliant |-> FALSE, missing |-> {}, incorrect |-> {SeedMissing}]
    ELSE Compare(ExpectedLabels(reg, project, actual[Seed], type), actual)

\* One turn of evaluate: a resource other than a project needs its seed.
Evaluate(reg, project, type, actual) ==
  IF type # Container /\ actual[Seed] = Absent
    THEN [compliant |-> FALSE, missing |-> {SeedMissing}, incorrect |-> {}]
    ELSE Compare(ExpectedLabels(reg, project, actual[Seed], type), actual)

=============================================================================
