------------------------------- MODULE Scope -------------------------------
(***************************************************************************)
(* What a brownfield request covers: the projects of the environment the   *)
(* program runs in (org_helper), and of a project those resources that     *)
(* discover does not filter out.                                           *)
(*                                                                         *)
(* Projects are told apart by substrings of their ids; Marks says which of *)
(* "dev", "poc" and "prod" an id contains.                                 *)
(***************************************************************************)
EXTENDS Governance

CONSTANTS
  Resources,      \* what the Asset Inventory answers with, over all projects
  ProjectOf, TypeOf,
  EngineProject,  \* config.PROJECT_ID
  Active,         \* projects that are ACTIVE and visible to the program
  Marks,          \* project -> what its id contains
  Rank,           \* project -> its place when ids are sorted
  Supported,      \* SUPPORTED_LABEL_RESOURCES
  ApiOf,          \* resource -> API of its type
  Enabled,        \* project -> its enabled APIs
  ExcludedProjects,  \* config.EXCLUDED_PROJECTS, which nothing consults
  Excluded,       \* resources whose names contain one of EXCLUDED_BUCKETS
  Defaults        \* resources with the names Google gives to its own

ASSUME ScopeAssumption ==
  /\ ProjectOf \in [Resources -> Projects]
  /\ Active \subseteq Projects
  /\ Marks \in [Projects -> SUBSET {"dev", "poc", "prod"}]
  /\ Rank \in [Projects -> Nat]

Bucket == "storage.googleapis.com/Bucket"

-----------------------------------------------------------------------------
(* get_all_active_projects.                                                *)

Environment ==
  IF Marks[EngineProject] \cap {"dev", "poc"} # {} THEN "dev"
  ELSE IF "prod" \in Marks[EngineProject] THEN "prod" ELSE "ALL"

InEnvironment(project) ==
  \/ Environment = "ALL"
  \/ Environment = "dev" /\ Marks[project] \cap {"dev", "poc"} # {}
  \/ Environment = "prod" /\ "prod" \in Marks[project]

AllActiveProjects == {p \in Active \ {EngineProject} : InEnvironment(p)}

-----------------------------------------------------------------------------
(* discover, given the APIs that get_enabled_apis answers with.            *)

ActiveSupported(apis) == {r \in Resources : /\ TypeOf[r] \in Supported
                                            /\ ApiOf[r] \in apis \/ TypeOf[r] = Container}

FilteredByName(r) == r \in Defaults \/ (TypeOf[r] = Bucket /\ r \in Excluded)

\* Mutant of Discover: the project of the engine is like any other.
DiscoverEverywhere(project, apis) ==
  {r \in ActiveSupported(apis) : ProjectOf[r] = project /\ ~FilteredByName(r)}

Discover(project, apis) ==
  {r \in ActiveSupported(apis) : /\ ProjectOf[r] = project
                                 /\ project # EngineProject
                                 /\ ~FilteredByName(r)}

\* Resource(...) is built without labels: the dict read from the asset is dropped.
DiscoveredLabels(r) == Nothing

=============================================================================
