----------------------------- MODULE Extractors -----------------------------
(***************************************************************************)
(* What ClassificationService makes of an audit event: the extractor of    *)
(* the event's service answers with the resources that were created.       *)
(*                                                                         *)
(* Extractors look for phrases in the name of the method; an event stands  *)
(* here for the phrases its method contains (says).  named tells whether   *)
(* it has a method at all, and disks lists the diskName of each disk in    *)
(* the request, Unnamed where there is none.                               *)
(***************************************************************************)
EXTENDS Integers, Sequences

Container == "cloudresourcemanager.googleapis.com/Project"
Unnamed   == "unnamed"

Resource(type, name, project) == [type |-> type, name |-> name, project |-> project]

Rule(phrases, type) == [phrases |-> phrases, type |-> type]

\* An if/elif chain over the method: the first rule that applies decides.
Extract(rules, e) ==
  LET hits == {i \in DOMAIN rules : rules[i].phrases \cap e.says # {}}
  IN IF hits = {} THEN <<>>
     ELSE LET first == CHOOSE i \in hits : \A j \in hits : i <= j
          IN << Resource(rules[first].type, e.name, e.project) >>

\* An instance comes with its disks; one without a diskName takes the name of the
\* instance, also when it is a disk that existed before.
Compute(e) ==
  LET disk(name) == Resource("compute.googleapis.com/Disk",
                             IF name = Unnamed THEN e.name ELSE name, e.project)
  IN IF "instances.insert" \in e.says
       THEN << Resource("compute.googleapis.com/Instance", e.name, e.project) >>
              \o [i \in DOMAIN e.disks |-> disk(e.disks[i])]
     ELSE Extract(<< Rule({"disks.insert"}, "compute.googleapis.com/Disk"),
                     Rule({"routers.insert"}, "compute.googleapis.com/Router") >>, e)

BigQuery(e) == Extract(
  << Rule({"DatasetService.InsertDataset", "DatasetService.UpdateDataset",
           "DatasetService.PatchDataset"}, "bigquery.googleapis.com/Dataset"),
     Rule({"TableService.InsertTable", "TableService.UpdateTable",
           "TableService.PatchTable"}, "bigquery.googleapis.com/Table"),
     Rule({"ModelService.InsertModel", "ModelService.UpdateModel",
           "ModelService.PatchModel"}, "bigquery.googleapis.com/Model") >>, e)

Storage(e) == Extract(<< Rule({"storage.buckets.create"}, "storage.googleapis.com/Bucket") >>, e)

ResourceManager(e) == Extract(<< Rule({"CreateProject", "UpdateProject"}, Container) >>, e)

\* A new version of a key says CreateCryptoKey as well.
KMS(e) == Extract(<< Rule({"CreateCryptoKey"}, "cloudkms.googleapis.com/CryptoKey") >>, e)

PubSub(e) == Extract(
  << Rule({"google.pubsub.v1.Publisher.CreateTopic"}, "pubsub.googleapis.com/Topic"),
     Rule({"google.pubsub.v1.Subscriber.CreateSubscription"},
          "pubsub.googleapis.com/Subscription") >>, e)

CloudSQL(e) ==
  Extract(<< Rule({"cloudsql.instances.create"}, "sqladmin.googleapis.com/Instance") >>, e)

GKE(e) == Extract(
  << Rule({"ClusterManager.CreateCluster", "ClusterManager.UpdateCluster"},
          "container.googleapis.com/Cluster") >>, e)

CloudRun(e) == Extract(
  << Rule({"Services.CreateService", "Services.UpdateService"},
          "run.googleapis.com/Service") >>, e)

ArtifactRegistry(e) == Extract(
  << Rule({"ArtifactRegistry.CreateRepository"},
          "artifactregistry.googleapis.com/Repository") >>, e)

CloudFunctions(e) == Extract(
  << Rule({"CloudFunctionsService.CreateFunction", "FunctionService.CreateFunction"},
          "cloudfunctions.googleapis.com/Function") >>, e)

Vertex(e) == Extract(
  << Rule({"DatasetService.CreateDataset"}, "aiplatform.googleapis.com/Dataset"),
     Rule({"ModelService.UploadModel"}, "aiplatform.googleapis.com/Model"),
     Rule({"JobService.CreateCustomJob"}, "aiplatform.googleapis.com/CustomJob"),
     Rule({"PipelineService.CreatePipelineJob"}, "aiplatform.googleapis.com/PipelineJob") >>, e)

Dataplex(e) == Extract(
  << Rule({"DataplexService.CreateEntryGroup"}, "dataplex.googleapis.com/EntryGroup"),
     Rule({"DataScanService.CreateDataScan"}, "dataplex.googleapis.com/DataScan") >>, e)

AppEngine(e) == Extract(
  << Rule({"Applications.CreateApplication", "Applications.UpdateApplication"},
          "appengine.googleapis.com/Application"),
     Rule({"Versions.CreateVersion", "Versions.UpdateVersion"},
          "appengine.googleapis.com/Version") >>, e)

Redis(e) == Extract(<< Rule({"CloudRedis.CreateInstance"}, "redis.googleapis.com/Instance") >>, e)

Monitoring(e) == Extract(
  << Rule({"AlertPolicyService.CreateAlertPolicy"}, "monitoring.googleapis.com/AlertPolicy") >>, e)

Dataform(e) ==
  Extract(<< Rule({"Dataform.CreateRepository"}, "dataform.googleapis.com/Repository") >>, e)

DNS(e) == Extract(<< Rule({"ManagedZonesService.Create"}, "dns.googleapis.com/ManagedZone") >>, e)

AlloyDB(e) == Extract(
  << Rule({"AlloyDBAdmin.CreateCluster"}, "alloydb.googleapis.com/Cluster"),
     Rule({"AlloyDBAdmin.CreateInstance"}, "alloydb.googleapis.com/Instance") >>, e)

\* The services an extractor is registered for.
Services == {"compute.googleapis.com", "bigquery.googleapis.com", "storage.googleapis.com",
  "cloudresourcemanager.googleapis.com", "cloudkms.googleapis.com", "pubsub.googleapis.com",
  "sqladmin.googleapis.com", "container.googleapis.com", "run.googleapis.com",
  "artifactregistry.googleapis.com", "cloudfunctions.googleapis.com",
  "aiplatform.googleapis.com", "dataplex.googleapis.com", "appengine.googleapis.com",
  "redis.googleapis.com", "monitoring.googleapis.com", "dataform.googleapis.com",
  "dns.googleapis.com", "alloydb.googleapis.com"}

\* classify raises: an extractor looks for its phrases in a method that is null.
Unclassifiable(e) == e.service \in Services /\ ~e.named

\* classify
Classified(e) ==
  CASE e.service = "compute.googleapis.com"              -> Compute(e)
    [] e.service = "bigquery.googleapis.com"             -> BigQuery(e)
    [] e.service = "storage.googleapis.com"              -> Storage(e)
    [] e.service = "cloudresourcemanager.googleapis.com" -> ResourceManager(e)
    [] e.service = "cloudkms.googleapis.com"             -> KMS(e)
    [] e.service = "pubsub.googleapis.com"               -> PubSub(e)
    [] e.service = "sqladmin.googleapis.com"             -> CloudSQL(e)
    [] e.service = "container.googleapis.com"            -> GKE(e)
    [] e.service = "run.googleapis.com"                  -> CloudRun(e)
    [] e.service = "artifactregistry.googleapis.com"     -> ArtifactRegistry(e)
    [] e.service = "cloudfunctions.googleapis.com"       -> CloudFunctions(e)
    [] e.service = "aiplatform.googleapis.com"           -> Vertex(e)
    [] e.service = "dataplex.googleapis.com"             -> Dataplex(e)
    [] e.service = "appengine.googleapis.com"            -> AppEngine(e)
    [] e.service = "redis.googleapis.com"                -> Redis(e)
    [] e.service = "monitoring.googleapis.com"           -> Monitoring(e)
    [] e.service = "dataform.googleapis.com"             -> Dataform(e)
    [] e.service = "dns.googleapis.com"                  -> DNS(e)
    [] e.service = "alloydb.googleapis.com"              -> AlloyDB(e)
    [] OTHER                                             -> <<>>

(***************************************************************************)
(* External: the service and the method in the audit event that a client's *)
(* apply_labels gives rise to, for the types whose updates are extracted.  *)
(***************************************************************************)
UpdateCall(type) ==
  CASE type = Container -> <<"cloudresourcemanager.googleapis.com", "UpdateProject">>
    [] type = "run.googleapis.com/Service" -> <<"run.googleapis.com", "Services.UpdateService">>
    [] type = "bigquery.googleapis.com/Dataset" ->
         <<"bigquery.googleapis.com", "DatasetService.PatchDataset">>
    [] type = "bigquery.googleapis.com/Table" ->
         <<"bigquery.googleapis.com", "TableService.PatchTable">>
    [] type = "bigquery.googleapis.com/Model" ->
         <<"bigquery.googleapis.com", "ModelService.PatchModel">>
    [] type = "appengine.googleapis.com/Application" ->
         <<"appengine.googleapis.com", "Applications.UpdateApplication">>
    [] type = "appengine.googleapis.com/Version" ->
         <<"appengine.googleapis.com", "Versions.UpdateVersion">>
    [] OTHER -> <<"another service", "another method">>

=============================================================================
