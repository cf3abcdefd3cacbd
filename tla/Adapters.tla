------------------------------ MODULE Adapters ------------------------------
(***************************************************************************)
(* The clients of AdapterService, one for each service the platform can    *)
(* label, told apart by what their apply_labels does with the labels the   *)
(* executor hands it.  Which services are switched on is the business of   *)
(* SUPPORTED_LABEL_RESOURCES; at this commit it is Project alone.          *)
(*                                                                         *)
(* What a service does with a request is external: that it compares the    *)
(* version when the message sent back is the one that was read and carries *)
(* an etag, and that it merges the map of a REST patch.                    *)
(***************************************************************************)
EXTENDS Naturals, Sequences

CONSTANT Keys    \* label keys

\* The way from the labels handed over to the labels of the resource:
\*   replace    they become the labels of the resource
\*   remove     ... but a label the client has not read is left alone
\*   patch      they are merged into the labels by the service
\*   reconcile  they are merged into the labels the client has read
\*   complete   the same, with PRESERVE_EXISTING_LABELS giving way to what is there
Ways == {"replace", "remove", "patch", "reconcile", "complete"}

ClientType ==
  [way      : Ways,
   rereads  : BOOLEAN,   \* reads the resource again before it updates it
   checked  : BOOLEAN,   \* sends the version it read, which the service compares
   raises   : BOOLEAN,   \* lets errors through; the others return False
   skips    : BOOLEAN,   \* sends nothing when nothing would change
   retries  : BOOLEAN,   \* tries once more when the version is stale
   denies   : BOOLEAN,   \* get answers a 403 with None
   stripped : SUBSET Keys]   \* popped by the executor from what it hands over

\* Most clients fetch the message, assign its labels and send it back.
Plain == [way |-> "replace", rereads |-> TRUE, checked |-> FALSE, raises |-> FALSE,
          skips |-> FALSE, retries |-> FALSE, denies |-> FALSE, stripped |-> {}]

PubSub           == Plain
KMS              == Plain
CloudFunctions   == Plain
ArtifactRegistry == Plain

\* ... and the message has an etag or a fingerprint.
BigQuery == [Plain EXCEPT !.checked = TRUE]
GKE      == [Plain EXCEPT !.checked = TRUE]
CloudRun == [Plain EXCEPT !.checked = TRUE]

\* Some send a message of their own making, without reading.
Blind      == [Plain EXCEPT !.rereads = FALSE]
Vertex     == Blind
Dataplex   == Blind
AppEngine  == Blind
Redis      == Blind
Monitoring == Blind
Dataform   == Blind
AlloyDB    == Blind

\* The bucket of the library remembers which of the labels it read are to go.
Storage  == [Plain EXCEPT !.way = "remove"]

CloudSQL == [Blind EXCEPT !.way = "patch", !.denies = TRUE]
DNS      == [Blind EXCEPT !.way = "patch", !.denies = TRUE]

\* Of the types in its REGISTRY.  For others get answers no labels and apply_labels True,
\* so that "updated" says nothing; SUPPORTED_LABEL_RESOURCES does not list them.
Compute  == [Plain EXCEPT !.way = "reconcile", !.checked = TRUE, !.raises = TRUE,
                          !.skips = TRUE, !.retries = TRUE]

Completing    == [Plain EXCEPT !.way = "complete", !.checked = TRUE, !.raises = TRUE,
                               !.skips = TRUE]
SecretManager == Completing

StrippedKeys == {"product", "zone", "region", "application"}

\* Two clients support projects.
ResourceManager == [Plain EXCEPT !.checked = TRUE, !.stripped = StrippedKeys \cap Keys]
Project         == [Completing EXCEPT !.stripped = StrippedKeys \cap Keys]

\* The clients in the order of AdapterService.clients, with the service in the
\* asset types they support.
AdapterClients ==
  << <<"compute", Compute>>,           <<"bigquery", BigQuery>>,
     <<"storage", Storage>>,           <<"cloudresourcemanager", ResourceManager>>,
     <<"cloudkms", KMS>>,              <<"pubsub", PubSub>>,
     <<"cloudresourcemanager", Project>>,
     <<"container", GKE>>,             <<"run", CloudRun>>,
     <<"sqladmin", CloudSQL>>,         <<"artifactregistry", ArtifactRegistry>>,
     <<"cloudfunctions", CloudFunctions>>,
     <<"aiplatform", Vertex>>,         <<"dataplex", Dataplex>>,
     <<"appengine", AppEngine>>,       <<"redis", Redis>>,
     <<"secretmanager", SecretManager>>,
     <<"monitoring", Monitoring>>,     <<"dataform", Dataform>>,
     <<"dns", DNS>>,                   <<"alloydb", AlloyDB>> >>

Services == {AdapterClients[i][1] : i \in DOMAIN AdapterClients}

\* AdapterService.client_for: the first client that supports the type.
ClientFor(service) ==
  LET Supports(i) == AdapterClients[i][1] = service
      first == CHOOSE i \in DOMAIN AdapterClients :
                 Supports(i) /\ \A j \in DOMAIN AdapterClients : Supports(j) => i <= j
  IN  AdapterClients[first][2]

=============================================================================
