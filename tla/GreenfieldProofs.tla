-------------------------- MODULE GreenfieldProofs --------------------------
(***************************************************************************)
(* What the handling of audit events leaves behind, for every set of       *)
(* messages and any number of threads, however often Pub/Sub pushes and    *)
(* wherever a request fails.                                               *)
(***************************************************************************)
EXTENDS Greenfield, CountingTheorems

\* The baseline of a project container may require nothing of it.
Labelled(r) == r.type # Container \/ r.project \in Governed

-----------------------------------------------------------------------------
(* Invariants.                                                             *)

\* The locals of a request follow its way through process.
SlotOK(s) ==
  /\ pc[s] = "idle" => ~lease[s] /\ place[s] = 0
  /\ pc[s] \in {"receive", "classify"} => place[s] = 0
  /\ pc[s] \notin {"idle", "receive", "respond"} => Heard(event[s])
  /\ pc[s] \in {"next", "alert"} => place[s] > 0
  /\ pc[s] \in {"evaluate", "act", "save"} =>
       place[s] \in Places(event[s]) /\ Current(s).type \in Supported
  /\ pc[s] \in {"evaluate", "act"} => event[s].seed = "given"
  /\ pc[s] = "act" => Labelled(Current(s))
  /\ pc[s] = "save" =>
       status[s] = IF event[s].seed # "given" THEN "FAILED"
                   ELSE IF Labelled(Current(s)) THEN "SUCCESS" ELSE "COMPLIANT"

SlotInv == \A s \in Slots : SlotOK(s)

\* Rows are of supported types, or of failures as a whole; what is updated had to be.
HistoryOK ==
  /\ IsFiniteSet(DOMAIN evidence)
  /\ \A row \in DOMAIN evidence : row.type \in Supported \cup {"UNKNOWN"}
  /\ \A r \in DOMAIN updates : r.type \in Supported /\ Labelled(r)

Below(e, type, n) == {i \in Tracked(e, type) : i < n}

\* The resources of e before place n have their rows.
Processed(e, n) ==
  /\ \A type \in Supported : Rows(e, type) >= Cardinality(Below(e, type, n))
  /\ e.seed = "given" =>
       \A i \in Places(e) :
         i < n /\ Extracted[e][i].type \in Supported /\ Labelled(Extracted[e][i]) =>
           RowsWith(e, Extracted[e][i].type, "SUCCESS") > 0

Settled(e) == FailedWhole(e) \/ Processed(e, Len(Extracted[e]) + 1)

\* The evidence keeps up with the loop, and settles before the answer.
EvidenceOK(s) ==
  /\ pc[s] \in {"next", "evaluate", "act", "save", "alert"} => Processed(event[s], place[s])
  /\ pc[s] = "respond" /\ Heard(event[s]) => Settled(event[s])

EvidenceInv ==
  /\ \A s \in Slots : EvidenceOK(s)
  /\ \A e \in acked : Heard(e) => Settled(e)

\* The rows of e that say its product is missing, and the slots about to alert for one.
FailedRows(e) == {row \in DOMAIN evidence :
                    row.event = e /\ row.status = "FAILED" /\ row.type # "UNKNOWN"}

Failed(e) == SumFunctionOnSet(evidence, FailedRows(e))

Pending(e) == {s \in Slots : event[s] = e /\ pc[s] = "alert"}

\* Each such row has its alert, behind it or still to come, or a fault.
AlertAccount(e) ==
  /\ Copies(e, alerts) + Cardinality(Pending(e)) <= Failed(e)
  /\ Failed(e) <= Copies(e, alerts) + Cardinality(Pending(e)) + faults

AlertInv == \A e \in Messages : AlertAccount(e)

\* The resources of e from place n on, and those that slot s has still to come to.
After(e, type, n) == {i \in Tracked(e, type) : i >= n}

Left(s, e, type) == IF event[s] = e THEN Cardinality(After(e, type, place[s])) ELSE 0

ToCome(e, type) == SumFunctionOnSet([s \in Slots |-> Left(s, e, type)], Slots)

\* The rows that the copies in the queue can bring, and those there may be.
Owed(e, type) == Copies(e, queue) * Cardinality(Tracked(e, type))

Due(e, type) == (Published(e) + faults) * Cardinality(Tracked(e, type))

\* Each publication and each fault accounts for one row of each resource.
RowAccount(e, type) == Rows(e, type) + ToCome(e, type) + Owed(e, type) <= Due(e, type)

RowInv == \A e \in Messages : \A type \in Supported : RowAccount(e, type)

\* What Pub/Sub has, or waits for.
Held == BagToSet(queue) \cup acked \cup {event[s] : s \in {t \in Slots : lease[t]}}

\* No message is lost, and no echo brings the product along.
HeldInv ==
  /\ Known \subseteq Held
  /\ \A e \in Known : e.by = "engine" => e.seed # "given"

\* The messages of users that bring the product.
Givers == {e \in UserEvents : e.seed = "given"}

Mentions(e, r) == {i \in Places(e) : Extracted[e][i] = r}

Onward(e, r, n) == {i \in Mentions(e, r) : i >= n}

\* The first place whose resource slot s may still update.
From(s) == IF pc[s] \in {"save", "except", "respond"} THEN place[s] + 1 ELSE place[s]

\* Times that slot s may still update r.
ActsLeft(s, r) ==
  IF event[s] \in Givers THEN Cardinality(Onward(event[s], r, From(s))) ELSE 0

ActsToCome(r) == SumFunctionOnSet([s \in Slots |-> ActsLeft(s, r)], Slots)

\* Updates of r that the messages in bag B can bring.
ActsIn(B, r) ==
  SumFunctionOnSet([e \in Givers |-> Copies(e, B) * Cardinality(Mentions(e, r))], Givers)

ActsOwed(r) == ActsIn(queue, r)

\* Mentions of r in what users published, once more for each fault.
Weights(r) == [e \in Givers |-> Cardinality(Mentions(e, r))]

ActsDue(r) == SumFunctionOnSet(Weights(r), Seeded) * (1 + faults)

UpdateAccount(r) == Copies(r, updates) + ActsToCome(r) + ActsOwed(r) <= ActsDue(r)

UpdateInv == \A r : UpdateAccount(r)

\* What the sink exports of the program's own updates does not bring the product.
QuietSink == \A type \in Supported : UpdateCall(type)[2] \in Exported => SeedAfter(type) # "given"

-----------------------------------------------------------------------------
(* Bags.                                                                   *)

\* One more copy of x.
LEMMA AddedCopies ==
  ASSUME NEW B, IsABag(B), NEW x
  PROVE  /\ IsABag(BagAdd(B, x))
         /\ DOMAIN BagAdd(B, x) = DOMAIN B \cup {x}
         /\ \A y : Copies(y, B) \in Nat
         /\ \A y : Copies(y, BagAdd(B, x)) = Copies(y, B) + (IF y = x THEN 1 ELSE 0)
<1>1. \A y \in DOMAIN B : B[y] \in Nat /\ B[y] > 0
  BY DEF IsABag
<1>2. CASE x \in DOMAIN B
  <2>1. BagAdd(B, x) = [e \in DOMAIN B |-> IF e = x THEN B[e] + 1 ELSE B[e]]
    BY <1>2 DEF BagAdd
  <2> QED BY <1>1, <1>2, <2>1 DEF IsABag, Copies, BagIn, BagToSet
<1>3. CASE x \notin DOMAIN B
  <2>1. BagAdd(B, x) = [e \in DOMAIN B \cup {x} |-> IF e = x THEN 1 ELSE B[e]]
    BY <1>3 DEF BagAdd
  <2> QED BY <1>1, <1>3, <2>1 DEF IsABag, Copies, BagIn, BagToSet
<1> QED BY <1>2, <1>3

\* One copy less.
LEMMA RemovedCopies ==
  ASSUME NEW B, IsABag(B), NEW x \in DOMAIN B
  PROVE  /\ IsABag(BagRemove(B, x))
         /\ DOMAIN BagRemove(B, x) \subseteq DOMAIN B
         /\ DOMAIN B \ {x} \subseteq DOMAIN BagRemove(B, x)
         /\ \A y : Copies(y, BagRemove(B, x)) = Copies(y, B) - (IF y = x THEN 1 ELSE 0)
         /\ \A y : Copies(y, BagRemove(B, x)) \in Nat
<1>1. \A y \in DOMAIN B : B[y] \in Nat /\ B[y] > 0
  BY DEF IsABag
<1>2. CASE B[x] = 1
  <2>1. BagRemove(B, x) = [e \in DOMAIN B \ {x} |-> B[e]]
    BY <1>2 DEF BagRemove
  <2> QED BY <1>1, <1>2, <2>1 DEF IsABag, Copies, BagIn, BagToSet
<1>3. CASE B[x] # 1
  <2>1. BagRemove(B, x) = [e \in DOMAIN B |-> IF e = x THEN B[e] - 1 ELSE B[e]]
    BY <1>3 DEF BagRemove
  <2> QED BY <1>1, <1>3, <2>1 DEF IsABag, Copies, BagIn, BagToSet
<1> QED BY <1>2, <1>3

\* Of the copies in P there is one more.
LEMMA AddedToSum ==
  ASSUME NEW B, IsABag(B), IsFiniteSet(DOMAIN B), NEW x, NEW P
  PROVE  /\ SumFunctionOnSet(B, DOMAIN B \cap P) \in Nat
         /\ SumFunctionOnSet(BagAdd(B, x), DOMAIN BagAdd(B, x) \cap P)
              = SumFunctionOnSet(B, DOMAIN B \cap P) + (IF x \in P THEN 1 ELSE 0)
<1> DEFINE C == BagAdd(B, x)
           D == DOMAIN B \cap P
           E == DOMAIN C \cap P
<1>1. /\ IsABag(C) /\ DOMAIN C = DOMAIN B \cup {x}
      /\ \A y : Copies(y, C) = Copies(y, B) + (IF y = x THEN 1 ELSE 0)
  BY AddedCopies
<1>2. /\ \A y \in DOMAIN B : B[y] \in Nat /\ Copies(y, B) = B[y]
      /\ \A y \in DOMAIN C : C[y] \in Nat /\ Copies(y, C) = C[y]
      /\ x \notin DOMAIN B => Copies(x, B) = 0
  BY <1>1 DEF IsABag, Copies, BagIn, BagToSet
<1> HIDE DEF C
<1>3. /\ \A y \in DOMAIN B \ {x} : C[y] = B[y]
      /\ C[x] = (IF x \in DOMAIN B THEN B[x] ELSE 0) + 1
  BY <1>1, <1>2
<1>4. IsFiniteSet(D) /\ IsFiniteSet(E) /\ D \ {x} = E \ {x} /\ IsFiniteSet(D \ {x})
  <2>1. IsFiniteSet(DOMAIN C)
    BY <1>1, AddOne
  <2> QED BY <1>1, <2>1, SubsetCount
<1>5. SumFunctionOnSet(C, E \ {x}) = SumFunctionOnSet(B, D \ {x})
  <2>1. SumFunctionOnSet(C, D \ {x}) = SumFunctionOnSet(B, D \ {x})
    BY <1>3, <1>4, SumSame
  <2> QED BY <1>4, <2>1
<1>6. SumFunctionOnSet(B, D) \in Nat /\ SumFunctionOnSet(B, D \ {x}) \in Nat
  BY <1>2, <1>4, SumType
<1>7. CASE x \notin P
  <2>1. D \ {x} = D /\ E = D
    BY <1>1, <1>7
  <2> HIDE DEF D, E
  <2>2. SumFunctionOnSet(C, E) = SumFunctionOnSet(B, D)
    BY <1>5, <2>1
  <2> QED BY <1>6, <1>7, <2>2 DEF C, D, E
<1>8. CASE x \in P
  <2>1. x \in E
    BY <1>1, <1>8
  <2>2. SumFunctionOnSet(C, E) = C[x] + SumFunctionOnSet(C, E \ {x})
    BY <1>2, <1>4, <2>1, SumWithout
  <2>3. CASE x \in DOMAIN B
    <3>1. x \in D
      BY <1>8, <2>3
    <3>2. SumFunctionOnSet(B, D) = B[x] + SumFunctionOnSet(B, D \ {x})
      BY <1>2, <1>4, <3>1, SumWithout
    <3>3. C[x] = B[x] + 1 /\ B[x] \in Nat
      BY <1>2, <1>3, <2>3
    <3> HIDE DEF D, E
    <3> DEFINE rest == SumFunctionOnSet(B, D \ {x})
    <3>4. /\ SumFunctionOnSet(C, E) = C[x] + rest /\ SumFunctionOnSet(B, D) = B[x] + rest
          /\ rest \in Nat
      BY <1>5, <1>6, <2>2, <3>2
    <3> HIDE DEF rest
    <3>5. SumFunctionOnSet(C, E) = SumFunctionOnSet(B, D) + 1
      BY <3>3, <3>4
    <3> QED BY <1>6, <1>8, <3>5 DEF C, D, E
  <2>4. CASE x \notin DOMAIN B
    <3>1. D \ {x} = D /\ C[x] = 1
      BY <1>3, <2>4
    <3>2. SumFunctionOnSet(C, E) = 1 + SumFunctionOnSet(B, D)
      BY <1>5, <2>2, <3>1
    <3> HIDE DEF D, E
    <3> QED BY <1>6, <1>8, <3>2 DEF C, D, E
  <2> QED BY <2>3, <2>4
<1> QED BY <1>7, <1>8

-----------------------------------------------------------------------------
(* What is extracted.                                                      *)

\* An extractor with rules has one resource to offer at most, named by the event.
LEMMA ExtractShape ==
  ASSUME NEW rules, NEW e
  PROVE  \/ Extract(rules, e) = <<>>
         \/ \E type : Extract(rules, e) = << Resource(type, e.name, e.project) >>
BY DEF Extract

\* The resource of an instance comes first, then its disks.
LEMMA ComputeShape ==
  ASSUME NEW e, e.disks \in Seq(STRING)
  PROVE  \E S : /\ Compute(e) \in Seq(S)
                /\ \A r \in S : \E type, name : r = Resource(type, name, e.project)
<1> DEFINE disk(name) == Resource("compute.googleapis.com/Disk",
                                  IF name = Unnamed THEN e.name ELSE name, e.project)
           disks == [i \in DOMAIN e.disks |-> disk(e.disks[i])]
           instance == Resource("compute.googleapis.com/Instance", e.name, e.project)
           S == {instance} \cup {disk(name) : name \in STRING}
<1>1. CASE "instances.insert" \in e.says
  <2>1. Compute(e) = <<instance>> \o disks
    BY <1>1 DEF Compute
  <2>2. disks \in Seq(S) /\ <<instance>> \in Seq(S)
    <3>1. /\ DOMAIN e.disks = 1..Len(e.disks) /\ Len(e.disks) \in Nat
          /\ \A i \in DOMAIN e.disks : e.disks[i] \in STRING
      OBVIOUS
    <3>2. /\ <<instance>> \in Seq(S)
          /\ \A i \in DOMAIN e.disks : disk(e.disks[i]) \in S
      BY <3>1
    <3> HIDE DEF instance, disk, S
    <3>3. disks \in [1..Len(e.disks) -> S]
      BY <3>1, <3>2
    <3> HIDE DEF disks
    <3>4. disks \in Seq(S)
      BY <3>1, <3>3
    <3>5. <<instance>> \in Seq(S)
      BY <3>2
    <3> QED BY <3>4, <3>5
  <2>3. Compute(e) \in Seq(S)
    <3> HIDE DEF disks, instance, S
    <3> QED BY <2>1, <2>2
  <2>4. \A r \in S : \E type, name : r = Resource(type, name, e.project)
    OBVIOUS
  <2> HIDE DEF S
  <2> QED BY <2>3, <2>4
<1>2. CASE "instances.insert" \notin e.says
  <2> DEFINE rules == << Rule({"disks.insert"}, "compute.googleapis.com/Disk"),
                         Rule({"routers.insert"}, "compute.googleapis.com/Router") >>
  <2>1. Compute(e) = Extract(rules, e)
    BY <1>2 DEF Compute
  <2> HIDE DEF rules
  <2>2. CASE Compute(e) = <<>>
    <3>1. Compute(e) \in Seq({})
      BY <2>2
    <3> QED BY <3>1
  <2>3. ASSUME NEW type, Compute(e) = << Resource(type, e.name, e.project) >>
        PROVE  \E T : /\ Compute(e) \in Seq(T)
                      /\ \A r \in T : \E ty, name : r = Resource(ty, name, e.project)
    <3> WITNESS {Resource(type, e.name, e.project)}
    <3> QED BY <2>3
  <2> QED BY <2>1, <2>2, <2>3, ExtractShape
<1> QED BY <1>1, <1>2

\* Whatever is extracted is a sequence of resources.
LEMMA ClassifiedShape ==
  ASSUME NEW e, e.disks \in Seq(STRING)
  PROVE  \E S : /\ Classified(e) \in Seq(S)
                /\ \A r \in S : \E type, name : r = Resource(type, name, e.project)
<1> DEFINE Few(it) == \/ it = <<>>
                      \/ \E type : it = << Resource(type, e.name, e.project) >>
           Fine(it) == \E S : /\ it \in Seq(S)
                              /\ \A r \in S : \E type, name : r = Resource(type, name, e.project)
<1>1. /\ Few(BigQuery(e)) /\ Few(Storage(e)) /\ Few(ResourceManager(e)) /\ Few(KMS(e))
      /\ Few(PubSub(e)) /\ Few(CloudSQL(e)) /\ Few(GKE(e)) /\ Few(CloudRun(e))
      /\ Few(ArtifactRegistry(e)) /\ Few(CloudFunctions(e)) /\ Few(Vertex(e))
      /\ Few(Dataplex(e)) /\ Few(AppEngine(e)) /\ Few(Redis(e)) /\ Few(Monitoring(e))
      /\ Few(Dataform(e)) /\ Few(DNS(e)) /\ Few(AlloyDB(e)) /\ Few(<<>>)
  BY ExtractShape
  DEF BigQuery, Storage, ResourceManager, KMS, PubSub, CloudSQL, GKE, CloudRun,
      ArtifactRegistry, CloudFunctions, Vertex, Dataplex, AppEngine, Redis, Monitoring,
      Dataform, DNS, AlloyDB
<1>2. Classified(e) = Compute(e) \/ Few(Classified(e))
  <2> HIDE DEF Few
  <2> QED BY <1>1 DEF Classified
<1>3. ASSUME NEW it, Few(it) PROVE Fine(it)
  <2>1. CASE it = <<>>
    <3>1. it \in Seq({})
      BY <2>1
    <3> QED BY <3>1
  <2>2. ASSUME NEW type, it = << Resource(type, e.name, e.project) >> PROVE Fine(it)
    <3>1. it \in Seq({Resource(type, e.name, e.project)})
      BY <2>2
    <3> QED BY <3>1
  <2> QED BY <1>3, <2>1, <2>2
<1>4. Fine(Compute(e))
  BY ComputeShape
<1> QED
  <2> HIDE DEF Few, Fine
  <2>1. Fine(Classified(e))
    BY <1>2, <1>3, <1>4
  <2> QED BY <2>1 DEF Fine

\* The same of all messages, and of the places their resources have.
LEMMA ExtractedShape ==
  ASSUME NEW e \in Messages
  PROVE  /\ Len(Extracted[e]) \in Nat
         /\ Places(e) = 1..Len(Extracted[e])
         /\ \A i \in Places(e) : LET r == Extracted[e][i] IN r = Resource(r.type, r.name, r.project)
<1>1. e.disks \in Seq(STRING)
  <2>1. CASE e \in UserEvents
    BY <2>1, MessageAssumption DEF Message
  <2>2. CASE e \notin UserEvents
    <3>1. PICK r : e = Echo(r)
      BY <2>2 DEF Messages
    <3> QED BY <3>1 DEF Echo
  <2> QED BY <2>1, <2>2
<1>2. Extracted[e] = Classified(e)
  BY DEF Extracted
<1>3. PICK S : /\ Extracted[e] \in Seq(S)
               /\ \A r \in S : \E type, name : r = Resource(type, name, e.project)
  BY <1>1, <1>2, ClassifiedShape
<1>4. \A i \in Places(e) : Extracted[e][i] \in S
  BY <1>3 DEF Places
<1>5. \A r \in S : r = Resource(r.type, r.name, r.project)
  BY <1>3 DEF Resource
<1> QED BY <1>3, <1>4, <1>5 DEF Places

\* The echo of an update is extracted to the resource that was updated, or to nothing.
LEMMA EchoClassified ==
  ASSUME NEW r, r = Resource(r.type, r.name, r.project)
  PROVE  Classified(Echo(r)) \in {<<>>, <<r>>}
<1> DEFINE e == Echo(r)
           call == UpdateCall(r.type)
<1>0. /\ e.service = call[1] /\ e.says = {call[2]}
      /\ e.name = r.name /\ e.project = r.project
  BY DEF Echo
<1>1. ASSUME NEW rules, NEW i \in DOMAIN rules,
             call[2] \in rules[i].phrases, rules[i].type = r.type,
             \A j \in DOMAIN rules \ {i} : call[2] \notin rules[j].phrases, i \in Int
      PROVE  Extract(rules, e) = <<r>>
  <2>1. {j \in DOMAIN rules : rules[j].phrases \cap e.says # {}} = {i}
    BY <1>0, <1>1
  <2>2. (CHOOSE j \in {i} : \A k \in {i} : j <= k) = i
    BY <1>1
  <2>3. r = Resource(rules[i].type, e.name, e.project)
    BY <1>0, <1>1
  <2> HIDE DEF e
  <2> QED BY <2>1, <2>2, <2>3 DEF Extract
<1>2. CASE r.type = Container
  <2>1. call = <<"cloudresourcemanager.googleapis.com", "UpdateProject">>
    BY <1>2 DEF UpdateCall, Container
  <2>2. Classified(e) = ResourceManager(e)
    BY <1>0, <2>1 DEF Classified
  <2>3. ResourceManager(e) = <<r>>
    <3> DEFINE rules == << Rule({"CreateProject", "UpdateProject"}, Container) >>
    <3>1. /\ 1 \in DOMAIN rules /\ rules[1].type = r.type
          /\ call[2] \in rules[1].phrases /\ DOMAIN rules = {1}
      BY <1>2, <2>1 DEF Rule
    <3>2. ResourceManager(e) = Extract(rules, e)
      BY DEF ResourceManager
    <3> HIDE DEF rules
    <3> QED BY <1>1, <3>1, <3>2
  <2> QED BY <2>2, <2>3
<1>3. CASE r.type = "run.googleapis.com/Service"
  <2>1. call = <<"run.googleapis.com", "Services.UpdateService">>
    BY <1>3 DEF UpdateCall, Container
  <2>2. Classified(e) = CloudRun(e)
    BY <1>0, <2>1 DEF Classified
  <2>3. CloudRun(e) = <<r>>
    <3> DEFINE rules == << Rule({"Services.CreateService", "Services.UpdateService"},
                                "run.googleapis.com/Service") >>
    <3>1. /\ 1 \in DOMAIN rules /\ rules[1].type = r.type
          /\ call[2] \in rules[1].phrases /\ DOMAIN rules = {1}
      BY <1>3, <2>1 DEF Rule
    <3>2. CloudRun(e) = Extract(rules, e)
      BY DEF CloudRun
    <3> HIDE DEF rules
    <3> QED BY <1>1, <3>1, <3>2
  <2> QED BY <2>2, <2>3
<1>4. CASE r.type \in {"bigquery.googleapis.com/Dataset", "bigquery.googleapis.com/Table",
                       "bigquery.googleapis.com/Model"}
  <2> DEFINE i == IF r.type = "bigquery.googleapis.com/Dataset" THEN 1
                  ELSE IF r.type = "bigquery.googleapis.com/Table" THEN 2 ELSE 3
             rules == << Rule({"DatasetService.InsertDataset", "DatasetService.UpdateDataset",
                               "DatasetService.PatchDataset"}, "bigquery.googleapis.com/Dataset"),
                         Rule({"TableService.InsertTable", "TableService.UpdateTable",
                               "TableService.PatchTable"}, "bigquery.googleapis.com/Table"),
                         Rule({"ModelService.InsertModel", "ModelService.UpdateModel",
                               "ModelService.PatchModel"}, "bigquery.googleapis.com/Model") >>
  <2>1. /\ call[1] = "bigquery.googleapis.com"
        /\ call[2] = IF i = 1 THEN "DatasetService.PatchDataset"
                     ELSE IF i = 2 THEN "TableService.PatchTable" ELSE "ModelService.PatchModel"
    <3>1. CASE r.type = "bigquery.googleapis.com/Dataset"
      BY <3>1 DEF UpdateCall, Container
    <3>2. CASE r.type = "bigquery.googleapis.com/Table"
      BY <3>2 DEF UpdateCall, Container
    <3>3. CASE r.type = "bigquery.googleapis.com/Model"
      BY <3>3 DEF UpdateCall, Container
    <3> QED BY <1>4, <3>1, <3>2, <3>3
  <2>2. Classified(e) = BigQuery(e)
    BY <1>0, <2>1 DEF Classified
  <2>3. BigQuery(e) = <<r>>
    <3>1. /\ i \in DOMAIN rules /\ i \in Int /\ rules[i].type = r.type
          /\ call[2] \in rules[i].phrases
          /\ \A j \in DOMAIN rules \ {i} : call[2] \notin rules[j].phrases
      <4>1. DOMAIN rules = 1..3
        OBVIOUS
      <4>2. CASE r.type = "bigquery.googleapis.com/Dataset"
        BY <2>1, <4>1, <4>2 DEF Rule
      <4>3. CASE r.type = "bigquery.googleapis.com/Table"
        BY <2>1, <4>1, <4>3 DEF Rule
      <4>4. CASE r.type = "bigquery.googleapis.com/Model"
        BY <2>1, <4>1, <4>4 DEF Rule
      <4> QED BY <1>4, <4>2, <4>3, <4>4
    <3>2. BigQuery(e) = Extract(rules, e)
      BY DEF BigQuery
    <3> HIDE DEF rules, i
    <3> QED BY <1>1, <3>1, <3>2
  <2> QED BY <2>2, <2>3
<1>5. CASE r.type \in {"appengine.googleapis.com/Application", "appengine.googleapis.com/Version"}
  <2> DEFINE i == IF r.type = "appengine.googleapis.com/Application" THEN 1 ELSE 2
             rules == << Rule({"Applications.CreateApplication", "Applications.UpdateApplication"},
                              "appengine.googleapis.com/Application"),
                         Rule({"Versions.CreateVersion", "Versions.UpdateVersion"},
                              "appengine.googleapis.com/Version") >>
  <2>1. /\ call[1] = "appengine.googleapis.com"
        /\ call[2] = IF i = 1 THEN "Applications.UpdateApplication" ELSE "Versions.UpdateVersion"
    <3>1. CASE r.type = "appengine.googleapis.com/Application"
      BY <3>1 DEF UpdateCall, Container
    <3>2. CASE r.type = "appengine.googleapis.com/Version"
      BY <3>2 DEF UpdateCall, Container
    <3> QED BY <1>5, <3>1, <3>2
  <2>2. Classified(e) = AppEngine(e)
    BY <1>0, <2>1 DEF Classified
  <2>3. AppEngine(e) = <<r>>
    <3>1. /\ i \in DOMAIN rules /\ i \in Int /\ rules[i].type = r.type
          /\ call[2] \in rules[i].phrases
          /\ \A j \in DOMAIN rules \ {i} : call[2] \notin rules[j].phrases
      <4>1. DOMAIN rules = 1..2
        OBVIOUS
      <4>2. CASE r.type = "appengine.googleapis.com/Application"
        BY <2>1, <4>1, <4>2 DEF Rule
      <4>3. CASE r.type = "appengine.googleapis.com/Version"
        BY <2>1, <4>1, <4>3 DEF Rule
      <4> QED BY <1>5, <4>2, <4>3
    <3>2. AppEngine(e) = Extract(rules, e)
      BY DEF AppEngine
    <3> HIDE DEF rules, i
    <3> QED BY <1>1, <3>1, <3>2
  <2> QED BY <2>2, <2>3
<1>6. CASE r.type \notin {Container, "run.googleapis.com/Service",
                          "bigquery.googleapis.com/Dataset", "bigquery.googleapis.com/Table",
                          "bigquery.googleapis.com/Model",
                          "appengine.googleapis.com/Application",
                          "appengine.googleapis.com/Version"}
  <2>1. call[1] = "another service"
    BY <1>6 DEF UpdateCall
  <2>2. Classified(e) = <<>>
    BY <1>0, <2>1 DEF Classified
  <2> QED BY <2>2
<1> QED BY <1>2, <1>3, <1>4, <1>5, <1>6

\* What the program publishes of a message's resource is one of the messages.
LEMMA EchoIsMessage ==
  ASSUME NEW e \in Messages, NEW i \in Places(e)
  PROVE  Echo(Extracted[e][i]) \in Messages
<1>1. \A k \in Messages : Extracted[k] = Classified(k)
  BY DEF Extracted
<1>2. CASE e \in UserEvents
  BY <1>1, <1>2 DEF Messages, Places
<1>3. CASE e \notin UserEvents
  <2>0. PICK f \in UserEvents : \E j \in DOMAIN Classified(f) : e = Echo(Classified(f)[j])
    BY <1>3 DEF Messages
  <2>1. PICK j \in DOMAIN Classified(f) : e = Echo(Classified(f)[j])
    BY <2>0
  <2> DEFINE r == Classified(f)[j]
  <2>2. f \in Messages /\ Extracted[f][j] = r /\ j \in Places(f)
    BY <1>1, <2>1 DEF Messages, Places
  <2>3. r = Resource(r.type, r.name, r.project)
    BY <2>2, ExtractedShape
  <2>4. Extracted[e] \in {<<>>, <<r>>}
    <3> HIDE DEF r
    <3> QED BY <1>1, <2>1, <2>3, EchoClassified DEF r
  <2>5. Extracted[e][i] = r
    BY <2>4 DEF Places
  <2> QED BY <2>1, <2>5
<1> QED BY <1>2, <1>3

-----------------------------------------------------------------------------
(* Types, and the way of a request.                                        *)

Inv == TypeOK /\ SlotInv /\ HistoryOK

\* What one request does leaves the locals of the others alone.
Apart(s) == \A t \in Slots \ {s} : UNCHANGED <<pc[t], event[t], lease[t], place[t], status[t]>>

\* The locals of a slot alone decide whether it is in order.
LEMMA OtherSlots ==
  ASSUME SlotInv, NEW s \in Slots, Apart(s), SlotOK(s)'
  PROVE  SlotInv'
<1> SUFFICES ASSUME NEW t \in Slots PROVE SlotOK(t)'
  BY DEF SlotInv
<1>1. CASE t = s
  BY <1>1
<1>2. CASE t # s
  <2>1. UNCHANGED <<pc[t], event[t], lease[t], place[t], status[t]>>
    BY <1>2 DEF Apart
  <2> QED BY <2>1 DEF SlotInv, SlotOK, Current
<1> QED BY <1>1, <1>2

\* Every step is the step of one slot.
LEMMA OneSlot ==
  ASSUME TypeOK, NEW s \in Slots,
         \/ Handle(s) \/ DeadlinePasses(s) \/ Raise(s) \/ Fail(s)
         \/ \E e \in BagToSet(queue) : Deliver(s, e)
         \/ \E e \in acked : DeliverAgain(s, e)
  PROVE  Apart(s)
BY DEF TypeOK, Apart, Handle, DeadlinePasses, Raise, Fail, Deliver, DeliverAgain, Refuse,
       Release, Goto, Receive, Classify, NextResource, EndOfLoop, EvaluateResource, Act,
       Save, AfterSave, Alert, SaveException, Respond

\* A message handed back to Pub/Sub is in its queue.
LEMMA QueueTypes ==
  ASSUME TypeOK, NEW e \in Messages
  PROVE  /\ IsABag(BagAdd(queue, e))
         /\ BagToSet(BagAdd(queue, e)) \subseteq Messages
<1>1. IsABag(queue) /\ DOMAIN queue \subseteq Messages
  BY DEF TypeOK, BagToSet
<1>2. /\ IsABag(BagAdd(queue, e))
      /\ DOMAIN BagAdd(queue, e) = DOMAIN queue \cup {e}
  BY <1>1, AddedCopies
<1> QED BY <1>1, <1>2 DEF BagToSet

\* A push that is not acknowledged leaves the types and the slot in order.
LEMMA RefuseOK ==
  ASSUME Inv, NEW s \in Slots, pc[s] # "idle", Refuse(s), faults' \in 0..MaxFaults,
         UNCHANGED <<acked, evidence, alerts, updates>>
  PROVE  TypeOK' /\ SlotOK(s)' /\ HistoryOK'
<1>1. event[s] \in Messages
  BY DEF Inv, TypeOK
<1>2. IsABag(queue') /\ BagToSet(queue') \subseteq Messages
  BY <1>1, QueueTypes DEF Inv, TypeOK, Refuse
<1>3. /\ pc' \in [Slots -> Steps] /\ event' \in [Slots -> Messages \cup {None}]
      /\ lease' \in [Slots -> BOOLEAN] /\ place' \in [Slots -> Nat]
      /\ status' \in [Slots -> Status \cup {None}]
      /\ \A t \in Slots : (event'[t] = None) = (pc'[t] = "idle")
  BY DEF Inv, TypeOK, Refuse, Release, Goto, Steps
<1>4. TypeOK'
  BY <1>2, <1>3 DEF Inv, TypeOK
<1>5. SlotOK(s)'
  BY DEF Inv, TypeOK, SlotOK, Refuse, Release, Goto
<1>6. HistoryOK'
  BY DEF Inv, HistoryOK
<1> QED BY <1>4, <1>5, <1>6

\* One more row leaves the tables in order.
LEMMA RecordOK ==
  ASSUME Inv, NEW e, NEW type \in Supported \cup {"UNKNOWN"}, NEW st \in Status,
         Record(e, type, st), updates' = updates
  PROVE  /\ IsABag(evidence') /\ \A row \in BagToSet(evidence') : row.status \in Status
         /\ HistoryOK'
<1> DEFINE new == Row(e, type, st)
<1>1. /\ IsABag(evidence') /\ DOMAIN evidence' = DOMAIN evidence \cup {new}
  BY AddedCopies DEF Inv, TypeOK, Record
<1>2. new.type = type /\ new.status = st
  BY DEF Row
<1>3. IsFiniteSet(DOMAIN evidence')
  <2>1. IsFiniteSet(DOMAIN evidence)
    BY DEF Inv, HistoryOK
  <2>2. IsFiniteSet(DOMAIN evidence \cup {new})
    BY <2>1, AddOne
  <2> QED BY <1>1, <2>2
<1> HIDE DEF new
<1> QED BY <1>1, <1>2, <1>3 DEF Inv, TypeOK, HistoryOK, BagToSet

\* Pub/Sub hands out what is there, and takes back what it handed out.
LEMMA PubSubOK ==
  ASSUME Inv, NEW s \in Slots,
         \/ \E e \in BagToSet(queue) : Deliver(s, e)
         \/ \E e \in acked : DeliverAgain(s, e)
         \/ DeadlinePasses(s)
  PROVE  TypeOK' /\ SlotOK(s)' /\ HistoryOK'
<1> USE NoneAssumption, MessageAssumption
<1>1. ASSUME NEW e \in Messages, event' = [event EXCEPT ![s] = e], Goto(s, "receive"),
             lease' = [lease EXCEPT ![s] = TRUE] \/ lease' = lease, pc[s] = "idle",
             IsABag(queue'), BagToSet(queue') \subseteq Messages,
             faults' \in 0..MaxFaults, UNCHANGED <<acked, place, status, evidence, alerts, updates>>
      PROVE  TypeOK' /\ SlotOK(s)' /\ HistoryOK'
  <2>1. TypeOK'
    BY <1>1 DEF Inv, TypeOK, Goto, Steps
  <2>2. SlotOK(s)'
    BY <1>1 DEF Inv, TypeOK, SlotInv, SlotOK, Goto
  <2> QED BY <1>1, <2>1, <2>2 DEF Inv, HistoryOK
<1>2. ASSUME NEW e \in BagToSet(queue), Deliver(s, e)
      PROVE  TypeOK' /\ SlotOK(s)' /\ HistoryOK'
  <2>1. IsABag(queue') /\ BagToSet(queue') \subseteq Messages
    BY <1>2, RemovedCopies DEF Inv, TypeOK, Deliver, BagToSet
  <2> QED BY <1>1, <1>2, <2>1 DEF Inv, TypeOK, Deliver
<1>3. ASSUME NEW e \in acked, DeliverAgain(s, e)
      PROVE  TypeOK' /\ SlotOK(s)' /\ HistoryOK'
  <2>1. e \in Messages /\ IsABag(queue) /\ BagToSet(queue) \subseteq Messages
    BY DEF Inv, TypeOK
  <2>2. faults' \in 0..MaxFaults
    BY <1>3 DEF Inv, TypeOK, DeliverAgain, Fault
  <2> QED BY <1>1, <1>3, <2>1, <2>2 DEF DeliverAgain
<1>4. ASSUME DeadlinePasses(s) PROVE TypeOK' /\ SlotOK(s)' /\ HistoryOK'
  <2>1. pc[s] # "idle" /\ event[s] \in Messages
    BY <1>4 DEF Inv, TypeOK, SlotInv, SlotOK, DeadlinePasses
  <2>2. IsABag(queue') /\ BagToSet(queue') \subseteq Messages
    <3>1. TypeOK /\ queue' = BagAdd(queue, event[s])
      BY <1>4 DEF Inv, DeadlinePasses
    <3> QED BY <2>1, <3>1, QueueTypes
  <2>3. TypeOK'
    BY <1>4, <2>2 DEF Inv, TypeOK, DeadlinePasses, Fault
  <2>4. SlotOK(s)'
    BY <1>4 DEF Inv, TypeOK, SlotInv, SlotOK, DeadlinePasses, Current
  <2> QED BY <1>4, <2>3, <2>4 DEF Inv, HistoryOK, DeadlinePasses
<1> QED BY <1>2, <1>3, <1>4

\* process itself, turn by turn.
LEMMA HandleOK ==
  ASSUME Inv, NEW s \in Slots, Handle(s) \/ Raise(s) \/ Fail(s)
  PROVE  TypeOK' /\ SlotOK(s)' /\ HistoryOK'
<1> USE MessageAssumption
<1>0. /\ TypeOK /\ SlotOK(s) /\ HistoryOK
      /\ pc[s] # "idle"
      /\ event[s] \in Messages
      /\ Len(Extracted[event[s]]) \in Nat /\ Places(event[s]) = 1..Len(Extracted[event[s]])
      /\ place[s] \in Nat
  <2>1. TypeOK /\ SlotOK(s) /\ HistoryOK
    BY DEF Inv, SlotInv
  <2>2. pc[s] # "idle"
    BY DEF Handle, Raise, Fail, Receive, Classify, NextResource, EndOfLoop, EvaluateResource,
           Act, Save, Alert, SaveException, Respond
  <2>3. event[s] \in Messages /\ place[s] \in Nat
    BY <2>1, <2>2 DEF TypeOK
  <2> QED BY <2>1, <2>2, <2>3, ExtractedShape
<1>1. CASE Receive(s)
  <2>1. CASE Unanswerable(event[s])
    <3>1. Refuse(s) /\ UNCHANGED <<acked, evidence, alerts, updates, faults>>
      BY <1>1, <2>1 DEF Receive
    <3>2. faults' \in 0..MaxFaults
      BY <1>0, <3>1 DEF TypeOK
    <3> QED BY <1>0, <3>1, <3>2, RefuseOK
  <2>2. CASE ~Unanswerable(event[s])
    <3>1. TypeOK'
      BY <1>0, <1>1, <2>2 DEF Receive, TypeOK, Goto, Steps
    <3>2. SlotOK(s)'
      BY <1>0, <1>1, <2>2 DEF Receive, TypeOK, SlotOK, Goto
    <3> QED BY <1>0, <1>1, <2>2, <3>1, <3>2 DEF Receive, HistoryOK
  <2> QED BY <2>1, <2>2
<1>2. CASE Classify(s)
  <2>1. TypeOK'
    BY <1>0, <1>2 DEF Classify, TypeOK, Goto, Steps
  <2>2. SlotOK(s)'
    BY <1>0, <1>2 DEF Classify, TypeOK, SlotOK, Goto
  <2> QED BY <1>0, <1>2, <2>1, <2>2 DEF Classify, HistoryOK
<1>3. CASE NextResource(s)
  <2>1. TypeOK'
    BY <1>0, <1>3 DEF NextResource, TypeOK, Goto, Steps, Status
  <2>2. SlotOK(s)'
    BY <1>0, <1>3 DEF NextResource, TypeOK, SlotOK, Goto, Current
  <2> QED BY <1>0, <1>3, <2>1, <2>2 DEF NextResource, HistoryOK
<1>4. CASE EndOfLoop(s)
  <2>1. TypeOK'
    BY <1>0, <1>4 DEF EndOfLoop, TypeOK, Goto, Steps
  <2>2. SlotOK(s)'
    BY <1>0, <1>4 DEF EndOfLoop, TypeOK, SlotOK, Goto
  <2> QED BY <1>0, <1>4, <2>1, <2>2 DEF EndOfLoop, HistoryOK
<1>5. CASE EvaluateResource(s)
  <2>1. TypeOK'
    BY <1>0, <1>5 DEF EvaluateResource, TypeOK, Goto, Steps, Status
  <2>2. SlotOK(s)'
    BY <1>0, <1>5 DEF EvaluateResource, TypeOK, SlotOK, Goto, Current, Labelled
  <2> QED BY <1>0, <1>5, <2>1, <2>2 DEF EvaluateResource, HistoryOK
<1>6. CASE Act(s)
  <2> DEFINE r == Current(s)
  <2>1. /\ place[s] \in Places(event[s]) /\ r.type \in Supported /\ Labelled(r)
        /\ r = Extracted[event[s]][place[s]]
    BY <1>0, <1>6 DEF Act, SlotOK, Current
  <2> HIDE DEF r
  <2>2. /\ IsABag(updates') /\ DOMAIN updates' \subseteq DOMAIN updates \cup {r}
        /\ IsABag(queue') /\ BagToSet(queue') \subseteq Messages
        /\ faults' \in 0..MaxFaults
    <3>1. CASE Updated(r) /\ UNCHANGED faults
      <4>1. IsABag(updates') /\ DOMAIN updates' \subseteq DOMAIN updates \cup {r}
        <5>1. IsABag(updates) /\ updates' = BagAdd(updates, r)
          BY <1>0, <3>1 DEF Updated, TypeOK
        <5> QED BY <5>1, AddedCopies
      <4>2. Echo(r) \in Messages
        BY <1>0, <2>1, EchoIsMessage
      <4>3. IsABag(queue') /\ BagToSet(queue') \subseteq Messages
        <5>1. queue' \in {queue, BagAdd(queue, Echo(r))}
          BY <3>1 DEF Updated
        <5> QED BY <1>0, <4>2, <5>1, QueueTypes DEF TypeOK
      <4> QED BY <1>0, <3>1, <4>1, <4>3 DEF TypeOK
    <3>2. CASE Fault /\ UNCHANGED <<updates, queue>>
      BY <1>0, <3>2 DEF TypeOK, Fault
    <3> QED BY <1>6, <3>1, <3>2 DEF Act, r
  <2>3. TypeOK'
    BY <1>0, <1>6, <2>2 DEF Act, TypeOK, Goto, Steps, Status
  <2>4. SlotOK(s)'
    BY <1>0, <1>6, <2>1 DEF Act, TypeOK, SlotOK, Goto, Current
  <2>5. HistoryOK'
    BY <1>0, <1>6, <2>1, <2>2 DEF Act, HistoryOK
  <2> QED BY <2>3, <2>4, <2>5
<1>7. CASE Save(s)
  <2>1. Current(s).type \in Supported /\ status[s] \in Status
    BY <1>0, <1>7 DEF Save, SlotOK, Status
  <2>2. /\ IsABag(evidence') /\ \A row \in BagToSet(evidence') : row.status \in Status
        /\ HistoryOK'
    BY <1>7, <2>1, RecordOK DEF Save
  <2>3. TypeOK'
    BY <1>0, <1>7, <2>2 DEF Save, AfterSave, TypeOK, Goto, Steps
  <2>4. SlotOK(s)'
    BY <1>0, <1>7 DEF Save, AfterSave, TypeOK, SlotOK, Goto
  <2> QED BY <2>2, <2>3, <2>4
<1>8. CASE Alert(s)
  <2>1. IsABag(alerts') /\ faults' \in 0..MaxFaults
    <3>1. CASE alerts' = BagAdd(alerts, event[s]) /\ UNCHANGED faults
      <4>1. IsABag(alerts)
        BY <1>0 DEF TypeOK
      <4>2. IsABag(alerts')
        BY <3>1, <4>1, AddedCopies
      <4> QED BY <1>0, <3>1, <4>2 DEF TypeOK
    <3>2. CASE Fault /\ UNCHANGED alerts
      BY <1>0, <3>2 DEF TypeOK, Fault
    <3> QED BY <1>8, <3>1, <3>2 DEF Alert
  <2>2. TypeOK'
    BY <1>0, <1>8, <2>1 DEF Alert, TypeOK, Goto, Steps
  <2>3. SlotOK(s)'
    BY <1>0, <1>8 DEF Alert, TypeOK, SlotOK, Goto
  <2> QED BY <1>0, <1>8, <2>2, <2>3 DEF Alert, HistoryOK
<1>9. CASE SaveException(s)
  <2>1. /\ IsABag(evidence') /\ \A row \in BagToSet(evidence') : row.status \in Status
        /\ HistoryOK'
    <3>1. "FAILED" \in Status
      BY DEF Status
    <3> QED BY <1>9, <3>1, RecordOK DEF SaveException
  <2>2. TypeOK'
    BY <1>0, <1>9, <2>1 DEF SaveException, TypeOK, Goto, Steps
  <2>3. SlotOK(s)'
    BY <1>0, <1>9 DEF SaveException, TypeOK, SlotOK, Goto
  <2> QED BY <2>1, <2>2, <2>3
<1>10. CASE Respond(s)
  <2>1. TypeOK'
    BY <1>0, <1>10 DEF Respond, Release, TypeOK, Goto, Steps
  <2>2. SlotOK(s)'
    BY <1>0, <1>10 DEF Respond, Release, TypeOK, SlotOK, Goto
  <2> QED BY <1>0, <1>10, <2>1, <2>2 DEF Respond, HistoryOK
<1>11. CASE Raise(s)
  <2>1. TypeOK'
    BY <1>0, <1>11 DEF Raise, Fault, TypeOK, Goto, Steps
  <2>2. SlotOK(s)'
    BY <1>0, <1>11 DEF Raise, TypeOK, SlotOK, Goto
  <2> QED BY <1>0, <1>11, <2>1, <2>2 DEF Raise, HistoryOK
<1>12. CASE Fail(s)
  <2>1. faults' \in 0..MaxFaults
    BY <1>0, <1>12 DEF Fail, Fault, TypeOK
  <2> QED BY <1>0, <1>12, <2>1, RefuseOK DEF Fail
<1> QED BY <1>1, <1>2, <1>3, <1>4, <1>5, <1>6, <1>7, <1>8, <1>9, <1>10, <1>11, <1>12 DEF Handle

\* What a slot may do.
Step(s) ==
  \/ Handle(s) \/ DeadlinePasses(s) \/ Raise(s) \/ Fail(s)
  \/ \E e \in BagToSet(queue) : Deliver(s, e)
  \/ \E e \in acked : DeliverAgain(s, e)

\* Every step of process and of Pub/Sub preserves the invariant.
LEMMA InvStep == Inv /\ [Next]_vars => Inv'
<1> SUFFICES ASSUME Inv, [Next]_vars PROVE Inv'
  OBVIOUS
<1>1. ASSUME NEW s \in Slots, Step(s) PROVE Inv'
  <2>1. TypeOK' /\ SlotOK(s)' /\ HistoryOK'
    BY <1>1, PubSubOK, HandleOK DEF Step
  <2>2. Apart(s)
    BY <1>1, OneSlot DEF Step, Inv
  <2>3. SlotInv'
    BY <2>1, <2>2, OtherSlots DEF Inv
  <2> QED BY <2>1, <2>3 DEF Inv
<1>2. CASE UNCHANGED vars
  BY <1>2 DEF vars, Inv, TypeOK, SlotInv, SlotOK, HistoryOK, Current
<1> QED BY <1>1, <1>2 DEF Next, Step

\* It holds before the first push,
LEMMA InvInit == Init => Inv
<1> SUFFICES ASSUME Init PROVE Inv
  OBVIOUS
<1> USE MessageAssumption
<1>1. IsABag(queue) /\ BagToSet(queue) \subseteq Messages
  BY DEF Init, SetToBag, IsABag, BagToSet, Messages, UserEvents
<1>2. IsABag(EmptyBag) /\ BagToSet(EmptyBag) = {}
  BY DEF EmptyBag, SetToBag, IsABag, BagToSet
<1>3. TypeOK
  BY <1>1, <1>2 DEF Init, TypeOK, Steps
<1>4. SlotInv
  BY DEF Init, SlotInv, SlotOK
<1>5. HistoryOK
  BY <1>2, EmptyCount DEF Init, HistoryOK, BagToSet
<1> QED BY <1>3, <1>4, <1>5 DEF Inv

\* ... and so in every state.
LEMMA Invariant == Spec => []Inv
BY InvInit, InvStep, PTL DEF Spec

\* Every slot is on a way that process can take, with a message to handle unless it is
\* idle, and the queue of Pub/Sub and the tables hold nothing but messages and rows.
THEOREM TypeCorrect == Spec => []TypeOK
<1>1. Inv => TypeOK
  BY DEF Inv
<1> QED BY <1>1, Invariant, PTL

-----------------------------------------------------------------------------
(* Evidence.                                                               *)

\* Rows are never removed.
EvidenceGrows == evidence' = evidence \/ \E row : evidence' = BagAdd(evidence, row)

\* Each step adds one row, or none.
LEMMA OnlyGrows == Inv /\ [Next]_vars => EvidenceGrows
<1> SUFFICES ASSUME Inv, Next PROVE EvidenceGrows
  BY DEF vars, EvidenceGrows
<1>1. PICK s \in Slots : Step(s)
  BY DEF Next, Step
<1>2. CASE Save(s) \/ SaveException(s)
  BY <1>2 DEF Save, SaveException, Record, EvidenceGrows
<1>3. CASE ~(Save(s) \/ SaveException(s))
  BY <1>1, <1>3 DEF Step, Handle, Receive, Classify, NextResource, EndOfLoop, EvaluateResource,
     Act, Alert, Respond, DeadlinePasses, Raise, Fail, Deliver, DeliverAgain, EvidenceGrows
<1> QED BY <1>2, <1>3

\* Rows of an event are counted in natural numbers,
LEMMA RowsAreCounted ==
  ASSUME Inv, NEW e, NEW type
  PROVE  (\A st : RowsWith(e, type, st) \in Nat) /\ Rows(e, type) \in Nat
<1>1. IsABag(evidence)
  BY DEF Inv, TypeOK
<1>2. \A y : Copies(y, evidence) \in Nat
  BY <1>1, AddedCopies
<1> QED BY <1>2 DEF Rows, RowsWith

\* ... which never fall as long as rows are only added.
LEMMA RowsGrow ==
  ASSUME Inv, EvidenceGrows, NEW e, NEW type
  PROVE  /\ \A st : /\ RowsWith(e, type, st) \in Nat /\ RowsWith(e, type, st)' \in Nat
                    /\ RowsWith(e, type, st)' >= RowsWith(e, type, st)
         /\ Rows(e, type) \in Nat /\ Rows(e, type)' \in Nat
         /\ Rows(e, type)' >= Rows(e, type)
<1>1. IsABag(evidence)
  BY DEF Inv, TypeOK
<1>2. \A y : /\ Copies(y, evidence) \in Nat /\ Copies(y, evidence') \in Nat
             /\ Copies(y, evidence') >= Copies(y, evidence)
  <2>1. \A y : Copies(y, evidence) \in Nat
    BY <1>1, AddedCopies
  <2>2. CASE evidence' = evidence
    BY <2>1, <2>2
  <2>3. ASSUME NEW row, evidence' = BagAdd(evidence, row)
        PROVE  \A y : /\ Copies(y, evidence') \in Nat
                      /\ Copies(y, evidence') >= Copies(y, evidence)
    <3>1. \A y : Copies(y, evidence') = Copies(y, evidence) + (IF y = row THEN 1 ELSE 0)
      BY <1>1, <2>3, AddedCopies
    <3> QED BY <2>1, <3>1
  <2> QED BY <2>1, <2>2, <2>3 DEF EvidenceGrows
<1>3. \A st : /\ RowsWith(e, type, st) \in Nat /\ RowsWith(e, type, st)' \in Nat
              /\ RowsWith(e, type, st)' >= RowsWith(e, type, st)
  BY <1>2 DEF RowsWith
<1> QED BY <1>3 DEF Rows

\* A row counts for its own event, type and status.
LEMMA RecordedStatus ==
  ASSUME Inv, NEW k, NEW t, NEW st, Record(k, t, st), NEW e, NEW type, NEW x
  PROVE  RowsWith(e, type, x)' = IF k = e /\ t = type /\ st = x
                                   THEN RowsWith(e, type, x) + 1 ELSE RowsWith(e, type, x)
<1>1. IsABag(evidence) /\ evidence' = BagAdd(evidence, Row(k, t, st))
  BY DEF Inv, TypeOK, Record
<1>2. \A y : /\ Copies(y, evidence) \in Nat
             /\ Copies(y, evidence') = Copies(y, evidence) + (IF y = Row(k, t, st) THEN 1 ELSE 0)
  BY <1>1, AddedCopies
<1>3. Row(e, type, x) = Row(k, t, st) <=> k = e /\ t = type /\ st = x
  BY DEF Row
<1> QED BY <1>2, <1>3 DEF RowsWith

\* A row counts for its own event and type, and for no other.
LEMMA RecordedRows ==
  ASSUME Inv, NEW k, NEW t, NEW st \in Status, Record(k, t, st), NEW e, NEW type
  PROVE  Rows(e, type)' = IF k = e /\ t = type THEN Rows(e, type) + 1 ELSE Rows(e, type)
<1>1. ASSUME NEW x
      PROVE  RowsWith(e, type, x)' = IF k = e /\ t = type /\ st = x
                                       THEN RowsWith(e, type, x) + 1 ELSE RowsWith(e, type, x)
  BY RecordedStatus
<1>2. \A x : RowsWith(e, type, x) \in Nat
  BY RowsAreCounted
<1> QED BY <1>1, <1>2 DEF Rows, Status

\* Places are finite in number.
LEMMA BelowIsFinite ==
  ASSUME NEW e \in Messages, NEW type, NEW n
  PROVE  IsFiniteSet(Below(e, type, n)) /\ Cardinality(Below(e, type, n)) \in Nat
<1>1. Places(e) = 1..Len(Extracted[e]) /\ Len(Extracted[e]) \in Nat
  BY ExtractedShape
<1>2. IsFiniteSet(Places(e))
  BY <1>1, IntervalIsFinite
<1>3. Below(e, type, n) \subseteq Places(e)
  BY DEF Below, Tracked
<1> QED BY <1>2, <1>3, SubsetCount, CountType

\* So what is processed, or settled, remains so.
LEMMA ProcessedStays ==
  ASSUME Inv, EvidenceGrows, NEW e \in Messages
  PROVE  /\ \A n \in Nat : Processed(e, n) => Processed(e, n)'
         /\ Settled(e) => Settled(e)'
<1>0. \A type, n : Cardinality(Below(e, type, n)) \in Nat
  BY BelowIsFinite
<1>1. ASSUME NEW n \in Nat, Processed(e, n) PROVE Processed(e, n)'
  <2>1. \A type \in Supported : Rows(e, type)' >= Cardinality(Below(e, type, n))
    <3> SUFFICES ASSUME NEW type \in Supported
                 PROVE  Rows(e, type)' >= Cardinality(Below(e, type, n))
      OBVIOUS
    <3>1. Rows(e, type) >= Cardinality(Below(e, type, n))
      BY <1>1 DEF Processed
    <3>2. /\ Rows(e, type) \in Nat /\ Rows(e, type)' \in Nat
          /\ Rows(e, type)' >= Rows(e, type)
      BY RowsGrow
    <3> QED BY <1>0, <3>1, <3>2
  <2>2. \A type : RowsWith(e, type, "SUCCESS") > 0 => RowsWith(e, type, "SUCCESS")' > 0
    <3> SUFFICES ASSUME NEW type, RowsWith(e, type, "SUCCESS") > 0
                 PROVE  RowsWith(e, type, "SUCCESS")' > 0
      OBVIOUS
    <3>1. /\ RowsWith(e, type, "SUCCESS") \in Nat /\ RowsWith(e, type, "SUCCESS")' \in Nat
          /\ RowsWith(e, type, "SUCCESS")' >= RowsWith(e, type, "SUCCESS")
      BY RowsGrow
    <3> QED BY <3>1
  <2> QED BY <1>1, <2>1, <2>2 DEF Processed, Below, Tracked, Places, Labelled
<1>2. FailedWhole(e) => FailedWhole(e)'
  <2>1. /\ RowsWith(e, "UNKNOWN", "FAILED") \in Nat /\ RowsWith(e, "UNKNOWN", "FAILED")' \in Nat
        /\ RowsWith(e, "UNKNOWN", "FAILED")' >= RowsWith(e, "UNKNOWN", "FAILED")
    BY RowsGrow
  <2> QED BY <2>1 DEF FailedWhole
<1>3. Len(Extracted[e]) + 1 \in Nat
  BY ExtractedShape
<1> QED BY <1>1, <1>2, <1>3 DEF Settled

\* Before the first place there is nothing to process.
LEMMA NothingBelow ==
  ASSUME Inv, NEW e \in Messages
  PROVE  Processed(e, 1)
<1>1. Places(e) = 1..Len(Extracted[e]) /\ Len(Extracted[e]) \in Nat
  BY ExtractedShape
<1>2. \A type : Below(e, type, 1) = {}
  BY <1>1 DEF Below, Tracked
<1>3. \A type : Cardinality(Below(e, type, 1)) = 0
  BY <1>2, EmptyCount
<1>4. \A type : Rows(e, type) \in Nat
  BY RowsAreCounted
<1>5. \A i \in Places(e) : ~(i < 1)
  BY <1>1
<1> QED BY <1>3, <1>4, <1>5 DEF Processed

\* A resource that is skipped needs no row.
LEMMA SkippedPlace ==
  ASSUME NEW e \in Messages, NEW n \in Nat, Processed(e, n),
         n \in Places(e) => Extracted[e][n].type \notin Supported
  PROVE  Processed(e, n + 1)
<1>1. Places(e) \subseteq Nat
  BY ExtractedShape
<1>2. \A i \in Places(e) : i < n + 1 <=> i < n \/ i = n
  BY <1>1
<1>3. \A type \in Supported : Below(e, type, n + 1) = Below(e, type, n)
  BY <1>2 DEF Below, Tracked
<1> QED BY <1>2, <1>3 DEF Processed

\* At the end of the loop all places are behind.
LEMMA LastPlace ==
  ASSUME NEW e \in Messages, NEW n \in Nat, n > Len(Extracted[e]), Processed(e, n)
  PROVE  Settled(e)
<1> DEFINE m == Len(Extracted[e]) + 1
<1>1. Places(e) = 1..Len(Extracted[e]) /\ Len(Extracted[e]) \in Nat
  BY ExtractedShape
<1>2. \A i \in Places(e) : i < n /\ i < m
  BY <1>1
<1>3. \A type : Below(e, type, m) = Below(e, type, n)
  BY <1>2 DEF Below, Tracked
<1>4. Processed(e, m)
  <2> HIDE DEF m
  <2> QED BY <1>2, <1>3 DEF Processed
<1> QED BY <1>4 DEF Settled

\* A resource that is saved has its row, and the others keep theirs.
LEMMA SavedPlace ==
  ASSUME Inv, NEW e \in Messages, NEW n \in Places(e), Extracted[e][n].type \in Supported,
         Processed(e, n), NEW st \in Status,
         Record(e, Extracted[e][n].type, st),
         e.seed = "given" /\ Labelled(Extracted[e][n]) => st = "SUCCESS"
  PROVE  Processed(e, n + 1)'
<1> DEFINE t == Extracted[e][n].type
<1>1. Places(e) \subseteq Nat
  BY ExtractedShape
<1>2. \A i \in Places(e) : i < n + 1 <=> i < n \/ i = n
  BY <1>1
<1>3. EvidenceGrows
  BY DEF Record, EvidenceGrows
<1>4. /\ \A type, x :
           RowsWith(e, type, x)' = IF t = type /\ st = x
                                     THEN RowsWith(e, type, x) + 1 ELSE RowsWith(e, type, x)
      /\ \A type : Rows(e, type)' = IF t = type THEN Rows(e, type) + 1 ELSE Rows(e, type)
  BY RecordedStatus, RecordedRows
<1>5. \A type, x : RowsWith(e, type, x) \in Nat
  BY <1>3, RowsGrow
<1>6. ASSUME NEW type \in Supported PROVE Rows(e, type)' >= Cardinality(Below(e, type, n + 1))
  <2>1. Rows(e, type) >= Cardinality(Below(e, type, n)) /\ Rows(e, type) \in Nat
    BY <1>3, <1>6, RowsGrow DEF Processed
  <2>2. IsFiniteSet(Below(e, type, n)) /\ Cardinality(Below(e, type, n)) \in Nat
    BY BelowIsFinite
  <2>3. CASE type = t
    <3>1. Rows(e, type)' = Rows(e, type) + 1
      BY <1>4, <2>3
    <3>2. Below(e, type, n + 1) = Below(e, type, n) \cup {n} /\ n \notin Below(e, type, n)
      BY <1>1, <1>2, <1>6, <2>3 DEF Below, Tracked
    <3>3. Cardinality(Below(e, type, n + 1)) = Cardinality(Below(e, type, n)) + 1
      BY <2>2, <3>2, AddOne
    <3> QED BY <2>1, <2>2, <3>1, <3>3
  <2>4. CASE type # t
    <3>1. Below(e, type, n + 1) = Below(e, type, n)
      BY <1>2, <2>4 DEF Below, Tracked
    <3>2. Rows(e, type)' \in Nat /\ Rows(e, type)' >= Rows(e, type)
      BY <1>3, RowsGrow
    <3> QED BY <2>1, <2>2, <3>1, <3>2
  <2> QED BY <2>3, <2>4
<1>7. ASSUME e.seed = "given", NEW i \in Places(e), i < n + 1,
             Extracted[e][i].type \in Supported, Labelled(Extracted[e][i])
      PROVE  RowsWith(e, Extracted[e][i].type, "SUCCESS")' > 0
  <2>1. CASE i = n
    <3>1. RowsWith(e, t, "SUCCESS")' = RowsWith(e, t, "SUCCESS") + 1
      BY <1>4, <1>7, <2>1
    <3>2. RowsWith(e, t, "SUCCESS") \in Nat
      BY <1>5
    <3> HIDE DEF t
    <3>3. RowsWith(e, t, "SUCCESS")' > 0
      BY <3>1, <3>2
    <3> QED BY <2>1, <3>3 DEF t
  <2>2. CASE i # n
    <3> DEFINE ti == Extracted[e][i].type
    <3>1. RowsWith(e, ti, "SUCCESS") > 0
      BY <1>2, <1>7, <2>2 DEF Processed
    <3>2. /\ RowsWith(e, ti, "SUCCESS") \in Nat /\ RowsWith(e, ti, "SUCCESS")' \in Nat
          /\ RowsWith(e, ti, "SUCCESS")' >= RowsWith(e, ti, "SUCCESS")
      BY <1>3, RowsGrow
    <3> HIDE DEF ti
    <3>3. RowsWith(e, ti, "SUCCESS")' > 0
      BY <3>1, <3>2
    <3> QED BY <3>3 DEF ti
  <2> QED BY <2>1, <2>2
<1> QED BY <1>6, <1>7 DEF Processed, Below, Tracked, Places, Labelled

\* The slot at hand keeps its evidence up to date.
LEMMA EvidenceAtSlot ==
  ASSUME Inv, EvidenceInv, NEW s \in Slots, Step(s)
  PROVE  EvidenceOK(s)'
<1> USE MessageAssumption
<1>0. /\ TypeOK /\ SlotOK(s) /\ EvidenceOK(s) /\ EvidenceGrows
      /\ place[s] \in Nat
      /\ pc[s] # "idle" => event[s] \in Messages
  <2>1. EvidenceGrows
    <3>1. Next
      BY DEF Next, Step
    <3> QED BY <3>1, OnlyGrows
  <2> QED BY <2>1 DEF Inv, TypeOK, SlotInv, EvidenceInv
<1>e. PICK e : e = event[s]
  OBVIOUS
<1>n. PICK n : n = place[s] /\ n \in Nat
  BY <1>0
<1>1. ASSUME pc'[s] \in {"idle", "receive", "classify", "except"} PROVE EvidenceOK(s)'
  BY <1>1 DEF EvidenceOK
<1>2. e \in Messages => /\ \A m \in Nat : Processed(e, m) => Processed(e, m)'
                        /\ Settled(e) => Settled(e)'
  BY <1>0, ProcessedStays
<1>3. ASSUME NEW m, Processed(e, m)', event'[s] = e, place'[s] = m, pc'[s] # "respond"
      PROVE  EvidenceOK(s)'
  BY <1>3 DEF EvidenceOK, Processed, Below, Tracked, Places, Rows, RowsWith, Labelled
<1>4. ASSUME Heard(e) => Settled(e)', event'[s] = e, pc'[s] = "respond"
      PROVE  EvidenceOK(s)'
  <2>1. CASE ~Heard(e)
    BY <1>4, <2>1 DEF EvidenceOK, Heard
  <2>2. CASE Settled(e)'
    BY <1>4, <2>2 DEF EvidenceOK, Settled, FailedWhole, Processed, Below, Tracked, Places, Rows,
                      RowsWith, Labelled, Heard
  <2> QED BY <1>4, <2>1, <2>2
<1>5. CASE Receive(s)
  <2>1. CASE pc'[s] = "idle"
    BY <1>1, <2>1
  <2>2. CASE pc'[s] # "idle"
    <3>1. /\ pc'[s] = IF Heard(event[s]) THEN "classify" ELSE "respond"
          /\ event' = event /\ event[s] \in Messages
      BY <1>0, <1>5, <2>2 DEF Receive, Refuse, Release, Goto, TypeOK
    <3> QED BY <1>e, <1>1, <1>4, <3>1
  <2> QED BY <2>1, <2>2
<1>6. CASE Classify(s)
  <2>1. /\ e \in Messages /\ event'[s] = e /\ place'[s] = 1
        /\ pc'[s] = IF Unclassifiable(e) THEN "except"
                    ELSE IF Extracted[e] = <<>> THEN "respond" ELSE "next"
    BY <1>0, <1>e, <1>6 DEF Classify, Goto, TypeOK
  <2>2. Processed(e, 1)
    BY <2>1, NothingBelow
  <2>3. Extracted[e] = <<>> => Settled(e)
    <3>1. Extracted[e] = <<>> => Len(Extracted[e]) + 1 = 1
      OBVIOUS
    <3> QED BY <2>2, <3>1 DEF Settled
  <2>4. Processed(e, 1)'
    BY <1>2, <2>1, <2>2
  <2>5. CASE pc'[s] = "respond"
    <3>1. Settled(e)'
      BY <1>2, <2>1, <2>3, <2>5
    <3> QED BY <1>4, <2>1, <2>5, <3>1
  <2>6. CASE pc'[s] = "next"
    BY <1>3, <2>1, <2>4, <2>6
  <2> QED BY <1>1, <2>1, <2>5, <2>6
<1>7. CASE NextResource(s)
  <2>1. e \in Messages /\ Processed(e, n) /\ event'[s] = e
    BY <1>0, <1>e, <1>n, <1>7 DEF NextResource, EvidenceOK
  <2>2. CASE Extracted[e][n].type \notin Supported
    <3>1. Processed(e, n + 1)'
      <4>1. Processed(e, n + 1)
        BY <1>n, <2>1, <2>2, SkippedPlace
      <4>2. n + 1 \in Nat
        BY <1>n
      <4> QED BY <1>2, <2>1, <4>1, <4>2
    <3>2. place'[s] = n + 1 /\ pc'[s] = "next"
      BY <1>0, <1>e, <1>n, <1>7, <2>2 DEF NextResource, TypeOK, Current
    <3> QED BY <1>3, <2>1, <3>1, <3>2
  <2>3. CASE Extracted[e][n].type \in Supported
    <3>1. place'[s] = n /\ pc'[s] \in {"except", "save", "evaluate"}
      BY <1>0, <1>e, <1>n, <1>7, <2>3 DEF NextResource, TypeOK, Goto, Current
    <3>2. Processed(e, n)'
      BY <1>n, <1>2, <2>1
    <3> QED BY <1>3, <2>1, <3>1, <3>2
  <2> QED BY <2>2, <2>3
<1>8. CASE EndOfLoop(s)
  <2>1. /\ e \in Messages /\ Processed(e, n) /\ n > Len(Extracted[e])
        /\ event'[s] = e /\ pc'[s] = "respond"
    BY <1>0, <1>e, <1>n, <1>8 DEF EndOfLoop, EvidenceOK, Goto, TypeOK
  <2>2. Settled(e)
    BY <1>n, <2>1, LastPlace
  <2> QED BY <1>2, <1>4, <2>1, <2>2
<1>9. CASE EvaluateResource(s) \/ Act(s) \/ Alert(s)
  <2>1. /\ e \in Messages /\ Processed(e, n)
        /\ event'[s] = e /\ place'[s] = n
        /\ pc'[s] \in {"act", "save", "next"}
    BY <1>0, <1>e, <1>n, <1>9 DEF EvaluateResource, Act, Alert, EvidenceOK, Goto, TypeOK
  <2>2. Processed(e, n)'
    BY <1>n, <1>2, <2>1
  <2> QED BY <1>3, <2>1, <2>2
<1>10. CASE Save(s)
  <2>1. /\ e \in Messages /\ n \in Places(e) /\ Extracted[e][n].type \in Supported
        /\ Processed(e, n) /\ status[s] \in Status
        /\ e.seed = "given" /\ Labelled(Extracted[e][n]) => status[s] = "SUCCESS"
        /\ Record(e, Extracted[e][n].type, status[s])
    BY <1>0, <1>e, <1>n, <1>10 DEF Save, SlotOK, EvidenceOK, Current, Status
  <2>2. PICK st : st = status[s]
    OBVIOUS
  <2>3. /\ event'[s] = e /\ place'[s] = n + 1 /\ pc'[s] \in {"alert", "next"}
        /\ n + 1 \in Nat
    BY <1>0, <1>e, <1>n, <1>10 DEF Save, AfterSave, Goto, TypeOK
  <2>4. Processed(e, n + 1)'
    BY <2>1, <2>2, SavedPlace
  <2> QED BY <1>3, <2>3, <2>4
<1>11. CASE SaveException(s)
  <2>1. /\ e \in Messages /\ event'[s] = e /\ pc'[s] = "respond"
        /\ Record(e, "UNKNOWN", "FAILED")
    BY <1>0, <1>e, <1>11 DEF SaveException, Goto, TypeOK
  <2>2. FailedWhole(e)'
    <3>1. IsABag(evidence) /\ evidence' = BagAdd(evidence, Row(e, "UNKNOWN", "FAILED"))
      BY <1>0, <2>1 DEF TypeOK, Record
    <3>2. /\ Copies(Row(e, "UNKNOWN", "FAILED"), evidence) \in Nat
          /\ Copies(Row(e, "UNKNOWN", "FAILED"), evidence')
               = Copies(Row(e, "UNKNOWN", "FAILED"), evidence) + 1
      BY <3>1, AddedCopies
    <3> QED BY <3>2 DEF FailedWhole, RowsWith
  <2>3. Settled(e)'
    BY <2>2 DEF Settled
  <2> QED BY <1>4, <2>1, <2>3
<1>12. CASE Respond(s) \/ Fail(s) \/ Raise(s)
  <2>1. pc'[s] \in {"idle", "except"}
    BY <1>0, <1>12 DEF Respond, Fail, Raise, Refuse, Release, Goto, TypeOK
  <2> QED BY <1>1, <2>1
<1>13. CASE \E k \in BagToSet(queue) : Deliver(s, k)
  <2>1. pc'[s] = "receive"
    BY <1>0, <1>13 DEF Deliver, Goto, TypeOK
  <2> QED BY <1>1, <2>1
<1>14. CASE \E k \in acked : DeliverAgain(s, k)
  <2>1. pc'[s] = "receive"
    BY <1>0, <1>14 DEF DeliverAgain, Goto, TypeOK
  <2> QED BY <1>1, <2>1
<1>15. CASE DeadlinePasses(s)
  <2>1. UNCHANGED <<pc, event, place, evidence>>
    BY <1>15 DEF DeadlinePasses
  <2> QED BY <1>0, <2>1 DEF EvidenceOK, Settled, FailedWhole, Processed, Below, Tracked, Places,
                            Rows, RowsWith, Labelled, Heard
<1> QED BY <1>5, <1>6, <1>7, <1>8, <1>9, <1>10, <1>11, <1>12, <1>13, <1>14, <1>15
        DEF Step, Handle

\* Evidence of the other slots, and of what was acknowledged, only grows.
LEMMA EvidenceStep == Inv /\ EvidenceInv /\ [Next]_vars => EvidenceInv'
<1> USE MessageAssumption
<1> SUFFICES ASSUME Inv, EvidenceInv, [Next]_vars PROVE EvidenceInv'
  OBVIOUS
<1>1. ASSUME NEW s \in Slots, Step(s) PROVE EvidenceInv'
  <2>1. Next
    BY <1>1 DEF Next, Step
  <2>2. \A e \in Messages : /\ \A n \in Nat : Processed(e, n) => Processed(e, n)'
                            /\ Settled(e) => Settled(e)'
    BY <2>1, OnlyGrows, ProcessedStays
  <2>3. Apart(s)
    BY <1>1, OneSlot DEF Step, Inv
  <2>4. ASSUME NEW t \in Slots, t # s PROVE EvidenceOK(t)'
    <3>1. UNCHANGED <<pc[t], event[t], place[t]>>
      BY <2>3, <2>4 DEF Apart
    <3>2. /\ EvidenceOK(t) /\ place[t] \in Nat
          /\ pc[t] # "idle" => event[t] \in Messages
      BY DEF EvidenceInv, Inv, TypeOK
    <3>3. PICK e : e = event[t]
      OBVIOUS
    <3>4. PICK n \in Nat : n = place[t]
      BY <3>2
    <3>5. pc[t] \in {"next", "evaluate", "act", "save", "alert"} => Processed(e, n)'
      BY <2>2, <3>2, <3>3, <3>4 DEF EvidenceOK
    <3>6. pc[t] = "respond" /\ Heard(e) => Settled(e)'
      BY <2>2, <3>2, <3>3 DEF EvidenceOK
    <3>7. CASE pc[t] = "respond"
      <4>1. event'[t] = e /\ pc'[t] = "respond"
        BY <3>1, <3>3, <3>7
      <4>2. CASE ~Heard(e)
        BY <4>1, <4>2 DEF EvidenceOK, Heard
      <4>3. CASE Settled(e)'
        BY <4>1, <4>3 DEF EvidenceOK, Settled, FailedWhole, Processed, Below, Tracked, Places,
                          Rows, RowsWith, Labelled, Heard
      <4> QED BY <3>6, <3>7, <4>2, <4>3
    <3>8. CASE pc[t] # "respond"
      <4>1. event'[t] = e /\ place'[t] = n /\ pc'[t] = pc[t]
        BY <3>1, <3>3, <3>4
      <4> QED BY <3>5, <3>8, <4>1 DEF EvidenceOK, Processed, Below, Tracked, Places, Rows,
                                      RowsWith, Labelled
    <3> QED BY <3>7, <3>8
  <2>5. \A t \in Slots : EvidenceOK(t)'
    BY <1>1, <2>4, EvidenceAtSlot
  <2>6. ASSUME NEW e \in acked', Heard(e) PROVE Settled(e)'
    <3>1. CASE e \in acked
      BY <2>2, <2>6, <3>1 DEF EvidenceInv, Inv, TypeOK
    <3>2. CASE e \notin acked
      <4>1. Respond(s) /\ e = event[s]
        BY <1>1, <2>6, <3>2 DEF Step, Handle, Receive, Classify, NextResource, EndOfLoop,
           EvaluateResource, Act, Save, Alert, SaveException, Respond, DeadlinePasses, Raise,
           Fail, Deliver, DeliverAgain
      <4>2. Settled(e) /\ e \in Messages
        BY <2>6, <4>1 DEF Respond, EvidenceInv, EvidenceOK, Inv, TypeOK
      <4> QED BY <2>2, <4>2
    <3> QED BY <3>1, <3>2
  <2> QED BY <2>5, <2>6 DEF EvidenceInv, Heard
<1>2. CASE UNCHANGED vars
  BY <1>2 DEF vars, EvidenceInv, EvidenceOK, Settled, FailedWhole, Processed, Below, Tracked,
              Places, Rows, RowsWith, Labelled, Heard
<1> QED BY <1>1, <1>2 DEF Next, Step

\* The evidence keeps up with the loop of every request, in every state.
LEMMA EvidenceInvariant == Spec => [](Inv /\ EvidenceInv)
<1>1. Init => EvidenceInv
  BY DEF Init, EvidenceInv, EvidenceOK
<1> QED BY <1>1, Invariant, EvidenceStep, PTL DEF Spec

\* An event that was acknowledged has a row for each of its supported resources, or one
\* for its failure: no kill, lost insert or failing except branch hides it.
THEOREM AcknowledgedIsAccounted == Spec => []AckedEventAccounted
<1>1. ASSUME Inv, EvidenceInv PROVE AckedEventAccounted
  <2> SUFFICES ASSUME NEW e \in acked, Heard(e), ~FailedWhole(e), NEW type \in Types
               PROVE  Rows(e, type) >= Cardinality(Tracked(e, type))
    BY DEF AckedEventAccounted
  <2>1. e \in Messages /\ Settled(e)
    BY <1>1 DEF Inv, TypeOK, EvidenceInv
  <2>2. CASE type \in Supported
    <3>1. Rows(e, type) >= Cardinality(Below(e, type, Len(Extracted[e]) + 1))
      BY <2>1, <2>2 DEF Settled, Processed
    <3>2. Places(e) = 1..Len(Extracted[e]) /\ Len(Extracted[e]) \in Nat
      BY <2>1, ExtractedShape
    <3>3. \A i \in Places(e) : i < Len(Extracted[e]) + 1
      BY <3>2
    <3>4. Below(e, type, Len(Extracted[e]) + 1) = Tracked(e, type)
      BY <3>3 DEF Below, Tracked
    <3> QED BY <3>1, <3>4
  <2>3. CASE type \notin Supported
    <3>1. Tracked(e, type) = {}
      BY <2>3 DEF Tracked
    <3>2. Cardinality(Tracked(e, type)) = 0 /\ Rows(e, type) \in Nat
      BY <1>1, <3>1, EmptyCount, RowsAreCounted
    <3> QED BY <3>2
  <2> QED BY <2>2, <2>3
<1> QED BY <1>1, EvidenceInvariant, PTL

\* What was updated for an acknowledged event has a SUCCESS row, or the failure of the
\* event has a row: the executor's result is not looked at, but no update is forgotten.
THEOREM UpdatesLeaveEvidence == Spec => []MutationsLeaveEvidence
<1>1. ASSUME Inv, EvidenceInv PROVE MutationsLeaveEvidence
  <2> SUFFICES ASSUME NEW e \in acked \cap UserEvents, Heard(e), e.seed = "given",
                      NEW i \in Places(e), BagIn(Extracted[e][i], updates), ~FailedWhole(e)
               PROVE  RowsWith(e, Extracted[e][i].type, "SUCCESS") > 0
    BY DEF MutationsLeaveEvidence
  <2>1. e \in Messages /\ Settled(e)
    BY <1>1 DEF Inv, TypeOK, EvidenceInv
  <2>2. Extracted[e][i].type \in Supported /\ Labelled(Extracted[e][i])
    BY <1>1 DEF Inv, HistoryOK, BagIn, BagToSet
  <2>3. i < Len(Extracted[e]) + 1
    BY <2>1, ExtractedShape
  <2> QED BY <2>1, <2>2, <2>3 DEF Settled, Processed
<1> QED BY <1>1, EvidenceInvariant, PTL

-----------------------------------------------------------------------------
(* Alerts.                                                                 *)

\* Is slot s about to alert for e?
Waits(s, e) == IF event[s] = e /\ pc[s] = "alert" THEN 1 ELSE 0

\* What one slot does counts once.
LEMMA PendingCount ==
  ASSUME NEW e, NEW s \in Slots, Apart(s)
  PROVE  /\ Cardinality(Pending(e)) \in Nat /\ Cardinality(Pending(e))' \in Nat
         /\ Cardinality(Pending(e))' = Cardinality(Pending(e)) - Waits(s, e) + Waits(s, e)'
<1> USE MessageAssumption
<1> DEFINE others == {t \in Slots \ {s} : event[t] = e /\ pc[t] = "alert"}
<1>1. IsFiniteSet(others) /\ s \notin others
  BY SubsetCount
<1>2. Cardinality(others) \in Nat /\ Cardinality(others \cup {s}) = Cardinality(others) + 1
  BY <1>1, AddOne, CountType
<1>3. Pending(e) = IF Waits(s, e) = 1 THEN others \cup {s} ELSE others
  BY DEF Pending, Waits
<1>4. Pending(e)' = IF Waits(s, e)' = 1 THEN others \cup {s} ELSE others
  <2>1. \A t \in Slots \ {s} : event'[t] = event[t] /\ pc'[t] = pc[t]
    BY DEF Apart
  <2> QED BY <2>1 DEF Pending, Waits
<1>5. Waits(s, e) \in {0, 1} /\ Waits(s, e)' \in {0, 1}
  BY DEF Waits
<1>6. Cardinality(Pending(e)) = Cardinality(others) + Waits(s, e)
  <2> HIDE DEF others
  <2> QED BY <1>2, <1>3, <1>5
<1>7. Cardinality(Pending(e)') = Cardinality(others) + Waits(s, e)'
  <2> HIDE DEF others
  <2> QED BY <1>2, <1>4, <1>5
<1> HIDE DEF others
<1> QED BY <1>2, <1>5, <1>6, <1>7

\* A row counts where it says that the product is missing.
LEMMA FailedCount ==
  ASSUME Inv, NEW e
  PROVE  /\ Failed(e) \in Nat
         /\ evidence' = evidence => Failed(e)' = Failed(e)
         /\ \A k, type, st :
              Record(k, type, st) =>
                Failed(e)' = Failed(e) + (IF k = e /\ st = "FAILED" /\ type # "UNKNOWN"
                                            THEN 1 ELSE 0)
<1>0. IsABag(evidence) /\ IsFiniteSet(DOMAIN evidence)
  BY DEF Inv, TypeOK, HistoryOK
<1>1. Failed(e) \in Nat
  <2>1. FailedRows(e) = DOMAIN evidence \cap FailedRows(e)
    BY DEF FailedRows
  <2>2. SumFunctionOnSet(evidence, DOMAIN evidence \cap FailedRows(e)) \in Nat
    BY <1>0, AddedToSum
  <2> QED BY <2>1, <2>2 DEF Failed
<1>2. ASSUME evidence' = evidence PROVE Failed(e)' = Failed(e)
  BY <1>2 DEF Failed, FailedRows
<1>3. ASSUME NEW k, NEW type, NEW st, Record(k, type, st)
      PROVE  Failed(e)' = Failed(e) + (IF k = e /\ st = "FAILED" /\ type # "UNKNOWN"
                                         THEN 1 ELSE 0)
  <2> DEFINE new == Row(k, type, st)
             P == {row \in DOMAIN evidence \cup {new} :
                     row.event = e /\ row.status = "FAILED" /\ row.type # "UNKNOWN"}
  <2>1. evidence' = BagAdd(evidence, new) /\ DOMAIN evidence' = DOMAIN evidence \cup {new}
    BY <1>0, <1>3, AddedCopies DEF Record
  <2>2. new \in P <=> k = e /\ st = "FAILED" /\ type # "UNKNOWN"
    BY DEF Row
  <2> HIDE DEF new
  <2>3. FailedRows(e) = DOMAIN evidence \cap P /\ FailedRows(e)' = DOMAIN evidence' \cap P
    BY <2>1 DEF FailedRows
  <2> HIDE DEF P
  <2>4. SumFunctionOnSet(evidence', DOMAIN evidence' \cap P)
          = SumFunctionOnSet(evidence, DOMAIN evidence \cap P) + (IF new \in P THEN 1 ELSE 0)
    BY <1>0, <2>1, AddedToSum
  <2> QED BY <2>2, <2>3, <2>4 DEF Failed
<1> QED BY <1>1, <1>2, <1>3

\* What one slot does keeps the account of alerts, of every event.
LEMMA AlertAtSlot ==
  ASSUME Inv, NEW e \in Messages, AlertAccount(e), NEW s \in Slots, Step(s)
  PROVE  AlertAccount(e)'
<1> USE MessageAssumption
<1>0. /\ TypeOK /\ SlotOK(s) /\ faults \in Nat
      /\ Copies(e, alerts) \in Nat
      /\ Cardinality(Pending(e)) \in Nat /\ Cardinality(Pending(e))' \in Nat
      /\ Cardinality(Pending(e))' = Cardinality(Pending(e)) - Waits(s, e) + Waits(s, e)'
      /\ Failed(e) \in Nat
      /\ Waits(s, e) \in {0, 1} /\ Waits(s, e)' \in {0, 1}
  <2>1. TypeOK /\ SlotOK(s) /\ faults \in Nat /\ IsABag(alerts)
    BY DEF Inv, TypeOK, SlotInv
  <2>2. Apart(s)
    BY <2>1, OneSlot DEF Step
  <2>3. Waits(s, e) \in {0, 1} /\ Waits(s, e)' \in {0, 1}
    BY DEF Waits
  <2> QED BY <2>1, <2>2, <2>3, PendingCount, FailedCount, AddedCopies
\* Where a failure is recorded the alert is next; where it is posted, or lost, it is behind.
<1>1. ASSUME Copies(e, alerts)' \in Nat, Failed(e)' \in Nat, faults' \in Nat, faults' >= faults,
             \/ /\ Failed(e)' - Waits(s, e)' = Failed(e) - Waits(s, e)
                /\ Copies(e, alerts)' = Copies(e, alerts)
             \/ /\ Failed(e)' = Failed(e)
                /\ Copies(e, alerts)' - Copies(e, alerts) = Waits(s, e) - Waits(s, e)'
             \/ /\ Failed(e)' = Failed(e) /\ Copies(e, alerts)' = Copies(e, alerts)
                /\ faults' = faults + 1 /\ Waits(s, e)' <= Waits(s, e)
      PROVE  AlertAccount(e)'
  BY <1>0, <1>1 DEF AlertAccount
<1>2. CASE Save(s)
  <2>1. /\ Record(event[s], Current(s).type, status[s])
        /\ Current(s).type # "UNKNOWN"
        /\ Waits(s, e) = 0
        /\ Waits(s, e)' = IF event[s] = e /\ status[s] = "FAILED" THEN 1 ELSE 0
    BY <1>0, <1>2 DEF Save, AfterSave, Goto, SlotOK, Waits, TypeOK
  <2>2. Failed(e)' = Failed(e) + (IF event[s] = e /\ status[s] = "FAILED" THEN 1 ELSE 0)
    BY <2>1, FailedCount
  <2>3. Copies(e, alerts)' = Copies(e, alerts) /\ faults' = faults
    BY <1>2 DEF Save, Copies
  <2> QED BY <1>0, <1>1, <2>1, <2>2, <2>3
<1>3. CASE Alert(s)
  <2>1. evidence' = evidence /\ Waits(s, e) = (IF event[s] = e THEN 1 ELSE 0) /\ Waits(s, e)' = 0
    BY <1>0, <1>3 DEF Alert, Goto, Waits, TypeOK
  <2>2. Failed(e)' = Failed(e)
    BY <2>1, FailedCount
  <2>3. CASE alerts' = BagAdd(alerts, event[s]) /\ faults' = faults
    <3>1. Copies(e, alerts') = Copies(e, alerts) + (IF e = event[s] THEN 1 ELSE 0)
      <4>1. IsABag(alerts) /\ alerts' = BagAdd(alerts, event[s])
        BY <1>0, <2>3 DEF TypeOK
      <4> QED BY <4>1, AddedCopies
    <3>2. Copies(e, alerts)' = Copies(e, alerts') /\ faults' = faults
      BY <2>3 DEF Copies
    <3> QED BY <1>0, <1>1, <2>1, <2>2, <3>1, <3>2
  <2>4. CASE faults' = faults + 1 /\ alerts' = alerts
    <3>1. Copies(e, alerts)' = Copies(e, alerts) /\ faults' = faults + 1
      BY <2>4 DEF Copies
    <3> QED BY <1>0, <1>1, <2>1, <2>2, <3>1
  <2> QED BY <1>3, <2>3, <2>4 DEF Alert, Fault
<1>4. CASE SaveException(s)
  <2>1. /\ Record(event[s], "UNKNOWN", "FAILED") /\ Waits(s, e) = 0 /\ Waits(s, e)' = 0
        /\ Copies(e, alerts)' = Copies(e, alerts) /\ faults' = faults
    BY <1>0, <1>4 DEF SaveException, Goto, Waits, TypeOK, Copies
  <2>2. Failed(e)' = Failed(e)
    BY <1>0, <2>1, FailedCount
  <2> QED BY <1>0, <1>1, <2>1, <2>2
<1>5. CASE Fail(s)
  <2>1. /\ evidence' = evidence /\ Waits(s, e)' = 0
        /\ Copies(e, alerts)' = Copies(e, alerts) /\ faults' = faults + 1
    BY <1>0, <1>5 DEF Fail, Fault, Refuse, Release, Goto, Waits, TypeOK, Copies
  <2>2. Failed(e)' = Failed(e)
    BY <2>1, FailedCount
  <2> QED BY <1>0, <1>1, <2>1, <2>2
<1>6. CASE DeadlinePasses(s)
  <2>1. /\ evidence' = evidence /\ Waits(s, e)' = Waits(s, e)
        /\ Copies(e, alerts)' = Copies(e, alerts) /\ faults' = faults + 1
    BY <1>6 DEF DeadlinePasses, Fault, Waits, Copies
  <2>2. Failed(e)' = Failed(e)
    BY <2>1, FailedCount
  <2> QED BY <1>0, <1>1, <2>1, <2>2
<1>7. CASE \/ Receive(s) \/ Classify(s) \/ NextResource(s) \/ EndOfLoop(s) \/ EvaluateResource(s)
           \/ Act(s) \/ Respond(s) \/ Raise(s)
           \/ \E k \in BagToSet(queue) : Deliver(s, k)
           \/ \E k \in acked : DeliverAgain(s, k)
  <2>1. pc[s] # "alert" /\ evidence' = evidence /\ alerts' = alerts
    BY <1>7 DEF Receive, Classify, NextResource, EndOfLoop, EvaluateResource, Act, Respond, Raise,
                Deliver, DeliverAgain
  <2>2. pc'[s] # "alert"
    BY <1>0, <1>7 DEF Receive, Refuse, Release, Classify, NextResource, EndOfLoop,
       EvaluateResource, Act, Respond, Raise, Deliver, DeliverAgain, Goto, TypeOK
  <2>3. faults' \in {faults, faults + 1}
    BY <1>7 DEF Receive, Classify, NextResource, EndOfLoop, EvaluateResource, Act, Respond, Raise,
                Deliver, DeliverAgain, Fault
  <2>4. Waits(s, e) = 0 /\ Waits(s, e)' = 0 /\ Copies(e, alerts)' = Copies(e, alerts)
    BY <2>1, <2>2 DEF Waits, Copies
  <2>5. Failed(e)' = Failed(e)
    BY <2>1, FailedCount
  <2> QED BY <1>0, <1>1, <2>3, <2>4, <2>5
<1> QED BY <1>2, <1>3, <1>4, <1>5, <1>6, <1>7 DEF Step, Handle

\* The account of alerts holds in every state.
LEMMA AlertInvariant == Spec => [](Inv /\ AlertInv)
<1>1. Init => AlertInv
  <2> SUFFICES ASSUME Init, NEW e \in Messages PROVE AlertAccount(e)
    BY DEF AlertInv
  <2>1. DOMAIN evidence = {} /\ DOMAIN alerts = {}
    BY DEF Init, EmptyBag, SetToBag
  <2>2. Copies(e, alerts) = 0
    BY <2>1 DEF Copies, BagIn, BagToSet
  <2>3. FailedRows(e) = {} /\ Pending(e) = {} /\ faults = 0
    BY <2>1 DEF Init, FailedRows, Pending
  <2>4. Failed(e) = 0 /\ Cardinality(Pending(e)) = 0
    BY <2>3, SumEmpty, EmptyCount DEF Failed
  <2> QED BY <2>2, <2>3, <2>4 DEF AlertAccount
<1>2. ASSUME Inv, AlertInv, [Next]_vars PROVE AlertInv'
  <2>1. ASSUME NEW s \in Slots, Step(s) PROVE AlertInv'
    BY <1>2, <2>1, AlertAtSlot DEF AlertInv
  <2>2. CASE UNCHANGED vars
    BY <1>2, <2>2 DEF vars, AlertInv, AlertAccount, Copies, Failed, FailedRows, Pending
  <2> QED BY <1>2, <2>1, <2>2 DEF Next, Step
<1> QED BY <1>1, <1>2, Invariant, PTL DEF Spec

\* Owners are alerted once for each row that says the product is missing, after the row
\* was written; only a fault loses an alert, and nothing repeats one.
THEOREM AlertsFollowRows == Spec => []AlertsMatchRows
<1>1. ASSUME Inv, AlertInv PROVE AlertsMatchRows
  <2> SUFFICES ASSUME NEW e \in Known
               PROVE  /\ Copies(e, alerts) + Cardinality(Pending(e)) <= Failed(e)
                      /\ Failed(e) <= Copies(e, alerts) + Cardinality(Pending(e)) + faults
    BY DEF AlertsMatchRows, Failed, FailedRows, Pending, BagToSet
  <2>1. e \in Messages
    BY <1>1 DEF Known, Inv, TypeOK
  <2> QED BY <1>1, <2>1 DEF AlertInv, AlertAccount
<1> QED BY <1>1, AlertInvariant, PTL

-----------------------------------------------------------------------------
(* Rows and publications.                                                  *)

\* Products, which the provers take step by step.
LEMMA TimesNext == \A a \in Nat, n \in Nat : a * n \in Nat /\ (a + 1) * n = a * n + n
OBVIOUS

\* Products grow with their factors.
LEMMA TimesGrows == \A a \in Nat, b \in Nat, n \in Nat : a <= b => a * n <= b * n
OBVIOUS

\* A slot comes to each resource once: it leaves one behind with each row.
LEMMA AfterShape ==
  ASSUME NEW e \in Messages, NEW type
  PROVE  /\ Cardinality(Tracked(e, type)) \in Nat
         /\ \A n : Cardinality(After(e, type, n)) \in Nat
         /\ \A n \in {0, 1} : Cardinality(After(e, type, n)) = Cardinality(Tracked(e, type))
         /\ \A n \in Nat :
              /\ Cardinality(After(e, type, n + 1)) <= Cardinality(After(e, type, n))
              /\ n \in Tracked(e, type) => Cardinality(After(e, type, n))
                                             = Cardinality(After(e, type, n + 1)) + 1
<1>1. Places(e) = 1..Len(Extracted[e]) /\ Len(Extracted[e]) \in Nat
  BY ExtractedShape
<1>2. Tracked(e, type) \subseteq 1..Len(Extracted[e])
  BY <1>1 DEF Tracked
<1>3. IsFiniteSet(Tracked(e, type)) /\ Cardinality(Tracked(e, type)) \in Nat
  BY <1>1, <1>2, IntervalIsFinite, SubsetCount, CountType
<1>4. \A n : IsFiniteSet(After(e, type, n)) /\ Cardinality(After(e, type, n)) \in Nat
  <2>1. \A n : After(e, type, n) \subseteq Tracked(e, type)
    BY DEF After
  <2> QED BY <1>3, <2>1, SubsetCount, CountType
<1>5. \A n \in {0, 1} : After(e, type, n) = Tracked(e, type)
  BY <1>2 DEF After
<1>6. ASSUME NEW n \in Nat
      PROVE  /\ Cardinality(After(e, type, n + 1)) <= Cardinality(After(e, type, n))
             /\ n \in Tracked(e, type) => Cardinality(After(e, type, n))
                                            = Cardinality(After(e, type, n + 1)) + 1
  <2>1. \A i \in Tracked(e, type) : i >= n <=> i >= n + 1 \/ i = n
    BY <1>1, <1>2
  <2>2. ~(n >= n + 1)
    OBVIOUS
  <2>3. After(e, type, n + 1) \subseteq After(e, type, n) /\ n \notin After(e, type, n + 1)
    BY <2>1, <2>2 DEF After
  <2>4. n \in Tracked(e, type) => After(e, type, n) = After(e, type, n + 1) \cup {n}
    BY <2>1 DEF After
  <2> QED BY <1>4, <2>3, <2>4, SubsetCount, AddOne
<1> QED BY <1>3, <1>4, <1>5, <1>6

\* The other slots have as much to come as before.
LEMMA ToComeCount ==
  ASSUME Inv, NEW e \in Messages, NEW type, NEW s \in Slots, Apart(s)
  PROVE  /\ ToCome(e, type) \in Nat /\ Left(s, e, type) \in Nat /\ Left(s, e, type)' \in Nat
         /\ ToCome(e, type)' \in Nat
         /\ ToCome(e, type)' = ToCome(e, type) - Left(s, e, type) + Left(s, e, type)'
<1> USE MessageAssumption
<1> DEFINE f == [t \in Slots |-> Left(t, e, type)]
           g == [t \in Slots |-> Left(t, e, type)']
<1>1. \A n : Cardinality(After(e, type, n)) \in Nat
  BY AfterShape
<1>2. \A t \in Slots : Left(t, e, type) \in Nat /\ Left(t, e, type)' \in Nat
  BY <1>1 DEF Left, After, Tracked, Places
<1>3. \A t \in Slots \ {s} : Left(t, e, type)' = Left(t, e, type)
  <2>1. \A t \in Slots \ {s} : event'[t] = event[t] /\ place'[t] = place[t]
    BY DEF Apart
  <2> QED BY <2>1 DEF Left, After, Tracked, Places
<1>4. /\ \A t \in Slots : f[t] \in Nat /\ g[t] \in Nat
      /\ \A t \in Slots \ {s} : f[t] = g[t]
      /\ f[s] = Left(s, e, type) /\ g[s] = Left(s, e, type)'
  BY <1>2, <1>3
<1>5. ToCome(e, type) = SumFunctionOnSet(f, Slots)
      /\ ToCome(e, type)' = SumFunctionOnSet(g, Slots)
  BY DEF ToCome
<1> HIDE DEF f, g
<1>6. IsFiniteSet(Slots \ {s})
  BY SubsetCount
<1>7. /\ SumFunctionOnSet(f, Slots) = f[s] + SumFunctionOnSet(f, Slots \ {s})
      /\ SumFunctionOnSet(g, Slots) = g[s] + SumFunctionOnSet(g, Slots \ {s})
  <2>1. \A t \in Slots : f[t] \in Int /\ g[t] \in Int
    BY <1>4
  <2> QED BY <2>1, SumWithout
<1>8. SumFunctionOnSet(f, Slots \ {s}) = SumFunctionOnSet(g, Slots \ {s})
  BY <1>4, <1>6, SumSame
<1>9. SumFunctionOnSet(f, Slots \ {s}) \in Nat
  <2>1. \A t \in Slots \ {s} : f[t] \in Nat /\ f[t] \in Int
    BY <1>4
  <2> QED BY <1>6, <2>1, SumType
<1> QED BY <1>4, <1>5, <1>7, <1>8, <1>9

\* The rows to come are a natural number,
LEMMA ToComeType ==
  ASSUME NEW e \in Messages, NEW type
  PROVE  ToCome(e, type) \in Nat
<1> USE MessageAssumption
<1>1. \A s \in Slots : Left(s, e, type) \in Nat
  BY AfterShape DEF Left
<1> DEFINE f == [s \in Slots |-> Left(s, e, type)]
<1>2. \A s \in Slots : f[s] \in Nat /\ f[s] \in Int
  BY <1>1
<1> HIDE DEF f
<1>3. SumFunctionOnSet(f, Slots) \in Nat
  BY <1>2, SumType
<1> QED BY <1>3 DEF ToCome, f

\* What the queue owes changes with its copies.
LEMMA OwedCount ==
  ASSUME Inv, NEW e \in Messages, NEW type
  PROVE  LET N == Cardinality(Tracked(e, type))
         IN /\ Owed(e, type) \in Nat
            /\ queue' = queue => Owed(e, type)' = Owed(e, type)
            /\ \A k : queue' = BagAdd(queue, k) =>
                 Owed(e, type)' = Owed(e, type) + (IF k = e THEN N ELSE 0)
            /\ \A k \in DOMAIN queue : queue' = BagRemove(queue, k) =>
                 /\ Owed(e, type)' \in Nat
                 /\ Owed(e, type) = Owed(e, type)' + (IF k = e THEN N ELSE 0)
<1> DEFINE N == Cardinality(Tracked(e, type))
<1>1. IsABag(queue)
  BY DEF Inv, TypeOK
<1>2. N \in Nat
  BY AfterShape
<1>3. /\ Owed(e, type) = Copies(e, queue) * N
      /\ Owed(e, type)' = Copies(e, queue') * N
  BY DEF Owed, Copies, Tracked, Places
<1> HIDE DEF N
<1>4. \A y : Copies(y, queue) \in Nat
  BY <1>1, AddedCopies
<1>5. Owed(e, type) \in Nat
  BY <1>2, <1>3, <1>4, TimesNext
<1>6. ASSUME NEW k, queue' = BagAdd(queue, k)
      PROVE  Owed(e, type)' = Owed(e, type) + (IF k = e THEN N ELSE 0)
  <2>1. Copies(e, queue') = Copies(e, queue) + (IF k = e THEN 1 ELSE 0)
    BY <1>1, <1>6, AddedCopies
  <2>2. k = e => Owed(e, type)' = (Copies(e, queue) + 1) * N
    BY <1>3, <2>1
  <2>3. k # e => Owed(e, type)' = Owed(e, type)
    BY <1>3, <1>4, <2>1
  <2> QED BY <1>2, <1>3, <1>4, <1>5, <2>2, <2>3, TimesNext
<1>7. ASSUME NEW k \in DOMAIN queue, queue' = BagRemove(queue, k)
      PROVE  /\ Owed(e, type)' \in Nat
             /\ Owed(e, type) = Owed(e, type)' + (IF k = e THEN N ELSE 0)
  <2>1. /\ Copies(e, queue') = Copies(e, queue) - (IF e = k THEN 1 ELSE 0)
        /\ Copies(e, queue') \in Nat
    BY <1>1, <1>7, RemovedCopies
  <2>2. k = e => Copies(e, queue) = Copies(e, queue') + 1
    BY <1>4, <2>1
  <2>3. k = e => Owed(e, type) = (Copies(e, queue') + 1) * N
    BY <1>3, <2>2
  <2>4. k # e => Owed(e, type)' = Owed(e, type)
    BY <1>3, <1>4, <2>1
  <2>5. Copies(e, queue') * N \in Nat /\ (Copies(e, queue') + 1) * N = Copies(e, queue') * N + N
    BY <1>2, <2>1, TimesNext
  <2> QED BY <1>2, <1>3, <1>5, <2>3, <2>4, <2>5
<1>8. queue' = queue => Owed(e, type)' = Owed(e, type)
  BY <1>3
<1> QED BY <1>5, <1>6, <1>7, <1>8 DEF N

\* ... and so are those there may be.
LEMMA DueType ==
  ASSUME Inv, NEW e \in Messages, NEW type
  PROVE  Due(e, type) \in Nat
<1>1. IsABag(updates) /\ faults \in Nat
  BY DEF Inv, TypeOK
<1>2. \A y : Copies(y, updates) \in Nat
  BY <1>1, AddedCopies
<1>3. Published(e) \in Nat
  BY <1>2 DEF Published
<1> DEFINE N == Cardinality(Tracked(e, type))
           x == Published(e) + faults
<1>4. N \in Nat /\ x \in Nat
  BY <1>1, <1>3, AfterShape
<1> HIDE DEF N, x
<1>5. x * N \in Nat
  BY <1>4, TimesNext
<1> QED BY <1>5 DEF Due, N, x

\* What is due never falls, and rises with a fault and with a publication.
LEMMA DueCount ==
  ASSUME Inv, NEW e \in Messages, NEW type,
         faults' \in Nat, faults' >= faults,
         updates' = updates \/ \E r : updates' = BagAdd(updates, r)
  PROVE  LET N == Cardinality(Tracked(e, type))
         IN /\ Due(e, type) \in Nat /\ Due(e, type)' \in Nat
            /\ Due(e, type)' >= Due(e, type)
            /\ faults' > faults => Due(e, type)' >= Due(e, type) + N
            /\ Published(e)' > Published(e) => Due(e, type)' >= Due(e, type) + N
<1> DEFINE N == Cardinality(Tracked(e, type))
<1>1. N \in Nat
  BY AfterShape
<1>2. IsABag(updates) /\ faults \in Nat
  BY DEF Inv, TypeOK
<1>3. \A y : /\ Copies(y, updates) \in Nat /\ Copies(y, updates') \in Nat
             /\ Copies(y, updates') >= Copies(y, updates)
  <2>1. \A y : Copies(y, updates) \in Nat
    BY <1>2, AddedCopies
  <2>2. ASSUME NEW r, updates' = BagAdd(updates, r), NEW y
        PROVE  Copies(y, updates') \in Nat /\ Copies(y, updates') >= Copies(y, updates)
    <3>1. Copies(y, updates') = Copies(y, updates) + (IF y = r THEN 1 ELSE 0)
      BY <1>2, <2>2, AddedCopies
    <3> QED BY <2>1, <3>1
  <2> QED BY <2>1, <2>2
<1>p. PICK p : p = Published(e)
  OBVIOUS
<1>q. PICK q : q = Published(e)'
  OBVIOUS
<1>4. p \in Nat /\ q \in Nat /\ q >= p
  BY <1>3, <1>p, <1>q DEF Published, Extracted
<1>f. PICK f : f = faults
  OBVIOUS
<1>g. PICK g : g = faults'
  OBVIOUS
<1> DEFINE x == p + f
           y == q + g
<1>5. Due(e, type) = x * N /\ Due(e, type)' = y * N
  BY <1>p, <1>q, <1>f, <1>g DEF Due, Tracked, Places
<1> HIDE DEF N
<1>6. /\ x \in Nat /\ y \in Nat /\ x <= y
      /\ g > f \/ q > p => x + 1 <= y
  <2>1. f \in Nat /\ g \in Nat /\ f <= g
    BY <1>2, <1>f, <1>g
  <2> QED BY <1>4, <2>1
<1> HIDE DEF x, y
<1>7. x * N \in Nat /\ y * N \in Nat /\ x * N <= y * N
  BY <1>1, <1>6, TimesNext, TimesGrows
<1>8. ASSUME g > f \/ q > p PROVE y * N >= x * N + N
  <2>1. (x + 1) * N <= y * N
    BY <1>1, <1>6, <1>8, TimesGrows
  <2> QED BY <1>1, <1>6, <2>1, TimesNext
<1> QED BY <1>p, <1>q, <1>f, <1>g, <1>5, <1>7, <1>8 DEF N

\* What one slot does keeps the account of rows, of every event and type.
LEMMA RowAtSlot ==
  ASSUME Inv, NEW e \in Messages, NEW type \in Supported, RowAccount(e, type),
         NEW s \in Slots, Step(s)
  PROVE  RowAccount(e, type)'
<1> USE NoneAssumption
<1> DEFINE N == Cardinality(Tracked(e, type))
<1>0. /\ TypeOK /\ SlotOK(s) /\ HistoryOK /\ faults \in Nat
      /\ N \in Nat
      /\ ToCome(e, type) \in Nat /\ ToCome(e, type)' \in Nat
      /\ Left(s, e, type) \in Nat /\ Left(s, e, type)' \in Nat
      /\ ToCome(e, type)' = ToCome(e, type) - Left(s, e, type) + Left(s, e, type)'
      /\ Rows(e, type) \in Nat
      /\ Owed(e, type) \in Nat
  <2>1. TypeOK /\ SlotOK(s) /\ HistoryOK /\ faults \in Nat
    BY DEF Inv, TypeOK, SlotInv
  <2>2. Apart(s)
    BY <2>1, OneSlot DEF Step
  <2> QED BY <2>1, <2>2, AfterShape, ToComeCount, RowsAreCounted, OwedCount
\* What the slot gives back or writes it had taken before, or a fault pays for it.
<1>1. ASSUME Rows(e, type)' \in Nat, Owed(e, type)' \in Nat,
             Due(e, type) \in Nat, Due(e, type)' \in Nat,
             Rows(e, type)' + Left(s, e, type)' + Owed(e, type)' + Due(e, type)
               <= Rows(e, type) + Left(s, e, type) + Owed(e, type) + Due(e, type)'
      PROVE  RowAccount(e, type)'
  BY <1>0, <1>1 DEF RowAccount
<1>2. evidence' = evidence => Rows(e, type)' = Rows(e, type)
  BY DEF Rows, RowsWith
<1>3. updates' = updates /\ faults' = faults =>
        Due(e, type) \in Nat /\ Due(e, type)' = Due(e, type)
  <2>1. Due(e, type) \in Nat
    BY DueType
  <2> QED BY <2>1 DEF Due, Published, Tracked, Places
<1>4. updates' = updates /\ faults' = faults + 1 =>
        Due(e, type) \in Nat /\ Due(e, type)' \in Nat /\ Due(e, type)' >= Due(e, type) + N
  <2>1. faults + 1 \in Nat /\ faults + 1 >= faults /\ faults + 1 > faults
    BY <1>0
  <2> QED BY <2>1, DueCount
<1>5. /\ Left(s, e, type) = IF event[s] = e THEN Cardinality(After(e, type, place[s])) ELSE 0
      /\ Left(s, e, type)' = IF event'[s] = e THEN Cardinality(After(e, type, place'[s])) ELSE 0
  BY DEF Left, After, Tracked, Places
<1>6. event'[s] = event[s] /\ place'[s] = place[s] => Left(s, e, type)' = Left(s, e, type)
  BY <1>5
<1>7. \A n \in {0, 1} : Cardinality(After(e, type, n)) = N
  BY AfterShape
<1>8. queue' = queue => Owed(e, type)' = Owed(e, type)
  BY OwedCount
<1>9. \A k : queue' = BagAdd(queue, k) =>
        Owed(e, type)' = Owed(e, type) + (IF k = e THEN N ELSE 0)
  BY OwedCount
<1> HIDE DEF N
\* Requests that leave the queue and the tables alone.
<1>10. ASSUME queue' = queue, evidence' = evidence, updates' = updates,
              faults' \in {faults, faults + 1}, Left(s, e, type)' <= Left(s, e, type)
       PROVE  RowAccount(e, type)'
  BY <1>0, <1>1, <1>2, <1>3, <1>4, <1>8, <1>10
<1>11. CASE Receive(s)
  <2>0. evidence' = evidence /\ updates' = updates /\ faults' = faults
    BY <1>11 DEF Receive
  <2>1. CASE Unanswerable(event[s])
    <3>1. /\ queue' = IF lease[s] THEN BagAdd(queue, event[s]) ELSE queue
          /\ event'[s] = None /\ place[s] = 0
      BY <1>0, <1>11, <2>1 DEF Receive, Refuse, Release, TypeOK, SlotOK
    <3>2. /\ Left(s, e, type)' = 0
          /\ Left(s, e, type) = IF event[s] = e THEN N ELSE 0
      BY <1>5, <1>7, <3>1
    <3>3. Owed(e, type)' \in {Owed(e, type), Owed(e, type) + (IF event[s] = e THEN N ELSE 0)}
      BY <1>8, <1>9, <3>1
    <3> QED BY <1>0, <1>1, <1>2, <1>3, <2>0, <3>2, <3>3
  <2>2. CASE ~Unanswerable(event[s])
    <3>1. UNCHANGED <<queue, event, place>>
      BY <1>11, <2>2 DEF Receive
    <3> QED BY <1>0, <1>6, <1>10, <2>0, <3>1
  <2> QED BY <2>1, <2>2
<1>12. CASE Classify(s)
  <2>1. /\ UNCHANGED <<queue, evidence, updates, faults, event>>
        /\ place[s] = 0 /\ place'[s] = 1
    BY <1>0, <1>12 DEF Classify, TypeOK, SlotOK
  <2>2. Left(s, e, type)' = Left(s, e, type)
    BY <1>5, <1>7, <2>1
  <2> QED BY <1>0, <1>10, <2>1, <2>2
<1>13. CASE NextResource(s)
  <2>1. /\ UNCHANGED <<queue, evidence, updates, faults, event>>
        /\ place[s] \in Nat /\ place'[s] \in {place[s], place[s] + 1}
    BY <1>0, <1>13 DEF NextResource, TypeOK
  <2>2. Left(s, e, type)' <= Left(s, e, type)
    <3>1. \A n \in Nat : /\ Cardinality(After(e, type, n + 1)) <= Cardinality(After(e, type, n))
                         /\ Cardinality(After(e, type, n)) \in Nat
      BY AfterShape
    <3> QED BY <1>0, <1>5, <2>1, <3>1
  <2> QED BY <1>10, <2>1, <2>2
<1>14. CASE EndOfLoop(s) \/ EvaluateResource(s) \/ Raise(s) \/ Alert(s)
  <2>1. /\ UNCHANGED <<queue, evidence, updates, event, place>>
        /\ faults' \in {faults, faults + 1}
    BY <1>14 DEF EndOfLoop, EvaluateResource, Raise, Alert, Fault
  <2> QED BY <1>0, <1>6, <1>10, <2>1
<1>15. CASE Act(s)
  <2>1. UNCHANGED <<evidence, event, place>>
    BY <1>15 DEF Act
  <2>2. Left(s, e, type)' = Left(s, e, type) /\ Rows(e, type)' = Rows(e, type)
    BY <1>2, <1>6, <2>1
  <2>3. CASE Updated(Current(s)) /\ faults' = faults
    <3>1. PICK r : r = Current(s)
      OBVIOUS
    <3>2. /\ updates' = BagAdd(updates, r)
          /\ queue' = queue \/ queue' = BagAdd(queue, Echo(r))
      BY <2>3, <3>1 DEF Updated
    <3>3. /\ Due(e, type) \in Nat /\ Due(e, type)' \in Nat /\ Due(e, type)' >= Due(e, type)
          /\ Published(e)' > Published(e) => Due(e, type)' >= Due(e, type) + N
      <4>1. faults' \in Nat /\ faults' >= faults
        BY <1>0, <2>3
      <4> QED BY <3>2, <4>1, DueCount DEF N
    <3>4. CASE queue' = BagAdd(queue, Echo(r)) /\ Echo(r) = e
      <4>1. r = Resource(r.type, r.name, r.project)
        <5>1. event[s] \in Messages /\ place[s] \in Places(event[s])
          BY <1>0, <1>15 DEF Act, TypeOK, SlotOK
        <5> QED BY <3>1, <5>1, ExtractedShape DEF Current
      <4>2. Extracted[e] \in {<<>>, <<r>>}
        BY <3>4, <4>1, EchoClassified DEF Extracted
      <4>3. CASE Extracted[e] = <<>>
        <5>1. Tracked(e, type) = {}
          BY <4>3 DEF Tracked, Places
        <5>2. N = 0
          BY <5>1, EmptyCount DEF N
        <5>3. Owed(e, type)' = Owed(e, type)
          BY <1>0, <1>9, <3>4, <5>2
        <5> QED BY <1>0, <1>1, <2>2, <3>3, <5>3
      <4>4. CASE Extracted[e] = <<r>>
        <5>1. /\ e.by = "engine" /\ e.name = r.name /\ e.project = r.project
              /\ Extracted[e][1].type = r.type
          BY <3>4, <4>4 DEF Echo
        <5>2. Published(e) = Copies(r, updates) /\ Published(e)' = Copies(r, updates')
          BY <4>1, <5>1 DEF Published, Extracted, Copies
        <5>3. IsABag(updates)
          BY <1>0 DEF TypeOK
        <5>4. Copies(r, updates) \in Nat /\ Copies(r, updates') = Copies(r, updates) + 1
          BY <3>2, <5>3, AddedCopies
        <5>5. Due(e, type)' >= Due(e, type) + N
          BY <3>3, <5>2, <5>4
        <5>6. Owed(e, type)' = Owed(e, type) + N
          BY <1>9, <3>4
        <5> QED BY <1>0, <1>1, <2>2, <3>3, <5>5, <5>6
      <4> QED BY <4>2, <4>3, <4>4
    <3>5. CASE ~(queue' = BagAdd(queue, Echo(r)) /\ Echo(r) = e)
      <4>1. Owed(e, type)' = Owed(e, type)
        BY <1>0, <1>8, <1>9, <3>2, <3>5
      <4> QED BY <1>0, <1>1, <2>2, <3>3, <4>1
    <3> QED BY <3>4, <3>5
  <2>4. CASE Fault /\ UNCHANGED <<updates, queue>>
    BY <1>0, <1>10, <2>1, <2>2, <2>4 DEF Fault
  <2> QED BY <1>15, <2>3, <2>4 DEF Act
<1>16. CASE Save(s)
  <2>1. PICK k : k = event[s]
    OBVIOUS
  <2>2. PICK n \in Nat : n = place[s]
    BY <1>0 DEF TypeOK
  <2>3. PICK st, t : st = status[s] /\ t = Extracted[k][n].type
    OBVIOUS
  <2>4. /\ Record(k, t, st) /\ st \in Status
        /\ n \in Places(k) /\ k \in Messages
        /\ UNCHANGED <<queue, event, updates, faults>> /\ place'[s] = n + 1
    BY <1>0, <1>16, <2>1, <2>2, <2>3
    DEF Save, AfterSave, Goto, Current, TypeOK, SlotOK, Status
  <2>5. Rows(e, type)' = IF k = e /\ t = type
                           THEN Rows(e, type) + 1 ELSE Rows(e, type)
    <3>1. Record(k, t, st) /\ st \in Status
      BY <2>4
    <3> QED BY <3>1, RecordedRows
  <2>6. Rows(e, type)' + Left(s, e, type)' <= Rows(e, type) + Left(s, e, type)
    <3>1. /\ Cardinality(After(e, type, n + 1)) <= Cardinality(After(e, type, n))
          /\ n \in Tracked(e, type) => Cardinality(After(e, type, n))
                                         = Cardinality(After(e, type, n + 1)) + 1
          /\ Cardinality(After(e, type, n + 1)) \in Nat
          /\ Cardinality(After(e, type, n)) \in Nat
      BY AfterShape
    <3>2. k = e /\ t = type => n \in Tracked(e, type)
      BY <2>3, <2>4 DEF Tracked
    <3>3. CASE k = e
      <4>1. /\ Left(s, e, type) = Cardinality(After(e, type, n))
            /\ Left(s, e, type)' = Cardinality(After(e, type, n + 1))
        BY <1>5, <2>1, <2>2, <2>4, <3>3
      <4> QED BY <1>0, <2>5, <3>1, <3>2, <3>3, <4>1
    <3>4. CASE k # e
      <4>1. Left(s, e, type) = 0 /\ Left(s, e, type)' = 0
        BY <1>5, <2>1, <2>4, <3>4
      <4> QED BY <1>0, <2>5, <3>4, <4>1
    <3> QED BY <3>3, <3>4
  <2>7. Rows(e, type)' \in Nat
    BY <1>0, <2>5
  <2> QED BY <1>0, <1>1, <1>3, <1>8, <2>4, <2>6, <2>7
<1>17. CASE SaveException(s)
  <2>1. PICK k : k = event[s]
    OBVIOUS
  <2>2. /\ Record(k, "UNKNOWN", "FAILED") /\ "FAILED" \in Status
        /\ UNCHANGED <<queue, event, place, updates, faults>>
    BY <1>17, <2>1 DEF SaveException, Status
  <2>3. type # "UNKNOWN"
    BY MessageAssumption
  <2>4. Rows(e, type)' = Rows(e, type)
    BY <2>2, <2>3, RecordedRows
  <2> QED BY <1>0, <1>1, <1>3, <1>6, <1>8, <2>2, <2>4
<1>18. CASE Respond(s)
  <2>1. UNCHANGED <<queue, evidence, updates, faults>> /\ event'[s] = None
    BY <1>0, <1>18 DEF Respond, Release, TypeOK
  <2>2. Left(s, e, type)' = 0
    BY <1>5, <2>1
  <2> QED BY <1>0, <1>10, <2>1, <2>2
<1>19. CASE DeadlinePasses(s)
  <2>1. /\ UNCHANGED <<evidence, updates, event, place>> /\ faults' = faults + 1
        /\ queue' = BagAdd(queue, event[s])
    BY <1>19 DEF DeadlinePasses, Fault
  <2>2. Owed(e, type)' = Owed(e, type) + (IF event[s] = e THEN N ELSE 0)
    BY <1>9, <2>1
  <2>3. Due(e, type) \in Nat /\ Due(e, type)' \in Nat /\ Due(e, type)' >= Due(e, type) + N
    BY <1>4, <2>1
  <2>4. Left(s, e, type)' = Left(s, e, type) /\ Rows(e, type)' = Rows(e, type)
    BY <1>2, <1>6, <2>1
  <2> QED BY <1>0, <1>1, <2>2, <2>3, <2>4
<1>20. CASE Fail(s)
  <2>1. /\ UNCHANGED <<evidence, updates>> /\ faults' = faults + 1 /\ event'[s] = None
        /\ queue' = IF lease[s] THEN BagAdd(queue, event[s]) ELSE queue
    BY <1>0, <1>20 DEF Fail, Fault, Refuse, Release, TypeOK
  <2>2. Owed(e, type)' \in {Owed(e, type), Owed(e, type) + (IF event[s] = e THEN N ELSE 0)}
    BY <1>8, <1>9, <2>1
  <2>3. Due(e, type) \in Nat /\ Due(e, type)' \in Nat /\ Due(e, type)' >= Due(e, type) + N
    BY <1>4, <2>1
  <2>4. Left(s, e, type)' = 0 /\ Rows(e, type)' = Rows(e, type)
    BY <1>2, <1>5, <2>1
  <2> QED BY <1>0, <1>1, <2>2, <2>3, <2>4
<1>21. ASSUME NEW k \in BagToSet(queue), Deliver(s, k) PROVE RowAccount(e, type)'
  <2>1. /\ UNCHANGED <<evidence, updates, faults>>
        /\ k \in DOMAIN queue /\ queue' = BagRemove(queue, k)
        /\ event[s] = None /\ event'[s] = k /\ place'[s] = 0
    BY <1>0, <1>21 DEF Deliver, TypeOK, SlotOK, BagToSet
  <2>2. /\ Owed(e, type)' \in Nat
        /\ Owed(e, type) = Owed(e, type)' + (IF k = e THEN N ELSE 0)
    BY <2>1, OwedCount DEF N
  <2>3. Left(s, e, type) = 0 /\ Left(s, e, type)' = IF k = e THEN N ELSE 0
    BY <1>5, <1>7, <2>1
  <2> QED BY <1>0, <1>1, <1>2, <1>3, <2>1, <2>2, <2>3
<1>22. ASSUME NEW k \in acked, DeliverAgain(s, k) PROVE RowAccount(e, type)'
  <2>1. /\ UNCHANGED <<queue, evidence, updates>> /\ faults' = faults + 1
        /\ event[s] = None /\ event'[s] = k /\ place'[s] = 0
    BY <1>0, <1>22 DEF DeliverAgain, Fault, TypeOK, SlotOK
  <2>2. Due(e, type) \in Nat /\ Due(e, type)' \in Nat /\ Due(e, type)' >= Due(e, type) + N
    BY <1>4, <2>1
  <2>3. Left(s, e, type) = 0 /\ Left(s, e, type)' = IF k = e THEN N ELSE 0
    BY <1>5, <1>7, <2>1
  <2>4. Owed(e, type)' = Owed(e, type) /\ Rows(e, type)' = Rows(e, type)
    BY <1>2, <1>8, <2>1
  <2> QED BY <1>0, <1>1, <2>2, <2>3, <2>4
<1> QED BY <1>11, <1>12, <1>13, <1>14, <1>15, <1>16, <1>17, <1>18, <1>19, <1>20, <1>21, <1>22
        DEF Step, Handle

\* The account of rows holds in every state.
LEMMA RowInvariant == Spec => [](Inv /\ RowInv)
<1>1. ASSUME Inv, Init PROVE RowInv
  <2> SUFFICES ASSUME NEW e \in Messages, NEW type \in Supported PROVE RowAccount(e, type)
    BY DEF RowInv
  <2> USE NoneAssumption, MessageAssumption
  <2> DEFINE N == Cardinality(Tracked(e, type))
             f == [s \in Slots |-> Left(s, e, type)]
  <2>0. N \in Nat
    BY AfterShape
  <2>1. DOMAIN evidence = {} /\ faults = 0
    BY <1>1 DEF Init, EmptyBag, SetToBag
  <2>2. Rows(e, type) = 0
    BY <2>1 DEF Rows, RowsWith, Copies, BagIn, BagToSet
  <2>3. ToCome(e, type) = 0
    <3>1. \A s \in Slots : f[s] = 0
      BY <1>1 DEF Init, Left
    <3>2. ToCome(e, type) = SumFunctionOnSet(f, Slots)
      BY DEF ToCome
    <3> HIDE DEF f
    <3>3. SumFunctionOnSet(f, Slots) = Cardinality({s \in Slots : f[s] = 1})
      BY <3>1, SumOfBits
    <3>4. {s \in Slots : f[s] = 1} = {}
      BY <3>1
    <3> QED BY <3>2, <3>3, <3>4, EmptyCount
  <2>4. Copies(e, queue) \in Nat /\ Published(e) \in Nat /\ Copies(e, queue) <= Published(e)
    <3>1. PICK batch \in Batches : queue = SetToBag(batch)
      BY <1>1 DEF Init
    <3>2. Copies(e, queue) = IF e \in batch THEN 1 ELSE 0
      BY <3>1 DEF Copies, SetToBag, BagIn, BagToSet
    <3>3. e \in batch => e.by = "user"
      BY <3>1 DEF UserEvents
    <3>4. IsABag(updates)
      BY <1>1 DEF Inv, TypeOK
    <3>5. \A y : Copies(y, updates) \in Nat
      BY <3>4, AddedCopies
    <3> QED BY <3>2, <3>3, <3>5 DEF Published
  <2>5. Owed(e, type) = Copies(e, queue) * N /\ Due(e, type) = (Published(e) + 0) * N
    BY <2>1 DEF Owed, Due
  <2> HIDE DEF N
  <2>6. Copies(e, queue) * N <= Published(e) * N
    BY <2>0, <2>4, TimesGrows
  <2>7. Published(e) + 0 = Published(e)
    BY <2>4
  <2>8. Copies(e, queue) * N \in Nat /\ Published(e) * N \in Nat
    BY <2>0, <2>4, TimesNext
  <2>9. Owed(e, type) \in Nat /\ Due(e, type) \in Nat /\ Owed(e, type) <= Due(e, type)
    BY <2>5, <2>6, <2>7, <2>8
  <2> HIDE DEF f
  <2> QED BY <2>2, <2>3, <2>9 DEF RowAccount
<1>2. ASSUME Inv, RowInv, [Next]_vars PROVE RowInv'
  <2>1. ASSUME NEW s \in Slots, Step(s) PROVE RowInv'
    BY <1>2, <2>1, RowAtSlot DEF RowInv
  <2>2. CASE UNCHANGED vars
    <3> SUFFICES ASSUME NEW e \in Messages, NEW type \in Supported PROVE RowAccount(e, type)'
      BY DEF RowInv
    <3>1. RowAccount(e, type)
      BY <1>2 DEF RowInv
    <3>2. Rows(e, type)' = Rows(e, type)
      BY <2>2 DEF vars, Rows, RowsWith
    <3>3. ToCome(e, type)' = ToCome(e, type)
      BY <2>2 DEF vars, ToCome, Left, After, Tracked, Places
    <3>4. Owed(e, type)' = Owed(e, type) /\ Due(e, type)' = Due(e, type)
      BY <2>2 DEF vars, Owed, Due, Published, Tracked, Places
    <3> QED BY <3>1, <3>2, <3>3, <3>4 DEF RowAccount
  <2> QED BY <1>2, <2>1, <2>2 DEF Next, Step
<1> QED BY <1>1, <1>2, InvInit, Invariant, PTL DEF Spec

\* Rows are duplicated only by redelivery: each supported resource of a message has one
\* row for each publication and one for each fault at most, whatever the threads do.
THEOREM DuplicatesAreRedeliveries == Spec => []DuplicatesNeedFaults
<1>1. ASSUME Inv, RowInv PROVE DuplicatesNeedFaults
  <2> SUFFICES ASSUME NEW e \in Known, NEW type \in Types \ {"UNKNOWN"}
               PROVE  Rows(e, type)
                        <= (Published(e) + faults) * Cardinality(Tracked(e, type))
    BY DEF DuplicatesNeedFaults
  <2>1. e \in Messages
    BY <1>1 DEF Known, Inv, TypeOK
  <2>2. type \in Supported
    BY <1>1 DEF Types, Inv, HistoryOK, SlotInv, SlotOK, BagToSet
  <2>3. RowAccount(e, type)
    BY <1>1, <2>1, <2>2 DEF RowInv
  <2>4. Due(e, type) = (Published(e) + faults) * Cardinality(Tracked(e, type))
    BY DEF Due
  <2>5. Rows(e, type) \in Nat /\ Owed(e, type) \in Nat
    BY <1>1, <2>1, RowsAreCounted, OwedCount
  <2>6. ToCome(e, type) \in Nat
    BY <1>1, <2>1, ToComeType
  <2>7. Due(e, type) \in Nat
    BY <1>1, <2>1, DueType
  <2> QED BY <2>3, <2>4, <2>5, <2>6, <2>7 DEF RowAccount
<1> QED BY <1>1, RowInvariant, PTL

-----------------------------------------------------------------------------
(* Updates and users.                                                      *)

\* Messages pass between the queue, the slots and the acknowledged; new ones are echoes.
LEMMA HeldAtSlot ==
  ASSUME QuietSink, Inv, HeldInv, NEW s \in Slots, Step(s)
  PROVE  /\ acked \subseteq acked' /\ acked' \subseteq Known
         /\ event'[s] \in Known \cup {None}
         /\ \A x \in BagToSet(queue) : x \in BagToSet(queue') \/ (lease'[s] /\ event'[s] = x)
         /\ lease[s] => \/ event[s] \in BagToSet(queue') \cup acked'
                        \/ lease'[s] /\ event'[s] = event[s]
         /\ \A x \in BagToSet(queue') : x \in Known \/ (x.by = "engine" /\ x.seed # "given")
<1>0. /\ TypeOK /\ SlotOK(s)
      /\ event[s] # None => event[s] \in Known
      /\ BagToSet(queue) \cup acked \subseteq Known
      /\ IsABag(queue)
  BY DEF Inv, TypeOK, SlotInv, Known
<1>1. CASE queue' = queue /\ acked' = acked /\ event' = event /\ lease' = lease
  BY <1>0, <1>1
<1>2. \A k : /\ BagToSet(BagAdd(queue, k)) = BagToSet(queue) \cup {k}
             /\ k \in BagToSet(queue) =>
                  /\ BagToSet(BagRemove(queue, k)) \subseteq BagToSet(queue)
                  /\ BagToSet(queue) \ {k} \subseteq BagToSet(BagRemove(queue, k))
  BY <1>0, AddedCopies, RemovedCopies DEF BagToSet
<1>3. CASE Refuse(s) /\ pc[s] # "idle" /\ acked' = acked
  <2>1. /\ queue' = IF lease[s] THEN BagAdd(queue, event[s]) ELSE queue
        /\ event'[s] = None
    BY <1>0, <1>3 DEF Refuse, Release, TypeOK
  <2>2. event[s] \in Known
    BY <1>0, <1>3 DEF TypeOK
  <2> QED BY <1>0, <1>2, <1>3, <2>1, <2>2
<1>4. CASE Receive(s)
  <2>1. pc[s] = "receive" /\ acked' = acked
    BY <1>4 DEF Receive
  <2>2. CASE ~Refuse(s)
    BY <1>1, <1>4, <2>2 DEF Receive
  <2> QED BY <1>3, <2>1, <2>2
<1>5. CASE Fail(s)
  BY <1>3, <1>5 DEF Fail
<1>6. CASE \/ Classify(s) \/ NextResource(s) \/ EndOfLoop(s) \/ EvaluateResource(s) \/ Save(s)
           \/ Alert(s) \/ SaveException(s) \/ Raise(s)
  BY <1>1, <1>6 DEF Classify, NextResource, EndOfLoop, EvaluateResource, Save, Alert,
                    SaveException, Raise
<1>7. CASE Act(s)
  <2>1. PICK r : r = Current(s)
    OBVIOUS
  <2>2. r.type \in Supported
    BY <1>0, <1>7, <2>1 DEF Act, SlotOK
  <2>3. \/ queue' = queue
        \/ queue' = BagAdd(queue, Echo(r)) /\ UpdateCall(r.type)[2] \in Exported
    BY <1>7, <2>1 DEF Act, Updated
  <2>4. acked' = acked /\ event' = event /\ lease' = lease
    BY <1>7 DEF Act
  <2>5. UpdateCall(r.type)[2] \in Exported => Echo(r).by = "engine" /\ Echo(r).seed # "given"
    BY <2>2 DEF QuietSink, Echo
  <2>6. CASE queue' = queue
    BY <1>1, <2>4, <2>6
  <2>7. CASE queue' = BagAdd(queue, Echo(r)) /\ UpdateCall(r.type)[2] \in Exported
    <3>1. BagToSet(queue') = BagToSet(queue) \cup {Echo(r)}
      BY <1>2, <2>7
    <3> QED BY <1>0, <2>4, <2>5, <2>7, <3>1
  <2> QED BY <2>3, <2>6, <2>7
<1>8. CASE Respond(s)
  <2>1. /\ queue' = queue /\ event'[s] = None
        /\ acked' = IF lease[s] THEN acked \cup {event[s]} ELSE acked
        /\ event[s] \in Known
    BY <1>0, <1>8 DEF Respond, Release, TypeOK
  <2> QED BY <1>0, <2>1
<1>9. CASE DeadlinePasses(s)
  <2>1. /\ queue' = BagAdd(queue, event[s]) /\ acked' = acked /\ event' = event
        /\ event[s] \in Known
    BY <1>0, <1>9 DEF DeadlinePasses, SlotOK, TypeOK
  <2> QED BY <1>0, <1>2, <2>1
<1>10. ASSUME NEW k \in BagToSet(queue), Deliver(s, k)
       PROVE  /\ acked \subseteq acked' /\ acked' \subseteq Known
              /\ event'[s] \in Known \cup {None}
              /\ \A x \in BagToSet(queue) : x \in BagToSet(queue') \/ (lease'[s] /\ event'[s] = x)
              /\ lease[s] => \/ event[s] \in BagToSet(queue') \cup acked'
                             \/ lease'[s] /\ event'[s] = event[s]
              /\ \A x \in BagToSet(queue') : x \in Known \/ (x.by = "engine" /\ x.seed # "given")
  <2>1. /\ queue' = BagRemove(queue, k) /\ acked' = acked /\ ~lease[s]
        /\ event'[s] = k /\ lease'[s] = TRUE
    BY <1>0, <1>10 DEF Deliver, SlotOK, TypeOK
  <2> QED BY <1>0, <1>2, <1>10, <2>1
<1>11. ASSUME NEW k \in acked, DeliverAgain(s, k)
       PROVE  /\ acked \subseteq acked' /\ acked' \subseteq Known
              /\ event'[s] \in Known \cup {None}
              /\ \A x \in BagToSet(queue) : x \in BagToSet(queue') \/ (lease'[s] /\ event'[s] = x)
              /\ lease[s] => \/ event[s] \in BagToSet(queue') \cup acked'
                             \/ lease'[s] /\ event'[s] = event[s]
              /\ \A x \in BagToSet(queue') : x \in Known \/ (x.by = "engine" /\ x.seed # "given")
  <2>1. queue' = queue /\ acked' = acked /\ ~lease[s] /\ event'[s] = k
    BY <1>0, <1>11 DEF DeliverAgain, SlotOK, TypeOK
  <2> QED BY <1>0, <2>1
<1> QED BY <1>4, <1>5, <1>6, <1>7, <1>8, <1>9, <1>10, <1>11 DEF Step, Handle

\* So every message stays where it can be handled, and what users published stays known.
LEMMA HeldStep ==
  ASSUME QuietSink, Inv, HeldInv, NEW s \in Slots, Step(s)
  PROVE  HeldInv' /\ Seeded \subseteq Seeded'
<1>0. /\ TypeOK /\ SlotInv /\ Apart(s)
      /\ acked \subseteq acked' /\ acked' \subseteq Known
      /\ event'[s] \in Known \cup {None}
      /\ \A x \in BagToSet(queue) : x \in BagToSet(queue') \/ (lease'[s] /\ event'[s] = x)
      /\ lease[s] => \/ event[s] \in BagToSet(queue') \cup acked'
                     \/ lease'[s] /\ event'[s] = event[s]
      /\ \A x \in BagToSet(queue') : x \in Known \/ (x.by = "engine" /\ x.seed # "given")
  <2>1. TypeOK /\ SlotInv
    BY DEF Inv
  <2>2. Apart(s)
    BY <2>1, OneSlot DEF Step
  <2> QED BY <2>1, <2>2, HeldAtSlot
<1>1. \A t \in Slots \ {s} : event'[t] = event[t] /\ lease'[t] = lease[t]
  BY <1>0 DEF Apart
<1>2. Held \subseteq Held'
  BY <1>0, <1>1 DEF Held
<1>3. \A t \in Slots : event'[t] \in Known \cup {None}
  BY <1>0, <1>1 DEF Known
<1>4. Known' \subseteq Held'
  <2>1. Known \subseteq Held'
    BY <1>2 DEF HeldInv
  <2> QED BY <1>3, <2>1 DEF Known, Held
<1>5. \A e \in Known' : e \in Known \/ (e.by = "engine" /\ e.seed # "given")
  BY <1>0, <1>3 DEF Known
<1>6. HeldInv'
  BY <1>4, <1>5 DEF HeldInv
<1>7. Held' \subseteq Known'
  <2>1. TypeOK' /\ SlotInv'
    <3>1. Inv'
      <4>1. Next
        BY DEF Next, Step
      <4> QED BY <4>1, InvStep
    <3> QED BY <3>1 DEF Inv
  <2>2. \A t \in Slots : lease'[t] => event'[t] # None
    BY <2>1 DEF TypeOK, SlotInv, SlotOK
  <2> QED BY <2>2 DEF Held, Known
<1>8. Known \subseteq Known'
  BY <1>2, <1>7 DEF HeldInv
<1> QED BY <1>6, <1>8 DEF Seeded

\* What is known of users' messages with the product is finitely many of those messages.
LEMMA SeededGive ==
  ASSUME Inv
  PROVE  Seeded \subseteq Givers /\ Givers \subseteq Messages /\ IsFiniteSet(Givers)
<1>1. Known \subseteq Messages
  BY DEF Known, Inv, TypeOK
<1>2. \A e \in Messages : e.by = "user" => e \in UserEvents
  BY DEF Messages, Echo
<1>3. IsFiniteSet(UserEvents) /\ Givers \subseteq UserEvents
  BY MessageAssumption DEF Givers
<1>4. IsFiniteSet(Givers)
  BY <1>3, SubsetCount
<1> QED BY <1>1, <1>2, <1>3, <1>4 DEF Seeded, Givers, Messages

\* A slot comes to each mention once: it leaves it behind when it acts.
LEMMA OnwardShape ==
  ASSUME NEW e \in Messages, NEW r
  PROVE  /\ Cardinality(Mentions(e, r)) \in Nat /\ IsFiniteSet(Mentions(e, r))
         /\ \A n : /\ Cardinality(Onward(e, r, n)) \in Nat
                   /\ Cardinality(Onward(e, r, n)) <= Cardinality(Mentions(e, r))
         /\ Onward(e, r, 0) = Mentions(e, r)
         /\ \A m \in Nat : \A n \in Nat :
              m <= n => Cardinality(Onward(e, r, n)) <= Cardinality(Onward(e, r, m))
         /\ \A n \in Mentions(e, r) :
              Cardinality(Onward(e, r, n)) = Cardinality(Onward(e, r, n + 1)) + 1
<1>1. Places(e) = 1..Len(Extracted[e]) /\ Len(Extracted[e]) \in Nat
  BY ExtractedShape
<1>2. Mentions(e, r) \subseteq 1..Len(Extracted[e]) /\ Mentions(e, r) \subseteq Nat
  BY <1>1 DEF Mentions
<1>3. IsFiniteSet(Mentions(e, r)) /\ Cardinality(Mentions(e, r)) \in Nat
  BY <1>1, <1>2, IntervalIsFinite, SubsetCount, CountType
<1>4. \A n : /\ IsFiniteSet(Onward(e, r, n)) /\ Cardinality(Onward(e, r, n)) \in Nat
             /\ Cardinality(Onward(e, r, n)) <= Cardinality(Mentions(e, r))
  <2>1. \A n : Onward(e, r, n) \subseteq Mentions(e, r)
    BY DEF Onward
  <2> QED BY <1>3, <2>1, SubsetCount, CountType
<1>5. Onward(e, r, 0) = Mentions(e, r)
  BY <1>2 DEF Onward
<1>6. ASSUME NEW m \in Nat, NEW n \in Nat, m <= n
      PROVE  Cardinality(Onward(e, r, n)) <= Cardinality(Onward(e, r, m))
  <2>1. \A i \in Mentions(e, r) : i >= n => i >= m
    BY <1>2, <1>6
  <2>2. Onward(e, r, n) \subseteq Onward(e, r, m)
    BY <2>1 DEF Onward
  <2> QED BY <1>4, <2>2, SubsetCount
<1>7. ASSUME NEW n \in Mentions(e, r)
      PROVE  Cardinality(Onward(e, r, n)) = Cardinality(Onward(e, r, n + 1)) + 1
  <2>1. \A i \in Mentions(e, r) : i >= n <=> i >= n + 1 \/ i = n
    BY <1>2
  <2>2. ~(n >= n + 1)
    BY <1>2
  <2>3. n \notin Onward(e, r, n + 1) /\ Onward(e, r, n) = Onward(e, r, n + 1) \cup {n}
    BY <2>1, <2>2 DEF Onward
  <2> QED BY <1>4, <2>3, AddOne
<1> QED BY <1>3, <1>4, <1>5, <1>6, <1>7

\* The other slots have as many updates to come as before.
LEMMA ActsCount ==
  ASSUME Inv, NEW r, NEW s \in Slots, Apart(s)
  PROVE  /\ ActsToCome(r) \in Nat /\ ActsLeft(s, r) \in Nat /\ ActsLeft(s, r)' \in Nat
         /\ ActsToCome(r)' \in Nat
         /\ ActsToCome(r)' = ActsToCome(r) - ActsLeft(s, r) + ActsLeft(s, r)'
<1> USE MessageAssumption
<1> DEFINE f == [t \in Slots |-> ActsLeft(t, r)]
           g == [t \in Slots |-> ActsLeft(t, r)']
<1>1. \A e \in Givers : \A n : Cardinality(Onward(e, r, n)) \in Nat
  BY SeededGive, OnwardShape
<1>2. \A t \in Slots : ActsLeft(t, r) \in Nat /\ ActsLeft(t, r)' \in Nat
  BY <1>1 DEF ActsLeft, Onward, Mentions, Places
<1>3. \A t \in Slots \ {s} : ActsLeft(t, r)' = ActsLeft(t, r)
  <2>1. \A t \in Slots \ {s} : event'[t] = event[t] /\ place'[t] = place[t] /\ pc'[t] = pc[t]
    BY DEF Apart
  <2> QED BY <2>1 DEF ActsLeft, From, Onward, Mentions, Places
<1>4. /\ \A t \in Slots : f[t] \in Nat /\ g[t] \in Nat
      /\ \A t \in Slots \ {s} : f[t] = g[t]
      /\ f[s] = ActsLeft(s, r) /\ g[s] = ActsLeft(s, r)'
  BY <1>2, <1>3
<1>5. ActsToCome(r) = SumFunctionOnSet(f, Slots) /\ ActsToCome(r)' = SumFunctionOnSet(g, Slots)
  BY DEF ActsToCome
<1> HIDE DEF f, g
<1>6. /\ SumFunctionOnSet(f, Slots) \in Nat /\ SumFunctionOnSet(g, Slots) \in Nat
      /\ SumFunctionOnSet(g, Slots) = SumFunctionOnSet(f, Slots) - f[s] + g[s]
  BY <1>4, SumOneChange
<1> QED BY <1>2, <1>4, <1>5, <1>6

\* A copy more in the queue brings what its message mentions.
LEMMA OneMoreCopy ==
  ASSUME Inv, NEW B, NEW C, NEW k, NEW r, \A y : Copies(y, B) \in Nat,
         \A y : Copies(y, C) = Copies(y, B) + (IF y = k THEN 1 ELSE 0)
  PROVE  /\ ActsIn(B, r) \in Nat /\ ActsIn(C, r) \in Nat
         /\ ActsIn(C, r) = ActsIn(B, r)
                             + (IF k \in Givers THEN Cardinality(Mentions(k, r)) ELSE 0)
<1> DEFINE N(e) == Cardinality(Mentions(e, r))
           f == [e \in Givers |-> Copies(e, B) * N(e)]
           g == [e \in Givers |-> Copies(e, C) * N(e)]
<1>1. IsFiniteSet(Givers) /\ \A e \in Givers : N(e) \in Nat
  BY SeededGive, OnwardShape
<1> HIDE DEF N
<1>2. \A e \in Givers : f[e] \in Nat
  BY <1>1, TimesNext
<1>3. \A e \in Givers : e # k => g[e] = f[e]
  <2>1. \A e \in Givers : e # k => Copies(e, C) = Copies(e, B)
    OBVIOUS
  <2> QED BY <2>1
<1>4. k \in Givers => g[k] = f[k] + N(k)
  <2> SUFFICES ASSUME k \in Givers PROVE (Copies(k, B) + 1) * N(k) = Copies(k, B) * N(k) + N(k)
    OBVIOUS
  <2> QED BY <1>1, TimesNext
<1>5. \A e \in Givers : g[e] \in Nat
  BY <1>1, <1>2, <1>3, <1>4
<1>6. ActsIn(B, r) = SumFunctionOnSet(f, Givers) /\ ActsIn(C, r) = SumFunctionOnSet(g, Givers)
  BY DEF ActsIn, N
<1> HIDE DEF f, g
<1>7. CASE k \in Givers
  <2>1. /\ SumFunctionOnSet(f, Givers) \in Nat /\ SumFunctionOnSet(g, Givers) \in Nat
        /\ SumFunctionOnSet(g, Givers) = SumFunctionOnSet(f, Givers) - f[k] + g[k]
    BY <1>1, <1>2, <1>3, <1>5, <1>7, SumOneChange
  <2>2. f[k] \in Nat /\ N(k) \in Nat /\ g[k] = f[k] + N(k)
    BY <1>1, <1>2, <1>4, <1>7
  <2>3. ActsIn(C, r) = ActsIn(B, r) + N(k)
    BY <1>6, <2>1, <2>2
  <2> QED BY <1>6, <1>7, <2>1, <2>3 DEF N
<1>8. CASE k \notin Givers
  <2>1. \A e \in Givers : f[e] = g[e] /\ f[e] \in Nat /\ f[e] \in Int
    BY <1>2, <1>3, <1>8
  <2>2. SumFunctionOnSet(f, Givers) = SumFunctionOnSet(g, Givers)
    BY <1>1, <2>1, SumSame
  <2>3. SumFunctionOnSet(f, Givers) \in Nat
    BY <1>1, <2>1, SumType
  <2> QED BY <1>6, <1>8, <2>2, <2>3
<1> QED BY <1>7, <1>8

\* A message more in the queue, or one less, is so many updates more or less.
LEMMA ActsOwedCount ==
  ASSUME Inv, NEW r
  PROVE  LET N(k) == IF k \in Givers THEN Cardinality(Mentions(k, r)) ELSE 0
         IN /\ ActsOwed(r) \in Nat
            /\ queue' = queue => ActsOwed(r)' = ActsOwed(r)
            /\ \A k : queue' = BagAdd(queue, k) =>
                 ActsOwed(r)' = ActsOwed(r) + N(k) /\ ActsOwed(r)' \in Nat
            /\ \A k \in DOMAIN queue : queue' = BagRemove(queue, k) =>
                 ActsOwed(r) = ActsOwed(r)' + N(k) /\ ActsOwed(r)' \in Nat
<1>1. IsABag(queue)
  BY DEF Inv, TypeOK
<1>2. /\ \A y : Copies(y, queue) \in Nat
      /\ \A k, y : Copies(y, BagAdd(queue, k)) = Copies(y, queue) + (IF y = k THEN 1 ELSE 0)
  BY <1>1, AddedCopies
<1>3. ActsOwed(r) = ActsIn(queue, r) /\ ActsOwed(r)' = ActsIn(queue', r)
  BY DEF ActsOwed, ActsIn, Copies, Mentions, Places
<1>4. ActsOwed(r) \in Nat
  <2>1. PICK C, k : C = BagAdd(queue, k)
    OBVIOUS
  <2>2. \A y : Copies(y, C) = Copies(y, queue) + (IF y = k THEN 1 ELSE 0)
    BY <1>2, <2>1
  <2> QED BY <1>2, <1>3, <2>2, OneMoreCopy
<1>5. ASSUME NEW k, queue' = BagAdd(queue, k)
      PROVE  /\ ActsOwed(r)' = ActsOwed(r)
                                 + (IF k \in Givers THEN Cardinality(Mentions(k, r)) ELSE 0)
             /\ ActsOwed(r)' \in Nat
  <2>1. PICK C : C = queue'
    OBVIOUS
  <2>2. \A y : Copies(y, C) = Copies(y, queue) + (IF y = k THEN 1 ELSE 0)
    BY <1>2, <1>5, <2>1
  <2>3. /\ ActsIn(C, r) \in Nat
        /\ ActsIn(C, r) = ActsIn(queue, r)
                            + (IF k \in Givers THEN Cardinality(Mentions(k, r)) ELSE 0)
    <3>1. \A y : Copies(y, queue) \in Nat
      BY <1>2
    <3>2. PICK B : B = queue
      OBVIOUS
    <3>3. \A y : Copies(y, B) \in Nat
      BY <3>1, <3>2
    <3>4. \A y : Copies(y, C) = Copies(y, B) + (IF y = k THEN 1 ELSE 0)
      BY <2>2, <3>2
    <3>5. /\ ActsIn(C, r) \in Nat
          /\ ActsIn(C, r) = ActsIn(B, r)
                              + (IF k \in Givers THEN Cardinality(Mentions(k, r)) ELSE 0)
      BY <3>3, <3>4, OneMoreCopy
    <3> QED BY <3>2, <3>5
  <2> QED BY <1>3, <2>1, <2>3
<1>6. ASSUME NEW k \in DOMAIN queue, queue' = BagRemove(queue, k)
      PROVE  /\ ActsOwed(r) = ActsOwed(r)'
                                + (IF k \in Givers THEN Cardinality(Mentions(k, r)) ELSE 0)
             /\ ActsOwed(r)' \in Nat
  <2>1. \A y : Copies(y, queue') \in Nat
    BY <1>1, <1>6, RemovedCopies
  <2>2. \A y : Copies(y, queue') = Copies(y, queue) - (IF y = k THEN 1 ELSE 0)
    BY <1>1, <1>6, RemovedCopies
  <2>3. \A y : Copies(y, queue) = Copies(y, queue') + (IF y = k THEN 1 ELSE 0)
    BY <1>2, <2>1, <2>2
  <2> QED BY <1>3, <2>1, <2>3, OneMoreCopy
<1> QED BY <1>3, <1>4, <1>5, <1>6

\* What is due never falls, and a fault adds all that a message mentions.
LEMMA ActsDueCount ==
  ASSUME Inv, Inv', NEW r, Seeded \subseteq Seeded', faults' >= faults
  PROVE  /\ ActsDue(r) \in Nat /\ ActsDue(r)' \in Nat /\ ActsDue(r)' >= ActsDue(r)
         /\ \A k \in Seeded : faults' > faults =>
              ActsDue(r)' >= ActsDue(r) + Cardinality(Mentions(k, r))
<1>1. PICK w : w = Weights(r)
  OBVIOUS
<1>2. PICK S : S = Seeded
  OBVIOUS
<1>3. PICK T : T = Seeded'
  OBVIOUS
<1>4. PICK f : f = faults
  OBVIOUS
<1>5. PICK g : g = faults'
  OBVIOUS
<1>6. f \in Nat /\ g \in Nat /\ f <= g
  BY <1>4, <1>5, MessageAssumption DEF Inv, TypeOK
<1>7. /\ S \subseteq T /\ T \subseteq Givers /\ IsFiniteSet(S) /\ IsFiniteSet(T)
      /\ \A e \in T : w[e] = Cardinality(Mentions(e, r)) /\ w[e] \in Nat /\ w[e] \in Int
  <2>1. IsFiniteSet(Givers) /\ Givers \subseteq Messages /\ Givers' = Givers
    BY SeededGive DEF Givers
  <2>2. Seeded' \subseteq Givers
    <3>1. Known' \subseteq Messages
      BY DEF Known, Inv, TypeOK
    <3>2. \A e \in Messages : e.by = "user" => e \in UserEvents
      BY DEF Messages, Echo
    <3> QED BY <3>1, <3>2 DEF Seeded, Givers
  <2>3. \A e \in Givers : Cardinality(Mentions(e, r)) \in Nat
    BY <2>1, OnwardShape
  <2> QED BY <1>1, <1>2, <1>3, <2>1, <2>2, <2>3, SubsetCount DEF Weights
<1> DEFINE M == SumFunctionOnSet(w, S)
           N == SumFunctionOnSet(w, T)
<1>8. ActsDue(r) = M * (1 + f) /\ ActsDue(r)' = N * (1 + g)
  <2>1. ActsDue(r) = SumFunctionOnSet(Weights(r), Seeded) * (1 + faults)
    BY DEF ActsDue
  <2>2. ActsDue(r)' = SumFunctionOnSet(Weights(r), Seeded') * (1 + faults')
    BY DEF ActsDue, Weights, Mentions, Places, Givers
  <2> QED BY <1>1, <1>2, <1>3, <1>4, <1>5, <2>1, <2>2
<1>9. M \in Nat /\ N \in Nat /\ M <= N
  <2>1. /\ SumFunctionOnSet(w, S) \in Nat /\ SumFunctionOnSet(w, T \ S) \in Nat
        /\ SumFunctionOnSet(w, T) = SumFunctionOnSet(w, S) + SumFunctionOnSet(w, T \ S)
    BY <1>7, SumSplit
  <2> QED BY <2>1
<1> HIDE DEF M, N
<1>10. M * (1 + f) \in Nat /\ N * (1 + g) \in Nat /\ M * (1 + f) <= N * (1 + g)
  <2>1. (1 + f) * M <= (1 + g) * M
    BY <1>6, <1>9, TimesGrows
  <2>2. M * (1 + g) <= N * (1 + g)
    BY <1>6, <1>9, TimesGrows
  <2> QED BY <1>6, <1>9, <2>1, <2>2, TimesNext
<1>11. ASSUME NEW k \in S, g > f
       PROVE  N * (1 + g) >= M * (1 + f) + w[k]
  <2>1. w[k] <= M
    <3>1. k \in T /\ IsFiniteSet(S \ {k})
      BY <1>7, SubsetCount
    <3>2. M = w[k] + SumFunctionOnSet(w, S \ {k})
      BY <1>7, SumWithout DEF M
    <3>3. SumFunctionOnSet(w, S \ {k}) \in Nat
      BY <1>7, <3>1, SumType
    <3> QED BY <1>7, <3>1, <3>2, <3>3
  <2>2. M * (1 + g) <= N * (1 + g)
    BY <1>6, <1>9, TimesGrows
  <2>3. (1 + f + 1) * M <= (1 + g) * M
    BY <1>6, <1>9, <1>11, TimesGrows
  <2>4. (1 + f + 1) * M = (1 + f) * M + M
    BY <1>6, <1>9, TimesNext
  <2> QED BY <1>6, <1>7, <1>9, <2>1, <2>2, <2>3, <2>4, TimesNext
<1> QED BY <1>2, <1>4, <1>5, <1>7, <1>8, <1>10, <1>11

\* An update was to come of the slot that makes it; what is handed back to Pub/Sub the
\* slot had not begun, or a fault pays for it.
LEMMA UpdateAtSlot ==
  ASSUME QuietSink, Inv, Inv', HeldInv, NEW r, UpdateAccount(r), NEW s \in Slots, Step(s)
  PROVE  UpdateAccount(r)'
<1> USE NoneAssumption
<1> DEFINE W(k) == IF k \in Givers THEN Cardinality(Mentions(k, r)) ELSE 0
<1>k. PICK k : k = event[s]
  OBVIOUS
<1>m. PICK m : m = From(s)
  OBVIOUS
<1>n. PICK n : n = From(s)'
  OBVIOUS
<1>0. /\ TypeOK /\ SlotOK(s) /\ Apart(s) /\ faults \in Nat
      /\ Seeded \subseteq Seeded'
      /\ ActsToCome(r) \in Nat /\ ActsToCome(r)' \in Nat
      /\ ActsLeft(s, r) \in Nat /\ ActsLeft(s, r)' \in Nat
      /\ ActsToCome(r)' = ActsToCome(r) - ActsLeft(s, r) + ActsLeft(s, r)'
      /\ Copies(r, updates) \in Nat
      /\ ActsOwed(r) \in Nat
  <2>1. TypeOK /\ SlotOK(s) /\ faults \in Nat /\ IsABag(updates)
    BY DEF Inv, TypeOK, SlotInv
  <2>2. Apart(s)
    BY <2>1, OneSlot DEF Step
  <2>3. Copies(r, updates) \in Nat
    BY <2>1, AddedCopies
  <2> QED BY <2>1, <2>2, <2>3, HeldStep, ActsCount, ActsOwedCount
<1>1. ASSUME Copies(r, updates)' \in Nat, ActsOwed(r)' \in Nat,
             ActsDue(r) \in Nat, ActsDue(r)' \in Nat,
             Copies(r, updates)' + ActsLeft(s, r)' + ActsOwed(r)' + ActsDue(r)
               <= Copies(r, updates) + ActsLeft(s, r) + ActsOwed(r) + ActsDue(r)'
      PROVE  UpdateAccount(r)'
  BY <1>0, <1>1 DEF UpdateAccount
<1>2. faults' \in {faults, faults + 1} =>
        ActsDue(r) \in Nat /\ ActsDue(r)' \in Nat /\ ActsDue(r)' >= ActsDue(r)
  <2>1. faults' \in {faults, faults + 1} => faults' >= faults
    BY <1>0
  <2> QED BY <1>0, <2>1, ActsDueCount
<1>3. \A x : W(x) \in Nat
  BY SeededGive, OnwardShape
<1>4. ASSUME NEW x \in Known, faults' = faults + 1
      PROVE  ActsDue(r)' >= ActsDue(r) + W(x)
  <2>1. x \in Givers => x \in Seeded
    BY MessageAssumption DEF Givers, Seeded
  <2>2. faults' >= faults /\ faults' > faults
    BY <1>0, <1>4
  <2>3. x \in Seeded => ActsDue(r)' >= ActsDue(r) + Cardinality(Mentions(x, r))
    BY <1>0, <2>2, ActsDueCount
  <2> QED BY <1>2, <1>4, <2>1, <2>3
<1>5. /\ ActsLeft(s, r) = IF k \in Givers THEN Cardinality(Onward(k, r, m)) ELSE 0
      /\ \A x : event'[s] = x =>
           ActsLeft(s, r)' = IF x \in Givers THEN Cardinality(Onward(x, r, n)) ELSE 0
  BY <1>k, <1>m, <1>n DEF ActsLeft, Onward, Mentions, Places, Givers
<1>6. None \notin Givers
  BY SeededGive
<1>7. m = 0 => ActsLeft(s, r) = W(k)
  BY <1>5, SeededGive, OnwardShape
<1>8. \A x : event'[s] = x /\ n = 0 => ActsLeft(s, r)' = W(x)
  BY <1>5, SeededGive, OnwardShape
<1>9. m \in Nat /\ n \in Nat /\ m <= n /\ event'[s] = event[s] =>
        ActsLeft(s, r)' <= ActsLeft(s, r)
  <2> SUFFICES ASSUME m \in Nat, n \in Nat, m <= n, event'[s] = k
               PROVE  ActsLeft(s, r)' <= ActsLeft(s, r)
    BY <1>k
  <2>1. /\ ActsLeft(s, r) = IF k \in Givers THEN Cardinality(Onward(k, r, m)) ELSE 0
        /\ ActsLeft(s, r)' = IF k \in Givers THEN Cardinality(Onward(k, r, n)) ELSE 0
    BY <1>5
  <2>2. k \in Givers => Cardinality(Onward(k, r, n)) <= Cardinality(Onward(k, r, m))
    BY SeededGive, OnwardShape
  <2> QED BY <2>1, <2>2
<1>10. event'[s] = event[s] /\ n = m => ActsLeft(s, r)' = ActsLeft(s, r)
  BY <1>k, <1>5
<1>11. /\ queue' = queue => ActsOwed(r)' = ActsOwed(r)
       /\ \A x : queue' = BagAdd(queue, x) =>
            ActsOwed(r)' = ActsOwed(r) + W(x) /\ ActsOwed(r)' \in Nat
  BY ActsOwedCount
<1>12. updates' = updates => Copies(r, updates)' = Copies(r, updates)
  BY DEF Copies
<1>13. k # None => k \in Known
  BY <1>k DEF Known
<1> HIDE DEF W
\* Requests that leave the queue and the labels alone.
<1>14. ASSUME queue' = queue, updates' = updates, faults' \in {faults, faults + 1},
              ActsLeft(s, r)' <= ActsLeft(s, r)
       PROVE  UpdateAccount(r)'
  BY <1>0, <1>1, <1>2, <1>11, <1>12, <1>14
<1>15. CASE Receive(s)
  <2>0. updates' = updates /\ faults' = faults /\ pc[s] = "receive" /\ m = 0
    BY <1>0, <1>m, <1>15 DEF Receive, From, SlotOK
  <2>1. CASE Unanswerable(event[s])
    <3>1. /\ queue' = IF lease[s] THEN BagAdd(queue, k) ELSE queue
          /\ event'[s] = None
      BY <1>0, <1>k, <1>15, <2>1 DEF Receive, Refuse, Release, TypeOK
    <3>2. ActsLeft(s, r)' = 0 /\ ActsLeft(s, r) = W(k)
      BY <1>5, <1>6, <1>7, <2>0, <3>1
    <3>3. ActsOwed(r)' \in {ActsOwed(r), ActsOwed(r) + W(k)} /\ ActsOwed(r)' \in Nat
      BY <1>0, <1>11, <3>1
    <3> QED BY <1>0, <1>1, <1>2, <1>3, <1>12, <2>0, <3>2, <3>3
  <2>2. CASE ~Unanswerable(event[s])
    <3>1. UNCHANGED <<queue, event, place>> /\ pc'[s] \in {"classify", "respond"}
      BY <1>0, <1>15, <2>2 DEF Receive, Goto, TypeOK
    <3>2. n \in Nat /\ m <= n
      BY <1>0, <1>n, <2>0, <3>1 DEF From, TypeOK
    <3> QED BY <1>9, <1>14, <2>0, <3>1, <3>2
  <2> QED BY <2>1, <2>2
<1>16. CASE \/ Classify(s) \/ NextResource(s) \/ EndOfLoop(s) \/ EvaluateResource(s) \/ Save(s)
            \/ Alert(s) \/ SaveException(s) \/ Raise(s)
  <2>1. UNCHANGED <<queue, updates, event>> /\ faults' \in {faults, faults + 1}
    BY <1>16 DEF Classify, NextResource, EndOfLoop, EvaluateResource, Save, Alert,
                 SaveException, Raise, Fault
  <2>2. place[s] \in Nat /\ place'[s] \in {place[s], place[s] + 1}
    BY <1>0, <1>16 DEF Classify, NextResource, EndOfLoop, EvaluateResource, Save, AfterSave, Alert,
                 SaveException, Raise, TypeOK, SlotOK
  <2>3. pc[s] \in {"save", "except", "respond"} =>
          pc'[s] \in {"except", "respond"} \/ place'[s] = place[s] + 1
    BY <1>0, <1>16 DEF Classify, NextResource, EndOfLoop, EvaluateResource, Save, AfterSave, Alert,
                 SaveException, Raise, Goto, TypeOK
  <2>4. m \in Nat /\ n \in Nat /\ m <= n
    BY <1>m, <1>n, <2>2, <2>3 DEF From
  <2> QED BY <1>9, <1>14, <2>1, <2>4
<1>17. CASE Respond(s)
  <2>1. UNCHANGED <<queue, updates, faults>> /\ event'[s] = None
    BY <1>0, <1>17 DEF Respond, Release, TypeOK
  <2>2. ActsLeft(s, r)' = 0
    BY <1>5, <1>6, <2>1
  <2> QED BY <1>0, <1>14, <2>1, <2>2
<1>18. CASE Act(s)
  <2>1. /\ event' = event /\ place' = place /\ pc[s] = "act" /\ pc'[s] = "save"
        /\ place[s] \in Places(k) /\ k.seed = "given" /\ k \in Messages /\ place[s] \in Nat
        /\ Current(s) = Extracted[k][place[s]]
    BY <1>0, <1>k, <1>18 DEF Act, Goto, TypeOK, SlotOK, Current
  <2>2. m = place[s] /\ n = m + 1 /\ m \in Nat
    BY <1>m, <1>n, <2>1 DEF From
  <2>3. k \in Givers
    <3>1. k \in Known /\ k.by # "engine"
      BY <1>13, <2>1 DEF HeldInv
    <3> QED BY <2>1, <3>1 DEF Givers, Messages, Echo
  <2>4. ActsLeft(s, r)' <= ActsLeft(s, r)
    BY <1>9, <2>1, <2>2
  <2>5. PICK x : x = Current(s)
    OBVIOUS
  <2>6. x = r => ActsLeft(s, r) = ActsLeft(s, r)' + 1
    <3>1. x = r => m \in Mentions(k, r)
      BY <2>1, <2>2, <2>5 DEF Mentions
    <3>2. \A i \in Mentions(k, r) :
            Cardinality(Onward(k, r, i)) = Cardinality(Onward(k, r, i + 1)) + 1
      BY <2>1, OnwardShape
    <3>3. /\ ActsLeft(s, r) = Cardinality(Onward(k, r, m))
          /\ ActsLeft(s, r)' = Cardinality(Onward(k, r, n))
      BY <1>k, <1>5, <2>1, <2>3
    <3> QED BY <2>2, <3>1, <3>2, <3>3
  <2>7. CASE updates' = updates /\ queue' = queue /\ faults' = faults + 1
    BY <1>14, <2>4, <2>7
  <2>8. CASE Updated(x) /\ faults' = faults
    <3>1. ActsOwed(r)' = ActsOwed(r)
      <4>1. W(Echo(x)) = 0
        <5>1. Echo(x).by = "engine"
          BY DEF Echo
        <5>2. Echo(x) \notin Givers
          BY <5>1, MessageAssumption DEF Givers
        <5> QED BY <5>2 DEF W
      <4>2. queue' = queue \/ queue' = BagAdd(queue, Echo(x))
        BY <2>8 DEF Updated
      <4>3. queue' = BagAdd(queue, Echo(x)) => ActsOwed(r)' = ActsOwed(r) + W(Echo(x))
        BY <1>11
      <4> QED BY <1>0, <1>11, <4>1, <4>2, <4>3
    <3>2. Copies(r, updates)' = Copies(r, updates) + (IF x = r THEN 1 ELSE 0)
      <4>1. IsABag(updates) /\ updates' = BagAdd(updates, x)
        BY <1>0, <2>8 DEF TypeOK, Updated
      <4>2. Copies(r, updates') = Copies(r, updates) + (IF r = x THEN 1 ELSE 0)
        BY <4>1, AddedCopies
      <4> QED BY <4>2 DEF Copies
    <3>3. ActsDue(r) \in Nat /\ ActsDue(r)' \in Nat /\ ActsDue(r)' >= ActsDue(r)
      BY <1>2, <2>8
    <3> QED BY <1>0, <1>1, <2>4, <2>6, <3>1, <3>2, <3>3
  <2> QED BY <1>18, <2>5, <2>7, <2>8 DEF Act, Fault
<1>19. CASE DeadlinePasses(s)
  <2>1. /\ UNCHANGED <<updates, event, place, pc>> /\ faults' = faults + 1
        /\ queue' = BagAdd(queue, k) /\ lease[s]
    BY <1>k, <1>19 DEF DeadlinePasses, Fault
  <2>2. k \in Known
    BY <1>0, <1>k, <1>13, <2>1 DEF SlotOK, TypeOK
  <2>3. ActsLeft(s, r)' = ActsLeft(s, r)
    BY <1>m, <1>n, <1>10, <2>1 DEF From
  <2>4. ActsOwed(r)' = ActsOwed(r) + W(k) /\ ActsOwed(r)' \in Nat
    BY <1>11, <2>1
  <2>5. ActsDue(r)' >= ActsDue(r) + W(k)
    BY <1>4, <2>1, <2>2
  <2> QED BY <1>0, <1>1, <1>2, <1>3, <1>12, <2>1, <2>3, <2>4, <2>5
<1>20. CASE Fail(s)
  <2>1. /\ updates' = updates /\ faults' = faults + 1 /\ event'[s] = None /\ k # None
        /\ queue' = IF lease[s] THEN BagAdd(queue, k) ELSE queue
    BY <1>0, <1>k, <1>20 DEF Fail, Fault, Refuse, Release, TypeOK
  <2>2. ActsOwed(r)' \in {ActsOwed(r), ActsOwed(r) + W(k)} /\ ActsOwed(r)' \in Nat
    BY <1>0, <1>11, <2>1
  <2>3. ActsDue(r)' >= ActsDue(r) + W(k)
    BY <1>4, <1>13, <2>1
  <2>4. ActsLeft(s, r)' = 0
    BY <1>5, <1>6, <2>1
  <2> QED BY <1>0, <1>1, <1>2, <1>3, <1>12, <2>1, <2>2, <2>3, <2>4
<1>21. ASSUME NEW x \in BagToSet(queue), Deliver(s, x) PROVE UpdateAccount(r)'
  <2>1. /\ UNCHANGED <<updates, faults>>
        /\ x \in DOMAIN queue /\ queue' = BagRemove(queue, x)
        /\ k = None /\ event'[s] = x /\ n = 0
    BY <1>0, <1>k, <1>n, <1>21 DEF Deliver, Goto, TypeOK, SlotOK, BagToSet, From
  <2>2. ActsOwed(r) = ActsOwed(r)' + W(x) /\ ActsOwed(r)' \in Nat
    BY <2>1, ActsOwedCount DEF W
  <2>3. ActsLeft(s, r) = 0 /\ ActsLeft(s, r)' = W(x)
    BY <1>5, <1>6, <1>8, <2>1
  <2> QED BY <1>0, <1>1, <1>2, <1>3, <1>12, <2>1, <2>2, <2>3
<1>22. ASSUME NEW x \in acked, DeliverAgain(s, x) PROVE UpdateAccount(r)'
  <2>1. /\ UNCHANGED <<updates, queue>> /\ faults' = faults + 1
        /\ k = None /\ event'[s] = x /\ n = 0
    BY <1>0, <1>k, <1>n, <1>22 DEF DeliverAgain, Fault, Goto, TypeOK, SlotOK, From
  <2>2. ActsDue(r)' >= ActsDue(r) + W(x)
    BY <1>4, <2>1 DEF Known
  <2>3. ActsLeft(s, r) = 0 /\ ActsLeft(s, r)' = W(x)
    BY <1>5, <1>6, <1>8, <2>1
  <2> QED BY <1>0, <1>1, <1>2, <1>3, <1>11, <1>12, <2>1, <2>2, <2>3
<1> QED BY <1>15, <1>16, <1>17, <1>18, <1>19, <1>20, <1>21, <1>22 DEF Step, Handle

\* All that the account of updates adds up are natural numbers.
LEMMA AccountTypes ==
  ASSUME Inv, NEW r
  PROVE  /\ Copies(r, updates) \in Nat /\ ActsToCome(r) \in Nat
         /\ ActsOwed(r) \in Nat /\ ActsDue(r) \in Nat
<1>1. IsABag(updates) /\ faults \in Nat
  BY MessageAssumption DEF Inv, TypeOK
<1>2. Copies(r, updates) \in Nat
  BY <1>1, AddedCopies
<1>3. ActsToCome(r) \in Nat
  <2> DEFINE f == [s \in Slots |-> ActsLeft(s, r)]
  <2>0. \A s \in Slots : ActsLeft(s, r) \in Nat
    BY SeededGive, OnwardShape DEF ActsLeft
  <2>1. \A s \in Slots : f[s] \in Nat /\ f[s] \in Int
    BY <2>0
  <2> HIDE DEF f
  <2>2. SumFunctionOnSet(f, Slots) \in Nat
    <3>1. IsFiniteSet(Slots)
      BY MessageAssumption
    <3> QED BY <2>1, <3>1, SumType
  <2> QED BY <2>2 DEF ActsToCome, f
<1>4. ActsDue(r) \in Nat
  <2> DEFINE w == Weights(r)
             M == SumFunctionOnSet(w, Seeded)
  <2>1. IsFiniteSet(Seeded) /\ \A e \in Seeded : w[e] \in Nat /\ w[e] \in Int
    BY SeededGive, SubsetCount, OnwardShape DEF Weights
  <2> HIDE DEF w
  <2>2. M \in Nat
    BY <2>1, SumType
  <2> HIDE DEF M
  <2>3. 1 + faults \in Nat
    BY <1>1
  <2>4. M * (1 + faults) \in Nat
    BY <2>2, <2>3, TimesNext
  <2> QED BY <2>4 DEF ActsDue, w, M
<1> QED BY <1>2, <1>3, <1>4, ActsOwedCount

\* The account of updates holds in every state.
LEMMA UpdateInvariant == ASSUME QuietSink PROVE Spec => [](Inv /\ HeldInv /\ UpdateInv)
<1>1. ASSUME Inv, Init PROVE HeldInv /\ UpdateInv
  <2> USE NoneAssumption, MessageAssumption
  <2>0. PICK batch \in Batches : queue = SetToBag(batch)
    BY <1>1 DEF Init
  <2>1. /\ batch \subseteq UserEvents /\ acked = {} /\ faults = 0
        /\ \A s \in Slots : event[s] = None
        /\ DOMAIN queue = batch
    BY <1>1, <2>0 DEF Init, UserEvents, SetToBag
  <2>2. Known = batch
    BY <2>1 DEF Known, BagToSet
  <2>3. HeldInv
    BY <2>1, <2>2 DEF HeldInv, Held, BagToSet
  <2>4. ASSUME NEW r PROVE UpdateAccount(r)
    <3> DEFINE f == [s \in Slots |-> ActsLeft(s, r)]
               g == [e \in Givers |-> Copies(e, queue) * Cardinality(Mentions(e, r))]
               w == Weights(r)
    <3>1. IsFiniteSet(Givers) /\ \A e \in Givers : Cardinality(Mentions(e, r)) \in Nat
      BY <1>1, SeededGive, OnwardShape
    <3>2. Copies(r, updates) = 0
      BY <1>1 DEF Init, EmptyBag, SetToBag, Copies, BagIn, BagToSet
    <3>3. ActsToCome(r) = 0
      <4>1. \A s \in Slots : f[s] = 0
        BY <1>1, <2>1, SeededGive DEF ActsLeft
      <4>2. ActsToCome(r) = SumFunctionOnSet(f, Slots)
        BY DEF ActsToCome
      <4> HIDE DEF f
      <4>3. SumFunctionOnSet(f, Slots) = Cardinality({s \in Slots : f[s] = 1})
        BY <4>1, SumOfBits
      <4>4. {s \in Slots : f[s] = 1} = {}
        BY <4>1
      <4> QED BY <4>2, <4>3, <4>4, EmptyCount
    \* What the queue owes is what users published: no message of it is there twice.
    <3>4. SumFunctionOnSet(g, Givers) = SumFunctionOnSet(w, Seeded)
      <4>1. Seeded = Givers \cap batch
        BY <2>1, <2>2 DEF Seeded, Givers
      <4>2. \A e \in Givers : Copies(e, queue) = IF e \in batch THEN 1 ELSE 0
        BY <2>0 DEF Copies, SetToBag, BagIn, BagToSet
      <4>3. \A e \in Givers : e \notin Seeded => g[e] = 0
        BY <3>1, <4>1, <4>2
      <4>4. \A e \in Seeded : g[e] = w[e]
        BY <3>1, <4>1, <4>2 DEF Weights
      <4>5. \A e \in Givers : g[e] \in Nat
        BY <3>1, <4>2
      <4>6. Seeded \subseteq Givers /\ IsFiniteSet(Seeded)
        BY <3>1, <4>1, SubsetCount
      <4> HIDE DEF g, w
      <4>7. SumFunctionOnSet(g, Givers) = SumFunctionOnSet(g, Seeded)
        BY <3>1, <4>3, <4>5, <4>6, SumOfRest
      <4>8. SumFunctionOnSet(g, Seeded) = SumFunctionOnSet(w, Seeded)
        BY <4>4, <4>6, SumSame
      <4> QED BY <4>7, <4>8
    <3>5. ActsOwed(r) = SumFunctionOnSet(w, Seeded) /\ ActsOwed(r) \in Nat
      BY <1>1, <3>4, ActsOwedCount DEF ActsOwed, ActsIn
    <3>6. ActsDue(r) = SumFunctionOnSet(w, Seeded) * (1 + 0)
      BY <2>1 DEF ActsDue
    <3> HIDE DEF f, g, w
    <3> QED BY <3>2, <3>3, <3>5, <3>6 DEF UpdateAccount
  <2> QED BY <2>3, <2>4 DEF UpdateInv
<1>2. ASSUME QuietSink, Inv, Inv', HeldInv, UpdateInv, [Next]_vars PROVE HeldInv' /\ UpdateInv'
  <2>1. ASSUME NEW s \in Slots, Step(s) PROVE HeldInv' /\ UpdateInv'
    BY <1>2, <2>1, HeldStep, UpdateAtSlot DEF UpdateInv
  <2>2. CASE UNCHANGED vars
    <3>1. HeldInv'
      BY <1>2, <2>2 DEF vars, HeldInv, Held, Known
    <3>2. ASSUME NEW r PROVE UpdateAccount(r)'
      <4>1. UpdateAccount(r)
        BY <1>2 DEF UpdateInv
      <4>2. Copies(r, updates)' = Copies(r, updates) /\ ActsOwed(r)' = ActsOwed(r)
        BY <2>2 DEF vars, Copies, ActsOwed, ActsIn, Mentions, Places, Givers
      <4>3. ActsToCome(r)' = ActsToCome(r)
        BY <2>2 DEF vars, ActsToCome, ActsLeft, From, Onward, Mentions, Places, Givers
      <4>4. ActsDue(r)' = ActsDue(r)
        BY <2>2 DEF vars, ActsDue, Weights, Seeded, Known, Mentions, Places, Givers
      <4> QED BY <4>1, <4>2, <4>3, <4>4 DEF UpdateAccount
    <3> QED BY <3>1, <3>2 DEF UpdateInv
  <2> QED BY <1>2, <2>1, <2>2 DEF Next, Step
<1> QED BY <1>1, <1>2, InvInit, Invariant, PTL DEF Spec

\* The program does not react to itself: where the sink exports no update that brings the
\* product, a resource is updated once for each mention in what users published, and
\* again only after a fault.
THEOREM UpdatesComeFromUsers == ASSUME QuietSink PROVE Spec => []UpdatesNeedUsers
<1>1. ASSUME Inv, UpdateInv PROVE UpdatesNeedUsers
  <2> SUFFICES ASSUME NEW r
               PROVE  Copies(r, updates)
                        <= Cardinality(UNION {{e} \X {i \in Places(e) : Extracted[e][i] = r} :
                                              e \in Seeded}) * (1 + faults)
    BY DEF UpdatesNeedUsers
  <2> DEFINE F == [e \in Seeded |-> Mentions(e, r)]
             c == [e \in Seeded |-> Cardinality(F[e])]
             w == Weights(r)
  <2>1. /\ Seeded \subseteq Givers /\ IsFiniteSet(Seeded)
        /\ \A e \in Seeded : IsFiniteSet(F[e]) /\ w[e] \in Nat /\ w[e] \in Int /\ c[e] = w[e]
    BY <1>1, SeededGive, SubsetCount, OnwardShape DEF Weights
  <2>2. UNION {{e} \X {i \in Places(e) : Extracted[e][i] = r} : e \in Seeded}
          = UNION {{e} \X F[e] : e \in Seeded}
    BY DEF Mentions
  <2>3. Cardinality(UNION {{e} \X F[e] : e \in Seeded}) = SumFunctionOnSet(c, Seeded)
    <3> HIDE DEF F
    <3> QED BY <2>1, CountPairs
  <2>4. SumFunctionOnSet(c, Seeded) = SumFunctionOnSet(w, Seeded)
    <3> HIDE DEF c, w
    <3> QED BY <2>1, SumSame
  <2>5. ActsDue(r) = SumFunctionOnSet(c, Seeded) * (1 + faults)
    BY <2>4 DEF ActsDue
  <2>6. Copies(r, updates) <= ActsDue(r)
    <3>1. /\ Copies(r, updates) \in Nat /\ ActsOwed(r) \in Nat /\ ActsDue(r) \in Nat
          /\ ActsToCome(r) \in Nat
      BY <1>1, AccountTypes
    <3> QED BY <1>1, <3>1 DEF UpdateInv, UpdateAccount
  <2> QED BY <2>2, <2>3, <2>5, <2>6
<1> QED BY <1>1, UpdateInvariant, PTL

=============================================================================
