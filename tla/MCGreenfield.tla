---------------------------- MODULE MCGreenfield ----------------------------
EXTENDS Greenfield

\* A user's log that is pushed to POST /.
Log(service, phrase, name, project, disks, seed) ==
  [by |-> "user", push |-> "/", form |-> "log", service |-> service, named |-> TRUE,
   says |-> {phrase}, name |-> name, project |-> project, disks |-> disks, seed |-> seed]

\* An instance with a disk of its own and one that takes its name.
Instance == Log("compute.googleapis.com", "instances.insert", "vm", "alpha",
                << "data", Unnamed >>, "given")
Update   == Log("cloudresourcemanager.googleapis.com", "UpdateProject", "alpha", "alpha",
                <<>>, "given")
Create   == Log("cloudresourcemanager.googleapis.com", "CreateProject", "beta", "beta",
                <<>>, "given")
NoLabels == Log("compute.googleapis.com", "disks.insert", "spare", "alpha", <<>>, "null")
NoSeed   == Log("storage.googleapis.com", "storage.buckets.create", "logs", "beta",
                <<>>, "absent")
Topic    == Log("pubsub.googleapis.com", "google.pubsub.v1.Publisher.CreateTopic", "news",
                "alpha", <<>>, "given")
Stranger == Log("iam.googleapis.com", "CreateServiceAccount", "robot", "alpha", <<>>, "absent")
NoMethod == [Topic EXCEPT !.named = FALSE, !.says = {}]

Garbled(push) == [Stranger EXCEPT !.push = push, !.form = "garbled"]
Ingress       == [Update EXCEPT !.push = "/events/pubsub"]
Odd           == [Stranger EXCEPT !.form = "odd"]

MCBatches == { {Update, Instance},
               {Update, NoSeed},
               {Update, Ingress, Garbled("/events/pubsub")},
               {Create, NoLabels, Odd},
               {Topic, Stranger, NoMethod, Garbled("/")} }

\* One event with three resources, two of which are supported.
StopsBatches == { {Instance} }
=============================================================================
