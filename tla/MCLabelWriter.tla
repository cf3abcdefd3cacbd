--------------------------- MODULE MCLabelWriter ---------------------------
EXTENDS LabelWriter, TLC

\* "team" is a governance key the registry defines, "note" one that users own and
\* "product" the seed that the executor pops from projects.
With(team, note) ==
  [k \in Keys |-> CASE k = "team" -> team [] k = "note" -> note [] OTHER -> Absent]

\* One batch delivered twice; two runs with different registries or findings.
SameDesired  == [w \in Writers |-> With("red", Absent)]
OtherDesired == [w \in Writers |-> IF w = "w1" THEN With("red", Absent) ELSE With("blue", "red")]
BothDemands  == {SameDesired, OtherDesired}

\* The resource before: users may have put anything there, and the product.
AnyLabels == {l \in [Keys -> {Absent, "old"}] : "product" \in Keys => l["product"] = "old"}

AllClients  == {ClientFor(service) : service \in Services}
OnlyProject == {ClientFor("cloudresourcemanager")}
=============================================================================
