---------------------------- MODULE MCBrownfield ----------------------------
EXTENDS Dashboard, TLC

\* core, a dev project, is the project of the engine; gamma is another environment.
MCProjects == {"alpha", "beta", "gamma", "core"}
MCMarks    == ("alpha" :> {"dev"}) @@ ("beta" :> {"poc"}) @@ ("gamma" :> {"prod"})
                @@ ("core" :> {"dev"})
MCRank     == ("alpha" :> 1) @@ ("beta" :> 2) @@ ("core" :> 3) @@ ("gamma" :> 4)
MCKeys     == {"team", "product"}

With(team, product) == [k \in MCKeys |-> IF k = "team" THEN team ELSE product]

App(product, team, bindings) ==
  [product |-> product, root |-> With(team, product), bindings |-> bindings]

Unsaid == With(Absent, Absent)

\* A baseline for alpha, gamma and core, and an application bound to alpha.
FirstRegistry == << App("shop", "blue", "alpha" :> Unsaid),
                    App("project", "red", [p \in {"alpha", "gamma", "core"} |-> Unsaid]) >>
\* The file of shop is withdrawn, so that each project is bound once; beta is
\* registered, by a file named after it, and the baseline changes its team.
NextRegistry  == << App("project", "green", [p \in {"alpha", "gamma", "core"} |-> Unsaid]),
                    App("beta", "red", "beta" :> With("blue", Absent)) >>
\* What a load makes of them while the files are uploaded.
HalfWay       == << NextRegistry[1], FirstRegistry[1] >>
MCRegistries  == {FirstRegistry, NextRegistry, HalfWay}

MCBaseline == [p \in MCProjects |-> {"project", p}]

\* Resource -> its project and its type.
Catalogue ==
  ("alphaProject" :> <<"alpha", "Project">>) @@ ("betaProject" :> <<"beta", "Project">>)
    @@ ("gammaProject" :> <<"gamma", "Project">>) @@ ("coreProject" :> <<"core", "Project">>)
    @@ ("alphaDisk" :> <<"alpha", "Disk">>) @@ ("registryBucket" :> <<"beta", Bucket>>)

MCResources == DOMAIN Catalogue
MCProjectOf == [r \in MCResources |-> Catalogue[r][1]]
MCTypeOf    == [r \in MCResources |-> Catalogue[r][2]]
MCEnabled   == [p \in MCProjects |-> IF p = "alpha" THEN {"Disk", Bucket} ELSE {Bucket}]

\* A gap in alpha, where a product is all there is; beta has what it will need.
MCEstates ==
  {[r \in MCResources |-> CASE MCProjectOf[r] = "alpha" -> With(Absent, "shop")
                            [] r = "betaProject" -> With("blue", Absent)
                            [] OTHER -> Unsaid]}

MCClientOf == [r \in MCResources |-> CASE MCTypeOf[r] = Container -> Adapter!ResourceManager
                                       [] MCTypeOf[r] = "Disk" -> Adapter!Compute
                                       [] OTHER -> Adapter!Storage]

RequestSymmetry == Permutations(Requests)
=============================================================================
