-------------------------- MODULE MCRegistryCache --------------------------
EXTENDS RegistryCache, TLC

\* The Greenfield handler keeps one reader for all of its threads; a Brownfield
\* request has a reader of its own, which it forces.
Greenfield == [t \in Threads |-> "greenfield"]
Mixed      == {[t \in Threads |-> IF t = u THEN "brownfield" ELSE "greenfield"] : u \in Threads}
BothUses   == {Greenfield} \cup Mixed

\* The threads are alike, and so are the files.
Alike == Permutations(Threads) \cup Permutations(Files)
=============================================================================
