---- MODULE MCEventGate ----
\* Teams, identifiers and handlers are interchangeable.
EXTENDS EventGate, TLC

Symmetry == Permutations(Teams) \union Permutations(Ids) \union Permutations(Handlers)
====
