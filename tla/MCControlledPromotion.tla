------------------------- MODULE MCControlledPromotion -------------------------
(* A first release, a candidate with two manifests, and one to follow it. *)
EXTENDS ControlledPromotion, TLC

CONSTANTS b0, b1, b2

People == {"builder", "prod", "root", "alice"}
WholeTree == [b \in {b0, b1, b2} |-> {"source", "documentation", "control", "controller"}]

Candidate(b, previous, artifacts) ==
  [candidate |-> b, previous |-> previous, artifacts |-> artifacts, redirected |-> {},
   builder |-> "builder", production |-> "prod", placed |-> TRUE, reported |-> TRUE,
   reference |-> "previous"]

Chain ==
  {Candidate(b1, b0, {"source"}),
   Candidate(b1, b0, {"source", "controller"}),
   Candidate(b2, b1, {"documentation"})}
ChainManifests == {ManifestOf(d) : d \in Chain}

\* Nothing tells ids apart, or operators.
Symmetry == Permutations(Ids) \union Permutations(Operators)
===============================================================================
