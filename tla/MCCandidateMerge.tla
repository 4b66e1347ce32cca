---------------------------- MODULE MCCandidateMerge ----------------------------
(* Instances of CandidateMerge for TLC. *)
EXTENDS CandidateMerge, TLC

CONSTANTS c1, c2, conversation

\* Two candidates; the evidence of one of them can be tombstoned.
PairEvidence == (c1 :> {}) @@ (c2 :> {conversation})

ClientSymmetry == Permutations(Clients)

\* A candidate is written a fourth time only where the record was always filled in in
\* one way.  Two calls at once fill it in in that way too, find no tombstone, and like
\* calls after a tombstone find a candidate written twice at most.
SmallRaces ==
  LET racing == \A k \in Clients : pc[k] # "idle"
      plain == \A r \in records \union ({req[k] : k \in Clients} \ {None}) : r.fields = "plain"
  IN /\ racing => plain /\ deletions = {}
     /\ ~ plain => \A c \in Candidates : clock[c] < MaxWrites
     /\ (racing \/ deletions # {}) => \A c \in Candidates : clock[c] + 1 < MaxWrites

WarnedSelections == {{c1, c2}}
===============================================================================
