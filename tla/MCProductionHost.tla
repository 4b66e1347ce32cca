---------------------------- MODULE MCProductionHost ----------------------------
(* An instance of ProductionHost for TLC. *)
EXTENDS ProductionHost

CONSTANTS b0, b1, r1, r2, db, h

\* Two ids: a deployment, or a rollback, and what follows it.
Written ==
  {[id |-> r1, kind |-> "deploy", candidate |-> b1, previous |-> b0],
   [id |-> r1, kind |-> "rollback", candidate |-> b1, previous |-> b0],
   [id |-> r2, kind |-> "cutover", candidate |-> b0, previous |-> b0],
   [id |-> r2, kind |-> "rollback", candidate |-> b1, previous |-> b0]}
===============================================================================
