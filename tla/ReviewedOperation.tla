--------------------------- MODULE ReviewedOperation ---------------------------
(***************************************************************************)
(* What the administration helper promises of every host mutation: a human *)
(* reviewed exactly this operation on exactly this commit beforehand, under *)
(* an id of its own, and it is started at most once.                       *)
(***************************************************************************)
EXTENDS Naturals

CONSTANTS
  Ids,
  Operations   \* records with an id, what may be reviewed

VARIABLES
  reviewed,   \* operations a human has approved
  started     \* how often a command was started for each id

reviewVars == <<reviewed, started>>

ReviewInit == reviewed = {} /\ started = [id \in Ids |-> 0]

Review(op) ==
  /\ \A other \in reviewed : other.id # op.id
  /\ reviewed' = reviewed \union {op}
  /\ UNCHANGED started

Start(op) ==
  /\ op \in reviewed
  /\ started[op.id] = 0
  /\ started' = [started EXCEPT ![op.id] = 1]
  /\ UNCHANGED reviewed

ReviewNext == \E op \in Operations : Review(op) \/ Start(op)

ReviewedOnce == ReviewInit /\ [][ReviewNext]_reviewVars
===============================================================================
