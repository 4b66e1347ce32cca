----------------------------- MODULE PromotionSpec -----------------------------
(***************************************************************************)
(* What the trusted promotion promises of production: the current build    *)
(* changes only along a granted approval, from the build the approval      *)
(* names to the build it names, and every approval is good for one try.    *)
(***************************************************************************)
CONSTANTS
  Builds,   \* full commit ids
  Ids       \* ids of authorizations

Approvals == [action : {"promote", "rollback"}, candidate : Builds, previous : Builds]

From(approval) == IF approval.action = "promote" THEN approval.previous ELSE approval.candidate
To(approval) == IF approval.action = "promote" THEN approval.candidate ELSE approval.previous

VARIABLES
  build,     \* the current build of production
  granted,   \* approvals ever granted, with their ids
  spent      \* ids that are used up

specVars == <<build, granted, spent>>

SpecInit ==
  /\ build \in Builds
  /\ granted = {}
  /\ spent = {}

Grant(id, approval) ==
  /\ granted' = granted \union {<<id, approval>>}
  /\ UNCHANGED <<build, spent>>

\* The approval takes effect.
Move(id, approval) ==
  /\ id \notin spent
  /\ <<id, approval>> \in granted
  /\ From(approval) = build
  /\ build' = To(approval)
  /\ spent' = spent \union {id}
  /\ UNCHANGED granted

\* The try failed before production changed.
Waste(id) ==
  /\ id \notin spent
  /\ spent' = spent \union {id}
  /\ UNCHANGED <<build, granted>>

SpecNext ==
  \E id \in Ids :
    \/ \E approval \in Approvals : Grant(id, approval) \/ Move(id, approval)
    \/ Waste(id)

PromotionSafety == SpecInit /\ [][SpecNext]_specVars
===============================================================================
