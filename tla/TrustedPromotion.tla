---------------------------- MODULE TrustedPromotion ----------------------------
(***************************************************************************)
(* The trusted adapter (trusted_promotion.py): it promotes a build to      *)
(* production and rolls one back, under a lock, with approvals that are    *)
(* files moved from pending to consumed, a hash-chained journal, a release *)
(* pointer (the symlink current) and a marker file (current_build).        *)
(*                                                                         *)
(* An operation is a sequence of writes to files that nothing undoes: it   *)
(* may stop after any of them, because the process dies, a command cannot  *)
(* be started or a check raises.  Then the lock is released and the files  *)
(* stay as they are.                                                       *)
(*                                                                         *)
(* Git verification, the deployment gate, the times of evidence and the    *)
(* tests of the candidate are one answer, given when the plan is built.    *)
(***************************************************************************)
CONSTANTS
  Builds,      \* full commit ids
  Manifests,   \* deployment manifests: a candidate and the build before it
  Ids,         \* ids of authorizations
  Operators,   \* processes that run minillm-promote
  None         \* no build, no approval, nobody

Approvals == [action : {"promote", "rollback"}, candidate : Builds, previous : Builds]

\* The approval of a manifest for an action.
For(action, manifest) ==
  [action |-> action, candidate |-> manifest.candidate, previous |-> manifest.previous]

\* The plan of a running operation, and whether its restart and smokes passed.
Jobs == [approval : Approvals, id : Ids, passed : BOOLEAN]

Operations == [candidate : Builds, previous : Builds, status : {"completed", "stopped"}]

\* Records of the journal; command evidence and blocked plans are not told apart
\* and left out.
Entries ==
  [type : {"plan", "authorization_consumed", "outcome"}, approval : Approvals, id : Ids, passed : BOOLEAN]

ASSUME PromotionAssumption ==
  /\ Manifests \subseteq [candidate : Builds, previous : Builds]
  /\ None \notin Builds \union Ids \union Operators \union Approvals \union Jobs

VARIABLES
  releases,     \* complete release trees
  pointer,      \* the build the symlink current names
  marker,       \* the build in current_build; None when the file is missing or empty
  pending,      \* approvals/pending
  consumed,     \* approvals/consumed
  entries,      \* the records of the journal
  tail,         \* the end of the journal file
  operations,   \* results persisted for a later rollback
  lock,         \* who holds promotion.lock
  pc,           \* where each operator stands
  job           \* its operation

hostVars == <<releases, pointer, marker>>
approvalVars == <<pending, consumed>>
journalVars == <<entries, tail>>
callVars == <<lock, pc, job>>
vars == <<releases, pointer, marker, pending, consumed, entries, tail, operations, lock, pc, job>>

Labels == {"idle", "checks", "plan", "consume", "log", "stage", "swap", "mark",
           "restart", "smoke", "outcome", "persist"}

\* The bootstrap script has installed a first release and set the pointer; it may
\* have stopped before it wrote the marker.
Init ==
  /\ \E first \in Builds :
       /\ releases = {first}
       /\ pointer = first
       /\ marker \in {first, None}
  /\ pending = [a \in Ids |-> None]
  /\ consumed = [a \in Ids |-> None]
  /\ entries = {}
  /\ tail = "whole"
  /\ operations = {}
  /\ lock = None
  /\ pc = [p \in Operators |-> "idle"]
  /\ job = [p \in Operators |-> None]

-------------------------------------------------------------------------------
(* The journal.                                                            *)

\* Mutant: the chain is not read before a record is added.
AppendUnread(records) ==
  /\ tail' = IF tail = "whole" THEN "whole" ELSE "broken"
  /\ entries' = IF tail = "whole" THEN entries \union records ELSE entries

\* append reads the whole chain first.  A record added to a last line without its
\* newline is written, and makes that line unreadable.
Append(records) ==
  /\ tail # "broken"
  /\ tail' = IF tail = "whole" THEN "whole" ELSE "broken"
  /\ entries' = IF tail = "whole" THEN entries \union records ELSE entries

\* append raises after a short write: the line is cut, or only its newline is
\* missing.
AppendCut(records) ==
  /\ tail # "broken"
  /\ \/ tail' = "broken" /\ UNCHANGED entries
     \/ /\ tail = "whole"
        /\ tail' = "unterminated"
        /\ entries' = entries \union records

-------------------------------------------------------------------------------
(* The approvals.                                                          *)

\* write_human_authorization, of a manifest: it never overwrites a pending approval;
\* whether the id was used before it does not know.
Authorize(a, action, manifest) ==
  /\ pending[a] = None
  /\ pending' = [pending EXCEPT ![a] = For(action, manifest)]
  /\ UNCHANGED <<consumed, operations>>
  /\ UNCHANGED <<hostVars, journalVars, callVars>>

-------------------------------------------------------------------------------
(* An operation, common parts.                                             *)

Approval(p) == job[p].approval
Promoting(p) == Approval(p).action = "promote"

\* The build that must be current, and the build to activate.
Expected(p) == IF Promoting(p) THEN Approval(p).previous ELSE Approval(p).candidate
Target(p) == IF Promoting(p) THEN Approval(p).candidate ELSE Approval(p).previous

Entry(p, type, passed) ==
  [type |-> type, approval |-> Approval(p), id |-> job[p].id, passed |-> passed]

Goto(p, label) ==
  /\ pc' = [pc EXCEPT ![p] = label]
  /\ UNCHANGED <<lock, job>>

\* The operation returns or raises, and the lock is released.
Leave(p) ==
  /\ pc' = [pc EXCEPT ![p] = "idle"]
  /\ job' = [job EXCEPT ![p] = None]
  /\ lock' = None

\* The lock is taken without waiting.
Enter(p, label, approval, a) ==
  /\ pc[p] = "idle"
  /\ lock = None
  /\ lock' = p
  /\ pc' = [pc EXCEPT ![p] = label]
  /\ job' = [job EXCEPT ![p] = [approval |-> approval, id |-> a, passed |-> FALSE]]
  /\ UNCHANGED operations
  /\ UNCHANGED <<hostVars, approvalVars, journalVars>>

\* Mutant: the marker is believed without a look at the pointer.
ReadableAlways == TRUE

\* _read_current_build does not raise: a marker agrees with the pointer.
Readable == marker \in {pointer, None}

\* execute_promotion: a manifest names the candidate and the build before it.
StartPromotion(p, manifest, a) == Enter(p, "checks", For("promote", manifest), a)

\* execute_rollback, of an operation whose result was persisted.
StartRollback(p, operation, a) ==
  /\ operation \in operations
  /\ Enter(p, "plan", For("rollback", operation), a)

\* The process dies, a check raises, a command cannot be started: no more is done.
Abort(p) ==
  /\ pc[p] # "idle"
  /\ Leave(p)
  /\ UNCHANGED operations
  /\ UNCHANGED <<hostVars, approvalVars, journalVars>>

\* A step that adds records to the journal and goes on with next, or is cut short.
Journaled(p, records, next) ==
  \/ Append(records) /\ next
  \/ AppendCut(records) /\ Leave(p)

-------------------------------------------------------------------------------
(* An operation, step by step.                                             *)

\* The preflight commands run and leave their evidence.
Checks(p) ==
  /\ pc[p] = "checks"
  /\ Journaled(p, {}, Goto(p, "plan"))
  /\ UNCHANGED operations
  /\ UNCHANGED <<hostVars, approvalVars>>

\* build_promotion_plan, or build_rollback_plan and test_rollback_plan: the plan is
\* ready when the pending approval names this action and these builds, the release
\* to go back to is there, the current build is the expected one or unknown, and
\* everything else was found in order.
Ready(p, others) ==
  /\ others
  /\ pending[job[p].id] = Approval(p)
  /\ Approval(p).previous \in releases
  /\ marker \in {Expected(p), None}

Plan(p) ==
  /\ pc[p] = "plan"
  /\ Readable
  /\ pending[job[p].id] # None
  /\ \E others \in BOOLEAN :
       IF Ready(p, others)
       THEN Journaled(p, {Entry(p, "plan", TRUE)}, Goto(p, "consume"))
       ELSE Journaled(p, {}, Leave(p))
  /\ UNCHANGED operations
  /\ UNCHANGED <<hostVars, approvalVars>>

\* The approval is moved from pending to consumed.
Consume(p) ==
  /\ pc[p] = "consume"
  /\ pending[job[p].id] # None
  /\ consumed[job[p].id] = None
  /\ consumed' = [consumed EXCEPT ![job[p].id] = pending[job[p].id]]
  /\ pending' = [pending EXCEPT ![job[p].id] = None]
  /\ Goto(p, "log")
  /\ UNCHANGED operations
  /\ UNCHANGED <<hostVars, journalVars>>

Log(p) ==
  /\ pc[p] = "log"
  /\ Journaled(p, {Entry(p, "authorization_consumed", TRUE)},
               Goto(p, IF Promoting(p) THEN "stage" ELSE "swap"))
  /\ UNCHANGED operations
  /\ UNCHANGED <<hostVars, approvalVars>>

\* _stage_release: a copy of the previous release with the approved files replaced,
\* renamed into place once.
Stage(p) ==
  /\ pc[p] = "stage"
  /\ Target(p) \notin releases
  /\ Approval(p).previous \in releases
  /\ releases' = releases \union {Target(p)}
  /\ Goto(p, "swap")
  /\ UNCHANGED <<pointer, marker, operations>>
  /\ UNCHANGED <<approvalVars, journalVars>>

\* Mutant: the plan is trusted to have looked at the current build.
SwapUncompared(p) ==
  /\ pc[p] = "swap"
  /\ Readable
  /\ Target(p) \in releases
  /\ pointer' = Target(p)
  /\ Goto(p, "mark")
  /\ UNCHANGED <<releases, marker, operations>>
  /\ UNCHANGED <<approvalVars, journalVars>>

\* _activate_release: compare, then replace the pointer ...
Swap(p) ==
  /\ pc[p] = "swap"
  /\ Readable
  /\ marker = Expected(p)
  /\ Target(p) \in releases
  /\ pointer' = Target(p)
  /\ Goto(p, "mark")
  /\ UNCHANGED <<releases, marker, operations>>
  /\ UNCHANGED <<approvalVars, journalVars>>

\* ... and then the marker.
Mark(p) ==
  /\ pc[p] = "mark"
  /\ marker' = Target(p)
  /\ Goto(p, "restart")
  /\ UNCHANGED <<releases, pointer, operations>>
  /\ UNCHANGED <<approvalVars, journalVars>>

Passed(p, result, label) ==
  /\ pc' = [pc EXCEPT ![p] = label]
  /\ job' = [job EXCEPT ![p].passed = result]
  /\ UNCHANGED lock

\* The service is restarted; after a failure no smoke is run.
Restart(p) ==
  /\ pc[p] = "restart"
  /\ \E result \in BOOLEAN :
       Journaled(p, {}, Passed(p, result, IF result THEN "smoke" ELSE "outcome"))
  /\ UNCHANGED operations
  /\ UNCHANGED <<hostVars, approvalVars>>

Smoke(p) ==
  /\ pc[p] = "smoke"
  /\ \E result \in BOOLEAN : Journaled(p, {}, Passed(p, result, "outcome"))
  /\ UNCHANGED operations
  /\ UNCHANGED <<hostVars, approvalVars>>

\* Mutant: the audit of the outcome is best effort.
OutcomeUnaudited(p) ==
  /\ pc[p] = "outcome"
  /\ LET record == Entry(p, "outcome", job[p].passed) IN
     /\ Append({record}) \/ AppendCut({record})
     /\ IF Promoting(p) THEN Goto(p, "persist") ELSE Leave(p)
  /\ UNCHANGED operations
  /\ UNCHANGED <<hostVars, approvalVars>>

\* The outcome is appended; a rollback ends with it.
Outcome(p) ==
  /\ pc[p] = "outcome"
  /\ Journaled(p, {Entry(p, "outcome", job[p].passed)},
               IF Promoting(p) THEN Goto(p, "persist") ELSE Leave(p))
  /\ UNCHANGED operations
  /\ UNCHANGED <<hostVars, approvalVars>>

\* assess_promotion_execution, of a ready plan that was applied.
StatusOf(p) == IF job[p].passed THEN "completed" ELSE "stopped"

\* _persist_promotion_result
Persist(p) ==
  /\ pc[p] = "persist"
  /\ operations' = operations \union
       {[candidate |-> Approval(p).candidate,
         previous  |-> Approval(p).previous,
         status    |-> StatusOf(p)]}
  /\ Leave(p)
  /\ UNCHANGED <<hostVars, approvalVars, journalVars>>

OperatorStep(p) ==
  \/ \E m \in Manifests, a \in Ids : StartPromotion(p, m, a)
  \/ \E o \in operations, a \in Ids : StartRollback(p, o, a)
  \/ Checks(p)
  \/ Plan(p)
  \/ Consume(p)
  \/ Log(p)
  \/ Stage(p)
  \/ Swap(p)
  \/ Mark(p)
  \/ Restart(p)
  \/ Smoke(p)
  \/ Outcome(p)
  \/ Persist(p)
  \/ Abort(p)

Next ==
  \/ \E a \in Ids, action \in {"promote", "rollback"}, m \in Manifests : Authorize(a, action, m)
  \/ \E p \in Operators : OperatorStep(p)

Spec == Init /\ [][Next]_vars

-------------------------------------------------------------------------------
(* Properties.                                                             *)

\* Every variable has its type, and whoever is inside an operation holds the lock.
TypeOK ==
  /\ releases \subseteq Builds
  /\ pointer \in Builds
  /\ marker \in Builds \union {None}
  /\ pending \in [Ids -> Approvals \union {None}]
  /\ consumed \in [Ids -> Approvals \union {None}]
  /\ entries \subseteq Entries
  /\ tail \in {"whole", "unterminated", "broken"}
  /\ operations \subseteq Operations
  /\ lock \in Operators \union {None}
  /\ pc \in [Operators -> Labels]
  /\ job \in [Operators -> Jobs \union {None}]
  /\ \A p \in Operators : (pc[p] = "idle") = (job[p] = None) /\ (pc[p] # "idle" => lock = p)

\* The approvals taken by an operation that has not yet moved the pointer.
Undecided == {job[p].id : p \in {q \in Operators : pc[q] \in {"log", "stage", "swap"}}}

\* The approvals in the two directories, and those used up.
GrantedNow ==
  {g \in Ids \X Approvals : g[2] \in {pending[g[1]], consumed[g[1]]}}
SpentNow == {a \in Ids : consumed[a] # None} \ Undecided

Promise == INSTANCE PromotionSpec
             WITH build <- pointer, granted <- GrantedNow, spent <- SpentNow

\* Whatever crashes, is granted again under an old id or runs at the same time:
\* production moves only from the build an approval names to the build it names,
\* and no approval moves it twice.
ImplementsPromotion == Promise!PromotionSafety

\* When the pointer moves, the journal can be read in full and holds the ready plan
\* and the consumption of the approval, even if an earlier record was cut short.
MovesAreJournaled ==
  [][pointer' # pointer =>
       /\ tail = "whole"
       /\ \E plan, e \in entries :
            /\ plan.type = "plan" /\ plan.passed
            /\ e.type = "authorization_consumed"
            /\ plan.id = e.id /\ plan.approval = e.approval
            /\ consumed[e.id] = e.approval
            /\ pointer = Promise!From(e.approval)
            /\ pointer' = Promise!To(e.approval)]_vars

\* A result from which a later process may roll back is the outcome that the
\* journal holds of that promotion, made under a consumed approval.
ResultsAreJournaled ==
  \A o \in operations :
    \E e \in entries :
      /\ e.type = "outcome"
      /\ e.approval = For("promote", o)
      /\ e.passed = (o.status = "completed")
      /\ consumed[e.id] = e.approval

\* An activation stopped between pointer and marker is never built upon: nothing
\* moves production or uses up an approval until somebody repairs it.
SplitFreezes ==
  [][(marker \notin {pointer, None} /\ \A p \in Operators : pc[p] # "mark") =>
       UNCHANGED <<pointer, marker, consumed>>]_vars
===============================================================================
