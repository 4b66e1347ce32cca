------------------------------ MODULE AdminHelper ------------------------------
(***************************************************************************)
(* minillm-admin (scripts/minillm_admin.py): a root helper that starts      *)
(* deployments, cutovers and rollbacks without a password, each of them     *)
(* only as a human reviewed it before.                                      *)
(*                                                                         *)
(* An invocation holds admin.lock.  A review copies the request into a      *)
(* directory named by its id, prepares the repository, has minillm-promote  *)
(* write an approval and leaves one pending file per kind of operation.  An *)
(* execution checks that file, moves it to consumed, starts a command and   *)
(* waits for it.  At the end one record goes to a hash-chained journal.     *)
(*                                                                         *)
(* The helper may die between any two of these steps.  Its lock goes with   *)
(* it, but a command it has started is a process of its own and goes on.    *)
(*                                                                         *)
(* Schemas, owners, modes and digests of files are one answer of each step: *)
(* in order or denied.                                                     *)
(***************************************************************************)
EXTENDS Naturals

CONSTANTS
  Builds,      \* full commit ids
  Ids,         \* request ids; the approval of a request gets a fresh id, named by it
  Helpers,     \* processes that run minillm-admin
  Requests,    \* the requests humans write
  None

Kinds == {"deploy", "cutover", "rollback"}

\* A request, and the reviewed operation made of it.  previous is the build before
\* candidate in the manifest; a cutover has no manifest.
Operations == [id : Ids, kind : Kinds, candidate : Builds, previous : Builds]

\* The command that executes an operation, and the helper that waits for it.
Commands == [op : Operations, waiter : Helpers \union {None},
             phase : {"running", "moved", "completed", "stopped", "failed"}]

\* Records of the journal.
Records == [kind : Kinds \union {"review"}, id : Ids \union {None},
            result : {"error", "reviewed", "completed"},
            rollback : {"not_requested", "required", "completed"}]

ASSUME AdminAssumption ==
  /\ Requests \subseteq Operations
  /\ None \notin Builds \union Ids \union Helpers \union Operations \union Commands \union Records

VARIABLES
  current,     \* the build the symlink current names
  checkout,    \* the commit checked out in the trusted repository
  granted,     \* approvals in the store of minillm-promote
  spent,       \* ids of approvals it has consumed
  material,    \* ids with a directory under requests/material
  pending,     \* requests/pending, one file per kind
  consumed,    \* requests/consumed
  results,     \* ids with a file under results
  expired,     \* ids of requests past expires_at
  journal,     \* records of the audit journal that say something succeeded
  lock,        \* who holds admin.lock
  pc,          \* where each helper stands
  job,         \* the operation it handles
  record,      \* what it will append to the journal
  commands,    \* running and finished commands
  started,     \* history: how often a command was started for each id
  orphaned     \* history: operations whose helper died while their command ran

runVars == <<commands, started, orphaned>>
storeVars == <<granted, spent>>
requestVars == <<material, pending, consumed, results, expired>>
callVars == <<lock, pc, job, record>>
hostVars == <<current, checkout>>
adminVars == <<current, checkout, granted, spent, material, pending, consumed, results, expired,
               journal, lock, pc, job, record, commands, started, orphaned>>

Production == INSTANCE PromotionSpec WITH build <- current

Labels == {"idle", "prepare", "grant", "pend", "verify", "consume", "launch", "wait",
           "result", "audit"}

\* The helper is installed and nothing was requested; the repository is at the
\* build the bootstrap installed.
AdminInit ==
  /\ current \in Builds
  /\ checkout = current
  /\ granted = {}
  /\ spent = {}
  /\ material = {}
  /\ pending = [k \in Kinds |-> None]
  /\ consumed = {}
  /\ results = {}
  /\ expired = {}
  /\ journal = {}
  /\ lock = None
  /\ pc = [p \in Helpers |-> "idle"]
  /\ job = [p \in Helpers |-> None]
  /\ record = [p \in Helpers |-> None]
  /\ commands = {}
  /\ started = [id \in Ids |-> 0]
  /\ orphaned = {}

-------------------------------------------------------------------------------
(* Parts of an invocation.                                                 *)

Goto(p, label) ==
  /\ pc' = [pc EXCEPT ![p] = label]
  /\ UNCHANGED <<lock, job, record>>

\* The lock is taken without waiting; a second invocation is refused unrecorded.
Enter(p, label, op, entry) ==
  /\ pc[p] = "idle"
  /\ lock = None
  /\ lock' = p
  /\ pc' = [pc EXCEPT ![p] = label]
  /\ job' = [job EXCEPT ![p] = op]
  /\ record' = [record EXCEPT ![p] = entry]

Entry(kind, id, result, rollback) ==
  [kind |-> kind, id |-> id, result |-> result, rollback |-> rollback]

\* The invocation has its answer and goes on to the journal.
Finish(p, result, rollback) ==
  /\ pc' = [pc EXCEPT ![p] = "audit"]
  /\ record' = [record EXCEPT ![p].result = result, ![p].rollback = rollback]
  /\ UNCHANGED <<lock, job>>

\* An AdminError: what was written stays as it is.
Deny(p) == Finish(p, "error", "not_requested")

Leave(p) ==
  /\ pc' = [pc EXCEPT ![p] = "idle"]
  /\ job' = [job EXCEPT ![p] = None]
  /\ record' = [record EXCEPT ![p] = None]
  /\ lock' = None

-------------------------------------------------------------------------------
(* review                                                                  *)

\* Mutant: a directory that is there is taken again.
UnusedOrLeft(op) ==
  /\ pending[op.kind] = None
  /\ \A other \in consumed : other.id # op.id
  /\ op.id \notin results

\* _assert_request_id_unused, and the directory that must be new.
Unused(op) ==
  /\ pending[op.kind] = None
  /\ \A other \in consumed : other.id # op.id
  /\ op.id \notin results
  /\ op.id \notin material

\* The request is read and in order, its id is new: its directory is made, which
\* uses the id up.
StartReview(p, op) ==
  /\ IF op.id \notin expired /\ Unused(op)
     THEN /\ Enter(p, "prepare", op, Entry("review", None, "error", "not_requested"))
          /\ material' = material \union {op.id}
     ELSE /\ Enter(p, "audit", op, Entry("review", None, "error", "not_requested"))
          /\ UNCHANGED material
  /\ UNCHANGED <<pending, consumed, results, expired, runVars>>
  /\ UNCHANGED <<hostVars, storeVars, journal>>

\* The material is copied.  A deployment fetches its bundle and checks the candidate
\* out; the others ask that their candidate is the current release.
Prepare(p) ==
  /\ pc[p] = "prepare"
  /\ \/ /\ job[p].kind = "deploy"
        /\ checkout' = job[p].candidate
        /\ Goto(p, "grant")
     \/ /\ job[p].kind # "deploy"
        /\ current = job[p].candidate
        /\ UNCHANGED checkout
        /\ Goto(p, IF job[p].kind = "cutover" THEN "pend" ELSE "grant")
     \/ UNCHANGED checkout /\ Deny(p)
  /\ UNCHANGED <<current, runVars>>
  /\ UNCHANGED <<storeVars, requestVars, journal>>

Approval(op) ==
  [action    |-> IF op.kind = "deploy" THEN "promote" ELSE "rollback",
   candidate |-> op.candidate,
   previous  |-> op.previous]

\* _authorize: minillm-promote verifies that the repository is at the candidate and
\* writes an approval.
Grant(p) ==
  /\ pc[p] = "grant"
  /\ \/ /\ checkout = job[p].candidate
        /\ Production!Grant(job[p].id, Approval(job[p]))
        /\ Goto(p, "pend")
     \/ Deny(p) /\ UNCHANGED <<current, storeVars>>
  /\ UNCHANGED <<checkout, runVars>>
  /\ UNCHANGED <<requestVars, journal>>

\* The reviewed operation is written to pending.
Pend(p) ==
  /\ pc[p] = "pend"
  /\ \/ /\ pending' = [pending EXCEPT ![job[p].kind] = job[p]]
        /\ pc' = [pc EXCEPT ![p] = "audit"]
        /\ record' = [record EXCEPT ![p] = Entry("review", job[p].id, "reviewed", "not_requested")]
        /\ UNCHANGED <<lock, job>>
     \/ Deny(p) /\ UNCHANGED pending
  /\ UNCHANGED <<material, consumed, results, expired, runVars>>
  /\ UNCHANGED <<hostVars, storeVars, journal>>

-------------------------------------------------------------------------------
(* execute_reviewed                                                        *)

Loadable(kind) == pending[kind] # None /\ pending[kind].id \notin expired

\* Mutant: the release is left to the command.
FitsAlways(op) == TRUE

\* A cutover and a rollback are of the release that is current.
Fits(op) == op.kind = "deploy" \/ current = op.candidate

\* The pending file is loaded, once for the journal and once for the operation, and
\* the current release compared with the reviewed one.
StartExecute(p, kind) ==
  LET op == pending[kind]
      id == IF Loadable(kind) THEN op.id ELSE None
  IN
  /\ \E sound \in BOOLEAN :
       Enter(p, IF Loadable(kind) /\ Fits(op) /\ sound THEN "verify" ELSE "audit",
             op, Entry(kind, id, "error", "not_requested"))
  /\ UNCHANGED runVars
  /\ UNCHANGED <<hostVars, storeVars, requestVars, journal>>

\* The boundary verifier; a failure leaves the operation pending.
Verify(p) ==
  /\ pc[p] = "verify"
  /\ Goto(p, "consume") \/ Deny(p)
  /\ UNCHANGED runVars
  /\ UNCHANGED <<hostVars, storeVars, requestVars, journal>>

\* Mutant: the file is moved once the command has ended.
ConsumeNothing(p) ==
  /\ pc[p] = "consume"
  /\ Goto(p, "launch")
  /\ UNCHANGED <<requestVars, runVars>>
  /\ UNCHANGED <<hostVars, storeVars, journal>>

\* _consume: the file moves from pending to consumed.
Consume(p) ==
  /\ pc[p] = "consume"
  /\ \A other \in consumed : other.id # job[p].id
  /\ consumed' = consumed \union {job[p]}
  /\ pending' = [pending EXCEPT ![job[p].kind] = None]
  /\ Goto(p, "launch")
  /\ UNCHANGED <<material, results, expired, runVars>>
  /\ UNCHANGED <<hostVars, storeVars, journal>>

\* The command is started; the helper waits for it without a limit.
Launch(p) ==
  /\ pc[p] = "launch"
  /\ commands' = commands \union {[op |-> job[p], waiter |-> p, phase |-> "running"]}
  /\ started' = [started EXCEPT ![job[p].id] = @ + 1]
  /\ Goto(p, "wait")
  /\ UNCHANGED orphaned
  /\ UNCHANGED <<hostVars, storeVars, requestVars, journal>>

\* Mutant: whatever the command's exit status, its output is the answer.
CollectAny(p) ==
  /\ pc[p] = "wait"
  /\ \E c \in commands :
       /\ c.waiter = p
       /\ c.phase \in {"completed", "stopped", "failed"}
       /\ commands' = commands \ {c}
       /\ Goto(p, "result")
  /\ UNCHANGED <<started, orphaned>>
  /\ UNCHANGED <<hostVars, storeVars, requestVars, journal>>

\* Mutant: the helper waits for success only.
CollectCompleted(p) ==
  /\ pc[p] = "wait"
  /\ \E c \in commands :
       /\ c.waiter = p
       /\ c.phase = "completed"
       /\ commands' = commands \ {c}
       /\ Goto(p, "result")
  /\ UNCHANGED <<started, orphaned>>
  /\ UNCHANGED <<hostVars, storeVars, requestVars, journal>>

\* The command has exited: only exit status 0 is an answer, anything else is an
\* AdminError and its output is dropped.
Collect(p) ==
  /\ pc[p] = "wait"
  /\ \E c \in commands :
       /\ c.waiter = p
       /\ c.phase \in {"completed", "stopped", "failed"}
       /\ commands' = commands \ {c}
       /\ IF c.phase = "completed" THEN Goto(p, "result") ELSE Deny(p)
  /\ UNCHANGED <<started, orphaned>>
  /\ UNCHANGED <<hostVars, storeVars, requestVars, journal>>

\* The result is written and the answer for the journal is made of it.
WriteResult(p) ==
  /\ pc[p] = "result"
  /\ results' = results \union {job[p].id}
  /\ Finish(p, "completed", IF job[p].kind = "rollback" THEN "completed" ELSE "not_requested")
  /\ UNCHANGED <<material, pending, consumed, expired, runVars>>
  /\ UNCHANGED <<hostVars, storeVars, journal>>

-------------------------------------------------------------------------------
(* The end of an invocation, and what goes on around it.  status, verify and
   audit-verify leave nothing but a record; revoke has every later call denied.
   They are left out.              *)

\* The record of what happened is appended; the journal that has lost a line, or takes
\* none because its chain is broken, is the one of a helper that died here.
Audit(p) ==
  /\ pc[p] = "audit"
  /\ journal' = IF record[p].result = "error" THEN journal ELSE journal \union {record[p]}
  /\ Leave(p)
  /\ UNCHANGED runVars
  /\ UNCHANGED <<hostVars, storeVars, requestVars>>

Alive(c) == c.phase \in {"running", "moved"}

\* The helper dies, or an error other than AdminError ends it: no record is left,
\* and its command, if any, goes on alone.
Crash(p) ==
  /\ pc[p] # "idle"
  /\ Leave(p)
  /\ commands' = {IF c.waiter = p THEN [c EXCEPT !.waiter = None] ELSE c :
                     c \in {x \in commands : x.waiter # p \/ Alive(x)}}
  /\ orphaned' = orphaned \union {c.op : c \in {x \in commands : x.waiter = p /\ Alive(x)}}
  /\ UNCHANGED started
  /\ UNCHANGED <<hostVars, storeVars, requestVars, journal>>

\* The validity of a pending request ends.
Expire(kind) ==
  /\ pending[kind] # None
  /\ expired' = expired \union {pending[kind].id}
  /\ UNCHANGED <<material, pending, consumed, results, runVars>>
  /\ UNCHANGED <<hostVars, storeVars, journal, callVars>>

-------------------------------------------------------------------------------
(* The commands.                                                           *)

\* Nobody collects the exit of a command whose helper is gone.
Becomes(c, phase) ==
  LET next == [c EXCEPT !.phase = phase] IN
  commands' = (commands \ {c}) \union
              (IF Alive(next) \/ c.waiter # None THEN {next} ELSE {})

\* minillm-promote moves production along the approval; a deployment verifies the
\* repository first.
Move(c) ==
  /\ c.phase = "running"
  /\ c.op.kind # "cutover"
  /\ c.op.kind = "deploy" => checkout = c.op.candidate
  /\ Production!Move(c.op.id, Approval(c.op))
  /\ Becomes(c, "moved")
  /\ UNCHANGED <<checkout, started, orphaned>>
  /\ UNCHANGED <<requestVars, journal, callVars>>

\* It exits: with 0 when restart and smoke passed, with another status when they did
\* not, or before production was touched, the approval then used or not.
ExitPromote(c) ==
  /\ c.op.kind # "cutover"
  /\ \/ /\ c.phase = "moved"
        /\ \E phase \in {"completed", "stopped"} : Becomes(c, phase)
        /\ UNCHANGED <<current, storeVars>>
     \/ /\ c.phase = "running"
        /\ Becomes(c, "failed")
        /\ Production!Waste(c.op.id) \/ UNCHANGED <<current, storeVars>>
  /\ UNCHANGED <<checkout, started, orphaned>>
  /\ UNCHANGED <<requestVars, journal, callVars>>

\* The cutover script exits with the given status; ProductionHost says which.
ExitCutover(c, phase) ==
  /\ c.op.kind = "cutover"
  /\ c.phase = "running"
  /\ Becomes(c, phase)
  /\ UNCHANGED <<started, orphaned>>
  /\ UNCHANGED <<hostVars, storeVars, requestVars, journal, callVars>>

HelperStep(p) ==
  \/ \E op \in Requests : StartReview(p, op)
  \/ \E kind \in Kinds : StartExecute(p, kind)
  \/ Prepare(p) \/ Grant(p) \/ Pend(p)
  \/ Verify(p) \/ Consume(p) \/ Collect(p) \/ WriteResult(p)
  \/ Audit(p)
  \/ Crash(p)

-------------------------------------------------------------------------------
(* Properties.                                                             *)

\* Every variable has its type; whoever is inside an invocation holds the lock.
AdminTypeOK ==
  /\ {current, checkout} \subseteq Builds
  /\ granted \subseteq Ids \X Production!Approvals
  /\ spent \subseteq Ids
  /\ material \union results \union expired \subseteq Ids
  /\ pending \in [Kinds -> Operations \union {None}]
  /\ consumed \subseteq Operations
  /\ journal \subseteq Records
  /\ lock \in Helpers \union {None}
  /\ pc \in [Helpers -> Labels]
  /\ job \in [Helpers -> Operations \union {None}]
  /\ record \in [Helpers -> Records \union {None}]
  /\ commands \subseteq Commands
  /\ started \in [Ids -> Nat]
  /\ orphaned \subseteq Operations
  /\ \A p \in Helpers : pc[p] # "idle" <=> lock = p

\* Operations a human has approved: still pending, or consumed.
Reviewed == consumed \union {pending[k] : k \in {x \in Kinds : pending[x] # None}}

\* A mutation runs at most once, and only as it was reviewed.
RunsOnce == INSTANCE ReviewedOperation WITH reviewed <- Reviewed
ImplementsReviewedOnce == RunsOnce!ReviewedOnce

\* A cutover or rollback that starts finds the release it was reviewed for, although
\* the release was compared before the boundary verification and the consumption:
\* only a command left behind by a dead helper moves it in between.
DriftNeedsOrphan ==
  [][\A p \in Helpers :
       pc[p] = "launch" /\ pc'[p] = "wait" /\ job[p].kind # "deploy" /\ current # job[p].candidate =>
         \E o \in orphaned : o.kind # "cutover" /\ current = Production!To(Approval(o))]_adminVars

\* Each change of the release executes one operation that a human reviewed under an id
\* of its own, was consumed and started once, and has no approval but the one of its
\* review: neither an approval that a failed review has left behind, nor a command
\* whose helper died, nor a request under an old id moves production otherwise.
\* (review, _consume, execute_reviewed)
MovesAsReviewed ==
  [][current' # current =>
       \E op \in consumed :
         /\ op.kind # "cutover"
         /\ current = Production!From(Approval(op)) /\ current' = Production!To(Approval(op))
         /\ started[op.id] = 1
         /\ op.id \in spent' \ spent
         /\ \A other \in Reviewed : other.id = op.id => other = op
         /\ \A grant \in granted : grant[1] = op.id => grant[2] = Approval(op)]_adminVars

===============================================================================
