----------------------------- MODULE ProductionHost -----------------------------
(***************************************************************************)
(* The production host: the administration helper, the commands it starts   *)
(* and the services they act on.  The run of the cutover script that the    *)
(* helper starts for a request has the id of the request.                   *)
(***************************************************************************)
EXTENDS AdminHelper, Cutover

ASSUME HostAssumption == \A op \in Requests : op.kind = "cutover" => op.id \in Scripts

hostedVars == <<adminVars, cutoverVars>>

HostInit == AdminInit /\ CutoverInit

Helper(p) == HelperStep(p) /\ UNCHANGED cutoverVars

\* A dispatched helper goes on by itself, and its command ends.
Continue(p) ==
  /\ \/ Prepare(p) \/ Grant(p) \/ Pend(p)
     \/ Verify(p) \/ Consume(p) \/ Launch(p) \/ Collect(p) \/ WriteResult(p)
     \/ Audit(p)
  /\ UNCHANGED cutoverVars

\* A promotion or rollback completes only if the system Home restarts, which takes
\* that the cutover has loaded it.
Promotion(c) ==
  /\ Move(c) \/ ExitPromote(c)
  /\ [c EXCEPT !.phase = "completed"] \in commands' => "SystemHome" \in loaded
  /\ UNCHANGED cutoverVars

\* The script runs for a command of the helper, whether its helper lives or not.
Script(c) ==
  /\ c.op.kind = "cutover"
  /\ c.phase = "running"
  /\ Check(c.op.id) \/ ScriptStep(c.op.id)
  /\ UNCHANGED adminVars

ScriptDies(c) ==
  /\ c.op.kind = "cutover"
  /\ c.phase = "running"
  /\ Kill(c.op.id)
  /\ UNCHANGED adminVars

\* Its exit status is 0 when it was applied.
ScriptExits(c) ==
  /\ c.op.kind = "cutover"
  /\ at[c.op.id] = "done"
  /\ ExitCutover(c, IF report[c.op.id] = "applied" THEN "completed" ELSE "failed")
  /\ UNCHANGED cutoverVars

\* Time passes.  What the operator's Home writes meanwhile no helper reads: its
\* writes beside a cutover are in Bootstrap.
Surroundings == (\E kind \in Kinds : Expire(kind)) /\ UNCHANGED cutoverVars

HostNext ==
  \/ \E p \in Helpers : Helper(p) \/ (Launch(p) /\ UNCHANGED cutoverVars)
  \/ \E c \in commands : Promotion(c) \/ Script(c) \/ ScriptDies(c) \/ ScriptExits(c)
  \/ Surroundings

\* Processes that run go on: a helper, and the command of each operation.
CommandOf(op) ==
  \E c \in commands : c.op = op /\ (Promotion(c) \/ Script(c) \/ ScriptExits(c))

HostSpec ==
  /\ HostInit
  /\ [][HostNext]_hostedVars
  /\ \A p \in Helpers : WF_hostedVars(Continue(p))
  /\ \A op \in Requests : WF_hostedVars(CommandOf(op))

\* The journal says reviewed only of what a human approved, and completed only of an
\* operation that was reviewed, was started once and did its work, whatever died, was
\* refused or failed in between: a cutover that was applied, a promotion or rollback
\* that used its approval.
AuditIsTruthful ==
  \A e \in journal :
    /\ \E op \in Reviewed : op.id = e.id
    /\ e.result = "completed" =>
         /\ e.id \in results
         /\ started[e.id] = 1
         /\ \E op \in consumed : op.id = e.id /\ op.kind = e.kind
         /\ IF e.kind = "cutover" THEN report[e.id] = "applied" ELSE e.id \in spent

\* admin.lock does not stay taken: each invocation ends, whatever its command does.
LockIsFreed == lock # None ~> lock = None
===============================================================================
