---------------------- MODULE ControlledPromotion_proofs ----------------------
(***************************************************************************)
(* The trusted adapter keeps its promise for any builds, manifests, ids and*)
(* operators: its files have their types, production moves only along an   *)
(* unused approval with the journal intact, and a half-finished activation *)
(* is never built upon.  Under the rules of gate and controller the adapter*)
(* is still this adapter, so that its theorems hold; and a release has what*)
(* was approved for it, and the control plane of the release before it.    *)
(***************************************************************************)
EXTENDS ControlledPromotion, TLAPS

-------------------------------------------------------------------------------
(* The adapter of TrustedPromotion.                                        *)

\* Every label but the one of an operator with no operation.
Running == Labels \ {"idle"}

\* The labels of an operation whose approval is consumed.
AfterConsume == {"log", "stage", "swap", "mark", "restart", "smoke", "outcome", "persist"}

\* The labels of an operation whose consumption is in the journal.
AfterLog == AfterConsume \ {"log"}

\* The approval of an operation is pending from its plan to its consumption, and
\* consumed from then on.
ApprovalInv(p) ==
  /\ pc[p] = "consume" => pending[job[p].id] = Approval(p)
  /\ pc[p] \in AfterConsume => consumed[job[p].id] = Approval(p)

\* From the plan to the activation the marker does not contradict the pointer.
HostInv(p) == pc[p] \in {"consume", "log", "stage", "swap"} => Readable

\* What an operation wrote to the journal is there, unless its record was added to
\* an unterminated line; then the next append will refuse.
JournalInv(p) ==
  /\ pc[p] \in {"consume", "log"} =>
       /\ tail \in {"whole", "broken"}
       /\ tail = "whole" => Entry(p, "plan", TRUE) \in entries
  /\ pc[p] \in AfterLog => tail = "whole"
  /\ pc[p] \in {"stage", "swap"} =>
       /\ Entry(p, "plan", TRUE) \in entries
       /\ Entry(p, "authorization_consumed", TRUE) \in entries
  /\ pc[p] = "persist" =>
       /\ Promoting(p)
       /\ Entry(p, "outcome", job[p].passed) \in entries

OperationInv(p) == ApprovalInv(p) /\ HostInv(p) /\ JournalInv(p)

\* The inductive invariant.
IInv ==
  /\ TypeOK
  /\ \A p \in Operators : OperationInv(p)
  /\ ResultsAreJournaled

-------------------------------------------------------------------------------
(* The lock.                                                               *)

\* Whoever is inside an operation is alone.
LEMMA Alone ==
  ASSUME TypeOK, NEW p \in Operators, pc[p] # "idle"
  PROVE  /\ lock = p
         /\ job[p] \in Jobs
         /\ job[p].approval \in Approvals /\ job[p].id \in Ids /\ job[p].passed \in BOOLEAN
         /\ \A q \in Operators : q # p => pc[q] = "idle"
<1>1. lock = p /\ job[p] # None
  BY DEF TypeOK
<1>2. job[p] \in Jobs
  BY <1>1 DEF TypeOK
<1> QED BY <1>1, <1>2 DEF TypeOK, Jobs

\* A step of an operation changes the place and the job of its operator only.
Only(p) ==
  /\ \A q \in Operators : q # p => pc'[q] = pc[q] /\ job'[q] = job[q]
  /\ pc' \in [Operators -> Labels]
  /\ job' \in [Operators -> Jobs \union {None}]

LEMMA GotoStep ==
  ASSUME TypeOK, NEW p \in Operators, NEW label \in Running, Goto(p, label)
  PROVE  Only(p) /\ pc'[p] = label /\ job'[p] = job[p] /\ lock' = lock
BY DEF TypeOK, Goto, Only, Running

LEMMA LeaveStep ==
  ASSUME TypeOK, NEW p \in Operators, Leave(p)
  PROVE  Only(p) /\ pc'[p] = "idle" /\ job'[p] = None /\ lock' = None
BY DEF TypeOK, Leave, Only, Labels

LEMMA PassedStep ==
  ASSUME TypeOK, NEW p \in Operators, pc[p] # "idle", NEW label \in Running,
         NEW result \in BOOLEAN, Passed(p, result, label)
  PROVE  /\ Only(p) /\ pc'[p] = label /\ lock' = lock
         /\ job'[p] = [job[p] EXCEPT !.passed = result]
         /\ job'[p] \in Jobs
<1>1. job[p] \in Jobs
  BY Alone
<1>2. [job[p] EXCEPT !.passed = result] \in Jobs
  BY <1>1 DEF Jobs
<1> QED BY <1>2 DEF TypeOK, Passed, Only, Running

\* Nothing but the place of its operator is left of an operation that is over.
LEMMA Over ==
  ASSUME TypeOK, NEW p \in Operators, pc[p] # "idle", Only(p), pc'[p] = "idle"
  PROVE  \A q \in Operators : OperationInv(q)'
<1>1. \A q \in Operators : pc'[q] = "idle"
  BY Alone DEF Only
<1> QED BY <1>1 DEF OperationInv, ApprovalInv, HostInv, JournalInv, AfterLog, AfterConsume

\* The operations of the others need no attention while p is inside.
LEMMA OthersKept ==
  ASSUME TypeOK, NEW p \in Operators, pc[p] # "idle", Only(p), OperationInv(p)'
  PROVE  \A q \in Operators : OperationInv(q)'
<1>1. \A q \in Operators : q # p => pc'[q] = "idle"
  BY Alone DEF Only
<1> QED BY <1>1 DEF OperationInv, ApprovalInv, HostInv, JournalInv, AfterLog, AfterConsume

-------------------------------------------------------------------------------
(* The journal.                                                            *)

\* A record is on file when append returns and the journal can still be read.
LEMMA AppendStep ==
  ASSUME TypeOK, NEW records \in SUBSET Entries, Append(records)
  PROVE  /\ tail # "broken"
         /\ tail' \in {"whole", "broken"}
         /\ entries' \subseteq Entries
         /\ entries \subseteq entries'
         /\ tail' = "whole" => records \subseteq entries'
         /\ tail = "whole" => tail' = "whole"
BY DEF TypeOK, Append

LEMMA AppendCutStep ==
  ASSUME TypeOK, NEW records \in SUBSET Entries, AppendCut(records)
  PROVE  /\ tail' \in {"unterminated", "broken"}
         /\ entries' \subseteq Entries
         /\ entries \subseteq entries'
BY DEF TypeOK, AppendCut

LEMMA EntryType ==
  ASSUME TypeOK, NEW p \in Operators, pc[p] # "idle",
         NEW type \in {"plan", "authorization_consumed", "outcome"}, NEW passed \in BOOLEAN
  PROVE  Entry(p, type, passed) \in Entries
BY Alone DEF Entry, Entries, Approval

-------------------------------------------------------------------------------
(* The invariant, action by action.                                        *)

LEMMA IInvInit == Init => IInv
<1> SUFFICES ASSUME Init PROVE IInv
  OBVIOUS
<1>1. TypeOK
  BY DEF Init, TypeOK, Labels
<1>2. \A p \in Operators : OperationInv(p)
  BY DEF Init, OperationInv, ApprovalInv, HostInv, JournalInv, AfterLog, AfterConsume
<1>3. ResultsAreJournaled
  BY DEF Init, ResultsAreJournaled
<1> QED BY <1>1, <1>2, <1>3 DEF IInv

\* What is journaled stays journaled.
LEMMA ResultsKept ==
  ASSUME TypeOK, ResultsAreJournaled, operations' = operations, entries \subseteq entries',
         \A a \in Ids : consumed[a] # None => consumed'[a] = consumed[a]
  PROVE  ResultsAreJournaled'
<1> SUFFICES ASSUME NEW o \in operations
             PROVE  \E e \in entries' :
                      /\ e.type = "outcome"
                      /\ e.approval = For("promote", o)
                      /\ e.passed = (o.status = "completed")
                      /\ consumed'[e.id] = e.approval
  BY DEF ResultsAreJournaled, For
<1>1. PICK e \in entries : /\ e.type = "outcome"
                           /\ e.approval = For("promote", o)
                           /\ e.passed = (o.status = "completed")
                           /\ consumed[e.id] = e.approval
  BY DEF ResultsAreJournaled
<1>2. e.id \in Ids /\ e.approval \in Approvals
  BY DEF TypeOK, Entries
<1>3. consumed[e.id] # None
  BY <1>1, <1>2, PromotionAssumption
<1> QED BY <1>1, <1>2, <1>3

LEMMA ForType ==
  ASSUME NEW action \in {"promote", "rollback"}, NEW x,
         x.candidate \in Builds, x.previous \in Builds
  PROVE  For(action, x) \in Approvals
BY DEF For, Approvals

LEMMA AuthorizeKept ==
  ASSUME IInv, NEW a \in Ids, NEW action \in {"promote", "rollback"}, NEW m \in Manifests,
         Authorize(a, action, m)
  PROVE  IInv'
<1> USE DEF IInv
<1>1. For(action, m) \in Approvals
  BY ForType, PromotionAssumption
<1>2. TypeOK'
  BY <1>1 DEF Authorize, TypeOK, hostVars, journalVars, callVars
<1>3. ASSUME NEW p \in Operators PROVE OperationInv(p)'
  <2>1. ApprovalInv(p)'
    <3>1. CASE pc[p] = "idle"
      BY <3>1 DEF ApprovalInv, AfterConsume, Authorize, callVars
    <3>2. CASE pc[p] # "idle"
      <4>1. job[p].id \in Ids /\ Approval(p) # None
        BY <3>2, Alone, PromotionAssumption DEF Approval
      <4>2. pc[p] = "consume" => job[p].id # a
        BY <4>1 DEF OperationInv, ApprovalInv, Authorize
      <4> QED BY <4>1, <4>2 DEF OperationInv, ApprovalInv, Authorize, callVars, TypeOK, Approval
    <3> QED BY <3>1, <3>2
  <2>2. HostInv(p)' /\ JournalInv(p)'
    BY DEF OperationInv, HostInv, JournalInv, Authorize, callVars, hostVars, journalVars,
           Readable, Entry, Approval, Promoting
  <2> QED BY <2>1, <2>2 DEF OperationInv
<1>4. ResultsAreJournaled'
  BY ResultsKept DEF Authorize, journalVars
<1> QED BY <1>2, <1>3, <1>4

LEMMA EnterKept ==
  ASSUME IInv, NEW p \in Operators, NEW label \in {"checks", "plan"},
         NEW approval \in Approvals, NEW a \in Ids, Enter(p, label, approval, a)
  PROVE  IInv'
<1> USE DEF IInv
<1>1. [approval |-> approval, id |-> a, passed |-> FALSE] \in Jobs
  BY DEF Jobs
<1>2. \A q \in Operators : pc[q] = "idle" /\ job[q] = None
  BY PromotionAssumption DEF Enter, TypeOK
<1>3. TypeOK'
  <2>1. /\ pc' \in [Operators -> Labels]
        /\ job' \in [Operators -> Jobs \union {None}]
        /\ lock' \in Operators
    BY <1>1 DEF Enter, TypeOK, Labels
  <2>2. \A q \in Operators : (pc'[q] = "idle") = (job'[q] = None) /\ (pc'[q] # "idle" => lock' = q)
    BY <1>1, <1>2, PromotionAssumption DEF Enter, TypeOK
  <2> QED BY <2>1, <2>2 DEF Enter, TypeOK, hostVars, approvalVars, journalVars
<1>4. \A q \in Operators : pc'[q] \in {"idle", "checks", "plan"}
  BY <1>2 DEF Enter, TypeOK
<1>5. \A q \in Operators : OperationInv(q)'
  BY <1>4 DEF OperationInv, ApprovalInv, HostInv, JournalInv, AfterLog, AfterConsume
<1>6. ResultsAreJournaled'
  BY ResultsKept DEF Enter, approvalVars, journalVars
<1> QED BY <1>3, <1>5, <1>6

\* The records an operation leaves behind when it is over.
Written ==
  /\ entries \subseteq entries'
  /\ entries' \subseteq Entries
  /\ tail' \in {"whole", "unterminated", "broken"}

LEMMA LeaveKept ==
  ASSUME IInv, NEW p \in Operators, pc[p] # "idle", Leave(p), Written,
         UNCHANGED operations, UNCHANGED hostVars, UNCHANGED approvalVars
  PROVE  IInv'
<1> USE DEF IInv
<1>1. Only(p) /\ pc'[p] = "idle" /\ job'[p] = None /\ lock' = None
  BY LeaveStep
<1>2. \A q \in Operators : pc'[q] = "idle" /\ job'[q] = None
  BY <1>1, Alone DEF Only, TypeOK
<1>3. TypeOK'
  BY <1>1, <1>2 DEF TypeOK, Only, Written, hostVars, approvalVars
<1>4. \A q \in Operators : OperationInv(q)'
  BY <1>1, Over
<1>5. ResultsAreJournaled'
  BY ResultsKept DEF Written, approvalVars
<1> QED BY <1>3, <1>4, <1>5

LEMMA CutKept ==
  ASSUME IInv, NEW p \in Operators, pc[p] # "idle", NEW records \in SUBSET Entries,
         AppendCut(records), Leave(p),
         UNCHANGED operations, UNCHANGED hostVars, UNCHANGED approvalVars
  PROVE  IInv'
BY LeaveKept, AppendCutStep DEF Written, IInv

\* An operation goes on: what is left to show is its own part of the invariant.
LEMMA GoneOn ==
  ASSUME IInv, NEW p \in Operators, pc[p] # "idle",
         Only(p), pc'[p] # "idle", job'[p] \in Jobs, lock' = lock,
         OperationInv(p)',
         releases' \subseteq Builds, pointer' \in Builds, marker' \in Builds \union {None},
         pending' \in [Ids -> Approvals \union {None}],
         consumed' \in [Ids -> Approvals \union {None}],
         \A a \in Ids : consumed[a] # None => consumed'[a] = consumed[a],
         Written, operations' = operations
  PROVE  IInv'
<1> USE DEF IInv
<1>1. \A q \in Operators : (pc'[q] = "idle") = (job'[q] = None) /\ (pc'[q] # "idle" => lock' = q)
  BY Alone, PromotionAssumption DEF Only, TypeOK
<1>2. TypeOK'
  BY <1>1 DEF TypeOK, Only, Written
<1>3. \A q \in Operators : OperationInv(q)'
  BY OthersKept
<1>4. ResultsAreJournaled'
  BY ResultsKept DEF Written
<1> QED BY <1>2, <1>3, <1>4

LEMMA ChecksKept ==
  ASSUME IInv, NEW p \in Operators, Checks(p)
  PROVE  IInv'
<1>1. pc[p] # "idle" /\ UNCHANGED operations /\ UNCHANGED hostVars /\ UNCHANGED approvalVars
  BY DEF Checks
<1>2. CASE AppendCut({}) /\ Leave(p)
  BY <1>1, <1>2, CutKept
<1>3. CASE Append({}) /\ Goto(p, "plan")
  <2>1. Only(p) /\ pc'[p] = "plan" /\ job'[p] = job[p] /\ lock' = lock
    BY <1>3, GotoStep DEF IInv, Running, Labels
  <2>2. Written
    BY <1>3, AppendStep DEF IInv, Written
  <2>3. OperationInv(p)'
    BY <2>1 DEF OperationInv, ApprovalInv, HostInv, JournalInv, AfterLog, AfterConsume
  <2> QED BY <1>1, <2>1, <2>2, <2>3, GoneOn, Alone DEF IInv, TypeOK, hostVars, approvalVars
<1> QED BY <1>2, <1>3 DEF Checks, Journaled

LEMMA PlanKept ==
  ASSUME IInv, NEW p \in Operators, Plan(p)
  PROVE  IInv'
<1>1. /\ pc[p] = "plan" /\ Readable
      /\ UNCHANGED operations /\ UNCHANGED hostVars /\ UNCHANGED approvalVars
  BY DEF Plan
<1>2. CASE Journaled(p, {}, Leave(p))
  <2>1. CASE AppendCut({}) /\ Leave(p)
    BY <1>1, <2>1, CutKept
  <2>2. CASE Append({}) /\ Leave(p)
    <3>1. Written
      BY <2>2, AppendStep DEF IInv, Written
    <3> QED BY <1>1, <2>2, <3>1, LeaveKept
  <2> QED BY <1>2, <2>1, <2>2 DEF Journaled
<1>3. ASSUME NEW others \in BOOLEAN, Ready(p, others),
             Journaled(p, {Entry(p, "plan", TRUE)}, Goto(p, "consume"))
      PROVE  IInv'
  <2>0. Entry(p, "plan", TRUE) \in Entries
    BY <1>1, EntryType DEF IInv
  <2>1. CASE AppendCut({Entry(p, "plan", TRUE)}) /\ Leave(p)
    BY <1>1, <2>0, <2>1, CutKept
  <2>2. CASE Append({Entry(p, "plan", TRUE)}) /\ Goto(p, "consume")
    <3>1. Only(p) /\ pc'[p] = "consume" /\ job'[p] = job[p] /\ lock' = lock
      BY <2>2, GotoStep DEF IInv, Running, Labels
    <3>2. Written /\ tail' \in {"whole", "broken"}
          /\ (tail' = "whole" => Entry(p, "plan", TRUE) \in entries')
      BY <2>0, <2>2, AppendStep DEF IInv, Written
    <3>3. OperationInv(p)'
      BY <1>1, <1>3, <3>1, <3>2 DEF OperationInv, ApprovalInv, HostInv, JournalInv, AfterLog,
         AfterConsume, Ready, Approval, Entry, Readable, hostVars, approvalVars
    <3> QED BY <1>1, <3>1, <3>2, <3>3, GoneOn, Alone DEF IInv, TypeOK, hostVars, approvalVars
  <2> QED BY <1>3, <2>1, <2>2 DEF Journaled
<1> QED BY <1>2, <1>3 DEF Plan

LEMMA ConsumeKept ==
  ASSUME IInv, NEW p \in Operators, Consume(p)
  PROVE  IInv'
<1>1. /\ pc[p] = "consume"
      /\ UNCHANGED operations /\ UNCHANGED hostVars /\ UNCHANGED journalVars
  BY DEF Consume
<1>2. Only(p) /\ pc'[p] = "log" /\ job'[p] = job[p] /\ lock' = lock
  BY GotoStep DEF Consume, IInv, Running, Labels
<1>3. job[p].id \in Ids /\ job[p] \in Jobs
  BY <1>1, Alone DEF IInv
<1>4. /\ pending[job[p].id] = Approval(p)
      /\ HostInv(p) /\ JournalInv(p)
  BY <1>1 DEF IInv, OperationInv, ApprovalInv
<1>5. consumed'[job[p].id] = Approval(p)
  BY <1>3, <1>4 DEF Consume, IInv, TypeOK
<1>6. OperationInv(p)'
  BY <1>1, <1>2, <1>4, <1>5 DEF OperationInv, ApprovalInv, HostInv, JournalInv, AfterLog,
     AfterConsume, Approval, Entry, Readable, hostVars, journalVars
<1>7. /\ pending' \in [Ids -> Approvals \union {None}]
      /\ consumed' \in [Ids -> Approvals \union {None}]
      /\ \A a \in Ids : consumed[a] # None => consumed'[a] = consumed[a]
  BY <1>3 DEF Consume, IInv, TypeOK
<1> QED BY <1>1, <1>2, <1>3, <1>6, <1>7, GoneOn DEF IInv, TypeOK, hostVars, journalVars, Written

LEMMA LogKept ==
  ASSUME IInv, NEW p \in Operators, Log(p)
  PROVE  IInv'
<1> DEFINE record == Entry(p, "authorization_consumed", TRUE)
           next == IF Promoting(p) THEN "stage" ELSE "swap"
<1>1. /\ pc[p] = "log"
      /\ UNCHANGED operations /\ UNCHANGED hostVars /\ UNCHANGED approvalVars
  BY DEF Log
<1>2. record \in Entries
  BY <1>1, EntryType DEF IInv
<1>3. CASE AppendCut({record}) /\ Leave(p)
  BY <1>1, <1>2, <1>3, CutKept
<1>4. CASE Append({record}) /\ Goto(p, next)
  <2> next \in {"stage", "swap"}
    OBVIOUS
  <2>1. Only(p) /\ pc'[p] = next /\ job'[p] = job[p] /\ lock' = lock
    BY <1>4, GotoStep DEF IInv, Running, Labels
  <2>2. /\ consumed[job[p].id] = Approval(p)
        /\ Readable
        /\ tail \in {"whole", "broken"}
        /\ tail = "whole" => Entry(p, "plan", TRUE) \in entries
    BY <1>1 DEF IInv, OperationInv, ApprovalInv, HostInv, JournalInv, AfterConsume
  <2>3. /\ Written /\ tail' = "whole" /\ record \in entries'
        /\ Entry(p, "plan", TRUE) \in entries'
    BY <1>2, <1>4, <2>2, AppendStep DEF IInv, Written
  <2> HIDE DEF next
  <2>4. OperationInv(p)'
    BY <1>1, <2>1, <2>2, <2>3 DEF OperationInv, ApprovalInv, HostInv, JournalInv, AfterLog,
       AfterConsume, Approval, Entry, Readable, hostVars, approvalVars
  <2> QED BY <1>1, <2>1, <2>3, <2>4, GoneOn, Alone DEF IInv, TypeOK, hostVars, approvalVars
<1> QED BY <1>3, <1>4 DEF Log, Journaled

LEMMA StageKept ==
  ASSUME IInv, NEW p \in Operators, Stage(p)
  PROVE  IInv'
<1>1. /\ pc[p] = "stage"
      /\ UNCHANGED <<pointer, marker, operations>> /\ UNCHANGED approvalVars /\ UNCHANGED journalVars
  BY DEF Stage
<1>2. Only(p) /\ pc'[p] = "swap" /\ job'[p] = job[p] /\ lock' = lock
  BY GotoStep DEF Stage, IInv, Running, Labels
<1>3. OperationInv(p)'
  BY <1>1, <1>2 DEF IInv, OperationInv, ApprovalInv, HostInv, JournalInv, AfterLog,
     AfterConsume, Approval, Entry, Readable, approvalVars, journalVars
<1>4. releases' \subseteq Builds
  BY <1>1, Alone DEF Stage, IInv, TypeOK, Target, Approval, Approvals
<1> QED BY <1>1, <1>2, <1>3, <1>4, GoneOn, Alone DEF IInv, TypeOK, approvalVars, journalVars, Written

LEMMA SwapKept ==
  ASSUME IInv, NEW p \in Operators, Swap(p)
  PROVE  IInv'
<1>1. /\ pc[p] = "swap"
      /\ UNCHANGED <<releases, marker, operations>> /\ UNCHANGED approvalVars /\ UNCHANGED journalVars
  BY DEF Swap
<1>2. Only(p) /\ pc'[p] = "mark" /\ job'[p] = job[p] /\ lock' = lock
  BY GotoStep DEF Swap, IInv, Running, Labels
<1>3. OperationInv(p)'
  BY <1>1, <1>2 DEF IInv, OperationInv, ApprovalInv, HostInv, JournalInv, AfterLog,
     AfterConsume, Approval, approvalVars, journalVars
<1>4. pointer' \in Builds
  BY <1>1, Alone DEF Swap, IInv, Target, Approval, Approvals
<1> QED BY <1>1, <1>2, <1>3, <1>4, GoneOn, Alone DEF IInv, TypeOK, approvalVars, journalVars, Written

LEMMA MarkKept ==
  ASSUME IInv, NEW p \in Operators, Mark(p)
  PROVE  IInv'
<1>1. /\ pc[p] = "mark"
      /\ UNCHANGED <<releases, pointer, operations>> /\ UNCHANGED approvalVars /\ UNCHANGED journalVars
  BY DEF Mark
<1>2. Only(p) /\ pc'[p] = "restart" /\ job'[p] = job[p] /\ lock' = lock
  BY GotoStep DEF Mark, IInv, Running, Labels
<1>3. OperationInv(p)'
  BY <1>1, <1>2 DEF IInv, OperationInv, ApprovalInv, HostInv, JournalInv, AfterLog,
     AfterConsume, Approval, approvalVars, journalVars
<1>4. marker' \in Builds
  BY <1>1, Alone DEF Mark, IInv, Target, Approval, Approvals
<1> QED BY <1>1, <1>2, <1>3, <1>4, GoneOn, Alone DEF IInv, TypeOK, approvalVars, journalVars, Written

\* A command after the activation: its evidence is journaled, its result noted.
LEMMA PassedKept ==
  ASSUME IInv, NEW p \in Operators, pc[p] \in {"restart", "smoke"},
         NEW label \in {"smoke", "outcome"}, NEW result \in BOOLEAN,
         Journaled(p, {}, Passed(p, result, label)),
         UNCHANGED operations, UNCHANGED hostVars, UNCHANGED approvalVars
  PROVE  IInv'
<1>1. CASE AppendCut({}) /\ Leave(p)
  BY <1>1, CutKept
<1>2. CASE Append({}) /\ Passed(p, result, label)
  <2>1. /\ Only(p) /\ pc'[p] = label /\ lock' = lock
        /\ job'[p] = [job[p] EXCEPT !.passed = result]
        /\ job'[p] \in Jobs /\ job[p] \in Jobs
    BY <1>2, PassedStep, Alone DEF IInv, Running, Labels
  <2>2. job'[p].approval = job[p].approval /\ job'[p].id = job[p].id
    BY <2>1 DEF Jobs
  <2>3. tail = "whole" /\ consumed[job[p].id] = Approval(p)
    BY DEF IInv, OperationInv, ApprovalInv, JournalInv, AfterLog, AfterConsume
  <2>4. Written /\ tail' = "whole"
    BY <1>2, <2>3, AppendStep DEF IInv, Written
  <2>5. OperationInv(p)'
    BY <2>1, <2>2, <2>3, <2>4 DEF OperationInv, ApprovalInv, HostInv, JournalInv, AfterLog,
       AfterConsume, Approval, approvalVars
  <2> QED BY <2>1, <2>4, <2>5, GoneOn DEF IInv, TypeOK, hostVars, approvalVars
<1> QED BY <1>1, <1>2 DEF Journaled

LEMMA OutcomeKept ==
  ASSUME IInv, NEW p \in Operators, Outcome(p)
  PROVE  IInv'
<1> DEFINE record == Entry(p, "outcome", job[p].passed)
<1>1. /\ pc[p] = "outcome"
      /\ UNCHANGED operations /\ UNCHANGED hostVars /\ UNCHANGED approvalVars
  BY DEF Outcome
<1>2. record \in Entries
  BY <1>1, EntryType, Alone DEF IInv
<1>3. CASE AppendCut({record}) /\ Leave(p)
  BY <1>1, <1>2, <1>3, CutKept
<1>4. CASE Append({record}) /\ ~Promoting(p) /\ Leave(p)
  <2>1. Written
    BY <1>2, <1>4, AppendStep DEF IInv, Written
  <2> QED BY <1>1, <1>4, <2>1, LeaveKept
<1>5. CASE Append({record}) /\ Promoting(p) /\ Goto(p, "persist")
  <2>1. Only(p) /\ pc'[p] = "persist" /\ job'[p] = job[p] /\ lock' = lock
    BY <1>5, GotoStep DEF IInv, Running, Labels
  <2>2. tail = "whole" /\ consumed[job[p].id] = Approval(p)
    BY <1>1 DEF IInv, OperationInv, ApprovalInv, JournalInv, AfterLog, AfterConsume
  <2>3. Written /\ tail' = "whole" /\ record \in entries'
    BY <1>2, <1>5, <2>2, AppendStep DEF IInv, Written
  <2>4. OperationInv(p)'
    BY <1>1, <1>5, <2>1, <2>2, <2>3 DEF OperationInv, ApprovalInv, HostInv, JournalInv, AfterLog,
       AfterConsume, Approval, Entry, Promoting, approvalVars
  <2> QED BY <1>1, <2>1, <2>3, <2>4, GoneOn, Alone DEF IInv, TypeOK, hostVars, approvalVars
<1> QED BY <1>3, <1>4, <1>5 DEF Outcome, Journaled

LEMMA PersistKept ==
  ASSUME IInv, NEW p \in Operators, Persist(p)
  PROVE  IInv'
<1> DEFINE result == [candidate |-> Approval(p).candidate,
                      previous  |-> Approval(p).previous,
                      status    |-> StatusOf(p)]
           record == Entry(p, "outcome", job[p].passed)
<1>1. /\ pc[p] = "persist" /\ Leave(p) /\ operations' = operations \union {result}
      /\ UNCHANGED hostVars /\ UNCHANGED approvalVars /\ UNCHANGED journalVars
  BY DEF Persist
<1>2. /\ Approval(p) \in Approvals /\ job[p].id \in Ids /\ job[p].passed \in BOOLEAN
  BY <1>1, Alone DEF IInv, Approval
<1>3. /\ consumed[job[p].id] = Approval(p) /\ Promoting(p)
      /\ record \in entries
  BY <1>1 DEF IInv, OperationInv, ApprovalInv, JournalInv, AfterConsume
<1>4. Only(p) /\ pc'[p] = "idle" /\ job'[p] = None /\ lock' = None
  BY <1>1, LeaveStep DEF IInv
<1>5. result \in Operations
  BY <1>2 DEF Approvals, Operations, StatusOf
<1>6. TypeOK'
  <2>1. \A q \in Operators : pc'[q] = "idle" /\ job'[q] = None
    BY <1>1, <1>4, Alone DEF Only, IInv, TypeOK
  <2> QED BY <1>1, <1>4, <1>5, <2>1 DEF IInv, TypeOK, Only, hostVars, approvalVars, journalVars
<1>7. \A q \in Operators : OperationInv(q)'
  BY <1>1, <1>4, Over DEF IInv
<1>8. ResultsAreJournaled'
  <2>1. /\ record.type = "outcome" /\ record.approval = Approval(p)
        /\ record.passed = job[p].passed /\ record.id = job[p].id
    BY DEF Entry
  <2>2. For("promote", result) = Approval(p)
    BY <1>2, <1>3 DEF For, Promoting, Approvals
  <2>3. job[p].passed = (result.status = "completed")
    BY <1>2 DEF StatusOf
  <2> HIDE DEF result, record
  <2> QED BY <1>1, <1>3, <2>1, <2>2, <2>3
          DEF IInv, ResultsAreJournaled, approvalVars, journalVars, For
<1> QED BY <1>6, <1>7, <1>8 DEF IInv

LEMMA StepKept == IInv /\ [Next]_vars => IInv'
<1> SUFFICES ASSUME IInv, [Next]_vars PROVE IInv'
  OBVIOUS
<1>1. ASSUME NEW a \in Ids, NEW action \in {"promote", "rollback"}, NEW m \in Manifests,
             Authorize(a, action, m)
      PROVE  IInv'
  BY <1>1, AuthorizeKept
<1>2. ASSUME NEW p \in Operators, OperatorStep(p)
      PROVE  IInv'
  <2>1. ASSUME NEW m \in Manifests, NEW a \in Ids, StartPromotion(p, m, a)
        PROVE  IInv'
    <3>1. For("promote", m) \in Approvals
      BY ForType, PromotionAssumption
    <3> QED BY <2>1, <3>1, EnterKept DEF StartPromotion
  <2>2. ASSUME NEW o \in operations, NEW a \in Ids, StartRollback(p, o, a)
        PROVE  IInv'
    <3>1. For("rollback", o) \in Approvals
      BY ForType DEF IInv, TypeOK, Operations
    <3> QED BY <2>2, <3>1, EnterKept DEF StartRollback
  <2>3. CASE Restart(p)
    BY <2>3, PassedKept DEF Restart
  <2>4. CASE Smoke(p)
    BY <2>4, PassedKept DEF Smoke
  <2>5. CASE Abort(p)
    <3>1. Written
      BY <2>5 DEF Abort, IInv, TypeOK, Written, journalVars
    <3> QED BY <2>5, <3>1, LeaveKept DEF Abort
  <2> QED BY <1>2, <2>1, <2>2, <2>3, <2>4, <2>5, ChecksKept, PlanKept, ConsumeKept, LogKept,
             StageKept, SwapKept, MarkKept, OutcomeKept, PersistKept DEF OperatorStep
<1>3. CASE UNCHANGED vars
  <2>1. \A p \in Operators : OperationInv(p)'
    BY <1>3 DEF vars, IInv, OperationInv, ApprovalInv, HostInv, JournalInv, Readable, Entry,
       Approval, Promoting
  <2> QED BY <1>3, <2>1 DEF vars, IInv, TypeOK, ResultsAreJournaled
<1> QED BY <1>1, <1>2, <1>3 DEF Next

-------------------------------------------------------------------------------
(* What production sees of a step.                                         *)

\* The files of the host and the consumed approvals change in three steps only.
LEMMA Visible ==
  ASSUME IInv, [Next]_vars,
         \A p \in Operators : ~Consume(p) /\ ~Swap(p) /\ ~Mark(p)
  PROVE  UNCHANGED <<pointer, marker, consumed>>
<1>1. CASE \E a \in Ids, action \in {"promote", "rollback"}, m \in Manifests : Authorize(a, action, m)
  BY <1>1 DEF Authorize, hostVars
<1>2. ASSUME NEW p \in Operators, OperatorStep(p)
      PROVE  UNCHANGED <<pointer, marker, consumed>>
  BY <1>2 DEF OperatorStep, StartPromotion, StartRollback, Enter, Checks, Plan, Log, Stage,
     Restart, Smoke, Outcome, Persist, Abort, hostVars, approvalVars
<1>3. CASE UNCHANGED vars
  BY <1>3 DEF vars
<1> QED BY <1>1, <1>2, <1>3 DEF Next

\* The comparison before an activation: the pointer is where the approval says.
LEMMA SwapCompares ==
  ASSUME IInv, NEW p \in Operators, Swap(p)
  PROVE  /\ Approval(p) \in Approvals
         /\ job[p].id \in Ids
         /\ consumed[job[p].id] = Approval(p)
         /\ pointer = Expected(p)
         /\ pointer' = Target(p)
<1>1. /\ Approval(p) \in Approvals /\ job[p].id \in Ids
      /\ consumed[job[p].id] = Approval(p)
  BY Alone DEF Swap, IInv, OperationInv, ApprovalInv, AfterConsume, Approval
<1>2. Expected(p) # None
  BY <1>1, PromotionAssumption DEF Expected, Approvals
<1> QED BY <1>1, <1>2 DEF Swap, Readable

LEMMA Directions ==
  ASSUME NEW p
  PROVE  Promise!From(Approval(p)) = Expected(p) /\ Promise!To(Approval(p)) = Target(p)
BY DEF Promise!From, Promise!To, Expected, Target, Promoting

\* MovesAreJournaled, of one step.
MoveIsJournaled ==
  pointer' # pointer =>
    /\ tail = "whole"
    /\ \E plan, e \in entries :
         /\ plan.type = "plan" /\ plan.passed
         /\ e.type = "authorization_consumed"
         /\ plan.id = e.id /\ plan.approval = e.approval
         /\ consumed[e.id] = e.approval
         /\ pointer = Promise!From(e.approval)
         /\ pointer' = Promise!To(e.approval)

LEMMA MovesStep == IInv /\ [Next]_vars => MoveIsJournaled
<1> SUFFICES ASSUME IInv, [Next]_vars, pointer' # pointer PROVE MoveIsJournaled
  BY DEF MoveIsJournaled
<1>1. PICK p \in Operators : Swap(p)
  BY Visible DEF Consume, Mark, hostVars
<1> DEFINE plan == Entry(p, "plan", TRUE)
           e == Entry(p, "authorization_consumed", TRUE)
<1>2. tail = "whole" /\ plan \in entries /\ e \in entries
  BY <1>1 DEF Swap, IInv, OperationInv, JournalInv, AfterLog, AfterConsume
<1>3. /\ plan.type = "plan" /\ plan.passed
      /\ e.type = "authorization_consumed"
      /\ plan.approval = Approval(p) /\ plan.id = job[p].id
      /\ e.approval = Approval(p) /\ e.id = job[p].id
  BY DEF Entry
<1> HIDE DEF plan, e
<1>4. /\ consumed[e.id] = e.approval
      /\ pointer = Promise!From(e.approval)
      /\ pointer' = Promise!To(e.approval)
  BY <1>1, <1>3, SwapCompares, Directions
<1> QED BY <1>2, <1>3, <1>4 DEF MoveIsJournaled

\* SplitFreezes, of one step.
SplitStays ==
  (marker \notin {pointer, None} /\ \A p \in Operators : pc[p] # "mark") =>
    UNCHANGED <<pointer, marker, consumed>>

LEMMA SplitStep == IInv /\ [Next]_vars => SplitStays
<1> SUFFICES ASSUME IInv, [Next]_vars, ~Readable, \A p \in Operators : pc[p] # "mark"
             PROVE  UNCHANGED <<pointer, marker, consumed>>
  BY DEF Readable, SplitStays
<1>1. ASSUME NEW p \in Operators PROVE ~Consume(p) /\ ~Swap(p) /\ ~Mark(p)
  BY DEF Consume, Swap, Mark, IInv, OperationInv, HostInv
<1> QED BY <1>1, Visible

-------------------------------------------------------------------------------
(* The promise.                                                            *)

\* The labels at which an approval is taken and not yet used.
Taken == {"log", "stage", "swap"}

LEMMA UndecidedNow ==
  ASSUME TypeOK, NEW p \in Operators, pc[p] # "idle"
  PROVE  Undecided = IF pc[p] \in Taken THEN {job[p].id} ELSE {}
BY Alone DEF Undecided, Taken

\* A step that takes no approval and moves nothing wastes the one it drops, if any.
LEMMA QuietStep ==
  ASSUME IInv, IInv', NEW p \in Operators, pc[p] # "idle",
         pointer' = pointer, UNCHANGED approvalVars,
         Only(p),
         pc'[p] \in Taken => pc[p] \in Taken /\ job'[p].id = job[p].id
  PROVE  [Promise!SpecNext]_(Promise!specVars)
<1>1. GrantedNow' = GrantedNow
  BY DEF GrantedNow, approvalVars
<1>2. \A q \in Operators : q # p => pc[q] = "idle" /\ pc'[q] = "idle"
  BY Alone DEF IInv, Only
<1>3. Undecided = IF pc[p] \in Taken THEN {job[p].id} ELSE {}
  BY UndecidedNow DEF IInv
<1>4. Undecided' = IF pc'[p] \in Taken THEN {job'[p].id} ELSE {}
  BY <1>2 DEF Undecided, Taken
<1>5. CASE Undecided' = Undecided
  BY <1>1, <1>5 DEF SpentNow, Promise!specVars, approvalVars
<1>6. CASE Undecided' # Undecided
  <2>1. pc[p] \in Taken /\ Undecided = {job[p].id} /\ Undecided' = {}
    BY <1>3, <1>4, <1>6
  <2>2. job[p].id \in Ids /\ consumed[job[p].id] # None
    BY <2>1, Alone, PromotionAssumption
       DEF IInv, OperationInv, ApprovalInv, AfterConsume, Taken, Approval
  <2>3. job[p].id \notin SpentNow /\ SpentNow' = SpentNow \union {job[p].id}
    BY <2>1, <2>2 DEF SpentNow, approvalVars
  <2>4. Promise!Waste(job[p].id)
    BY <1>1, <2>3 DEF Promise!Waste
  <2> QED BY <2>2, <2>4 DEF Promise!SpecNext
<1> QED BY <1>5, <1>6

LEMMA GrantStep ==
  ASSUME IInv, NEW a \in Ids, NEW action \in {"promote", "rollback"}, NEW m \in Manifests,
         Authorize(a, action, m)
  PROVE  [Promise!SpecNext]_(Promise!specVars)
<1>1. For(action, m) \in Approvals
  BY ForType, PromotionAssumption
<1>2. GrantedNow' = GrantedNow \union {<<a, For(action, m)>>}
  <2>1. \A b \in Ids : pending'[b] = IF b = a THEN For(action, m) ELSE pending[b]
    BY DEF Authorize, IInv, TypeOK
  <2>2. \A b \in Ids, x \in Approvals :
          <<b, x>> \in GrantedNow' <=> <<b, x>> \in GrantedNow \/ <<b, x>> = <<a, For(action, m)>>
    BY <2>1, PromotionAssumption DEF GrantedNow, Authorize
  <2> QED BY <1>1, <2>2 DEF GrantedNow
<1>3. SpentNow' = SpentNow
  BY DEF SpentNow, Undecided, Authorize, callVars
<1>4. Promise!Grant(a, For(action, m))
  BY <1>2, <1>3 DEF Promise!Grant, Authorize, hostVars
<1> QED BY <1>1, <1>4 DEF Promise!SpecNext, Approvals, Promise!Approvals

\* To take an approval is not yet to use it.
LEMMA TakeStep ==
  ASSUME IInv, NEW p \in Operators, Consume(p)
  PROVE  UNCHANGED Promise!specVars
<1>1. pc[p] = "consume" /\ pc'[p] = "log" /\ job' = job /\ Only(p)
  BY GotoStep DEF Consume, Goto, IInv, Running, Labels
<1> DEFINE a == job[p].id
<1>2. a \in Ids /\ pending[a] = Approval(p) /\ Approval(p) \in Approvals
  BY <1>1, Alone DEF IInv, OperationInv, ApprovalInv, Approval
<1>3. Undecided = {} /\ Undecided' = {a}
  BY <1>1, Alone, UndecidedNow DEF IInv, Undecided, Only, Taken
<1>4. /\ \A b \in Ids : b # a => pending'[b] = pending[b] /\ consumed'[b] = consumed[b]
      /\ pending'[a] = None /\ consumed[a] = None /\ consumed'[a] = Approval(p)
  BY <1>2 DEF Consume, IInv, TypeOK
<1>5. GrantedNow' = GrantedNow
  <2>1. \A b \in Ids, x \in Approvals : <<b, x>> \in GrantedNow' <=> <<b, x>> \in GrantedNow
    BY <1>2, <1>4, PromotionAssumption DEF GrantedNow
  <2> QED BY <2>1 DEF GrantedNow
<1>6. SpentNow' = SpentNow
  BY <1>2, <1>3, <1>4 DEF SpentNow
<1> QED BY <1>5, <1>6 DEF Promise!specVars, Consume, hostVars

LEMMA MoveStep ==
  ASSUME IInv, NEW p \in Operators, Swap(p)
  PROVE  [Promise!SpecNext]_(Promise!specVars)
<1>1. pc[p] = "swap" /\ pc'[p] = "mark" /\ Only(p) /\ UNCHANGED approvalVars
  BY GotoStep DEF Swap, IInv, Running, Labels
<1> DEFINE a == job[p].id
<1>2. /\ Approval(p) \in Approvals /\ a \in Ids /\ consumed[a] = Approval(p)
      /\ pointer = Promise!From(Approval(p)) /\ pointer' = Promise!To(Approval(p))
  BY SwapCompares, Directions
<1>3. Undecided = {a} /\ Undecided' = {}
  BY <1>1, Alone, UndecidedNow DEF IInv, Undecided, Only, Taken
<1>4. a \notin SpentNow /\ SpentNow' = SpentNow \union {a}
  BY <1>1, <1>2, <1>3, PromotionAssumption DEF SpentNow, approvalVars
<1>5. <<a, Approval(p)>> \in GrantedNow /\ GrantedNow' = GrantedNow
  BY <1>1, <1>2 DEF GrantedNow, approvalVars
<1>6. Promise!Move(a, Approval(p))
  BY <1>2, <1>4, <1>5 DEF Promise!Move
<1> QED BY <1>2, <1>6 DEF Promise!SpecNext, Approvals, Promise!Approvals

LEMMA PromiseStep == IInv /\ IInv' /\ [Next]_vars => [Promise!SpecNext]_(Promise!specVars)
<1> SUFFICES ASSUME IInv, IInv', [Next]_vars PROVE [Promise!SpecNext]_(Promise!specVars)
  OBVIOUS
<1>1. ASSUME NEW a \in Ids, NEW action \in {"promote", "rollback"}, NEW m \in Manifests,
             Authorize(a, action, m)
      PROVE  [Promise!SpecNext]_(Promise!specVars)
  BY <1>1, GrantStep
<1>2. ASSUME NEW p \in Operators, OperatorStep(p)
      PROVE  [Promise!SpecNext]_(Promise!specVars)
  <2>1. CASE Consume(p)
    BY <2>1, TakeStep
  <2>2. CASE Swap(p)
    BY <2>2, MoveStep
  <2>3. ASSUME NEW label \in {"checks", "plan"}, NEW approval, NEW a, Enter(p, label, approval, a)
        PROVE  UNCHANGED Promise!specVars
    <3>1. \A q \in Operators : pc[q] = "idle" /\ pc'[q] \in {"idle", "checks", "plan"}
      BY <2>3, PromotionAssumption DEF Enter, IInv, TypeOK
    <3>2. Undecided = {} /\ Undecided' = {}
      BY <3>1 DEF Undecided
    <3> QED BY <2>3, <3>2 DEF Enter, Promise!specVars, GrantedNow, SpentNow, hostVars, approvalVars
  <2>4. ASSUME Leave(p), pc[p] # "idle", pointer' = pointer, UNCHANGED approvalVars
        PROVE  [Promise!SpecNext]_(Promise!specVars)
    <3>1. Only(p) /\ pc'[p] = "idle"
      BY <2>4, LeaveStep DEF IInv
    <3> QED BY <2>4, <3>1, QuietStep DEF Taken
  <2>5. ASSUME NEW label \in Running, Goto(p, label), pc[p] # "idle",
               label \in Taken => pc[p] \in Taken,
               pointer' = pointer, UNCHANGED approvalVars
        PROVE  [Promise!SpecNext]_(Promise!specVars)
    <3>1. Only(p) /\ pc'[p] = label /\ job'[p] = job[p]
      BY <2>5, GotoStep DEF IInv
    <3> QED BY <2>5, <3>1, QuietStep
  <2>6. ASSUME NEW label \in {"smoke", "outcome"}, NEW result \in BOOLEAN,
               Passed(p, result, label), pc[p] # "idle",
               pointer' = pointer, UNCHANGED approvalVars
        PROVE  [Promise!SpecNext]_(Promise!specVars)
    <3>1. Only(p) /\ pc'[p] = label
      BY <2>6, PassedStep DEF IInv, Running, Labels
    <3> QED BY <2>6, <3>1, QuietStep DEF Taken
  <2>7. CASE Checks(p)
    BY <2>4, <2>5, <2>7 DEF Checks, Journaled, hostVars, Running, Labels, Taken
  <2>8. CASE Plan(p)
    BY <2>4, <2>5, <2>8 DEF Plan, Journaled, hostVars, Running, Labels, Taken
  <2>9. CASE Log(p)
    BY <2>4, <2>5, <2>9 DEF Log, Journaled, hostVars, Running, Labels, Taken
  <2>10. CASE Stage(p)
    BY <2>5, <2>10 DEF Stage, Running, Labels, Taken
  <2>11. CASE Mark(p)
    BY <2>5, <2>11 DEF Mark, Running, Labels, Taken
  <2>12. CASE Restart(p) \/ Smoke(p)
    BY <2>4, <2>6, <2>12 DEF Restart, Smoke, Journaled, hostVars
  <2>13. CASE Outcome(p)
    BY <2>4, <2>5, <2>13 DEF Outcome, Journaled, hostVars, Running, Labels, Taken
  <2>14. CASE Persist(p) \/ Abort(p)
    BY <2>4, <2>14 DEF Persist, Abort, hostVars
  <2>15. CASE (\E m \in Manifests, a \in Ids : StartPromotion(p, m, a))
              \/ (\E o \in operations, a \in Ids : StartRollback(p, o, a))
    BY <2>3, <2>15 DEF StartPromotion, StartRollback
  <2> QED BY <1>2, <2>1, <2>2, <2>7, <2>8, <2>9, <2>10, <2>11, <2>12, <2>13, <2>14, <2>15
          DEF OperatorStep
<1>3. CASE UNCHANGED vars
  BY <1>3 DEF vars, Promise!specVars, GrantedNow, SpentNow, Undecided
<1> QED BY <1>1, <1>2, <1>3 DEF Next

LEMMA PromiseInit == Init => Promise!SpecInit
<1> SUFFICES ASSUME Init PROVE Promise!SpecInit
  OBVIOUS
<1>1. pointer \in Builds /\ SpentNow = {}
  BY DEF Init, SpentNow
<1>2. GrantedNow = {}
  <2>1. \A g \in Ids \X Approvals : g[2] # None /\ pending[g[1]] = None /\ consumed[g[1]] = None
    BY PromotionAssumption DEF Init
  <2> QED BY <2>1 DEF GrantedNow
<1> QED BY <1>1, <1>2 DEF Promise!SpecInit

-------------------------------------------------------------------------------
(* The theorems.                                                           *)

\* Every state of the adapter satisfies the inductive invariant: what an operation
\* has consumed and journaled is still there at its next step.
THEOREM OperationInvariant == Spec => []IInv
BY IInvInit, StepKept, PTL DEF Spec

\* Every file keeps its type, and only the holder of the lock is inside.
THEOREM TypeCorrect == Spec => []TypeOK
<1>1. IInv => TypeOK
  BY DEF IInv
<1> QED BY <1>1, OperationInvariant, PTL

\* A result to roll back from is the journaled outcome of that promotion.
THEOREM ResultsHaveOutcomes == Spec => []ResultsAreJournaled
<1>1. IInv => ResultsAreJournaled
  BY DEF IInv
<1> QED BY <1>1, OperationInvariant, PTL

\* Production never moves without a readable journal that holds the ready plan and
\* the consumption of the approval.
THEOREM MovesHaveRecords == Spec => MovesAreJournaled
<1>1. IInv /\ [Next]_vars => [MoveIsJournaled]_vars
  BY MovesStep
<1>2. Spec => [][MoveIsJournaled]_vars
  BY <1>1, OperationInvariant, PTL DEF Spec
<1> QED BY <1>2 DEF MovesAreJournaled, MoveIsJournaled

\* A half-finished activation stays as it is: no operation builds upon it.
THEOREM SplitsAreKept == Spec => SplitFreezes
<1>1. IInv /\ [Next]_vars => [SplitStays]_vars
  BY SplitStep
<1>2. Spec => [][SplitStays]_vars
  BY <1>1, OperationInvariant, PTL DEF Spec
<1> QED BY <1>2 DEF SplitFreezes, SplitStays

\* The adapter, stopped anywhere, implements PromotionSpec: production moves only
\* along a granted approval, and every approval is good for one try.
THEOREM PromotionRefinement == Spec => ImplementsPromotion
<1>1. IInv /\ IInv' /\ [Next]_vars => [Promise!SpecNext]_(Promise!specVars)
  BY PromiseStep
<1>2. Spec => Promise!SpecInit /\ [][Promise!SpecNext]_(Promise!specVars)
  BY <1>1, PromiseInit, OperationInvariant, PTL DEF Spec
<1> QED BY <1>2 DEF ImplementsPromotion, Promise!PromotionSafety

-------------------------------------------------------------------------------
(* The steps are steps of the adapter.                                     *)

LEMMA ControlledStepIsStep == [ControlledNext]_controlledVars => [Next]_vars
<1> SUFFICES ASSUME [ControlledNext]_controlledVars PROVE [Next]_vars
  OBVIOUS
<1>1. ASSUME NEW a \in Ids, NEW action \in {"promote", "rollback"}, NEW d \in Submitted,
             NEW actor \in Approvers, ControlledAuthorize(a, action, d, actor)
      PROVE  Next
  <2>1. ManifestOf(d) \in Manifests /\ Authorize(a, action, ManifestOf(d))
    BY <1>1, ControlledAssumption DEF ControlledAuthorize
  <2> QED BY <2>1 DEF Next
<1>2. ASSUME NEW p \in Operators, ControlledStep(p)
      PROVE  Next
  <2>1. ASSUME NEW d \in Submitted, NEW a \in Ids, ControlledStart(p, d, a)
        PROVE  OperatorStep(p)
    <3>1. ManifestOf(d) \in Manifests /\ StartPromotion(p, ManifestOf(d), a)
      BY <2>1, ControlledAssumption DEF ControlledStart
    <3> QED BY <3>1 DEF OperatorStep
  <2>2. ASSUME NEW o \in operations, NEW a \in Ids, ControlledRollback(p, o, a)
        PROVE  OperatorStep(p)
    BY <2>2 DEF ControlledRollback, OperatorStep
  <2>3. OperatorStep(p)
    BY <1>2, <2>1, <2>2 DEF ControlledStep, ControlledChecks, ControlledPlan, ControlledConsume,
       ControlledStage, ControlledSmoke, ControlledPersist, OperatorStep
  <2> QED BY <2>3 DEF Next
<1>3. CASE UNCHANGED controlledVars
  BY <1>3 DEF controlledVars
<1> QED BY <1>1, <1>2, <1>3 DEF ControlledNext

\* The adapter under the rules is the adapter of TrustedPromotion: what is proved of
\* that one, the promise of PromotionSpec included, holds of this one.
THEOREM ControlledIsTrusted == ControlledSpec => Spec
<1>1. ControlledInit => Init
  BY DEF ControlledInit
<1> QED BY <1>1, ControlledStepIsStep, PTL DEF ControlledSpec, Spec

-------------------------------------------------------------------------------
(* The inductive invariant.                                                *)

\* A release names, for every path, a build; an approval has an authorization in each
\* of the two directories exactly when it is there.
RecordsInv ==
  /\ content \in [Builds -> [Paths -> Builds \union {None}]]
  /\ scope \in [Ids -> Authorizations \union {None}]
  /\ taken \in [Ids -> Authorizations \union {None}]
  /\ DOMAIN declared = Operators
  /\ \A id \in Ids : /\ pending[id] # None => scope[id] # None
                     /\ consumed[id] # None => taken[id] # None
                     /\ taken[id] # None => consumed[id] # None

\* A promotion under way has the manifest its approval was given for, and from its
\* plan on an authorization under which the rules allow it.
AllowedInv(p) ==
  pc[p] # "idle" /\ Promoting(p) =>
    /\ declared[p] \in Submitted
    /\ Approval(p) = For("promote", ManifestOf(declared[p]))
    /\ pc[p] = "consume" => PromotionAllowed(declared[p], scope[job[p].id])
    /\ pc[p] \in {"log", "stage"} => PromotionAllowed(declared[p], taken[job[p].id])

\* What ReleaseIsApproved says of a promoted release, with the release it was made
\* from still there.
MadeOf(b, a, d) ==
  /\ taken[a] # None
  /\ d.candidate = b
  /\ Authorized(taken[a], d, "promote")
  /\ taken[a].previous \in releases
  /\ content[b] = [path \in Paths |-> IF path \in taken[a].artifacts THEN b
                                      ELSE content[taken[a].previous][path]]

ReleasesInv ==
  \A b \in releases :
    \/ \A d \in Submitted : d.candidate # b
    \/ \E a \in Ids, d \in Submitted : MadeOf(b, a, d)

RulesInv ==
  /\ RecordsInv
  /\ \A p \in Operators : AllowedInv(p)
  /\ ReleasesInv
  /\ ControlPlaneIsFrozen

LEMMA RulesInit == ControlledInit => RulesInv
<1> SUFFICES ASSUME ControlledInit PROVE RulesInv
  OBVIOUS
<1>1. RecordsInv
  BY DEF ControlledInit, Init, RecordsInv, Absent
<1>2. \A p \in Operators : AllowedInv(p)
  BY DEF ControlledInit, Init, AllowedInv
<1>3. ReleasesInv /\ ControlPlaneIsFrozen
  BY DEF ControlledInit, Init, ReleasesInv, ControlPlaneIsFrozen
<1> QED BY <1>1, <1>2, <1>3 DEF RulesInv

-------------------------------------------------------------------------------
(* Steps that stage nothing.                                               *)

\* As long as releases, their content and what was consumed stay, so do the facts
\* about releases.
LEMMA ReleasesStay ==
  ASSUME RulesInv, UNCHANGED <<releases, content>>,
         \A a \in Ids : taken[a] # None => taken'[a] = taken[a]
  PROVE  ReleasesInv' /\ ControlPlaneIsFrozen'
<1>1. ASSUME NEW b, NEW a \in Ids, NEW d \in Submitted, MadeOf(b, a, d)
      PROVE  MadeOf(b, a, d)'
  BY <1>1 DEF MadeOf
<1> QED BY <1>1 DEF RulesInv, ReleasesInv, ControlPlaneIsFrozen

\* A new approval is for an id that no operation is about to consume.
LEMMA RulesAuthorize ==
  ASSUME IInv, RulesInv, NEW a \in Ids, NEW action \in {"promote", "rollback"}, NEW d \in Submitted,
         NEW actor \in Approvers, ControlledAuthorize(a, action, d, actor)
  PROVE  RulesInv'
<1>1. /\ pending[a] = None
      /\ scope' = [scope EXCEPT ![a] = AuthorizationOf(d, action, actor)]
      /\ pending' = [pending EXCEPT ![a] = For(action, ManifestOf(d))]
      /\ UNCHANGED <<content, taken, declared, consumed, releases, pc, job>>
  BY DEF ControlledAuthorize, Authorize, hostVars, callVars
<1>2. AuthorizationOf(d, action, actor) \in Authorizations
  BY ControlledAssumption DEF AuthorizationOf, Authorizations, Deployments
<1>3. RecordsInv'
  <2>1. For(action, ManifestOf(d)) \in Approvals
    BY ForType, ControlledAssumption, PromotionAssumption
  <2>2. For(action, ManifestOf(d)) # None /\ AuthorizationOf(d, action, actor) # None
    BY <1>2, <2>1, PromotionAssumption, ControlledAssumption
  <2>3. pending \in [Ids -> Approvals \union {None}] /\ RecordsInv
    BY DEF RulesInv, IInv, TypeOK
  <2>4. ASSUME NEW b \in Ids
        PROVE  /\ pending'[b] # None => scope'[b] # None
               /\ consumed'[b] # None => taken'[b] # None
               /\ taken'[b] # None => consumed'[b] # None
    BY <1>1, <2>2, <2>3 DEF RecordsInv
  <2>5. /\ content' \in [Builds -> [Paths -> Builds \union {None}]]
        /\ scope' \in [Ids -> Authorizations \union {None}]
        /\ taken' \in [Ids -> Authorizations \union {None}]
        /\ DOMAIN declared' = Operators
    BY <1>1, <1>2, <2>3 DEF RecordsInv
  <2> QED BY <2>4, <2>5 DEF RecordsInv
<1>4. ASSUME NEW p \in Operators
      PROVE  AllowedInv(p)'
  <2>1. pc[p] = "consume" => job[p].id \in Ids /\ job[p].id # a
    <3> SUFFICES ASSUME pc[p] = "consume" PROVE job[p].id \in Ids /\ job[p].id # a
      OBVIOUS
    <3>1. job[p].id \in Ids /\ Approval(p) \in Approvals
      BY Alone DEF IInv, Approval
    <3>2. pending[job[p].id] = Approval(p)
      BY DEF IInv, OperationInv, ApprovalInv
    <3> QED BY <1>1, <3>1, <3>2, PromotionAssumption
  <2>2. pc[p] = "consume" => scope'[job[p].id] = scope[job[p].id]
    BY <1>1, <2>1 DEF RulesInv, RecordsInv
  <2> QED BY <1>1, <2>2 DEF RulesInv, AllowedInv, Promoting, Approval
<1>5. ReleasesInv' /\ ControlPlaneIsFrozen'
  BY <1>1, ReleasesStay
<1> QED BY <1>3, <1>4, <1>5 DEF RulesInv

LEMMA EnterStep ==
  ASSUME IInv, NEW p \in Operators, NEW label, NEW approval, NEW a, Enter(p, label, approval, a)
  PROVE  /\ pc'[p] = label
         /\ job'[p].approval = approval
         /\ \A q \in Operators : q # p => pc'[q] = pc[q] /\ job'[q] = job[q]
         /\ UNCHANGED <<releases, pending, consumed>>
BY DEF IInv, TypeOK, Enter, hostVars, approvalVars

LEMMA RulesStart ==
  ASSUME IInv, RulesInv, NEW p \in Operators, NEW d \in Submitted, NEW a \in Ids,
         ControlledStart(p, d, a)
  PROVE  RulesInv'
<1>1. /\ declared' = [declared EXCEPT ![p] = d]
      /\ UNCHANGED <<content, scope, taken>>
      /\ Enter(p, "checks", For("promote", ManifestOf(d)), a)
  BY DEF ControlledStart, StartPromotion
<1>2. /\ pc'[p] = "checks"
      /\ job'[p].approval = For("promote", ManifestOf(d))
      /\ \A q \in Operators : q # p => pc'[q] = pc[q] /\ job'[q] = job[q]
      /\ UNCHANGED <<releases, pending, consumed>>
  BY <1>1, EnterStep
<1>3. RecordsInv'
  BY <1>1, <1>2 DEF RulesInv, RecordsInv
<1>4. \A q \in Operators : AllowedInv(q)'
  BY <1>1, <1>2 DEF RulesInv, RecordsInv, AllowedInv, Promoting, Approval
<1>5. ReleasesInv' /\ ControlPlaneIsFrozen'
  BY <1>1, <1>2, ReleasesStay
<1> QED BY <1>3, <1>4, <1>5 DEF RulesInv

LEMMA RulesRollback ==
  ASSUME IInv, RulesInv, NEW p \in Operators, NEW o \in operations, NEW a \in Ids,
         ControlledRollback(p, o, a)
  PROVE  RulesInv'
<1>1. /\ declared' = [declared EXCEPT ![p] = recorded[o.candidate]]
      /\ UNCHANGED <<content, scope, taken>>
      /\ Enter(p, "plan", For("rollback", o), a)
  BY DEF ControlledRollback, StartRollback
<1>2. /\ pc'[p] = "plan"
      /\ job'[p].approval = For("rollback", o)
      /\ \A q \in Operators : q # p => pc'[q] = pc[q] /\ job'[q] = job[q]
      /\ UNCHANGED <<releases, pending, consumed>>
  BY <1>1, EnterStep
<1>3. RecordsInv'
  BY <1>1, <1>2 DEF RulesInv, RecordsInv
<1>4. ~Promoting(p)'
  BY <1>2 DEF Promoting, Approval, For
<1>5. \A q \in Operators : AllowedInv(q)'
  BY <1>1, <1>2, <1>4 DEF RulesInv, RecordsInv, AllowedInv, Promoting, Approval
<1>6. ReleasesInv' /\ ControlPlaneIsFrozen'
  BY <1>1, <1>2, ReleasesStay
<1> QED BY <1>3, <1>5, <1>6 DEF RulesInv

\* An operation goes on or ends: the others stay, and it keeps its approval.
LEMMA GoesOn ==
  ASSUME TypeOK, NEW p \in Operators, pc[p] # "idle", NEW label \in Running, NEW result \in BOOLEAN,
         Goto(p, label) \/ Passed(p, result, label) \/ Leave(p)
  PROVE  /\ \A q \in Operators : q # p => pc'[q] = pc[q] /\ job'[q] = job[q]
         /\ pc'[p] \in {label, "idle"}
         /\ pc'[p] # "idle" => job'[p].approval = job[p].approval /\ job'[p].id = job[p].id
<1>1. CASE Goto(p, label)
  BY <1>1, GotoStep DEF Only
<1>2. CASE Passed(p, result, label)
  <2>1. job[p] \in Jobs
    BY Alone
  <2>2. Only(p) /\ pc'[p] = label /\ job'[p] = [job[p] EXCEPT !.passed = result]
    BY <1>2, PassedStep
  <2>3. job'[p].approval = job[p].approval /\ job'[p].id = job[p].id
    BY <2>1, <2>2 DEF Jobs
  <2> QED BY <2>2, <2>3 DEF Only
<1>3. CASE Leave(p)
  BY <1>3, LeaveStep DEF Only
<1> QED BY <1>1, <1>2, <1>3

\* The steps that change nothing the rules look at.
Plain(p) ==
  \/ Checks(p) \/ Log(p) \/ Swap(p) \/ Mark(p) \/ Restart(p) \/ Smoke(p) \/ Outcome(p)
  \/ Persist(p) \/ Abort(p)

LEMMA PlainStep ==
  ASSUME IInv, NEW p \in Operators, Plain(p)
  PROVE  /\ pc[p] # "idle"
         /\ UNCHANGED <<releases, pending, consumed>>
         /\ \A q \in Operators : q # p => pc'[q] = pc[q] /\ job'[q] = job[q]
         /\ pc'[p] # "idle" => job'[p].approval = job[p].approval /\ job'[p].id = job[p].id
         /\ pc'[p] # "consume"
         /\ pc'[p] \in {"log", "stage"} => pc[p] \in {"log", "stage"}
<1>1. TypeOK
  BY DEF IInv
<1>2. CASE Checks(p)
  <2>1. pc[p] = "checks" /\ UNCHANGED <<releases, pending, consumed>> /\ (Goto(p, "plan") \/ Leave(p))
    BY <1>2 DEF Checks, Journaled, hostVars, approvalVars
  <2>2. "plan" \in Running /\ TRUE \in BOOLEAN
    BY DEF Running, Labels
  <2> QED BY <1>1, <2>1, <2>2, GoesOn
<1>3. CASE Log(p)
  <2> DEFINE label == IF Promoting(p) THEN "stage" ELSE "swap"
  <2>1. pc[p] = "log" /\ UNCHANGED <<releases, pending, consumed>> /\ (Goto(p, label) \/ Leave(p))
    BY <1>3 DEF Log, Journaled, hostVars, approvalVars
  <2>2. label \in Running /\ label # "consume" /\ TRUE \in BOOLEAN
    BY DEF Running, Labels
  <2> HIDE DEF label
  <2> QED BY <1>1, <2>1, <2>2, GoesOn
<1>4. CASE Swap(p)
  <2>1. pc[p] = "swap" /\ UNCHANGED <<releases, pending, consumed>> /\ Goto(p, "mark")
    BY <1>4 DEF Swap, approvalVars
  <2>2. "mark" \in Running /\ TRUE \in BOOLEAN
    BY DEF Running, Labels
  <2> QED BY <1>1, <2>1, <2>2, GoesOn
<1>5. CASE Mark(p)
  <2>1. pc[p] = "mark" /\ UNCHANGED <<releases, pending, consumed>> /\ Goto(p, "restart")
    BY <1>5 DEF Mark, approvalVars
  <2>2. "restart" \in Running /\ TRUE \in BOOLEAN
    BY DEF Running, Labels
  <2> QED BY <1>1, <2>1, <2>2, GoesOn
<1>6. CASE Restart(p)
  <2>1. PICK result \in BOOLEAN :
          Passed(p, result, IF result THEN "smoke" ELSE "outcome") \/ Leave(p)
    BY <1>6 DEF Restart, Journaled
  <2> DEFINE label == IF result THEN "smoke" ELSE "outcome"
  <2>2. pc[p] = "restart" /\ UNCHANGED <<releases, pending, consumed>>
    BY <1>6 DEF Restart, hostVars, approvalVars
  <2>3. label \in Running /\ label \notin {"consume", "log", "stage"}
    BY DEF Running, Labels
  <2>4. Passed(p, result, label) \/ Leave(p)
    BY <2>1
  <2> HIDE DEF label
  <2> QED BY <1>1, <2>2, <2>3, <2>4, GoesOn
<1>7. CASE Smoke(p)
  <2>1. PICK result \in BOOLEAN : Passed(p, result, "outcome") \/ Leave(p)
    BY <1>7 DEF Smoke, Journaled
  <2>2. pc[p] = "smoke" /\ UNCHANGED <<releases, pending, consumed>>
    BY <1>7 DEF Smoke, hostVars, approvalVars
  <2>3. "outcome" \in Running
    BY DEF Running, Labels
  <2> QED BY <1>1, <2>1, <2>2, <2>3, GoesOn
<1>8. CASE Outcome(p)
  <2>1. pc[p] = "outcome" /\ UNCHANGED <<releases, pending, consumed>> /\ (Goto(p, "persist") \/ Leave(p))
    BY <1>8 DEF Outcome, Journaled, hostVars, approvalVars
  <2>2. "persist" \in Running /\ TRUE \in BOOLEAN
    BY DEF Running, Labels
  <2> QED BY <1>1, <2>1, <2>2, GoesOn
<1>9. CASE Persist(p) \/ Abort(p)
  <2>1. pc[p] # "idle" /\ UNCHANGED <<releases, pending, consumed>> /\ Leave(p)
    BY <1>9 DEF Persist, Abort, hostVars, approvalVars
  <2>2. "persist" \in Running /\ TRUE \in BOOLEAN
    BY DEF Running, Labels
  <2> QED BY <1>1, <2>1, <2>2, LeaveStep DEF Only
<1> QED BY <1>2, <1>3, <1>4, <1>5, <1>6, <1>7, <1>8, <1>9 DEF Plain

LEMMA RulesPlain ==
  ASSUME IInv, RulesInv, NEW p \in Operators, Plain(p), UNCHANGED <<content, scope, taken, declared>>
  PROVE  RulesInv'
<1>1. RecordsInv'
  BY PlainStep DEF RulesInv, RecordsInv
<1>2. \A q \in Operators : AllowedInv(q)'
  BY PlainStep DEF RulesInv, AllowedInv, Promoting, Approval
<1>3. ReleasesInv' /\ ControlPlaneIsFrozen'
  BY PlainStep, ReleasesStay
<1> QED BY <1>1, <1>2, <1>3 DEF RulesInv

-------------------------------------------------------------------------------
(* The plan, the consumption and the staging.                              *)

LEMMA RulesPlan ==
  ASSUME IInv, RulesInv, NEW p \in Operators, ControlledPlan(p)
  PROVE  RulesInv'
<1>1. /\ pc[p] = "plan" /\ UNCHANGED <<releases, pending, consumed, content, scope, taken, declared>>
      /\ Goto(p, "consume") \/ Leave(p)
  BY DEF ControlledPlan, Plan, Journaled, hostVars, approvalVars, ruleVars
<1>2. pc'[p] = "consume" => Allowed(p)
  BY DEF ControlledPlan
<1>3. "consume" \in Running /\ TRUE \in BOOLEAN /\ TypeOK
  BY DEF Running, Labels, IInv
<1>4. /\ \A q \in Operators : q # p => pc'[q] = pc[q] /\ job'[q] = job[q]
      /\ pc'[p] \in {"consume", "idle"}
      /\ pc'[p] # "idle" => job'[p].approval = job[p].approval /\ job'[p].id = job[p].id
  BY <1>1, <1>3, GoesOn
<1>5. RecordsInv'
  BY <1>1 DEF RulesInv, RecordsInv
<1>6. AllowedInv(p)'
  BY <1>1, <1>2, <1>4 DEF RulesInv, AllowedInv, Allowed, Promoting, Approval
<1>7. \A q \in Operators : AllowedInv(q)'
  BY <1>1, <1>4, <1>6 DEF RulesInv, AllowedInv, Promoting, Approval
<1>8. ReleasesInv' /\ ControlPlaneIsFrozen'
  BY <1>1, ReleasesStay
<1> QED BY <1>5, <1>7, <1>8 DEF RulesInv

\* The authorization under which the plan was ready is the one that is taken.
LEMMA RulesConsume ==
  ASSUME IInv, RulesInv, NEW p \in Operators, ControlledConsume(p)
  PROVE  RulesInv'
<1> DEFINE a == job[p].id
<1>1. /\ pc[p] = "consume" /\ consumed[a] = None /\ pending[a] # None
      /\ consumed' = [consumed EXCEPT ![a] = pending[a]]
      /\ pending' = [pending EXCEPT ![a] = None]
      /\ taken' = [taken EXCEPT ![a] = scope[a]]
      /\ scope' = [scope EXCEPT ![a] = None]
      /\ UNCHANGED <<releases, content, declared>>
      /\ Goto(p, "log")
  BY DEF ControlledConsume, Consume, hostVars
<1>2. "log" \in Running /\ TypeOK
  BY DEF Running, Labels, IInv
<1>3. Only(p) /\ pc'[p] = "log" /\ job'[p] = job[p]
  BY <1>1, <1>2, GotoStep
<1>4. a \in Ids /\ \A q \in Operators : q # p => pc[q] = "idle"
  BY <1>1, <1>2, Alone
<1> HIDE DEF a
<1>0. /\ pending \in [Ids -> Approvals \union {None}]
      /\ consumed \in [Ids -> Approvals \union {None}]
      /\ RecordsInv
  BY <1>2 DEF RulesInv, TypeOK
<1>6. taken'[a] = scope[a] /\ \A b \in Ids \ {a} : taken'[b] = taken[b] /\ scope'[b] = scope[b]
  BY <1>1, <1>4, <1>0 DEF RecordsInv
<1>5. RecordsInv'
  <2>1. ASSUME NEW b \in Ids
        PROVE  /\ pending'[b] # None => scope'[b] # None
               /\ consumed'[b] # None => taken'[b] # None
               /\ taken'[b] # None => consumed'[b] # None
    <3>1. CASE b = a
      BY <1>0, <1>1, <1>4, <3>1 DEF RecordsInv
    <3>2. CASE b # a
      BY <1>0, <1>1, <1>4, <1>6, <3>2 DEF RecordsInv
    <3> QED BY <3>1, <3>2
  <2>2. /\ content' \in [Builds -> [Paths -> Builds \union {None}]]
        /\ scope' \in [Ids -> Authorizations \union {None}]
        /\ taken' \in [Ids -> Authorizations \union {None}]
        /\ DOMAIN declared' = Operators
    BY <1>0, <1>1, <1>4 DEF RecordsInv
  <2> QED BY <2>1, <2>2 DEF RecordsInv
<1>7. AllowedInv(p)'
  BY <1>1, <1>3, <1>6 DEF RulesInv, AllowedInv, Promoting, Approval, a
<1>8. \A q \in Operators : AllowedInv(q)'
  BY <1>3, <1>4, <1>7 DEF AllowedInv, Only
<1>9. \A b \in Ids : taken[b] # None => taken'[b] = taken[b]
  BY <1>0, <1>1, <1>4, <1>6 DEF RecordsInv
<1>10. ReleasesInv' /\ ControlPlaneIsFrozen'
  BY <1>1, <1>9, ReleasesStay
<1> QED BY <1>5, <1>8, <1>10 DEF RulesInv

\* A release is staged for a promotion that the rules allow under the authorization
\* that was taken, and none of its artifacts is of the control plane.
LEMMA StageMakes ==
  ASSUME IInv, RulesInv, NEW p \in Operators, ControlledStage(p)
  PROVE  \E a \in Ids, d \in Submitted, new \in Builds, old \in Builds :
           /\ new \notin releases /\ old \in releases
           /\ releases' = releases \union {new}
           /\ content' = [content EXCEPT ![new] =
                [path \in Paths |-> IF path \in d.artifacts THEN new ELSE content[old][path]]]
           /\ taken[a] # None /\ d.candidate = new
           /\ Authorized(taken[a], d, "promote")
           /\ taken[a].previous = old /\ taken[a].artifacts = d.artifacts
           /\ d.artifacts \intersect ControlPlane = {}
<1> DEFINE a == job[p].id
           d == declared[p]
           new == Target(p)
           old == Approval(p).previous
<1>1. /\ pc[p] = "stage" /\ new \notin releases /\ old \in releases
      /\ releases' = releases \union {new}
      /\ content' = [content EXCEPT ![new] =
           [path \in Paths |-> IF path \in d.artifacts THEN new ELSE content[old][path]]]
  BY DEF ControlledStage, Stage
<1>2. a \in Ids /\ Approval(p) \in Approvals
  BY <1>1, Alone DEF Approval, IInv
<1>3. Promoting(p)
  BY <1>1, <1>2 DEF Target, Promoting, Approvals
<1>4. /\ d \in Submitted
      /\ Approval(p) = For("promote", ManifestOf(d))
      /\ PromotionAllowed(d, taken[a])
  BY <1>1, <1>3 DEF RulesInv, AllowedInv
<1>5. new = d.candidate /\ old = d.previous /\ new \in Builds /\ old \in Builds
  BY <1>2, <1>3, <1>4 DEF Target, For, ManifestOf, Approvals
<1>6. d.artifacts \intersect ControlPlane = {}
  <2>1. \A path \in d.artifacts : ~ControllerDenies(path)
    BY <1>4 DEF PromotionAllowed, ManifestVerified
  <2>2. \A path \in ControlPlane : ControllerDenies(path)
    BY DEF ControlPlane, ControllerDenies
  <2> QED BY <2>1, <2>2
<1>7. /\ Authorized(taken[a], d, "promote")
      /\ taken[a].previous = old /\ taken[a].artifacts = d.artifacts
  BY <1>4, <1>5 DEF PromotionAllowed, Authorized, Covers
<1>8. taken[a] # None
  <2>1. consumed[a] = Approval(p)
    BY <1>1 DEF IInv, OperationInv, ApprovalInv, AfterConsume
  <2> QED BY <1>2, <2>1, PromotionAssumption DEF RulesInv, RecordsInv
<1> HIDE DEF a, d, new, old
<1> QED BY <1>1, <1>2, <1>4, <1>5, <1>6, <1>7, <1>8

LEMMA RulesStage ==
  ASSUME IInv, RulesInv, NEW p \in Operators, ControlledStage(p)
  PROVE  RulesInv'
<1>1. PICK a \in Ids, d \in Submitted, new \in Builds, old \in Builds :
        /\ new \notin releases /\ old \in releases
        /\ releases' = releases \union {new}
        /\ content' = [content EXCEPT ![new] =
             [path \in Paths |-> IF path \in d.artifacts THEN new ELSE content[old][path]]]
        /\ taken[a] # None /\ d.candidate = new
        /\ Authorized(taken[a], d, "promote")
        /\ taken[a].previous = old /\ taken[a].artifacts = d.artifacts
        /\ d.artifacts \intersect ControlPlane = {}
  BY StageMakes
<1>2. /\ pc[p] = "stage" /\ Goto(p, "swap")
      /\ UNCHANGED <<scope, taken, declared, pending, consumed>>
  BY DEF ControlledStage, Stage, approvalVars
<1>3. "swap" \in Running /\ TypeOK
  BY DEF Running, Labels, IInv
<1>4. Only(p) /\ pc'[p] = "swap" /\ job'[p] = job[p]
  BY <1>2, <1>3, GotoStep
<1>5. /\ content'[new] = [path \in Paths |-> IF path \in d.artifacts THEN new ELSE content[old][path]]
      /\ \A b \in releases : content'[b] = content[b]
  BY <1>1 DEF RulesInv, RecordsInv
<1>6. RecordsInv'
  <2>1. content[old] \in [Paths -> Builds \union {None}]
    BY <1>1 DEF RulesInv, RecordsInv
  <2>2. [path \in Paths |-> IF path \in d.artifacts THEN new ELSE content[old][path]]
          \in [Paths -> Builds \union {None}]
    BY <2>1, <1>1
  <2> QED BY <1>1, <1>2, <2>2 DEF RulesInv, RecordsInv
<1>7. \A q \in Operators : AllowedInv(q)'
  <2>1. AllowedInv(p)'
    BY <1>2, <1>4 DEF RulesInv, AllowedInv, Promoting, Approval
  <2> QED BY <1>2, <1>3, <1>4, <2>1, Alone DEF AllowedInv, Only
<1>8. ReleasesInv'
  <2>1. MadeOf(new, a, d)'
    BY <1>1, <1>2, <1>5 DEF MadeOf
  <2>2. ASSUME NEW b \in releases, NEW e \in Ids, NEW f \in Submitted, MadeOf(b, e, f)
        PROVE  MadeOf(b, e, f)'
    BY <1>1, <1>2, <1>5, <2>2 DEF MadeOf
  <2>3. ASSUME NEW b \in releases
        PROVE  \/ \A f \in Submitted : f.candidate # b
               \/ \E e \in Ids, f \in Submitted : MadeOf(b, e, f)'
    BY <2>2 DEF RulesInv, ReleasesInv
  <2> QED BY <1>1, <2>1, <2>3 DEF ReleasesInv
<1>9. ControlPlaneIsFrozen'
  <2>1. \A path \in ControlPlane : path \in Paths /\ path \notin d.artifacts
    BY <1>1 DEF ControlPlane, Paths
  <2>2. \A path \in ControlPlane : content'[new][path] = content[old][path]
    BY <1>5, <2>1
  <2> QED BY <1>1, <1>5, <2>2 DEF RulesInv, ControlPlaneIsFrozen
<1> QED BY <1>6, <1>7, <1>8, <1>9 DEF RulesInv

-------------------------------------------------------------------------------
(* The theorems.                                                           *)

LEMMA RulesKept == IInv /\ RulesInv /\ [ControlledNext]_controlledVars => RulesInv'
<1> SUFFICES ASSUME IInv, RulesInv, [ControlledNext]_controlledVars PROVE RulesInv'
  OBVIOUS
<1>1. ASSUME NEW a \in Ids, NEW action \in {"promote", "rollback"}, NEW d \in Submitted,
             NEW actor \in Approvers, ControlledAuthorize(a, action, d, actor)
      PROVE  RulesInv'
  BY <1>1, RulesAuthorize
<1>2. ASSUME NEW p \in Operators, ControlledStep(p)
      PROVE  RulesInv'
  <2>1. ASSUME NEW d \in Submitted, NEW a \in Ids, ControlledStart(p, d, a)
        PROVE  RulesInv'
    BY <2>1, RulesStart
  <2>2. ASSUME NEW o \in operations, NEW a \in Ids, ControlledRollback(p, o, a)
        PROVE  RulesInv'
    BY <2>2, RulesRollback
  <2>3. CASE ControlledChecks(p) \/ ControlledSmoke(p) \/ ControlledPersist(p)
             \/ (/\ Log(p) \/ Swap(p) \/ Mark(p) \/ Restart(p) \/ Outcome(p) \/ Abort(p)
                 /\ UNCHANGED ruleVars)
    <3>1. Plain(p) /\ UNCHANGED <<content, scope, taken, declared>>
      BY <2>3 DEF ControlledChecks, ControlledSmoke, ControlledPersist, Plain, ruleVars
    <3> QED BY <3>1, RulesPlain
  <2> QED BY <1>2, <2>1, <2>2, <2>3, RulesPlan, RulesConsume, RulesStage DEF ControlledStep
<1>3. CASE UNCHANGED controlledVars
  <2>1. UNCHANGED <<content, scope, taken, declared, releases, pending, consumed, pc, job>>
    BY <1>3 DEF controlledVars, vars, ruleVars
  <2>2. ReleasesInv' /\ ControlPlaneIsFrozen'
    BY <2>1, ReleasesStay
  <2> QED BY <2>1, <2>2 DEF RulesInv, RecordsInv, AllowedInv, Promoting, Approval
<1> QED BY <1>1, <1>2, <1>3 DEF ControlledNext

\* A promotion under way is one that the rules allow, whatever was approved, planned
\* or interrupted before.
THEOREM RulesInvariant == ControlledSpec => []RulesInv
<1>1. ControlledSpec => []IInv
  BY ControlledIsTrusted, OperationInvariant, PTL
<1> QED BY <1>1, RulesInit, RulesKept, PTL DEF ControlledSpec

\* A promoted release is the one before it with exactly the artifacts that somebody
\* apart from builder and service approved for it.
THEOREM ReleasesAreApproved == ControlledSpec => []ReleaseIsApproved
<1>1. RulesInv => ReleaseIsApproved
  BY DEF RulesInv, ReleasesInv, MadeOf, ReleaseIsApproved
<1> QED BY <1>1, RulesInvariant, PTL

\* No promotion changes the control plane.
THEOREM ControlPlaneStays == ControlledSpec => []ControlPlaneIsFrozen
<1>1. RulesInv => ControlPlaneIsFrozen
  BY DEF RulesInv
<1> QED BY <1>1, RulesInvariant, PTL

\* Production moves as PromotionSpec promises also under the rules.
THEOREM ControlledRefinement == ControlledSpec => ImplementsPromotion
BY ControlledIsTrusted, PromotionRefinement, PTL
===============================================================================
