----------------------------- MODULE CandidateMerge -----------------------------
(***************************************************************************)
(* The calls on the memory database that race with each other around a     *)
(* candidate merge: preview, apply, review decisions, promotion of one     *)
(* candidate and tombstones, made by processes that share the file.        *)
(*                                                                         *)
(* preview_candidate_merge and the first half of apply_candidate_merge run *)
(* outside any transaction: every candidate row is a SELECT of its own.    *)
(* apply reads the rows twice, once itself and once through the preview it *)
(* recomputes, and only then takes the write lock.  Any other process may  *)
(* write between two of those reads.                                       *)
(***************************************************************************)
EXTENDS AtomicMerge

CONSTANTS
  Clients,               \* processes with a connection: CLI runs, MCP requests
  Decisions,             \* review decisions made: of approve and reject
  AssistantCandidates,   \* candidates extracted from assistant messages
  ConflictingSelections  \* selections the preview warns of with a blocking code

ASSUME ClientAssumption ==
  /\ Decisions \subseteq {"approved", "rejected"}
  /\ AssistantCandidates \subseteq Candidates
  /\ ConflictingSelections \subseteq SUBSET Candidates
  /\ None \notin [ids : SUBSET Candidates, fields : Fields, token : Tokens \union {None}]

VARIABLES
  pc,      \* where each client's call stands
  req,     \* the arguments of the call
  held,    \* the token of the last preview, which the user may send from anywhere
  seen,    \* rows read so far by the current reading loop of a call
  prior    \* apply: the rows its first reading loop returned (prior_states)

clientVars == <<pc, req, held, seen, prior>>
vars == <<rows, clock, deletions, records, links, events,
          pc, req, held, seen, prior>>

Labels == {"idle", "preview", "read", "recheck", "commit", "promoted"}
Requests == [ids : SUBSET Candidates, fields : Fields, token : Tokens \union {None}]
NoneSeen == [c \in Candidates |-> None]

Init ==
  /\ StoreInit
  /\ pc = [k \in Clients |-> "idle"]
  /\ req = [k \in Clients |-> None]
  /\ held = None
  /\ seen = [k \in Clients |-> NoneSeen]
  /\ prior = [k \in Clients |-> NoneSeen]

-------------------------------------------------------------------------------
(* Steps common to every call.                                             *)

Call(k, label, ids, fields, token) ==
  /\ pc[k] = "idle"
  /\ pc' = [pc EXCEPT ![k] = label]
  /\ req' = [req EXCEPT ![k] = [ids |-> ids, fields |-> fields, token |-> token]]
  /\ UNCHANGED <<held, seen, prior>>

\* The call returns or raises: its local variables are gone.
Return(k) ==
  /\ pc' = [pc EXCEPT ![k] = "idle"]
  /\ req' = [req EXCEPT ![k] = None]
  /\ seen' = [seen EXCEPT ![k] = NoneSeen]
  /\ prior' = [prior EXCEPT ![k] = NoneSeen]

\* The call raises and has written nothing.
Refuse(k) ==
  /\ Return(k)
  /\ UNCHANGED held
  /\ UNCHANGED storeVars

\* One get_candidate_memory of a reading loop.  A missing row is a KeyError.
ReadRow(k) ==
  /\ pc[k] \in {"preview", "read", "recheck"}
  /\ \E c \in req[k].ids :
       /\ seen[k][c] = None
       /\ IF Present(c)
          THEN /\ seen' = [seen EXCEPT ![k][c] = rows[c]]
               /\ UNCHANGED <<pc, req, held, prior>>
               /\ UNCHANGED storeVars
          ELSE Refuse(k)

AllRead(k) == \A c \in req[k].ids : seen[k][c] # None

\* What a token and the locked recheck take from the rows read by the call.
States(k, read) == Select(req[k].ids, read[k])

-------------------------------------------------------------------------------
(* preview_candidate_merge                                                 *)

StartPreview(k, ids, fields) ==
  /\ Cardinality(ids) >= 2
  /\ Call(k, "preview", ids, fields, None)
  /\ UNCHANGED storeVars

\* The rows are read: read the source snapshots and return the token.
FinishPreview(k) ==
  /\ pc[k] = "preview"
  /\ AllRead(k)
  /\ held' = TokenOf(States(k, seen), req[k].fields)
  /\ Return(k)
  /\ UNCHANGED storeVars

-------------------------------------------------------------------------------
(* apply_candidate_merge                                                   *)

\* The confirmed request names at least two candidates and carries the token of
\* a preview; the fields need not be those of the preview.
StartApply(k, ids, fields) ==
  /\ Cardinality(ids) >= 2
  /\ held # None
  /\ Call(k, "read", ids, fields, held)
  /\ UNCHANGED storeVars

\* Mutant: any target of the selected rows will do, whatever token it was made under.
RepeatedTargetOfAnyToken(k, record) ==
  \A c \in req[k].ids :
    /\ seen[k][c].review_status = "merged"
    /\ seen[k][c].merge # None
    /\ seen[k][c].merge.target = record

\* _repeated_apply_target: the selected rows are merged, and their metadata agree
\* on one target and on the token of this request.
RepeatedTarget(k, record) ==
  \A c \in req[k].ids :
    /\ seen[k][c].review_status = "merged"
    /\ seen[k][c].merge = [target |-> record, token |-> req[k].token]

RecordsMarked(k) ==
  {seen[k][c].merge.target : c \in {d \in req[k].ids : seen[k][d].merge # None}}

\* A retry of an apply that was already done: nothing is written and the answer
\* is built from the record and its event.
Replay(k) ==
  /\ pc[k] = "read"
  /\ AllRead(k)
  /\ \A c \in req[k].ids : ~Blocked(c)
  /\ \E record \in RecordsMarked(k) : RepeatedTarget(k, record)
  /\ Refuse(k)

\* The snapshots are read and the rows found eligible: the preview is recomputed
\* from rows read again.
Validate(k, allow_assistant_only) ==
  /\ pc[k] = "read"
  /\ AllRead(k)
  /\ \A c \in req[k].ids : ~Blocked(c) /\ Mergeable(seen[k][c].review_status)
  /\ allow_assistant_only \/ ~(req[k].ids \subseteq AssistantCandidates)
  /\ pc' = [pc EXCEPT ![k] = "recheck"]
  /\ prior' = [prior EXCEPT ![k] = seen[k]]
  /\ seen' = [seen EXCEPT ![k] = NoneSeen]
  /\ UNCHANGED <<req, held>>
  /\ UNCHANGED storeVars

\* Blocked evidence, a status that cannot be merged, or assistant evidence alone.
ValidateFails(k, allow_assistant_only) ==
  /\ pc[k] = "read"
  /\ AllRead(k)
  /\ \/ \E c \in req[k].ids : Blocked(c)
     \/ /\ ~\E record \in RecordsMarked(k) : RepeatedTarget(k, record)
        /\ \/ \E c \in req[k].ids : ~Mergeable(seen[k][c].review_status)
           \/ ~allow_assistant_only /\ req[k].ids \subseteq AssistantCandidates
  /\ Refuse(k)

\* The recomputed token is the one the user confirmed, and blocking warnings are
\* accepted.
PreviewMatches(k, allow_conflicts) ==
  /\ TokenOf(States(k, seen), req[k].fields) = req[k].token
  /\ allow_conflicts \/ req[k].ids \notin ConflictingSelections

Recheck(k, allow_conflicts) ==
  /\ pc[k] = "recheck"
  /\ AllRead(k)
  /\ IF PreviewMatches(k, allow_conflicts)
     THEN /\ pc' = [pc EXCEPT ![k] = "commit"]
          /\ seen' = [seen EXCEPT ![k] = NoneSeen]
          /\ UNCHANGED <<req, held, prior>>
          /\ UNCHANGED storeVars
     ELSE Refuse(k)

\* Mutant: the sources are not checked again.
StillCurrentUnblocked(k) ==
  \A c \in req[k].ids : Present(c) /\ StateOf(rows[c]) = StateOf(prior[k][c])

\* Mutant: the status alone is compared.
StillCurrentByStatus(k) ==
  \A c \in req[k].ids :
    ~Blocked(c) /\ Present(c) /\ rows[c].review_status = prior[k][c].review_status

\* Under the write lock: no source is blocked, every row still has the status and
\* the timestamp first read, and the target does not exist.
StillCurrent(k) ==
  \A c \in req[k].ids :
    /\ ~Blocked(c)
    /\ Present(c)
    /\ StateOf(rows[c]) = StateOf(prior[k][c])

TargetExists(k) == MergeRecord(req[k].ids, req[k].fields) \in records

Commit(k) ==
  /\ pc[k] = "commit"
  /\ StillCurrent(k)
  /\ MergeTx(req[k].token, States(k, prior))
  /\ Return(k)
  /\ UNCHANGED held

\* The transaction rolls back.
CommitFails(k) ==
  /\ pc[k] = "commit"
  /\ ~StillCurrent(k) \/ TargetExists(k)
  /\ Refuse(k)

-------------------------------------------------------------------------------
(* The other callers.                                                      *)

\* memory_review approve and reject: the status read with the row is not looked at.
Decide(c, status) ==
  /\ SetReviewStatus(c, status)
  /\ UNCHANGED clientVars

\* Mutant: the candidate is marked before its record exists.
PromoteCreateNothing(k, c, fields, allow_assistant) ==
  /\ Present(c)
  /\ c \in AssistantCandidates => allow_assistant
  /\ UNCHANGED storeVars
  /\ Call(k, "promoted", {c}, fields, None)

\* memory_review promote, first transaction: the record of one candidate.  Only
\* the content of the row is used, which never changes.
PromoteCreate(k, c, fields, allow_assistant) ==
  /\ Present(c)
  /\ c \in AssistantCandidates => allow_assistant
  /\ UpsertRecord(PromotedRecord(c, fields))
  /\ Call(k, "promoted", {c}, fields, None)

\* Second transaction: the candidate is marked merged, whatever it is by now.
PromoteMark(k) ==
  /\ pc[k] = "promoted"
  /\ \E c \in req[k].ids :
       IF Present(c) THEN SetReviewStatus(c, "merged") ELSE UNCHANGED storeVars
  /\ Return(k)
  /\ UNCHANGED held

Block(s) ==
  /\ s \notin deletions
  /\ Tombstone(s)
  /\ UNCHANGED clientVars

\* The process dies, or its connection does: an open transaction rolls back and
\* the user keeps the token.
Crash(k) ==
  /\ pc[k] # "idle"
  /\ Return(k)
  /\ UNCHANGED held
  /\ UNCHANGED storeVars

-------------------------------------------------------------------------------
ClientStep(k) ==
  \/ \E ids \in SUBSET Candidates, f \in Fields : StartPreview(k, ids, f) \/ StartApply(k, ids, f)
  \/ ReadRow(k)
  \/ FinishPreview(k)
  \/ Replay(k)
  \/ \E allow \in BOOLEAN : Validate(k, allow) \/ ValidateFails(k, allow) \/ Recheck(k, allow)
  \/ Commit(k)
  \/ CommitFails(k)
  \/ \E c \in Candidates, f \in Fields, allow \in BOOLEAN : PromoteCreate(k, c, f, allow)
  \/ PromoteMark(k)
  \/ Crash(k)

Next ==
  \/ \E k \in Clients : ClientStep(k)
  \/ \E c \in Candidates, status \in Decisions : Decide(c, status)
  \/ \E s \in Sources : Block(s)

Spec == Init /\ [][Next]_vars

-------------------------------------------------------------------------------
(* Properties.                                                             *)

\* Every variable has its type, and a call has the data its step needs.
TypeOK ==
  /\ StoreTypeOK
  /\ pc \in [Clients -> Labels]
  /\ req \in [Clients -> Requests \union {None}]
  /\ held \in Tokens \union {None}
  /\ seen \in [Clients -> [Candidates -> Rows \union {None}]]
  /\ prior \in [Clients -> [Candidates -> Rows \union {None}]]

\* An apply that is about to answer as a replay answers truthfully: the record
\* was made, from these candidates, under the token of this request.
ReplayIsBacked ==
  \A k \in Clients :
    (pc[k] = "read" /\ AllRead(k)) =>
      \A record \in RecordsMarked(k) :
        RepeatedTarget(k, record) =>
          \E e \in events :
            e.record = record /\ e.token = req[k].token /\ req[k].ids \subseteq record.ids

\* Every step of the racing calls is one step of the compare-and-merge, or none:
\* whatever was written between the reads of an apply and its transaction, the
\* merge commits exactly when the confirmed token still describes the tables.
ImplementsAtomicMerge == AtomicSpec
===============================================================================
