------------------------------ MODULE MemoryStore ------------------------------
(***************************************************************************)
(* The tables of the memory database that a candidate merge touches, and   *)
(* the transactions that write them.                                       *)
(*                                                                         *)
(*   candidate_memories       rows      (memory/candidates.py)             *)
(*   deletions                deletions (memory/audit.py)                  *)
(*   memory_records           records   (memory/curated.py)                *)
(*   memory_links             links     (memory/curated.py)                *)
(*   candidate_merge_events   events    (memory/candidate_merge.py)        *)
(*                                                                         *)
(* An action of this module is one SQLite transaction: it happens          *)
(* entirely or not at all.  The calls that string reads and transactions   *)
(* together are in CandidateMerge and ChatImport.                          *)
(*                                                                         *)
(* Timestamps are only ever compared with an earlier timestamp of the same *)
(* row, so every candidate has a counter of its own: clock[c] is the last  *)
(* updated_at given to candidate c, and a write takes the next value.      *)
(***************************************************************************)
EXTENDS Naturals, FiniteSets

CONSTANTS
  Candidates,   \* ids of candidate memories
  Fields,       \* canonical fields of a record: type, title, body, trust, subject
  Sources,      \* ids of conversations, messages and chunks
  EvidenceOf,   \* the source ids each candidate was extracted from
  MaxWrites,    \* bound: writes to one candidate row
  None          \* no row, no merge mark

Statuses == {"pending", "approved", "rejected", "merged"}

RowStates == [review_status : Statuses, updated_at : Nat]

\* The states of the rows of some selected candidates.
Selections == [Candidates -> RowStates \union {None}]

\* A preview token: the hash stands for exactly what is hashed.
Tokens == [states : Selections, blocked : SUBSET Candidates, fields : Fields]

\* A record id is a hash of the selected candidates and the canonical fields.
RecordIds == [kind : {"merge", "promote"}, ids : SUBSET Candidates, fields : Fields]

\* What a merge leaves in metadata_json of a candidate.
Marks == [target : RecordIds, token : Tokens]

Rows == [review_status : Statuses, updated_at : Nat, merge : Marks \union {None}]

\* applied_at holds, of each candidate, the updated_at that the merge gave it.
Events == [record : RecordIds, token : Tokens, before : Selections,
           applied_at : [Candidates -> Nat]]

ASSUME StoreAssumption ==
  /\ EvidenceOf \in [Candidates -> SUBSET Sources]
  /\ MaxWrites \in Nat
  /\ None \notin Rows \union Marks \union RowStates \union Tokens

VARIABLES rows, clock, deletions, records, links, events

storeVars == <<rows, clock, deletions, records, links, events>>

StoreTypeOK ==
  /\ rows \in [Candidates -> Rows \union {None}]
  /\ clock \in [Candidates -> Nat]
  /\ deletions \subseteq Sources
  /\ records \subseteq RecordIds
  /\ links \subseteq RecordIds \X (Candidates \union Sources)
  /\ events \subseteq Events

\* Any candidates may have been extracted; nothing is reviewed yet.
StoreInit ==
  /\ clock = [c \in Candidates |-> 1]
  /\ \E present \in SUBSET Candidates :
       rows = [c \in Candidates |->
                 IF c \in present
                 THEN [review_status |-> "pending", updated_at |-> 1, merge |-> None]
                 ELSE None]
  /\ deletions = {}
  /\ records = {}
  /\ links = {}
  /\ events = {}

-------------------------------------------------------------------------------
(* What a read of the tables returns.                                      *)

Present(c) == rows[c] # None

\* The columns of a row that a preview hashes and an apply rechecks.
StateOf(row) == [review_status |-> row.review_status, updated_at |-> row.updated_at]

Blocked(c) == EvidenceOf[c] \intersect deletions # {}

\* The states of the selected candidates in rows read from the table.
Select(ids, read) == [c \in Candidates |-> IF c \in ids THEN StateOf(read[c]) ELSE None]

Selected(states) == {c \in Candidates : states[c] # None}

\* The preview token of rows read as states and of the tombstones in force now.
TokenOf(states, fields) ==
  [states  |-> states,
   blocked |-> {c \in Selected(states) : Blocked(c)},
   fields  |-> fields]

MergeRecord(ids, fields) == [kind |-> "merge", ids |-> ids, fields |-> fields]
PromotedRecord(c, fields) == [kind |-> "promote", ids |-> {c}, fields |-> fields]

LinksOf(record) ==
  {record} \X (record.ids \union UNION {EvidenceOf[c] : c \in record.ids})

CanWrite(c) == clock[c] < MaxWrites

-------------------------------------------------------------------------------
(* The transactions.                                                       *)

\* Mutant: the review rewrites metadata_json from scratch and drops the mark.
SetReviewStatusDropsMark(c, status) ==
  /\ Present(c)
  /\ CanWrite(c)
  /\ clock' = [clock EXCEPT ![c] = @ + 1]
  /\ rows' = [rows EXCEPT ![c] = [review_status |-> status,
                                  updated_at    |-> clock[c] + 1,
                                  merge         |-> None]]
  /\ UNCHANGED <<deletions, records, links, events>>

\* UPDATE candidate_memories SET review_status, updated_at WHERE id = c: it
\* neither reads the status it replaces nor touches metadata_json.
SetReviewStatus(c, status) ==
  /\ Present(c)
  /\ CanWrite(c)
  /\ clock' = [clock EXCEPT ![c] = @ + 1]
  /\ rows' = [rows EXCEPT ![c] = [review_status |-> status,
                                  updated_at    |-> clock[c] + 1,
                                  merge         |-> rows[c].merge]]
  /\ UNCHANGED <<deletions, records, links, events>>

Tombstone(s) ==
  /\ deletions' = deletions \union {s}
  /\ UNCHANGED <<rows, clock, records, links, events>>

\* create_memory_record upserts by id.
UpsertRecord(record) ==
  /\ records' = records \union {record}
  /\ UNCHANGED <<rows, clock, deletions, links, events>>

\* Mutant: a candidate already merged may be merged again.
MergeableUnlessRejected(status) == status # "rejected"

Mergeable(status) == status \in {"pending", "approved"}

\* Mutant: the provenance links are forgotten.
MergeTxWithoutLinks(token, before) ==
  LET ids    == Selected(before)
      record == MergeRecord(ids, token.fields)
  IN
  /\ \A c \in ids : CanWrite(c)
  /\ record \notin records
  /\ clock' = [c \in Candidates |-> IF c \in ids THEN clock[c] + 1 ELSE clock[c]]
  /\ rows' = [c \in Candidates |->
                IF c \in ids
                THEN [review_status |-> "merged",
                      updated_at    |-> clock[c] + 1,
                      merge         |-> [target |-> record, token |-> token]]
                ELSE rows[c]]
  /\ records' = records \union {record}
  /\ events' = events \union {[record     |-> record,
                               token      |-> token,
                               before     |-> before,
                               applied_at |-> clock']}
  /\ UNCHANGED <<deletions, links>>

\* Mutant: the target is not looked up before it is inserted.
MergeTxOverTarget(token, before) ==
  LET ids    == Selected(before)
      record == MergeRecord(ids, token.fields)
  IN
  /\ \A c \in ids : CanWrite(c)
  /\ clock' = [c \in Candidates |-> IF c \in ids THEN clock[c] + 1 ELSE clock[c]]
  /\ rows' = [c \in Candidates |->
                IF c \in ids
                THEN [review_status |-> "merged",
                      updated_at    |-> clock[c] + 1,
                      merge         |-> [target |-> record, token |-> token]]
                ELSE rows[c]]
  /\ records' = records \union {record}
  /\ links' = links \union LinksOf(record)
  /\ events' = events \union {[record     |-> record,
                               token      |-> token,
                               before     |-> before,
                               applied_at |-> clock']}
  /\ UNCHANGED deletions

\* The writes between BEGIN IMMEDIATE and commit of a merge: the record, its
\* links, the candidates and the event.
MergeTx(token, before) ==
  LET ids    == Selected(before)
      record == MergeRecord(ids, token.fields)
  IN
  /\ \A c \in ids : CanWrite(c)
  /\ record \notin records
  /\ clock' = [c \in Candidates |-> IF c \in ids THEN clock[c] + 1 ELSE clock[c]]
  /\ rows' = [c \in Candidates |->
                IF c \in ids
                THEN [review_status |-> "merged",
                      updated_at    |-> clock[c] + 1,
                      merge         |-> [target |-> record, token |-> token]]
                ELSE rows[c]]
  /\ records' = records \union {record}
  /\ links' = links \union LinksOf(record)
  /\ events' = events \union {[record     |-> record,
                               token      |-> token,
                               before     |-> before,
                               applied_at |-> clock']}
  /\ UNCHANGED deletions
===============================================================================
