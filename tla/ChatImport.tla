------------------------------ MODULE ChatImport ------------------------------
(***************************************************************************)
(* import_chatgpt_export, beside the calls of CandidateMerge.              *)
(*                                                                         *)
(* An import replaces the conversations of an export, and with them, by    *)
(* ON DELETE CASCADE, the candidates extracted from them and the subjects  *)
(* assigned to them.  It carries the review state of the candidates across *)
(* in memory: read it, replace the conversations, insert the candidates    *)
(* again as pending, write the review state back.  Each of the four is a   *)
(* transaction of its own, so reviewers, merges, crashes and other imports *)
(* can fall between them.                                                  *)
(*                                                                         *)
(* Chunks and candidates are identified by their content and every chunk   *)
(* with text yields one candidate, so the chunk of a candidate is stored   *)
(* exactly when the stored version of its conversation contains it.        *)
(***************************************************************************)
EXTENDS CandidateMerge

CONSTANTS
  Importers,       \* processes that may run an import
  Exports,         \* export files; the id of an import is a hash of its file
  Conversations,   \* conversation ids
  ConversationOf,  \* the conversation of each candidate
  Covers,          \* the conversations in an export
  Extracts         \* the candidates extracted from an export

Verdicts == [review_status : Statuses, merge : Marks \union {None}]

ASSUME ImportAssumption ==
  /\ ConversationOf \in [Candidates -> Conversations]
  /\ Covers \in [Exports -> SUBSET Conversations]
  /\ Extracts \in [Exports -> SUBSET Candidates]
  /\ \A x \in Exports : \A c \in Extracts[x] : ConversationOf[c] \in Covers[x]
  /\ None \notin Exports \union Verdicts

VARIABLES
  imports,    \* rows of imports
  owner,      \* import_id of each stored conversation
  origin,     \* import_id of each candidate row
  assigned,   \* conversations with a row in conversation_subjects
  step,       \* where each importer stands
  export,     \* the export it imports
  unchanged,  \* the conversations its report calls unchanged
  kept,       \* the review state it carries across
  decided,    \* history: the last decision on each candidate
  exposed     \* history: decisions made or carried where an import can lose them

importVars == <<imports, owner, origin, assigned, step, export, unchanged, kept>>
history == <<decided, exposed>>
allVars == <<rows, clock, deletions, records, links, events,
             pc, req, held, seen, prior,
             imports, owner, origin, assigned, step, export, unchanged, kept,
             decided, exposed>>

Steps == {"idle", "capture", "replace", "extract", "restore"}

Verdict(row) == [review_status |-> row.review_status, merge |-> row.merge]
NothingKept == [c \in Candidates |-> None]

\* The database holds what one completed import left in it, or nothing.
ImportInit ==
  /\ Init
  /\ \E x \in Exports \union {None} :
       LET stored == IF x = None THEN {} ELSE Covers[x]
           there  == IF x = None THEN {} ELSE Extracts[x]
       IN  /\ {c \in Candidates : Present(c)} = there
           /\ imports = {x} \ {None}
           /\ owner = [v \in Conversations |-> IF v \in stored THEN x ELSE None]
           /\ origin = [c \in Candidates |-> IF c \in there THEN x ELSE None]
  /\ assigned = {}
  /\ step = [i \in Importers |-> "idle"]
  /\ export = [i \in Importers |-> None]
  /\ unchanged = [i \in Importers |-> {}]
  /\ kept = [i \in Importers |-> NothingKept]
  /\ decided = [c \in Candidates |-> None]
  /\ exposed = {}

-------------------------------------------------------------------------------
(* One import.                                                             *)

\* The chunk of c is among the stored chunks of its conversation.
ChunkStored(c) ==
  /\ owner[ConversationOf[c]] # None
  /\ c \in Extracts[owner[ConversationOf[c]]]

\* The text of conversation v in an export.
ContentIn(v, x) == {c \in Extracts[x] : ConversationOf[c] = v}

\* The candidates and the decisions that importer i holds outside the database.
Carrying(i) == {c \in Candidates : step[i] \in {"extract", "restore"} /\ kept[i][c] # None}

\* summarize_incremental_import: which stored conversations have the same content.
Summarize(i, x) ==
  /\ step[i] = "idle"
  /\ step' = [step EXCEPT ![i] = "capture"]
  /\ export' = [export EXCEPT ![i] = x]
  /\ unchanged' = [unchanged EXCEPT ![i] =
                     {v \in Covers[x] : owner[v] # None /\ ContentIn(v, owner[v]) = ContentIn(v, x)}]
  /\ UNCHANGED <<imports, owner, origin, assigned, kept>>
  /\ UNCHANGED <<storeVars, history>>

\* _capture_candidate_review_state: the candidates of this import and of the
\* conversations it covers that are no longer pending.
Captured(x) ==
  [c \in Candidates |->
     IF /\ Present(c)
        /\ origin[c] = x \/ ConversationOf[c] \in Covers[x]
        /\ rows[c].review_status # "pending"
     THEN Verdict(rows[c])
     ELSE None]

Capture(i) ==
  /\ step[i] = "capture"
  /\ step' = [step EXCEPT ![i] = "replace"]
  /\ kept' = [kept EXCEPT ![i] = Captured(export[i])]
  /\ exposed' = exposed \union UNION {Carrying(j) : j \in Importers}
  /\ UNCHANGED <<imports, owner, origin, assigned, export, unchanged, decided>>
  /\ UNCHANGED storeVars

\* The conversations that an import of x deletes: its own and those it covers.
Replaced(x) == {v \in Conversations : owner[v] = x \/ v \in Covers[x]}

\* replace_import: the import and its conversations are deleted and inserted anew;
\* the deletion takes the candidates and the assigned subjects along.
ReplaceImport(i) ==
  LET x    == export[i]
      gone == {c \in Candidates : Present(c) /\ (origin[c] = x \/ ConversationOf[c] \in Replaced(x))}
  IN
  /\ step[i] = "replace"
  /\ step' = [step EXCEPT ![i] = "extract"]
  /\ imports' = imports \union {x}
  /\ owner' = [v \in Conversations |->
                 IF v \in Covers[x] THEN x ELSE IF owner[v] = x THEN None ELSE owner[v]]
  /\ rows' = [c \in Candidates |-> IF c \in gone THEN None ELSE rows[c]]
  /\ origin' = [c \in Candidates |-> IF c \in gone THEN None ELSE origin[c]]
  /\ assigned' = assigned \ Replaced(x)
  /\ exposed' = exposed \union (gone \ Extracts[x])
  /\ UNCHANGED <<clock, deletions, records, links, events>>
  /\ UNCHANGED <<export, unchanged, kept, decided>>

\* The primary key of candidate_memories and its references to chunks allow the
\* candidates of x to be inserted.
CanInsert(x) ==
  /\ x \in imports
  /\ \A c \in Extracts[x] : ChunkStored(c) /\ (Present(c) => origin[c] = x)

\* replace_candidate_memories: every candidate of the import starts again, pending
\* and with a fresh timestamp.
ReplaceCandidates(i) ==
  LET x == export[i] IN
  /\ step[i] = "extract"
  /\ CanInsert(x)
  /\ \A c \in Extracts[x] : CanWrite(c)
  /\ step' = [step EXCEPT ![i] = "restore"]
  /\ clock' = [c \in Candidates |-> IF c \in Extracts[x] THEN clock[c] + 1 ELSE clock[c]]
  /\ rows' = [c \in Candidates |->
                IF c \in Extracts[x]
                THEN [review_status |-> "pending", updated_at |-> clock[c] + 1, merge |-> None]
                ELSE IF origin[c] = x THEN None ELSE rows[c]]
  /\ origin' = [c \in Candidates |->
                  IF c \in Extracts[x] THEN x ELSE IF origin[c] = x THEN None ELSE origin[c]]
  /\ UNCHANGED <<deletions, records, links, events>>
  /\ UNCHANGED <<imports, owner, assigned, export, unchanged, kept, history>>

\* Mutant: the status is written back without the merge metadata.
RestoredStatus(row, verdict) ==
  [review_status |-> verdict.review_status, updated_at |-> row.updated_at, merge |-> row.merge]

\* The review state of a row after the write-back of what was kept of it: metadata
\* keys are only added or replaced, and updated_at stays.
Restored(row, verdict) ==
  [review_status |-> verdict.review_status,
   updated_at    |-> row.updated_at,
   merge         |-> IF verdict.merge # None THEN verdict.merge ELSE row.merge]

Idle(i) ==
  /\ step' = [step EXCEPT ![i] = "idle"]
  /\ export' = [export EXCEPT ![i] = None]
  /\ unchanged' = [unchanged EXCEPT ![i] = {}]
  /\ kept' = [kept EXCEPT ![i] = NothingKept]

\* _restore_candidate_review_state, and the report.
Restore(i) ==
  /\ step[i] = "restore"
  /\ rows' = [c \in Candidates |->
                IF Present(c) /\ kept[i][c] # None THEN Restored(rows[c], kept[i][c]) ELSE rows[c]]
  /\ Idle(i)
  /\ UNCHANGED <<clock, deletions, records, links, events>>
  /\ UNCHANGED <<imports, owner, origin, assigned, history>>

\* The process dies, the database stays locked too long, or the candidates cannot
\* be inserted: what it carried is lost.
Abandon(i) ==
  /\ step[i] # "idle"
  /\ exposed' = exposed \union Carrying(i)
  /\ Idle(i)
  /\ UNCHANGED <<imports, owner, origin, assigned, decided>>
  /\ UNCHANGED storeVars

ImporterStep(i) ==
  \/ \E x \in Exports : Summarize(i, x)
  \/ Capture(i)
  \/ ReplaceImport(i)
  \/ ReplaceCandidates(i)
  \/ Restore(i)
  \/ Abandon(i)

-------------------------------------------------------------------------------
(* The other processes.                                                    *)

\* assign_conversation_subject and remove_conversation_subject.
Assign(v) ==
  /\ owner[v] # None
  /\ assigned' = assigned \union {v}
  /\ UNCHANGED <<imports, owner, origin, step, export, unchanged, kept, history>>
  /\ UNCHANGED storeVars

Unassign(v) ==
  /\ v \in assigned
  /\ assigned' = assigned \ {v}
  /\ UNCHANGED <<imports, owner, origin, step, export, unchanged, kept, history>>
  /\ UNCHANGED storeVars

\* The windows in which an import can undo a decision on c that it did not see: the
\* decision is made after the capture, on a row that is still to be deleted, on a
\* candidate that is still to be inserted again, which another import may have done
\* meanwhile, or on one whose review state is still to be written back.
InWindow(c) ==
  \E i \in Importers :
    \/ step[i] = "replace" /\ (origin[c] = export[i] \/ ConversationOf[c] \in Replaced(export[i]))
    \/ step[i] = "extract" /\ c \in Extracts[export[i]]
    \/ step[i] \in {"extract", "restore"} /\ kept[i][c] # None

\* A step of the calls of CandidateMerge; the decisions it makes are noted.
CallStep ==
  /\ Next
  /\ UNCHANGED importVars
  /\ LET changed == {c \in Candidates : rows'[c] # rows[c]} IN
     /\ decided' = [c \in Candidates |-> IF c \in changed THEN Verdict(rows'[c]) ELSE decided[c]]
     /\ exposed' = (exposed \ changed) \union {c \in changed : InWindow(c)}

ImportNext ==
  \/ CallStep
  \/ /\ \/ \E i \in Importers : ImporterStep(i)
        \/ \E v \in Conversations : Assign(v) \/ Unassign(v)
     /\ UNCHANGED clientVars

ImportSpec == ImportInit /\ [][ImportNext]_allVars

-------------------------------------------------------------------------------
(* Properties.                                                             *)

\* Every variable has its type.
ImportTypeOK ==
  /\ TypeOK
  /\ imports \subseteq Exports
  /\ owner \in [Conversations -> Exports \union {None}]
  /\ origin \in [Candidates -> Exports \union {None}]
  /\ assigned \subseteq Conversations
  /\ step \in [Importers -> Steps]
  /\ export \in [Importers -> Exports \union {None}]
  /\ unchanged \in [Importers -> SUBSET Conversations]
  /\ kept \in [Importers -> [Candidates -> Verdicts \union {None}]]
  /\ decided \in [Candidates -> Verdicts \union {None}]
  /\ exposed \subseteq Candidates

\* An import loses a decision or the mark of a merge only in one of the windows
\* above, by being abandoned between the deletion and the write-back, or because
\* the new export no longer holds the text.
NoQuietLoss ==
  \A c \in Candidates :
    (/\ Present(c)
     /\ decided[c] # None
     /\ c \notin exposed
     /\ \A i \in Importers : c \notin Carrying(i)) => Verdict(rows[c]) = decided[c]

\* A candidate row refers to an import and a chunk that are stored, also while
\* several imports replace the conversation in turns.
CandidatesHaveChunks ==
  \A c \in Candidates : Present(c) => ChunkStored(c) /\ origin[c] \in imports

\* A merge is still a compare-and-set when imports delete, insert and restore the
\* rows it reads: the only step that adds an event compares the whole token with the
\* tables of that moment.  It takes that fewer than four imports are about to restore
\* the same row: a restored row keeps its timestamp, so its status could change four
\* times between the reads of an apply and its transaction unseen.
CommitsStayAtomic ==
  [][events' # events =>
       \E ids \in SUBSET Candidates, f \in Fields : CompareAndMerge(ids, f)]_allVars

\* The report of an import: subject assignments are preserved for unchanged ids.
SubjectAssignmentsPreserved ==
  [][\A i \in Importers : ReplaceImport(i) => assigned \intersect unchanged[i] \subseteq assigned']_allVars
===============================================================================
