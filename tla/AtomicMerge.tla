------------------------------ MODULE AtomicMerge ------------------------------
(***************************************************************************)
(* What the candidate merge promises, without its calls: a merge takes     *)
(* effect in one step, and only while the token it was confirmed with      *)
(* still describes the tables of that very moment.  It is a compare-and-   *)
(* set whose compared value is the preview token.                          *)
(***************************************************************************)
EXTENDS MemoryStore

\* The token a preview of ids would return at this moment.
CurrentToken(ids, fields) == TokenOf(Select(ids, rows), fields)

CompareAndMerge(ids, fields) ==
  /\ Cardinality(ids) >= 2
  /\ \A c \in ids : Present(c) /\ ~Blocked(c) /\ Mergeable(rows[c].review_status)
  /\ MergeTx(CurrentToken(ids, fields), Select(ids, rows))

Review == \E c \in Candidates, status \in {"approved", "rejected"} : SetReviewStatus(c, status)

\* A promotion is a record first and a status afterwards.
Promote == \E c \in Candidates, f \in Fields : UpsertRecord(PromotedRecord(c, f))

MarkPromoted ==
  \E c \in Candidates :
    /\ \E f \in Fields : PromotedRecord(c, f) \in records
    /\ SetReviewStatus(c, "merged")

AtomicNext ==
  \/ \E ids \in SUBSET Candidates, f \in Fields : CompareAndMerge(ids, f)
  \/ Review
  \/ Promote
  \/ MarkPromoted
  \/ \E s \in Sources : Tombstone(s)

AtomicSpec == StoreInit /\ [][AtomicNext]_storeVars

-------------------------------------------------------------------------------
(* What the compare-and-merge guarantees of the tables.                    *)

\* A mark in a candidate's metadata is never orphaned, whatever was done to the
\* row since: the event of that merge, its record and all its links are there.
MarksAreBacked ==
  \A c \in Candidates :
    (Present(c) /\ rows[c].merge # None) =>
      \E e \in events :
        /\ e.record = rows[c].merge.target
        /\ e.token = rows[c].merge.token
        /\ c \in e.record.ids
        /\ e.record \in records
        /\ LinksOf(e.record) \subseteq links

\* Two merges never use the same state of a candidate as evidence: where their
\* selections overlap, a review decision separates them.
StateUsedOnce ==
  \A e1, e2 \in events :
    e1 # e2 =>
      \A c \in Selected(e1.before) \intersect Selected(e2.before) :
        \/ e1.applied_at[c] < e2.before[c].updated_at
        \/ e2.applied_at[c] < e1.before[c].updated_at

\* A confirmed token takes effect at most once, however often and from however
\* many processes the apply is sent.
TokenAppliedOnce ==
  \A e1, e2 \in events : (e1.token = e2.token \/ e1.record = e2.record) => e1 = e2

\* A candidate is shown as merged only when a record was made from it, by a merge
\* or by a promotion that may have stopped half way.
MergedHasRecord ==
  \A c \in Candidates :
    (Present(c) /\ rows[c].review_status = "merged") =>
      \E r \in records : c \in r.ids

\* No review decision, promotion or stale metadata write undoes the mark of the
\* last merge of a candidate: the row points at the latest event that used it.
MarkIsLatest ==
  \A e \in events :
    \A c \in Selected(e.before) :
      /\ Present(c)
      /\ rows[c].merge # None
      /\ \E last \in events :
           /\ c \in Selected(last.before)
           /\ last.record = rows[c].merge.target
           /\ e.applied_at[c] <= last.applied_at[c]
           /\ last.applied_at[c] <= rows[c].updated_at
===============================================================================
