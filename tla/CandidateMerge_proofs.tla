------------------------- MODULE CandidateMerge_proofs -------------------------
(***************************************************************************)
(* The tables under the compare-and-merge keep every guarantee stated in   *)
(* AtomicMerge, and the racing calls of CandidateMerge implement that, so  *)
(* that what is proved of the tables holds of the calls, for any sets of   *)
(* candidates, fields, sources and clients.  With the imports of           *)
(* ChatImport beside them: types, that no candidate row is left without    *)
(* its chunk and its import, and that a review decision is lost only where *)
(* the code leaves it exposed.                                             *)
(***************************************************************************)
EXTENDS ChatImport, TLAPS

-------------------------------------------------------------------------------
(* The compare-and-merge of AtomicMerge.                                   *)

\* No row is newer than the clock of its candidate.
RowsBehindClock == \A c \in Candidates : Present(c) => rows[c].updated_at <= clock[c]

\* What an event still says of the tables: its record and links are there, its
\* token is the one its record was made under, and the rows it used have moved on
\* from the state it used; one that has not been written since is merged.
EventsHold ==
  \A e \in events :
    /\ e.record = MergeRecord(Selected(e.before), e.token.fields)
    /\ e.token.states = e.before
    /\ e.record \in records
    /\ LinksOf(e.record) \subseteq links
    /\ \A c \in Selected(e.before) :
         /\ Present(c)
         /\ e.before[c].updated_at < e.applied_at[c]
         /\ e.applied_at[c] <= rows[c].updated_at
         /\ rows[c].updated_at = e.applied_at[c] => rows[c].review_status = "merged"

TableInv ==
  /\ StoreTypeOK
  /\ RowsBehindClock
  /\ EventsHold

\* The inductive invariant of the abstract specification.
AtomicInv ==
  /\ TableInv
  /\ MarksAreBacked
  /\ StateUsedOnce
  /\ TokenAppliedOnce
  /\ MergedHasRecord
  /\ MarkIsLatest

-------------------------------------------------------------------------------
(* The operators the transactions are built from.                          *)

LEMMA StateOfType ==
  ASSUME NEW row \in Rows
  PROVE  /\ StateOf(row) \in RowStates
         /\ StateOf(row) # None
BY StoreAssumption DEF StateOf, Rows, RowStates

LEMMA SelectType ==
  ASSUME NEW ids \in SUBSET Candidates, NEW read \in [Candidates -> Rows \union {None}],
         \A c \in ids : read[c] # None
  PROVE  /\ Select(ids, read) \in Selections
         /\ Selected(Select(ids, read)) = ids
         /\ \A c \in ids : Select(ids, read)[c] = StateOf(read[c])
<1>1. \A c \in ids : StateOf(read[c]) \in RowStates /\ StateOf(read[c]) # None
  BY StateOfType
<1> QED BY <1>1 DEF Select, Selected, Selections

LEMMA TokenOfType ==
  ASSUME NEW states \in Selections, NEW f \in Fields
  PROVE  /\ TokenOf(states, f) \in Tokens
         /\ TokenOf(states, f).states = states
         /\ TokenOf(states, f).fields = f
BY DEF TokenOf, Tokens, Selected

-------------------------------------------------------------------------------
(* The transactions, in the form the invariants need.                      *)

\* A review decision moves one row and its clock forward and keeps its mark.
LEMMA ReviewStep ==
  ASSUME StoreTypeOK, NEW c \in Candidates, NEW status \in Statuses,
         SetReviewStatus(c, status)
  PROVE  /\ StoreTypeOK'
         /\ UNCHANGED <<deletions, records, links, events>>
         /\ \A d \in Candidates : d # c => rows'[d] = rows[d] /\ clock'[d] = clock[d]
         /\ rows[c] # None
         /\ rows'[c] # None
         /\ rows'[c].review_status = status
         /\ rows'[c].merge = rows[c].merge
         /\ rows'[c].updated_at = clock[c] + 1
         /\ clock'[c] = clock[c] + 1
<1>1. rows[c] \in Rows
  BY DEF SetReviewStatus, Present, StoreTypeOK
<1>2. clock[c] + 1 \in Nat
  BY DEF StoreTypeOK
<1> DEFINE row == [review_status |-> status, updated_at |-> clock[c] + 1,
                   merge |-> rows[c].merge]
<1>3. row \in Rows
  BY <1>1, <1>2 DEF Rows
<1>4. row # None
  BY <1>3, StoreAssumption
<1>5. rows' = [rows EXCEPT ![c] = row] /\ clock' = [clock EXCEPT ![c] = clock[c] + 1]
  BY DEF SetReviewStatus
<1>6. rows' \in [Candidates -> Rows \union {None}] /\ clock' \in [Candidates -> Nat]
  BY <1>2, <1>3, <1>5 DEF StoreTypeOK
<1>7. rows'[c] = row
  BY <1>5 DEF StoreTypeOK
<1> HIDE DEF row
<1>8. row.review_status = status /\ row.updated_at = clock[c] + 1 /\ row.merge = rows[c].merge
  BY DEF row
<1> QED
  BY <1>4, <1>5, <1>6, <1>7, <1>8 DEF SetReviewStatus, StoreTypeOK, Present

\* A merge of ids under fields f whose event is n: the rows it selects were
\* mergeable and become merged and newer, the record of the event was not there,
\* and every other row stays.
MergedWith(ids, f, n) ==
  /\ events' = events \union {n}
  /\ records' = records \union {n.record}
  /\ links' = links \union LinksOf(n.record)
  /\ n.record \notin records
  /\ n.record = MergeRecord(ids, f)
  /\ n.token.states = n.before
  /\ n.token.fields = f
  /\ Selected(n.before) = ids
  /\ \A c \in ids : /\ rows[c] # None
                    /\ Mergeable(rows[c].review_status)
                    /\ n.before[c].updated_at = rows[c].updated_at
                    /\ n.applied_at[c] = clock[c] + 1
                    /\ clock'[c] = clock[c] + 1
                    /\ rows'[c] # None
                    /\ rows'[c].review_status = "merged"
                    /\ rows'[c].updated_at = clock[c] + 1
                    /\ rows'[c].merge # None
                    /\ rows'[c].merge.target = n.record
                    /\ rows'[c].merge.token = n.token
  /\ \A c \in Candidates \ ids : rows'[c] = rows[c] /\ clock'[c] = clock[c]

LEMMA MergeStep ==
  ASSUME StoreTypeOK, NEW ids \in SUBSET Candidates, NEW f \in Fields,
         CompareAndMerge(ids, f)
  PROVE  StoreTypeOK' /\ \E n \in Events : MergedWith(ids, f, n)
<1> DEFINE before == Select(ids, rows)
           token  == CurrentToken(ids, f)
           record == MergeRecord(ids, f)
           event  == [record |-> record, token |-> token, before |-> before,
                      applied_at |-> clock']
           row(c) == [review_status |-> "merged", updated_at |-> clock[c] + 1,
                      merge |-> [target |-> record, token |-> token]]
<1>1. \A c \in ids : rows[c] # None /\ Mergeable(rows[c].review_status)
  BY DEF CompareAndMerge, Present
<1>2. /\ before \in Selections
      /\ Selected(before) = ids
      /\ \A c \in ids : before[c] = StateOf(rows[c])
  BY <1>1, SelectType DEF StoreTypeOK
<1>3. token \in Tokens /\ token.states = before /\ token.fields = f
  BY <1>2, TokenOfType DEF CurrentToken
<1>4. record \in RecordIds
  BY DEF MergeRecord, RecordIds
<1>5. MergeTx(token, before)
  BY DEF CompareAndMerge
<1> HIDE DEF before, token
<1>6. /\ record \notin records
      /\ clock' = [c \in Candidates |-> IF c \in ids THEN clock[c] + 1 ELSE clock[c]]
      /\ rows' = [c \in Candidates |-> IF c \in ids THEN row(c) ELSE rows[c]]
      /\ records' = records \union {record}
      /\ links' = links \union LinksOf(record)
      /\ events' = events \union {event}
      /\ deletions' = deletions
  BY <1>2, <1>3, <1>5 DEF MergeTx
<1> HIDE DEF record
<1>7. clock' \in [Candidates -> Nat]
  BY <1>6 DEF StoreTypeOK
<1>8. event \in Events
  BY <1>2, <1>3, <1>4, <1>7 DEF Events
<1>9. \A c \in ids : row(c) \in Rows /\ row(c) # None
  <2>1. [target |-> record, token |-> token] \in Marks
    BY <1>3, <1>4 DEF Marks
  <2> QED BY <2>1, StoreAssumption DEF Rows, Statuses, StoreTypeOK
<1>10. rows' \in [Candidates -> Rows \union {None}]
  BY <1>6, <1>9 DEF StoreTypeOK
<1>11. LinksOf(record) \subseteq RecordIds \X (Candidates \union Sources)
  <2>1. record.ids = ids
    BY DEF record, MergeRecord
  <2> QED BY <2>1, <1>4, StoreAssumption DEF LinksOf
<1>12. StoreTypeOK'
  BY <1>4, <1>6, <1>7, <1>8, <1>10, <1>11 DEF StoreTypeOK
<1>13. \A c \in ids : /\ rows'[c] = row(c)
                      /\ clock'[c] = clock[c] + 1
                      /\ event.applied_at[c] = clock[c] + 1
  BY <1>6
<1>14. [target |-> record, token |-> token] # None
  BY <1>3, <1>4, StoreAssumption DEF Marks
<1>15. \A c \in ids : /\ row(c).review_status = "merged"
                      /\ row(c).updated_at = clock[c] + 1
                      /\ row(c).merge # None
                      /\ row(c).merge.target = event.record
                      /\ row(c).merge.token = event.token
  BY <1>14
<1> HIDE DEF row
<1>16. \A c \in ids : /\ rows'[c] # None
                      /\ rows'[c].review_status = "merged"
                      /\ rows'[c].updated_at = clock[c] + 1
                      /\ rows'[c].merge # None
                      /\ rows'[c].merge.target = event.record
                      /\ rows'[c].merge.token = event.token
  BY <1>9, <1>13, <1>15
<1>17. \A c \in ids : event.before[c].updated_at = rows[c].updated_at
  <2>1. \A c \in ids : StateOf(rows[c]).updated_at = rows[c].updated_at
    BY DEF StateOf
  <2> QED BY <1>2, <2>1
<1>18. \A c \in Candidates \ ids : rows'[c] = rows[c] /\ clock'[c] = clock[c]
  BY <1>6
<1>19. event.record = MergeRecord(ids, f)
  BY DEF record
<1>20. MergedWith(ids, f, event)
  BY <1>1, <1>2, <1>3, <1>6, <1>13, <1>16, <1>17, <1>18, <1>19 DEF MergedWith
<1> QED BY <1>8, <1>12, <1>20

\* A promotion's record, a tombstone and a stutter leave rows and events alone.
LEMMA OtherStep ==
  ASSUME StoreTypeOK,
         \/ Promote
         \/ \E s \in Sources : Tombstone(s)
         \/ UNCHANGED storeVars
  PROVE  /\ StoreTypeOK'
         /\ UNCHANGED <<rows, clock, links, events>>
         /\ records \subseteq records'
<1>1. CASE Promote
  <2>1. \A c \in Candidates, f \in Fields : PromotedRecord(c, f) \in RecordIds
    BY DEF PromotedRecord, RecordIds
  <2> QED BY <1>1, <2>1 DEF Promote, UpsertRecord, StoreTypeOK
<1>2. CASE \E s \in Sources : Tombstone(s)
  BY <1>2 DEF Tombstone, StoreTypeOK
<1>3. CASE UNCHANGED storeVars
  BY <1>3 DEF storeVars, StoreTypeOK
<1> QED BY <1>1, <1>2, <1>3

-------------------------------------------------------------------------------
(* The invariants, each preserved by every kind of step.                   *)

LEMMA TableInvInit == StoreInit => TableInv
<1> SUFFICES ASSUME StoreInit PROVE TableInv
  OBVIOUS
<1>1. PICK present \in SUBSET Candidates :
        rows = [c \in Candidates |->
                  IF c \in present
                  THEN [review_status |-> "pending", updated_at |-> 1, merge |-> None]
                  ELSE None]
  BY DEF StoreInit
<1>2. [review_status |-> "pending", updated_at |-> 1, merge |-> None] \in Rows
  BY DEF Rows, Statuses
<1>3. StoreTypeOK
  BY <1>1, <1>2 DEF StoreInit, StoreTypeOK
<1>4. RowsBehindClock
  <2>1. \A c \in Candidates : Present(c) => rows[c].updated_at = 1
    BY <1>1 DEF Present
  <2> QED BY <2>1 DEF StoreInit, RowsBehindClock
<1>5. EventsHold
  BY DEF StoreInit, EventsHold
<1> QED BY <1>3, <1>4, <1>5 DEF TableInv

LEMMA TableInvReview ==
  ASSUME TableInv, NEW c \in Candidates, NEW status \in Statuses,
         SetReviewStatus(c, status)
  PROVE  TableInv'
<1> USE DEF TableInv
<1>1. /\ StoreTypeOK'
      /\ UNCHANGED <<deletions, records, links, events>>
      /\ \A d \in Candidates : d # c => rows'[d] = rows[d] /\ clock'[d] = clock[d]
      /\ rows[c] # None
      /\ rows'[c] # None
      /\ rows'[c].updated_at = clock[c] + 1
      /\ clock'[c] = clock[c] + 1
  BY ReviewStep
<1>2. rows[c].updated_at \in Nat /\ clock[c] \in Nat /\ rows[c].updated_at <= clock[c]
  BY <1>1 DEF StoreTypeOK, Present, Rows, RowsBehindClock
<1>3. RowsBehindClock'
  BY <1>1, <1>2 DEF RowsBehindClock, Present
<1>4. EventsHold'
  <2> SUFFICES ASSUME NEW e \in events, NEW d \in Selected(e.before)
               PROVE  /\ Present(d)'
                      /\ e.applied_at[d] <= rows'[d].updated_at
                      /\ rows'[d].updated_at = e.applied_at[d]
                           => rows'[d].review_status = "merged"
    BY <1>1 DEF EventsHold, Selected, LinksOf, MergeRecord
  <2>1. d \in Candidates /\ e.applied_at[d] \in Nat
    BY DEF StoreTypeOK, Selected, Events
  <2>2. CASE d = c
    BY <1>1, <1>2, <2>1, <2>2 DEF EventsHold, Present
  <2>3. CASE d # c
    BY <1>1, <2>1, <2>3 DEF EventsHold, Present
  <2> QED BY <2>2, <2>3
<1> QED BY <1>1, <1>3, <1>4

LEMMA TableInvStep == TableInv /\ [AtomicNext]_storeVars => TableInv'
<1> SUFFICES ASSUME TableInv, [AtomicNext]_storeVars PROVE TableInv'
  OBVIOUS
<1> USE DEF TableInv
<1>1. ASSUME NEW ids \in SUBSET Candidates, NEW f \in Fields, CompareAndMerge(ids, f)
      PROVE  TableInv'
  <2> PICK n \in Events : MergedWith(ids, f, n)
    BY <1>1, MergeStep
  <2> USE DEF MergedWith
  <2>1. StoreTypeOK'
    BY <1>1, MergeStep
  <2>2. \A c \in Candidates : Present(c) => rows[c].updated_at \in Nat /\ clock[c] \in Nat
    BY DEF StoreTypeOK, Present, Rows
  <2>3. RowsBehindClock'
    BY <2>1, <2>2 DEF RowsBehindClock, Present, StoreTypeOK
  <2>5. \A c \in ids : n.before[c].updated_at < n.applied_at[c]
    BY <2>1, <2>2 DEF RowsBehindClock, Present
  <2>6. ASSUME NEW e \in events, NEW c \in Selected(e.before)
        PROVE  /\ Present(c)'
               /\ e.before[c].updated_at < e.applied_at[c]
               /\ e.applied_at[c] <= rows'[c].updated_at
               /\ rows'[c].updated_at = e.applied_at[c] => rows'[c].review_status = "merged"
    <3>1. e \in Events /\ c \in Candidates
      BY DEF StoreTypeOK, Selected
    <3>2. e.applied_at[c] \in Nat
      BY <3>1 DEF Events
    <3>3. /\ Present(c)
          /\ e.before[c].updated_at < e.applied_at[c]
          /\ e.applied_at[c] <= rows[c].updated_at
          /\ rows[c].updated_at = e.applied_at[c] => rows[c].review_status = "merged"
      BY DEF EventsHold
    <3>4. CASE c \in ids
      BY <2>1, <2>2, <3>1, <3>2, <3>3, <3>4 DEF RowsBehindClock, Present
    <3>5. CASE c \notin ids
      BY <2>1, <3>1, <3>3, <3>5 DEF Present
    <3> QED BY <3>4, <3>5
  <2>7. EventsHold'
    <3> SUFFICES ASSUME NEW e \in events'
                 PROVE  /\ e.record = MergeRecord(Selected(e.before), e.token.fields)
                        /\ e.token.states = e.before
                        /\ e.record \in records'
                        /\ LinksOf(e.record) \subseteq links'
                        /\ \A c \in Selected(e.before) :
                             /\ Present(c)'
                             /\ e.before[c].updated_at < e.applied_at[c]
                             /\ e.applied_at[c] <= rows'[c].updated_at
                             /\ rows'[c].updated_at = e.applied_at[c]
                                  => rows'[c].review_status = "merged"
      BY DEF EventsHold, Selected, LinksOf
    <3>1. CASE e \in events
      BY <2>1, <2>6, <3>1 DEF EventsHold
    <3>2. CASE e = n
      <4>1. \A c \in Selected(e.before) :
             /\ Present(c)'
             /\ e.before[c].updated_at < e.applied_at[c]
             /\ e.applied_at[c] <= rows'[c].updated_at
             /\ rows'[c].updated_at = e.applied_at[c] => rows'[c].review_status = "merged"
        BY <2>1, <2>2, <2>5, <3>2 DEF Present
      <4> QED BY <2>1, <3>2, <4>1
    <3> QED BY <2>1, <3>1, <3>2
  <2> QED BY <2>1, <2>3, <2>7
<1>2. ASSUME NEW c \in Candidates, NEW status \in Statuses, SetReviewStatus(c, status)
      PROVE  TableInv'
  BY <1>2, TableInvReview
<1>3. ASSUME \/ Promote
             \/ \E s \in Sources : Tombstone(s)
             \/ UNCHANGED storeVars
      PROVE  TableInv'
  <2>1. /\ StoreTypeOK'
        /\ UNCHANGED <<rows, clock, links, events>>
        /\ records \subseteq records'
    BY <1>3, OtherStep
  <2>2. RowsBehindClock'
    BY <2>1 DEF RowsBehindClock, Present
  <2>3. EventsHold'
    BY <2>1 DEF EventsHold, Present, Selected, LinksOf, MergeRecord
  <2> QED BY <2>1, <2>2, <2>3
<1> QED BY <1>1, <1>2, <1>3 DEF AtomicNext, Review, MarkPromoted, Statuses

LEMMA MergeInvStep ==
  ASSUME AtomicInv, NEW ids \in SUBSET Candidates, NEW f \in Fields, CompareAndMerge(ids, f)
  PROVE  AtomicInv'
<1> USE DEF AtomicInv, TableInv
<1> PICK n \in Events : MergedWith(ids, f, n)
  BY MergeStep
<1> USE DEF MergedWith
<1>1. TableInv'
  BY TableInvStep DEF AtomicNext
<1>2. \A c \in ids : /\ clock[c] \in Nat
                     /\ rows[c].updated_at \in Nat
                     /\ rows[c].updated_at <= clock[c]
  BY DEF StoreTypeOK, Rows, RowsBehindClock, Present
<1>3. MarksAreBacked'
  <2> SUFFICES ASSUME NEW c \in Candidates, rows'[c] # None, rows'[c].merge # None
               PROVE  \E e \in events' :
                        /\ e.record = rows'[c].merge.target
                        /\ e.token = rows'[c].merge.token
                        /\ c \in e.record.ids
                        /\ e.record \in records'
                        /\ LinksOf(e.record) \subseteq links'
    BY DEF MarksAreBacked, Present, LinksOf
  <2>1. CASE c \in ids
    <3>1. n.record.ids = ids
      BY DEF MergeRecord
    <3> WITNESS n \in events'
    <3> QED BY <2>1, <3>1
  <2>2. CASE c \notin ids
    <3>1. rows[c] # None /\ rows[c].merge # None
      BY <2>2
    <3>2. PICK e \in events : /\ e.record = rows[c].merge.target
                             /\ e.token = rows[c].merge.token
                             /\ c \in e.record.ids
                             /\ e.record \in records
                             /\ LinksOf(e.record) \subseteq links
      BY <3>1 DEF MarksAreBacked, Present
    <3> WITNESS e \in events'
    <3> QED BY <2>2, <3>2
  <2> QED BY <2>1, <2>2
<1>4. \A e \in events : \A c \in Selected(e.before) \intersect ids :
        e.applied_at[c] < n.before[c].updated_at
  <2> SUFFICES ASSUME NEW e \in events, NEW c \in Selected(e.before) \intersect ids
               PROVE  e.applied_at[c] < n.before[c].updated_at
    OBVIOUS
  <2>1. e.applied_at[c] \in Nat
    BY DEF StoreTypeOK, Events
  <2>2. /\ e.applied_at[c] <= rows[c].updated_at
        /\ rows[c].updated_at = e.applied_at[c] => rows[c].review_status = "merged"
    BY DEF EventsHold
  <2>3. rows[c].review_status # "merged"
    BY DEF Mergeable
  <2> QED BY <1>2, <2>1, <2>2, <2>3
<1>5. StateUsedOnce'
  <2> SUFFICES ASSUME NEW e1 \in events', NEW e2 \in events', e1 # e2,
                      NEW c \in Selected(e1.before) \intersect Selected(e2.before)
               PROVE  \/ e1.applied_at[c] < e2.before[c].updated_at
                      \/ e2.applied_at[c] < e1.before[c].updated_at
    BY DEF StateUsedOnce, Selected
  <2>1. CASE e1 \in events /\ e2 \in events
    BY <2>1 DEF StateUsedOnce
  <2>2. CASE e1 = n /\ e2 \in events
    BY <1>4, <2>2
  <2>3. CASE e2 = n /\ e1 \in events
    BY <1>4, <2>3
  <2> QED BY <2>1, <2>2, <2>3
<1>6. TokenAppliedOnce'
  <2>1. \A e \in events : e.record # n.record
    BY DEF EventsHold
  <2>2. ASSUME NEW e \in events, e.token = n.token PROVE FALSE
    <3>1. e.before = n.before
      BY <2>2 DEF EventsHold
    <3>2. e.record = MergeRecord(Selected(n.before), n.token.fields)
      BY <2>2, <3>1 DEF EventsHold
    <3> QED BY <2>1, <3>2
  <2> QED BY <2>1, <2>2 DEF TokenAppliedOnce
<1>7. MergedHasRecord'
  <2> SUFFICES ASSUME NEW c \in Candidates, rows'[c] # None,
                      rows'[c].review_status = "merged"
               PROVE  \E r \in records' : c \in r.ids
    BY DEF MergedHasRecord, Present
  <2>1. n.record.ids = ids
    BY DEF MergeRecord
  <2> QED BY <2>1 DEF MergedHasRecord, Present
<1>8. MarkIsLatest'
  <2> SUFFICES ASSUME NEW e \in events', NEW c \in Selected(e.before)
               PROVE  /\ rows'[c] # None
                      /\ rows'[c].merge # None
                      /\ \E last \in events' :
                           /\ c \in Selected(last.before)
                           /\ last.record = rows'[c].merge.target
                           /\ e.applied_at[c] <= last.applied_at[c]
                           /\ last.applied_at[c] <= rows'[c].updated_at
    BY DEF MarkIsLatest, Present, Selected
  <2>0. c \in Candidates
    BY DEF Selected
  <2>1. CASE c \in ids
    <3>1. e.applied_at[c] <= n.applied_at[c]
      <4>1. CASE e = n
        BY <1>2, <2>1, <4>1
      <4>2. CASE e \in events
        <5>1. e.applied_at[c] \in Nat /\ e.applied_at[c] <= rows[c].updated_at
          BY <2>0, <4>2 DEF EventsHold, StoreTypeOK, Events
        <5> QED BY <1>2, <2>1, <5>1
      <4> QED BY <4>1, <4>2
    <3>2. n.applied_at[c] <= rows'[c].updated_at
      BY <1>2, <2>1
    <3> QED BY <2>1, <3>1, <3>2
  <2>2. CASE c \notin ids
    <3>1. e \in events
      BY <2>2
    <3>2. /\ rows[c] # None
          /\ rows[c].merge # None
          /\ \E last \in events :
               /\ c \in Selected(last.before)
               /\ last.record = rows[c].merge.target
               /\ e.applied_at[c] <= last.applied_at[c]
               /\ last.applied_at[c] <= rows[c].updated_at
      BY <3>1 DEF MarkIsLatest, Present
    <3>3. rows'[c] = rows[c]
      BY <2>0, <2>2
    <3> QED BY <3>2, <3>3
  <2> QED BY <2>1, <2>2
<1> QED BY <1>1, <1>3, <1>5, <1>6, <1>7, <1>8

LEMMA ReviewInvStep ==
  ASSUME AtomicInv, NEW c \in Candidates, NEW status \in Statuses,
         SetReviewStatus(c, status),
         status = "merged" => \E r \in records : c \in r.ids
  PROVE  AtomicInv'
<1> USE DEF AtomicInv, TableInv
<1>1. /\ UNCHANGED <<deletions, records, links, events>>
      /\ \A d \in Candidates : d # c => rows'[d] = rows[d] /\ clock'[d] = clock[d]
      /\ rows[c] # None
      /\ rows'[c] # None
      /\ rows'[c].review_status = status
      /\ rows'[c].merge = rows[c].merge
      /\ rows'[c].updated_at = clock[c] + 1
  BY ReviewStep
<1>2. rows[c].updated_at \in Nat /\ clock[c] \in Nat /\ rows[c].updated_at <= clock[c]
  BY <1>1 DEF StoreTypeOK, Present, Rows, RowsBehindClock
<1>3. TableInv'
  BY TableInvReview
<1>4. MarksAreBacked'
  BY <1>1 DEF MarksAreBacked, Present, LinksOf
<1>5. StateUsedOnce'
  BY <1>1 DEF StateUsedOnce, Selected
<1>6. TokenAppliedOnce'
  BY <1>1 DEF TokenAppliedOnce
<1>7. MergedHasRecord'
  BY <1>1 DEF MergedHasRecord, Present
<1>8. MarkIsLatest'
  <2> SUFFICES ASSUME NEW e \in events, NEW d \in Selected(e.before)
               PROVE  /\ rows'[d] # None
                      /\ rows'[d].merge # None
                      /\ \E last \in events :
                           /\ d \in Selected(last.before)
                           /\ last.record = rows'[d].merge.target
                           /\ e.applied_at[d] <= last.applied_at[d]
                           /\ last.applied_at[d] <= rows'[d].updated_at
    BY <1>1 DEF MarkIsLatest, Present, Selected
  <2>1. d \in Candidates
    BY DEF Selected
  <2>2. PICK last \in events :
          /\ rows[d] # None
          /\ rows[d].merge # None
          /\ d \in Selected(last.before)
          /\ last.record = rows[d].merge.target
          /\ e.applied_at[d] <= last.applied_at[d]
          /\ last.applied_at[d] <= rows[d].updated_at
    BY DEF MarkIsLatest, Present
  <2>3. rows'[d].merge = rows[d].merge /\ rows'[d] # None
    BY <1>1, <2>1, <2>2
  <2>4. last.applied_at[d] <= rows'[d].updated_at
    <3>1. last.applied_at[d] \in Nat
      BY <2>1 DEF StoreTypeOK, Events
    <3>2. CASE d = c
      BY <1>1, <1>2, <2>2, <3>1, <3>2
    <3>3. CASE d # c
      BY <1>1, <2>1, <2>2, <3>3
    <3> QED BY <3>2, <3>3
  <2> QED BY <2>2, <2>3, <2>4
<1> QED BY <1>3, <1>4, <1>5, <1>6, <1>7, <1>8

LEMMA OtherInvStep ==
  ASSUME AtomicInv,
         \/ Promote
         \/ \E s \in Sources : Tombstone(s)
         \/ UNCHANGED storeVars
  PROVE  AtomicInv'
<1> USE DEF AtomicInv, TableInv
<1>1. /\ UNCHANGED <<rows, clock, links, events>>
      /\ records \subseteq records'
  BY OtherStep
<1>2. TableInv'
  BY TableInvStep DEF AtomicNext
<1>3. MarksAreBacked'
  BY <1>1 DEF MarksAreBacked, Present, LinksOf
<1>4. StateUsedOnce' /\ TokenAppliedOnce'
  BY <1>1 DEF StateUsedOnce, TokenAppliedOnce, Selected
<1>5. MergedHasRecord'
  BY <1>1 DEF MergedHasRecord, Present
<1>6. MarkIsLatest'
  BY <1>1 DEF MarkIsLatest, Present, Selected
<1> QED BY <1>2, <1>3, <1>4, <1>5, <1>6

LEMMA AtomicInvInit == StoreInit => AtomicInv
<1> SUFFICES ASSUME StoreInit PROVE AtomicInv
  OBVIOUS
<1>1. PICK present \in SUBSET Candidates :
        rows = [c \in Candidates |->
                  IF c \in present
                  THEN [review_status |-> "pending", updated_at |-> 1, merge |-> None]
                  ELSE None]
  BY DEF StoreInit
<1>2. \A c \in Candidates :
        rows[c] # None => rows[c].merge = None /\ rows[c].review_status = "pending"
  BY <1>1
<1>3. events = {}
  BY DEF StoreInit
<1> QED BY <1>2, <1>3, TableInvInit
        DEF AtomicInv, MarksAreBacked, StateUsedOnce, TokenAppliedOnce, MergedHasRecord,
            MarkIsLatest, Present

LEMMA AtomicInvStep == AtomicInv /\ [AtomicNext]_storeVars => AtomicInv'
<1> SUFFICES ASSUME AtomicInv, [AtomicNext]_storeVars PROVE AtomicInv'
  OBVIOUS
<1>1. CASE \E ids \in SUBSET Candidates, f \in Fields : CompareAndMerge(ids, f)
  BY <1>1, MergeInvStep
<1>2. CASE Review
  BY <1>2, ReviewInvStep DEF Review, Statuses
<1>3. CASE MarkPromoted
  <2>1. PICK c \in Candidates, f \in Fields :
          PromotedRecord(c, f) \in records /\ SetReviewStatus(c, "merged")
    BY <1>3 DEF MarkPromoted
  <2>2. c \in PromotedRecord(c, f).ids
    BY DEF PromotedRecord
  <2> QED BY <2>1, <2>2, ReviewInvStep DEF Statuses
<1>4. CASE \/ Promote
           \/ \E s \in Sources : Tombstone(s)
           \/ UNCHANGED storeVars
  BY <1>4, OtherInvStep
<1> QED BY <1>1, <1>2, <1>3, <1>4 DEF AtomicNext

-------------------------------------------------------------------------------
(* The theorems.                                                           *)

\* The tables keep their types, and the inductive invariant always holds.
THEOREM AtomicInvariant == AtomicSpec => []AtomicInv
BY AtomicInvInit, AtomicInvStep, PTL DEF AtomicSpec

-------------------------------------------------------------------------------
(* The calls of CandidateMerge.                                            *)

ClientTypeOK ==
  /\ pc \in [Clients -> Labels]
  /\ req \in [Clients -> Requests \union {None}]
  /\ held \in Tokens \union {None}
  /\ seen \in [Clients -> [Candidates -> Rows \union {None}]]
  /\ prior \in [Clients -> [Candidates -> Rows \union {None}]]

\* What is still known of a row read earlier: it is no newer than the row of now,
\* and it is the row of now if it has the same timestamp.
Known(c, state) ==
  /\ Present(c)
  /\ state.updated_at <= rows[c].updated_at
  /\ state.updated_at = rows[c].updated_at
       => state.review_status = rows[c].review_status

\* The event of a mark that was read is there to answer a replay from.
MarkKnown(c, mark) ==
  \E e \in events : e.record = mark.target /\ e.token = mark.token /\ c \in e.record.ids

SeenOK(k) ==
  \A c \in Candidates : seen[k][c] # None =>
    /\ Known(c, seen[k][c])
    /\ seen[k][c].merge # None => MarkKnown(c, seen[k][c].merge)

RequestOK(k) ==
  /\ pc[k] # "idle" => req[k] # None
  /\ pc[k] \in {"preview", "read", "recheck", "commit"} => Cardinality(req[k].ids) >= 2
  /\ pc[k] = "promoted" =>
       \E c \in Candidates, f \in Fields :
         req[k].ids = {c} /\ PromotedRecord(c, f) \in records

\* prior_states are mergeable, and what is read again is no older.
PriorOK(k) ==
  /\ pc[k] \in {"recheck", "commit"} =>
       \A c \in req[k].ids : /\ prior[k][c] # None
                             /\ Mergeable(prior[k][c].review_status)
                             /\ Known(c, prior[k][c])
  /\ pc[k] = "recheck" =>
       \A c \in req[k].ids :
         seen[k][c] # None => prior[k][c].updated_at <= seen[k][c].updated_at

\* The confirmed token of a call about to commit was recomputed from rows that were
\* read after prior_states.
TokenOK(k) ==
  pc[k] = "commit" =>
    /\ req[k].token # None
    /\ req[k].token.fields = req[k].fields
    /\ Selected(req[k].token.states) = req[k].ids
    /\ \A c \in req[k].ids :
         /\ prior[k][c].updated_at <= req[k].token.states[c].updated_at
         /\ Known(c, req[k].token.states[c])
    /\ req[k].token.blocked \subseteq req[k].ids
    /\ \A c \in req[k].token.blocked : Blocked(c)

CallOK(k) == SeenOK(k) /\ RequestOK(k) /\ PriorOK(k) /\ TokenOK(k)

\* The inductive invariant of the racing calls.
IInv ==
  /\ AtomicInv
  /\ ClientTypeOK
  /\ \A k \in Clients : CallOK(k)

-------------------------------------------------------------------------------
(* What any step does to the tables.                                       *)

\* Rows only move forward; tombstones, records and events are never taken back.
TablesMove ==
  /\ \A c \in Candidates : rows[c] # None =>
       /\ rows'[c] # None
       /\ rows'[c] = rows[c] \/ rows[c].updated_at < rows'[c].updated_at
  /\ deletions \subseteq deletions'
  /\ records \subseteq records'
  /\ events \subseteq events'
  /\ StoreTypeOK /\ StoreTypeOK'

LEMMA TablesMoveStep == AtomicInv /\ [AtomicNext]_storeVars => TablesMove
<1> SUFFICES ASSUME AtomicInv, [AtomicNext]_storeVars PROVE TablesMove
  OBVIOUS
<1> USE DEF AtomicInv, TableInv
<1>0. StoreTypeOK /\ StoreTypeOK'
  BY TableInvStep
<1>1. \A c \in Candidates : rows[c] # None =>
        rows[c].updated_at \in Nat /\ clock[c] \in Nat /\ rows[c].updated_at < clock[c] + 1
  BY DEF StoreTypeOK, Rows, RowsBehindClock, Present
<1>2. ASSUME NEW ids \in SUBSET Candidates, NEW f \in Fields, CompareAndMerge(ids, f)
      PROVE  TablesMove
  <2> PICK n \in Events : MergedWith(ids, f, n)
    BY <1>2, MergeStep
  <2>1. deletions' = deletions
    BY <1>2 DEF CompareAndMerge, MergeTx
  <2> QED BY <1>0, <1>1, <2>1 DEF MergedWith, TablesMove
<1>3. ASSUME NEW c \in Candidates, NEW status \in Statuses, SetReviewStatus(c, status)
      PROVE  TablesMove
  <2>1. /\ UNCHANGED <<deletions, records, links, events>>
        /\ \A d \in Candidates : d # c => rows'[d] = rows[d] /\ clock'[d] = clock[d]
        /\ rows'[c] # None
        /\ rows[c] # None
        /\ rows'[c].updated_at = clock[c] + 1
    BY <1>3, ReviewStep
  <2> QED BY <1>0, <1>1, <2>1 DEF TablesMove
<1>4. CASE Promote \/ UNCHANGED storeVars
  <2>1. UNCHANGED <<rows, events>> /\ deletions' = deletions
    BY <1>4 DEF Promote, UpsertRecord, storeVars
  <2> QED BY <1>0, <1>4, <2>1, OtherStep DEF TablesMove
<1>5. CASE \E s \in Sources : Tombstone(s)
  BY <1>0, <1>5 DEF Tombstone, TablesMove
<1> QED
  BY <1>2, <1>3, <1>4, <1>5 DEF AtomicNext, Review, MarkPromoted, Statuses

\* What was known of a row stays known.
LEMMA KnownStays ==
  ASSUME TablesMove, NEW c \in Candidates, NEW state, Known(c, state), state.updated_at \in Nat
  PROVE  /\ rows'[c] # None
         /\ state.updated_at <= rows'[c].updated_at
         /\ state.updated_at = rows'[c].updated_at
              => state.review_status = rows'[c].review_status
<1>1. rows[c] # None /\ rows'[c] # None
  BY DEF TablesMove, Known, Present
<1>2. rows[c] \in Rows /\ rows'[c] \in Rows
  BY <1>1 DEF TablesMove, StoreTypeOK
<1>3. rows[c].updated_at \in Nat /\ rows'[c].updated_at \in Nat
  BY <1>2 DEF Rows
<1>4. rows'[c] = rows[c] \/ rows[c].updated_at < rows'[c].updated_at
  BY <1>1 DEF TablesMove
<1> QED BY <1>1, <1>3, <1>4 DEF Known, Present

\* A row read now is known.
LEMMA ReadKnown ==
  ASSUME AtomicInv, NEW c \in Candidates, Present(c)
  PROVE  Known(c, rows[c]) /\ (rows[c].merge # None => MarkKnown(c, rows[c].merge))
<1>1. rows[c].updated_at \in Nat
  BY DEF AtomicInv, TableInv, StoreTypeOK, Present, Rows
<1>2. Known(c, rows[c])
  BY <1>1 DEF Known
<1>3. rows[c].merge # None => MarkKnown(c, rows[c].merge)
  BY DEF AtomicInv, MarksAreBacked, MarkKnown
<1> QED BY <1>2, <1>3

-------------------------------------------------------------------------------
(* What a step does to the calls it is not a step of.                      *)

LEMMA SeenStays ==
  ASSUME TablesMove, ClientTypeOK, NEW j \in Clients, SeenOK(j), seen'[j] = seen[j]
  PROVE  SeenOK(j)'
<1> SUFFICES ASSUME NEW c \in Candidates, seen[j][c] # None
             PROVE  /\ rows'[c] # None
                    /\ seen[j][c].updated_at <= rows'[c].updated_at
                    /\ seen[j][c].updated_at = rows'[c].updated_at
                         => seen[j][c].review_status = rows'[c].review_status
                    /\ seen[j][c].merge # None =>
                         \E e \in events' : /\ e.record = seen[j][c].merge.target
                                            /\ e.token = seen[j][c].merge.token
                                            /\ c \in e.record.ids
  BY DEF SeenOK, Known, MarkKnown, Present
<1>1. Known(c, seen[j][c]) /\ (seen[j][c].merge # None => MarkKnown(c, seen[j][c].merge))
  BY DEF SeenOK
<1>2. seen[j][c] \in Rows
  BY DEF ClientTypeOK
<1>3. seen[j][c].updated_at \in Nat
  BY <1>2 DEF Rows
<1>4. events \subseteq events'
  BY DEF TablesMove
<1> QED BY <1>1, <1>3, <1>4, KnownStays DEF MarkKnown

LEMMA PriorStays ==
  ASSUME TablesMove, ClientTypeOK, NEW j \in Clients, RequestOK(j), PriorOK(j),
         UNCHANGED <<pc[j], req[j], seen[j], prior[j]>>
  PROVE  PriorOK(j)'
<1>1. ASSUME pc[j] \in {"recheck", "commit"}, NEW c \in req[j].ids
      PROVE  /\ prior[j][c] # None
             /\ Mergeable(prior[j][c].review_status)
             /\ rows'[c] # None
             /\ prior[j][c].updated_at <= rows'[c].updated_at
             /\ prior[j][c].updated_at = rows'[c].updated_at
                  => prior[j][c].review_status = rows'[c].review_status
  <2>1. req[j] \in Requests
    BY <1>1 DEF RequestOK, ClientTypeOK
  <2>2. c \in Candidates
    BY <2>1 DEF Requests
  <2>3. /\ prior[j][c] # None
        /\ Mergeable(prior[j][c].review_status)
        /\ Known(c, prior[j][c])
    BY <1>1 DEF PriorOK
  <2>4. prior[j][c] \in Rows
    BY <2>2, <2>3 DEF ClientTypeOK
  <2>5. prior[j][c].updated_at \in Nat
    BY <2>4 DEF Rows
  <2> QED BY <2>2, <2>3, <2>5, KnownStays
<1>2. pc[j] = "recheck" =>
        \A c \in req[j].ids :
          seen[j][c] # None => prior[j][c].updated_at <= seen[j][c].updated_at
  BY DEF PriorOK
<1> QED BY <1>1, <1>2 DEF PriorOK, Known, Present, Mergeable

LEMMA TokenStays ==
  ASSUME TablesMove, ClientTypeOK, NEW j \in Clients, RequestOK(j), TokenOK(j),
         UNCHANGED <<pc[j], req[j], prior[j]>>
  PROVE  TokenOK(j)'
<1> SUFFICES ASSUME pc[j] = "commit" PROVE TokenOK(j)'
  BY DEF TokenOK
<1> DEFINE t == req[j].token
<1>1. req[j] \in Requests
  BY DEF RequestOK, ClientTypeOK
<1>2. req[j].ids \subseteq Candidates
  BY <1>1 DEF Requests
<1>3. /\ t # None
      /\ t.fields = req[j].fields
      /\ Selected(t.states) = req[j].ids
      /\ \A c \in req[j].ids : /\ prior[j][c].updated_at <= t.states[c].updated_at
                              /\ Known(c, t.states[c])
      /\ t.blocked \subseteq req[j].ids
      /\ \A c \in t.blocked : Blocked(c)
  BY DEF TokenOK
<1>4. \A c \in req[j].ids : t.states[c].updated_at \in Nat
  <2>1. t.states \in Selections
    BY <1>1, <1>3 DEF Requests, Tokens
  <2> QED BY <2>1, <1>2, <1>3 DEF Selections, Selected, RowStates
<1>5. \A c \in req[j].ids :
        /\ rows'[c] # None
        /\ t.states[c].updated_at <= rows'[c].updated_at
        /\ t.states[c].updated_at = rows'[c].updated_at
             => t.states[c].review_status = rows'[c].review_status
  BY <1>2, <1>3, <1>4, KnownStays
<1>6. \A c \in t.blocked : EvidenceOf[c] \intersect deletions' # {}
  BY <1>3 DEF Blocked, TablesMove
<1>7. req'[j] = req[j] /\ prior'[j] = prior[j]
  OBVIOUS
<1> HIDE DEF t
<1>8. req[j].token = t
  BY DEF t
<1> QED BY <1>3, <1>5, <1>6, <1>7, <1>8 DEF TokenOK, Known, Present, Blocked, Selected

LEMMA Others ==
  ASSUME TablesMove, ClientTypeOK, NEW j \in Clients, CallOK(j),
         UNCHANGED <<pc[j], req[j], seen[j], prior[j]>>
  PROVE  CallOK(j)'
<1>1. RequestOK(j)'
  BY DEF CallOK, RequestOK, TablesMove
<1> QED BY <1>1, SeenStays, PriorStays, TokenStays DEF CallOK

\* A client whose call is over knows nothing.
LEMMA Returned ==
  ASSUME ClientTypeOK, NEW k \in Clients, Return(k), held' \in Tokens \union {None}
  PROVE  /\ ClientTypeOK'
         /\ CallOK(k)'
         /\ \A j \in Clients \ {k} : UNCHANGED <<pc[j], req[j], seen[j], prior[j]>>
<1>1. pc'[k] = "idle" /\ seen'[k] = NoneSeen
  BY DEF Return, ClientTypeOK
<1>2. SeenOK(k)'
  BY <1>1 DEF SeenOK, NoneSeen
<1>3. RequestOK(k)' /\ PriorOK(k)' /\ TokenOK(k)'
  BY <1>1 DEF RequestOK, PriorOK, TokenOK
<1>4. NoneSeen \in [Candidates -> Rows \union {None}] /\ "idle" \in Labels
  BY DEF NoneSeen, Labels
<1>5. ClientTypeOK'
  BY <1>4 DEF ClientTypeOK, Return
<1> QED BY <1>2, <1>3, <1>5 DEF CallOK, Return, ClientTypeOK

-------------------------------------------------------------------------------
(* Every step is one step of the compare-and-merge, or none.               *)

\* A commit finds the rows that the confirmed token describes.
LEMMA CommitIsMerge ==
  ASSUME IInv, NEW k \in Clients, Commit(k)
  PROVE  /\ req[k].ids \in SUBSET Candidates
         /\ req[k].fields \in Fields
         /\ CompareAndMerge(req[k].ids, req[k].fields)
<1> DEFINE ids == req[k].ids
           t   == req[k].token
<1>1. pc[k] = "commit" /\ StillCurrent(k) /\ MergeTx(t, States(k, prior))
  BY DEF Commit
<1>2. ClientTypeOK /\ CallOK(k) /\ StoreTypeOK
  BY DEF IInv, AtomicInv, TableInv
<1>3. req[k] \in Requests /\ Cardinality(ids) >= 2
  BY <1>1, <1>2 DEF CallOK, RequestOK, ClientTypeOK
<1>4. ids \in SUBSET Candidates /\ req[k].fields \in Fields
  BY <1>3 DEF Requests
<1>5. /\ t # None
      /\ t.fields = req[k].fields
      /\ Selected(t.states) = ids
      /\ \A c \in ids : /\ prior[k][c].updated_at <= t.states[c].updated_at
                       /\ Known(c, t.states[c])
      /\ t.blocked \subseteq ids
      /\ \A c \in t.blocked : Blocked(c)
  BY <1>1, <1>2 DEF CallOK, TokenOK
<1>6. t \in Tokens
  BY <1>3, <1>5 DEF Requests
<1>7. \A c \in ids : /\ ~Blocked(c)
                    /\ rows[c] # None
                    /\ StateOf(rows[c]) = StateOf(prior[k][c])
                    /\ Mergeable(prior[k][c].review_status)
  BY <1>1, <1>2 DEF StillCurrent, CallOK, PriorOK, Present
<1>8. \A c \in ids : /\ rows[c].review_status = prior[k][c].review_status
                    /\ rows[c].updated_at = prior[k][c].updated_at
  BY <1>7 DEF StateOf
<1>9. States(k, prior) = Select(ids, rows)
  BY <1>7 DEF States, Select
<1>10. \A c \in ids : t.states[c] = StateOf(rows[c])
  <2> SUFFICES ASSUME NEW c \in ids PROVE t.states[c] = StateOf(rows[c])
    OBVIOUS
  <2>1. c \in Candidates /\ rows[c] \in Rows
    BY <1>2, <1>4, <1>7 DEF StoreTypeOK
  <2>2. rows[c].updated_at \in Nat
    BY <2>1 DEF Rows
  <2>3. t.states[c] \in RowStates
    BY <1>5, <1>6, <2>1 DEF Tokens, Selections, Selected
  <2>4. t.states[c].updated_at \in Nat
    BY <2>3 DEF RowStates
  <2>5. t.states[c].updated_at = rows[c].updated_at
    BY <1>5, <1>8, <2>2, <2>4 DEF Known
  <2>6. t.states[c].review_status = rows[c].review_status
    BY <1>5, <2>5 DEF Known
  <2> QED BY <2>3, <2>5, <2>6 DEF RowStates, StateOf
<1>11. t.states = Select(ids, rows)
  <2>1. t.states \in Selections
    BY <1>6 DEF Tokens
  <2>2. \A c \in Candidates : c \notin ids => t.states[c] = None
    BY <1>5 DEF Selected
  <2> QED BY <1>10, <2>1, <2>2 DEF Selections, Select
<1>12. t.blocked = {c \in Selected(t.states) : Blocked(c)}
  BY <1>5, <1>7
<1>13. t = CurrentToken(ids, req[k].fields)
  <2>1. t = [states |-> t.states, blocked |-> t.blocked, fields |-> t.fields]
    BY <1>6 DEF Tokens
  <2> HIDE DEF t
  <2> QED BY <1>5, <1>11, <1>12, <2>1 DEF CurrentToken, TokenOf
<1> QED BY <1>1, <1>3, <1>4, <1>7, <1>8, <1>9, <1>13 DEF CompareAndMerge, Present

\* The steps of a call that read, and write nothing.
Reads(k) ==
  \/ \E ids \in SUBSET Candidates, f \in Fields : StartPreview(k, ids, f) \/ StartApply(k, ids, f)
  \/ ReadRow(k)
  \/ FinishPreview(k)
  \/ Replay(k)
  \/ \E allow \in BOOLEAN : Validate(k, allow) \/ ValidateFails(k, allow) \/ Recheck(k, allow)
  \/ CommitFails(k)
  \/ Crash(k)

LEMMA ReadsWriteNothing ==
  ASSUME NEW k \in Clients, Reads(k)
  PROVE  UNCHANGED storeVars
<1>1. CASE ReadRow(k)
  BY <1>1 DEF ReadRow, Refuse
<1>2. CASE \/ \E ids \in SUBSET Candidates, f \in Fields :
                StartPreview(k, ids, f) \/ StartApply(k, ids, f)
           \/ FinishPreview(k)
           \/ Crash(k)
  BY <1>2 DEF StartPreview, StartApply, FinishPreview, Crash
<1>3. CASE \E allow \in BOOLEAN :
              Validate(k, allow) \/ ValidateFails(k, allow) \/ Recheck(k, allow)
  BY <1>3 DEF Validate, ValidateFails, Recheck, Refuse
<1>4. CASE Replay(k) \/ CommitFails(k)
  BY <1>4 DEF Replay, CommitFails, Refuse
<1> QED BY <1>1, <1>2, <1>3, <1>4 DEF Reads

LEMMA StepRefines == IInv /\ [Next]_vars => [AtomicNext]_storeVars
<1> SUFFICES ASSUME IInv, [Next]_vars PROVE [AtomicNext]_storeVars
  OBVIOUS
<1>1. ASSUME NEW k \in Clients, Reads(k) PROVE [AtomicNext]_storeVars
  BY <1>1, ReadsWriteNothing
<1>2. ASSUME NEW k \in Clients, Commit(k) PROVE AtomicNext
  BY <1>2, CommitIsMerge DEF AtomicNext
<1>3. ASSUME NEW k \in Clients, NEW c \in Candidates, NEW f \in Fields,
             NEW allow \in BOOLEAN, PromoteCreate(k, c, f, allow)
      PROVE  AtomicNext
  BY <1>3 DEF PromoteCreate, Promote, AtomicNext
<1>4. ASSUME NEW k \in Clients, PromoteMark(k) PROVE [AtomicNext]_storeVars
  <2>1. PICK c \in Candidates, f \in Fields :
          req[k].ids = {c} /\ PromotedRecord(c, f) \in records
    BY <1>4 DEF PromoteMark, IInv, CallOK, RequestOK
  <2>2. CASE Present(c)
    BY <1>4, <2>1, <2>2 DEF PromoteMark, MarkPromoted, AtomicNext
  <2>3. CASE ~Present(c)
    BY <1>4, <2>1, <2>3 DEF PromoteMark
  <2> QED BY <2>2, <2>3
<1>5. ASSUME NEW c \in Candidates, NEW status \in Decisions, Decide(c, status)
      PROVE  AtomicNext
  BY <1>5, ClientAssumption DEF Decide, Review, AtomicNext
<1>6. ASSUME NEW s \in Sources, Block(s) PROVE AtomicNext
  BY <1>6 DEF Block, AtomicNext
<1>7. CASE UNCHANGED vars
  BY <1>7 DEF vars, storeVars
<1> QED
  BY <1>1, <1>2, <1>3, <1>4, <1>5, <1>6, <1>7 DEF Next, ClientStep, Reads

-------------------------------------------------------------------------------
(* What a step does to its own call.                                       *)

Kept(k) ==
  /\ ClientTypeOK'
  /\ CallOK(k)'
  /\ \A j \in Clients \ {k} : UNCHANGED <<pc[j], req[j], seen[j], prior[j]>>

\* The rows read by a complete reading loop, as a token holds them.
LEMMA ReadStates ==
  ASSUME ClientTypeOK, NEW k \in Clients, req[k] \in Requests, AllRead(k)
  PROVE  /\ States(k, seen) \in Selections
         /\ Selected(States(k, seen)) = req[k].ids
         /\ \A c \in req[k].ids : States(k, seen)[c] = StateOf(seen[k][c])
         /\ TokenOf(States(k, seen), req[k].fields) \in Tokens
<1>1. req[k].ids \in SUBSET Candidates /\ req[k].fields \in Fields
  BY DEF Requests
<1>2. seen[k] \in [Candidates -> Rows \union {None}]
  BY DEF ClientTypeOK
<1> QED BY <1>1, <1>2, SelectType, TokenOfType DEF AllRead, States

\* A call starts: its request is complete, and it has read nothing that counts.
LEMMA CallKept ==
  ASSUME IInv, TablesMove, NEW k \in Clients, NEW label \in Labels,
         NEW ids \in SUBSET Candidates, NEW f \in Fields, NEW token \in Tokens \union {None},
         Call(k, label, ids, f, token),
         \/ /\ label \in {"preview", "read"}
            /\ Cardinality(ids) >= 2
         \/ /\ label = "promoted"
            /\ \E c \in Candidates : ids = {c} /\ PromotedRecord(c, f) \in records'
  PROVE  Kept(k)
<1>1. ClientTypeOK /\ CallOK(k)
  BY DEF IInv
<1> DEFINE r == [ids |-> ids, fields |-> f, token |-> token]
<1>2. r \in Requests /\ r # None
  BY ClientAssumption DEF Requests
<1>3. r.ids = ids
  OBVIOUS
<1> HIDE DEF r
<1>4. pc' = [pc EXCEPT ![k] = label] /\ req' = [req EXCEPT ![k] = r]
  BY DEF Call, r
<1>5. pc'[k] = label /\ req'[k] = r /\ UNCHANGED <<held, seen, prior>>
  BY <1>1, <1>4 DEF Call, ClientTypeOK
<1>6. ClientTypeOK'
  BY <1>1, <1>2, <1>4, <1>5 DEF ClientTypeOK
<1>7. SeenOK(k)'
  BY <1>1, <1>5, SeenStays DEF CallOK
<1>8. RequestOK(k)'
  BY <1>2, <1>3, <1>5 DEF RequestOK
<1>9. PriorOK(k)' /\ TokenOK(k)'
  BY <1>5 DEF PriorOK, TokenOK
<1>10. \A j \in Clients \ {k} : UNCHANGED <<pc[j], req[j], seen[j], prior[j]>>
  BY <1>1, <1>4, <1>5 DEF ClientTypeOK
<1> QED BY <1>6, <1>7, <1>8, <1>9, <1>10 DEF Kept, CallOK

\* One more row is read: it is the row of now, and no older than the same row read
\* by the first loop.
LEMMA ReadRowKept ==
  ASSUME IInv, NEW k \in Clients, ReadRow(k)
  PROVE  Kept(k)
<1>1. ClientTypeOK /\ CallOK(k) /\ AtomicInv /\ StoreTypeOK
  BY DEF IInv, AtomicInv, TableInv
<1>2. PICK c \in req[k].ids :
        /\ seen[k][c] = None
        /\ IF Present(c)
           THEN /\ seen' = [seen EXCEPT ![k][c] = rows[c]]
                /\ UNCHANGED <<pc, req, held, prior>>
                /\ UNCHANGED storeVars
           ELSE Refuse(k)
  BY DEF ReadRow
<1>3. CASE ~Present(c)
  BY <1>1, <1>2, <1>3, Returned DEF Refuse, Kept, ClientTypeOK
<1>4. CASE Present(c)
  <2>1. pc[k] \in {"preview", "read", "recheck"} /\ req[k] \in Requests
    BY <1>1 DEF ReadRow, CallOK, RequestOK, ClientTypeOK
  <2>2. c \in Candidates /\ rows[c] \in Rows
    BY <1>1, <1>4, <2>1 DEF Requests, StoreTypeOK, Present
  <2>3. /\ seen' = [seen EXCEPT ![k][c] = rows[c]]
        /\ UNCHANGED <<pc, req, held, prior>>
        /\ UNCHANGED <<rows, clock, deletions, records, links, events>>
    BY <1>2, <1>4 DEF storeVars
  <2>4. /\ seen'[k][c] = rows[c]
        /\ \A d \in Candidates : d # c => seen'[k][d] = seen[k][d]
        /\ \A j \in Clients \ {k} : seen'[j] = seen[j]
        /\ seen' \in [Clients -> [Candidates -> Rows \union {None}]]
    BY <1>1, <2>2, <2>3 DEF ClientTypeOK
  <2>5. ClientTypeOK'
    BY <1>1, <2>3, <2>4 DEF ClientTypeOK
  <2>6. Known(c, rows[c]) /\ (rows[c].merge # None => MarkKnown(c, rows[c].merge))
    BY <1>1, <1>4, <2>2, ReadKnown
  <2>7. SeenOK(k)'
    BY <1>1, <2>3, <2>4, <2>6 DEF CallOK, SeenOK, Known, MarkKnown, Present
  <2>8. RequestOK(k)' /\ TokenOK(k)'
    BY <1>1, <2>1, <2>3 DEF CallOK, RequestOK, TokenOK
  <2>9. PriorOK(k)'
    BY <1>1, <2>1, <2>2, <2>3, <2>4
       DEF CallOK, PriorOK, Known, Present, Mergeable, Requests
  <2> QED BY <2>3, <2>4, <2>5, <2>7, <2>8, <2>9 DEF Kept, CallOK
<1> QED BY <1>3, <1>4

LEMMA FinishPreviewKept ==
  ASSUME IInv, NEW k \in Clients, FinishPreview(k)
  PROVE  Kept(k)
<1>1. ClientTypeOK /\ CallOK(k)
  BY DEF IInv
<1>2. req[k] \in Requests
  BY <1>1 DEF FinishPreview, CallOK, RequestOK, ClientTypeOK
<1>3. held' \in Tokens
  BY <1>1, <1>2, ReadStates DEF FinishPreview
<1> QED BY <1>1, <1>3, Returned DEF FinishPreview, Kept

LEMMA ValidateKept ==
  ASSUME IInv, NEW k \in Clients, NEW allow \in BOOLEAN, Validate(k, allow)
  PROVE  Kept(k)
<1>1. ClientTypeOK /\ CallOK(k)
  BY DEF IInv
<1>2. pc[k] = "read" /\ req[k] \in Requests
  BY <1>1 DEF Validate, CallOK, RequestOK, ClientTypeOK
<1>3. req[k].ids \subseteq Candidates
  BY <1>2 DEF Requests
<1>4. /\ pc' = [pc EXCEPT ![k] = "recheck"]
      /\ prior' = [prior EXCEPT ![k] = seen[k]]
      /\ seen' = [seen EXCEPT ![k] = NoneSeen]
      /\ UNCHANGED <<req, held>>
      /\ UNCHANGED <<rows, clock, deletions, records, links, events>>
  BY DEF Validate, storeVars
<1>5. pc'[k] = "recheck" /\ prior'[k] = seen[k] /\ seen'[k] = NoneSeen
  BY <1>1, <1>4 DEF ClientTypeOK
<1>6. NoneSeen \in [Candidates -> Rows \union {None}] /\ "recheck" \in Labels
  BY DEF NoneSeen, Labels
<1>7. ClientTypeOK'
  BY <1>1, <1>4, <1>6 DEF ClientTypeOK
<1>8. SeenOK(k)'
  BY <1>5 DEF SeenOK, NoneSeen
<1>9. RequestOK(k)' /\ TokenOK(k)'
  BY <1>1, <1>2, <1>4, <1>5 DEF CallOK, RequestOK, TokenOK
<1>10. \A c \in req[k].ids : /\ seen[k][c] # None
                            /\ Mergeable(seen[k][c].review_status)
                            /\ Known(c, seen[k][c])
  BY <1>1, <1>3 DEF Validate, AllRead, CallOK, SeenOK
<1>11. PriorOK(k)'
  BY <1>3, <1>4, <1>5, <1>10 DEF PriorOK, NoneSeen, Known, Present, Mergeable
<1> QED BY <1>1, <1>4, <1>7, <1>8, <1>9, <1>11 DEF Kept, CallOK, ClientTypeOK

\* The recomputed token is a description of rows no older than prior_states.
LEMMA RecheckKept ==
  ASSUME IInv, NEW k \in Clients, NEW allow \in BOOLEAN, Recheck(k, allow)
  PROVE  Kept(k)
<1>1. ClientTypeOK /\ CallOK(k)
  BY DEF IInv
<1>2. CASE ~PreviewMatches(k, allow)
  BY <1>1, <1>2, Returned DEF Recheck, Refuse, Kept, ClientTypeOK
<1>3. CASE PreviewMatches(k, allow)
  <2> DEFINE states == States(k, seen)
             token  == TokenOf(states, req[k].fields)
  <2>1. pc[k] = "recheck" /\ req[k] \in Requests /\ AllRead(k)
    BY <1>1 DEF Recheck, CallOK, RequestOK, ClientTypeOK
  <2>2. req[k].ids \subseteq Candidates
    BY <2>1 DEF Requests
  <2>3. /\ pc' = [pc EXCEPT ![k] = "commit"]
        /\ seen' = [seen EXCEPT ![k] = NoneSeen]
        /\ UNCHANGED <<req, held, prior>>
        /\ UNCHANGED <<rows, clock, deletions, records, links, events>>
    BY <1>3 DEF Recheck, storeVars
  <2>4. pc'[k] = "commit" /\ seen'[k] = NoneSeen
    BY <1>1, <2>3 DEF ClientTypeOK
  <2>5. NoneSeen \in [Candidates -> Rows \union {None}] /\ "commit" \in Labels
    BY DEF NoneSeen, Labels
  <2>6. ClientTypeOK'
    BY <1>1, <2>3, <2>5 DEF ClientTypeOK
  <2>7. SeenOK(k)'
    BY <2>4 DEF SeenOK, NoneSeen
  <2>8. RequestOK(k)'
    BY <1>1, <2>1, <2>3, <2>4 DEF CallOK, RequestOK
  <2>9. PriorOK(k)'
    BY <1>1, <2>1, <2>3, <2>4 DEF CallOK, PriorOK, Known, Present, Mergeable
  <2>10. token = req[k].token /\ token \in Tokens /\ token # None
    BY <1>1, <1>3, <2>1, ReadStates, StoreAssumption DEF PreviewMatches
  <2>11. /\ token.states = states
         /\ token.fields = req[k].fields
         /\ token.blocked = {c \in Selected(states) : Blocked(c)}
    BY DEF TokenOf
  <2>12. /\ Selected(states) = req[k].ids
         /\ \A c \in req[k].ids : states[c] = StateOf(seen[k][c])
    BY <1>1, <2>1, ReadStates
  <2> HIDE DEF states, token
  <2>13. \A c \in req[k].ids : /\ states[c].updated_at = seen[k][c].updated_at
                              /\ states[c].review_status = seen[k][c].review_status
    <3> SUFFICES ASSUME NEW c \in req[k].ids
                 PROVE  /\ states[c].updated_at = seen[k][c].updated_at
                        /\ states[c].review_status = seen[k][c].review_status
      OBVIOUS
    <3>1. states[c] = StateOf(seen[k][c])
      BY <2>12
    <3> QED BY <3>1 DEF StateOf
  <2>14. \A c \in req[k].ids : /\ prior[k][c].updated_at <= seen[k][c].updated_at
                              /\ Known(c, seen[k][c])
    BY <1>1, <2>1, <2>2 DEF CallOK, PriorOK, SeenOK, AllRead
  <2>15. TokenOK(k)'
    BY <2>3, <2>4, <2>10, <2>11, <2>12, <2>13, <2>14
       DEF TokenOK, Known, Present, Blocked, Selected
  <2> QED BY <1>1, <2>3, <2>6, <2>7, <2>8, <2>9, <2>15 DEF Kept, CallOK, ClientTypeOK
<1> QED BY <1>2, <1>3

LEMMA ClientStepKept ==
  ASSUME IInv, TablesMove, NEW k \in Clients, ClientStep(k)
  PROVE  Kept(k)
<1>1. ClientTypeOK /\ held \in Tokens \union {None}
  BY DEF IInv, ClientTypeOK
<1>2. ASSUME NEW ids \in SUBSET Candidates, NEW f \in Fields,
             StartPreview(k, ids, f) \/ StartApply(k, ids, f)
      PROVE  Kept(k)
  BY <1>1, <1>2, CallKept DEF StartPreview, StartApply, Labels
<1>3. CASE ReadRow(k)
  BY <1>3, ReadRowKept
<1>4. CASE FinishPreview(k)
  BY <1>4, FinishPreviewKept
<1>5. ASSUME NEW allow \in BOOLEAN, Validate(k, allow) \/ Recheck(k, allow)
      PROVE  Kept(k)
  BY <1>5, ValidateKept, RecheckKept
<1>6. CASE \/ Replay(k)
           \/ \E allow \in BOOLEAN : ValidateFails(k, allow)
           \/ Commit(k)
           \/ CommitFails(k)
           \/ PromoteMark(k)
           \/ Crash(k)
  <2>1. Return(k) /\ held' = held
    BY <1>6 DEF Replay, ValidateFails, Commit, CommitFails, PromoteMark, Crash, Refuse
  <2> QED BY <1>1, <2>1, Returned DEF Kept
<1>7. ASSUME NEW c \in Candidates, NEW f \in Fields, NEW allow \in BOOLEAN,
             PromoteCreate(k, c, f, allow)
      PROVE  Kept(k)
  <2>1. Call(k, "promoted", {c}, f, None) /\ PromotedRecord(c, f) \in records'
    BY <1>7 DEF PromoteCreate, UpsertRecord
  <2> QED BY <2>1, CallKept DEF Labels
<1> QED BY <1>2, <1>3, <1>4, <1>5, <1>6, <1>7 DEF ClientStep

LEMMA IInvStep == IInv /\ [Next]_vars => IInv'
<1> SUFFICES ASSUME IInv, [Next]_vars PROVE IInv'
  OBVIOUS
<1>1. [AtomicNext]_storeVars
  BY StepRefines
<1>2. AtomicInv' /\ TablesMove
  BY <1>1, AtomicInvStep, TablesMoveStep DEF IInv
<1>3. ASSUME NEW k \in Clients, ClientStep(k)
      PROVE  IInv'
  <2>1. Kept(k)
    BY <1>2, <1>3, ClientStepKept
  <2>2. \A j \in Clients \ {k} : CallOK(j)'
    BY <1>2, <2>1, Others DEF IInv, Kept
  <2> QED BY <1>2, <2>1, <2>2 DEF IInv, Kept
<1>4. CASE clientVars' = clientVars
  <2>1. /\ ClientTypeOK'
        /\ \A j \in Clients : UNCHANGED <<pc[j], req[j], seen[j], prior[j]>>
    BY <1>4 DEF clientVars, ClientTypeOK, IInv
  <2>2. \A j \in Clients : CallOK(j)'
    BY <1>2, <2>1, Others DEF IInv
  <2> QED BY <1>2, <2>1, <2>2 DEF IInv
<1>5. \/ \E k \in Clients : ClientStep(k)
      \/ clientVars' = clientVars
  BY DEF Next, Decide, Block, vars, clientVars
<1> QED BY <1>3, <1>4, <1>5

LEMMA IInvInit == Init => IInv
<1> SUFFICES ASSUME Init PROVE IInv
  OBVIOUS
<1>1. AtomicInv
  BY AtomicInvInit DEF Init
<1>2. NoneSeen \in [Candidates -> Rows \union {None}] /\ "idle" \in Labels
  BY DEF NoneSeen, Labels
<1>3. ClientTypeOK
  BY <1>2 DEF Init, ClientTypeOK
<1>4. ASSUME NEW k \in Clients PROVE CallOK(k)
  <2>1. pc[k] = "idle" /\ seen[k] = NoneSeen
    BY DEF Init
  <2> QED BY <2>1 DEF CallOK, SeenOK, NoneSeen, RequestOK, PriorOK, TokenOK
<1> QED BY <1>1, <1>3, <1>4 DEF IInv

-------------------------------------------------------------------------------
(* The theorems.                                                           *)

\* The inductive invariant holds of every behaviour of the racing calls.
THEOREM CallInvariant == Spec => []IInv
BY IInvInit, IInvStep, PTL DEF Spec

\* Type correctness: the variables keep their types in every reachable state.
THEOREM TypeCorrect == Spec => []TypeOK
<1>1. IInv => TypeOK
  BY DEF IInv, AtomicInv, TableInv, ClientTypeOK, TypeOK
<1> QED BY <1>1, CallInvariant, PTL

\* The calls implement the compare-and-merge: an apply that reads its rows twice
\* without a lock and rechecks them under it writes only what one atomic step,
\* comparing the confirmed token with the tables of that moment, would write.
THEOREM MergeRefinement == Spec => ImplementsAtomicMerge
<1>1. Init => StoreInit
  BY DEF Init
<1> QED BY <1>1, CallInvariant, StepRefines, PTL DEF Spec, ImplementsAtomicMerge, AtomicSpec

\* An apply answered as a replay was really done before, from the same candidates
\* and under the same token.
THEOREM ReplayTruthful == Spec => []ReplayIsBacked
<1>1. IInv => ReplayIsBacked
  <2> SUFFICES ASSUME IInv, NEW k \in Clients, pc[k] = "read", AllRead(k),
                      NEW record \in RecordsMarked(k), RepeatedTarget(k, record)
               PROVE  \E e \in events : /\ e.record = record
                                        /\ e.token = req[k].token
                                        /\ req[k].ids \subseteq record.ids
    BY DEF ReplayIsBacked
  <2>1. req[k] \in Requests
    BY DEF IInv, CallOK, RequestOK, ClientTypeOK
  <2>2. req[k].ids \subseteq Candidates
    BY <2>1 DEF Requests
  <2> DEFINE mark == [target |-> record, token |-> req[k].token]
  <2>3. \A c \in req[k].ids : seen[k][c].merge = mark
    BY DEF RepeatedTarget
  <2>4. PICK d \in req[k].ids : seen[k][d].merge # None
    BY DEF RecordsMarked
  <2>5. mark # None
    BY <2>3, <2>4
  <2>6. mark.target = record /\ mark.token = req[k].token
    OBVIOUS
  <2> HIDE DEF mark
  <2>7. \A c \in req[k].ids : MarkKnown(c, mark)
    BY <2>2, <2>3, <2>5 DEF AllRead, IInv, CallOK, SeenOK
  <2>8. PICK e \in events : e.record = mark.target /\ e.token = mark.token
    BY <2>4, <2>7 DEF MarkKnown
  <2>9. req[k].ids \subseteq record.ids
    BY <2>6, <2>7 DEF MarkKnown
  <2> QED BY <2>6, <2>8, <2>9
<1> QED BY <1>1, CallInvariant, PTL

\* Through every race of calls, reviews, tombstones and crashes no mark of a merge is
\* without its event, its record and its links.
THEOREM NoOrphanedMark == Spec => []MarksAreBacked
BY CallInvariant, PTL DEF IInv, AtomicInv

\* Two merges whose selections overlap are separated by a review decision: racing
\* applies never consume one state of a candidate twice.
THEOREM NoStateUsedTwice == Spec => []StateUsedOnce
BY CallInvariant, PTL DEF IInv, AtomicInv

\* However many processes send a confirmed apply, and however often it is retried
\* after a crash, its token takes effect at most once.
THEOREM NoTokenAppliedTwice == Spec => []TokenAppliedOnce
BY CallInvariant, PTL DEF IInv, AtomicInv

\* A candidate shown as merged was made into a record, by a merge or by a promotion.
THEOREM MergedCandidatesHaveRecords == Spec => []MergedHasRecord
BY CallInvariant, PTL DEF IInv, AtomicInv

\* No review, promotion or earlier merge takes away the mark of a candidate's last
\* merge.
THEOREM MarksAreNeverUndone == Spec => []MarkIsLatest
BY CallInvariant, PTL DEF IInv, AtomicInv

-------------------------------------------------------------------------------
(* Imports beside the calls.  The invariant follows a decision that is not *)
(* exposed through the imports that delete its row: whoever is about to    *)
(* insert the row again carries the decision (Followed).                   *)

\* A call that has its arguments.
CallsHold ==
  \A k \in Clients :
    /\ pc[k] # "idle" => req[k] # None
    /\ pc[k] \in {"read", "recheck", "commit"} => req[k].token # None

ImportersOK ==
  \A i \in Importers :
    /\ step[i] # "idle" => export[i] # None
    /\ step[i] \in {"idle", "capture"} => kept[i] = NothingKept
    /\ \A c \in Candidates : kept[i][c] # None =>
         /\ ConversationOf[c] \in Covers[export[i]]
         /\ kept[i][c].review_status # "pending"

\* Who stored a conversation covers it, and a candidate is one of its import.
SourcesOK ==
  /\ \A v \in Conversations : owner[v] # None => v \in Covers[owner[v]]
  /\ \A c \in Candidates : Present(c) =>
       /\ ChunkStored(c)
       /\ origin[c] \in imports
       /\ c \in Extracts[origin[c]]

\* The last decision on c was not made where an import may lose it.
Safe(c) == decided[c] # None /\ c \notin exposed

\* What every importer knows of a safe decision, and where it is.
Followed(c) ==
  /\ \A i \in Importers :
       /\ kept[i][c] # None => kept[i][c] = decided[c]
       /\ step[i] = "replace" /\ ConversationOf[c] \in Covers[export[i]] => kept[i][c] # None
       /\ step[i] = "extract" /\ c \in Extracts[export[i]] => kept[i][c] # None
  /\ ~ Present(c) => \E i \in Importers : step[i] = "extract" /\ c \in Extracts[export[i]]
  /\ Present(c) => \/ Verdict(rows[c]) = decided[c]
                   \/ \E i \in Importers : c \in Carrying(i)
  /\ Present(c) /\ rows[c].merge # None => rows[c].merge = decided[c].merge

DecisionsOK ==
  \A c \in Candidates :
    /\ decided[c] # None => decided[c].review_status # "pending"
    /\ Safe(c) => Followed(c)

ImportInv ==
  /\ ImportTypeOK
  /\ CallsHold
  /\ ImportersOK
  /\ SourcesOK
  /\ DecisionsOK

-------------------------------------------------------------------------------
(* What a step of the calls does to the tables and to the calls.           *)

\* Rows are decided, never deleted or inserted.
RowsDecided ==
  \A c \in Candidates :
    \/ rows'[c] = rows[c]
    \/ /\ rows[c] # None
       /\ rows'[c] # None
       /\ rows'[c].review_status \in {"approved", "rejected", "merged"}

LEMMA MergeTxTypes ==
  ASSUME StoreTypeOK, NEW token \in Tokens, NEW before \in Selections, MergeTx(token, before),
         \A c \in Selected(before) : Present(c)
  PROVE  StoreTypeOK' /\ RowsDecided
<1> DEFINE ids    == Selected(before)
           record == MergeRecord(ids, token.fields)
           mark   == [target |-> record, token |-> token]
           row(c) == [review_status |-> "merged", updated_at |-> clock[c] + 1, merge |-> mark]
           event  == [record |-> record, token |-> token, before |-> before, applied_at |-> clock']
<1>1. ids \subseteq Candidates /\ record \in RecordIds /\ record.ids = ids
  BY DEF Selected, MergeRecord, RecordIds, Tokens
<1>2. /\ clock' = [c \in Candidates |-> IF c \in ids THEN clock[c] + 1 ELSE clock[c]]
      /\ rows' = [c \in Candidates |-> IF c \in ids THEN row(c) ELSE rows[c]]
      /\ records' = records \union {record}
      /\ links' = links \union LinksOf(record)
      /\ events' = events \union {event}
      /\ deletions' = deletions
  BY DEF MergeTx
<1> HIDE DEF ids, record
<1>3. clock' \in [Candidates -> Nat] BY <1>2 DEF StoreTypeOK
<1>4. event \in Events BY <1>1, <1>3 DEF Events
<1>5. mark \in Marks BY <1>1 DEF Marks
<1> HIDE DEF mark, event
<1>6. \A c \in Candidates : /\ row(c) \in Rows /\ row(c) # None
                            /\ row(c).review_status = "merged"
  BY <1>5, StoreAssumption DEF Rows, Statuses, StoreTypeOK
<1> HIDE DEF row
<1>7. rows' \in [Candidates -> Rows \union {None}] BY <1>2, <1>6 DEF StoreTypeOK
<1>8. LinksOf(record) \subseteq RecordIds \X (Candidates \union Sources)
  BY <1>1, StoreAssumption DEF LinksOf
<1>9. RowsDecided BY <1>2, <1>6 DEF RowsDecided, ids, Present
<1> QED BY <1>1, <1>2, <1>3, <1>4, <1>7, <1>8, <1>9 DEF StoreTypeOK

LEMMA DecidedByReview ==
  ASSUME StoreTypeOK, NEW c \in Candidates, NEW status \in {"approved", "rejected", "merged"},
         SetReviewStatus(c, status)
  PROVE  StoreTypeOK' /\ RowsDecided
BY ReviewStep DEF RowsDecided, Statuses

LEMMA TablesTyped ==
  ASSUME TypeOK, CallsHold, [Next]_vars
  PROVE  StoreTypeOK' /\ RowsDecided
<1>0. StoreTypeOK BY DEF TypeOK
<1>1. ASSUME NEW k \in Clients, Commit(k) PROVE StoreTypeOK' /\ RowsDecided
  <2>1. req[k] \in Requests /\ req[k].token # None
    BY <1>1 DEF Commit, CallsHold, TypeOK
  <2>2. req[k].ids \in SUBSET Candidates /\ req[k].token \in Tokens BY <2>1 DEF Requests
  <2>3. \A c \in req[k].ids : Present(c) /\ StateOf(rows[c]) = StateOf(prior[k][c])
    BY <1>1 DEF Commit, StillCurrent
  <2>4. States(k, prior) = Select(req[k].ids, rows) BY <2>3 DEF States, Select
  <2>5. /\ States(k, prior) \in Selections
        /\ Selected(States(k, prior)) = req[k].ids
    BY <1>0, <2>2, <2>3, <2>4, SelectType DEF StoreTypeOK, Present
  <2> QED BY <1>0, <1>1, <2>2, <2>3, <2>5, MergeTxTypes DEF Commit
<1>2. ASSUME NEW k \in Clients, PromoteMark(k) PROVE StoreTypeOK' /\ RowsDecided
  <2>1. req[k] \in Requests BY <1>2 DEF PromoteMark, CallsHold, TypeOK
  <2>2. PICK c \in req[k].ids : IF Present(c) THEN SetReviewStatus(c, "merged") ELSE UNCHANGED storeVars
    BY <1>2 DEF PromoteMark
  <2>3. c \in Candidates BY <2>1 DEF Requests
  <2>4. CASE UNCHANGED storeVars BY <1>0, <2>4, OtherStep DEF RowsDecided
  <2>5. CASE SetReviewStatus(c, "merged") BY <1>0, <2>3, <2>5, DecidedByReview
  <2> QED BY <2>2, <2>4, <2>5
<1>3. ASSUME NEW c \in Candidates, NEW status \in Decisions, Decide(c, status)
      PROVE  StoreTypeOK' /\ RowsDecided
  BY <1>0, <1>3, DecidedByReview, ClientAssumption DEF Decide
<1>4. ASSUME \/ UNCHANGED storeVars
             \/ \E k \in Clients, c \in Candidates, f \in Fields, allow \in BOOLEAN : PromoteCreate(k, c, f, allow)
             \/ \E s \in Sources : Block(s)
      PROVE  StoreTypeOK' /\ RowsDecided
  BY <1>0, <1>4, OtherStep DEF RowsDecided, PromoteCreate, Promote, Block
<1>5. ASSUME NEW k \in Clients, Reads(k) PROVE UNCHANGED storeVars BY <1>5, ReadsWriteNothing
<1>6. UNCHANGED vars => UNCHANGED storeVars BY DEF vars, storeVars
<1> QED BY <1>1, <1>2, <1>3, <1>4, <1>5, <1>6 DEF Next, ClientStep, Reads

LEMMA ReturnTyped ==
  ASSUME ClientTypeOK, CallsHold, NEW k \in Clients, Return(k), held' \in Tokens \union {None}
  PROVE  ClientTypeOK' /\ CallsHold'
<1>1. pc'[k] = "idle" BY DEF Return, ClientTypeOK
<1> QED BY <1>1, Returned DEF CallsHold

LEMMA CallTyped ==
  ASSUME ClientTypeOK, CallsHold, NEW k \in Clients, NEW label \in {"preview", "read", "promoted"},
         NEW ids \in SUBSET Candidates, NEW f \in Fields, NEW token \in Tokens \union {None},
         Call(k, label, ids, f, token), label = "read" => token # None
  PROVE  ClientTypeOK' /\ CallsHold'
<1> DEFINE r == [ids |-> ids, fields |-> f, token |-> token]
<1>1. r \in Requests /\ r # None /\ r.token = token BY ClientAssumption DEF Requests
<1> HIDE DEF r
<1>2. pc' = [pc EXCEPT ![k] = label] /\ req' = [req EXCEPT ![k] = r] /\ UNCHANGED <<held, seen, prior>>
  BY DEF Call, r
<1>3. ClientTypeOK' BY <1>1, <1>2 DEF ClientTypeOK, Labels
<1> QED BY <1>1, <1>2, <1>3 DEF CallsHold, ClientTypeOK

LEMMA CallsTyped ==
  ASSUME TypeOK, CallsHold, [Next]_vars
  PROVE  ClientTypeOK' /\ CallsHold'
<1>0. ClientTypeOK /\ StoreTypeOK BY DEF TypeOK, ClientTypeOK
<1>a. NoneSeen \in [Candidates -> Rows \union {None}] BY DEF NoneSeen
<1>1. ASSUME NEW k \in Clients, Return(k), held' = held PROVE ClientTypeOK' /\ CallsHold'
  BY <1>0, <1>1, ReturnTyped DEF ClientTypeOK
<1>2. ASSUME NEW k \in Clients, NEW ids \in SUBSET Candidates, NEW f \in Fields,
             StartPreview(k, ids, f) \/ StartApply(k, ids, f)
      PROVE  ClientTypeOK' /\ CallsHold'
  BY <1>0, <1>2, CallTyped DEF StartPreview, StartApply, ClientTypeOK
<1>3. ASSUME NEW k \in Clients, ReadRow(k) PROVE ClientTypeOK' /\ CallsHold'
  <2>1. req[k] \in Requests BY <1>3 DEF ReadRow, CallsHold, TypeOK
  <2>2. CASE Refuse(k) BY <1>1, <2>2 DEF Refuse
  <2>3. CASE ~ Refuse(k)
    <3>1. PICK c \in req[k].ids : /\ Present(c)
                                  /\ seen' = [seen EXCEPT ![k][c] = rows[c]]
                                  /\ UNCHANGED <<pc, req, held, prior>>
      BY <1>3, <2>3 DEF ReadRow
    <3>2. c \in Candidates BY <2>1 DEF Requests
    <3>3. rows[c] \in Rows \union {None} BY <1>0, <3>2 DEF StoreTypeOK
    <3>4. seen' \in [Clients -> [Candidates -> Rows \union {None}]] BY <1>0, <3>1, <3>3 DEF ClientTypeOK
    <3> QED BY <1>0, <3>1, <3>4 DEF ClientTypeOK, CallsHold
  <2> QED BY <2>2, <2>3
<1>4. ASSUME NEW k \in Clients, FinishPreview(k) PROVE ClientTypeOK' /\ CallsHold'
  <2>1. req[k] \in Requests BY <1>4 DEF FinishPreview, CallsHold, TypeOK
  <2>2. held' \in Tokens BY <1>0, <1>4, <2>1, ReadStates DEF FinishPreview
  <2> QED BY <1>0, <1>4, <2>2, ReturnTyped DEF FinishPreview
<1>5. ASSUME NEW k \in Clients, NEW allow \in BOOLEAN, Validate(k, allow) PROVE ClientTypeOK' /\ CallsHold'
  BY <1>0, <1>5, <1>a DEF Validate, ClientTypeOK, CallsHold, Labels
<1>6. ASSUME NEW k \in Clients, NEW allow \in BOOLEAN, Recheck(k, allow) PROVE ClientTypeOK' /\ CallsHold'
  <2>1. CASE PreviewMatches(k, allow)
    BY <1>0, <1>6, <1>a, <2>1 DEF Recheck, ClientTypeOK, CallsHold, Labels
  <2>2. CASE ~ PreviewMatches(k, allow) BY <1>1, <1>6, <2>2 DEF Recheck, Refuse
  <2> QED BY <2>1, <2>2
<1>7. ASSUME NEW k \in Clients,
             \/ Replay(k)
             \/ \E allow \in BOOLEAN : ValidateFails(k, allow)
             \/ Commit(k) \/ CommitFails(k) \/ PromoteMark(k) \/ Crash(k)
      PROVE  ClientTypeOK' /\ CallsHold'
  BY <1>1, <1>7 DEF Replay, ValidateFails, Commit, CommitFails, PromoteMark, Crash, Refuse
<1>8. ASSUME NEW k \in Clients, NEW c \in Candidates, NEW f \in Fields, NEW allow \in BOOLEAN,
             PromoteCreate(k, c, f, allow)
      PROVE  ClientTypeOK' /\ CallsHold'
  BY <1>0, <1>8, CallTyped DEF PromoteCreate
<1>9. CASE UNCHANGED clientVars BY <1>0, <1>9 DEF clientVars, ClientTypeOK, CallsHold
<1>10. UNCHANGED vars => UNCHANGED clientVars BY DEF vars, clientVars
<1> QED
  BY <1>2, <1>3, <1>4, <1>5, <1>6, <1>7, <1>8, <1>9, <1>10 DEF Next, ClientStep, Decide, Block

-------------------------------------------------------------------------------
(* Types.                                                                  *)

LEMMA ExportKnown ==
  ASSUME ImportInv, NEW i \in Importers, step[i] # "idle"
  PROVE  export[i] \in Exports
BY DEF ImportInv, ImportTypeOK, ImportersOK

LEMMA VerdictType ==
  ASSUME NEW row \in Rows
  PROVE  /\ Verdict(row) \in Verdicts /\ Verdict(row) # None
         /\ Verdict(row).review_status = row.review_status
         /\ Verdict(row).merge = row.merge
BY ImportAssumption DEF Rows, Verdict, Verdicts

LEMMA RestoredType ==
  ASSUME NEW row \in Rows, NEW verdict \in Verdicts
  PROVE  /\ Restored(row, verdict) \in Rows /\ Restored(row, verdict) # None
         /\ Restored(row, verdict).review_status = verdict.review_status
         /\ Restored(row, verdict).merge = IF verdict.merge # None THEN verdict.merge ELSE row.merge
BY StoreAssumption DEF Rows, Restored, Verdicts

\* The variables an import writes.
ImporterTypeOK ==
  /\ rows \in [Candidates -> Rows \union {None}]
  /\ clock \in [Candidates -> Nat]
  /\ imports \subseteq Exports
  /\ owner \in [Conversations -> Exports \union {None}]
  /\ origin \in [Candidates -> Exports \union {None}]
  /\ assigned \subseteq Conversations
  /\ step \in [Importers -> Steps]
  /\ export \in [Importers -> Exports \union {None}]
  /\ unchanged \in [Importers -> SUBSET Conversations]
  /\ kept \in [Importers -> [Candidates -> Verdicts \union {None}]]
  /\ exposed \subseteq Candidates

LEMMA ImporterTypes ==
  ASSUME ImportInv, NEW i \in Importers, ImporterStep(i)
  PROVE  ImporterTypeOK'
<1> USE DEF ImportInv, ImportTypeOK, ImporterTypeOK, TypeOK, StoreTypeOK, Steps, storeVars, history
<1>1. ASSUME NEW x \in Exports, Summarize(i, x) PROVE ImporterTypeOK'
  <2>1. unchanged' \in [Importers -> SUBSET Conversations] BY <1>1, ImportAssumption DEF Summarize
  <2> QED BY <1>1, <2>1 DEF Summarize
<1>2. CASE Capture(i)
  <2>1. \A c \in Candidates : Present(c) => Verdict(rows[c]) \in Verdicts BY VerdictType DEF Present
  <2>2. Captured(export[i]) \in [Candidates -> Verdicts \union {None}] BY <2>1 DEF Captured
  <2>3. kept' \in [Importers -> [Candidates -> Verdicts \union {None}]] BY <1>2, <2>2 DEF Capture
  <2>4. exposed' \subseteq Candidates BY <1>2 DEF Capture, Carrying
  <2> QED BY <1>2, <2>3, <2>4 DEF Capture
<1>3. CASE ReplaceImport(i)
  <2>1. export[i] \in Exports BY <1>3, ExportKnown DEF ReplaceImport
  <2> QED BY <1>3, <2>1 DEF ReplaceImport
<1>4. CASE ReplaceCandidates(i)
  <2> DEFINE x == export[i]
  <2>1. x \in Exports BY <1>4, ExportKnown DEF ReplaceCandidates
  <2>2. \A c \in Candidates :
          [review_status |-> "pending", updated_at |-> clock[c] + 1, merge |-> None] \in Rows
    BY DEF Rows, Statuses
  <2> QED BY <1>4, <2>1, <2>2 DEF ReplaceCandidates
<1>5. NothingKept \in [Candidates -> Verdicts \union {None}] BY DEF NothingKept
<1>6. CASE Restore(i)
  <2>1. \A c \in Candidates : Present(c) /\ kept[i][c] # None => Restored(rows[c], kept[i][c]) \in Rows
    BY RestoredType DEF Present
  <2>2. rows' \in [Candidates -> Rows \union {None}] BY <1>6, <2>1 DEF Restore
  <2> QED BY <1>5, <1>6, <2>2 DEF Restore, Idle
<1>7. CASE Abandon(i)
  <2>1. exposed' \subseteq Candidates BY <1>7 DEF Abandon, Carrying
  <2> QED BY <1>5, <1>7, <2>1 DEF Abandon, Idle
<1> QED BY <1>1, <1>2, <1>3, <1>4, <1>6, <1>7 DEF ImporterStep

LEMMA TypesOfImporter ==
  ASSUME ImportInv, NEW i \in Importers, ImporterStep(i), UNCHANGED clientVars
  PROVE  ImportTypeOK' /\ CallsHold'
<1>1. UNCHANGED <<deletions, records, links, events, decided>>
  BY DEF ImporterStep, Summarize, Capture, ReplaceImport, ReplaceCandidates, Restore, Abandon, storeVars,
         history
<1> QED
  BY <1>1, ImporterTypes DEF ImporterTypeOK, ImportInv, ImportTypeOK, TypeOK, StoreTypeOK, CallsHold, clientVars

LEMMA TypesOfCalls ==
  ASSUME ImportInv, CallStep
  PROVE  ImportTypeOK' /\ CallsHold'
<1>1. StoreTypeOK' /\ RowsDecided /\ ClientTypeOK' /\ CallsHold'
  BY TablesTyped, CallsTyped DEF ImportInv, ImportTypeOK, CallStep
<1>2. TypeOK' BY <1>1 DEF TypeOK, ClientTypeOK
<1>3. \A c \in Candidates : rows'[c] # rows[c] => Verdict(rows'[c]) \in Verdicts
  BY <1>1, VerdictType DEF RowsDecided, StoreTypeOK
<1>4. decided' \in [Candidates -> Verdicts \union {None}] /\ exposed' \subseteq Candidates
  BY <1>3 DEF CallStep, ImportInv, ImportTypeOK
<1> QED BY <1>1, <1>2, <1>4 DEF CallStep, importVars, ImportInv, ImportTypeOK

-------------------------------------------------------------------------------
(* Importers and sources.                                                  *)

LEMMA ImportersOfImporter ==
  ASSUME ImportInv, NEW i \in Importers, ImporterStep(i)
  PROVE  ImportersOK'
<1> USE DEF ImportInv, ImportTypeOK, ImportersOK
<1>1. ASSUME NEW x \in Exports, Summarize(i, x) PROVE ImportersOK'
  BY <1>1, ImportAssumption DEF Summarize, NothingKept
<1>2. CASE Capture(i)
  <2> DEFINE x == export[i]
  <2>1. x \in Exports /\ kept' = [kept EXCEPT ![i] = Captured(x)] BY <1>2, ExportKnown DEF Capture
  <2>2. \A c \in Candidates : Captured(x)[c] # None =>
          /\ ConversationOf[c] \in Covers[x]
          /\ Captured(x)[c].review_status # "pending"
    <3> SUFFICES ASSUME NEW c \in Candidates, Captured(x)[c] # None
                 PROVE  ConversationOf[c] \in Covers[x] /\ Captured(x)[c].review_status # "pending"
      OBVIOUS
    <3>1. /\ Present(c) /\ rows[c].review_status # "pending" /\ Captured(x)[c] = Verdict(rows[c])
          /\ origin[c] = x \/ ConversationOf[c] \in Covers[x]
      BY DEF Captured
    <3>2. c \in Extracts[x] \/ ConversationOf[c] \in Covers[x] BY <3>1 DEF SourcesOK
    <3> QED BY <2>1, <3>1, <3>2, ImportAssumption DEF Verdict
  <2> HIDE DEF x
  <2>3. step' = [step EXCEPT ![i] = "replace"] /\ export' = export BY <1>2 DEF Capture
  <2>4. x = export[i] /\ x # None BY <2>1, ImportAssumption DEF x
  <2> QED BY <2>1, <2>2, <2>3, <2>4
<1>3. CASE ReplaceImport(i) \/ ReplaceCandidates(i)
  BY <1>3 DEF ReplaceImport, ReplaceCandidates
<1>4. CASE Restore(i) \/ Abandon(i)
  BY <1>4 DEF Restore, Abandon, Idle, NothingKept
<1> QED BY <1>1, <1>2, <1>3, <1>4 DEF ImporterStep

LEMMA SourcesOfImporter ==
  ASSUME ImportInv, NEW i \in Importers, ImporterStep(i)
  PROVE  SourcesOK'
<1> USE ImportAssumption DEF ImportInv, ImportTypeOK, SourcesOK, ChunkStored, Present, TypeOK, StoreTypeOK
<1>1. CASE \E x \in Exports : Summarize(i, x) BY <1>1 DEF Summarize, storeVars
<1>2. CASE Capture(i) \/ Abandon(i) BY <1>2 DEF Capture, Abandon, storeVars
<1>3. CASE Restore(i)
  <2>1. \A c \in Candidates : rows'[c] # None => rows[c] # None BY <1>3 DEF Restore
  <2> QED BY <1>3, <2>1 DEF Restore
<1>4. CASE ReplaceImport(i)
  <2> DEFINE x == export[i]
  <2>1. x \in Exports BY <1>4, ExportKnown DEF ReplaceImport
  <2>2. \A c \in Candidates : rows'[c] # None =>
          /\ rows[c] # None /\ origin'[c] = origin[c]
          /\ origin[c] # x
          /\ ConversationOf[c] \notin Replaced(x)
    BY <1>4 DEF ReplaceImport
  <2>3. \A v \in Conversations : v \notin Replaced(x) => owner'[v] = owner[v]
    BY <1>4 DEF ReplaceImport, Replaced
  <2>4. \A v \in Conversations : owner'[v] # None => v \in Covers[owner'[v]]
    BY <1>4, <2>1 DEF ReplaceImport
  <2>5. imports \subseteq imports' BY <1>4 DEF ReplaceImport
  <2> QED BY <2>2, <2>3, <2>4, <2>5
<1>5. CASE ReplaceCandidates(i)
  <2> DEFINE x == export[i]
  <2>1. x \in Exports /\ x \in imports /\ \A c \in Extracts[x] : ChunkStored(c)
    BY <1>5, ExportKnown DEF ReplaceCandidates, CanInsert
  <2>2. \A c \in Candidates : rows'[c] # None =>
          \/ c \in Extracts[x] /\ origin'[c] = x
          \/ rows[c] # None /\ origin'[c] = origin[c]
    BY <1>5 DEF ReplaceCandidates
  <2>3. owner' = owner /\ imports' = imports BY <1>5 DEF ReplaceCandidates
  <2> QED BY <2>1, <2>2, <2>3
<1> QED BY <1>1, <1>2, <1>3, <1>4, <1>5 DEF ImporterStep

LEMMA OthersOfCalls ==
  ASSUME ImportInv, CallStep
  PROVE  ImportersOK' /\ SourcesOK'
<1>1. RowsDecided BY TablesTyped DEF ImportInv, ImportTypeOK, CallStep
<1> QED
  BY <1>1 DEF RowsDecided, CallStep, importVars, ImportInv, ImportersOK, SourcesOK, ChunkStored, Present

-------------------------------------------------------------------------------
(* Decisions.                                                              *)

\* A decision outside every window is one that no import carries a version of.
LEMMA DecisionsOfCalls ==
  ASSUME ImportInv, CallStep
  PROVE  DecisionsOK'
<1> USE DEF ImportInv, ImportTypeOK
<1>1. RowsDecided BY TablesTyped DEF CallStep
<1>2. UNCHANGED <<owner, origin, step, export, kept>> BY DEF CallStep, importVars
<1>3. ASSUME NEW c \in Candidates, rows'[c] = rows[c]
      PROVE  decided'[c] = decided[c] /\ (c \in exposed' <=> c \in exposed)
  BY <1>3 DEF CallStep
<1>4. ASSUME NEW c \in Candidates, rows'[c] # rows[c]
      PROVE  /\ rows'[c] # None
             /\ decided'[c] = Verdict(rows'[c])
             /\ decided'[c].review_status # "pending"
             /\ decided'[c].merge = rows'[c].merge
             /\ c \notin exposed' => ~ InWindow(c)
  BY <1>1, <1>4 DEF RowsDecided, CallStep, Verdict
<1>5. ASSUME NEW c \in Candidates, rows'[c] # rows[c], ~ InWindow(c) PROVE Followed(c)'
  <2>1. \A i \in Importers :
          /\ step[i] = "replace" => ConversationOf[c] \notin Covers[export[i]]
          /\ step[i] = "extract" => c \notin Extracts[export[i]]
          /\ step[i] \in {"extract", "restore"} => kept[i][c] = None
    BY <1>5, ImportAssumption DEF InWindow, Replaced
  <2>2. \A i \in Importers : kept[i][c] = None
    BY <2>1 DEF ImportersOK, Steps, NothingKept
  <2> QED BY <1>2, <1>4, <1>5, <2>1, <2>2 DEF Followed, Present
<1>6. ASSUME NEW c \in Candidates, rows'[c] = rows[c], Safe(c)' PROVE Followed(c)'
  BY <1>2, <1>3, <1>6 DEF DecisionsOK, Safe, Followed, Present, Carrying
<1> QED BY <1>3, <1>4, <1>5, <1>6 DEF DecisionsOK, Safe

\* A capture that finds a safe decision takes it along.
LEMMA DecisionsOfCapture ==
  ASSUME ImportInv, NEW i \in Importers, Capture(i)
  PROVE  DecisionsOK'
<1> USE DEF ImportInv, ImportTypeOK
<1> DEFINE x == export[i]
<1>1. x \in Exports /\ step[i] = "capture" BY ExportKnown DEF Capture
<1>2. /\ step' = [step EXCEPT ![i] = "replace"]
      /\ kept' = [kept EXCEPT ![i] = Captured(x)]
      /\ exposed' = exposed \union UNION {Carrying(j) : j \in Importers}
      /\ UNCHANGED <<export, decided, rows>>
  BY DEF Capture, storeVars
<1>3. ASSUME NEW c \in Candidates, Safe(c)' PROVE Followed(c)'
  <2>1. Safe(c) /\ \A j \in Importers : c \notin Carrying(j) BY <1>2, <1>3 DEF Safe
  <2>2. Followed(c) /\ decided[c].review_status # "pending" BY <2>1 DEF DecisionsOK, Safe
  <2>3. Present(c) BY <2>1, <2>2 DEF Followed, Carrying
  <2>4. Verdict(rows[c]) = decided[c] /\ rows[c].review_status # "pending"
    BY <2>1, <2>2, <2>3 DEF Followed, Verdict
  <2>5. /\ Captured(x)[c] # None => Captured(x)[c] = decided[c]
        /\ ConversationOf[c] \in Covers[x] => Captured(x)[c] # None
    BY <2>1, <2>3, <2>4 DEF Captured, Safe
  <2>6. /\ step'[i] = "replace" /\ kept'[i] = Captured(x) /\ export'[i] = x
        /\ \A j \in Importers \ {i} : UNCHANGED <<step[j], kept[j], export[j]>>
    BY <1>2
  <2> HIDE DEF x
  <2> QED BY <1>2, <2>2, <2>3, <2>4, <2>5, <2>6 DEF Followed, Present, Carrying
<1> QED BY <1>2, <1>3 DEF DecisionsOK, Safe

\* What a replacement deletes and will insert again it carries.
LEMMA DecisionsOfReplace ==
  ASSUME ImportInv, NEW i \in Importers, ReplaceImport(i)
  PROVE  DecisionsOK'
<1> USE DEF ImportInv, ImportTypeOK
<1> DEFINE x    == export[i]
           gone == {c \in Candidates : Present(c) /\ (origin[c] = x \/ ConversationOf[c] \in Replaced(x))}
<1>1. x \in Exports /\ step[i] = "replace" BY ExportKnown DEF ReplaceImport
<1>2. /\ step' = [step EXCEPT ![i] = "extract"]
      /\ rows' = [c \in Candidates |-> IF c \in gone THEN None ELSE rows[c]]
      /\ exposed' = exposed \union (gone \ Extracts[x])
      /\ UNCHANGED <<export, kept, decided>>
  BY DEF ReplaceImport
<1>3. \A c \in gone : ConversationOf[c] \in Covers[x]
  BY <1>1, ImportAssumption DEF SourcesOK, Replaced
<1>4. ASSUME NEW c \in Candidates, Safe(c)' PROVE Followed(c)'
  <2>1. Safe(c) /\ Followed(c) /\ c \notin gone \ Extracts[x] BY <1>2, <1>4 DEF Safe, DecisionsOK
  <2>2. c \in Extracts[x] => ConversationOf[c] \in Covers[x] BY <1>1, ImportAssumption
  <2>3. c \in Extracts[x] => kept[i][c] # None BY <1>1, <2>1, <2>2 DEF Followed
  <2>4. /\ rows'[c] = IF c \in gone THEN None ELSE rows[c]
        /\ step'[i] = "extract" /\ \A j \in Importers \ {i} : step'[j] = step[j]
    BY <1>2
  <2>5. c \notin gone => rows'[c] = rows[c] BY <2>4
  <2>6. c \in gone => rows'[c] = None /\ c \in Extracts[x] BY <2>1, <2>4
  <2> HIDE DEF gone, x
  <2>7. x = export[i] BY DEF x
  <2> QED BY <1>1, <1>2, <2>1, <2>3, <2>4, <2>5, <2>6, <2>7 DEF Followed, Present, Carrying
<1> QED BY <1>2, <1>4 DEF DecisionsOK, Safe

\* What is inserted again as pending is carried by whoever inserts it.
LEMMA DecisionsOfExtract ==
  ASSUME ImportInv, NEW i \in Importers, ReplaceCandidates(i)
  PROVE  DecisionsOK'
<1> USE DEF ImportInv, ImportTypeOK
<1> DEFINE x == export[i]
<1>1. x \in Exports /\ step[i] = "extract" BY ExportKnown DEF ReplaceCandidates
<1>2. /\ step' = [step EXCEPT ![i] = "restore"]
      /\ UNCHANGED <<export, kept, decided, exposed>>
  BY DEF ReplaceCandidates, history
<1>3. ASSUME NEW c \in Candidates
      PROVE  /\ c \in Extracts[x] => rows'[c] # None /\ rows'[c].merge = None
             /\ c \notin Extracts[x] => rows'[c] = rows[c]
  <2>1. [review_status |-> "pending", updated_at |-> clock[c] + 1, merge |-> None] # None
    <3>1. clock[c] + 1 \in Nat BY DEF TypeOK, StoreTypeOK
    <3> QED BY <3>1, StoreAssumption DEF Rows, Statuses
  <2>2. CASE c \in Extracts[x] BY <2>1, <2>2 DEF ReplaceCandidates
  <2>3. CASE c \notin Extracts[x]
    <3>1. Present(c) => origin[c] # x BY <2>3 DEF SourcesOK
    <3>2. rows'[c] = IF origin[c] = x THEN None ELSE rows[c] BY <2>3 DEF ReplaceCandidates
    <3> QED BY <2>3, <3>1, <3>2 DEF Present
  <2> QED BY <2>2, <2>3
<1>4. ASSUME NEW c \in Candidates, Safe(c)' PROVE Followed(c)'
  <2>1. Followed(c) BY <1>2, <1>4 DEF Safe, DecisionsOK
  <2>2. c \in Extracts[x] => kept[i][c] # None BY <1>1, <2>1 DEF Followed
  <2>3. step'[i] = "restore" /\ \A j \in Importers \ {i} : step'[j] = step[j] BY <1>2
  <2> HIDE DEF x
  <2>4. x = export[i] BY DEF x
  <2>5. CASE c \in Extracts[x] BY <1>1, <1>2, <1>3, <2>1, <2>2, <2>3, <2>5 DEF Followed, Present, Carrying
  <2>6. CASE c \notin Extracts[x]
    BY <1>1, <1>2, <1>3, <2>1, <2>3, <2>4, <2>6 DEF Followed, Present, Carrying
  <2> QED BY <2>5, <2>6
<1> QED BY <1>2, <1>4 DEF DecisionsOK, Safe

LEMMA DecisionsOfRestore ==
  ASSUME ImportInv, NEW i \in Importers, Restore(i)
  PROVE  DecisionsOK'
<1> USE DEF ImportInv, ImportTypeOK
<1>1. /\ step[i] = "restore"
      /\ step' = [step EXCEPT ![i] = "idle"] /\ export' = [export EXCEPT ![i] = None]
      /\ kept' = [kept EXCEPT ![i] = NothingKept]
      /\ UNCHANGED <<decided, exposed>>
  BY DEF Restore, Idle, history
<1>2. ASSUME NEW c \in Candidates, Safe(c)' PROVE Followed(c)'
  <2>1. Followed(c) BY <1>1, <1>2 DEF Safe, DecisionsOK
  <2>2. /\ step'[i] = "idle" /\ kept'[i][c] = None
        /\ \A j \in Importers \ {i} : UNCHANGED <<step[j], export[j], kept[j]>>
    BY <1>1 DEF NothingKept
  <2>3. CASE Present(c) /\ kept[i][c] # None
    <3>1. rows'[c] = Restored(rows[c], kept[i][c]) BY <2>3 DEF Restore
    <3>2. rows[c] \in Rows /\ kept[i][c] \in Verdicts /\ kept[i][c] = decided[c]
      BY <2>1, <2>3 DEF Present, TypeOK, StoreTypeOK, Followed
    <3>3. /\ rows'[c] # None
          /\ rows'[c].review_status = decided[c].review_status
          /\ rows'[c].merge = decided[c].merge
      BY <2>1, <2>3, <3>1, <3>2, RestoredType DEF Followed
    <3>4. Verdict(rows'[c]) = decided[c] BY <3>2, <3>3 DEF Verdict, Verdicts
    <3> QED BY <1>1, <2>1, <2>2, <3>3, <3>4 DEF Followed, Present, Carrying
  <2>4. CASE ~ (Present(c) /\ kept[i][c] # None)
    <3>1. rows'[c] = rows[c] BY <2>4 DEF Restore
    <3>2. Present(c) => c \notin Carrying(i) BY <2>4 DEF Carrying
    <3> QED BY <1>1, <2>1, <2>2, <3>1, <3>2 DEF Followed, Present, Carrying
  <2> QED BY <2>3, <2>4
<1> QED BY <1>1, <1>2 DEF DecisionsOK, Safe

LEMMA DecisionsOfAbandon ==
  ASSUME ImportInv, NEW i \in Importers, Abandon(i)
  PROVE  DecisionsOK'
<1> USE DEF ImportInv, ImportTypeOK
<1>1. /\ step' = [step EXCEPT ![i] = "idle"] /\ export' = [export EXCEPT ![i] = None]
      /\ kept' = [kept EXCEPT ![i] = NothingKept]
      /\ exposed' = exposed \union Carrying(i)
      /\ UNCHANGED <<decided, rows>>
  BY DEF Abandon, Idle, storeVars
<1>2. ASSUME NEW c \in Candidates, Safe(c)' PROVE Followed(c)'
  <2>1. Followed(c) /\ c \notin Carrying(i) BY <1>1, <1>2 DEF Safe, DecisionsOK
  <2>2. /\ step'[i] = "idle" /\ kept'[i][c] = None
        /\ \A j \in Importers \ {i} : UNCHANGED <<step[j], export[j], kept[j]>>
    BY <1>1 DEF NothingKept
  <2>3. step[i] = "extract" => c \notin Extracts[export[i]] BY <2>1 DEF Followed, Carrying
  <2> QED BY <1>1, <2>1, <2>2, <2>3 DEF Followed, Present, Carrying
<1> QED BY <1>1, <1>2 DEF DecisionsOK, Safe

LEMMA DecisionsElse ==
  ASSUME ImportInv, UNCHANGED <<rows, kept, decided, exposed>>,
         \/ UNCHANGED <<step, export>>
         \/ \E i \in Importers, x \in Exports : Summarize(i, x)
  PROVE  DecisionsOK'
<1> USE DEF ImportInv, ImportTypeOK
<1>1. ASSUME NEW i \in Importers, step[i] = "idle",
             step' = [step EXCEPT ![i] = "capture"],
             \A j \in Importers \ {i} : export'[j] = export[j],
             NEW c \in Candidates, Followed(c)
      PROVE  Followed(c)'
  <2>1. step'[i] = "capture" /\ \A j \in Importers \ {i} : step'[j] = step[j] BY <1>1
  <2> QED BY <1>1, <2>1 DEF Followed, Present, Carrying
<1>2. ASSUME UNCHANGED <<step, export>>, NEW c \in Candidates, Followed(c) PROVE Followed(c)'
  BY <1>2 DEF Followed, Present, Carrying
<1> QED BY <1>1, <1>2 DEF DecisionsOK, Safe, Summarize

-------------------------------------------------------------------------------
(* The theorems.                                                           *)

LEMMA ImportInvInit == ImportInit => ImportInv
<1> SUFFICES ASSUME ImportInit PROVE ImportInv OBVIOUS
<1> USE ImportAssumption
<1>1. TypeOK /\ CallsHold
  BY IInvInit DEF ImportInit, IInv, AtomicInv, TableInv, ClientTypeOK, TypeOK, CallsHold, Init
<1>2. NothingKept \in [Candidates -> Verdicts \union {None}] BY DEF NothingKept
<1>3. PICK x \in Exports \union {None} :
        LET stored == IF x = None THEN {} ELSE Covers[x]
            there  == IF x = None THEN {} ELSE Extracts[x]
        IN  /\ {c \in Candidates : Present(c)} = there
            /\ imports = {x} \ {None}
            /\ owner = [v \in Conversations |-> IF v \in stored THEN x ELSE None]
            /\ origin = [c \in Candidates |-> IF c \in there THEN x ELSE None]
  BY DEF ImportInit
<1>4. /\ imports \subseteq Exports
      /\ owner \in [Conversations -> Exports \union {None}]
      /\ origin \in [Candidates -> Exports \union {None}]
  BY <1>3
<1>5. ImportTypeOK BY <1>1, <1>2, <1>4 DEF ImportInit, ImportTypeOK, Steps
<1>6. ImportersOK BY DEF ImportInit, ImportersOK, NothingKept
<1>7. SourcesOK
  <2>1. CASE x = None BY <1>3, <2>1 DEF SourcesOK
  <2>2. CASE x # None BY <1>3, <2>2 DEF SourcesOK, ChunkStored
  <2> QED BY <2>1, <2>2
<1>8. DecisionsOK BY DEF ImportInit, DecisionsOK, Safe
<1> QED BY <1>1, <1>5, <1>6, <1>7, <1>8 DEF ImportInv

LEMMA ImportInvStep == ImportInv /\ [ImportNext]_allVars => ImportInv'
<1> SUFFICES ASSUME ImportInv, [ImportNext]_allVars PROVE ImportInv' OBVIOUS
<1>1. CASE CallStep BY <1>1, TypesOfCalls, OthersOfCalls, DecisionsOfCalls DEF ImportInv
<1>2. ASSUME NEW i \in Importers, ImporterStep(i), UNCHANGED clientVars PROVE ImportInv'
  <2>1. ImportTypeOK' /\ CallsHold' /\ ImportersOK' /\ SourcesOK'
    BY <1>2, TypesOfImporter, ImportersOfImporter, SourcesOfImporter
  <2>2. ASSUME NEW x \in Exports, Summarize(i, x) PROVE DecisionsOK'
    BY <2>2, DecisionsElse DEF Summarize, storeVars, history
  <2>3. DecisionsOK'
    BY <1>2, <2>2, DecisionsOfCapture, DecisionsOfReplace, DecisionsOfExtract, DecisionsOfRestore,
       DecisionsOfAbandon
    DEF ImporterStep
  <2> QED BY <2>1, <2>3 DEF ImportInv
<1>3. ASSUME \/ \E v \in Conversations : (Assign(v) \/ Unassign(v)) /\ UNCHANGED clientVars
             \/ UNCHANGED allVars
      PROVE  ImportInv'
  <2>1. /\ UNCHANGED <<storeVars, clientVars, imports, owner, origin, step, export, unchanged, kept, history>>
        /\ assigned' \subseteq assigned \union Conversations
    BY <1>3 DEF Assign, Unassign, allVars, storeVars, clientVars, history
  <2>2. ImportTypeOK' /\ CallsHold'
    BY <2>1
    DEF ImportInv, ImportTypeOK, TypeOK, StoreTypeOK, CallsHold, storeVars, clientVars, history
  <2>3. ImportersOK' /\ SourcesOK'
    BY <2>1 DEF ImportInv, ImportersOK, SourcesOK, ChunkStored, Present, storeVars
  <2>4. DecisionsOK' BY <2>1, DecisionsElse DEF storeVars, history
  <2> QED BY <2>2, <2>3, <2>4 DEF ImportInv
<1> QED BY <1>1, <1>2, <1>3 DEF ImportNext

LEMMA ImportInvHolds == ImportSpec => []ImportInv
  BY ImportInvInit, ImportInvStep, PTL DEF ImportSpec

\* Every variable keeps its type, whatever imports and calls interleave.
THEOREM ImportTypeCorrect == ImportSpec => []ImportTypeOK
<1>1. ImportInv => ImportTypeOK BY DEF ImportInv
<1> QED BY <1>1, ImportInvHolds, PTL

\* Imports that replace each other's conversations leave no candidate row without its
\* chunk and its import.
THEOREM NoDanglingCandidate == ImportSpec => []CandidatesHaveChunks
<1>1. ImportInv => CandidatesHaveChunks BY DEF ImportInv, SourcesOK, CandidatesHaveChunks
<1> QED BY <1>1, ImportInvHolds, PTL

\* However many imports carry a review decision across at a time, it is back when none
\* does any more, unless it was made or carried in a window where an import loses it.
THEOREM DecisionsComeBack == ImportSpec => []NoQuietLoss
<1>1. ImportInv => NoQuietLoss BY DEF ImportInv, DecisionsOK, Safe, Followed, NoQuietLoss
<1> QED BY <1>1, ImportInvHolds, PTL
===============================================================================
