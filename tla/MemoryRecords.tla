----------------------------- MODULE MemoryRecords -----------------------------
(***************************************************************************)
(* Curated records made from chunks, and the ratings they are given.       *)
(*                                                                         *)
(*   message_chunks    stored     the chunks of the one conversation       *)
(*   deletions         deletions  (memory/audit.py)                        *)
(*   memory_records    records    (memory/curated.py)                      *)
(*   memory_links      links      (memory/curated.py)                      *)
(*   memory_feedback   ratings    (memory/feedback.py)                     *)
(*                                                                         *)
(* A promotion is three transactions after a check: the record, the link   *)
(* to the chunk, the link to the conversation.  A rating is two: the row,  *)
(* and the record with the counts and the status computed from an earlier  *)
(* read of it.  Any process may die between any two.                       *)
(*                                                                         *)
(* The id of a record is a hash of the chunk it is made from (and of the   *)
(* fields chosen for it), so that a chunk has one record here, and         *)
(* promoting it again writes that record again.                            *)
(***************************************************************************)
EXTENDS Naturals, FiniteSets, FiniteSetsExt

CONSTANTS
  Chunks,          \* ids of chunks; an id is a hash of the text
  MessageOf,       \* the message of each chunk
  Conversation,    \* the conversation they belong to
  Writers,         \* processes that rate records
  Promoters,       \* those of them that promote chunks
  Given,           \* the ratings users give
  MaxRatings,      \* bound: ratings in all
  MaxTombstones,   \* bound: rows of deletions
  None             \* no record, nothing read

Ratings == {"up", "down", "saved", "ignored", "resolved"}

Messages == {MessageOf[c] : c \in Chunks}
Record(c) == [promoted |-> c]
Sources == Chunks \union Messages \union {Conversation} \union {Record(c) : c \in Chunks}

\* What memory_records keeps of the feedback on a record.
RecordStates == [status : {"active", "stale"}, summary : [Ratings -> Nat]]

ASSUME RecordsAssumption ==
  /\ IsFiniteSet(Chunks)
  /\ IsFiniteSet(Writers)
  /\ Promoters \subseteq Writers
  /\ Given \subseteq Ratings
  /\ MaxRatings \in Nat
  /\ MaxTombstones \in Nat
  /\ None \notin RecordStates \union Chunks \union Ratings

VARIABLES
  stored, deletions, records, links, ratings,
  work,       \* where each writer stands: step, chunk, rating, and the record it read
  disturbed   \* history: records written over a state the writer had not read

recordVars == <<stored, deletions, records, links, ratings, work, disturbed>>

Steps == {"idle", "record", "chunk link", "conversation link", "read", "write"}
Idle == [step |-> "idle", chunk |-> None, rating |-> None, held |-> None]
Unrated == [r \in Ratings |-> 0]
Fresh == [status |-> "active", summary |-> Unrated]

RecordsTypeOK ==
  /\ stored \subseteq Chunks
  /\ deletions \subseteq Sources
  /\ records \in [Chunks -> RecordStates \union {None}]
  /\ links \subseteq Chunks \X {"chunk", "conversation"}
  /\ ratings \in [Chunks -> [Ratings -> Nat]]
  /\ work \in [Writers -> [step   : Steps,
                           chunk  : Chunks \union {None},
                           rating : Ratings \union {None},
                           held   : RecordStates \union {None}]]
  /\ disturbed \subseteq Chunks

RecordsInit ==
  /\ stored = Chunks
  /\ deletions = {}
  /\ records = [c \in Chunks |-> None]
  /\ links = {}
  /\ ratings = [c \in Chunks |-> Unrated]
  /\ work = [w \in Writers |-> Idle]
  /\ disturbed = {}

-------------------------------------------------------------------------------
(* promote_chunk_to_memory_record.                                         *)

Origins(c) == {c, MessageOf[c], Conversation}

\* The chunk exists and neither it nor what contains it is tombstoned.
PromoteCheck(w, c) ==
  /\ work[w].step = "idle"
  /\ c \in stored
  /\ Origins(c) \intersect deletions = {}
  /\ work' = [work EXCEPT ![w] = [Idle EXCEPT !.step = "record", !.chunk = c]]
  /\ UNCHANGED <<stored, deletions, records, links, ratings, disturbed>>

\* create_memory_record upserts every column: the status becomes active and the
\* metadata, the feedback summary with it, starts empty.
PromoteRecord(w) ==
  LET c == work[w].chunk IN
  /\ work[w].step = "record"
  /\ records' = [records EXCEPT ![c] = Fresh]
  /\ disturbed' = IF records[c] \in {None, Fresh} THEN disturbed ELSE disturbed \union {c}
  /\ work' = [work EXCEPT ![w].step = "chunk link"]
  /\ UNCHANGED <<stored, deletions, links, ratings>>

PromoteChunkLink(w) ==
  /\ work[w].step = "chunk link"
  /\ links' = links \union {<<work[w].chunk, "chunk">>}
  /\ work' = [work EXCEPT ![w].step = "conversation link"]
  /\ UNCHANGED <<stored, deletions, records, ratings, disturbed>>

PromoteConversationLink(w) ==
  /\ work[w].step = "conversation link"
  /\ links' = links \union {<<work[w].chunk, "conversation">>}
  /\ work' = [work EXCEPT ![w] = Idle]
  /\ UNCHANGED <<stored, deletions, records, ratings, disturbed>>

-------------------------------------------------------------------------------
(* record_memory_feedback.                                                 *)

\* What MaxRatings bounds.
Total == MapThenSumSet(LAMBDA c : MapThenSumSet(LAMBDA r : ratings[c][r], Ratings), Chunks)

RateInsert(w, c, rating) ==
  /\ work[w].step = "idle"
  /\ records[c] # None
  /\ Total < MaxRatings
  /\ ratings' = [ratings EXCEPT ![c][rating] = @ + 1]
  /\ work' = [work EXCEPT ![w] = [Idle EXCEPT !.step = "read", !.chunk = c, !.rating = rating]]
  /\ UNCHANGED <<stored, deletions, records, links, disturbed>>

RateRead(w) ==
  /\ work[w].step = "read"
  /\ work' = [work EXCEPT ![w].step = "write", ![w].held = records[work[w].chunk]]
  /\ UNCHANGED <<stored, deletions, records, links, ratings, disturbed>>

\* Two downs retire an active record, whatever the rating that is being applied;
\* two ups bring a retired one back; saved and resolved always do.
StatusAfter(status, rating, summary) ==
  IF rating \in {"saved", "resolved"} THEN "active"
  ELSE IF status = "active" /\ summary["down"] >= 2 THEN "stale"
  ELSE IF status = "stale" /\ summary["up"] + summary["saved"] >= 2 THEN "active"
  ELSE status

\* Mutant: the count of a rating that is there already is not raised.
AppliedOnce(held, rating) ==
  LET summary == [held.summary EXCEPT ![rating] = 1] IN
  [status |-> StatusAfter(held.status, rating, summary), summary |-> summary]

\* _apply_feedback_to_record on the record as it was read.
Applied(held, rating) ==
  LET summary == [held.summary EXCEPT ![rating] = @ + 1] IN
  [status |-> StatusAfter(held.status, rating, summary), summary |-> summary]

RateWrite(w) ==
  LET c == work[w].chunk IN
  /\ work[w].step = "write"
  /\ records' = [records EXCEPT ![c] = Applied(work[w].held, work[w].rating)]
  /\ disturbed' = IF records[c] = work[w].held THEN disturbed ELSE disturbed \union {c}
  /\ work' = [work EXCEPT ![w] = Idle]
  /\ UNCHANGED <<stored, deletions, links, ratings>>

\* The process dies, or the database stays locked too long.
WriterDies(w) ==
  /\ work[w].step # "idle"
  /\ disturbed' = IF work[w].step \in {"read", "write"} THEN disturbed \union {work[w].chunk}
                  ELSE disturbed
  /\ work' = [work EXCEPT ![w] = Idle]
  /\ UNCHANGED <<stored, deletions, records, links, ratings>>

Promote(w) ==
  \/ \E c \in Chunks : PromoteCheck(w, c)
  \/ PromoteRecord(w)
  \/ PromoteChunkLink(w)
  \/ PromoteConversationLink(w)

Rate(w) ==
  \/ \E c \in Chunks, rating \in Given : RateInsert(w, c, rating)
  \/ RateRead(w)
  \/ RateWrite(w)

\* tombstone_source: an upsert.
Tombstone(s) ==
  /\ s \in deletions \/ Cardinality(deletions) < MaxTombstones
  /\ deletions' = deletions \union {s}
  /\ UNCHANGED <<stored, records, links, ratings, work, disturbed>>

-------------------------------------------------------------------------------
(* Properties.                                                             *)

\* The ratings of record c that writers have inserted and not yet applied.
InFlight(c, rating) ==
  {w \in Writers : /\ work[w].step \in {"read", "write"}
                   /\ work[w].chunk = c
                   /\ work[w].rating = rating}

\* The counts kept with a record are those of its ratings, unless two writers of
\* the record overlapped, one died between its transactions or the chunk was
\* promoted again; and even then a record that is stale has had two downs.
RatingsAreCounted ==
  \A c \in Chunks : records[c] # None =>
    /\ c \notin disturbed =>
         \A r \in Given : ratings[c][r] = records[c].summary[r] + Cardinality(InFlight(c, r))
    /\ records[c].status = "stale" => ratings[c]["down"] >= 2
===============================================================================
