------------------------------ MODULE MemorySearch ------------------------------
(***************************************************************************)
(* Reading the memory while it is written: searches and what they disclose *)
(* (memory/search.py, the memory-search and memory-context commands, the   *)
(* same tools of the MCP server), the embedding job (memory/embeddings.py) *)
(* and the export of a staging snapshot (staging_snapshot.py).             *)
(*                                                                         *)
(* A search is a series of SELECTs, each with a snapshot of its own: the   *)
(* tombstones, the full text index, the vectors, the curated records.      *)
(* Which of the hits are ranked high enough to be returned is left open    *)
(* here; SearchRules says how it is decided.                               *)
(***************************************************************************)
EXTENDS MemoryRecords

CONSTANTS
  Readers,    \* processes that search
  Limit,      \* results of a search
  RowLimit    \* rows per dataset of a staging snapshot

\* memory-search is a memory-context that stops before its slots.
Commands == {"memory-context", "mcp memory_search"}

Hits == {"chunk", "record"} \X Chunks

VARIABLES
  activity,   \* what goes on beside promotions and tombstones
  embedded,   \* chunks with a row in chunk_embeddings
  todo,       \* the chunks the embedding job still has in hand
  call,       \* what each reader is doing
  export      \* the snapshot being exported

readVars == <<activity, embedded, todo, call, export>>
memoryVars == <<recordVars, readVars>>

\* None of these writes what another one reads, except that a rating may retire a
\* record before a search: a behaviour follows one of them.
Activities == {"search", "rate", "export"}

Resting == [at |-> "idle", command |-> None, slot |-> FALSE, blocked |-> {},
            settled |-> {}, hits |-> {}, logged |-> FALSE]

NoExport == [at |-> "idle", records |-> {}, links |-> {}, truncated |-> FALSE]

MemoryTypeOK ==
  /\ RecordsTypeOK
  /\ activity \in Activities
  /\ embedded \subseteq Chunks
  /\ todo \subseteq Chunks
  /\ call \in [Readers ->
       [at       : {"idle", "fts", "vectors", "curated", "rank", "log", "answer"},
        command  : Commands \union {None},
        slot     : BOOLEAN,        \* one of the further searches of memory-context
        blocked  : SUBSET Sources,
        settled  : SUBSET Chunks,  \* history, see Begin
        hits     : SUBSET Hits,
        logged   : BOOLEAN]]       \* the retrieval event of the call is committed
  /\ export \in [at        : {"idle", "links", "counts", "done"},
                 records   : SUBSET Chunks,
                 links     : SUBSET (Chunks \X {"chunk", "conversation"}),
                 truncated : BOOLEAN]

MemoryInit ==
  /\ RecordsInit
  /\ activity \in Activities
  /\ embedded = {}
  /\ todo = {}
  /\ call = [r \in Readers |-> Resting]
  /\ export = NoExport

-------------------------------------------------------------------------------
(* search_chatgpt_memory.                                                  *)

\* A search reads blocked_source_ids before anything else.  settled is history: the
\* records whose promotion was finished by then.
Begin(state) ==
  [state EXCEPT !.at = "fts",
                !.blocked = deletions,
                !.settled = {c \in Chunks : {c} \X {"chunk", "conversation"} \subseteq links}]

Ask(r, command) ==
  /\ call[r].at = "idle"
  /\ call' = [call EXCEPT ![r] = Begin([Resting EXCEPT !.command = command])]
  /\ UNCHANGED <<activity, embedded, todo, export>>

ChunkAllowed(c, blocked) == Origins(c) \intersect blocked = {}

Fts(r) ==
  /\ call[r].at = "fts"
  /\ call' = [call EXCEPT ![r].at = "vectors",
                          ![r].hits = {"chunk"} \X {c \in stored : ChunkAllowed(c, call[r].blocked)}]
  /\ UNCHANGED <<activity, embedded, todo, export>>

\* _vector_hits, and _merge_retrieval_hits: a chunk is one hit, however it is found.
Vectors(r) ==
  /\ call[r].at = "vectors"
  /\ call' = [call EXCEPT ![r].at = "curated",
                          ![r].hits = @ \union
                            {"chunk"} \X {c \in stored \intersect embedded : ChunkAllowed(c, call[r].blocked)}]
  /\ UNCHANGED <<activity, embedded, todo, export>>

\* Mutant: only the record id and its source_ref are compared with the tombstones.
RecordAllowedUnlinked(c, blocked) == {Record(c), c} \intersect blocked = {}

\* A record is excluded by its own id, by source_ref (the chunk) and by the ids it
\* is linked to; the message of the chunk is none of these.
RecordAllowed(c, blocked) ==
  /\ {Record(c), c} \intersect blocked = {}
  /\ <<c, "chunk">> \in links => c \notin blocked
  /\ <<c, "conversation">> \in links => Conversation \notin blocked

\* _curated_hits.
Curated(r) ==
  /\ call[r].at = "curated"
  /\ call' = [call EXCEPT ![r].at = "rank",
                          ![r].hits = @ \union
                            {"record"} \X {c \in Chunks : /\ records[c] # None
                                                          /\ records[c].status = "active"
                                                          /\ RecordAllowed(c, call[r].blocked)}]
  /\ UNCHANGED <<activity, embedded, todo, export>>

\* The command records what this search of it returns.
Logs(r) == call[r].command # "mcp memory_search" /\ ~call[r].slot

\* What search_chatgpt_memory returns: scoping, governance, ranking, floors and caps
\* keep some of the hits.
Rank(r) ==
  /\ call[r].at = "rank"
  /\ \E kept \in {hits \in SUBSET call[r].hits : Cardinality(hits) <= Limit} :
       call' = [call EXCEPT ![r].hits = kept,
                            ![r].at = IF Logs(r) THEN "log" ELSE "answer"]
  /\ UNCHANGED <<activity, embedded, todo, export>>

\* record_retrieval_event, on a connection of its own: the event and its exposures.
Log(r) ==
  /\ call[r].at = "log"
  /\ call' = [call EXCEPT ![r].at = "answer", ![r].logged = TRUE]
  /\ UNCHANGED <<activity, embedded, todo, export>>

\* _slot_expanded_context_items: after the event, memory-context searches again for
\* each slot; what these searches find goes into the same packet.
SearchSlot(r) ==
  /\ call[r].at = "answer"
  /\ call[r].command = "memory-context"
  /\ call' = [call EXCEPT ![r] = Begin([call[r] EXCEPT !.slot = TRUE, !.hits = {}])]
  /\ UNCHANGED <<activity, embedded, todo, export>>

\* The answer is out, or the process has died.
EndCall(r) ==
  /\ call[r].at # "idle"
  /\ call' = [call EXCEPT ![r] = Resting]
  /\ UNCHANGED <<activity, embedded, todo, export>>

ReaderStep(r) ==
  \/ \E command \in Commands : Ask(r, command)
  \/ Fts(r) \/ Vectors(r) \/ Curated(r) \/ Rank(r) \/ Log(r) \/ SearchSlot(r) \/ EndCall(r)

-------------------------------------------------------------------------------
(* The embedding job, and imports.                                         *)

\* list_chunks_needing_embeddings; the chunks of a job do not affect each other, so
\* that a job is one of them.
ListChunks ==
  /\ todo = {}
  /\ \E c \in stored \ embedded : ChunkAllowed(c, deletions) /\ todo' = {c}
  /\ UNCHANGED <<activity, embedded, call, export>>

\* embed_missing_chunks computes a vector of the text in hand and stores it; the
\* connection does not enforce the reference to message_chunks.
StoreEmbedding(c) ==
  /\ c \in todo
  /\ todo' = todo \ {c}
  /\ embedded' = embedded \union {c}
  /\ UNCHANGED <<activity, call, export>>

EmbeddingEnds ==
  /\ todo # {}
  /\ todo' = {}
  /\ UNCHANGED <<activity, embedded, call, export>>

\* replace_import deletes all chunks of the conversation, their embeddings with them,
\* and inserts those of the new export.
Import(new) ==
  /\ stored' = new
  /\ embedded' = embedded \ stored
  /\ UNCHANGED <<deletions, records, links, ratings, work, disturbed>>
  /\ UNCHANGED <<activity, todo, call, export>>

-------------------------------------------------------------------------------
(* export_staging_snapshot.                                                *)

\* The first rows, by id, of a table.
FirstRows(table) ==
  {rows \in SUBSET table :
     Cardinality(rows) = IF Cardinality(table) < RowLimit THEN Cardinality(table) ELSE RowLimit}

RecordRows == {c \in Chunks : records[c] # None}

ExportRecords ==
  /\ export.at = "idle"
  /\ \E rows \in FirstRows(RecordRows) :
       export' = [NoExport EXCEPT !.at = "links", !.records = rows]
  /\ UNCHANGED <<activity, embedded, todo, call>>

\* Mutant: a dataset counts as truncated only when it fills its limit.
TruncatedAtLimit == Cardinality(export.records) = RowLimit

Truncated == Cardinality(RecordRows) > Cardinality(export.records)

ExportLinks ==
  /\ export.at = "links"
  /\ \E rows \in FirstRows(links) : export' = [export EXCEPT !.at = "counts", !.links = rows]
  /\ UNCHANGED <<activity, embedded, todo, call>>

\* The counts are read last.
ExportCounts ==
  /\ export.at = "counts"
  /\ export' = [export EXCEPT !.at = "done", !.truncated = Truncated]
  /\ UNCHANGED <<activity, embedded, todo, call>>

ExportAgain ==
  /\ export.at # "idle"
  /\ export' = NoExport
  /\ UNCHANGED <<activity, embedded, todo, call>>

-------------------------------------------------------------------------------

SearchStep ==
  \/ /\ \/ \E r \in Readers : ReaderStep(r)
        \/ ListChunks
        \/ \E c \in Chunks : StoreEmbedding(c)
        \/ EmbeddingEnds
     /\ UNCHANGED recordVars
  \/ \E new \in (SUBSET Chunks) \ {{}} : Import(new)

RateStep == \E w \in Writers : Rate(w) /\ UNCHANGED readVars

ExportStep ==
  /\ ExportRecords \/ ExportLinks \/ ExportCounts \/ ExportAgain
  /\ UNCHANGED recordVars

MemoryNext ==
  \/ /\ \/ \E w \in Promoters : Promote(w)
        \/ \E w \in Writers : WriterDies(w)
        \/ \E s \in Sources : Tombstone(s)
     /\ UNCHANGED readVars
  \/ activity = "search" /\ SearchStep
  \/ activity = "rate" /\ RateStep
  \/ activity = "export" /\ ExportStep

MemorySpec == MemoryInit /\ [][MemoryNext]_memoryVars

-------------------------------------------------------------------------------
(* Properties.                                                             *)

\* A tombstone holds for every search that begins after it: no chunk it covers is
\* returned, and no record of such a chunk, also while the chunk is embedded,
\* promoted, rated or imported again.  Two gaps are left: a record whose promotion
\* was not finished when the search began is not tied to the conversation yet, and
\* the tombstone of a message does not reach the records made of its chunks.
SearchHonoursTombstones ==
  \A r \in Readers, c \in Chunks :
    /\ <<"chunk", c>> \in call[r].hits => Origins(c) \intersect call[r].blocked = {}
    /\ <<"record", c>> \in call[r].hits =>
         /\ {Record(c), c} \intersect call[r].blocked = {}
         /\ c \in call[r].settled => Conversation \notin call[r].blocked

\* A snapshot whose links name a record that it does not hold says that records
\* were left out, also when records are promoted while it is exported.
DanglingIsFlagged ==
  (export.at = "done" /\ \E link \in export.links : link[1] \notin export.records)
    => export.truncated
===============================================================================
