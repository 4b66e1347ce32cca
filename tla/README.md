# Verification of MiniLLM

This directory holds TLA+ models of the parts of MiniLLM (`src/src/local_agent_lab`,
`src/scripts`) in which the order of steps matters or a rule is hard to test: the memory
database and everything that writes, searches and reviews it; the promotion of builds, the
administration helper and the scripts of the production host; the baking camera; the evidence for
a public release. TLC checks small instances; TLAPS proves the main results for every value of
the constants. The code is the reference: where a document says something else, the
disagreement is a run that ends in a violation, or is told in section 6.

Contents: 1 inventory, 2 modules, 3 runs and bounds, 4 fairness, 5 proofs, 6 disagreements,
7 what is not modelled.

## 1. Inventory

`PROJECT.json` lists every component with its status and, under `hazards`, what is hard to test
in it, each at the line where it bites.

| Component | State it keeps | Interacts with | Hard behaviour | What makes it correct |
|---|---|---|---|---|
| Candidate merge (`memory/candidate_merge.py`) | candidates, records, links, merge events | review, promotion, tombstones, import: same tables, other processes | reads outside any transaction, a lock taken late, retries with an old token | a merge is an atomic compare-and-set on the confirmed token |
| Chat import (`memory/chatgpt_ingest.py`) | imports, conversations, chunks; candidates by cascade | everything that reads candidates | four transactions with state carried in memory | review state survives; rows refer to stored chunks |
| Subjects (`memory/subjects.py`) | assignments of conversations | import deletes them by cascade | partial re-import | assignments survive a re-import (they do not, section 6) |
| Review queue, candidate shadow (`memory/candidates.py`, `candidate_shadow.py`, `review_assist.py`) | none of their own | imports and reviews write between two of their statements | unions of selects, several filters in turn | nothing vanishes from a report or is counted twice |
| Extraction, canonicalization (`memory/candidate_extraction.py`, `candidate_canonicalization.py`) | none | the shadow report | several gates in an order; a union-find over similar claims | groups are the classes of claims that say the same |
| Curated records, feedback (`memory/curated.py`, `feedback.py`) | records with counts and status, links, ratings | promotion, search, export | read-modify-write across transactions | counts are those of the ratings |
| Search, tombstones, embeddings (`memory/search.py`, `audit.py`, `embeddings.py`) | deletions, vectors, retrieval events | all writers | each read has a snapshot of its own | a blocked source stays out of results |
| Ranking, high risk, context packet (`ranking.py`, `domain_scoping.py`, `high_risk.py`, `context_packet.py`) | none | memory-context | many rules, applied in turn to several searches | risky items are evidence, the best hits are returned |
| Home MCP server's notes (`home_mcp.py`) | note files, records made of them | threads of one server | no lock, in-place writes | what a caller was told is stored stays |
| Staging snapshot (`staging_snapshot.py`) | a bundle file | promotions beside it | tables read one by one | a snapshot says when it is incomplete |
| Trusted promotion (`trusted_promotion.py`, its CLI) | release trees, `current`, marker, approvals, journal, operations, lock | controller, helper, launchd | a stop after any write; cut journal lines; ids granted twice | production moves only along an unused approval, journalled |
| Deployment gate, promotion controller (`deployment_gate.py`, `promotion_controller.py`) | none | the adapter | three lists of denied paths, two manifests for one candidate | what is live was approved, and leaves the control plane alone |
| Administration helper (`scripts/minillm_admin.py`) | requests, reviewed operations, results, journal, lock | promotion CLI, cutover script | it dies while its command goes on | an operation runs at most once, as reviewed |
| Bootstrap, provisioning, cutover (three shell scripts) | the production host, launchd's jobs | the operator's Home | rerun after any failure; an error trap that may run twice; kills | what a script reports is what it leaves |
| Bake cam (`bake_cam.py`), camera runner (`pi_bake_cam_day7_runner.sh`) | session file, spool; markers, spool, remote files | cron, ssh, other commands | a file truncated in place; retries; loss of power | no still is lost, every due one arrives |
| Release evidence (four scripts) | gate artifacts, candidate repository, manifests | a checkout that somebody works in | facts read one at a time | what a ready manifest counts was earned on its commit |
| Observability, indexing, tools, agents, models, evals, front door | append-only traces, none | | sequential | not modelled, section 7 |

## 2. Modules

    MemoryStore - AtomicMerge - CandidateMerge - ChatImport
    PromotionSpec    TrustedPromotion - ControlledPromotion    (with PromotionRules)
    ReviewedOperation    AdminHelper + Cutover - ProductionHost    Cutover - Bootstrap
    BakeCam + PiRunner - BakeStation
    MemoryRecords - MemorySearch
    SearchRules - MemoryContext + HomeNotes - HomeServer
    ExtractionRules - CanonicalRules - ReviewQueue - CandidateShadow
    ReleaseEvidence

A dash is EXTENDS, a plus a composition. `PromotionSpec` and `ReviewedOperation` are abstract
specifications, instantiated by the modules they stand beside; `AtomicMerge` is the abstract
specification of a merge and what `CandidateMerge` is built on. Modules named `MC...`
instantiate the others for TLC, those named `..._proofs` hold theorems. A definition marked as a
mutant in its comment is a plausible bug that a run must catch; the model does not use it.

### 2.1 The memory database: merge and import

| Model | Code |
|---|---|
| `rows[c]` | a row of `candidate_memories`: `review_status`, `updated_at`, and `merge`, the keys `merge_target_id` and `merge_preview_token` of `metadata_json` |
| `clock[c]` | names the timestamps given to a row in the order of its writes |
| `deletions`, `records`, `links`, `events` | the tables of that name (`candidate_merge_events`) |
| `Tokens` | the preview hash, as what is hashed: status and timestamp of each selected row, what is blocked, the canonical fields |
| `pc`, `req`, `seen`, `prior`, `held` | a running call, its arguments, the rows read by its current loop, `prior_states`, the token the user keeps |
| `StartPreview`, `ReadRow`, `FinishPreview` | `preview_candidate_merge` |
| `StartApply`, `ReadRow`, `Replay` / `ValidateFails` / `Validate` | `apply_candidate_merge` up to the recomputed preview |
| `ReadRow`, `Recheck` | the recomputed preview (second loop), comparison of tokens, blocking warnings |
| `Commit`, `CommitFails` | from `BEGIN IMMEDIATE` to commit or rollback |
| `Decide`, `PromoteCreate`, `PromoteMark`, `Block` | `memory_review` approve and reject, its promote in two transactions, `memory_block_source` |
| `Crash` | the process or its connection dies |
| `imports`, `owner`, `origin`, `assigned` | rows of `imports`; `import_id` of conversations and candidates; `conversation_subjects` |
| `Summarize`, `Capture`, `ReplaceImport`, `ReplaceCandidates`, `Restore` | the five calls of `import_chatgpt_export` in the order of the code |
| `Abandon`, `Assign`, `Unassign` | a crash, a locked database or a constraint that fails; `subjects.py` |
| `decided`, `exposed` | history: the last decision on a candidate; decisions made where the code is known to lose them |

Abstractions. A candidate's text never changes under its id, so only status, timestamp and
mark are kept. Title, body, type, trust, subject and creator are one value of `Fields`.
Warnings are a predicate on the selection. `updated_at` is compared for equality only; distinct
writes of a row are taken to have distinct timestamps, which have microseconds. The order of ids is
dropped because the code sorts them where it hashes them. A token sent is one that was issued.
The two SELECTs of a source snapshot are one step. Chunk and candidate ids are hashes of
content, so a chunk is stored exactly when its text is in the stored version of its
conversation; attachments, messages and full text follow their conversation. `MarkIsLatest` is not
claimed beside imports: a restore can put an older mark over a newer one, which is one of the
windows that `InWindow` names.

### 2.2 Records, ratings, searches

| Model | Code |
|---|---|
| `records[c]`, `links`, `ratings`, `stored`, `deletions` | record made of chunk c with its feedback counts and status; the tables of links, ratings, chunks and tombstones |
| `PromoteCheck`, `PromoteRecord`, `PromoteChunkLink`, `PromoteConversationLink` | `promote_chunk_to_memory_record` |
| `RateInsert`, `RateRead`, `RateWrite` | `record_memory_feedback`, `_apply_feedback_to_record` |
| `Ask`, `Fts`, `Vectors`, `Curated`, `Rank`, `Log`, `SearchSlot`, `EndCall` | the SELECTs of `search_chatgpt_memory`, `record_retrieval_event`, the further searches of memory-context |
| `ListChunks`, `StoreEmbedding`, `Import` | `embed_missing_chunks`, the chunk table under `replace_import` |
| `ExportRecords`, `ExportLinks`, `ExportCounts` | `_export_datasets` of a staging snapshot |

A behaviour of `MemorySpec` has one of three activities beside promotions, tombstones and crashes:
searching (with embeddings and imports), rating, or exporting. None of them writes what another
reads, except that a rating may retire a record before a search. Which hits are ranked high enough is
left open there:
`SearchRules` and `MemoryContext` say how it is decided, over a memory that stands still. There a
text is what the rules read in it (domains, matches, entities), fractions are percentages, and the
packet's sections are the sets of items of each slot.

### 2.3 Candidates in review

`ExtractionRules` (gates, choice of a proposition, class, domain, validation of a model's output),
`CanonicalRules` (claims, similarity, union-find, representatives, relations, report) and
`ReviewQueue` (listing, filter, summaries, advice) are operators; `CandidateShadow` is the
state machine of the two read-only commands that use them, `BeginShadow`, `ListShadow`, `EndShadow`
and `BeginReview`, `ListReview`, `ListQueue`, beside `Import`, `Decide` and `Assign` of other
processes. A text is a sequence of sentences, each the set of signs that the regular expressions
look for, with the tail that the code cuts off. Texts of 16 to 24 words, which differ from
shorter ones in one gate only, are left out; SequenceMatcher is the constant `Ratio`. The two
commands only read, so that one runs at a time.

### 2.4 Notes and the Home server

`HomeNotes` has a thread per request. `Create`, `AppendAttempt`, `Normalize` with
`NormalizeNext`, and `Bridge` with `WriteRecord` read files and decide; `TruncateNote` and `FillNote`
are the two halves of `safe_write_text`; `ServerStops` ends every thread. A text is a sequence of
headings and lines, each marked with the call that wrote it. The front matter is reduced to its
tags; the rest of it nests one level deeper at each normalization, so that every normalization rewrites
every card. Partial writes of long texts, redaction, and the truncation of a bridged note at
the size limit are left out. `HomeServer` puts notes and memory contexts together as alternatives, because neither
reads what the other writes.

### 2.5 Promotion

| Model | Code |
|---|---|
| `releases`, `pointer`, `marker` | release trees, the symlink `current`, the file `current_build` |
| `pending`, `consumed` | the two approval directories |
| `entries`, `tail` | the records of the journal; whether its last line is whole, lacks its newline, or cannot be parsed |
| `operations`, `lock` | persisted results; `promotion.lock` |
| `Checks` .. `Persist` | the calls of `execute_promotion` and `execute_rollback` in order; `Swap` and `Mark` are the two writes of `_activate_release` |
| `AppendCut`, `Abort` | `_write_all` fails after a part of the line; the process dies or something raises |
| `content`, `scope`, `taken`, `declared`, `recorded` (`ControlledPromotion`) | of each release the build each path came from; the authorization in each pending and consumed approval; the manifest of the operation, and of each persisted one |
| `Promotable`, `PromotionAllowed`, `RollbackAllowed`, `ReleaseDenies` (`PromotionRules`) | gate, controller, release tree |

`ControlledPromotion` is `TrustedPromotion` with each step's effect on these. A release is
a copy of the previous one with the artifacts of the manifest replaced. A path is one of the kinds of path that some
list tells apart. Evidence of commands and blocked plans are not kept apart in `entries`. Writes
reach the disk in program order. The initial state is the one the bootstrap leaves, which may have
stopped before it wrote the marker. `Authorize` may write a pending approval under an id that was
consumed before, as `write_human_authorization` looks only in `pending`. In the mapping to
`PromotionSpec`, `build` is the pointer, `granted` the approvals in both directories, `spent` the
consumed ids less the one of an operation that has not yet moved the pointer; an id consumed by an
operation that stopped before is a `Waste`.

### 2.6 The production host

| Model | Code |
|---|---|
| `material`, `pending`, `consumed`, `results`, `journal`, `lock` (`AdminHelper`) | the directories of the helper, its hash-chained journal, `admin.lock` |
| `StartReview`, `Prepare`, `Grant`, `Pend` | `review` |
| `StartExecute`, `Verify`, `Consume`, `Launch`, `Collect`, `WriteResult`, `Audit` | `execute_reviewed` and the end of `invoke` |
| `commands`, `Move`, `ExitPromote`, `ExitCutover` | the started process, which outlives its helper |
| `Crash`, `Expire` | the helper dies; a request passes `expires_at` |
| `loaded`, `source`, `copy`, `at`, `report` (`Cutover`) | jobs of launchd, versions of the files on both sides, each run of the script, its answer |
| `Check`, `Arm`, `StopTunnel`, `StopHome`, `CopyData`, `StartHome`, `CheckHome`, `StartTunnel`, `CheckTunnel` | `cutover` |
| `Trap`, `TrapTwice`, `Out`, `HomeBack`, `TunnelBack`, `Kill` | `rollback_on_error`, which a failing command substitution runs twice; `restore_user_services` |
| `host`, `boot` (`Bootstrap`) | what the bootstrap builds; where its run stands, what it found and kept |
| `Checkout` .. `StopShadow` | its steps in order, `HomePlist` with the provisioning script |
| `BootFails`, `BootKilled`, `Torn` | a refusal with the EXIT trap, a kill without it, and what a step that is cut off leaves |

`ProductionHost` composes helper and cutover: the script that a command runs has the id of its
request, and a promotion can complete only where the cutover has loaded the system Home.
Owners, modes, digests and schemas are one answer of each step: in order or denied. The
enabled state of jobs, which matters at the next boot only, and what production writes to its
copy are left out. One of the scripts runs at a time, except for cutovers among themselves.

### 2.7 Bake cam and camera host

`BakeCam` has the commands of one session: `ReadSession`, `Truncate` and `Fill` are every change of
`session.json`; `Shoot`, `ListSpool`, `Pick`, `CopyOk`, `CopyFails`, `File`, `PointLatest` are the rest of capture
and sync. `PiRunner` has the shell script: `Cron`, `NextRow`, `ShotOk`, `ShotFails`, `WriteMeta`,
`TouchMarker`, `UploadOk`, `UploadFails`, `Move`, `RunEnds`, and `PowerCut`. They share no file, so that a behaviour
of `BakeStation` follows one of the two.

### 2.8 Release evidence

`ReleaseEvidence` has three commands that read a checkout fact by fact (`LocalStart` ..
`LocalWrite`, `CloneStart` .. `CloneWrite`, `BuilderStart` .. `BuilderWrites`), somebody
who changes it, its literals list or the candidate meanwhile (`Change`), and deaths. Hashes are tree and lockfile of a
commit; ages and test numbers are answers.

## 3. Runs

| Run | Asks | Bounds and why they suffice |
|---|---|---|
| `merge` | is a merge an atomic compare-and-set; do tokens act once, are marks backed and latest, replays truthful | 2 candidates (a merge needs two), 2 clients, 4 writes per row: review, merge, review, second merge. `SmallRaces` keeps the fourth write, the second way to fill in a record and tombstones to one client |
| `import_race` | what an import can lose, beside another import or a client | 2 importers and 1 client, at most two of the three at once, 2 exports of a conversation, the second without one chunk; the client merges beside the first export |
| `import_subjects` | violation, section 6 | 1 importer |
| `promotion_safety` | do promotions and rollbacks, stopped anywhere, move only as approved and journalled | 3 builds in a chain, two manifests for one of them, 2 ids (one may be granted again), 1 operator: the lock does not wait, so a second one is refused; the proofs cover any number |
| `host` | is each reviewed operation run once and as reviewed, does the release move by those alone, is the journal truthful, the lock freed | 1 helper at a time with orphans of dead ones; 2 ids, one for a deployment or a rollback, so that an id may be asked for again after its review failed, one for a cutover or a rollback |
| `provisioning` | what bootstrap and cutover leave when rerun, failed or killed | two plans: 2 boots around a cutover on a blank host, 2 cutovers at once on a bootstrapped one; 2 candidates, a proper and a mixed archive, a database and its journal |
| `bake` | is a still kept and counted; does a due one arrive | 2 processes, 3 commands, 1 kill; 2 overlapping cron runs, 1 offset with 2 stamps, 1 loss of power |
| `memory` | searches, ratings and exports beside writers | 2 chunks of a message, 2 writers, 3 ratings (two downs retire a record), 1 tombstone at any of the four levels, limits of 1 row |
| `home_server` | are answers governed and ranked as told; is no note lost | every memory of up to 4 of 12 hits, 31 queries; 2 threads, 4 calls, 1 stop, one title |
| `recipe_attempts` | violation, section 6 | 1 thread |
| `release` | what a ready manifest and a clean clone may claim | 2 commits, 2 lists of literals, 1 change of each, 2 commands started |
| `candidates` | is every candidate accounted for, are groups classes, do counts match lists | every queue of up to 3 of 12 candidates made to bridge, contradict, qualify and repeat each other, 1 write at any point |

Symmetry is used only in runs without liveness properties: clients, importers, ids, operators, chunks. The
deadlock check is on in every run but those in which the system may rightly come to rest: `host` (every id
used), `provisioning` (scripts done), `bake` (commands used up, everything uploaded), `home_server` and
`recipe_attempts` (calls used up), `release` (starts used up). Counters are bounded by `MaxWrites`, `MaxRatings`, `MaxTombstones`,
`MaxCommands`, `MaxCrashes`, `MaxPowerCuts`, `MaxCalls`, `MaxChanges`, `MaxStarts` and the plan of a bootstrap; each appears in
the guard of what it bounds.

What the properties say, and the exceptions they make, is in the comment before each. Exceptions
are windows in which the code is known to lose something: `InWindow` of an import,
`disturbed` records, `overlapped` and `torn` session files, `raced` notes, a `missed` bootout. A history variable
names each, so that a loss outside of them is a violation.

## 4. Fairness

Safety properties assume none. Three runs have liveness properties:

* `LockIsFreed` (`host`): helper and command processes go on (`WF` of `Continue` for each helper, of `CommandOf`
  for each operation). Nothing waits for a human: dispatch, subprocess and exit are one program, and every
  subprocess it waits for returns.
* `EndsServing` (`provisioning`): `WF` of each script's steps: launchctl, rsync and curl return, and the waits for
  health are loops with a bound. A kill is always possible and never assumed.
* `DueIsUploaded` (`bake`): cron and the kernel run the script (`WF`); a camera and a network that are tried
  again and again work some time (`SF` of `ShotOk` and `UploadOk`). Without the last, nothing the script does would upload a still.


## 5. Proofs

TLAPS checks the theorems for every value of the constants: any numbers of candidates, clients,
importers, chunks, writers, builds, approvals, operators, helpers, scripts, files, archives,
captures, commands and runs, and any bounds. Each proof module extends the module it is about;
those listed in `PROJECT.json` under `theorems` are the results to know, the rest are lemmas. Each
theorem rests on the named assumptions about constants of its modules, which only say that
markers such as `None` are not values, that tables have their types, where something is
counted or sorted, that sets are finite and no two of their members have one place in the order, that a row has the role
of the chunk it was made of and a subject's name holds itself, and of a release that each commit is free of the literals of some list and that
`clean_clone` is among the kinds of evidence but none of the local ones. TLC evaluates them in every run.

**CandidateMerge_proofs.** Two levels. Of `AtomicMerge`, whose only merge is a compare-and-set, `AtomicInv`
is inductive: no row is newer than its clock, and an event still has its record and links, was made
under the token whose states it used, and the rows it used have moved on since (`EventsHold`). Then the
calls of `CandidateMerge`: `IInv` adds what a client knows (`Known`). Rows are read one by one without a lock, so a
snapshot may be of no moment; what makes it good for something is that timestamps only grow: a row that
has the timestamp that was read has the state that was read. Hence the comparison of `Commit` is a comparison
with the tables of that moment, `Commit` is a merge of `AtomicMerge`, and every other step is a step of a
table or a stutter. The safety properties of the calls follow from those of the tables.

The same module has the imports. `ImportInv` follows a decision that is not exposed (`Followed`): wherever it is, its row
holds it, or an importer on its way to write it back carries it, and no importer carries another one. The first
attempt failed for a good reason: when a second import, of another export, inserts the
row again meanwhile, a decision on it is lost although no import had captured it. `InWindow` names that window
now. `CommitsStayAtomic` cannot be proved because it is false from four importers on: a
restore writes the status back without a new `updated_at`, so that four restores of one row may change its status between
the reads of an apply and its transaction and leave the timestamp that was read.

**ControlledPromotion_proofs.** First the adapter: only the holder of the lock is inside an operation, and where it
stands says in which directory its approval is (`ApprovalInv`), that marker and pointer agree (`HostInv`), and
what the journal holds (`JournalInv`). From these come the outcomes of results, the records of moves, frozen splits and the
implementation of `PromotionSpec`. Then the rules: `ControlledSpec` implies the adapter's `Spec`, so that all
of this holds of it; `RulesInv` adds that an approval and the authorization that binds it lie in the same
directory, that the operation under way is allowed by the manifest and authorization it took, and that every
release has an approved manifest and its predecessor beside it.

**ProductionHost_proofs.** `CutoverInv` says which jobs are loaded where the one armed script stands
(`Going`) and that the system Home is down while a script stops the user's or brings them back
(`ServicesApart`); `Copied` what has been copied. The helper and the bootstrap are other actors beside those scripts. `HostInv`: requests have
one id each and were reviewed, an id is started at most once, commands belong to consumed operations, and every
record in the journal or in a helper's hands is true (`RecordsOK`, `JournalOK`); what a helper decided before it
launched is stale only through an orphan (`Drifted`). With it the helper implements `ReviewedOperation`. `GrantsOK` adds
that an id has one approval at most, because the directory of a review stays whatever becomes of it: so each change of the
release executes one consumed operation by the approval of its own review (`ReleaseFollowsReview`). The helper's approvals and
moves are those of `PromotionSpec` by definition, so that this refinement is not claimed as a result; it is one for
`TrustedPromotion`. `BootInv` says which parts a run has made by now (`Built`) and that what any earlier
run left fits together (`Startable`); torn steps keep it (`TornFits`). The cutovers keep their invariant because a bootstrap
runs only while none is under way (`Alone`).

**MemorySearch_proofs.** A counter kept by read-modify-write in other transactions than the rows it counts. `RatingsOK` has
three parts: what a record says, and what any writer is about to write of it, never exceeds the rows less those in flight (`Below`), for every
record, disturbed or not, which is why a stale record has had two downs; for an undisturbed one there is equality
(`Exact`); and a writer in flight has one row (`Pending`). `LinksOK` and `SettledLinked` tie a record to its conversation once its promotion
is finished, which is what the tombstone of a conversation goes by; `ExportOK` keeps what the export has read of what the
tables held. Chunks and writers are finite.

**BakeStation_proofs.** The spool is in a file that cannot be read between `Truncate` and `Fill`, so that an invariant of the
file alone says nothing there. `Story` speaks of contents that exist whether or not they are on disk: those last
read, of which the draft of the running command is its change. `Good` holds of them, and `Progress` says how far the
command is: a capture keeps its item in the spool until it is counted, and a sync counts every item that it no
longer holds (`Uncounted`). The runner of the camera host is proved type correct.

**ReleaseEvidence_proofs.** Each command reads the checkout fact by fact and nobody stops the checkout from moving, so
that what a command has read may be of no moment. The invariant counts the changes since the command started. None: all that
was read is still so, and all gates ran in this worktree (`LocalStory`, `CloneOn`). One: the gates ran before it, or they ran in a worktree that the second
reading, which is yet to come or under way, shows to be another. From two changes on the second may undo the first and
nothing is claimed. A builder that nothing blocked has counted good evidence of the identity it read (`Counted`); that this identity, although
read in four steps, is that of one commit follows from the clean clone among the kinds, whose evidence is of one commit. For a clone,
the sheet beside the candidate carries the list it was scanned with from one process to the next (`CloneScanned`), and one
change of the candidate before the verification is found by the audit after it (`CloneWhole`).

**HomeServer_proofs.** A context request reads the memory once, so that `ContextInv` says little more than what each stage
has computed; the theorems are about what a computation returns, for any memory, query and caps. A search sorts its hits,
passes them through the shares of messages and conversations one by one, and cuts what is left. The sort is replaced by ranks
(`RanksFill`: each place is taken, and by one), the loop by a function on `0 .. n` whose existence is
shown first. `Sifted` is the invariant of that loop: a hit that is left out had no room for better
ones, which were kept. Hence what is returned is the best of what may be returned, and the disclosure falls with the score
(`BestAreFirst`). What the scope admits is evidence by the policies of its query, which widening by a slot does not change
(`PacketsAreEvidence`, `AdviceIsGrounded`).

Of notes, `NotesInv` says where what callers were told is to be found: in the file, unless a call is filling it; in the text that the
one writing call carries, when one is. That a text *contains* the lines is not enough, as the next normalization takes the card apart
and writes it anew; `Holds` asks that the lines are in the text and among what survives the taking apart (`Survives`), and that an
attempt falls under the Notes section when it came after the last section (`LateAttempt`). `Run` describes a parse as a
sequence of states, one for each element, which can be split and joined (`RunSplit`, `RunConcat`); with it, rendering what was parsed
and parsing it again finds the same parts (`RenderKeeps`), and so appending and normalizing keep `Holds`. Notes that several calls write at once (`raced`)
and attempts in cards without a Notes section (`reshaped`) are excepted, as in the property.

**CandidateShadow_proofs.** `ReviewInv` says what a review has read of the tables as long as no other command has written
since it began (`ShowsTables`): every write takes a tick of the clock and none is undone. The counts are then a matter of the operators:
a listing is the scope of a filter in its order (`InOrderSorts`), cut at a limit, and the rows joined to a
subject in three ways are that scope (`JoinedIsScope`) when the name asked for is part of no other. `ShadowInv` adds that a
report is the report on some rows, without which a later property would have nothing to speak of, as
the tables may change while it stands. Two arguments follow. Batches are cuts of the
sources at multiples of the batch size, and joining their decisions gives those of the sources one after the other
(`BatchesDecideAll`, `FlattenJoins`); as the evaluated rows are the first of their chunks, every row has one
place (`ReportAccounts`). Union-find: no parent comes after its child, so that the parents lead to a root (`RootType`), and a join
moves one class of roots onto another (`JoinedRoots`). That linked claims share a root is an invariant of the loop; that nothing else
does is stated with the sets that no link leaves (`IsClosed`): each of them remains a union of classes (`MergedKeeps`), so that a part of a
group without a link to the rest would be the whole of it (`ComponentsPartition`). With the sets "of one kind of author" and "of one polarity", which
no link leaves, the groups keep assistants apart, and claims with a word of negation from those without. Polarity is what the
code's list tells: a claim denied by a contraction counts as affirmative (section 6).

**Induction.** The induction theorems of the library take an operator as parameter and cannot be used. The folds and
recursive functions of these modules go over finite ranges of numbers, and for those the least-number principle (`LeastNatural`,
from the well-foundedness of the natural numbers) and `CountUp`, stated of *sets* of numbers, are enough: that a recursive function exists on
`0 .. n`, and what it keeps, is shown by counting up. What has no such range, the sorting and selecting operators of the
library, is replaced in the models by the ranks of a finite set (`InOrder`) or least numbers (`Least`).

Left to TLC: the liveness properties (`LockIsFreed`, `EndsServing`, `DueIsUploaded`), as this
prover has neither fairness nor ENABLED, and `CommitsStayAtomic`, which is false for larger instances (above). Every
other property of a passing run is stated by a theorem. One property is proved and checked by no run: that a
candidate refers to a stored chunk and import (`NoDanglingCandidate`), which the cascade of one transaction gives.

## 6. Disagreements

Two are runs that end in a violation:

* `import_subjects`: an import reports `subject_assignments_preserved_for_unchanged_ids: True`
  (`memory/chatgpt_ingest.py:607`); it deletes every conversation of the export, and with it, by cascade, the
  assignments of unchanged ones.
* `recipe_attempts`: normalizing the recipe book deletes attempts of cards without a Notes section
  (`home_mcp.py:3657`); `docs/recipe_card_standard.md:55` says the rewrite preserves the substance.

Others were met while modelling and are not kept as runs:

* Importing the same export again rewrites `updated_at` of its candidates (`memory/candidates.py:164`, against
  `docs/chatgpt_memory_contract.md:718`).
* A promotion whose restart or smoke test raises has moved production and persists no result
  (`trusted_promotion.py:433`, against `docs/production_promotion.md:130-131`).
* With an empty marker the drift check passes and the approval is consumed (`trusted_promotion.py:661`, against
  `tests/test_trusted_promotion.py:278`).
* Each slot of a context appends words to the query and is scoped anew by them, so that a slot may hold evidence of
  another domain than the query's (`home_mcp.py:182`, against `docs/portfolio/decision-evidence-index.md:20`).
* A checkout that was changed and put back while the release evidence runs passes, since its identity is compared at the
  two ends (`run_release_evidence.py:604`, against `docs/evaluation/release_evidence_manifest.md:148`).
* The journal's rollback status "required" cannot be reached: a promotion that requires a rollback exits with
  an error before the status is read (`minillm_admin.py:1064`, against `docs/minillm_admin_helper.md:151`).
* A second bootstrap keeps the prompts of the first candidate, since `cp -R` nests, and its runtime and
  wheelhouse even when another archive was confirmed; a mixed wheelhouse that was refused once is accepted by the next run
  (against `docs/service_identity_provisioning.md:335`). `AppliedIsWhole` excepts what was kept.
* The server's `memory_search` discloses hits and records no retrieval event (`home_mcp.py:1875`, against
  `docs/memory_operating_model.md:216`).

What the code does and no document denies, but a reader should know: promotion of a candidate looks
neither at tombstones nor at its status; a second promotion of a chunk resets the status of its record (`memory/curated.py:197`); a
record that two "ups" brought back is retired by the next "up", as its two "downs" still count (`memory/feedback.py:585`); tombstones of messages do not reach the records
made of their chunks (`memory/search.py:809`); one candidate of a tool's message makes the whole shadow report fail
(`candidate_shadow.py:82`); a rollback whose restart fails leaves production on the old build with the
approval spent (`trusted_promotion.py:501`); three lists of denied paths differ, so that a release with a path under
`docs/data` passes gate and controller and fails in staging, after its approval is consumed
(`trusted_promotion.py:979`); words keep their apostrophe while the list of negations has "dont" and "doesnt"
(`candidate_canonicalization.py:99` and `:754`), so that a claim denied by "doesn't" counts as affirmative and may be
grouped with its opposite, "I don't like" at its start excepted (`:570`).

## 7. What is not modelled

`PROJECT.json` says for each component what is left out. In general: file permissions, owners and
symlinks; wording, logging, encodings and layout; creation and migration of schemas; parsing of exports,
attachments and messages; full text and vector scores; redaction; verification of Git objects and digests
beyond one answer; wire formats and authentication. Nothing is modelled of observability and run
logs (append-only, read by nobody but people), repository indexing, tools, agents, models and evaluations (sequential, no
shared state), and memory analysis and ontology (read-only reports). Manual updates of a record's status, ranking
controls as they are created and expire, and the front door are single statements or renderings.
