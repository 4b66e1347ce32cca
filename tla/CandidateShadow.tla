---------------------------- MODULE CandidateShadow ---------------------------
(* The shadow report on a subject's pending candidates (candidate_shadow.py,    *)
(* the commands memory-candidate-shadow and memory-review-subjects): a listing, *)
(* the strict extraction of every row in batches, two comparisons, and counts   *)
(* of the tables before and after. Each statement reads a database that an      *)
(* import, a review or a subject assignment may change between two of them. The *)
(* two commands only read, so that one runs at a time here.                     *)
EXTENDS ReviewQueue

CONSTANTS
  Rows,            \* candidates an import may add
  Queues,          \* sets of rows that are stored at first
  Ties,            \* ties to subjects that may be there or be added
  Decisions,       \* statuses that a reviewer gives: approved, rejected, merged
  Filters,         \* what a review asks for
  BatchSize,       \* MAX_SOURCES_PER_BATCH
  PerSource,       \* MAX_CANDIDATES_PER_SOURCE
  CandidateLimit,  \* candidate_limit
  SubjectLimit,    \* subject_limit
  QueueLimit,      \* limit of memory-candidates
  MaxWrites        \* bound: writes by other commands

\* The rows that may be stored.
Stored == Rows \union UNION Queues

\* A row has an id of its own and the role of the chunk it was made of.
ASSUME RowsAssumption ==
  /\ \A rows \in Queues : IsFiniteSet(rows)
  /\ \A r, s \in Stored : r.id = s.id => r = s
  /\ \A r, s \in Stored : r.chunk = s.chunk => r.role = s.role
  /\ \A r \in Stored : r.id \in Int /\ r.hits[Cooking] \in Nat

\* A stored subject can be asked for, and its name holds itself.
ASSUME NamesAssumption ==
  /\ Subjects \in Seq(DOMAIN NamedBy)
  /\ \A s \in ToSet(Subjects) : s \in NamedBy[s]

ASSUME ChoicesAssumption ==
  /\ Decisions \subseteq ToSet(Statuses)
  /\ Filters \subseteq [status : ToSet(Statuses) \union {None}, assistantOnly : BOOLEAN,
                        quality : {"all", "user_only", "high_signal"}]
  /\ {BatchSize, PerSource} \subseteq Nat \ {0}
  /\ {CandidateLimit, SubjectLimit, QueueLimit, FetchLimit(CandidateLimit)} \subseteq Nat

VARIABLES
  queue,   \* stored rows, each with its status and the time of its last change
  links,   \* ties of chunks and conversations to subjects
  clock,   \* writes so far
  shadow,  \* the shadow command
  review   \* the review command

vars == <<queue, links, clock, shadow, review>>

Idle == [at |-> "idle"]

ShadowInit ==
  /\ \E rows \in Queues : queue = [r \in rows |-> [status |-> "pending", at |-> 0]]
  /\ links \in SUBSET Ties
  /\ clock = 0
  /\ shadow = Idle /\ review = Idle

\* ---- other commands ----

\* An import stores a candidate (replace_candidate_memories).
Import(r) ==
  /\ clock < MaxWrites
  /\ r \notin DOMAIN queue
  /\ queue' = [s \in DOMAIN queue \union {r} |->
                 IF s = r THEN [status |-> "pending", at |-> clock + 1] ELSE queue[s]]
  /\ clock' = clock + 1
  /\ UNCHANGED <<links, shadow, review>>

\* A reviewer decides on a candidate (update_candidate_review).
Decide(r, status) ==
  /\ clock < MaxWrites
  /\ queue[r].status = "pending"
  /\ queue' = [queue EXCEPT ![r] = [status |-> status, at |-> clock + 1]]
  /\ clock' = clock + 1
  /\ UNCHANGED <<links, shadow, review>>

\* A conversation or a chunk is assigned to a subject.
Assign(tie) ==
  /\ clock < MaxWrites
  /\ tie \notin links
  /\ links' = links \union {tie}
  /\ clock' = clock + 1
  /\ UNCHANGED <<queue, shadow, review>>

\* ---- the report ----

\* A row as a source of the extraction: by then it is known by its conversation,
\* message and chunk, and its subject is not given.
Source(r) ==
  [key |-> r.chunk, role |-> r.role, text |-> r.text, hits |-> r.hits, title |-> r.title,
   domain |-> r.domains[1], domainConfidence |-> 65]

IsFirst(rows, i) == \A j \in 1 .. i - 1 : rows[j].chunk # rows[i].chunk

\* A row whose source an earlier one has is invalid.
Evaluated(rows) ==
  LET first == {i \in DOMAIN rows : IsFirst(rows, i)}
      kept  == InOrder(first, {p \in first \X first : p[1] < p[2]})
  IN  [n \in DOMAIN kept |-> rows[kept[n]]]

Batches(seq, n) ==
  [b \in 1 .. (Len(seq) + n - 1) \div n |-> SubSeq(seq, n * (b - 1) + 1, AtMost(n * b, Len(seq)))]

LegacyClaim(r) ==
  [id |-> r.id, text |-> r.text, role |-> r.role, suggestion |-> Flagged(r),
   domains |-> {r.domains[i] : i \in DOMAIN r.domains}, subjects |-> {},
   confidence |-> Imported(r).confidence]

ProposedClaim(r, decision) ==
  [id |-> r.id, text |-> decision.text, role |-> decision.role, suggestion |-> decision.suggestion,
   domains |-> {decision.domain}, subjects |-> {decision.subject}, confidence |-> decision.confidence]

\* build_candidate_shadow_report. A role that the extraction does not know fails
\* the whole report, whichever row has it.
Report(rows, subject) ==
  LET valid     == Evaluated(rows)
      sources   == [i \in DOMAIN valid |-> Source(valid[i])]
      batches   == Batches(sources, BatchSize)
      decisions == FlattenSeq([b \in DOMAIN batches |->
                     [i \in DOMAIN batches[b] |-> Decision(batches[b][i])]])
      row(d)    == CHOOSE r \in ToSet(valid) : r.chunk = d.key
      accepted  == {d \in ToSet(decisions) : d.accepted}
  IN  IF \E b \in DOMAIN batches : ~ Extractable(batches[b], BatchSize)
      THEN [ok |-> FALSE]
      ELSE [ok |-> TRUE,
            rows      |-> rows,
            invalid   |-> {r.id : r \in ToSet(rows) \ ToSet(valid)},
            sources   |-> sources,
            decisions |-> decisions,
            refused   |-> {row(d).id : d \in ToSet(decisions) \ accepted},
            legacy    |-> Comparison({LegacyClaim(r) : r \in ToSet(rows)}, subject),
            proposed  |-> Comparison({ProposedClaim(row(d), d) : d \in accepted}, subject)]

\* ---- memory-candidate-shadow ----

Pending == [status |-> "pending", assistantOnly |-> FALSE, quality |-> "all"]

BeginShadow(subject) ==
  /\ shadow = Idle /\ review = Idle
  /\ shadow' = [at |-> "counted", subject |-> subject, before |-> Cardinality(DOMAIN queue)]
  /\ UNCHANGED <<queue, links, clock, review>>

ListShadow ==
  /\ shadow.at = "counted"
  /\ shadow' = [at     |-> "listed", subject |-> shadow.subject, before |-> shadow.before,
                report |-> Report(Listed(queue, links, shadow.subject, Pending, CandidateLimit), shadow.subject)]
  /\ UNCHANGED <<queue, links, clock, review>>

\* Counts again: a table that another command changed meanwhile looks like one
\* that the report changed.
EndShadow ==
  /\ shadow.at = "listed"
  /\ shadow' =
       IF ~ shadow.report.ok \/ Cardinality(DOMAIN queue) # shadow.before THEN Idle
       ELSE [at |-> "reported", subject |-> shadow.subject, report |-> shadow.report]
  /\ UNCHANGED <<queue, links, clock, review>>

\* ---- memory-review-subjects ----

BeginReview(subject, filter) ==
  /\ review = Idle /\ shadow = Idle
  /\ review' = [at |-> "summed", subject |-> subject, filter |-> filter, clock |-> clock,
                summaries |-> Summaries(queue, links, Effective(filter), SubjectLimit)]
  /\ UNCHANGED <<queue, links, clock, shadow>>

ListReview ==
  /\ review.at = "summed"
  /\ LET listed == Listed(queue, links, review.subject, Effective(review.filter), CandidateLimit)
     IN  review' = [at     |-> "reviewed", subject |-> review.subject, filter |-> review.filter,
                    clock  |-> review.clock,
                    listed |-> listed,
                    known  |-> review.subject \in DOMAIN review.summaries,
                    count  |-> SelectedCount(review.summaries, review.subject, listed),
                    advice |-> [i \in DOMAIN listed |-> Advice(listed[i], review.subject)]]
  /\ UNCHANGED <<queue, links, clock, shadow>>

\* memory-candidates, for the subject that was reviewed.
ListQueue ==
  /\ review.at = "reviewed"
  /\ review' = [at     |-> "queued", subject |-> review.subject, filter |-> review.filter,
                clock  |-> review.clock, known |-> review.known, count |-> review.count,
                listed |-> Queued(queue, links, review.subject, review.filter, QueueLimit)]
  /\ UNCHANGED <<queue, links, clock, shadow>>

Again ==
  /\ shadow.at = "reported" \/ review.at \in {"reviewed", "queued"}
  /\ shadow' = Idle /\ review' = Idle
  /\ UNCHANGED <<queue, links, clock>>

ShadowNext ==
  \/ \E r \in Rows : Import(r)
  \/ \E r \in DOMAIN queue, status \in Decisions : Decide(r, status)
  \/ \E tie \in Ties : Assign(tie)
  \/ \E subject \in DOMAIN NamedBy :
       \/ BeginShadow(subject)
       \/ \E filter \in Filters : BeginReview(subject, filter)
  \/ ListShadow \/ EndShadow \/ ListReview \/ ListQueue \/ Again

ShadowSpec == ShadowInit /\ [][ShadowNext]_vars

\* ---- properties ----

Reported == shadow.at = "reported"

IdsOf(rows) == {rows[i].id : i \in DOMAIN rows}

\* Sets that have no member in common.
Apart(a, b) == a \cap b = {}

\* Whatever the batches and whatever other rows share its source, every candidate
\* of the queue ends in one place: it is invalid, refused by the extraction,
\* refused as a claim, or in exactly one group; and what the extraction decided is
\* what the validation of a model's output would take, but for texts too short.
\* (build_candidate_shadow_report, validate_model_extraction_payload)
AllAreAccounted ==
  Reported =>
    LET report  == shadow.report
        grouped == UNION {g.ids : g \in report.proposed.groups}
    IN  /\ IdsOf(report.rows) = report.invalid \union report.refused \union report.proposed.rejected \union grouped
        /\ Apart(report.invalid, report.refused)
        /\ Apart(report.invalid \union report.refused, report.proposed.rejected \union grouped)
        /\ Apart(report.proposed.rejected, grouped)
        /\ \A g, h \in report.proposed.groups : g # h => Apart(g.ids, h.ids)
        /\ (\A d \in ToSet(report.decisions) : d.accepted => Size(d.text) # Tiny) => ValidOutput(report.decisions, report.sources, PerSource)

\* Claims that are linked share a group, and no group falls into two parts without
\* a link between them: the groups are the classes of the least equivalence, in
\* whatever order union-find met its pairs.
AreClasses(claims, groups) ==
  LET linked(a, b) == IF a.id < b.id THEN SaysTheSame(a, b) ELSE SaysTheSame(b, a)
      of(ids) == {c \in claims : c.id \in ids}
  IN  /\ \A a, b \in claims : linked(a, b) => \E g \in groups : {a.id, b.id} \subseteq g.ids
      /\ \A g \in groups : \A part \in (SUBSET g.ids) \ {{}, g.ids} :
           \E a \in of(part), b \in of(g.ids \ part) : linked(a, b)

\* The groups of both comparisons are the classes of claims that say the same; none
\* joins what a user said with what an assistant suggested, or a claim that has one of
\* the code's words of negation with one that has none, which says nothing of a claim
\* denied by a contraction (Negations); and assistants' words are nowhere a fact, nor
\* advised for review.
\* (canonicalize_candidate_set, _build_group, score_candidate_for_review)
GroupsAreSound ==
  /\ Reported =>
       \A side \in {shadow.report.legacy, shadow.report.proposed} :
         LET author(id) == (CHOOSE r \in ToSet(shadow.report.rows) : r.id = id).role
         IN  /\ AreClasses(side.accepted, side.groups)
             /\ \A g \in side.groups : \A id \in g.ids : (g.class = "user_evidence") = (author(id) = "user")
             /\ \A g \in side.groups : \A c, d \in side.accepted :
                  {c.id, d.id} \subseteq g.ids => Polarity(c) = Polarity(d)
             /\ \A r \in side.conflicts \union side.qualifications : \A id \in r.ids : author(id) = "user"
  /\ review.at = "reviewed" =>
       \A i \in DOMAIN review.listed : Flagged(review.listed[i]) => review.advice[i] = "skip"

\* The count shown for a subject is the number of candidates that its listings hold,
\* unless one was cut at its limit, another command wrote between the statements, or
\* the subject's name is part of another's; the high-signal filter of a review may
\* only show fewer, each of them once, and the list of the queue shows nothing that
\* was decided while it leaves out what is pending. (list_candidate_subjects,
\* list_candidate_memories_for_subject, list_candidate_memories)
SummaryCountsTheQueue ==
  (review.at \in {"reviewed", "queued"} /\ review.clock = clock /\ NamedBy[review.subject] \subseteq {review.subject}) =>
    LET shown   == Len(review.listed)
        quality == Effective(review.filter).quality
        whole   == review.known /\ quality # "high_signal"
    IN  IF review.at = "reviewed"
        THEN /\ shown <= review.count
             /\ whole => shown = AtMost(review.count, CandidateLimit)
             /\ quality = "high_signal" =>
                  \A i, j \in DOMAIN review.listed :
                    i # j => ~ NearDuplicate(review.listed[i], review.listed[j])
        ELSE /\ review.known /\ quality = review.filter.quality =>
                  shown = AtMost(review.count, QueueLimit)
             /\ (\E i \in DOMAIN review.listed : queue[review.listed[i]].status # "pending") =>
                  \A r \in Selected(queue, review.filter) :
                    Matches(r, review.subject, links) /\ queue[r].status = "pending" => r \in ToSet(review.listed)

===============================================================================
