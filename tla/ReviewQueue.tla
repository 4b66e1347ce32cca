----------------------------- MODULE ReviewQueue ------------------------------
(* What a reviewer is shown of the candidate memories (candidates.py: listing,  *)
(* subject summaries, the high-signal filter; review_assist.py: the advice      *)
(* beside each candidate).                                                      *)
(*                                                                              *)
(* A row is a candidate as the importer leaves it: its source, the role of its  *)
(* author, its text as in ExtractionRules, the domains guessed from it (the     *)
(* first is the primary one). "queue" gives the rows that are stored their      *)
(* status and the time of their last change; "links" ties conversations and     *)
(* chunks to subjects.                                                          *)
EXTENDS CanonicalRules

CONSTANTS
  Subjects,        \* the subjects that are stored, in the order of their names
  NamedBy,         \* the subjects whose name holds the name asked for
  Fallback,        \* SUBJECT_DOMAIN_FALLBACKS, None for another subject
  CookingSubjects, \* subjects named for cooking, baking, recipes or food
  Cooking,         \* cooking_baking
  FetchLimit(_)    \* how many rows the high-signal filter looks through

\* _classify_candidate: what the importer made of a text, in the order it tries.
ImportClasses ==
  << [sign |-> "likes",   type |-> "preference", confidence |-> 75],
     [sign |-> "decided", type |-> "decision",   confidence |-> 72],
     [sign |-> "failed",  type |-> "failure",    confidence |-> 68],
     [sign |-> "instead", type |-> "workaround", confidence |-> 66],
     [sign |-> "we_need", type |-> "procedure",  confidence |-> 62],
     [sign |-> "must",    type |-> "procedure",  confidence |-> 62],
     [sign |-> "command", type |-> "procedure",  confidence |-> 62],
     [sign |-> "later",   type |-> "open_loop",  confidence |-> 52],
     [sign |-> "worked",  type |-> "episodic",   confidence |-> 64] >>

Imported(row) ==
  LET signs == Signs(row.text)
      found == {i \in DOMAIN ImportClasses : ImportClasses[i].sign \in signs}
  IN  IF row.role = "assistant"
      THEN [sign |-> None, type |-> "assistant_suggestion", confidence |-> 35]
      ELSE IF found = {} THEN [sign |-> None, type |-> "episodic", confidence |-> 50]
      ELSE ImportClasses[Least(found)]

Flagged(row) == row.role = "assistant"

\* ---- subjects ----

\* _subject_filter_clause.
Matches(row, subject, links) ==
  \/ \E s \in NamedBy[subject] : {<<row.chunk, s>>, <<row.conversation, s>>} \cap links # {}
  \/ Fallback[subject] = row.domains[1]

\* The rows that list_candidate_subjects joins to a subject, by chunk, by
\* conversation and by domain.
Joins(rows, subject, links) ==
  << {r \in rows : <<r.chunk, subject>> \in links},
     {r \in rows : <<r.conversation, subject>> \in links},
     {r \in rows : Fallback[subject] = r.domains[1]} >>

\* Counts a row once for each way it is joined.
RollupTwice(rows, subject, links) ==
  LET joins == Joins(rows, subject, links)
  IN  Cardinality(joins[1]) + Cardinality(joins[2]) + Cardinality(joins[3])

Rollup(rows, subject, links) ==
  LET joins == Joins(rows, subject, links)
  IN  Cardinality(joins[1] \union joins[2] \union joins[3])

\* ---- quality ----

\* _candidate_quality_clause.
InQuality(row, quality) ==
  \/ quality = "all"
  \/ /\ row.role = "user" /\ ~ Flagged(row)
     /\ \/ quality = "user_only"
        \/ /\ Imported(row).confidence >= 60
           /\ row.text # <<>> /\ Size(row.text) # Tiny
           /\ Imported(row).type \in {"preference", "decision", "failure", "workaround", "procedure", "episodic"}
           /\ "contextless" \notin Signs(row.text)

StartsAsQuestion(t) == "question" \in t[1].core

Durable(t) == Signs(t) \cap {"likes", "failed", "worked"} # {}

IsFragment(t) ==
  \/ Size(t) = Tiny /\ AsksOnly(t)
  \/ StartsAsQuestion(t) /\ Size(t) < Many /\ ~ Durable(t)
  \/ Size(t) < Many /\ "today" \in Signs(t)

IsReference(t) ==
  \/ IsOption(t)
  \/ Size(t) < Many /\ {"pronoun", "question"} \subseteq Signs(t)

IsPassingQuestion(row) ==
  /\ "question" \in Signs(row.text) /\ ~ Durable(row.text)
  /\ \/ Imported(row).type \in {"procedure", "episodic"} /\ Size(row.text) < Many
     \/ /\ Imported(row).type \notin {"preference", "decision", "failure", "workaround"}
        /\ StartsAsQuestion(row.text)

\* Words of cooking in the text that are too few, or that belong to another topic.
IsOffTopic(row, subject) ==
  LET hits == row.hits[Cooking]
      outcome == {"was_good", "worked"} \cap Signs(row.text) # {}
  IN  /\ subject \in CookingSubjects
      /\ \/ Cooking \notin {row.domains[i] : i \in DOMAIN row.domains}
         \/ hits = 0
         \/ "competing" \in Signs(row.text) /\ hits < 3 /\ ~ outcome
         \/ "shopping" \in Signs(row.text) /\ ~ outcome
         \/ Imported(row).type = "preference" /\ hits < 2 /\ ~ (outcome /\ "object" \in Signs(row.text))
         \/ Size(row.text) = Huge /\ hits + row.title[Cooking] < 2

\* The text needs an image, or is about the memory and its tests.
NeedsContext(t) == Signs(t) \cap {"image", "meta"} # {}

\* _reject_high_signal_review_candidate.
IsNoise(row, subject) ==
  \/ IsFragment(row.text) \/ IsReference(row.text)
  \/ NeedsContext(row.text)
  \/ IsPassingQuestion(row)
  \/ IsOffTopic(row, subject)
  \/ Imported(row).type = "procedure" /\ "question" \in Signs(row.text) /\ Size(row.text) < Many

\* Jaccard's index of 0.86 or more.
NearDuplicate(row, other) ==
  LET a == Words(row.text)
      b == Words(other.text)
  IN  a # {} /\ b # {} /\ 100 * Cardinality(a \cap b) >= 86 * Cardinality(a \union b)

\* _post_filter_high_signal_review_candidates.
Filtered(rows, subject) ==
  FoldLeft(LAMBDA kept, row :
             IF IsNoise(row, subject) \/ \E i \in DOMAIN kept : NearDuplicate(row, kept[i])
             THEN kept ELSE Append(kept, row),
           <<>>, rows)

\* ---- listing ----

Before(queue, r, s) ==
  LET a == <<Imported(r).confidence, queue[r].at>>
      b == <<Imported(s).confidence, queue[s].at>>
  IN  \/ a[1] > b[1]
      \/ a[1] = b[1] /\ a[2] > b[2]
      \/ a = b /\ r.id < s.id

Selected(queue, filter) ==
  {r \in DOMAIN queue :
     /\ filter.status \in {None, queue[r].status}
     /\ filter.assistantOnly => Flagged(r)
     /\ InQuality(r, filter.quality)}

Upto(seq, n) == SubSeq(seq, 1, AtMost(n, Len(seq)))

\* The rows of a subject that a filter lets through.
Scope(queue, links, subject, filter) == {r \in Selected(queue, filter) : Matches(r, subject, links)}

\* list_candidate_memories_for_subject.
Listed(queue, links, subject, filter, limit) ==
  LET scope == Scope(queue, links, subject, filter)
      rows  == InOrder(scope, {p \in scope \X scope : Before(queue, p[1], p[2])})
  IN  IF filter.quality = "high_signal"
      THEN Upto(Filtered(Upto(rows, FetchLimit(limit)), subject), limit)
      ELSE Upto(rows, limit)

Statuses == <<"pending", "approved", "merged", "rejected">>

\* list_candidate_memories, of a subject.
Queued(queue, links, subject, filter, limit) ==
  LET scope   == Scope(queue, links, subject, filter)
      rank(r) == CHOOSE i \in DOMAIN Statuses : Statuses[i] = queue[r].status
      sooner(r, s) == rank(r) < rank(s) \/ (rank(r) = rank(s) /\ Before(queue, r, s))
  IN  Upto(InOrder(scope, {p \in scope \X scope : sooner(p[1], p[2])}), limit)

\* list_candidate_subjects: the subjects with most rows, the most active of two
\* alike, as many as are asked for.
Summaries(queue, links, filter, limit) ==
  LET stored == ToSet(Subjects)
      count == [s \in stored |-> Rollup(Selected(queue, filter), s, links)]
      latest(s) ==
        LET joins == Joins(Selected(queue, filter), s, links)
            times == {0} \union {queue[r].at : r \in joins[1] \union joins[2] \union joins[3]}
        IN  CHOOSE t \in times : \A u \in times : u <= t
      name(s) == CHOOSE i \in DOMAIN Subjects : Subjects[i] = s
      more(s, t) ==
        \/ count[s] > count[t]
        \/ count[s] = count[t] /\ latest(s) > latest(t)
        \/ count[s] = count[t] /\ latest(s) = latest(t) /\ name(s) < name(t)
      top == Upto(InOrder(stored, {p \in stored \X stored : more(p[1], p[2])}), limit)
  IN  [s \in {top[i] : i \in DOMAIN top} |-> count[s]]

\* The count shown for the subject asked about: memory_review_subjects counts the
\* rows it lists when the subject is not among the summaries.
SelectedCount(summaries, subject, listed) ==
  IF subject \in DOMAIN summaries THEN summaries[subject] ELSE Len(listed)

\* The high-signal filter does not apply to what assistants said.
Effective(filter) ==
  IF filter.assistantOnly /\ filter.quality = "high_signal" THEN [filter EXCEPT !.quality = "all"] ELSE filter

\* ---- advice ----

Clamp(n) == AtMost(AtLeast(n, 0), 10000)
When(condition, n) == IF condition THEN n ELSE 0

AsksReview(t) == AsksOnly(t) \/ StartsAsQuestion(t)
Wants(t)      == "likes" \in Signs(t)
Outcome(t)    == Signs(t) \cap {"worked", "failed"} # {}
Bound(t)      == Signs(t) \cap {"image", "option"} # {}

Durabilities ==
  [preference |-> 7200, decision |-> 7800, failure |-> 8200, workaround |-> 7600,
   episodic |-> 5500, procedure |-> 4200, open_loop |-> 2500]

\* In ten-thousandths.
Durability(row) ==
  LET t    == row.text
      type == Imported(row).type
  IN  IF Flagged(row) THEN 1000
      ELSE Clamp((IF type \in DOMAIN Durabilities THEN Durabilities[type] ELSE 4000)
                 + When(Outcome(t), 1800) + When(Wants(t), 1400)
                 - When(AsksReview(t) /\ ~ Outcome(t) /\ ~ Wants(t), 3200)
                 - When(Signs(t) \cap {"today", "now"} # {}, 1800))

Clarity(t) ==
  IF Size(t) < Some THEN 1000
  ELSE Clamp(6200 + When(Size(t) >= Many, 1500) + When(Size(t) = Huge, 800)
             - When(AsksReview(t), 2800) - When(Bound(t), 2800) - When("option" \in Signs(t), 3500))

Centrality(row, subject) ==
  LET hits == row.hits[Cooking]
  IN  Clamp(4500 + When(Fallback[subject] \in {row.domains[i] : i \in DOMAIN row.domains}, 2500)
            + When(subject \in CookingSubjects, IF hits = 0 THEN -3500 ELSE AtMost(1200 * hits, 3600))
            - When("competing" \in Signs(row.text), 3000))

ReviewValue(row) ==
  Clamp(55 * Imported(row).confidence
        + When(Imported(row).type \in {"preference", "decision", "failure", "workaround"}, 2000)
        + When(Outcome(row.text), 2000) - When("meta" \in Signs(row.text), 4500))

Blocked(row, subject) ==
  LET t == row.text
  IN  \/ Flagged(row)
      \/ "meta" \in Signs(t)
      \/ AsksReview(t) /\ ~ Outcome(t) /\ ~ Wants(t)
      \/ Size(t) < Some \/ Bound(t)
      \/ subject \in CookingSubjects /\ "competing" \in Signs(t)
      \/ subject \in CookingSubjects /\ "question" \in Signs(t) /\ "shopping" \in Signs(t)

\* score_candidate_for_review, in thousandths.
ReviewScore(row, subject) ==
  LET whole == (35 * Durability(row) + 25 * Clarity(row.text) + 25 * Centrality(row, subject)
                + 15 * ReviewValue(row)) \div 100
      score == (whole + 5) \div 10
  IN  AtMost(score, IF Flagged(row) THEN 250 ELSE IF Blocked(row, subject) THEN 440 ELSE 1000)

Advice(row, subject) ==
  LET score == ReviewScore(row, subject)
  IN  IF score < 450 THEN "skip" ELSE IF score < 650 THEN "needs_context" ELSE "review"

===============================================================================
