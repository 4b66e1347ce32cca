---------------------------- MODULE CanonicalRules ----------------------------
(* How a set of candidate claims is grouped (candidate_canonicalization.py):   *)
(* which claims are rejected, which say the same, which qualify or contradict  *)
(* each other, and the report on it.                                           *)
(*                                                                             *)
(* A claim is a record: its id, its text as in ExtractionRules, the role of    *)
(* its source, whether it is flagged as a suggestion, its domains and the      *)
(* subjects its metadata names, its confidence in hundredths.                  *)
EXTENDS ExtractionRules

CONSTANTS
  Threshold,          \* DEFAULT_NEAR_DUPLICATE_THRESHOLD, in hundredths
  Ratio(_, _),        \* SequenceMatcher's ratio of two sets of words, in hundredths
  DomainTerms,        \* the words that speak of a domain
  SubjectDomains      \* the domains that a subject is about

IsAssistant(c) == c.suggestion \/ c.role = "assistant"

EvidenceClass(c) == IF IsAssistant(c) THEN "assistant_suggestion" ELSE "user_evidence"

\* A claim that ends as a question, or starts as one and ends there.
AsksOnly(t) ==
  LET last == t[Len(t)]
  IN  \/ "question" \in (IF last.tail = {} THEN last.core ELSE last.tail)
      \/ (Len(t) = 1 /\ "question" \in last.core)

IsTransient(t) == Signs(t) \cap {"today", "now"} # {} \/ "plan" \in Signs(t)

\* _has_unresolved_reference.
HasReference(t) == Signs(t) \cap {"reference", "others"} # {}

MixesClaims(t) ==
  /\ Size(t) >= Many
  /\ Signs(t) \cap {"likes", "worked", "failed"} # {}
  /\ Signs(t) \cap {"today", "now", "asks", "wish"} # {}

Expected(subject) == IF subject \in DOMAIN SubjectDomains THEN SubjectDomains[subject] ELSE {}

OutOfDomain(c, expected) == expected # {} /\ c.domains # {} /\ expected \cap c.domains = {}

\* _rejection_reasons.
ClaimReasons(c, expected) ==
  LET t == c.text
  IN  IF t = <<>> THEN {"empty_content"}
      ELSE {r \in {"too_short_for_standalone_memory"} : Size(t) = Tiny}
           \union {r \in {"question_only"} : AsksOnly(t)}
           \union {r \in {"unresolved_context_reference"} : HasReference(t)}
           \union {r \in {"transient_request_or_planning"} : IsTransient(t)}
           \union {r \in {"temporally_volatile_state"} : IsVolatile(t)}
           \union {r \in {"mixed_transient_and_durable_claims"} : MixesClaims(t)}
           \union {r \in {"episodic_state_missing_conditions"} : IsUnderspecified(t)}
           \union {r \in {"test_or_tool_instruction"} : "meta" \in Signs(t)}
           \union {r \in {"subject_domain_mismatch"} : OutOfDomain(c, expected)}

\* _subject_leakage_indicators: what a claim shows of another subject, whether
\* or not it is rejected for it.
Leakage(c, subject) ==
  LET expected == Expected(subject)
      terms    == UNION {DomainTerms[d] : d \in expected}
  IN  {i \in {"subject_domain_mismatch"} : OutOfDomain(c, expected)}
      \union {i \in {"explicit_subject_mismatch"} : c.subjects # {} /\ subject \notin c.subjects}
      \union {i \in {"weak_subject_text_evidence"} : terms # {} /\ terms \cap Words(c.text) = {}}

\* ---- similarity ----

\* "not" stands for the words of the code's list.  Words keep their apostrophe, and the
\* list has "dont" and "doesnt": a text that denies by "doesn't" or "won't" alone has none
\* of them and is affirmative.  ("I don't like" at the start of what a user said is
\* written out first.)
Negations == {"not"}
Polarity(c) == IF Words(c.text) \cap Negations = {} THEN "affirmative" ELSE "negative"

\* _claim_similarity, in hundredths.
Similarity(left, right) ==
  LET common == Cardinality(left \cap right)
      fewer  == AtMost(Cardinality(left), Cardinality(right))
      jaccard     == (100 * common) \div Cardinality(left \union right)
      containment == IF common >= 2 THEN (92 * common) \div fewer ELSE 0
  IN  IF left = {} \/ right = {} THEN 0
      ELSE AtLeast(AtLeast(jaccard, containment), Ratio(left, right))

DomainsAgree(c, d) == c.domains = {"misc"} \/ d.domains = {"misc"} \/ c.domains \cap d.domains # {}

\* Two accepted claims that are joined, the left one first in the order of ids.
SaysTheSame(c, d) ==
  /\ EvidenceClass(c) = EvidenceClass(d)
  /\ Polarity(c) = Polarity(d)
  /\ DomainsAgree(c, d)
  /\ Similarity(Words(c.text), Words(d.text)) >= Threshold

\* ---- groups ----

\* find: parents are never greater than what they are parents of.
Root(parents, i) ==
  LET root[j \in DOMAIN parents] == IF parents[j] = j THEN j ELSE root[parents[j]]
  IN  root[i]

\* Forgets to look for the roots.
JoinedAtLeaves(parents, left, right) == [parents EXCEPT ![AtLeast(left, right)] = AtMost(left, right)]

Joined(parents, left, right) ==
  LET l == Root(parents, left)
      r == Root(parents, right)
  IN  [parents EXCEPT ![AtLeast(l, r)] = AtMost(l, r)]

Pairs(n) ==
  LET pairs == {p \in (1 .. n) \X (1 .. n) : p[1] < p[2]}
  IN  InOrder(pairs, {q \in pairs \X pairs : q[1][1] < q[2][1] \/ (q[1][1] = q[2][1] /\ q[1][2] < q[2][2])})

Parents(claims) ==
  FoldLeft(LAMBDA parents, p :
             IF SaysTheSame(claims[p[1]], claims[p[2]]) THEN Joined(parents, p[1], p[2]) ELSE parents,
           [i \in DOMAIN claims |-> i], Pairs(Len(claims)))

\* _duplicate_components: the index sets that share a root.
Components(claims) ==
  LET parents == Parents(claims)
  IN  {{i \in DOMAIN claims : Root(parents, i) = r} : r \in {Root(parents, i) : i \in DOMAIN claims}}

\* _build_group: the claim with most words and confidence speaks for the others.
Group(claims, indexes) ==
  LET score(i) == 100 * AtMost(Cardinality(Words(claims[i].text)), 30) + 5 * claims[i].confidence
      speaker  == CHOOSE i \in indexes : \A j \in indexes :
                    score(i) > score(j) \/ (score(i) = score(j) /\ i <= j)
  IN  [ids    |-> {claims[i].id : i \in indexes},
       class  |-> EvidenceClass(claims[Least(indexes)]),
       claim  |-> claims[speaker].id,
       kind   |-> IF Cardinality(indexes) = 1 THEN "single"
                  ELSE IF Cardinality({<<claims[i].text, Words(claims[i].text)>> : i \in indexes}) = 1 THEN "exact"
                  ELSE "near",
       domains |-> UNION {claims[i].domains : i \in indexes}]

Anchor(c) == Words(c.text) \ (Negations \union {"actually", "instead"})

\* _claim_relation of two claims of different groups.
Relation(c, d) ==
  LET alike     == Similarity(Anchor(c), Anchor(d))
      corrects  == "actually" \in Words(c.text) \union Words(d.text)
      qualifies == "condition" \in Signs(c.text) \cap Signs(d.text)
  IN  IF ~ DomainsAgree(c, d) THEN None
      ELSE IF Polarity(c) # Polarity(d) /\ alike >= AtMost(55, Threshold) THEN "textual_conflict"
      ELSE IF corrects /\ alike >= 42 THEN "supersession_qualification"
      ELSE IF qualifies /\ alike >= 42 THEN "conditional_qualification"
      ELSE None

\* _detect_claim_relations, among what users said.
Relations(claims, components) ==
  {[type |-> Relation(claims[p[1]], claims[p[2]]), ids |-> {claims[p[1]].id, claims[p[2]].id}] :
     p \in {q \in (DOMAIN claims) \X (DOMAIN claims) :
              /\ q[1] < q[2]
              /\ ~ IsAssistant(claims[q[1]]) /\ ~ IsAssistant(claims[q[2]])
              /\ \A component \in components : ~ {q[1], q[2]} \subseteq component
              /\ Relation(claims[q[1]], claims[q[2]]) # None}}

\* canonicalize_candidate_set: the claims in the order of their ids, whatever order
\* they came in.
Canonical(claims, subject) ==
  LET fine     == {c \in claims : ClaimReasons(c, Expected(subject)) = {}}
      accepted == InOrder(fine, {p \in fine \X fine : p[1].id < p[2].id})
      components == Components(accepted)
  IN  [accepted  |-> fine,
       rejected  |-> {c.id : c \in claims \ fine},
       groups    |-> {Group(accepted, component) : component \in components},
       relations |-> Relations(accepted, components),
       leakage   |-> {<<c.id, Leakage(c, subject)>> : c \in claims}]

\* compare_candidate_sets.
Comparison(claims, subject) ==
  LET result == Canonical(claims, subject)
  IN  [accepted       |-> result.accepted,
       rejected       |-> result.rejected,
       groups         |-> result.groups,
       reduction      |-> Cardinality(claims) - Cardinality(result.groups),
       conflicts      |-> {r \in result.relations : r.type = "textual_conflict"},
       qualifications |-> {r \in result.relations :
                             r.type \in {"supersession_qualification", "conditional_qualification"}},
       leakage        |-> result.leakage]

===============================================================================
