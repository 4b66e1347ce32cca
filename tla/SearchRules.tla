------------------------------ MODULE SearchRules ------------------------------
(***************************************************************************)
(* What a search returns, given the hits it found: domain scope, the       *)
(* governance of high-risk queries, ranking, relevance floors, diversity   *)
(* caps and disclosure tiers (memory/search.py, domain_scoping.py,         *)
(* high_risk.py, ranking.py).                                              *)
(*                                                                         *)
(* Texts are abstracted to what these rules read in them: the domains a    *)
(* text speaks of, how well it matches the words asked, the entities it    *)
(* names.  A fraction of the code is a percentage here, a score a number   *)
(* of hundredths of a percent.                                             *)
(*                                                                         *)
(* A query is a record with                                                *)
(*   words     what is asked, see Wordings of MemoryContext;               *)
(*   domains   the specific domains of its words, none of them for "misc"; *)
(*   subject   the domains of the name of the subject it is restricted to, *)
(*             or None;                                                    *)
(*   advice    it asks for advice;                                         *)
(*   effort, cross, depth, debug, limit, controls   its options, with the  *)
(*             feedback controls in force; debug = 0 forces no tier;       *)
(*   testing, baking, groups   it is about testing the memory, about       *)
(*             baking, and the groups of entities it names;                *)
(*   doubts, tracks   it has words like "not" or "should", and words about *)
(*             keeping a "starter" or about "feeding";                     *)
(*   detail, broad   the controls of memory-context.                       *)
(* A hit is a chunk of a conversation or a curated record, with            *)
(*   key       its place in the order of (conversation, message, chunk);   *)
(*   source    the id that feedback controls name;                         *)
(*   message, conversation   where a chunk is from, None for a record;     *)
(*   role      user, assistant or tool; the record type of a record;       *)
(*   domains   the specific domains of its title and snippet;              *)
(*   trust     the trust level of a record, None for a chunk;              *)
(*   official  the record comes from a guideline, regulator or the like;   *)
(*   age       days since it was written, None if not known;               *)
(*   keyword, semantic   how well it matches each wording;                 *)
(*   artifact  what it looks like: "test" instructions, "operational"      *)
(*             talk, the record of a "smoke test", or None;                *)
(*   groups    the groups of entities it names;                            *)
(*   title, snippet   what its texts say, see Says of MemoryContext.       *)
(***************************************************************************)
EXTENDS Integers, SequencesExt

CONSTANTS
  None,
  Domains,          \* DOMAIN_KEYWORDS
  Adjacent,         \* Adjacent[d]: the domains next to d
  MaxAge,           \* MaxAge[d]: days for which evidence on the high-risk domain d holds
  PerMessage,       \* max_chunks_per_message
  PerConversation   \* max_chunks_per_conversation

ASSUME DomainAssumption ==
  /\ Adjacent \in [Domains -> SUBSET Domains]
  /\ DOMAIN MaxAge \subseteq Domains
  /\ \A d \in DOMAIN MaxAge : MaxAge[d] \in Nat

IsRecord(h) == h.message = None

-------------------------------------------------------------------------------
(* Scope.                                                                  *)

\* scope_candidate_domains: why a hit may answer the query.
Relation(q, h) ==
  LET adjacent == \E d \in q.domains : Adjacent[d] \intersect h.domains # {}
  IN CASE q.domains = {}                                 -> "broad"
       [] q.domains \intersect h.domains # {}            -> "primary"
       [] q.domains # {} /\ q.domains \intersect h.domains = {} ->
            IF adjacent /\ (q.cross \/ q.effort >= 3) THEN "transfer"
            ELSE IF q.cross \/ q.effort >= 4 THEN "analogy"
            ELSE "excluded"

\* _strict_boundary_domains, _passes_strict_domain_boundary: without
\* allow_cross_domain no effort reaches beyond the domains of the query, or, when it
\* has none, of the subject.
InBoundary(q, h) ==
  LET boundary == IF q.domains # {} THEN q.domains
                  ELSE IF q.subject = None THEN {}
                  ELSE q.subject
  IN q.cross \/ boundary = {} \/ h.domains \intersect boundary # {}

InScope(q, h) == Relation(q, h) # "excluded" /\ InBoundary(q, h)

-------------------------------------------------------------------------------
(* High-risk queries.                                                      *)

HighRisk == DOMAIN MaxAge

Risk(q) == q.domains \intersect HighRisk

Trusted == {"high", "canonical"}

\* apply_governance_policy; the curated records of a search are active ones.
Governed(q, h) ==
  Risk(q) # {} =>
    /\ Relation(q, h) = "primary" \/ q.cross
    /\ h.trust \in Trusted \union {None}
    /\ h.role # "assistant"
    /\ q.effort >= 4 \/ h.domains \intersect HighRisk = {} \/ Relation(q, h) = "primary"

\* The evidence class of evaluate_high_risk_evidence.  A record counts as confirmed
\* with its trust; a chunk of a tool is neither fact nor suggestion.
Evidence(h) ==
  CASE h.role = "assistant"                       -> "suggestion_only"
    [] h.role = "user"                            -> "user_fact"
    [] IsRecord(h) /\ h.trust \in Trusted         -> "confirmed_fact"
    [] OTHER                                      -> "unsupported"

\* Mutant: the age allowed by one of the domains is enough.
FreshForSome(q, h) == h.age # None /\ \E d \in Risk(q) : h.age <= MaxAge[d]

\* The strictest of the policies bounds the age.
Fresh(q, h) == h.age # None /\ \A d \in Risk(q) : h.age <= MaxAge[d]

\* Every check that rejects evidence, whatever its class.
Sound(q, h) ==
  /\ h.domains \intersect Risk(q) # {}
  /\ Fresh(q, h)
  /\ h.trust \in Trusted \/ (h.trust = None /\ Evidence(h) # "confirmed_fact")

\* evaluate_high_risk_evidence does not reject the hit.
Admitted(q, h) ==
  Risk(q) # {} => Sound(q, h) /\ Evidence(h) # "unsupported"

\* Mutant: a confirmed record supports advice, wherever it comes from.
SupportsWhenConfirmed(q, h) ==
  Risk(q) # {} /\ Sound(q, h) /\ Evidence(h) = "confirmed_fact"

\* supports_advice, with _is_authoritative_high_risk_source.
Supports(q, h) ==
  /\ Risk(q) # {}
  /\ Sound(q, h)
  /\ IsRecord(h) /\ h.trust \in Trusted /\ h.official
  /\ Evidence(h) = "confirmed_fact"

\* The loop over all hits in search_chatgpt_memory.
Scoped(q, hits) == {h \in hits : InScope(q, h) /\ Governed(q, h) /\ Admitted(q, h)}

-------------------------------------------------------------------------------
(* Ranking.                                                                *)

\* _task_entity_groups: a query that names a starter wants all it names.
NamesEntities(q, h) == "starter" \in q.groups => q.groups \subseteq h.groups

\* _apply_meta_test_noise_penalty.
Noise(q, h) ==
  ~q.testing /\ (h.artifact = "test" \/ (h.artifact = "operational" /\ q.baking))

\* The weights of the controls that concern the hit.
Weights(q, h) ==
  {c.weight : c \in {d \in q.controls : q.words \in d.words /\ d.source \in {h.source, None}}}

\* _is_low_value_curated_record, _apply_task_entity_precision,
\* _apply_meta_test_noise_penalty and _apply_feedback_controls: penalties do not add up.
Penalty(q, h) ==
  Max({0} \union {-w : w \in Weights(q, h)}
          \union (IF NamesEntities(q, h) THEN {} ELSE {75})
          \union (IF Noise(q, h) \/ h.artifact = "smoke test" THEN {100} ELSE {}))

Feedback(q, h) == Max({0} \union Weights(q, h))

TrustScore(h) ==
  CASE h.trust = "canonical" -> 100
    [] h.trust = "high"      -> 80
    [] h.trust = "medium"    -> 55
    [] h.trust = "low"       -> 25
    [] h.trust = None        -> 0   \* chunks have no curated_trust

\* _source_provenance_score.
Provenance(h) ==
  IF IsRecord(h) THEN IF h.trust \in Trusted THEN 95 ELSE 100
  ELSE IF h.role = "assistant" THEN 15 ELSE 100

\* _recency_score.
Recency(h) == IF h.age = None THEN 0 ELSE 36500 \div (365 + h.age)

\* score_memory_hit with DEFAULT_WEIGHTS.
Score(q, h) ==
  LET sum == 30 * h.keyword[q.words] + 25 * h.semantic[q.words] + 35 * Provenance(h)
             + 15 * (IF q.subject = None THEN 0 ELSE 100) + 10 * TrustScore(h)
             + 10 * Feedback(q, h) + 5 * Recency(h) - 20 * Penalty(q, h)
  IN Max({0, Min({sum, 10000})})

\* rank_memory_hits.
Before(q, h, g) == Score(q, h) > Score(q, g) \/ (Score(q, h) = Score(q, g) /\ h.key < g.key)

\* _passes_relevance_floor.
Relevant(q, h) ==
  LET keyword == h.keyword[q.words]
      semantic == h.semantic[q.words]
  IN /\ ~Noise(q, h)
     /\ NamesEntities(q, h)
     /\ IF keyword = 0 /\ semantic > 0 THEN semantic >= 72
        ELSE keyword >= (IF IsRecord(h) THEN 20 ELSE 30) \/ semantic >= 58

\* The hits from the best to the worst.
Ranked(q, hits) ==
  LET found == {h \in Scoped(q, hits) : Relevant(q, h)}
      better(h) == Cardinality({g \in found : Before(q, g, h)})
  IN [n \in 1 .. Cardinality(found) |-> CHOOSE h \in found : better(h) = n - 1]

HasRoom(kept, h) ==
  LET sameMessage == {i \in DOMAIN kept : kept[i].message = h.message}
      sameConversation == {i \in DOMAIN kept : kept[i].conversation = h.conversation}
  IN IsRecord(h) \/ (Cardinality(sameMessage) < PerMessage
                     /\ Cardinality(sameConversation) < PerConversation)

\* _apply_diversity_caps.
Diverse(hits) ==
  FoldLeft(LAMBDA kept, h : IF HasRoom(kept, h) THEN Append(kept, h) ELSE kept, <<>>, hits)

\* Mutant: the results are cut at the limit before the caps are applied.
ResultsCutFirst(q, hits) ==
  LET ranked == Ranked(q, hits)
  IN Diverse(SubSeq(ranked, 1, Min({q.limit, Len(ranked)})))

\* The results of search_chatgpt_memory.
Results(q, hits) ==
  LET diverse == Diverse(Ranked(q, hits))
  IN SubSeq(diverse, 1, Min({q.limit, Len(diverse)}))

-------------------------------------------------------------------------------
(* Disclosure.  The tiers far, medium, close and full are 1, 2, 3 and 4.    *)

Tiers == 1 .. 4

ScoreTier(score) ==
  IF score >= 8500 THEN 4 ELSE IF score >= 6500 THEN 3 ELSE IF score >= 4000 THEN 2 ELSE 1

\* _effort_depth_cap.
DepthCap(q) == Min({q.depth, q.effort, 4})

\* disclosure_tier_for_score, _force_min_disclosure_tier.
Tier(q, h) == Max({q.debug, Min({ScoreTier(Score(q, h)), DepthCap(q)})})

\* refuse_unsupported_advice of the answer.
Refuses(q, results) ==
  /\ Risk(q) # {} /\ q.advice
  /\ ~\E i \in DOMAIN results : Supports(q, results[i])
===============================================================================
