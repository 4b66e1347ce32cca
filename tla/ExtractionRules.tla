--------------------------- MODULE ExtractionRules ---------------------------
(* Which sentences of a conversation may become memories                      *)
(* (candidate_extraction.py), read as operators: the gates that reject        *)
(* conversational noise, the choice of one proposition of a text, its class   *)
(* and domain, and the validation of a decision some model made instead.      *)
(*                                                                            *)
(* A text is a sequence of sentences. A sentence is the part that stays, its  *)
(* "core", and the "tail" that the code cuts off (", but ...", "; can you     *)
(* ...", ", and then to figure out a way ..."), each as the set of signs that *)
(* the regular expressions look for; "words" are the content words of the     *)
(* core and "size" its length.                                                *)
EXTENDS Integers, Sequences, SequencesExt, FiniteSets

CONSTANTS
  Domains,     \* CANONICAL_DOMAINS, in their order
  SubjectName, \* the subject that stands for a domain
  HighRisk     \* the domains that win a tie, in the order of their patterns

\* Fewer than 12 characters, than 7 words, than 16 words, more than 24 words,
\* more than 600 characters. Texts of 16 to 24 words are left out.
Tiny == 1
Few  == 2
Some == 3
Many == 4
Huge == 5

None == "none"

Least(numbers) == CHOOSE n \in numbers : \A m \in numbers : n <= m

\* The members of a set from the first to the last; "order" holds the pairs of
\* which the left one goes before the right one.
InOrder(S, order) ==
  [n \in 1 .. Cardinality(S) |->
     CHOOSE x \in S : Cardinality({y \in S : <<y, x>> \in order}) = n - 1]

SignsOf(s) == s.core \union s.tail

\* Signs that count only where a text begins.
Anchored == {"command", "plan"}

Signs(t) == UNION {IF i = 1 THEN SignsOf(t[i]) ELSE SignsOf(t[i]) \ Anchored : i \in DOMAIN t}

\* A text begins with a request: "can you ...", "please ...".
Asks(t) == t # <<>> /\ "asks" \in t[1].core

\* An option and nothing else.
IsOption(t) == Len(t) = 1 /\ "option" \in t[1].core

Size(t) ==
  IF Len(t) = 1 /\ t[1].tail = {} THEN t[1].size
  ELSE CHOOSE n \in {t[i].size : i \in DOMAIN t} \union {Some} :
         \A i \in DOMAIN t : n >= Some /\ n >= t[i].size

Words(t) == UNION {t[i].words : i \in DOMAIN t}

\* What makes a claim durable, in the order the code tries, with its memory type
\* and its durability in hundredths.
Classes ==
  << [sign |-> "likes",    type |-> "preference",    reason |-> "preference_choice",     durability |-> 86],
     [sign |-> "decided",  type |-> "decision",      reason |-> "preference_choice",     durability |-> 84],
     [sign |-> "failed",   type |-> "failure",       reason |-> "user_reported_outcome", durability |-> 82],
     [sign |-> "instead",  type |-> "workaround",    reason |-> "workaround",            durability |-> 82],
     [sign |-> "we_need",  type |-> "procedure",     reason |-> "ideal_procedure",       durability |-> 76],
     [sign |-> "has",      type |-> "semantic_fact", reason |-> "unknown",               durability |-> 72],
     [sign |-> "worked",   type |-> "episodic",      reason |-> "user_reported_outcome", durability |-> 84],
     [sign |-> "was_good", type |-> "episodic",      reason |-> "user_reported_outcome", durability |-> 80],
     [sign |-> "must",     type |-> "constraint",    reason |-> "constraint_response",   durability |-> 76],
     [sign |-> "later",    type |-> "open_loop",     reason |-> "unknown",               durability |-> 70] >>

Plain == [sign |-> None, type |-> "semantic_fact", reason |-> "unknown", durability |-> 66]
Suggestion == [sign |-> None, type |-> "hypothesis", reason |-> "assistant_suggestion", durability |-> 68]

Class(t, role) ==
  IF role = "assistant" THEN Suggestion
  ELSE LET signs == Signs(t)
           found == {i \in DOMAIN Classes : Classes[i].sign \in signs}
       IN  IF found = {} THEN Plain ELSE Classes[Least(found)]

IsDurable(t) == Signs(t) \cap {"likes", "decided", "failed", "has", "worked", "was_good"} # {}

\* A question keeps a text out unless a claim about the user stands beside it.
IsQuestionOnly(t) == "question" \in Signs(t) /\ Signs(t) \cap {"likes", "decided", "failed", "worked"} = {}

IsContextDependent(t) ==
  \/ Signs(t) \cap {"reference", "others"} # {}
  \/ "pronoun" \in Signs(t) /\ "object" \notin Signs(t) /\ Size(t) < Many

IsChatter(t) ==
  /\ Size(t) < Many
  /\ "command" \in Signs(t) \/ (Asks(t) /\ Signs(t) \cap {"today", "now"} # {})

IsPlanning(t) == Asks(t) \/ Signs(t) \cap {"today", "now", "plan"} # {}

IsVolatile(t) == Signs(t) \cap {"now", "stock"} # {}

IsMixed(t) == Size(t) >= Many /\ IsDurable(t) /\ Signs(t) \cap {"today", "now", "asks", "wish"} # {}

IsUnderspecified(t) == "vague" \in Signs(t) /\ "measured" \notin Signs(t)

\* classify_rejection_reasons.
Reasons(t) ==
  IF t = <<>> THEN {"empty_source"}
  ELSE {r \in {"source_too_long"} : Size(t) = Huge}
       \union {r \in {"acceptance_test_or_meta_instruction"} : "meta" \in Signs(t)}
       \union {r \in {"option_only_reference"} : IsOption(t)}
       \union {r \in {"context_dependent_reference"} : IsContextDependent(t)}
       \union {r \in {"question_only"} : IsQuestionOnly(t)}
       \union {r \in {"transient_execution_chatter"} : IsChatter(t)}
       \union {r \in {"transient_request_or_planning"} : IsPlanning(t)}
       \union {r \in {"temporally_volatile_state"} : IsVolatile(t)}
       \union {r \in {"mixed_transient_and_durable_claims"} : IsMixed(t)}
       \union {r \in {"insufficient_standalone_context"} : IsUnderspecified(t)}

HardReasons ==
  {"acceptance_test_or_meta_instruction", "empty_source", "option_only_reference", "source_too_long"}

\* In hundredths.
Standalone(t) ==
  86 - (IF Size(t) < Some THEN 12 ELSE 0) - (IF "pronoun" \in Signs(t) THEN 8 ELSE 0)
     + (IF "named" \in Signs(t) THEN 6 ELSE 0) + (IF "object" \in Signs(t) THEN 5 ELSE 0)

\* Everything before the first tail.
Cut(t) ==
  LET tailed == {i \in DOMAIN t : t[i].tail # {}}
      first  == Least(tailed)
  IN  IF tailed = {} THEN t ELSE SubSeq([t EXCEPT ![first].tail = {}], 1, first)

\* _select_candidate_proposition: the most durable sentence, the clearer of two
\* alike, the first of two as clear; without one the first that is no question.
Select(t) ==
  LET alone(i)    == <<t[i]>>
      declarative == {i \in DOMAIN t : ~ IsQuestionOnly(alone(i))}
      durable     == {i \in declarative : IsDurable(alone(i))}
      better(i, j) ==
        LET di == Class(alone(i), "user").durability
            dj == Class(alone(j), "user").durability
        IN  \/ di > dj
            \/ di = dj /\ Standalone(alone(i)) > Standalone(alone(j))
            \/ di = dj /\ Standalone(alone(i)) = Standalone(alone(j)) /\ i <= j
  IN  Cut(IF durable # {} THEN alone(CHOOSE i \in durable : \A j \in durable : better(i, j))
          ELSE IF declarative # {} THEN alone(Least(declarative))
          ELSE t)

Salvageable(t) == "reuse" \in Signs(t) \/ ("we_need" \in t[1].core /\ "wish" \in Signs(t))

\* "I don't like ..." of which the text names no better object than "the others".
NamesNothing(t, selected) == "others" \in Signs(t) /\ "likes" \in Signs(selected) /\ "not" \in Words(selected)

\* ---- domains ----

\* The domain with most hits, the earlier of two alike; hits of none is None.
TopDomain(hits) ==
  LET index(d) == Least({i \in DOMAIN Domains : Domains[i] = d})
      scored   == {d \in DOMAIN hits : hits[d] > 0}
  IN  IF scored = {} THEN None
      ELSE CHOOSE d \in scored : \A e \in scored :
             hits[d] > hits[e] \/ (hits[d] = hits[e] /\ index(d) <= index(e))

HitConfidence(n) == IF n >= 4 THEN 95 ELSE 55 + 10 * n

\* _infer_domain: what the text is about, beside the domain its source was given.
Domain(source) ==
  LET hits  == source.hits
      top   == TopDomain(hits)
      title == TopDomain(source.title)
      given == source.domain
      had   == IF given \in DOMAIN hits THEN hits[given] ELSE 0
      risky == {i \in DOMAIN HighRisk :
                  LET d == HighRisk[i] IN d # given /\ hits[d] > 0 /\ hits[d] >= had}
      named(h, d) == [domain |-> d, confidence |-> HitConfidence(h[d])]
  IN  IF given = None
      THEN IF top # None THEN named(hits, top)
           ELSE IF title # None THEN named(source.title, title)
           ELSE [domain |-> "misc", confidence |-> 25]
      ELSE IF risky # {}
      THEN named(hits, HighRisk[Least(risky)])
      ELSE IF top # None /\ top # given /\ hits[top] > had
      THEN named(hits, top)
      ELSE IF top = None /\ title # None /\ title # given
      THEN named(source.title, title)
      ELSE [domain |-> given, confidence |-> source.domainConfidence]

AtLeast(a, b) == IF a >= b THEN a ELSE b
AtMost(a, b)  == IF a <= b THEN a ELSE b

\* ---- decisions ----

Rejected(source, reasons) ==
  [accepted |-> FALSE, key |-> source.key, role |-> source.role, reasons |-> reasons]

Accepted(source, selected) ==
  LET class  == Class(selected, source.role)
      domain == Domain(source)
      clear  == Standalone(selected)
  IN  [accepted |-> TRUE, key |-> source.key, role |-> source.role, text |-> selected,
       type |-> class.type, reason |-> class.reason,
       durability |-> class.durability, standalone |-> clear,
       domain |-> domain.domain, subject |-> SubjectName[domain.domain],
       confidence |-> AtMost(AtMost(class.durability, clear), AtLeast(domain.confidence, 55)),
       suggestion |-> source.role = "assistant"]

\* Skips the second look at the selected proposition.
DecisionUnchecked(source) ==
  LET before == Reasons(source.text)
  IN  IF before \cap HardReasons # {} THEN Rejected(source, before \cap HardReasons)
      ELSE IF before # {} /\ ~ IsDurable(source.text) THEN Rejected(source, before)
      ELSE Accepted(source, Select(source.text))

\* heuristic_extract_candidate.
Decision(source) ==
  LET before   == Reasons(source.text)
      selected == Select(source.text)
      after    == Reasons(selected)
  IN  IF before \cap HardReasons # {}
      THEN Rejected(source, before \cap HardReasons)
      ELSE IF before # {} /\ ~ IsDurable(source.text) /\ ~ Salvageable(source.text)
      THEN Rejected(source, before)
      ELSE IF NamesNothing(source.text, selected)
      THEN Rejected(source, before \union {"insufficient_standalone_context"})
      ELSE IF after # {}
      THEN Rejected(source, before \union after)
      ELSE IF Standalone(selected) < 70
      THEN Rejected(source, {"insufficient_standalone_context"})
      ELSE Accepted(source, selected)

KeysAreDistinct(sources) == \A i, j \in DOMAIN sources : sources[i].key = sources[j].key => i = j

RolesAreKnown(sources) == \A i \in DOMAIN sources : sources[i].role \in {"user", "assistant"}

\* heuristic_extract_candidates raises for any other batch.
Extractable(sources, max) == Len(sources) <= max /\ KeysAreDistinct(sources) /\ RolesAreKnown(sources)

\* ---- decisions of a model ----

\* _validate_model_candidate.
ValidCandidate(c, sources) ==
  /\ \E i \in DOMAIN sources : sources[i].key = c.key /\ sources[i].role = c.role
  /\ c.suggestion = (c.role = "assistant")
  /\ Size(c.text) \notin {Tiny, Huge}
  /\ Reasons(c.text) = {}
  /\ c.durability >= 60 /\ c.standalone >= 70
  /\ (c.reason = "assistant_suggestion") = (c.role = "assistant")

\* _validate_model_rejection.
ValidRejection(r, sources) ==
  /\ \E i \in DOMAIN sources : sources[i].key = r.key /\ sources[i].role = r.role
  /\ r.reasons # {}

\* validate_model_extraction_payload: every source is decided, and decided one way.
ValidOutput(decisions, sources, perSource) ==
  LET of(key, way) == {i \in DOMAIN decisions : decisions[i].key = key /\ decisions[i].accepted = way}
  IN  /\ \A i \in DOMAIN decisions :
           IF decisions[i].accepted THEN ValidCandidate(decisions[i], sources)
           ELSE ValidRejection(decisions[i], sources)
      /\ \A i \in DOMAIN sources :
           LET accepted == Cardinality(of(sources[i].key, TRUE))
               rejected == Cardinality(of(sources[i].key, FALSE))
           IN  \/ accepted \in 1 .. perSource /\ rejected = 0
               \/ accepted = 0 /\ rejected = 1

==============================================================================
