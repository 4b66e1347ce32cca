----------------------------- MODULE MemoryContext -----------------------------
(***************************************************************************)
(* memory-context, of the command line and of the MCP server: a search for *)
(* the query as asked, a search for each slot of the packet with further   *)
(* words added to the query, and the packet compiled from what they found  *)
(* (home_mcp.py, memory/context_packet.py).  The memory does not change    *)
(* meanwhile; MemorySearch has the searches beside its writers.            *)
(***************************************************************************)
EXTENDS SearchRules

CONSTANTS
  Queries,   \* what may be asked
  Corpora    \* sets of hits that the memory may hold for a query

VARIABLES query, hits, stage, slot, results, items, packet

vars == <<query, hits, stage, slot, results, items, packet>>

\* _CONTEXT_SLOT_QUERIES: the words added for a slot have domains of their own, and
\* name entities.
Slots == <<
  [name |-> "current_state",        domains |-> {"cooking_baking"}, baking |-> TRUE,
   groups |-> {"feeding", "peak"}],
  [name |-> "critical_constraints", domains |-> {}, baking |-> FALSE, groups |-> {}],
  [name |-> "relevant_preferences", domains |-> {"style_wardrobe"}, baking |-> FALSE, groups |-> {}],
  [name |-> "relevant_outcomes",    domains |-> {"cooking_baking"}, baking |-> TRUE,
   groups |-> {"feeding", "peak"}],
  [name |-> "failures_and_lessons", domains |-> {}, baking |-> FALSE, groups |-> {}],
  [name |-> "contradictions_and_qualifications", domains |-> {}, baking |-> FALSE, groups |-> {}] >>

SlotNames == {Slots[i].name : i \in DOMAIN Slots}
Wordings == SlotNames \union {"asked"}

ASSUME SlotAssumption ==
  \A i \in DOMAIN Slots : Slots[i].domains \subseteq Domains \ HighRisk

\* Numbers are numbers, and no two hits have the same place in the order.
ASSUME CorpusAssumption ==
  /\ None \notin Int
  /\ {PerMessage, PerConversation} \subseteq Nat
  /\ \A corpus \in Corpora :
       /\ IsFiniteSet(corpus)
       /\ \A g, h \in corpus : g.key = h.key => g = h
       /\ \A h \in corpus :
            /\ h.key \in Nat
            /\ \A w \in Wordings : h.keyword[w] \in Nat /\ h.semantic[w] \in Nat
            /\ h.age \in Nat \union {None}
            /\ h.trust \in {"canonical", "high", "medium", "low", None}
            /\ IsRecord(h) <=> h.conversation = None

ASSUME QueryAssumption ==
  \A q \in Queries :
    /\ {"words", "domains", "baking", "groups", "limit", "effort", "depth", "debug", "controls"}
         \subseteq DOMAIN q
    /\ q.words \in Wordings
    /\ {q.limit, q.effort, q.depth, q.debug} \subseteq Nat
    /\ IsFiniteSet(q.controls) /\ \A c \in q.controls : c.weight \in Int

Packets == SlotNames \union {"uncertainty", "omitted"}

NoPacket == [s \in Packets |-> {}]

ContextInit ==
  /\ query \in Queries
  /\ hits \in Corpora
  /\ stage = "asked"
  /\ slot = 1
  /\ results = <<>>
  /\ items = {}
  /\ packet = NoPacket

-------------------------------------------------------------------------------
(* Retrieval.                                                              *)

\* normalize_context_controls: a broad retrieval searches for twice as many results.
BaseQuery == [query EXCEPT !.limit = IF query.broad THEN Min({20, 2 * @}) ELSE @]

Item(q, h, hint) ==
  [hit |-> h, tier |-> Tier(q, h), score |-> Score(q, h), hint |-> hint]

\* compact_context_items of the first results.
FirstItems(q, found) ==
  {Item(q, found[i], None) : i \in 1 .. Min({query.limit, Len(found)})}

Search ==
  /\ stage = "asked"
  /\ results' = Results(BaseQuery, hits)
  /\ items' = FirstItems(BaseQuery, results')
  /\ stage' = IF query.detail = "summary" THEN "compile" ELSE "slots"
  /\ UNCHANGED <<query, hits, slot, packet>>

SlotQuery(s) ==
  [query EXCEPT !.words   = s.name,
                !.domains = @ \union s.domains,
                !.baking  = @ \/ s.baking,
                !.groups  = @ \union s.groups,
                !.limit   = IF query.detail = "standard" THEN 2 ELSE 3]

\* _slot_expanded_context_items: a result that is known already keeps the hint of the
\* first slot that found it.
SearchSlot ==
  /\ stage = "slots"
  /\ LET q == SlotQuery(Slots[slot])
         found == ToSet(Results(q, hits))
         hinted(item) == IF item.hit \in found /\ item.hint = None
                         THEN [item EXCEPT !.hint = q.words] ELSE item
     IN items' = {hinted(item) : item \in items}
                 \union {Item(q, h, q.words) : h \in found \ {item.hit : item \in items}}
  /\ slot' = IF slot = Len(Slots) THEN slot ELSE slot + 1
  /\ stage' = IF slot = Len(Slots) THEN "compile" ELSE "slots"
  /\ UNCHANGED <<query, hits, results, packet>>

\* _context_item_priority.
Group(item) ==
  IF item.hit.role = "user" THEN IF item.hint # None THEN 0 ELSE 1
  ELSE IF item.hint # None THEN 2 ELSE 3

ItemBefore(i, j) ==
  \/ Group(i) < Group(j)
  \/ Group(i) = Group(j) /\ i.score > j.score
  \/ Group(i) = Group(j) /\ i.score = j.score /\ i.hit.key < j.hit.key

ContextItems ==
  {i \in items : Cardinality({j \in items : ItemBefore(j, i)}) < Max({query.limit, Len(Slots)})}

-------------------------------------------------------------------------------
(* The packet.                                                             *)

\* _claim_text: the lowest tier shows the title only.
Says(item) == IF item.tier = 1 THEN item.hit.title ELSE item.hit.snippet

SaysOrIsTitled(item) == item.hit.title \union Says(item)

QuestionOnly(item) ==
  item.hit.role = "user" /\ "question" \in Says(item) /\ "fact" \notin SaysOrIsTitled(item)

\* _contradiction_status, which only the higher efforts look at.
Contradicts(item) ==
  /\ query.effort >= 4
  /\ \/ query.doubts /\ "negation" \in SaysOrIsTitled(item)
     \/ Relation(query, item.hit) \in {"transfer", "analogy"}

\* The slot of an item that no slot search has found, by what it says.
SlotByText(item) ==
  LET says == Says(item)  titled == SaysOrIsTitled(item)  role == item.hit.role
  IN CASE role \in {"constraint", "risk"} \/ "constraint" \in says -> "critical_constraints"
       [] ~(role \in {"constraint", "risk"} \/ "constraint" \in says) ->
          IF role = "preference" \/ "preference" \in says THEN "relevant_preferences"
          ELSE IF role = "lesson" \/ "lesson" \in titled THEN "failures_and_lessons"
          ELSE IF role \in {"decision", "workflow", "project", "open_loop"} THEN "current_state"
          ELSE IF "outcome" \in titled THEN "relevant_outcomes"
          ELSE IF Contradicts(item) THEN "contradictions_and_qualifications"
          ELSE "current_state"

\* Mutant: the hint of a slot is believed, whoever wrote the text.
SectionTrustsHint(item) ==
  IF item.hint # None THEN item.hint
  ELSE IF item.hit.role = "assistant" THEN "uncertainty"
  ELSE IF QuestionOnly(item) THEN "omitted"
  ELSE SlotByText(item)

\* _section_for_item.
Section(item) ==
  IF item.hit.role = "assistant" THEN "uncertainty"
  ELSE IF QuestionOnly(item) THEN "omitted"
  ELSE IF item.hint # None THEN item.hint
  ELSE SlotByText(item)

\* _is_starter_state_entry and _is_concrete_tracking_state.
StarterState(item) == "starter" \in Says(item) /\ Says(item) \intersect {"event", "tap water"} # {}
Concrete(item) == StarterState(item) /\ Says(item) \intersect {"event", "percent", "hours"} # {}

\* _should_mirror_as_current_state, _should_mirror_as_relevant_outcome: what the user
\* said of a starter is state and outcome too, wherever it was placed.
Mirrors(item) ==
  IF item.hit.role # "user" \/ Section(item) = "omitted" THEN {}
  ELSE {s \in {"current_state"} : query.tracks = "starter" /\ {"starter", "event"} \subseteq SaysOrIsTitled(item)}
         \union
       {s \in {"relevant_outcomes"} : query.tracks # None /\ Concrete(item) /\ "outcome" \in Says(item)}

Placed == [s \in Packets |-> {i \in ContextItems : s \in {Section(i)} \union Mirrors(i)}]

\* _state_preference_key: the user's own report, the more specific, the newer one.
Reported(item) == item.hit.role = "user" \/ (IsRecord(item.hit) /\ item.hit.trust \notin Trusted)

Specificity(item) ==
  (IF "percent" \in Says(item) THEN 3 ELSE 0) + (IF "hours" \in Says(item) THEN 2 ELSE 0)
    + (IF "outcome" \in Says(item) THEN 1 ELSE 0) + (IF "event" \in Says(item) THEN 1 ELSE 0)

Older(h, g) == g.age # None /\ (h.age = None \/ h.age > g.age)

Preferred(i, j) ==
  IF Reported(i) # Reported(j) THEN Reported(i)
  ELSE IF Specificity(i) # Specificity(j) THEN Specificity(i) > Specificity(j)
  ELSE IF i.hit.age # j.hit.age THEN Older(j.hit, i.hit)
  ELSE i.hit.key >= j.hit.key

\* _resolve_current_state: the entries that make room for the preferred state.
Superseded(entries) ==
  LET concrete == {e \in entries : Concrete(e)}
      active == CHOOSE e \in concrete : \A f \in concrete : Preferred(e, f)
  IN IF query.tracks = None \/ concrete = {} THEN {}
     ELSE {e \in entries \ {active} : StarterState(e) \/ "question" \in Says(e)}

\* build_context_packet.
Compile ==
  /\ stage = "compile"
  /\ LET old == Superseded(Placed["current_state"])
     IN packet' = [Placed EXCEPT !["current_state"] = @ \ old,
                                 !["contradictions_and_qualifications"] = @ \union old]
  /\ stage' = "done"
  /\ UNCHANGED <<query, hits, slot, results, items>>

-------------------------------------------------------------------------------

ContextNext == Search \/ SearchSlot \/ Compile

ContextSpec == ContextInit /\ [][ContextNext]_vars

-------------------------------------------------------------------------------
(* Properties.                                                             *)

Searched == stage # "asked"

\* An answer to a request for advice in a high-risk domain that does not tell the
\* caller to refuse has, among its results, a curated record of high trust from an
\* authoritative source, on that domain, and no older than the strictest policy that
\* the query falls under allows.
AdviceNeedsAuthority ==
  (Searched /\ query.advice /\ Risk(query) # {} /\ ~Refuses(query, results)) =>
    \E i \in DOMAIN results :
      /\ results[i].official /\ results[i].trust \in {"high", "canonical"}
      /\ results[i].domains \intersect Risk(query) # {}
      /\ results[i].age # None /\ \A d \in Risk(query) : results[i].age <= MaxAge[d]

\* What reaches the packet of a high-risk query, also through the slot searches with
\* their own words and domains, speaks of a high-risk domain that was asked about, is
\* recent enough for all of them, and is either the user's own words or a trusted record.
RiskyItemsAreEvidence ==
  Risk(query) # {} => \A item \in items :
    /\ item.hit.domains \intersect Risk(query) # {}
    /\ item.hit.age # None /\ \A d \in Risk(query) : item.hit.age <= MaxAge[d]
    /\ item.hit.role = "user" \/ item.hit.trust \in {"high", "canonical"}

\* A relevant hit in scope is left out only for better ones: those that fill the
\* answer, or a message or conversation that has its share of the results.  What is
\* returned keeps to these shares, and a better result never discloses less than a
\* worse one, nor any more than depth and effort allow.
BestAreReturned ==
  Searched =>
    LET q == BaseQuery
        better(h) == {i \in DOMAIN results : Before(q, results[i], h)}
        full(h, Same(_)) == Cardinality({i \in better(h) : Same(results[i])})
    IN /\ \A h \in hits \ ToSet(results) :
            (h \in Scoped(q, hits) /\ Relevant(q, h)) =>
               \/ better(h) = 1 .. q.limit
               \/ /\ ~IsRecord(h)
                  /\ \/ full(h, LAMBDA r : r.message = h.message) >= PerMessage
                     \/ full(h, LAMBDA r : r.conversation = h.conversation) >= PerConversation
       /\ \A i \in DOMAIN results : ~IsRecord(results[i]) =>
            /\ Cardinality({j \in DOMAIN results : results[j].message = results[i].message}) <= PerMessage
            /\ Cardinality({j \in DOMAIN results : results[j].conversation = results[i].conversation})
                 <= PerConversation
       /\ \A i, j \in DOMAIN results : i < j => Tier(q, results[i]) >= Tier(q, results[j])
       /\ \A i \in DOMAIN results : Tier(q, results[i]) <= Max({q.debug, q.depth})

\* A packet has every item, in a section or as omitted; what an assistant wrote is
\* nowhere but under uncertainty, whatever slot asked for it; and of the states of a
\* starter it reports one as current.
PacketKeepsOrder ==
  stage = "done" =>
    /\ \A item \in ContextItems : \E s \in Packets : item \in packet[s]
    /\ \A s \in SlotNames : \A item \in packet[s] : item.hit.role # "assistant"
    /\ query.tracks # None =>
         \A i, j \in packet["current_state"] : Concrete(i) /\ Concrete(j) => i = j
===============================================================================
