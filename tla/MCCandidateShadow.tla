--------------------------- MODULE MCCandidateShadow ---------------------------
(* Instances of CandidateShadow for TLC: a review queue of a subject on baking,   *)
(* with claims that repeat, contradict, bridge and qualify each other.            *)
EXTENDS CandidateShadow

TheDomains == <<"cooking_baking", "health_supplements", "misc">>

TheRisks == <<"health_supplements">>

TheSubjectName ==
  ("cooking_baking" :> "recipes") @@ ("health_supplements" :> "health") @@ ("misc" :> "uncategorized")

TheTerms == ("cooking_baking" :> {"bread", "starter"}) @@ ("health_supplements" :> {"sleep"})

TheSubjectDomains == ("recipes" :> {"cooking_baking"}) @@ ("health" :> {"health_supplements"})

TheSubjects == <<"baking log", "recipes">>

\* "log" is no subject, but part of the name of one.
TheNames == ("recipes" :> {"recipes"}) @@ ("baking log" :> {"baking log"}) @@ ("log" :> {"baking log"})

TheFallback == ("recipes" :> "cooking_baking") @@ ("baking log" :> None) @@ ("log" :> None)

\* Spelled alike, although they share no word, and only when compared in this order.
TheRatio(left, right) ==
  IF "starter" \in left /\ "starters" \in right THEN 80 ELSE 0

TheFetchLimit(limit) == limit + 1

Hits(cooking, health) ==
  ("cooking_baking" :> cooking) @@ ("health_supplements" :> health) @@ ("misc" :> 0)

Sentence(core, tail, words, size) == [core |-> core, tail |-> tail, words |-> words, size |-> size]

Row(id, conversation, chunk, role, text, cooking, health) ==
  [id |-> id, conversation |-> conversation, chunk |-> chunk, role |-> role, text |-> text,
   hits |-> Hits(cooking, health), title |-> Hits(0, 0),
   domains |-> SelectSeq(TheDomains, LAMBDA d : (d = "cooking_baking" /\ cooking > 0)
                                                \/ (d = "health_supplements" /\ health > 0)
                                                \/ (d = "misc" /\ cooking + health = 0))]

\* A preference and a request, a claim that bridges two, its negation.
Preferring(id, chunk, words) ==
  Row(id, "talk", chunk, "user", <<Sentence({"likes", "named"}, {"asks", "question"}, words, Some)>>, 2, 0)

Claims ==
  { Preferring(1, "k1", {"like", "bread", "crust"}),
    Row(2, "talk", "k2", "user", <<Sentence({"likes", "named", "condition"}, {}, {"sour", "starter"}, Some)>>, 2, 0),
    Row(3, "talk", "k3", "user", <<Sentence({"likes", "named", "condition"}, {}, {"like", "bread", "crust", "sour", "starter"}, Some)>>, 3, 0),
    Row(4, "tale", "k4", "user", <<Sentence({"likes"}, {}, {"not", "like", "bread", "crust"}, Some)>>, 1, 0),
    Row(5, "tale", "k5", "assistant", <<Sentence({"likes"}, {}, {"like", "bread", "crust"}, Some)>>, 2, 0),
    Row(6, "tale", "k6", "user", <<Sentence({"worked", "object"}, {}, {"starters", "rose"}, Some),
                                   Sentence({"question"}, {}, {"bread"}, Few)>>, 2, 1) }

Noise ==
  { Row(7, "talk", "k1", "user", <<Sentence({"likes"}, {}, {"like", "bread"}, Tiny)>>, 1, 0),
    Row(8, "talk", "k8", "user", <<Sentence({"meta", "likes"}, {}, {"bread"}, Many)>>, 1, 0),
    Row(9, "tale", "k9", "user", <<Sentence({"has"}, {"question"}, {"starter"}, Some)>>, 1, 0),
    Row(10, "tale", "k10", "user", <<Sentence({"likes", "pronoun"}, {}, {"bread"}, Few),
                                     Sentence({"today", "worked", "vague"}, {}, {"starter"}, Some)>>, 0, 0),
    Row(11, "talk", "k11", "tool", <<Sentence({"worked"}, {}, {"bread"}, Some)>>, 1, 0),
    Row(12, "tale", "k12", "user", <<Sentence({"actually", "likes", "now"}, {}, {"actually", "like", "bread", "crust"}, Some)>>, 0, 1) }

TheQueues == UNION {kSubset(n, Claims \union Noise) : n \in 0 .. 3}

\* The negation, the assistant's words, and a second text of a chunk that is there.
TheRows == {r \in Claims \union Noise : r.id \in {4, 5, 7}}

TheTies == {<<"talk", "baking log">>, <<"k1", "baking log">>, <<"tale", "recipes">>}

TheFilters ==
  { [status |-> "pending", assistantOnly |-> FALSE, quality |-> "all"],
    [status |-> "pending", assistantOnly |-> FALSE, quality |-> "high_signal"],
    [status |-> None, assistantOnly |-> FALSE, quality |-> "all"],
    [status |-> "pending", assistantOnly |-> TRUE, quality |-> "high_signal"] }

===============================================================================
