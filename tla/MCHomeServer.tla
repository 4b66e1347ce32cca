----------------------------- MODULE MCHomeServer -----------------------------
(* Instances of HomeServer for TLC: a memory of two conversations and three records, *)
(* in the domains of the code that the slots and the policies name; and a recipe     *)
(* book in which every note is made under one title.                                 *)
EXTENDS HomeServer, MCHomeNotes

TheDomains == {"cooking_baking", "style_wardrobe", "lab_automation", "health_supplements", "finance_investing"}

\* Two entries of DOMAIN_ADJACENCY.
NextTo ==
  [d \in TheDomains |->
    CASE d = "cooking_baking"     -> {"health_supplements", "lab_automation"}
      [] d = "health_supplements" -> {"cooking_baking"}
      [] OTHER                    -> {}]

AgeOf == ("health_supplements" :> 30) @@ ("finance_investing" :> 7)

\* How well a hit matches: always alike, or only with the words added for a slot.
Always(n) == [w \in Wordings |-> n]
OnlyFor(slots, n) == [w \in Wordings |-> IF w \in slots THEN n ELSE 0]

Chunk(key, message, role, domains, age, keyword, says) ==
  [key |-> key, source |-> key, message |-> message, conversation |-> "talk", role |-> role,
   domains |-> domains, trust |-> None, official |-> FALSE, age |-> age,
   keyword |-> keyword, semantic |-> Always(0), artifact |-> None,
   groups |-> {"starter", "feeding", "peak"}, title |-> {}, snippet |-> says]

Record(key, type, domains, trust, official, age) ==
  [Chunk(key, None, type, domains, age, Always(50), {}) EXCEPT
     !.conversation = None, !.trust = trust, !.official = official]

State == {"starter", "event", "outcome", "fact"}

\* The user's reports on a starter, one newer and one more specific; what an
\* assistant said of it; a lab note that only the words of a slot find.
Kitchen ==
  { Chunk(4, "m1", "user", {"cooking_baking"}, 3, Always(100), State),
    Chunk(5, "m1", "user", {"cooking_baking"}, 9, Always(50), State \union {"percent"}),
    Chunk(6, "m2", "assistant", {"cooking_baking"}, 3, Always(100), State),
    Chunk(7, "m3", "user", {"cooking_baking"}, None, OnlyFor({"relevant_outcomes"}, 50), {"question"}),
    Chunk(8, "m1", "user", {"cooking_baking"}, 3, Always(30), {"outcome", "constraint"}) }

Lab == {[Chunk(9, "m4", "user", {"lab_automation"}, 3, Always(50), {"preference"}) EXCEPT !.artifact = "operational"]}

Health ==
  { Chunk(10, "m5", "user", {"health_supplements"}, 5, Always(50), {"outcome"}),
    Chunk(11, "m5", "user", {"health_supplements", "finance_investing"}, 20, Always(30), {"negation"}),
    Chunk(12, "m6", "tool", {"health_supplements"}, 5, Always(100), {}) }

Records ==
  { Record(1, "decision", {"health_supplements"}, "high", TRUE, 20),
    Record(2, "decision", {"health_supplements"}, "canonical", FALSE, 5),
    Record(3, "lesson", {"cooking_baking"}, "medium", FALSE, 90) }

Upto(S, n) == UNION {kSubset(k, S) : k \in 0 .. n}

TheCorpora == Upto(Kitchen \union Lab \union Records \union Health, 4)

Dislike == [source |-> 4, weight |-> -80, words |-> {"asked"}]

Asked(domains, advice, tracks) ==
  [words |-> "asked", domains |-> domains, subject |-> None, advice |-> advice,
   effort |-> 2, cross |-> FALSE, depth |-> 3, debug |-> 0, limit |-> 2, controls |-> {},
   testing |-> FALSE, baking |-> tracks # None, groups |-> IF tracks = None THEN {} ELSE {"starter"},
   doubts |-> advice, tracks |-> tracks, detail |-> "standard", broad |-> FALSE]

TheQueries ==
  UNION {
    {[Asked({"cooking_baking"}, FALSE, "starter") EXCEPT !.effort = e, !.controls = c, !.broad = (e >= 4)] :
       e \in {1, 4}, c \in {{}, {Dislike}}},
    {[Asked({"health_supplements"} \union other, advice, None) EXCEPT !.cross = x, !.effort = e, !.broad = (e >= 4)] :
       other \in {{}, {"finance_investing"}}, advice \in BOOLEAN, x \in BOOLEAN, e \in {3, 4}},
    {[Asked({"health_supplements"}, TRUE, None) EXCEPT !.limit = 1, !.broad = TRUE, !.detail = "summary"]},
    {[Asked({"lab_automation"}, FALSE, None) EXCEPT !.detail = d, !.cross = x] :
       d \in {"summary", "complete"}, x \in BOOLEAN},
    {[Asked({}, FALSE, None) EXCEPT !.subject = s, !.debug = d] :
       s \in {None, {}, {"cooking_baking"}}, d \in {0, 4}} }
===============================================================================
