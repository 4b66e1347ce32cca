------------------------------ MODULE MCHomeNotes ------------------------------
(* Instances of HomeNotes for TLC: cards with and without notes, one of ingredients *)
(* only, and a body as given; every note is made under one title.                 *)
EXTENDS HomeNotes

Card(parts, tags) == [free |-> FALSE, parts |-> parts, tags |-> tags]

TheBodies ==
  { Card({"ingredients", "method"}, TRUE), Card({"ingredients", "method", "notes"}, FALSE),
    Card({"ingredients"}, FALSE), [free |-> TRUE, parts |-> {}, tags |-> FALSE] }
===============================================================================
