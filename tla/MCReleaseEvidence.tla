--------------------------- MODULE MCReleaseEvidence ---------------------------
(* Two commits with different lockfiles; the second list finds a literal in one. *)
EXTENDS ReleaseEvidence

CONSTANTS c1, c2, l1, l2

TwoCommits == {c1, c2}
TwoLists == {l1, l2}
LockOf == [c \in TwoCommits |-> IF c = c1 THEN 1 ELSE 2]
OneLeak == {<<c1, l2>>}
OneLocal == <<"full_tests">>
ShortPolicy == <<"license_review", "full_tests", "clean_clone">>
===============================================================================
