------------------------------ MODULE MCBootstrap ------------------------------
(* An instance of Bootstrap for TLC: a blank host on which the bootstrap is run   *)
(* up to twice before and around a cutover, and a host that was             *)
(* bootstrapped, on which two cutovers run at once.                               *)
EXTENDS Bootstrap

CONSTANTS s1, s2, db, journal, c1, c2, wheels, mixed

ThePlans ==
  {[boots |-> 2, scripts |-> {s1}, bootstrapped |-> FALSE, writes |-> 2],
   [boots |-> 0, scripts |-> {s1, s2}, bootstrapped |-> TRUE, writes |-> 1]}
===============================================================================
