----------------------------- MODULE MCBakeStation -----------------------------
(* Small instances of BakeStation for TLC.                                 *)
EXTENDS BakeStation
===============================================================================
