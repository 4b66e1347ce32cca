---------------------------- MODULE MCMemorySearch ----------------------------
(* Instances of MemorySearch for TLC: chunks of one message.                   *)
EXTENDS MemorySearch, TLC

CONSTANTS message

OneMessage == [c \in Chunks |-> message]

ChunkSymmetry == Permutations(Chunks)
===============================================================================
