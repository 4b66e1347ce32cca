------------------------------ MODULE HomeServer ------------------------------
(* The requests of the Home server that have no database transaction of their own: *)
(* it answers with a context packet, or works on notes. Neither reads what the     *)
(* other writes, so that nothing is lost by not interleaving the two.              *)
EXTENDS MemoryContext, HomeNotes

Answering == ContextInit /\ NotesInit(0)

TakingNotes ==
  /\ query = CHOOSE q \in Queries : ~ q.advice
  /\ hits = {} /\ stage = "done" /\ slot = 1 /\ results = <<>> /\ items = {} /\ packet = NoPacket
  /\ NotesInit(MaxCalls)

ServerNext ==
  \/ ContextNext /\ UNCHANGED notesVars
  \/ NotesNext /\ UNCHANGED vars

ServerSpec == (Answering \/ TakingNotes) /\ [][ServerNext]_<<vars, notesVars>>
===============================================================================
