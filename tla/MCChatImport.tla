----------------------------- MODULE MCChatImport -----------------------------
(* Instances of ChatImport for TLC: one conversation with two chunks, and an   *)
(* edited version of it that has lost the second one.                          *)
EXTENDS ChatImport, TLC

CONSTANTS c1, c2, conversation, first, edited

OneConversation == [c \in Candidates |-> conversation]
NoEvidence == [c \in Candidates |-> {}]
NoSelections == {}

CoversAll == [x \in Exports |-> {conversation}]
ExtractsOf == [x \in Exports |-> IF x = edited THEN {c1} ELSE {c1, c2}]

ImporterSymmetry == Permutations(Importers)

\* What races: two importers, or an importer and a client.
AtMostTwo ==
  Cardinality({i \in Importers : step[i] # "idle"}) + Cardinality({k \in Clients : pc[k] # "idle"}) <= 2

\* Clients merge beside imports of the first export only.
OneExport ==
  (\E k \in Clients : pc[k] # "idle") => edited \notin imports \union {export[i] : i \in Importers}

\* No client reads subjects: they are assigned where none is about and nothing is merged.
FewSubjects == assigned # {} => records = {} /\ \A k \in Clients : pc[k] = "idle"
===============================================================================
