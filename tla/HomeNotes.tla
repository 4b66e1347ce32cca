------------------------------- MODULE HomeNotes -------------------------------
(* The note tools of the Home server: notes and recipe cards are created, logs    *)
(* of attempts are appended, the recipe book is normalized, and a recipe becomes  *)
(* a memory record. Every request is served by a thread of its own, nothing locks *)
(* a file, and a write truncates the file before it fills it.                     *)
EXTENDS Naturals, FiniteSets, SequencesExt

CONSTANTS
  Callers,     \* threads of the server
  Titles,      \* slugs of titles
  Bodies,      \* the shapes of the cards that callers make
  MaxCalls,    \* bound: calls in a behaviour
  MaxCrashes   \* bound: crashes of the server

VARIABLES
  files,       \* the text under each name, or NoFile
  call,        \* what each thread is doing
  made,        \* calls made so far
  crashes,
  records,     \* memory records made of notes, with what was due in them (history)
  told,        \* history: what callers were told that a note holds
  raced,       \* history: notes that two writes of which overlapped, or one was cut
  reshaped     \* history: notes normalized with attempts outside their Notes section

ASSUME NotesAssumption ==
  /\ MaxCalls \in Nat
  /\ Bodies \subseteq [free : BOOLEAN, parts : SUBSET {"ingredients", "method", "notes"}, tags : BOOLEAN]

notesVars == <<files, call, made, crashes, records, told, raced, reshaped>>

--------------------------------------------------------------------------------
(* Texts. A text is a sequence of headings and lines; a line carries the call     *)
(* that wrote it, and so does the time stamp that heads an attempt. The front     *)
(* matter is the tags in it: all else in it is recomputed or only read back.      *)

Heading(of) == [kind |-> "heading", of |-> of, by |-> 0]
Line(of, n) == [kind |-> "line", of |-> of, by |-> n]
Stamp(n) == [Heading("attempt") EXCEPT !.by = n]

Sections == {"ingredients", "method", "notes"}

Part(heading, lines) == IF lines = <<>> THEN <<>> ELSE <<Heading(heading)>> \o lines

Render(card) ==
  <<Heading("title")>> \o card.summary
    \o (IF card.tags THEN <<Heading("glance")>> ELSE <<>>)
    \o Part("ingredients", card.ingredients) \o Part("method", card.method) \o Part("notes", card.notes)
    \o (IF card.source THEN <<Heading("source")>> ELSE <<>>)

\* _extract_recipe_structure: a heading that is no section is dropped among the
\* ingredients, becomes a step of the method and hides the lines below it, and is
\* kept as text among the notes, where a text without sections goes as a whole.
Put(s, line) ==
  IF line.kind = "heading"
  THEN CASE line.of \in Sections -> [s EXCEPT !.at = line.of, !.hides = @ /\ line.of # "method"]
         [] line.of \notin Sections /\ s.at = "method" ->
              [s EXCEPT !.hides = TRUE, !.method = Append(@, Line(line.of, line.by))]
         [] line.of \notin Sections /\ s.at = "notes" -> [s EXCEPT !.notes = Append(@, line)]
         [] OTHER -> s
  ELSE IF s.at = "method" /\ s.hides THEN s ELSE [s EXCEPT ![s.at] = Append(@, line)]

NoStructure == [at |-> "notes", hides |-> FALSE, ingredients |-> <<>>, method |-> <<>>, notes |-> <<>>]

Structure(body) == FoldLeft(Put, NoStructure, body)

IsLine(body, i) == i \in DOMAIN body /\ body[i].kind = "line"

\* A text that begins with a heading loses it and the paragraph below.
WithoutIntro(body) ==
  IF body = <<>> \/ IsLine(body, 1) THEN body
  ELSE IF IsLine(body, 2) THEN SubSeq(body, 3, Len(body))
  ELSE Tail(body)

Summary(body) ==
  IF IsLine(body, 1) THEN <<body[1]>>
  ELSE IF IsLine(body, 2) THEN <<body[2]>>
  ELSE <<>>

Normalized(text) ==
  LET s == Structure(WithoutIntro(text.body)) IN
  [text EXCEPT !.body = Render([summary |-> Summary(text.body), tags |-> text.tags, source |-> TRUE,
                                ingredients |-> s.ingredients, method |-> s.method, notes |-> s.notes])]

\* _extract_recipe_attempts: an attempt is a heading with its tags below.
Attempts(body) ==
  {body[i].by : i \in {j \in DOMAIN body : /\ body[j].kind = "heading"
                                           /\ body[j].of = "attempt"
                                           /\ IsLine(body, j + 1)
                                           /\ body[j + 1] = Line("entry", body[j].by)}}

\* The text of a new note: a body as given, or the card of the fields given.
NoteOf(shape, n) ==
  [tags |-> TRUE,
   body |-> IF shape.free
            THEN <<Line("text", n)>>
            ELSE LET Of(s) == IF s \in shape.parts THEN <<Line(s, n)>> ELSE <<>> IN
                 Render([summary |-> <<>>, tags |-> shape.tags, source |-> FALSE, ingredients |-> Of("ingredients"),
                         method |-> Of("method"), notes |-> Of("notes")])]

\* What append_markdown_log adds at the end of what it has read.
WithAttempt(text, n) == [text EXCEPT !.body = @ \o <<Stamp(n), Line("entry", n)>>]

NoFile == [tags |-> FALSE, body |-> <<Heading("absent")>>]
Blank == [tags |-> FALSE, body |-> <<>>]

Names == Titles \X (1 .. MaxCalls)
Exists(name) == files[name] # NoFile

\* Mutant: a title names its file.
TitleName(title) == <<title, 1>>

\* _unique_markdown_path: the first name of the title that no file has.
FreeName(title) ==
  <<title, CHOOSE i \in 1 .. MaxCalls : ~ Exists(<<title, i>>) /\ \A j \in 1 .. i - 1 : Exists(<<title, j>>)>>

--------------------------------------------------------------------------------
(* Calls.                                                                         *)

Idle == [op |-> "none", at |-> "idle", n |-> 0, name |-> <<>>, text |-> Blank, todo |-> {}, due |-> {}]

NotesInit(calls) ==
  /\ files = [name \in Names |-> NoFile]
  /\ call = [c \in Callers |-> Idle]
  /\ made = MaxCalls - calls
  /\ crashes = 0
  /\ records = {}
  /\ told = {}
  /\ raced = {}
  /\ reshaped = {}

Writing(c, name) == call[c].at \in {"write", "fill"} /\ call[c].name = name

\* The threads that are between what they knew of a note and their write of it.
Race(c, name) == raced' = IF \E d \in Callers \ {c} : Writing(d, name) THEN raced \union {name} ELSE raced

Begin(c, request) ==
  /\ call[c].at = "idle"
  /\ made < MaxCalls
  /\ made' = made + 1
  /\ call' = [call EXCEPT ![c] = request]
  /\ UNCHANGED <<files, crashes, records, told>>

\* create_markdown_note, for create_recipe, create_recipe_card and
\* create_project_note: the name is chosen now and opened later.
Create(c) ==
  \E title \in Titles, shape \in Bodies :
    LET name == FreeName(title) IN
    /\ Begin(c, [Idle EXCEPT !.op = "create", !.at = "write", !.n = made + 1, !.name = name,
                             !.text = NoteOf(shape, made + 1)])
    /\ Race(c, name)
    /\ UNCHANGED reshaped

\* append_recipe_attempt: the whole text is read, and written back with the entry.
AppendAttempt(c) ==
  \E name \in Names :
    /\ Exists(name)
    /\ Begin(c, [Idle EXCEPT !.op = "append", !.at = "write", !.n = made + 1, !.name = name,
                             !.text = WithAttempt(files[name], made + 1)])
    /\ Race(c, name)
    /\ UNCHANGED reshaped

\* normalize_recipe_book with apply: it lists the book, then reads and writes one
\* note after the other. The nested front matter makes every text differ.
Normalize(c) ==
  /\ \E name \in Names : Exists(name)
  /\ Begin(c, [Idle EXCEPT !.op = "normalize", !.at = "next", !.n = made + 1, !.todo = {name \in Names : Exists(name)}])
  /\ UNCHANGED <<raced, reshaped>>

IsSection(line) == line.kind = "heading" /\ line.of \in Sections

\* Where an attempt is appended to a card, it follows the last section of the card.
EndsInNotes(body) ==
  \A i \in DOMAIN body : IsSection(body[i]) =>
    body[i].of = "notes" \/ \E j \in DOMAIN body : j > i /\ IsSection(body[j])

NormalizeNext(c) ==
  /\ call[c].at = "next"
  /\ \E name \in call[c].todo :
       /\ call' = [call EXCEPT ![c].at = "write", ![c].name = name, ![c].todo = @ \ {name},
                               ![c].text = Normalized(files[name])]
       /\ Race(c, name)
       /\ reshaped' = IF EndsInNotes(files[name].body) THEN reshaped ELSE reshaped \union {name}
  /\ UNCHANGED <<files, made, crashes, records, told>>

\* bridge_recipe_note_to_memory reads the note; what is due in it is what callers
\* were told, unless a write of the note is between truncating and filling it.
Bridge(c) ==
  \E name \in Names :
    /\ Exists(name)
    /\ LET torn == \E d \in Callers : call[d].at = "fill" /\ call[d].name = name
           due == IF torn \/ name \in raced THEN {} ELSE {t \in told : t.name = name /\ ~ (t.attempt # 0 /\ name \in reshaped)}
       IN Begin(c, [Idle EXCEPT !.op = "bridge", !.at = "record", !.n = made + 1, !.name = name,
                                !.text = files[name], !.due = due])
    /\ UNCHANGED <<raced, reshaped>>

\* create_memory_record refuses an empty body and overwrites its own record.
WriteRecord(c) ==
  /\ call[c].at = "record"
  /\ records' = IF call[c].text.body = <<>> THEN records
                ELSE records \union {[name |-> call[c].name, body |-> call[c].text.body, due |-> call[c].due]}
  /\ call' = [call EXCEPT ![c] = Idle]
  /\ UNCHANGED <<files, made, crashes, told, raced, reshaped>>

--------------------------------------------------------------------------------
(* safe_write_text: the file is created or truncated, then filled.                *)

TruncateNote(c) ==
  /\ call[c].at = "write"
  /\ files' = [files EXCEPT ![call[c].name] = Blank]
  /\ call' = [call EXCEPT ![c].at = "fill"]
  /\ UNCHANGED <<made, crashes, records, told, raced, reshaped>>

LinesBy(text, n) == {line \in ToSet(text.body) : line.kind = "line" /\ line.by = n}

\* The call has written its note and answers, or goes on with the next one.
FillNote(c) ==
  LET this == call[c] IN
  /\ this.at = "fill"
  /\ files' = [files EXCEPT ![this.name] = this.text]
  /\ told' = told \union
       (CASE this.op = "create" -> {[name |-> this.name, attempt |-> 0, lines |-> LinesBy(this.text, this.n)]}
          [] this.op = "append" -> {[name |-> this.name, attempt |-> this.n, lines |-> {}]}
          [] OTHER -> {})
  /\ call' = [call EXCEPT ![c] = IF this.todo = {} THEN Idle ELSE [this EXCEPT !.at = "next"]]
  /\ UNCHANGED <<made, crashes, records, raced, reshaped>>

\* The server is stopped or dies, with all its threads.
ServerStops ==
  /\ crashes < MaxCrashes
  /\ \E c \in Callers : call[c] # Idle
  /\ crashes' = crashes + 1
  /\ raced' = raced \union {call[c].name : c \in {d \in Callers : call[d].at = "fill"}}
  /\ call' = [c \in Callers |-> Idle]
  /\ UNCHANGED <<files, made, records, told, reshaped>>

Step(c) ==
  \/ Create(c) \/ AppendAttempt(c) \/ Normalize(c) \/ NormalizeNext(c)
  \/ Bridge(c) \/ WriteRecord(c) \/ TruncateNote(c) \/ FillNote(c)

NotesNext == ServerStops \/ \E c \in Callers : Step(c)

NotesSpec == NotesInit(MaxCalls) /\ [][NotesNext]_notesVars

--------------------------------------------------------------------------------
(* Properties.                                                                    *)

\* A note as it is, or as the write that is under way leaves it.
BodyOf(name) ==
  IF \E c \in Callers : call[c].at = "fill" /\ call[c].name = name
  THEN call[CHOOSE c \in Callers : call[c].at = "fill" /\ call[c].name = name].text.body
  ELSE files[name].body

Keeps(body, t) == t.lines \subseteq ToSet(body) /\ (t.attempt # 0 => t.attempt \in Attempts(body))

\* What a caller was told is in a note stays in it: a card keeps its lines through
\* any number of normalizations, an attempt stays an attempt unless a card was
\* normalized that had no Notes section for it to fall under, and no call loses
\* what another one wrote, as long as the writes of a note do not overlap and none
\* is cut. Two creations under one title in particular get a file each.
FilesKeep ==
  \A t \in told :
    (t.name \notin raced /\ ~ (t.attempt # 0 /\ t.name \in reshaped)) => Keeps(BodyOf(t.name), t)

\* A memory record made of a note holds what its callers had been told, unless the
\* note was read while a write had emptied it.
RecordsKeep == \A r \in records : \A t \in r.due : Keeps(r.body, t)

NotesAreKept == FilesKeep /\ RecordsKeep

\* "The rewrite should preserve the recipe's substance": an attempt that a caller
\* was told is recorded survives the normalization of its card.
AttemptsSurvive ==
  \A t \in told : (t.attempt # 0 /\ t.name \notin raced) => Keeps(BodyOf(t.name), t)
===============================================================================
