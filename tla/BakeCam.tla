-------------------------------- MODULE BakeCam --------------------------------
(***************************************************************************)
(* The commands `lagent bake-cam` that work on one baking session          *)
(* (bake_cam.py): capture-now, sync, status and schedule, each a process.  *)
(*                                                                         *)
(* All of them share the file session.json, without a lock: a change reads *)
(* the file, computes the new contents and writes the whole file back.     *)
(* The write (security/paths.py) truncates the file in place and then      *)
(* fills it, so that a reader or a crash in between meets an empty file,   *)
(* and two writers at once may leave a file that is no JSON.               *)
(*                                                                         *)
(* A capture is recorded in the spool of the session before it is copied   *)
(* from the camera host, and leaves the spool once it is filed: that       *)
(* ordering is what a crash or a failed copy relies on.                    *)
(***************************************************************************)
EXTENDS Naturals, FiniteSets

CONSTANTS
  Procs,        \* processes that can run a command
  Captures,     \* capture ids
  MaxCommands,  \* bound: commands started
  MaxCrashes,   \* bound: commands killed
  None,         \* no value
  Empty,        \* session.json after it was truncated
  Garbled       \* session.json after two writers wrote over each other

Commands == {"capture", "sync", "status", "schedule"}

\* The steps of a command that rewrite session.json, and all of them.
Rewrites == {"append", "mark", "remove", "error", "settle", "plan"}
Steps == Rewrites \union {"none", "load", "pick", "copy", "file", "latest"}

\* session.json: "spool" is None until a first capture is spooled.
Sessions == [count : Nat, error : BOOLEAN, planned : BOOLEAN,
             spool : {None} \union SUBSET Captures]

\* A command: the step it is at, the capture in hand, the items a sync has
\* still to copy and those it failed to copy, and the contents it is to write.
Jobs == [cmd : Commands \union {"idle"}, at : Steps, cap : Captures \union {None},
         todo : SUBSET Captures, kept : SUBSET Captures,
         draft : Sessions \union {None}, opened : BOOLEAN]

ASSUME BakeAssumption ==
  /\ IsFiniteSet(Procs) /\ IsFiniteSet(Captures)
  /\ MaxCommands \in Nat /\ MaxCrashes \in Nat
  /\ None \notin Captures \union {Empty, Garbled}
  /\ None \notin Sessions /\ \A set \in SUBSET Captures : set # None
  /\ Empty # Garbled /\ {Empty, Garbled} \intersect Sessions = {}

VARIABLES
  session,      \* contents of session.json
  filed,        \* captures whose image and metadata are in captures/
  latest,       \* the capture latest/ points to
  proc,         \* the commands that are running
  used,         \* capture ids given out
  owed,         \* history: captures that were spooled
  overlapped,   \* history: two commands ran at once
  torn,         \* history: a command was killed between truncate and fill
  commands, crashes  \* counters of the bounds

camVars == <<session, filed, latest, proc, used, owed, overlapped, torn, commands, crashes>>

Idle == [cmd |-> "idle", at |-> "none", cap |-> None, todo |-> {}, kept |-> {},
         draft |-> None, opened |-> FALSE]

CamTypeOK ==
  /\ session \in Sessions \union {Empty, Garbled}
  /\ filed \subseteq used /\ owed \subseteq used /\ used \subseteq Captures
  /\ latest \in filed \union {None}
  /\ proc \in [Procs -> Jobs]
  /\ overlapped \in BOOLEAN /\ torn \in BOOLEAN
  /\ commands \in 0..MaxCommands /\ crashes \in 0..MaxCrashes

\* create_session.
CamInit ==
  /\ session = [count |-> 0, error |-> FALSE, planned |-> FALSE, spool |-> None]
  /\ filed = {} /\ latest = None /\ used = {} /\ owed = {}
  /\ proc = [p \in Procs |-> Idle]
  /\ overlapped = FALSE /\ torn = FALSE
  /\ commands = 0 /\ crashes = 0

\* load_session parses the file; it raises on one that is empty or no JSON.
Readable == session \notin {Empty, Garbled}

SpoolOf(s) == IF s.spool = None THEN {} ELSE s.spool

Goto(p, step) == proc' = [proc EXCEPT ![p].at = step]
End(p) == proc' = [proc EXCEPT ![p] = Idle]

-------------------------------------------------------------------------------
(* The changes commands make to the session.                               *)

Appended(s, c) == [s EXCEPT !.spool = SpoolOf(s) \union {c}]
Marked(s)      == [s EXCEPT !.count = @ + 1, !.error = FALSE]
Removed(s, c)  == [s EXCEPT !.spool = SpoolOf(s) \ {c}]
Failed(s)      == [s EXCEPT !.error = TRUE]
Settled(s, kept) == [s EXCEPT !.spool = kept]
Planned(s)     == [s EXCEPT !.planned = TRUE]

\* Mutant: the capture leaves the spool before it is counted.
ChangeRemovesFirst(j, s) ==
  CASE j.at = "append" -> Appended(s, j.cap)
    [] j.at = "mark"   -> IF j.cmd = "capture" THEN Removed(s, j.cap) ELSE Marked(s)
    [] j.at = "remove" -> Marked(s)
    [] j.at = "error"  -> Failed(s)
    [] j.at = "settle" -> Settled(s, j.kept)
    [] j.at = "plan"   -> Planned(s)

Change(j, s) ==
  CASE j.at = "append" -> Appended(s, j.cap)
    [] j.at = "mark"   -> Marked(s)
    [] j.at = "remove" -> Removed(s, j.cap)
    [] j.at = "error"  -> Failed(s)
    [] j.at = "settle" -> Settled(s, j.kept)
    [] j.at = "plan"   -> Planned(s)

\* The step that follows a change.
AfterChange(j) ==
  CASE j.at = "append" -> "copy"
    [] j.at = "mark"   -> IF j.cmd = "capture" THEN "remove" ELSE "pick"
    [] OTHER           -> "end"

\* Read, truncate, fill.  A command that meets an unreadable file dies of it.
ReadSession(p) ==
  /\ proc[p].at \in Rewrites /\ proc[p].draft = None
  /\ IF ~Readable \/ (proc[p].cmd = "status" /\ ~session.planned)
       THEN End(p)
       ELSE proc' = [proc EXCEPT ![p].draft = Change(proc[p], session)]
  /\ UNCHANGED <<session, filed, latest, used, owed, overlapped, torn, commands, crashes>>

Truncate(p) ==
  /\ proc[p].draft # None /\ ~proc[p].opened
  /\ session' = Empty
  /\ proc' = [proc EXCEPT ![p].opened = TRUE]
  /\ UNCHANGED <<filed, latest, used, owed, overlapped, torn, commands, crashes>>

\* Over the longer contents of another writer the shorter ones leave a tail.
Fill(p) ==
  LET j == proc[p]
      step == AfterChange(j)
  IN /\ j.opened
     /\ session' \in IF session = Empty THEN {j.draft} ELSE {j.draft, Garbled}
     /\ owed' = IF j.at = "append" THEN owed \union {j.cap} ELSE owed
     /\ proc' = [proc EXCEPT ![p] =
          IF step = "end" THEN Idle
          ELSE [j EXCEPT !.at = step, !.draft = None, !.opened = FALSE]]
     /\ UNCHANGED <<filed, latest, used, overlapped, torn, commands, crashes>>

-------------------------------------------------------------------------------
(* The commands.                                                           *)

\* A scheduled job or a person starts a command; the wrapper of a scheduled
\* job runs a sync when its capture failed.
Start(p, cmd) ==
  /\ proc[p] = Idle /\ commands < MaxCommands
  /\ proc' = [proc EXCEPT ![p] =
       [Idle EXCEPT !.cmd = cmd,
                    !.at = IF cmd \in {"capture", "sync"} THEN "load" ELSE "plan"]]
  /\ overlapped' = (overlapped \/ \E q \in Procs : proc[q] # Idle)
  /\ commands' = commands + 1
  /\ UNCHANGED <<session, filed, latest, used, owed, torn, crashes>>

\* capture_now takes a still on the camera host, with retries.
Shoot(p) ==
  /\ proc[p].cmd = "capture" /\ proc[p].at = "load"
  /\ IF ~Readable THEN End(p) /\ UNCHANGED used
     ELSE \E c \in Captures \ used, taken \in BOOLEAN :
            /\ proc' = [proc EXCEPT ![p].cap = c,
                                    ![p].at = IF taken THEN "append" ELSE "error"]
            /\ used' = used \union {c}
  /\ UNCHANGED <<session, filed, latest, owed, overlapped, torn, commands, crashes>>

\* sync_spooled_captures lists the spool once, and copies item by item.
ListSpool(p) ==
  /\ proc[p].cmd = "sync" /\ proc[p].at = "load"
  /\ IF ~Readable THEN End(p)
     ELSE IF session.spool = None THEN End(p)
     ELSE proc' = [proc EXCEPT ![p].at = "pick", ![p].todo = session.spool]
  /\ UNCHANGED <<session, filed, latest, used, owed, overlapped, torn, commands, crashes>>

Pick(p) ==
  /\ proc[p].at = "pick"
  /\ IF proc[p].todo = {} THEN Goto(p, "settle")
     ELSE \E c \in proc[p].todo :
            proc' = [proc EXCEPT ![p].cap = c, ![p].todo = @ \ {c}, ![p].at = "copy"]
  /\ UNCHANGED <<session, filed, latest, used, owed, overlapped, torn, commands, crashes>>

\* scp with retries; an item a sync could not copy stays for a later one.
CopyOk(p) ==
  /\ proc[p].at = "copy"
  /\ Goto(p, "file")
  /\ UNCHANGED <<session, filed, latest, used, owed, overlapped, torn, commands, crashes>>

\* Mutant: an item that could not be copied is dropped.
CopyFailsDropsItem(p) ==
  /\ proc[p].at = "copy"
  /\ IF proc[p].cmd = "capture" THEN Goto(p, "error") ELSE Goto(p, "pick")
  /\ UNCHANGED <<session, filed, latest, used, owed, overlapped, torn, commands, crashes>>

CopyFails(p) ==
  /\ proc[p].at = "copy"
  /\ IF proc[p].cmd = "capture" THEN Goto(p, "error")
     ELSE proc' = [proc EXCEPT ![p].at = "pick", ![p].kept = @ \union {proc[p].cap}]
  /\ UNCHANGED <<session, filed, latest, used, owed, overlapped, torn, commands, crashes>>

\* The metadata of the capture, and then the pointers in latest/.
File(p) ==
  /\ proc[p].at = "file"
  /\ filed' = filed \union {proc[p].cap}
  /\ Goto(p, "latest")
  /\ UNCHANGED <<session, latest, used, owed, overlapped, torn, commands, crashes>>

PointLatest(p) ==
  /\ proc[p].at = "latest"
  /\ latest' = proc[p].cap
  /\ Goto(p, "mark")
  /\ UNCHANGED <<session, filed, used, owed, overlapped, torn, commands, crashes>>

\* The process is killed, or its host stops.
Crash(p) ==
  /\ proc[p] # Idle /\ crashes < MaxCrashes
  /\ End(p)
  /\ torn' = (torn \/ proc[p].opened)
  /\ crashes' = crashes + 1
  /\ UNCHANGED <<session, filed, latest, used, owed, overlapped, commands>>

CamNext ==
  \E p \in Procs :
    \/ \E cmd \in Commands : Start(p, cmd)
    \/ ReadSession(p) \/ Truncate(p) \/ Fill(p)
    \/ Shoot(p) \/ ListSpool(p) \/ Pick(p)
    \/ CopyOk(p) \/ CopyFails(p) \/ File(p) \/ PointLatest(p)
    \/ Crash(p)

-------------------------------------------------------------------------------
(* Properties.                                                             *)

\* A still that was spooled is filed or still in the spool, whatever fails and
\* wherever a command is killed, unless the session file itself was lost half
\* written or two commands ran at once: the spool then survives only by luck.
SpoolIsKept ==
  ~overlapped /\ ~torn /\ Readable => owed \subseteq filed \union SpoolOf(session)

\* The count of a session never falls short of the captures that are filed and
\* have left the spool (a sync that resumes after a crash may count one twice).
CountNeverLow ==
  ~overlapped /\ ~torn /\ Readable =>
    Cardinality(filed \ SpoolOf(session)) <= session.count
===============================================================================
