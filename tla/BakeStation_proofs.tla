--------------------------- MODULE BakeStation_proofs ---------------------------
(***************************************************************************)
(* Theorems about the bake cam and the camera runner, for any sets of      *)
(* processes, captures, runs, offsets and stamps and any bounds: types,    *)
(* that no spooled still is lost, and that the count is never too low.     *)
(*                                                                         *)
(* The file is unreadable between Truncate and Fill, so that the invariant *)
(* speaks of the contents the running command has read (Story): they are   *)
(* those of the file while it can be read, and the draft is the command's  *)
(* change of them.                                                         *)
(***************************************************************************)
EXTENDS BakeStation, TLAPS, FiniteSetTheorems

\* What spool and count have to say of the stills that are filed and owed.
Good(s, f, o) ==
  /\ o \subseteq f \union SpoolOf(s)
  /\ Cardinality(f \ SpoolOf(s)) <= s.count

\* The items that a sync has not yet counted.
Uncounted(j) == j.todo \union j.kept \union
                (IF j.at \in {"copy", "file", "latest", "mark"} THEN {j.cap} ELSE {})

\* How far a command has come with the session it has read.
Progress(j, s, f) ==
  /\ j.cmd = "capture" /\ j.at \in {"copy", "file", "latest", "mark", "remove"} =>
       j.cap \in SpoolOf(s)
  /\ j.cmd = "capture" /\ j.at = "remove" =>
       Cardinality(f \ SpoolOf(s)) + 1 <= s.count
  /\ j.cmd = "sync" /\ j.at # "load" =>
       /\ Uncounted(j) \subseteq SpoolOf(s)
       /\ SpoolOf(s) \subseteq f \union Uncounted(j)
       /\ Cardinality(f \ Uncounted(j)) <= s.count

\* The steps of each command, and what it holds at each.
Shape(j, f, u) ==
  /\ j.cmd = "idle" => j = Idle
  /\ j.cmd = "capture" =>
       j.at \in {"load", "append", "copy", "file", "latest", "mark", "remove", "error"}
  /\ j.cmd = "sync" => j.at \in {"load", "pick", "copy", "file", "latest", "mark", "settle"}
  /\ j.cmd \in {"status", "schedule"} => j.at = "plan"
  /\ j.at \in {"append", "copy", "file", "latest", "mark", "remove"} => j.cap \in Captures
  /\ j.at \in {"latest", "mark", "remove"} => j.cap \in f
  /\ j.at = "load" => j.kept = {}
  /\ j.at = "settle" => j.todo = {}
  /\ j.cap # None => j.cap \in u
  /\ j.todo \union j.kept \subseteq u
  /\ j.draft # None => j.at \in Rewrites /\ SpoolOf(j.draft) \subseteq u
  /\ j.opened => j.draft # None

ShapesOK ==
  /\ \A p \in Procs : Shape(proc[p], filed, used)
  /\ Readable => SpoolOf(session) \subseteq used

\* Commands that do not overlap, and the file while one of them writes.
OneAtATime ==
  ~ overlapped =>
    /\ \A p, q \in Procs : p # q => proc[p] = Idle \/ proc[q] = Idle
    /\ \A p \in Procs : proc[p].opened => session = Empty
    /\ torn \/ Readable \/ \E p \in Procs : proc[p].opened

Story ==
  ~ overlapped /\ ~ torn =>
    \E s \in Sessions :
      /\ Readable => s = session
      /\ Good(s, filed, owed)
      /\ \A p \in Procs : /\ Progress(proc[p], s, filed)
                          /\ proc[p].draft # None => proc[p].draft = Change(proc[p], s)

CamInv ==
  /\ CamTypeOK
  /\ ShapesOK
  /\ OneAtATime
  /\ Story

-------------------------------------------------------------------------------
(* Counting stills.                                                        *)

LEMMA CountOfSubset ==
  ASSUME NEW a, NEW b \in SUBSET Captures, a \subseteq b
  PROVE  /\ Cardinality(a) \in Nat
         /\ Cardinality(b) \in Nat
         /\ Cardinality(a) <= Cardinality(b)
<1>1. IsFiniteSet(b) BY FS_Subset, BakeAssumption
<1>2. IsFiniteSet(a) /\ Cardinality(a) <= Cardinality(b) BY <1>1, FS_Subset
<1> QED BY <1>1, <1>2, FS_CardinalityType

LEMMA CountOfOneMore ==
  ASSUME NEW a, NEW b \in SUBSET Captures, NEW c \in Captures, a \subseteq b \union {c}
  PROVE  /\ Cardinality(a) \in Nat
         /\ Cardinality(b) \in Nat
         /\ Cardinality(a) <= Cardinality(b) + 1
<1>1. IsFiniteSet(b) BY FS_Subset, BakeAssumption
<1>2. /\ IsFiniteSet(b \union {c})
      /\ Cardinality(b \union {c}) <= Cardinality(b) + 1
  <2>1. Cardinality(b) \in Nat BY <1>1, FS_CardinalityType
  <2>2. /\ IsFiniteSet(b \union {c})
        /\ Cardinality(b \union {c}) = IF c \in b THEN Cardinality(b) ELSE Cardinality(b) + 1
    BY <1>1, FS_AddElement
  <2>3. CASE c \in b BY <2>1, <2>2, <2>3
  <2>4. CASE c \notin b BY <2>1, <2>2, <2>4
  <2> QED BY <2>3, <2>4
<1>3. IsFiniteSet(a) /\ Cardinality(a) <= Cardinality(b \union {c}) BY <1>2, FS_Subset
<1>4. Cardinality(a) \in Nat /\ Cardinality(b) \in Nat /\ Cardinality(b \union {c}) \in Nat
  BY <1>1, <1>2, <1>3, FS_CardinalityType
<1> QED BY <1>2, <1>3, <1>4

LEMMA SpoolType ==
  ASSUME NEW s \in Sessions
  PROVE  SpoolOf(s) \in SUBSET Captures /\ s.count \in Nat
<1>1. (s.spool \in SUBSET Captures \/ s.spool = None) /\ s.count \in Nat BY DEF Sessions
<1>2. CASE s.spool = None BY <1>1, <1>2 DEF SpoolOf
<1>3. CASE s.spool # None
  <2>1. s.spool \in SUBSET Captures BY <1>1, <1>3
  <2>2. SpoolOf(s) = s.spool BY <1>3 DEF SpoolOf
  <2> QED BY <1>1, <2>1, <2>2
<1> QED BY <1>1, <1>2, <1>3

\* The change of a session, by its step.
LEMMA ChangeOfSession ==
  ASSUME NEW s \in Sessions, NEW j \in Jobs, j.at \in Rewrites,
         j.at \in {"append", "mark", "remove"} => j.cap \in Captures
  PROVE  /\ Change(j, s) \in Sessions
         /\ Change(j, s).count = IF j.at = "mark" THEN s.count + 1 ELSE s.count
         /\ SpoolOf(Change(j, s)) = CASE j.at = "append" -> SpoolOf(s) \union {j.cap}
                                      [] j.at = "remove" -> SpoolOf(s) \ {j.cap}
                                      [] j.at = "settle" -> j.kept
                                      [] OTHER -> SpoolOf(s)
<1>1. /\ SpoolOf(s) \in SUBSET Captures
      /\ s.count \in Nat
      /\ \A set \in SUBSET Captures : set # None
  BY SpoolType, BakeAssumption
<1>2. CASE j.at = "append"
  <2> DEFINE set == SpoolOf(s) \union {j.cap}
  <2>1. set \in SUBSET Captures /\ set # None BY <1>1, <1>2
  <2>2. Change(j, s) = [s EXCEPT !.spool = set] BY <1>2 DEF Change, Appended
  <2> HIDE DEF set
  <2>3. Change(j, s) \in Sessions /\ Change(j, s).count = s.count /\ Change(j, s).spool = set
    BY <2>1, <2>2 DEF Sessions
  <2> QED BY <1>2, <2>1, <2>3 DEF SpoolOf, set
<1>3. CASE j.at = "remove"
  <2> DEFINE set == SpoolOf(s) \ {j.cap}
  <2>1. set \in SUBSET Captures /\ set # None BY <1>1
  <2>2. Change(j, s) = [s EXCEPT !.spool = set] BY <1>3 DEF Change, Removed
  <2> HIDE DEF set
  <2>3. Change(j, s) \in Sessions /\ Change(j, s).count = s.count /\ Change(j, s).spool = set
    BY <2>1, <2>2 DEF Sessions
  <2> QED BY <1>3, <2>1, <2>3 DEF SpoolOf, set
<1>4. CASE j.at = "settle"
  <2>1. j.kept \in SUBSET Captures /\ j.kept # None BY <1>1 DEF Jobs
  <2>2. Change(j, s) = [s EXCEPT !.spool = j.kept] BY <1>4 DEF Change, Settled
  <2>3. Change(j, s) \in Sessions /\ Change(j, s).count = s.count /\ Change(j, s).spool = j.kept
    BY <2>1, <2>2 DEF Sessions
  <2> QED BY <1>4, <2>1, <2>3 DEF SpoolOf
<1>5. CASE j.at = "mark"
  <2> DEFINE n == s.count + 1
  <2>1. Change(j, s) = [s EXCEPT !.count = n, !.error = FALSE] /\ n \in Nat
    BY <1>1, <1>5 DEF Change, Marked
  <2> HIDE DEF n
  <2>2. /\ Change(j, s) \in Sessions
        /\ Change(j, s).count = n
        /\ Change(j, s).spool = s.spool
    BY <2>1 DEF Sessions
  <2> QED BY <1>5, <2>2 DEF SpoolOf, n
<1>6. CASE j.at \in {"error", "plan"}
  <2>1. Change(j, s) \in {[s EXCEPT !.error = TRUE], [s EXCEPT !.planned = TRUE]}
    BY <1>6 DEF Change, Failed, Planned
  <2>2. /\ Change(j, s) \in Sessions
        /\ Change(j, s).count = s.count
        /\ Change(j, s).spool = s.spool
    BY <2>1 DEF Sessions
  <2> QED BY <1>6, <2>2 DEF SpoolOf
<1> QED BY <1>2, <1>3, <1>4, <1>5, <1>6 DEF Rewrites

-------------------------------------------------------------------------------
(* One command takes a step.                                               *)

\* What the step of p leaves to the others: it moves p alone, and only takes
\* names, files and owes more.
Moves(p) ==
  /\ proc' \in [Procs -> Jobs]
  /\ \A q \in Procs \ {p} : proc'[q] = proc[q]
  /\ used \subseteq used' /\ used' \subseteq Captures
  /\ filed \subseteq filed' /\ filed' \subseteq used'
  /\ owed' \subseteq used'
  /\ latest' \in filed' \union {None}

LEMMA ShapesKept ==
  ASSUME CamInv, NEW p \in Procs, Moves(p), Shape(proc'[p], filed', used'),
         session' \notin {Empty, Garbled} => SpoolOf(session') \subseteq used'
  PROVE  ShapesOK'
<1>1. ASSUME NEW q \in Procs PROVE Shape(proc'[q], filed', used')
  <2>1. CASE q = p BY <2>1
  <2>2. CASE q # p
    <3>1. Shape(proc[q], filed, used) BY DEF CamInv, ShapesOK
    <3>2. proc'[q] = proc[q] /\ filed \subseteq filed' /\ used \subseteq used'
      BY <2>2 DEF Moves
    <3> QED BY <3>1, <3>2 DEF Shape
  <2> QED BY <2>1, <2>2
<1> QED BY <1>1 DEF ShapesOK, Readable

\* A step that leaves the file and the counters alone.
LEMMA ReadingStep ==
  ASSUME CamInv, NEW p \in Procs, Moves(p), Shape(proc'[p], filed', used'),
         UNCHANGED <<session, owed, overlapped, torn, commands, crashes>>,
         proc[p] # Idle, proc'[p].opened => proc[p].opened,
         proc[p].opened => proc'[p].opened \/ overlapped,
         \A s \in Sessions :
           /\ Readable => s = session
           /\ ~ overlapped
           /\ Good(s, filed, owed)
           /\ Progress(proc[p], s, filed)
           /\ proc[p].draft # None => proc[p].draft = Change(proc[p], s)
           => /\ Good(s, filed', owed)
              /\ Progress(proc'[p], s, filed')
              /\ proc'[p].draft # None => proc'[p].draft = Change(proc'[p], s)
  PROVE  CamInv'
<1>1. ShapesOK'
  <2>1. session' \notin {Empty, Garbled} => SpoolOf(session') \subseteq used'
    BY DEF CamInv, ShapesOK, Readable, Moves
  <2> QED BY <2>1, ShapesKept
<1>2. CamTypeOK' BY DEF CamInv, CamTypeOK, Moves
<1>3. OneAtATime'
  BY DEF CamInv, OneAtATime, Moves, Readable
<1>4. Story'
  <2>1. SUFFICES ASSUME ~ overlapped, ~ torn
                 PROVE  \E s \in Sessions :
                          /\ Readable => s = session
                          /\ Good(s, filed', owed)
                          /\ \A q \in Procs :
                               /\ Progress(proc'[q], s, filed')
                               /\ proc'[q].draft # None => proc'[q].draft = Change(proc'[q], s)
    BY DEF Story, Readable
  <2>2. PICK s \in Sessions :
          /\ Readable => s = session
          /\ Good(s, filed, owed)
          /\ \A q \in Procs : /\ Progress(proc[q], s, filed)
                              /\ proc[q].draft # None => proc[q].draft = Change(proc[q], s)
    BY <2>1 DEF CamInv, Story
  <2>3. ASSUME NEW q \in Procs \ {p}
        PROVE  Progress(proc'[q], s, filed') /\ proc'[q].draft = None
    <3>1. proc'[q] = Idle BY <2>1 DEF CamInv, OneAtATime, Moves
    <3> QED BY <3>1 DEF Idle, Progress
  <2>4. /\ Good(s, filed', owed)
        /\ Progress(proc'[p], s, filed')
        /\ proc'[p].draft # None => proc'[p].draft = Change(proc'[p], s)
    BY <2>1, <2>2
  <2> QED BY <2>2, <2>3, <2>4
<1> QED BY <1>1, <1>2, <1>3, <1>4 DEF CamInv

LEMMA IdleIsJob ==
  /\ Idle \in Jobs
  /\ Idle.cmd = "idle"
  /\ Idle.at = "none"
  /\ Idle.opened = FALSE
  /\ Idle.draft = None
  /\ \A f, u : Shape(Idle, f, u)
  /\ \A f, t : Progress(Idle, t, f)
<1>1. /\ Idle.cmd = "idle"
      /\ Idle.at = "none"
      /\ Idle.opened = FALSE
      /\ Idle.draft = None
      /\ Idle.cap = None
      /\ Idle.todo = {} /\ Idle.kept = {}
  BY DEF Idle
<1>2. Idle \in Jobs BY DEF Idle, Jobs, Steps
<1> QED BY <1>1, <1>2 DEF Shape, Progress

LEMMA ChangeSame ==
  ASSUME NEW j, NEW x, x.at = j.at, x.cap = j.cap, x.kept = j.kept, NEW t
  PROVE  Change(x, t) = Change(j, t)
BY DEF Change

LEMMA ProgressSame ==
  ASSUME NEW j, NEW x, x.cmd = j.cmd, x.at = j.at, x.cap = j.cap, x.todo = j.todo, x.kept = j.kept,
         NEW t, NEW f, Progress(j, t, f)
  PROVE  Progress(x, t, f)
BY DEF Progress, Uncounted

\* The command of p becomes x.
LEMMA MovesOne ==
  ASSUME CamInv, NEW p \in Procs, NEW x \in Jobs, proc' = [proc EXCEPT ![p] = x],
         used \subseteq used', used' \subseteq Captures,
         filed \subseteq filed', filed' \subseteq used', owed' \subseteq used',
         latest' \in filed' \union {None}
  PROVE  Moves(p) /\ proc'[p] = x
BY DEF CamInv, CamTypeOK, Moves

\* A step of the command of p that ends it, or changes only what it holds.
LEMMA JobStep ==
  ASSUME CamInv, NEW p \in Procs, NEW x \in Jobs, proc' = [proc EXCEPT ![p] = x],
         UNCHANGED <<session, filed, owed, overlapped, torn, commands, crashes>>,
         used \subseteq used', used' \subseteq Captures, latest' \in filed \union {None},
         proc[p] # Idle, ~ proc[p].opened, ~ x.opened,
         Shape(x, filed, used'),
         \A s \in Sessions :
           /\ Readable => s = session
           /\ Good(s, filed, owed)
           /\ Progress(proc[p], s, filed)
           => /\ Progress(x, s, filed)
              /\ x.draft # None => x.draft = Change(x, s)
  PROVE  CamInv'
<1>1. filed' \subseteq used' /\ owed' \subseteq used' /\ filed \subseteq filed'
  BY DEF CamInv, CamTypeOK
<1>2. Moves(p) /\ proc'[p] = x BY <1>1, MovesOne
<1> QED BY <1>2, ReadingStep

LEMMA EndStep ==
  ASSUME CamInv, NEW p \in Procs, End(p), proc[p] # Idle, ~ proc[p].opened,
         UNCHANGED <<session, filed, latest, used, owed, overlapped, torn, commands, crashes>>
  PROVE  CamInv'
<1>1. /\ used \subseteq used'
      /\ used' \subseteq Captures
      /\ latest' \in filed \union {None}
  BY DEF CamInv, CamTypeOK
<1>2. proc' = [proc EXCEPT ![p] = Idle] BY DEF End
<1> QED BY <1>1, <1>2, IdleIsJob, JobStep

\* What is known of a command at work.
LEMMA JobKnown ==
  ASSUME CamInv, NEW p \in Procs
  PROVE  /\ proc[p] \in Jobs
         /\ Shape(proc[p], filed, used)
         /\ proc[p].at # "none" => proc[p] # Idle
         /\ proc[p].at \notin Rewrites \/ proc[p].draft = None => ~ proc[p].opened
         /\ used \subseteq Captures /\ filed \subseteq used /\ latest \in filed \union {None}
<1>1. proc[p] \in Jobs /\ Shape(proc[p], filed, used)
  BY DEF CamInv, CamTypeOK, ShapesOK
<1> QED BY <1>1, IdleIsJob DEF CamInv, CamTypeOK, Shape

LEMMA ReadStep ==
  ASSUME CamInv, NEW p \in Procs, ReadSession(p)
  PROVE  CamInv'
<1> DEFINE j == proc[p]
           c == Change(j, session)
           x == [j EXCEPT !.draft = c]
<1>1. /\ j \in Jobs
      /\ Shape(j, filed, used)
      /\ j # Idle
      /\ ~ j.opened
      /\ j.at \in Rewrites
      /\ j.draft = None
  <2>1. j.at # "none" BY DEF ReadSession, Rewrites
  <2> QED BY <2>1, JobKnown DEF ReadSession
<1>2. CASE End(p) BY <1>1, <1>2, EndStep DEF ReadSession
<1>3. CASE Readable /\ proc' = [proc EXCEPT ![p] = x]
  <2>1. session \in Sessions BY <1>3 DEF CamInv, CamTypeOK, Readable
  <2>2. j.at \in {"append", "mark", "remove"} => j.cap \in Captures BY <1>1 DEF Shape
  <2>3. c \in Sessions /\ SpoolOf(c) \subseteq used
    <3>1. SpoolOf(session) \subseteq used BY <1>3 DEF CamInv, ShapesOK
    <3>2. /\ j.kept \subseteq used
          /\ j.at = "append" => j.cap \in used
      BY <1>1, BakeAssumption DEF Shape
    <3> QED BY <1>1, <2>1, <2>2, <3>1, <3>2, ChangeOfSession
  <2> HIDE DEF c, j
  <2>4. /\ x \in Jobs
        /\ x.cmd = j.cmd /\ x.at = j.at /\ x.cap = j.cap /\ x.todo = j.todo /\ x.kept = j.kept
        /\ x.draft = c
        /\ x.opened = j.opened
    BY <1>1, <2>3 DEF Jobs
  <2> HIDE DEF x
  <2>5. Shape(x, filed, used)
    <3>1. x.cmd # "idle"  BY <1>1, <2>4 DEF Shape
    <3> QED BY <1>1, <2>3, <2>4, <3>1 DEF Shape
  <2>6. ASSUME NEW s \in Sessions, s = session, Progress(j, s, filed)
        PROVE  Progress(x, s, filed) /\ x.draft = Change(x, s)
    BY <2>4, <2>6, ChangeSame, ProgressSame DEF c
  <2>7. UNCHANGED <<session, filed, latest, used, owed, overlapped, torn, commands, crashes>>
    BY DEF ReadSession
  <2>8. /\ used \subseteq used'
        /\ used' \subseteq Captures
        /\ latest' \in filed \union {None}
    BY <2>7, JobKnown
  <2> QED BY <1>1, <1>3, <2>4, <2>5, <2>6, <2>7, <2>8, JobStep DEF j
<1> QED BY <1>2, <1>3 DEF ReadSession

LEMMA ShootStep ==
  ASSUME CamInv, NEW p \in Procs, Shoot(p)
  PROVE  CamInv'
<1> DEFINE j == proc[p]
<1>1. /\ j \in Jobs
      /\ Shape(j, filed, used)
      /\ j # Idle
      /\ ~ j.opened
      /\ j.cmd = "capture" /\ j.at = "load"
      /\ j.draft = None
  BY JobKnown DEF Shoot, Rewrites, Shape
<1>2. UNCHANGED <<session, filed, latest, owed, overlapped, torn, commands, crashes>>
  BY DEF Shoot
<1>3. CASE End(p) /\ UNCHANGED used BY <1>1, <1>2, <1>3, EndStep
<1>4. ASSUME NEW c \in Captures \ used, NEW taken \in BOOLEAN,
             proc' = [proc EXCEPT ![p].cap = c, ![p].at = IF taken THEN "append" ELSE "error"],
             used' = used \union {c}
      PROVE  CamInv'
  <2> DEFINE step == IF taken THEN "append" ELSE "error"
             x == [j EXCEPT !.cap = c, !.at = step]
  <2>1. step \in {"append", "error"} OBVIOUS
  <2>2. proc' = [proc EXCEPT ![p] = x] BY <1>4 DEF CamInv, CamTypeOK
  <2> HIDE DEF j, step
  <2>3. /\ x \in Jobs
        /\ x.cmd = "capture" /\ x.at = step /\ x.cap = c /\ x.todo = j.todo /\ x.kept = j.kept
        /\ x.draft = None
        /\ x.opened = j.opened
    BY <1>1, <2>1 DEF Jobs, Steps, Rewrites
  <2> HIDE DEF x
  <2>4. Shape(x, filed, used') BY <1>1, <1>4, <2>1, <2>3 DEF Shape
  <2>5. \A s : Progress(x, s, filed) BY <2>1, <2>3 DEF Progress
  <2>6. /\ used \subseteq used'
        /\ used' \subseteq Captures
        /\ latest' \in filed \union {None}
    BY <1>2, <1>4, JobKnown
  <2> QED BY <1>1, <1>2, <2>2, <2>3, <2>4, <2>5, <2>6, JobStep DEF j
<1> QED BY <1>3, <1>4 DEF Shoot

LEMMA ListStep ==
  ASSUME CamInv, NEW p \in Procs, ListSpool(p)
  PROVE  CamInv'
<1> DEFINE j == proc[p]
<1>1. /\ j \in Jobs
      /\ Shape(j, filed, used)
      /\ j # Idle
      /\ ~ j.opened
      /\ j.cmd = "sync" /\ j.at = "load" /\ j.kept = {}
      /\ j.draft = None
  BY JobKnown DEF ListSpool, Rewrites, Shape
<1>2. UNCHANGED <<session, filed, latest, used, owed, overlapped, torn, commands, crashes>>
  BY DEF ListSpool
<1>3. CASE End(p) BY <1>1, <1>2, <1>3, EndStep
<1>4. CASE /\ Readable /\ session.spool # None
           /\ proc' = [proc EXCEPT ![p].at = "pick", ![p].todo = session.spool]
  <2> DEFINE x == [j EXCEPT !.at = "pick", !.todo = session.spool]
  <2>1. /\ SpoolOf(session) = session.spool
        /\ session.spool \subseteq used
        /\ session.spool \subseteq Captures
    BY <1>4, JobKnown DEF SpoolOf, CamInv, ShapesOK
  <2>2. proc' = [proc EXCEPT ![p] = x] BY <1>4 DEF CamInv, CamTypeOK
  <2> HIDE DEF j
  <2>3. /\ x \in Jobs
        /\ x.cmd = "sync" /\ x.at = "pick" /\ x.cap = j.cap
        /\ x.todo = session.spool /\ x.kept = {}
        /\ x.draft = None
        /\ x.opened = j.opened
    BY <1>1, <2>1 DEF Jobs, Steps
  <2> HIDE DEF x
  <2>4. Shape(x, filed, used) BY <1>1, <2>1, <2>3 DEF Shape
  <2>5. ASSUME Good(session, filed, owed) PROVE Progress(x, session, filed)
    <3>1. Uncounted(x) = SpoolOf(session) BY <2>1, <2>3 DEF Uncounted
    <3> QED BY <2>3, <2>5, <3>1 DEF Progress, Good
  <2>6. /\ used \subseteq used'
        /\ used' \subseteq Captures
        /\ latest' \in filed \union {None}
    BY <1>2, JobKnown
  <2> QED BY <1>1, <1>2, <1>4, <2>2, <2>3, <2>4, <2>5, <2>6, JobStep DEF j
<1> QED BY <1>3, <1>4 DEF ListSpool

LEMMA PickStep ==
  ASSUME CamInv, NEW p \in Procs, Pick(p)
  PROVE  CamInv'
<1> DEFINE j == proc[p]
<1>1. /\ j \in Jobs
      /\ Shape(j, filed, used)
      /\ j # Idle
      /\ ~ j.opened
      /\ j.cmd = "sync" /\ j.at = "pick"
      /\ j.draft = None
  BY JobKnown, IdleIsJob DEF Pick, Rewrites, Shape, Jobs, Commands
<1>2. /\ UNCHANGED <<session, filed, latest, used, owed, overlapped, torn, commands, crashes>>
      /\ used \subseteq used'
      /\ used' \subseteq Captures
      /\ latest' \in filed \union {None}
  BY JobKnown DEF Pick
<1>3. CASE j.todo = {} /\ Goto(p, "settle")
  <2> DEFINE x == [j EXCEPT !.at = "settle"]
  <2>1. proc' = [proc EXCEPT ![p] = x] BY <1>3 DEF Goto, CamInv, CamTypeOK
  <2> HIDE DEF j
  <2>2. /\ x \in Jobs
        /\ x.cmd = "sync" /\ x.at = "settle" /\ x.cap = j.cap
        /\ x.todo = {} /\ x.kept = j.kept
        /\ x.draft = None
        /\ x.opened = j.opened
    BY <1>1, <1>3 DEF Jobs, Steps, Rewrites
  <2> HIDE DEF x
  <2>3. Shape(x, filed, used) BY <1>1, <2>2 DEF Shape
  <2>4. Uncounted(x) = Uncounted(j) BY <1>1, <1>3, <2>2 DEF Uncounted
  <2>5. ASSUME NEW s, Progress(j, s, filed) PROVE Progress(x, s, filed)
    BY <1>1, <2>2, <2>4, <2>5 DEF Progress
  <2> QED BY <1>1, <1>2, <2>1, <2>2, <2>3, <2>5, JobStep DEF j
<1>4. ASSUME NEW c \in j.todo,
             proc' = [proc EXCEPT ![p].cap = c, ![p].todo = @ \ {c}, ![p].at = "copy"]
      PROVE  CamInv'
  <2> DEFINE x == [j EXCEPT !.cap = c, !.todo = @ \ {c}, !.at = "copy"]
  <2>1. proc' = [proc EXCEPT ![p] = x] BY <1>4 DEF CamInv, CamTypeOK
  <2>2. c \in Captures /\ c \in used BY <1>1, <1>4 DEF Jobs, Shape
  <2>3. c \in j.todo BY <1>4
  <2> HIDE DEF j
  <2>4. /\ x \in Jobs
        /\ x.cmd = "sync" /\ x.at = "copy" /\ x.cap = c
        /\ x.todo = j.todo \ {c} /\ x.kept = j.kept
        /\ x.draft = None
        /\ x.opened = j.opened
    BY <1>1, <2>2 DEF Jobs, Steps
  <2> HIDE DEF x
  <2>5. Shape(x, filed, used) BY <1>1, <2>2, <2>4 DEF Shape
  <2>6. Uncounted(x) = Uncounted(j) BY <1>1, <2>3, <2>4 DEF Uncounted
  <2>7. ASSUME NEW s, Progress(j, s, filed) PROVE Progress(x, s, filed)
    BY <1>1, <2>4, <2>6, <2>7 DEF Progress
  <2> QED BY <1>1, <1>2, <2>1, <2>4, <2>5, <2>7, JobStep DEF j
<1> QED BY <1>3, <1>4 DEF Pick

\* A copy, done or given up, and the pointers in latest/.
LEMMA CopyOkStep ==
  ASSUME CamInv, NEW p \in Procs, CopyOk(p)
  PROVE  CamInv'
<1> DEFINE j == proc[p]
           x == [j EXCEPT !.at = "file"]
<1>1. /\ j \in Jobs
      /\ Shape(j, filed, used)
      /\ j # Idle
      /\ ~ j.opened
      /\ j.cmd \in {"capture", "sync"} /\ j.at = "copy"
      /\ j.draft = None
  BY JobKnown, IdleIsJob DEF CopyOk, Rewrites, Shape, Jobs, Commands
<1>2. /\ UNCHANGED <<session, filed, latest, used, owed, overlapped, torn, commands, crashes>>
      /\ used \subseteq used'
      /\ used' \subseteq Captures
      /\ latest' \in filed \union {None}
  BY JobKnown DEF CopyOk
<1>3. proc' = [proc EXCEPT ![p] = x] BY DEF CopyOk, Goto, CamInv, CamTypeOK
<1> HIDE DEF j
<1>4. /\ x \in Jobs
      /\ x.cmd = j.cmd /\ x.at = "file" /\ x.cap = j.cap
      /\ x.todo = j.todo /\ x.kept = j.kept
      /\ x.draft = None
      /\ x.opened = j.opened
  BY <1>1 DEF Jobs, Steps
<1> HIDE DEF x
<1>5. Shape(x, filed, used) BY <1>1, <1>4 DEF Shape
<1>6. Uncounted(x) = Uncounted(j) BY <1>1, <1>4 DEF Uncounted
<1>7. ASSUME NEW s, Progress(j, s, filed) PROVE Progress(x, s, filed)
  BY <1>1, <1>4, <1>6, <1>7 DEF Progress
<1> QED BY <1>1, <1>2, <1>3, <1>4, <1>5, <1>7, JobStep DEF j

LEMMA CopyFailsStep ==
  ASSUME CamInv, NEW p \in Procs, CopyFails(p)
  PROVE  CamInv'
<1> DEFINE j == proc[p]
<1>1. /\ j \in Jobs
      /\ Shape(j, filed, used)
      /\ j # Idle
      /\ ~ j.opened
      /\ j.cmd \in {"capture", "sync"} /\ j.at = "copy"
      /\ j.cap \in Captures /\ j.cap \in used
      /\ j.draft = None
  BY JobKnown, IdleIsJob, BakeAssumption DEF CopyFails, Rewrites, Shape, Jobs, Commands
<1>2. /\ UNCHANGED <<session, filed, latest, used, owed, overlapped, torn, commands, crashes>>
      /\ used \subseteq used'
      /\ used' \subseteq Captures
      /\ latest' \in filed \union {None}
  BY JobKnown DEF CopyFails
<1>3. CASE j.cmd = "capture" /\ Goto(p, "error")
  <2> DEFINE x == [j EXCEPT !.at = "error"]
  <2>1. proc' = [proc EXCEPT ![p] = x] BY <1>3 DEF Goto, CamInv, CamTypeOK
  <2> HIDE DEF j
  <2>2. /\ x \in Jobs
        /\ x.cmd = "capture" /\ x.at = "error" /\ x.cap = j.cap
        /\ x.todo = j.todo /\ x.kept = j.kept
        /\ x.draft = None
        /\ x.opened = j.opened
    BY <1>1, <1>3 DEF Jobs, Steps, Rewrites
  <2> HIDE DEF x
  <2>3. Shape(x, filed, used) BY <1>1, <2>2 DEF Shape
  <2>4. \A s : Progress(x, s, filed) BY <2>2 DEF Progress
  <2> QED BY <1>1, <1>2, <2>1, <2>2, <2>3, <2>4, JobStep DEF j
<1>4. CASE /\ j.cmd = "sync"
           /\ proc' = [proc EXCEPT ![p].at = "pick", ![p].kept = @ \union {proc[p].cap}]
  <2> DEFINE x == [j EXCEPT !.at = "pick", !.kept = @ \union {j.cap}]
  <2>1. proc' = [proc EXCEPT ![p] = x] BY <1>4 DEF CamInv, CamTypeOK
  <2> HIDE DEF j
  <2>2. /\ x \in Jobs
        /\ x.cmd = "sync" /\ x.at = "pick" /\ x.cap = j.cap
        /\ x.todo = j.todo /\ x.kept = j.kept \union {j.cap}
        /\ x.draft = None
        /\ x.opened = j.opened
    BY <1>1, <1>4 DEF Jobs, Steps
  <2> HIDE DEF x
  <2>3. Shape(x, filed, used) BY <1>1, <2>2 DEF Shape
  <2>4. Uncounted(x) = Uncounted(j) BY <1>1, <2>2 DEF Uncounted
  <2>5. ASSUME NEW s, Progress(j, s, filed) PROVE Progress(x, s, filed)
    BY <1>1, <1>4, <2>2, <2>4, <2>5 DEF Progress
  <2> QED BY <1>1, <1>2, <2>1, <2>2, <2>3, <2>5, JobStep DEF j
<1> QED BY <1>1, <1>3, <1>4 DEF CopyFails

LEMMA LatestStep ==
  ASSUME CamInv, NEW p \in Procs, PointLatest(p)
  PROVE  CamInv'
<1> DEFINE j == proc[p]
           x == [j EXCEPT !.at = "mark"]
<1>1. /\ j \in Jobs
      /\ Shape(j, filed, used)
      /\ j # Idle
      /\ ~ j.opened
      /\ j.cmd \in {"capture", "sync"} /\ j.at = "latest"
      /\ j.cap \in filed
      /\ j.draft = None
  BY JobKnown, IdleIsJob DEF PointLatest, Rewrites, Shape, Jobs, Commands
<1>2. /\ UNCHANGED <<session, filed, used, owed, overlapped, torn, commands, crashes>>
      /\ used \subseteq used'
      /\ used' \subseteq Captures
      /\ latest' \in filed \union {None}
  BY <1>1, JobKnown DEF PointLatest
<1>3. proc' = [proc EXCEPT ![p] = x] BY DEF PointLatest, Goto, CamInv, CamTypeOK
<1> HIDE DEF j
<1>4. /\ x \in Jobs
      /\ x.cmd = j.cmd /\ x.at = "mark" /\ x.cap = j.cap
      /\ x.todo = j.todo /\ x.kept = j.kept
      /\ x.draft = None
      /\ x.opened = j.opened
  BY <1>1 DEF Jobs, Steps, Rewrites
<1> HIDE DEF x
<1>5. Shape(x, filed, used) BY <1>1, <1>4 DEF Shape
<1>6. Uncounted(x) = Uncounted(j) BY <1>1, <1>4 DEF Uncounted
<1>7. ASSUME NEW s, Progress(j, s, filed) PROVE Progress(x, s, filed)
  BY <1>1, <1>4, <1>6, <1>7 DEF Progress
<1> QED BY <1>1, <1>2, <1>3, <1>4, <1>5, <1>7, JobStep DEF j

LEMMA FileStep ==
  ASSUME CamInv, NEW p \in Procs, File(p)
  PROVE  CamInv'
<1> DEFINE j == proc[p]
           x == [j EXCEPT !.at = "latest"]
<1>1. /\ j \in Jobs
      /\ Shape(j, filed, used)
      /\ j # Idle
      /\ ~ j.opened
      /\ j.cmd \in {"capture", "sync"} /\ j.at = "file"
      /\ j.cap \in Captures /\ j.cap \in used
      /\ j.draft = None
  BY JobKnown, IdleIsJob, BakeAssumption DEF File, Rewrites, Shape, Jobs, Commands
<1>2. /\ UNCHANGED <<session, latest, used, owed, overlapped, torn, commands, crashes>>
      /\ filed' = filed \union {j.cap}
  BY DEF File
<1>3. proc' = [proc EXCEPT ![p] = x] BY DEF File, Goto, CamInv, CamTypeOK
<1> HIDE DEF j
<1>4. /\ x \in Jobs
      /\ x.cmd = j.cmd /\ x.at = "latest" /\ x.cap = j.cap
      /\ x.todo = j.todo /\ x.kept = j.kept
      /\ x.draft = None
      /\ x.opened = j.opened
  BY <1>1 DEF Jobs, Steps
<1> HIDE DEF x
<1>5. Shape(x, filed', used') BY <1>1, <1>2, <1>4 DEF Shape
<1>6. Moves(p) /\ proc'[p] = x
  <2>1. /\ used \subseteq used' /\ used' \subseteq Captures
        /\ filed \subseteq filed' /\ filed' \subseteq used' /\ owed' \subseteq used'
        /\ latest' \in filed' \union {None}
    BY <1>1, <1>2, JobKnown DEF CamInv, CamTypeOK
  <2> QED BY <1>3, <1>4, <2>1, MovesOne
<1>7. Uncounted(x) = Uncounted(j) /\ j.cap \in Uncounted(j)
  BY <1>1, <1>4 DEF Uncounted
<1>8. ASSUME NEW s, Good(s, filed, owed), Progress(j, s, filed)
      PROVE  Good(s, filed', owed) /\ Progress(x, s, filed')
  <2>1. j.cap \in SpoolOf(s)
    BY <1>1, <1>7, <1>8 DEF Progress
  <2>2. filed' \ SpoolOf(s) = filed \ SpoolOf(s) BY <1>2, <2>1
  <2>3. filed' \ Uncounted(x) = filed \ Uncounted(j) BY <1>2, <1>7
  <2>4. Good(s, filed', owed) BY <1>2, <1>8, <2>2 DEF Good
  <2>5. x.cmd = "capture" => x.cap \in SpoolOf(s) BY <1>4, <2>1
  <2>6. x.cmd = "sync" => /\ Uncounted(x) \subseteq SpoolOf(s)
                         /\ SpoolOf(s) \subseteq filed' \union Uncounted(x)
                         /\ Cardinality(filed' \ Uncounted(x)) <= s.count
    BY <1>1, <1>2, <1>4, <1>7, <1>8, <2>3 DEF Progress
  <2> QED BY <1>4, <2>4, <2>5, <2>6 DEF Progress
<1> QED BY <1>1, <1>2, <1>4, <1>5, <1>6, <1>8, ReadingStep DEF j

-------------------------------------------------------------------------------
(* Starts, writes and deaths.                                              *)

LEMMA StartStep ==
  ASSUME CamInv, NEW p \in Procs, NEW cmd \in Commands, Start(p, cmd)
  PROVE  CamInv'
<1> DEFINE step == IF cmd \in {"capture", "sync"} THEN "load" ELSE "plan"
           x == [Idle EXCEPT !.cmd = cmd, !.at = step]
<1>1. /\ proc[p] = Idle
      /\ proc' = [proc EXCEPT ![p] = x]
      /\ overlapped' = (overlapped \/ \E q \in Procs : proc[q] # Idle)
      /\ commands < MaxCommands /\ commands' = commands + 1
      /\ UNCHANGED <<session, filed, latest, used, owed, torn, crashes>>
  BY DEF Start
<1>2. step \in {"load", "plan"} /\ (step = "load" <=> cmd \in {"capture", "sync"})
  OBVIOUS
<1> HIDE DEF step
<1>3. /\ x \in Jobs
      /\ x.cmd = cmd /\ x.at = step /\ x.cap = None /\ x.todo = {} /\ x.kept = {}
      /\ x.draft = None
      /\ x.opened = FALSE
  BY <1>2 DEF Idle, Jobs, Steps, Rewrites
<1> HIDE DEF x
<1>4. Shape(x, filed, used) BY <1>2, <1>3 DEF Shape, Commands
<1>5. Moves(p) /\ proc'[p] = x
  <2>1. /\ used \subseteq used' /\ used' \subseteq Captures
        /\ filed \subseteq filed' /\ filed' \subseteq used' /\ owed' \subseteq used'
        /\ latest' \in filed' \union {None}
    BY <1>1, JobKnown DEF CamInv, CamTypeOK
  <2> QED BY <1>1, <1>3, <2>1, MovesOne
<1>6. ShapesOK'
  <2>1. session' \notin {Empty, Garbled} => SpoolOf(session') \subseteq used'
    BY <1>1 DEF CamInv, ShapesOK, Readable
  <2> QED BY <1>1, <1>4, <1>5, <2>1, ShapesKept
<1>7. CamTypeOK'
  <2>1. commands' \in 0 .. MaxCommands BY <1>1, BakeAssumption DEF CamInv, CamTypeOK
  <2>2. overlapped' \in BOOLEAN BY <1>1
  <2> QED BY <1>1, <1>5, <2>1, <2>2 DEF CamInv, CamTypeOK, Moves
<1>8. ASSUME ~ overlapped'
      PROVE  /\ ~ overlapped
             /\ \A q \in Procs : proc[q] = Idle
             /\ \A q \in Procs \ {p} : proc'[q] = Idle
  BY <1>1, <1>5, <1>8 DEF CamInv, CamTypeOK, Moves
<1>9. OneAtATime'
  <2>1. SUFFICES ASSUME ~ overlapped'
                 PROVE  /\ \A q, r \in Procs : q # r => proc'[q] = Idle \/ proc'[r] = Idle
                        /\ \A q \in Procs : proc'[q].opened => session' = Empty
                        /\ torn' \/ Readable'
    BY DEF OneAtATime
  <2>2. torn \/ Readable BY <1>8, <2>1, IdleIsJob DEF CamInv, OneAtATime
  <2>3. \A q \in Procs : ~ proc'[q].opened BY <1>3, <1>5, <1>8, <2>1, IdleIsJob
  <2> QED BY <1>1, <1>8, <2>1, <2>2, <2>3 DEF Readable
<1>10. Story'
  <2>1. SUFFICES ASSUME ~ overlapped', ~ torn
                 PROVE  \E s \in Sessions :
                          /\ Readable => s = session
                          /\ Good(s, filed, owed)
                          /\ \A q \in Procs :
                               /\ Progress(proc'[q], s, filed)
                               /\ proc'[q].draft # None => proc'[q].draft = Change(proc'[q], s)
    BY <1>1 DEF Story, Readable
  <2>2. PICK s \in Sessions : (Readable => s = session) /\ Good(s, filed, owed)
    BY <1>8, <2>1 DEF CamInv, Story
  <2>3. ASSUME NEW q \in Procs
        PROVE  Progress(proc'[q], s, filed) /\ proc'[q].draft = None
    <3>1. CASE q = p BY <1>2, <1>3, <1>5, <3>1 DEF Progress
    <3>2. CASE q # p BY <1>8, <2>1, <3>2, IdleIsJob
    <3> QED BY <3>1, <3>2
  <2> QED BY <2>2, <2>3
<1> QED BY <1>6, <1>7, <1>9, <1>10 DEF CamInv

LEMMA CrashStep ==
  ASSUME CamInv, NEW p \in Procs, Crash(p)
  PROVE  CamInv'
<1>1. /\ proc[p] # Idle
      /\ proc' = [proc EXCEPT ![p] = Idle]
      /\ torn' = (torn \/ proc[p].opened)
      /\ crashes < MaxCrashes /\ crashes' = crashes + 1
      /\ UNCHANGED <<session, filed, latest, used, owed, overlapped, commands>>
  BY DEF Crash, End
<1>2. Moves(p) /\ proc'[p] = Idle
  <2>1. /\ used \subseteq used' /\ used' \subseteq Captures
        /\ filed \subseteq filed' /\ filed' \subseteq used' /\ owed' \subseteq used'
        /\ latest' \in filed' \union {None}
    BY <1>1, JobKnown DEF CamInv, CamTypeOK
  <2> QED BY <1>1, <2>1, IdleIsJob, MovesOne
<1>3. ShapesOK'
  <2>1. session' \notin {Empty, Garbled} => SpoolOf(session') \subseteq used'
    BY <1>1 DEF CamInv, ShapesOK, Readable
  <2> QED BY <1>2, <2>1, IdleIsJob, ShapesKept
<1>4. CamTypeOK'
  <2>1. crashes' \in 0 .. MaxCrashes BY <1>1, BakeAssumption DEF CamInv, CamTypeOK
  <2>2. torn' \in BOOLEAN BY <1>1, JobKnown DEF Jobs, CamInv, CamTypeOK
  <2> QED BY <1>1, <1>2, <2>1, <2>2 DEF CamInv, CamTypeOK, Moves
<1>5. ASSUME ~ overlapped PROVE \A q \in Procs : proc'[q] = Idle
  BY <1>1, <1>2, <1>5 DEF CamInv, OneAtATime, Moves
<1>6. OneAtATime'
  <2>1. SUFFICES ASSUME ~ overlapped
                 PROVE  /\ \A q, r \in Procs : q # r => proc'[q] = Idle \/ proc'[r] = Idle
                        /\ \A q \in Procs : proc'[q].opened => session = Empty
                        /\ torn' \/ Readable
    BY <1>1 DEF OneAtATime, Readable
  <2>2. torn' \/ Readable
    <3>1. torn \/ Readable \/ \E q \in Procs : proc[q].opened
      BY <2>1 DEF CamInv, OneAtATime
    <3>2. \A q \in Procs : proc[q].opened => q = p
      BY <1>1, <2>1, IdleIsJob DEF CamInv, OneAtATime
    <3> QED BY <1>1, <3>1, <3>2
  <2> QED BY <1>5, <2>1, <2>2, IdleIsJob
<1>7. Story'
  <2>1. SUFFICES ASSUME ~ overlapped, ~ torn
                 PROVE  \E s \in Sessions :
                          /\ Readable => s = session
                          /\ Good(s, filed, owed)
                          /\ \A q \in Procs :
                               /\ Progress(proc'[q], s, filed)
                               /\ proc'[q].draft # None => proc'[q].draft = Change(proc'[q], s)
    BY <1>1 DEF Story, Readable
  <2>2. PICK s \in Sessions : (Readable => s = session) /\ Good(s, filed, owed)
    BY <2>1 DEF CamInv, Story
  <2>3. \A q \in Procs : Progress(proc'[q], s, filed) /\ proc'[q].draft = None
    BY <1>5, <2>1, IdleIsJob
  <2> QED BY <2>2, <2>3
<1> QED BY <1>3, <1>4, <1>6, <1>7 DEF CamInv

LEMMA TruncateStep ==
  ASSUME CamInv, NEW p \in Procs, Truncate(p)
  PROVE  CamInv'
<1> DEFINE j == proc[p]
           x == [j EXCEPT !.opened = TRUE]
<1>1. /\ j \in Jobs
      /\ Shape(j, filed, used)
      /\ j # Idle
      /\ j.draft # None
  BY JobKnown, IdleIsJob DEF Truncate
<1>2. /\ session' = Empty
      /\ UNCHANGED <<filed, latest, used, owed, overlapped, torn, commands, crashes>>
  BY DEF Truncate
<1>3. proc' = [proc EXCEPT ![p] = x] BY DEF Truncate, CamInv, CamTypeOK
<1> HIDE DEF j
<1>4. /\ x \in Jobs
      /\ x.cmd = j.cmd /\ x.at = j.at /\ x.cap = j.cap
      /\ x.todo = j.todo /\ x.kept = j.kept
      /\ x.draft = j.draft
      /\ x.opened
  BY <1>1 DEF Jobs
<1> HIDE DEF x
<1>5. Shape(x, filed, used)
  <2>1. x.cmd # "idle" BY <1>1, <1>4 DEF Shape
  <2> QED BY <1>1, <1>4, <2>1 DEF Shape
<1>6. Moves(p) /\ proc'[p] = x
  <2>1. /\ used \subseteq used' /\ used' \subseteq Captures
        /\ filed \subseteq filed' /\ filed' \subseteq used' /\ owed' \subseteq used'
        /\ latest' \in filed' \union {None}
    BY <1>2, JobKnown DEF CamInv, CamTypeOK
  <2> QED BY <1>3, <1>4, <2>1, MovesOne
<1>7. ShapesOK' BY <1>2, <1>5, <1>6, ShapesKept
<1>8. CamTypeOK' BY <1>2, <1>6 DEF CamInv, CamTypeOK, Moves
<1>9. OneAtATime'
  <2>1. SUFFICES ASSUME ~ overlapped
                 PROVE  \A q, r \in Procs : q # r => proc'[q] = Idle \/ proc'[r] = Idle
    BY <1>2, <1>4, <1>6 DEF OneAtATime
  <2> QED BY <1>1, <1>6, <2>1 DEF CamInv, OneAtATime, Moves, j
<1>10. Story'
  <2>1. SUFFICES ASSUME ~ overlapped, ~ torn
                 PROVE  \E s \in Sessions :
                          /\ Good(s, filed, owed)
                          /\ \A q \in Procs :
                               /\ Progress(proc'[q], s, filed)
                               /\ proc'[q].draft # None => proc'[q].draft = Change(proc'[q], s)
    BY <1>2 DEF Story, Readable
  <2>2. PICK s \in Sessions :
          /\ Good(s, filed, owed)
          /\ \A q \in Procs : /\ Progress(proc[q], s, filed)
                              /\ proc[q].draft # None => proc[q].draft = Change(proc[q], s)
    BY <2>1 DEF CamInv, Story
  <2>3. ASSUME NEW q \in Procs
        PROVE  /\ Progress(proc'[q], s, filed)
               /\ proc'[q].draft # None => proc'[q].draft = Change(proc'[q], s)
    <3>1. CASE q = p
      <4>1. Progress(j, s, filed) /\ j.draft = Change(j, s) BY <1>1, <2>2 DEF j
      <4> QED BY <1>4, <1>6, <3>1, <4>1, ChangeSame, ProgressSame
    <3>2. CASE q # p BY <1>6, <2>2, <3>2 DEF Moves
    <3> QED BY <3>1, <3>2
  <2> QED BY <2>2, <2>3
<1> QED BY <1>7, <1>8, <1>9, <1>10 DEF CamInv

\* The session as the command leaves it, and how far the command then is.
LEMMA ChangedIsGood ==
  ASSUME NEW s \in Sessions, NEW j \in Jobs, NEW x \in Jobs, NEW f \in SUBSET Captures, NEW u,
         NEW o, j.at \in Rewrites, Shape(j, f, u), Good(s, f, o), Progress(j, s, f),
         IF AfterChange(j) = "end" THEN x = Idle
         ELSE /\ x.at = AfterChange(j)
              /\ x.cmd = j.cmd /\ x.cap = j.cap /\ x.todo = j.todo /\ x.kept = j.kept
  PROVE  /\ Good(Change(j, s), f, IF j.at = "append" THEN o \union {j.cap} ELSE o)
         /\ Progress(x, Change(j, s), f)
<1> DEFINE t == Change(j, s)
<1>1. /\ j.at \in {"append", "mark", "remove"} => j.cap \in Captures
      /\ SpoolOf(s) \in SUBSET Captures /\ s.count \in Nat
      /\ j.kept \in SUBSET Captures /\ j.todo \in SUBSET Captures
      /\ o \subseteq f \union SpoolOf(s)
      /\ Cardinality(f \ SpoolOf(s)) <= s.count
  BY SpoolType DEF Shape, Jobs, Good
<1>2. /\ t \in Sessions
      /\ t.count = IF j.at = "mark" THEN s.count + 1 ELSE s.count
      /\ SpoolOf(t) = CASE j.at = "append" -> SpoolOf(s) \union {j.cap}
                         [] j.at = "remove" -> SpoolOf(s) \ {j.cap}
                         [] j.at = "settle" -> j.kept
                         [] OTHER -> SpoolOf(s)
  BY <1>1, ChangeOfSession
<1> HIDE DEF t
<1>3. CASE j.at = "append"
  <2>1. x.at = "copy" /\ x.cap = j.cap /\ x.cmd = "capture"
    <3>1. j.cmd = "capture" BY <1>3, IdleIsJob DEF Shape, Jobs, Commands
    <3> QED BY <1>3, <3>1 DEF AfterChange
  <2>2. SpoolOf(t) = SpoolOf(s) \union {j.cap} /\ t.count = s.count BY <1>2, <1>3
  <2>3. Progress(x, t, f) BY <2>1, <2>2 DEF Progress
  <2>4. f \ SpoolOf(t) \subseteq f \ SpoolOf(s) /\ f \ SpoolOf(s) \in SUBSET Captures BY <2>2
  <2>5. Cardinality(f \ SpoolOf(t)) <= t.count BY <1>1, <2>2, <2>4, CountOfSubset
  <2>6. o \union {j.cap} \subseteq f \union SpoolOf(t) BY <1>1, <2>2
  <2> QED BY <1>3, <2>3, <2>5, <2>6 DEF Good, t
<1>4. CASE j.at = "mark"
  <2>1. /\ j.cmd \in {"capture", "sync"}
        /\ j.cap \in f
        /\ x.cmd = j.cmd /\ x.cap = j.cap /\ x.todo = j.todo /\ x.kept = j.kept
        /\ x.at = IF j.cmd = "capture" THEN "remove" ELSE "pick"
    <3>1. j.cmd \in {"capture", "sync"} /\ j.cap \in f BY <1>4, IdleIsJob DEF Shape, Jobs, Commands
    <3> QED BY <1>4, <3>1 DEF AfterChange
  <2>2. SpoolOf(t) = SpoolOf(s) /\ t.count = s.count + 1 BY <1>2, <1>4
  <2>3. Good(t, f, o)
    <3>1. Cardinality(f \ SpoolOf(s)) \in Nat BY CountOfSubset
    <3>2. Cardinality(f \ SpoolOf(t)) <= t.count BY <1>1, <2>2, <3>1
    <3> QED BY <1>1, <2>2, <3>2 DEF Good
  <2>4. CASE j.cmd = "capture"
    <3>1. j.cap \in SpoolOf(t) BY <1>4, <2>2, <2>4 DEF Progress
    <3>2. Cardinality(f \ SpoolOf(s)) \in Nat BY CountOfSubset
    <3>3. Cardinality(f \ SpoolOf(t)) + 1 <= t.count BY <1>1, <2>2, <3>2
    <3>4. Progress(x, t, f) BY <2>1, <2>4, <3>1, <3>3 DEF Progress
    <3> QED BY <1>4, <2>3, <3>4 DEF t
  <2>5. CASE j.cmd = "sync"
    <3> DEFINE a == j.todo \union j.kept
    <3>1. Uncounted(j) = a \union {j.cap} /\ Uncounted(x) = a
      BY <1>4, <2>1, <2>5 DEF Uncounted
    <3>2. /\ Uncounted(j) \subseteq SpoolOf(s)
          /\ SpoolOf(s) \subseteq f \union Uncounted(j)
          /\ Cardinality(f \ Uncounted(j)) <= s.count
      BY <1>4, <2>5 DEF Progress
    <3> HIDE DEF a
    <3>3. /\ f \ a \subseteq (f \ Uncounted(j)) \union {j.cap}
          /\ f \ Uncounted(j) \in SUBSET Captures
      BY <3>1
    <3>4. /\ Cardinality(f \ a) \in Nat /\ Cardinality(f \ Uncounted(j)) \in Nat
          /\ Cardinality(f \ a) <= Cardinality(f \ Uncounted(j)) + 1
      BY <1>1, <1>4, <3>3, CountOfOneMore
    <3>5. Cardinality(f \ a) <= t.count BY <1>1, <2>2, <3>2, <3>4
    <3>6. a \subseteq SpoolOf(t) /\ SpoolOf(t) \subseteq f \union a BY <2>1, <2>2, <3>1, <3>2
    <3>7. Progress(x, t, f) BY <2>1, <2>5, <3>1, <3>5, <3>6 DEF Progress
    <3> QED BY <1>4, <2>3, <3>7 DEF t
  <2> QED BY <2>1, <2>4, <2>5
<1>5. CASE j.at \notin {"append", "mark"}
  <2>1. x = Idle BY <1>5 DEF AfterChange, Rewrites
  <2>2. Progress(x, t, f) BY <2>1, IdleIsJob
  <2>3. t.count = s.count BY <1>2, <1>5
  <2>4. Good(t, f, o)
    <3>1. CASE j.at = "remove"
      <4>1. j.cmd = "capture" /\ j.cap \in f BY <3>1, IdleIsJob DEF Shape, Jobs, Commands
      <4>2. Cardinality(f \ SpoolOf(s)) + 1 <= s.count BY <3>1, <4>1 DEF Progress
      <4>3. SpoolOf(t) = SpoolOf(s) \ {j.cap} BY <1>2, <3>1
      <4>4. /\ f \ SpoolOf(t) \subseteq (f \ SpoolOf(s)) \union {j.cap}
            /\ f \ SpoolOf(s) \in SUBSET Captures
        BY <4>3
      <4>5. /\ Cardinality(f \ SpoolOf(t)) \in Nat /\ Cardinality(f \ SpoolOf(s)) \in Nat
            /\ Cardinality(f \ SpoolOf(t)) <= Cardinality(f \ SpoolOf(s)) + 1
        BY <1>1, <3>1, <4>4, CountOfOneMore
      <4>6. Cardinality(f \ SpoolOf(t)) <= t.count BY <1>1, <2>3, <4>2, <4>5
      <4>7. o \subseteq f \union SpoolOf(t) BY <1>1, <4>1, <4>3
      <4> QED BY <4>6, <4>7 DEF Good
    <3>2. CASE j.at = "settle"
      <4>1. j.cmd = "sync" /\ j.todo = {} BY <3>2, IdleIsJob DEF Shape, Jobs, Commands
      <4>2. Uncounted(j) = j.kept BY <3>2, <4>1 DEF Uncounted
      <4>3. SpoolOf(s) \subseteq f \union j.kept /\ Cardinality(f \ j.kept) <= s.count
        BY <3>2, <4>1, <4>2 DEF Progress
      <4>4. SpoolOf(t) = j.kept BY <1>2, <3>2
      <4> QED BY <1>1, <2>3, <4>3, <4>4 DEF Good
    <3>3. CASE j.at \notin {"remove", "settle"}
      <4>1. SpoolOf(t) = SpoolOf(s) BY <1>2, <1>5, <3>3
      <4> QED BY <1>1, <2>3, <4>1 DEF Good
    <3> QED BY <3>1, <3>2, <3>3
  <2> QED BY <1>5, <2>2, <2>4 DEF t
<1> QED BY <1>3, <1>4, <1>5

LEMMA FillStep ==
  ASSUME CamInv, NEW p \in Procs, Fill(p)
  PROVE  CamInv'
<1> DEFINE j == proc[p]
           step == AfterChange(j)
           x == IF step = "end" THEN Idle
                ELSE [j EXCEPT !.at = step, !.draft = None, !.opened = FALSE]
<1>1. /\ j \in Jobs
      /\ Shape(j, filed, used)
      /\ j # Idle
      /\ j.opened
      /\ j.draft \in Sessions /\ j.draft # None
      /\ j.at \in Rewrites
      /\ SpoolOf(j.draft) \subseteq used
  <2>1. j \in Jobs /\ Shape(j, filed, used) /\ j.opened BY JobKnown DEF Fill
  <2>2. j.draft # None /\ j.at \in Rewrites /\ SpoolOf(j.draft) \subseteq used BY <2>1 DEF Shape
  <2>3. j.draft \in Sessions BY <2>1, <2>2 DEF Jobs
  <2> QED BY <2>1, <2>2, <2>3, IdleIsJob
<1>2. /\ session' \in {j.draft, Garbled}
      /\ session = Empty => session' = j.draft
      /\ owed' = IF j.at = "append" THEN owed \union {j.cap} ELSE owed
      /\ proc' = [proc EXCEPT ![p] = x]
      /\ UNCHANGED <<filed, latest, used, overlapped, torn, commands, crashes>>
  BY DEF Fill
<1>3. step \in {"copy", "remove", "pick", "end"} BY DEF AfterChange
<1> HIDE DEF j, step
<1>4. /\ x \in Jobs
      /\ x.draft = None /\ ~ x.opened
      /\ IF step = "end" THEN x = Idle
         ELSE /\ x.at = step
              /\ x.cmd = j.cmd /\ x.cap = j.cap /\ x.todo = j.todo /\ x.kept = j.kept
  <2>1. CASE step = "end" BY <2>1, IdleIsJob
  <2>2. CASE step # "end"
    <3>1. x = [j EXCEPT !.at = step, !.draft = None, !.opened = FALSE] BY <2>2
    <3>2. step \in Steps BY <1>3, <2>2 DEF Steps, Rewrites
    <3> QED BY <1>1, <2>2, <3>1, <3>2 DEF Jobs
  <2> QED BY <2>1, <2>2
<1> HIDE DEF x
<1>5. Shape(x, filed, used)
  <2>1. CASE step = "end" BY <1>4, <2>1, IdleIsJob
  <2>2. CASE step = "copy"
    <3>1. j.at = "append" BY <1>1, <2>2 DEF step, AfterChange
    <3> QED BY <1>1, <1>4, <2>2, <3>1, IdleIsJob DEF Shape
  <2>3. CASE step \in {"remove", "pick"}
    <3>1. j.at = "mark" /\ step = IF j.cmd = "capture" THEN "remove" ELSE "pick"
      BY <1>1, <2>3 DEF step, AfterChange
    <3> QED BY <1>1, <1>4, <2>3, <3>1, IdleIsJob DEF Shape
  <2> QED BY <1>3, <2>1, <2>2, <2>3
<1>6. owed' \subseteq used
  <2>1. owed \subseteq used BY DEF CamInv, CamTypeOK
  <2>2. j.at = "append" => j.cap \in used BY <1>1, BakeAssumption DEF Shape
  <2> QED BY <1>2, <2>1, <2>2
<1>7. Moves(p) /\ proc'[p] = x
  <2>1. /\ used \subseteq used' /\ used' \subseteq Captures
        /\ filed \subseteq filed' /\ filed' \subseteq used' /\ owed' \subseteq used'
        /\ latest' \in filed' \union {None}
    BY <1>2, <1>6, JobKnown
  <2> QED BY <1>2, <1>4, <2>1, MovesOne
<1>8. ShapesOK'
  <2>1. session' \notin {Empty, Garbled} => SpoolOf(session') \subseteq used'
    BY <1>1, <1>2
  <2> QED BY <1>2, <1>5, <1>7, <2>1, ShapesKept
<1>9. CamTypeOK'
  <2>1. session' \in Sessions \union {Empty, Garbled} BY <1>1, <1>2
  <2> QED BY <1>2, <1>7, <2>1 DEF CamInv, CamTypeOK, Moves
<1>10. ASSUME ~ overlapped
       PROVE  /\ session' = j.draft /\ session' \in Sessions
              /\ \A q \in Procs \ {p} : proc[q] = Idle /\ proc'[q] = Idle
  <2>1. session = Empty BY <1>1, <1>10 DEF CamInv, OneAtATime, j
  <2>2. \A q \in Procs \ {p} : proc[q] = Idle BY <1>1, <1>10 DEF CamInv, OneAtATime, j
  <2> QED BY <1>1, <1>2, <1>7, <2>1, <2>2 DEF Moves
<1>11. OneAtATime'
  <2>1. SUFFICES ASSUME ~ overlapped
                 PROVE  /\ \A q, r \in Procs : q # r => proc'[q] = Idle \/ proc'[r] = Idle
                        /\ \A q \in Procs : ~ proc'[q].opened
                        /\ session' \notin {Empty, Garbled}
    BY <1>2 DEF OneAtATime, Readable
  <2>2. session' \notin {Empty, Garbled} BY <1>10, <2>1, BakeAssumption
  <2>3. \A q \in Procs : ~ proc'[q].opened BY <1>4, <1>7, <1>10, <2>1, IdleIsJob
  <2> QED BY <1>10, <2>1, <2>2, <2>3
<1>12. Story'
  <2>1. SUFFICES ASSUME ~ overlapped, ~ torn
                 PROVE  /\ Good(session', filed, owed')
                        /\ \A q \in Procs :
                             /\ Progress(proc'[q], session', filed)
                             /\ proc'[q].draft = None
    BY <1>2, <1>10 DEF Story, Readable
  <2>2. PICK s \in Sessions :
          /\ Good(s, filed, owed)
          /\ Progress(j, s, filed)
          /\ j.draft = Change(j, s)
    BY <1>1, <2>1 DEF CamInv, Story, j
  <2>3. filed \in SUBSET Captures BY DEF CamInv, CamTypeOK
  <2>4. /\ Good(Change(j, s), filed, IF j.at = "append" THEN owed \union {j.cap} ELSE owed)
        /\ Progress(x, Change(j, s), filed)
    BY <1>1, <1>4, <2>2, <2>3, ChangedIsGood DEF step
  <2>5. Good(session', filed, owed') /\ Progress(x, session', filed)
    BY <1>2, <1>10, <2>1, <2>2, <2>4
  <2>6. ASSUME NEW q \in Procs
        PROVE  Progress(proc'[q], session', filed) /\ proc'[q].draft = None
    <3>1. CASE q = p BY <1>4, <1>7, <2>5, <3>1
    <3>2. CASE q # p BY <1>10, <2>1, <3>2, IdleIsJob
    <3> QED BY <3>1, <3>2
  <2> QED BY <2>5, <2>6
<1> QED BY <1>8, <1>9, <1>11, <1>12 DEF CamInv

LEMMA CamInvNext ==
  ASSUME CamInv, CamNext
  PROVE  CamInv'
<1>1. PICK p \in Procs :
        \/ \E cmd \in Commands : Start(p, cmd)
        \/ ReadSession(p) \/ Truncate(p) \/ Fill(p)
        \/ Shoot(p) \/ ListSpool(p) \/ Pick(p)
        \/ CopyOk(p) \/ CopyFails(p) \/ File(p) \/ PointLatest(p)
        \/ Crash(p)
  BY DEF CamNext
<1> QED BY <1>1, StartStep, ReadStep, TruncateStep, FillStep, ShootStep, ListStep, PickStep,
          CopyOkStep, CopyFailsStep, FileStep, LatestStep, CrashStep

LEMMA CamInvInit ==
  ASSUME CamInit
  PROVE  CamInv
<1> DEFINE s == [count |-> 0, error |-> FALSE, planned |-> FALSE, spool |-> None]
<1>1. s \in Sessions /\ SpoolOf(s) = {} /\ s.count = 0 BY DEF Sessions, SpoolOf
<1>2. /\ session = s
      /\ filed = {} /\ latest = None /\ used = {} /\ owed = {}
      /\ \A p \in Procs : proc[p] = Idle
      /\ proc \in [Procs -> Jobs]
  BY IdleIsJob DEF CamInit
<1> HIDE DEF s
<1>3. CamTypeOK
  <2>1. commands \in 0..MaxCommands /\ crashes \in 0..MaxCrashes
    BY BakeAssumption DEF CamInit
  <2> QED BY <1>1, <1>2, <2>1 DEF CamInit, CamTypeOK
<1>4. Readable BY <1>1, <1>2, BakeAssumption DEF Readable
<1>5. ShapesOK BY <1>1, <1>2, IdleIsJob DEF ShapesOK
<1>6. OneAtATime BY <1>2, <1>4, IdleIsJob DEF OneAtATime
<1>7. Story
  <2>1. Good(s, filed, owed)
    <3>1. Cardinality(filed \ SpoolOf(s)) = 0 BY <1>1, <1>2, FS_EmptySet
    <3> QED BY <1>1, <1>2, <3>1 DEF Good
  <2>2. \A p \in Procs : Progress(proc[p], s, filed) /\ proc[p].draft = None
    BY <1>2, IdleIsJob
  <2> QED BY <1>1, <1>2, <2>1, <2>2 DEF Story
<1> QED BY <1>3, <1>5, <1>6, <1>7 DEF CamInv

LEMMA CamInvStutters ==
  ASSUME CamInv, UNCHANGED camVars
  PROVE  CamInv'
<1>1. UNCHANGED <<session, filed, latest, proc, used, owed, overlapped, torn, commands, crashes>>
  BY DEF camVars
<1>2. CamTypeOK' BY <1>1 DEF CamInv, CamTypeOK
<1>3. ShapesOK' BY <1>1 DEF CamInv, ShapesOK, Readable
<1>4. OneAtATime' BY <1>1 DEF CamInv, OneAtATime, Readable
<1>5. Story' BY <1>1 DEF CamInv, Story, Readable
<1> QED BY <1>2, <1>3, <1>4, <1>5 DEF CamInv

-------------------------------------------------------------------------------
(* The runner: the still a run has in hand is one of an offset that is due. *)

RunStates ==
  [at : {"asleep", "rows", "shooting", "meta", "marker", "upload", "move"},
   rows : SUBSET Offsets, still : Stills \union {NoStill}, files : SUBSET Stills]

PiInv ==
  /\ PiTypeOK
  /\ \A r \in Runs :
       /\ run[r].rows \subseteq due
       /\ run[r].at \in {"shooting", "meta", "marker", "move"} => run[r].still \in Stills
       /\ run[r].at \in {"shooting", "meta", "marker"} => run[r].still[1] \in due

\* A step of run r, which becomes x.
LEMMA RunMoves ==
  ASSUME PiInv, NEW r \in Runs,
         NEW x \in RunStates,
         run' = [run EXCEPT ![r] = x],
         x.rows \subseteq due,
         x.at \in {"shooting", "meta", "marker", "move"} => x.still \in Stills,
         x.at \in {"shooting", "meta", "marker"} => x.still[1] \in due,
         UNCHANGED <<due, powerCuts>>, collided' \in BOOLEAN, markers' \subseteq due,
         spooled' \union metas' \union whole' \union done' \union sent' \subseteq Stills
  PROVE  PiInv'
<1>1. PiTypeOK' BY DEF PiInv, PiTypeOK, RunStates
<1>2. ASSUME NEW q \in Runs
      PROVE  /\ run'[q].rows \subseteq due
             /\ run'[q].at \in {"shooting", "meta", "marker", "move"} => run'[q].still \in Stills
             /\ run'[q].at \in {"shooting", "meta", "marker"} => run'[q].still[1] \in due
  <2>1. run'[r] = x /\ (q # r => run'[q] = run[q]) BY DEF PiInv, PiTypeOK
  <2> QED BY <2>1 DEF PiInv
<1> QED BY <1>1, <1>2 DEF PiInv

LEMMA RunKnown ==
  ASSUME PiInv, NEW r \in Runs
  PROVE  /\ run[r] \in RunStates
         /\ run[r].rows \subseteq due
         /\ run[r].at \in {"shooting", "meta", "marker", "move"} => run[r].still \in Stills
         /\ run[r].at \in {"shooting", "meta", "marker"} => run[r].still[1] \in due
         /\ due \subseteq Offsets /\ markers \subseteq due /\ collided \in BOOLEAN
         /\ spooled \subseteq Stills /\ metas \subseteq Stills /\ whole \subseteq Stills
         /\ done \subseteq Stills /\ sent \subseteq Stills
BY DEF PiInv, PiTypeOK, RunStates

LEMMA RowStep ==
  ASSUME PiInv, NEW r \in Runs, NextRow(r)
  PROVE  PiInv'
<1> DEFINE j == run[r]
<1>1. /\ j \in RunStates
      /\ j.rows \subseteq due
      /\ j.at = "rows"
      /\ due \subseteq Offsets
      /\ spooled \subseteq Stills
  BY RunKnown DEF NextRow
<1>2. /\ UNCHANGED <<due, powerCuts>> /\ collided' \in BOOLEAN /\ markers' \subseteq due
      /\ metas' \union whole' \union done' \union sent' \subseteq Stills
  BY RunKnown DEF NextRow
<1>3. CASE j.rows = {}
  <2> DEFINE x == [j EXCEPT !.at = "upload", !.files = spooled]
  <2>1. run' = [run EXCEPT ![r] = x] /\ spooled' = spooled
    BY <1>3, RunKnown DEF NextRow, PiInv, PiTypeOK
  <2> HIDE DEF j
  <2>2. x \in RunStates /\ x.rows = j.rows /\ x.at = "upload"
    BY <1>1 DEF RunStates
  <2> HIDE DEF x
  <2> QED BY <1>1, <1>2, <2>1, <2>2, RunMoves
<1>4. CASE \E o \in j.rows : /\ run' = [run EXCEPT ![r].rows = @ \ {o}]
                             /\ spooled' = spooled
  <2>1. PICK o \in j.rows : run' = [run EXCEPT ![r].rows = @ \ {o}] /\ spooled' = spooled
    BY <1>4
  <2> DEFINE x == [j EXCEPT !.rows = j.rows \ {o}]
  <2>2. run' = [run EXCEPT ![r] = x] BY <2>1 DEF PiInv, PiTypeOK
  <2> HIDE DEF j
  <2>3. x \in RunStates /\ x.rows \subseteq due /\ x.at = "rows"
    BY <1>1 DEF RunStates
  <2> HIDE DEF x
  <2> QED BY <1>1, <1>2, <2>1, <2>2, <2>3, RunMoves
<1>5. CASE \E o \in j.rows : \E s \in {o} \X Stamps :
             /\ spooled' = spooled \union {s}
             /\ run' = [run EXCEPT ![r].at = "shooting", ![r].still = s, ![r].rows = @ \ {o}]
  <2>1. PICK o \in j.rows : \E s \in {o} \X Stamps :
             /\ spooled' = spooled \union {s}
             /\ run' = [run EXCEPT ![r].at = "shooting", ![r].still = s, ![r].rows = @ \ {o}]
    BY <1>5
  <2>2. PICK s \in {o} \X Stamps :
             /\ spooled' = spooled \union {s}
             /\ run' = [run EXCEPT ![r].at = "shooting", ![r].still = s, ![r].rows = @ \ {o}]
    BY <2>1
  <2>3. s \in Stills /\ s[1] \in due BY <1>1 DEF Stills
  <2> DEFINE x == [j EXCEPT !.at = "shooting", !.still = s, !.rows = j.rows \ {o}]
  <2>4. run' = [run EXCEPT ![r] = x] BY <2>2 DEF PiInv, PiTypeOK
  <2> HIDE DEF j
  <2>5. /\ x \in RunStates
        /\ x.rows \subseteq due /\ x.still = s
    BY <1>1, <2>3 DEF RunStates
  <2>6. spooled' \union metas' \union whole' \union done' \union sent' \subseteq Stills
    BY <1>1, <1>2, <2>2, <2>3
  <2> HIDE DEF x
  <2> QED BY <1>2, <2>3, <2>4, <2>5, <2>6, RunMoves
<1> QED BY <1>3, <1>4, <1>5 DEF NextRow

\* The other steps of a run.
LEMMA RunInvStep ==
  ASSUME PiInv, NEW r \in Runs, Cron(r) \/ RunStep(r)
  PROVE  PiInv'
<1> DEFINE j == run[r]
<1>1. /\ j \in RunStates
      /\ j.rows \subseteq due
      /\ j.at \in {"shooting", "meta", "marker", "move"} => j.still \in Stills
      /\ j.at \in {"shooting", "meta", "marker"} => j.still[1] \in due
      /\ due \subseteq Offsets /\ markers \subseteq due /\ collided \in BOOLEAN
      /\ spooled \subseteq Stills /\ metas \subseteq Stills /\ whole \subseteq Stills
      /\ done \subseteq Stills /\ sent \subseteq Stills
  BY RunKnown
<1>2. /\ Asleep \in RunStates
      /\ Asleep.at = "asleep" /\ Asleep.rows = {}
  BY DEF Asleep, RunStates
<1>3. CASE Cron(r)
  <2> DEFINE x == [Asleep EXCEPT !.at = "rows", !.rows = due]
  <2>1. run' = [run EXCEPT ![r] = x] BY <1>3 DEF Cron
  <2>2. /\ UNCHANGED <<due, powerCuts, markers, spooled, metas, whole, done, sent>>
        /\ collided' \in BOOLEAN
    BY <1>1, <1>3 DEF Cron
  <2>3. x \in RunStates /\ x.rows = due /\ x.at = "rows"
    BY <1>1, <1>2 DEF RunStates
  <2> HIDE DEF x
  <2> QED BY <1>1, <2>1, <2>2, <2>3, RunMoves
<1>4. CASE NextRow(r) BY <1>4, RowStep
<1>5. CASE ShotOk(r)
  <2> DEFINE x == [j EXCEPT !.at = "meta"]
  <2>1. /\ run' = [run EXCEPT ![r] = x]
        /\ j.at = "shooting" /\ whole' = whole \union {j.still}
        /\ UNCHANGED <<due, markers, spooled, metas, done, sent, collided, powerCuts>>
    BY <1>5 DEF ShotOk, PiInv, PiTypeOK
  <2> HIDE DEF j
  <2>2. x \in RunStates /\ x.rows = j.rows /\ x.at = "meta" /\ x.still = j.still
    BY <1>1 DEF RunStates
  <2> HIDE DEF x
  <2> QED BY <1>1, <2>1, <2>2, RunMoves
<1>6. CASE ShotFails(r)
  <2> DEFINE x == [j EXCEPT !.at = "rows", !.still = NoStill]
  <2>1. /\ run' = [run EXCEPT ![r] = x]
        /\ spooled' = spooled \ {j.still}
        /\ UNCHANGED <<due, markers, metas, whole, done, sent, collided, powerCuts>>
    BY <1>6 DEF ShotFails, PiInv, PiTypeOK
  <2> HIDE DEF j
  <2>2. x \in RunStates /\ x.rows = j.rows /\ x.at = "rows"
    BY <1>1 DEF RunStates
  <2> HIDE DEF x
  <2> QED BY <1>1, <2>1, <2>2, RunMoves
<1>7. CASE WriteMeta(r)
  <2> DEFINE x == [j EXCEPT !.at = "marker"]
  <2>1. /\ run' = [run EXCEPT ![r] = x]
        /\ j.at = "meta" /\ metas' = metas \union {j.still}
        /\ UNCHANGED <<due, markers, spooled, whole, done, sent, collided, powerCuts>>
    BY <1>7 DEF WriteMeta, PiInv, PiTypeOK
  <2> HIDE DEF j
  <2>2. x \in RunStates /\ x.rows = j.rows /\ x.at = "marker" /\ x.still = j.still
    BY <1>1 DEF RunStates
  <2> HIDE DEF x
  <2> QED BY <1>1, <2>1, <2>2, RunMoves
<1>8. CASE TouchMarker(r)
  <2> DEFINE x == [j EXCEPT !.at = "rows", !.still = NoStill]
  <2>1. /\ run' = [run EXCEPT ![r] = x]
        /\ j.at = "marker" /\ markers' = markers \union {j.still[1]}
        /\ UNCHANGED <<due, spooled, metas, whole, done, sent, collided, powerCuts>>
    BY <1>8 DEF TouchMarker, PiInv, PiTypeOK
  <2> HIDE DEF j
  <2>2. x \in RunStates /\ x.rows = j.rows /\ x.at = "rows"
    BY <1>1 DEF RunStates
  <2> HIDE DEF x
  <2> QED BY <1>1, <2>1, <2>2, RunMoves
<1>9. CASE UploadOk(r)
  <2>1. PICK s \in j.files \intersect spooled :
          /\ sent' = IF s \in whole THEN sent \union {s} ELSE sent
          /\ run' = [run EXCEPT ![r].at = "move", ![r].still = s]
    BY <1>9 DEF UploadOk
  <2> DEFINE x == [j EXCEPT !.at = "move", !.still = s]
  <2>2. run' = [run EXCEPT ![r] = x] BY <2>1 DEF PiInv, PiTypeOK
  <2>3. /\ UNCHANGED <<due, markers, spooled, metas, whole, done, collided, powerCuts>>
        /\ sent' \subseteq Stills
    BY <1>1, <1>9, <2>1 DEF UploadOk
  <2> HIDE DEF j
  <2>4. x \in RunStates /\ x.rows = j.rows /\ x.at = "move" /\ x.still \in Stills
    BY <1>1, <2>1 DEF RunStates
  <2> HIDE DEF x
  <2> QED BY <1>1, <2>2, <2>3, <2>4, RunMoves
<1>10. CASE UploadFails(r)
  <2>1. PICK s \in j.files :
          /\ run' = [run EXCEPT ![r].files = @ \ {s}]
          /\ sent' \in {sent, sent \union ({s} \intersect spooled \intersect whole)}
    BY <1>10 DEF UploadFails
  <2> DEFINE x == [j EXCEPT !.files = j.files \ {s}]
  <2>2. run' = [run EXCEPT ![r] = x] BY <2>1 DEF PiInv, PiTypeOK
  <2>3. /\ UNCHANGED <<due, markers, spooled, metas, whole, done, collided, powerCuts>>
        /\ sent' \subseteq Stills
    BY <1>1, <1>10, <2>1 DEF UploadFails
  <2> HIDE DEF j
  <2>4. x \in RunStates /\ x.rows = j.rows /\ x.at = j.at /\ x.still = j.still
    BY <1>1 DEF RunStates
  <2> HIDE DEF x
  <2> QED BY <1>1, <2>2, <2>3, <2>4, RunMoves
<1>11. CASE Move(r)
  <2> DEFINE x == [j EXCEPT !.at = "upload", !.still = NoStill, !.files = j.files \ {j.still}]
  <2>1. run' = [run EXCEPT ![r] = x] BY <1>11 DEF Move, PiInv, PiTypeOK
  <2>2. /\ spooled' \subseteq Stills /\ done' \subseteq Stills /\ metas' \subseteq Stills
        /\ UNCHANGED <<due, markers, whole, sent, collided, powerCuts>>
    BY <1>1, <1>11 DEF Move
  <2> HIDE DEF j
  <2>3. x \in RunStates /\ x.rows = j.rows /\ x.at = "upload"
    BY <1>1 DEF RunStates
  <2> HIDE DEF x
  <2> QED BY <1>1, <2>1, <2>2, <2>3, RunMoves
<1>12. CASE RunEnds(r)
  <2>1. /\ run' = [run EXCEPT ![r] = Asleep]
        /\ UNCHANGED <<due, markers, spooled, metas, whole, done, sent, collided, powerCuts>>
    BY <1>12 DEF RunEnds
  <2> QED BY <1>1, <1>2, <2>1, RunMoves
<1> QED BY <1>3, <1>4, <1>5, <1>6, <1>7, <1>8, <1>9, <1>10, <1>11, <1>12 DEF RunStep

LEMMA PiInvNext ==
  ASSUME PiInv, PiNext
  PROVE  PiInv'
<1>1. CASE \E o \in Offsets : ComesDue(o)
  <2>1. /\ due \subseteq due' /\ due' \subseteq Offsets
        /\ UNCHANGED <<markers, spooled, metas, whole, done, sent, run, collided, powerCuts>>
    BY <1>1 DEF ComesDue, PiInv, PiTypeOK
  <2>2. PiTypeOK' BY <2>1 DEF PiInv, PiTypeOK
  <2> QED BY <2>1, <2>2 DEF PiInv
<1>2. CASE \E r \in Runs : Cron(r) \/ RunStep(r) BY <1>2, RunInvStep
<1>3. CASE PowerCut
  <2>1. /\ run' = [r \in Runs |-> Asleep]
        /\ powerCuts' \in 0..MaxPowerCuts
        /\ UNCHANGED <<due, markers, spooled, metas, whole, done, sent, collided>>
    BY <1>3, PiAssumption DEF PowerCut, PiInv, PiTypeOK
  <2>2. PiTypeOK' BY <2>1 DEF PiInv, PiTypeOK, Asleep
  <2> QED BY <2>1, <2>2 DEF PiInv, Asleep
<1> QED BY <1>1, <1>2, <1>3 DEF PiNext

-------------------------------------------------------------------------------
(* The session, whichever way it is photographed.                          *)

StationInv == CamInv /\ PiInv

LEMMA StationKeepsInv == StationSpec => []StationInv
<1>1. StationInit => StationInv
  <2> SUFFICES ASSUME StationInit PROVE StationInv OBVIOUS
  <2>1. PiInv
    <3>1. PiTypeOK
      <4>1. powerCuts \in 0..MaxPowerCuts BY PiAssumption DEF StationInit, PiInit
      <4> QED BY <4>1 DEF StationInit, PiInit, PiTypeOK, Asleep
    <3> QED BY <3>1 DEF StationInit, PiInit, PiInv, Asleep
  <2> QED BY <2>1, CamInvInit DEF StationInit, StationInv
<1>2. StationInv /\ [StationNext]_stationVars => StationInv'
  <2> SUFFICES ASSUME StationInv, [StationNext]_stationVars PROVE StationInv'
    OBVIOUS
  <2>1. ASSUME UNCHANGED piVars PROVE PiInv'
    <3>1. UNCHANGED <<due, markers, spooled, metas, whole, done, sent, run, collided, powerCuts>>
      BY <2>1 DEF piVars
    <3> QED BY <3>1 DEF StationInv, PiInv, PiTypeOK
  <2>2. CASE Mac BY <2>1, <2>2, CamInvNext DEF Mac, StationInv
  <2>3. CASE Pi(PiNext) BY <2>3, CamInvStutters, PiInvNext DEF Pi, StationInv
  <2>4. CASE UNCHANGED stationVars BY <2>1, <2>4, CamInvStutters DEF stationVars, StationInv
  <2> QED BY <2>2, <2>3, <2>4 DEF StationNext
<1> QED BY <1>1, <1>2, PTL DEF StationSpec

\* The session file, the captures, the commands, the spool directory and the
\* runs always have their types, for any number of commands and runs.
THEOREM StationTypeCorrect == StationSpec => []StationTypeOK
<1>1. StationInv => StationTypeOK BY DEF StationInv, CamInv, PiInv, StationTypeOK
<1> QED BY <1>1, StationKeepsInv, PTL

\* A still that was spooled is filed or still in the spool, whatever fails and
\* wherever a command is killed, unless commands overlapped or one was killed
\* while session.json was empty.
THEOREM SpoolSurvives == StationSpec => []SpoolIsKept
<1>1. StationInv => SpoolIsKept
  BY DEF StationInv, CamInv, Story, Good, SpoolIsKept
<1> QED BY <1>1, StationKeepsInv, PTL

\* The count of the session is never below the number of stills that are filed
\* and have left the spool.
THEOREM CountSuffices == StationSpec => []CountNeverLow
<1>1. StationInv => CountNeverLow
  BY DEF StationInv, CamInv, Story, Good, CountNeverLow
<1> QED BY <1>1, StationKeepsInv, PTL

===============================================================================
