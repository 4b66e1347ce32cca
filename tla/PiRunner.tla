------------------------------- MODULE PiRunner --------------------------------
(***************************************************************************)
(* The camera runner on the Raspberry Pi (pi_bake_cam_day7_runner.sh),     *)
(* which cron starts every minute: it takes the stills that are due, each  *)
(* with a marker, and uploads what is in its spool directory.              *)
(*                                                                         *)
(* Nothing stops cron from starting a run while the last one is still busy *)
(* with a slow camera or a slow network, and the two share the spool.      *)
(*                                                                         *)
(* A still is named after its offset and the second it was taken: a run    *)
(* never takes over a name.  ffmpeg writes the image in place, so the file *)
(* is there, incomplete, before the still is.                              *)
(***************************************************************************)
EXTENDS Naturals, FiniteSets

CONSTANTS
  Runs,         \* runs of the script that can be active at once
  Offsets,      \* rows of schedule.tsv
  Stamps,       \* times at which stills of an offset are taken
  MaxPowerCuts, \* bound: losses of power
  NoStill       \* no still in hand

Stills == Offsets \X Stamps

ASSUME PiAssumption ==
  IsFiniteSet(Runs) /\ IsFiniteSet(Offsets) /\ MaxPowerCuts \in Nat /\ NoStill \notin Stills

VARIABLES
  due,          \* offsets whose time has come
  markers,      \* offsets with a .captured marker
  spooled,      \* images in spool/
  metas,        \* metadata files in spool/
  whole,        \* images that ffmpeg has finished
  done,         \* images in done/
  sent,         \* images at the remote host, complete
  run,          \* the active runs
  collided,     \* history: a run began while another was active
  powerCuts     \* counter of the bound

piVars == <<due, markers, spooled, metas, whole, done, sent, run, collided, powerCuts>>

Asleep == [at |-> "asleep", rows |-> {}, still |-> NoStill, files |-> {}]

PiTypeOK ==
  /\ due \subseteq Offsets /\ markers \subseteq due
  /\ spooled \union metas \union whole \union done \union sent \subseteq Stills
  /\ run \in [Runs -> [at : {"asleep", "rows", "shooting", "meta", "marker", "upload", "move"},
                       rows : SUBSET Offsets, still : Stills \union {NoStill},
                       files : SUBSET Stills]]
  /\ collided \in BOOLEAN /\ powerCuts \in 0..MaxPowerCuts

PiInit ==
  /\ due = {} /\ markers = {} /\ spooled = {} /\ metas = {} /\ whole = {} /\ done = {} /\ sent = {}
  /\ run = [r \in Runs |-> Asleep]
  /\ collided = FALSE /\ powerCuts = 0

ComesDue(o) ==
  /\ o \notin due
  /\ due' = due \union {o}
  /\ UNCHANGED <<markers, spooled, metas, whole, done, sent, run, collided, powerCuts>>

\* cron starts the script; it reads the clock once.
Cron(r) ==
  /\ run[r] = Asleep
  /\ run' = [run EXCEPT ![r] = [Asleep EXCEPT !.at = "rows", !.rows = due]]
  /\ collided' = (collided \/ \E q \in Runs : run[q] # Asleep)
  /\ UNCHANGED <<due, markers, spooled, metas, whole, done, sent, powerCuts>>

\* The next row of the schedule without a marker; after the last row, the images
\* that are in the spool now are the ones to upload.
NextRow(r) ==
  /\ run[r].at = "rows"
  /\ IF run[r].rows = {}
       THEN run' = [run EXCEPT ![r].at = "upload", ![r].files = spooled] /\ UNCHANGED spooled
       ELSE \E o \in run[r].rows :
              IF o \in markers
                THEN run' = [run EXCEPT ![r].rows = @ \ {o}] /\ UNCHANGED spooled
                ELSE \E s \in {o} \X Stamps :
                       /\ s \notin spooled \union done \union metas
                       /\ spooled' = spooled \union {s}
                       /\ run' = [run EXCEPT ![r].at = "shooting", ![r].still = s,
                                             ![r].rows = @ \ {o}]
  /\ UNCHANGED <<due, markers, metas, whole, done, sent, collided, powerCuts>>

ShotOk(r) ==
  /\ run[r].at = "shooting"
  /\ whole' = whole \union {run[r].still}
  /\ run' = [run EXCEPT ![r].at = "meta"]
  /\ UNCHANGED <<due, markers, spooled, metas, done, sent, collided, powerCuts>>

\* Both ffmpeg calls failed: rm -f, and the next minute tries again.
ShotFails(r) ==
  /\ run[r].at = "shooting"
  /\ spooled' = spooled \ {run[r].still}
  /\ run' = [run EXCEPT ![r].at = "rows", ![r].still = NoStill]
  /\ UNCHANGED <<due, markers, metas, whole, done, sent, collided, powerCuts>>

WriteMeta(r) ==
  /\ run[r].at = "meta"
  /\ metas' = metas \union {run[r].still}
  /\ run' = [run EXCEPT ![r].at = "marker"]
  /\ UNCHANGED <<due, markers, spooled, whole, done, sent, collided, powerCuts>>

TouchMarker(r) ==
  /\ run[r].at = "marker"
  /\ markers' = markers \union {run[r].still[1]}
  /\ run' = [run EXCEPT ![r].at = "rows", ![r].still = NoStill]
  /\ UNCHANGED <<due, spooled, metas, whole, done, sent, collided, powerCuts>>

\* scp of the image, and of its metadata if there is one yet.  An image that
\* is still being written arrives incomplete.
UploadOk(r) ==
  /\ run[r].at = "upload"
  /\ \E s \in run[r].files \intersect spooled :
       /\ sent' = IF s \in whole THEN sent \union {s} ELSE sent
       /\ run' = [run EXCEPT ![r].at = "move", ![r].still = s]
  /\ UNCHANGED <<due, markers, spooled, metas, whole, done, collided, powerCuts>>

\* Mutant: an image that could not be uploaded is moved to done/ all the same.
UploadFailsMoves(r) ==
  /\ run[r].at = "upload"
  /\ \E s \in run[r].files :
       /\ run' = [run EXCEPT ![r].files = @ \ {s}]
       /\ spooled' = spooled \ {s}
       /\ done' = IF s \in spooled THEN done \union {s} ELSE done
  /\ UNCHANGED <<due, markers, metas, whole, sent, collided, powerCuts>>

\* No network, perhaps only when the metadata followed, or another run moved
\* the image: on to the next one.
UploadFails(r) ==
  /\ run[r].at = "upload"
  /\ \E s \in run[r].files :
       /\ run' = [run EXCEPT ![r].files = @ \ {s}]
       /\ sent' \in {sent, sent \union ({s} \intersect spooled \intersect whole)}
  /\ UNCHANGED <<due, markers, spooled, metas, whole, done, collided, powerCuts>>

\* mv fails, without effect, when another run moved the files first.
Move(r) ==
  LET s == run[r].still
  IN /\ run[r].at = "move"
     /\ spooled' = spooled \ {s}
     /\ done' = IF s \in spooled THEN done \union {s} ELSE done
     /\ metas' = metas \ {s}
     /\ run' = [run EXCEPT ![r].at = "upload", ![r].still = NoStill, ![r].files = @ \ {s}]
     /\ UNCHANGED <<due, markers, whole, sent, collided, powerCuts>>

RunEnds(r) ==
  /\ run[r].at = "upload" /\ run[r].files = {}
  /\ run' = [run EXCEPT ![r] = Asleep]
  /\ UNCHANGED <<due, markers, spooled, metas, whole, done, sent, collided, powerCuts>>

\* The files survive; an image in the making stays incomplete.
PowerCut ==
  /\ powerCuts < MaxPowerCuts
  /\ run' = [r \in Runs |-> Asleep]
  /\ powerCuts' = powerCuts + 1
  /\ UNCHANGED <<due, markers, spooled, metas, whole, done, sent, collided>>

RunStep(r) ==
  \/ NextRow(r) \/ ShotOk(r) \/ ShotFails(r) \/ WriteMeta(r) \/ TouchMarker(r)
  \/ UploadOk(r) \/ UploadFails(r) \/ Move(r) \/ RunEnds(r)

PiNext ==
  \/ \E o \in Offsets : ComesDue(o)
  \/ \E r \in Runs : Cron(r) \/ RunStep(r)
  \/ PowerCut

-------------------------------------------------------------------------------
(* Properties.                                                             *)

\* As long as no run began while another was active, a still of every offset
\* that is due reaches the remote host complete, however often the camera and
\* the network fail, and after any loss of power.
DueIsUploaded ==
  \A o \in Offsets :
    o \in due ~> collided \/ \E s \in {o} \X Stamps : s \in sent
===============================================================================
