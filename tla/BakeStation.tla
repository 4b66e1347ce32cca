------------------------------ MODULE BakeStation ------------------------------
(***************************************************************************)
(* The two ways a baking session is photographed: from the Mac mini over   *)
(* ssh (BakeCam) or by the runner on the camera host (PiRunner).  They     *)
(* share no file, so that a behaviour follows one of the two.              *)
(***************************************************************************)
EXTENDS BakeCam, PiRunner

VARIABLE path   \* who takes the stills: "mac" or "pi"

stationVars == <<camVars, piVars, path>>

StationInit == CamInit /\ PiInit /\ path \in {"mac", "pi"}

Mac == path = "mac" /\ CamNext /\ UNCHANGED <<piVars, path>>
Pi(A) == path = "pi" /\ A /\ UNCHANGED <<camVars, path>>

StationNext == Mac \/ Pi(PiNext)

\* cron and the kernel run the script; a camera or a network that is tried
\* again and again works some time.
StationFairness ==
  \A r \in Runs :
    /\ WF_stationVars(Pi(Cron(r)))
    /\ WF_stationVars(Pi(RunStep(r)))
    /\ SF_stationVars(Pi(ShotOk(r)))
    /\ SF_stationVars(Pi(UploadOk(r)))

StationSpec == StationInit /\ [][StationNext]_stationVars /\ StationFairness

StationTypeOK == CamTypeOK /\ PiTypeOK
===============================================================================
