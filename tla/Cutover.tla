-------------------------------- MODULE Cutover --------------------------------
(***************************************************************************)
(* The cutover to production (scripts/cutover_minillm_production.sh): the   *)
(* operator's launch agents, Home and its tunnel, are stopped, the data is  *)
(* copied, and the system daemons of the same two services are started.  An *)
(* error after the first change ends in restore_user_services.              *)
(*                                                                         *)
(* launchctl, rsync and curl may fail at every call.  A script that is      *)
(* killed restores nothing.  The enabled state of a job, which matters at   *)
(* the next boot only, is left out: each bootstrap follows an enable.       *)
(* What production writes to its copy is left out as well.                  *)
(***************************************************************************)
EXTENDS Naturals

CONSTANTS
  Scripts,     \* runs of the script
  Files,       \* files of the data directory
  MaxWrites    \* bound on the writes of the user Home

ASSUME CutoverAssumption == MaxWrites \in Nat \ {0}

UserJobs == {"UserHome", "UserTunnel"}
SystemJobs == {"SystemHome", "SystemTunnel"}

VARIABLES
  loaded,      \* jobs launchd has loaded
  source,      \* version of each source file, 0 when there is none
  copy,        \* the same of the production data
  writes,      \* writes of the user Home so far
  at,          \* where each script stands
  report,      \* the answer it ends with, as far as it is known
  missed,      \* history: a bootout of the restoration failed unnoticed
  overlapped   \* history: two armed scripts were alive at once

dataVars == <<source, copy, writes>>
scriptVars == <<at, report, missed, overlapped>>
cutoverVars == <<loaded, dataVars, scriptVars>>

Steps == {"new", "arm", "stop_tunnel", "stop_home", "copy", "start_home", "check_home",
          "start_tunnel", "check_tunnel", "out", "home_back", "tunnel_back",
          "out_twice", "home_back_twice", "tunnel_back_twice", "done"}

Restoring == {"out", "home_back", "tunnel_back",
              "out_twice", "home_back_twice", "tunnel_back_twice"}
Armed(s) == at[s] \notin {"new", "arm", "done"}

\* The user services serve; the bootstrap has copied their data before.
CutoverInit ==
  /\ loaded = UserJobs
  /\ source = [f \in Files |-> 1]
  /\ copy = source
  /\ writes = 1
  /\ at = [s \in Scripts |-> "new"]
  /\ report = [s \in Scripts |-> "none"]
  /\ missed = FALSE
  /\ overlapped = FALSE

-------------------------------------------------------------------------------
Goes(s, step) == at' = [at EXCEPT ![s] = step]
Says(s, what) == report' = [report EXCEPT ![s] = what]

\* The ERR trap, armed.  A command substitution whose pipeline fails runs the trap
\* in its subshell, and the script runs it again.
Trap(s) == Goes(s, "out")
TrapTwice(s) == Goes(s, "out_twice")

\* Both system jobs are out, some Home is healthy and the boundary verifies.
Check(s) ==
  /\ at[s] = "new"
  /\ \/ /\ SystemJobs \intersect loaded = {}
        /\ loaded # {}
        /\ Goes(s, "arm")
        /\ UNCHANGED report
     \/ Goes(s, "done") /\ Says(s, "refused")
  /\ UNCHANGED <<loaded, dataVars, missed, overlapped>>

\* Both user jobs are loaded: from here on an error restores them.
Arm(s) ==
  /\ at[s] = "arm"
  /\ IF UserJobs \subseteq loaded
     THEN /\ Goes(s, "stop_tunnel")
          /\ overlapped' = (overlapped \/ \E t \in Scripts \ {s} : Armed(t))
          /\ UNCHANGED report
     ELSE Goes(s, "done") /\ Says(s, "refused") /\ UNCHANGED overlapped
  /\ UNCHANGED <<loaded, dataVars, missed>>

\* bootout of a user job, which fails on one that is not loaded.
Stop(s, step, job, next) ==
  /\ at[s] = step
  /\ \/ job \in loaded /\ loaded' = loaded \ {job} /\ Goes(s, next)
     \/ Trap(s) /\ UNCHANGED loaded
  /\ UNCHANGED <<dataVars, report, missed, overlapped>>

StopTunnel(s) == Stop(s, "stop_tunnel", "UserTunnel", "stop_home")
StopHome(s) == Stop(s, "stop_home", "UserHome", "copy")

\* Mutant: the copy takes only the files production has not got yet.
CopyMissing(s) ==
  /\ at[s] = "copy"
  /\ copy' = [f \in Files |-> IF copy[f] = 0 THEN source[f] ELSE copy[f]]
  /\ Goes(s, "start_home")
  /\ UNCHANGED <<loaded, source, writes, report, missed, overlapped>>

\* rsync: the files of the source are copied over; files that production has and the
\* source has not stay.  A copy that fails has copied some of them.
CopyData(s) ==
  /\ at[s] = "copy"
  /\ \E part \in SUBSET {f \in Files : source[f] # 0} :
       /\ copy' = [f \in Files |-> IF f \in part THEN source[f] ELSE copy[f]]
       /\ \/ Trap(s)
          \/ (\A f \in Files \ part : source[f] = 0) /\ Goes(s, "start_home")
  /\ UNCHANGED <<loaded, source, writes, report, missed, overlapped>>

\* bootstrap of a system job, which fails on one that is loaded.
Start(s, step, job, next) ==
  /\ at[s] = step
  /\ \/ job \notin loaded /\ loaded' = loaded \union {job} /\ Goes(s, next)
     \/ Trap(s) /\ UNCHANGED loaded
  /\ UNCHANGED <<dataVars, report, missed, overlapped>>

StartHome(s) == Start(s, "start_home", "SystemHome", "check_home")
StartTunnel(s) == Start(s, "start_tunnel", "SystemTunnel", "check_tunnel")

\* A Home answers, it is the system job, owned by the production user, and the smoke
\* test passes.  A job that is gone when its owner is asked for runs the trap twice.
CheckHome(s) ==
  /\ at[s] = "check_home"
  /\ \/ "SystemHome" \in loaded /\ Goes(s, "start_tunnel")
     \/ Trap(s)
     \/ TrapTwice(s)
  /\ UNCHANGED <<loaded, dataVars, report, missed, overlapped>>

CheckTunnel(s) ==
  /\ at[s] = "check_tunnel"
  /\ \/ "SystemTunnel" \in loaded /\ Goes(s, "done") /\ Says(s, "applied")
     \/ Trap(s) /\ UNCHANGED report
     \/ TrapTwice(s) /\ UNCHANGED report
  /\ UNCHANGED <<loaded, dataVars, missed, overlapped>>

-------------------------------------------------------------------------------
(* restore_user_services.  The steps of the first of two runs have names of their
   own; a run that finds any call failing says that manual recovery is required. *)

Doubled(s) == at[s] \in {"out_twice", "home_back_twice", "tunnel_back_twice"}

\* Mutant: the system jobs are left alone.
OutNothing(s) ==
  /\ at[s] \in {"out", "out_twice"}
  /\ UNCHANGED <<loaded, missed>>
  /\ Goes(s, IF Doubled(s) THEN "home_back_twice" ELSE "home_back")
  /\ Says(s, "restored")
  /\ UNCHANGED <<dataVars, overlapped>>

\* The system jobs are booted out; a failure is ignored.
Out(s) ==
  /\ at[s] \in {"out", "out_twice"}
  /\ \E stays \in SUBSET (SystemJobs \intersect loaded) :
       /\ loaded' = (loaded \ SystemJobs) \union stays
       /\ missed' = (missed \/ stays # {})
  /\ Goes(s, IF Doubled(s) THEN "home_back_twice" ELSE "home_back")
  /\ Says(s, "restored")
  /\ UNCHANGED <<dataVars, overlapped>>

\* bootstrap and kickstart of a user job, and the wait for an answer on its port,
\* which either job of the service gives.
Back(s, job, next) ==
  /\ \/ job \notin loaded /\ loaded' = loaded \union {job} /\ UNCHANGED report
     \/ job \notin loaded /\ loaded' = loaded \union {job} /\ Says(s, "manual")
     \/ Says(s, "manual") /\ UNCHANGED loaded
  /\ Goes(s, next)
  /\ UNCHANGED <<dataVars, missed, overlapped>>

\* Mutant: the restoration forgets the Home.
HomeBackNothing(s) ==
  /\ at[s] \in {"home_back", "home_back_twice"}
  /\ Goes(s, IF Doubled(s) THEN "tunnel_back_twice" ELSE "tunnel_back")
  /\ UNCHANGED <<loaded, dataVars, report, missed, overlapped>>

HomeBack(s) ==
  /\ at[s] \in {"home_back", "home_back_twice"}
  /\ Back(s, "UserHome", IF Doubled(s) THEN "tunnel_back_twice" ELSE "tunnel_back")

\* The first of two runs is followed by the second.
TunnelBack(s) ==
  /\ at[s] \in {"tunnel_back", "tunnel_back_twice"}
  /\ Back(s, "UserTunnel", IF Doubled(s) THEN "out" ELSE "done")

-------------------------------------------------------------------------------
(* The script dies; the user Home writes.                                  *)

Kill(s) ==
  /\ at[s] \notin {"new", "done"}
  /\ Goes(s, "done")
  /\ Says(s, "killed")
  /\ UNCHANGED <<loaded, dataVars, missed, overlapped>>

UserWrite(f) ==
  /\ "UserHome" \in loaded
  /\ writes < MaxWrites
  /\ writes' = writes + 1
  /\ source' = [source EXCEPT ![f] = writes']
  /\ UNCHANGED <<loaded, copy, scriptVars>>

\* A file is removed, such as the journal of a transaction that has ended.
UserRemove(f) ==
  /\ "UserHome" \in loaded
  /\ source[f] # 0
  /\ source' = [source EXCEPT ![f] = 0]
  /\ UNCHANGED <<loaded, copy, writes, scriptVars>>

ScriptStep(s) ==
  \/ Arm(s) \/ StopTunnel(s) \/ StopHome(s) \/ CopyData(s)
  \/ StartHome(s) \/ CheckHome(s) \/ StartTunnel(s) \/ CheckTunnel(s)
  \/ Out(s) \/ HomeBack(s) \/ TunnelBack(s)

CutoverNext ==
  \/ \E s \in Scripts : Check(s) \/ ScriptStep(s) \/ Kill(s)
  \/ \E f \in Files : UserWrite(f) \/ UserRemove(f)

\* A script that runs goes on: each of its calls returns, and its waits are bounded.
CutoverSpec ==
  /\ CutoverInit
  /\ [][CutoverNext]_cutoverVars
  /\ \A s \in Scripts : WF_cutoverVars(ScriptStep(s))

-------------------------------------------------------------------------------
(* Properties.                                                             *)

\* Every variable has its type.
CutoverTypeOK ==
  /\ loaded \subseteq UserJobs \union SystemJobs
  /\ {source, copy} \subseteq [Files -> 0..MaxWrites]
  /\ writes \in 1..MaxWrites
  /\ at \in [Scripts -> Steps]
  /\ report \in [Scripts -> {"none", "refused", "applied", "restored", "manual", "killed"}]
  /\ {missed, overlapped} \subseteq BOOLEAN

\* The operator's Home and the production Home are never up together, whatever fails
\* and whenever a script dies; unless the restoration failed to boot the system job
\* out and did not notice, or two scripts were under way.
NoSplitService ==
  {"UserHome", "SystemHome"} \subseteq loaded => missed \/ overlapped

Ends(s, what) == at[s] # "done" /\ at'[s] = "done" /\ report'[s] = what

\* A script that says it has restored the user services leaves exactly those up; one
\* that says applied leaves exactly the system services up, with every file the
\* operator's Home wrote before it was stopped.
ReportIsTrue ==
  [][\A s \in Scripts : ~overlapped' =>
       /\ Ends(s, "restored") => UserJobs \subseteq loaded' /\ (loaded' = UserJobs \/ missed')
       /\ Ends(s, "applied") =>
            /\ loaded' = SystemJobs
            /\ \A f \in Files : source[f] # 0 => copy'[f] = source[f]]_cutoverVars

\* A script that stopped the user services ends, and with a Home that serves, unless
\* it was killed, says that manual recovery is required, or met another script.
EndsServing ==
  \A s \in Scripts :
    Armed(s) ~> /\ at[s] = "done"
                /\ \/ report[s] \in {"killed", "manual"} \/ overlapped
                   \/ {"UserHome", "SystemHome"} \intersect loaded # {}
===============================================================================
