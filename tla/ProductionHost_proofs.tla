-------------------------- MODULE ProductionHost_proofs --------------------------
(***************************************************************************)
(* Theorems about the production host, for any number of scripts, files,    *)
(* candidates, archives, builds, requests and helpers.                      *)
(*                                                                         *)
(* The cutover alone: types, that the two Homes are never up together, and  *)
(* that reports are true.  As long as no two armed scripts met there is     *)
(* one, and where it stands says which jobs are loaded (Going) and which    *)
(* data is copied; as long as, besides, no bootout was missed, the          *)
(* production Home is down while a script stops the user services or brings *)
(* them back (ServicesApart).                                               *)
(*                                                                         *)
(* The bootstrap and the cutovers between its runs: what a run that was cut *)
(* short leaves can be started, and what an applied one reports is there.   *)
(* Where the run stands says which parts are at its candidate (Built); what *)
(* earlier runs left only has to fit together (Startable).                  *)
(*                                                                         *)
(* The administration helper with the scripts it starts: the journal is     *)
(* truthful, an operation runs once as it was reviewed, and production      *)
(* moves along approvals only.  HostInv follows an operation from its       *)
(* review to the record of its end, with the commands that have lost their  *)
(* helper.                                                                  *)
(***************************************************************************)
EXTENDS ProductionHost, Bootstrap, TLAPS

--------------------------------------------------------------------------------
(* The cutover.                                                            *)

Reports == {"none", "refused", "applied", "restored", "manual", "killed"}

PlacesOK ==
  /\ loaded \subseteq UserJobs \union SystemJobs
  /\ at \in [Scripts -> Steps]
  /\ report \in [Scripts -> Reports]
  /\ {missed, overlapped} \subseteq BOOLEAN

OneArmed == \A s, t \in Scripts : Armed(s) /\ Armed(t) => s = t

\* From the copy of the data to the end of an application.
Forward == {"copy", "start_home", "check_home", "start_tunnel", "check_tunnel"}
Backward == {"stop_tunnel", "stop_home", "home_back", "tunnel_back", "home_back_twice", "tunnel_back_twice"}

\* What the armed script has brought about so far.
Going ==
  \A s \in Scripts :
    /\ at[s] = "stop_home" => "UserTunnel" \notin loaded
    /\ at[s] \in Forward => UserJobs \intersect loaded = {}
    /\ at[s] \in {"check_home", "start_tunnel", "check_tunnel"} => "SystemHome" \in loaded
    /\ at[s] = "check_tunnel" => "SystemTunnel" \in loaded
    /\ at[s] \in {"home_back", "tunnel_back"} => missed \/ SystemJobs \intersect loaded = {}
    /\ at[s] \in {"home_back", "tunnel_back"} => report[s] \in {"restored", "manual"}
    /\ at[s] = "tunnel_back" /\ report[s] = "restored" => "UserHome" \in loaded

\* The data that the operator's Home wrote has been copied.
Copied ==
  \A s \in Scripts :
    at[s] \in Forward \ {"copy"} => \A f \in Files : source[f] # 0 => copy[f] = source[f]

ServicesApart ==
  /\ ~ {"UserHome", "SystemHome"} \subseteq loaded
  /\ \A s \in Scripts : at[s] \in Backward => "SystemHome" \notin loaded

CutoverInv ==
  /\ PlacesOK
  /\ ~ overlapped => OneArmed /\ Going
  /\ ~ missed /\ ~ overlapped => ServicesApart

\* The scripts, whoever else works on the host.
Moves == \E s \in Scripts : Check(s) \/ ScriptStep(s) \/ Kill(s)

-------------------------------------------------------------------------------
(* The invariant.                                                          *)

LEMMA InvMoves == CutoverInv /\ Moves => CutoverInv'
<1> SUFFICES ASSUME CutoverInv, NEW s \in Scripts, Check(s) \/ ScriptStep(s) \/ Kill(s)
             PROVE  CutoverInv'
  BY DEF Moves
<1> USE DEF CutoverInv, PlacesOK, OneArmed, Going, ServicesApart, Armed, Forward, Backward, Steps,
            Reports, Goes, Says, UserJobs, SystemJobs, dataVars
<1>1. CASE Check(s) BY <1>1 DEF Check
<1>2. CASE Arm(s)
  <2>1. UNCHANGED <<loaded, missed>> BY <1>2 DEF Arm
  <2>2. CASE /\ UserJobs \subseteq loaded
             /\ at' = [at EXCEPT ![s] = "stop_tunnel"]
             /\ overlapped' = (overlapped \/ \E t \in Scripts \ {s} : Armed(t))
             /\ UNCHANGED report
    <3>1. PlacesOK' BY <2>1, <2>2
    <3>2. ASSUME ~ overlapped' PROVE ~ overlapped /\ \A t \in Scripts \ {s} : ~ Armed(t)
      BY <2>2, <3>2
    <3>3. ASSUME ~ overlapped' PROVE OneArmed' BY <2>2, <3>2, <3>3
    <3>4. ASSUME ~ overlapped' PROVE Going' BY <2>1, <2>2, <3>2, <3>4
    <3>5. ~ missed' /\ ~ overlapped' => ServicesApart' BY <2>1, <2>2, <3>2
    <3> QED BY <3>1, <3>3, <3>4, <3>5
  <2>3. CASE /\ at' = [at EXCEPT ![s] = "done"]
             /\ report' = [report EXCEPT ![s] = "refused"]
             /\ UNCHANGED overlapped
    BY <2>1, <2>3
  <2> QED BY <1>2, <2>2, <2>3 DEF Arm
<1>3. CASE StopTunnel(s)
  <2>1. PlacesOK' BY <1>3 DEF StopTunnel, Stop, Trap
  <2>2. (~ overlapped => OneArmed)' BY <1>3 DEF StopTunnel, Stop, Trap
  <2>3. (~ overlapped => Going)' BY <1>3 DEF StopTunnel, Stop, Trap
  <2>4. (~ missed /\ ~ overlapped => ServicesApart)' BY <1>3 DEF StopTunnel, Stop, Trap
  <2> QED BY <2>1, <2>2, <2>3, <2>4
<1>4. CASE StopHome(s)
  <2>1. PlacesOK' BY <1>4 DEF StopHome, Stop, Trap
  <2>2. (~ overlapped => OneArmed)' BY <1>4 DEF StopHome, Stop, Trap
  <2>3. (~ overlapped => Going)' BY <1>4 DEF StopHome, Stop, Trap
  <2>4. (~ missed /\ ~ overlapped => ServicesApart)' BY <1>4 DEF StopHome, Stop, Trap
  <2> QED BY <2>1, <2>2, <2>3, <2>4
<1>5. CASE CopyData(s) BY <1>5 DEF CopyData, Trap
<1>6. CASE StartHome(s)
  <2>1. PlacesOK' BY <1>6 DEF StartHome, Start, Trap
  <2>2. (~ overlapped => OneArmed)' BY <1>6 DEF StartHome, Start, Trap
  <2>3. (~ overlapped => Going)' BY <1>6 DEF StartHome, Start, Trap
  <2>4. (~ missed /\ ~ overlapped => ServicesApart)' BY <1>6 DEF StartHome, Start, Trap
  <2> QED BY <2>1, <2>2, <2>3, <2>4
<1>7. CASE CheckHome(s)
  <2>1. PlacesOK' BY <1>7 DEF CheckHome, Trap, TrapTwice
  <2>2. (~ overlapped => OneArmed)' BY <1>7 DEF CheckHome, Trap, TrapTwice
  <2>3. (~ overlapped => Going)' BY <1>7 DEF CheckHome, Trap, TrapTwice
  <2>4. (~ missed /\ ~ overlapped => ServicesApart)' BY <1>7 DEF CheckHome, Trap, TrapTwice
  <2> QED BY <2>1, <2>2, <2>3, <2>4
<1>8. CASE StartTunnel(s)
  <2>1. PlacesOK' BY <1>8 DEF StartTunnel, Start, Trap
  <2>2. (~ overlapped => OneArmed)' BY <1>8 DEF StartTunnel, Start, Trap
  <2>3. (~ overlapped => Going)' BY <1>8 DEF StartTunnel, Start, Trap
  <2>4. (~ missed /\ ~ overlapped => ServicesApart)' BY <1>8 DEF StartTunnel, Start, Trap
  <2> QED BY <2>1, <2>2, <2>3, <2>4
<1>9. CASE CheckTunnel(s)
  <2>1. PlacesOK' BY <1>9 DEF CheckTunnel, Trap, TrapTwice
  <2>2. (~ overlapped => OneArmed)' BY <1>9 DEF CheckTunnel, Trap, TrapTwice
  <2>3. (~ overlapped => Going)' BY <1>9 DEF CheckTunnel, Trap, TrapTwice
  <2>4. (~ missed /\ ~ overlapped => ServicesApart)' BY <1>9 DEF CheckTunnel, Trap, TrapTwice
  <2> QED BY <2>1, <2>2, <2>3, <2>4
<1>10. CASE Out(s) BY <1>10 DEF Out, Doubled
<1>11. CASE HomeBack(s)
  <2>1. PlacesOK' BY <1>11 DEF HomeBack, Back, Doubled
  <2>2. (~ overlapped => OneArmed)' BY <1>11 DEF HomeBack, Back, Doubled
  <2>3. (~ overlapped => Going)' BY <1>11 DEF HomeBack, Back, Doubled
  <2>4. (~ missed /\ ~ overlapped => ServicesApart)' BY <1>11 DEF HomeBack, Back, Doubled
  <2> QED BY <2>1, <2>2, <2>3, <2>4
<1>12. CASE TunnelBack(s)
  <2>1. PlacesOK' BY <1>12 DEF TunnelBack, Back, Doubled
  <2>2. (~ overlapped => OneArmed)' BY <1>12 DEF TunnelBack, Back, Doubled
  <2>3. (~ overlapped => Going)' BY <1>12 DEF TunnelBack, Back, Doubled
  <2>4. (~ missed /\ ~ overlapped => ServicesApart)' BY <1>12 DEF TunnelBack, Back, Doubled
  <2> QED BY <2>1, <2>2, <2>3, <2>4
<1>13. CASE Kill(s) BY <1>13 DEF Kill
<1> QED BY <1>1, <1>2, <1>3, <1>4, <1>5, <1>6, <1>7, <1>8, <1>9, <1>10, <1>11, <1>12, <1>13 DEF ScriptStep

LEMMA InvStays == CutoverInv /\ UNCHANGED <<loaded, scriptVars>> => CutoverInv'
  BY DEF CutoverInv, PlacesOK, OneArmed, Going, ServicesApart, Armed, scriptVars

LEMMA InvStep == CutoverInv /\ [CutoverNext]_cutoverVars => CutoverInv'
<1> SUFFICES ASSUME CutoverInv, [CutoverNext]_cutoverVars PROVE CutoverInv'
  OBVIOUS
<1>1. CASE Moves BY <1>1, InvMoves
<1>2. CASE \E f \in Files : UserWrite(f) \/ UserRemove(f)
  BY <1>2, InvStays DEF UserWrite, UserRemove
<1>3. CASE UNCHANGED cutoverVars BY <1>3, InvStays DEF cutoverVars
<1> QED BY <1>1, <1>2, <1>3 DEF CutoverNext, Moves

LEMMA InvHolds == CutoverInv => NoSplitService
  BY DEF CutoverInv, PlacesOK, ServicesApart, NoSplitService

LEMMA InvInit == CutoverInit => CutoverInv
  BY DEF CutoverInit, CutoverInv, PlacesOK, OneArmed, Going, ServicesApart, Armed, Forward, Backward,
         Steps, Reports, UserJobs, SystemJobs

\* However often launchctl, rsync and curl fail, and whenever a script is killed,
\* the two Homes are never up together, unless a bootout was missed or two scripts met.
THEOREM ServicesStayApart == CutoverSpec => []NoSplitService
  BY InvInit, InvStep, InvHolds, PTL DEF CutoverSpec

-------------------------------------------------------------------------------
(* The data.                                                               *)

LEMMA CopiedMoves == CutoverInv /\ (~ overlapped => Copied) /\ Moves => (~ overlapped => Copied)'
<1> SUFFICES ASSUME CutoverInv, ~ overlapped => Copied, ~ overlapped',
                    NEW s \in Scripts, Check(s) \/ ScriptStep(s) \/ Kill(s)
             PROVE  Copied'
  BY DEF Moves
<1> USE DEF CutoverInv, PlacesOK, OneArmed, Armed, Forward, Goes, Copied, dataVars
<1>1. CASE Check(s) BY <1>1 DEF Check
<1>2. CASE Arm(s) BY <1>2 DEF Arm
<1>3. CASE StopTunnel(s) BY <1>3 DEF StopTunnel, Stop, Trap
<1>4. CASE StopHome(s) BY <1>4 DEF StopHome, Stop, Trap
<1>5. CASE CopyData(s)
  <2>1. ~ overlapped /\ at[s] = "copy" BY <1>5 DEF CopyData
  <2>2. PICK part \in SUBSET {f \in Files : source[f] # 0} :
          /\ copy' = [f \in Files |-> IF f \in part THEN source[f] ELSE copy[f]]
          /\ \/ at' = [at EXCEPT ![s] = "out"]
             \/ (\A f \in Files \ part : source[f] = 0) /\ at' = [at EXCEPT ![s] = "start_home"]
    BY <1>5 DEF CopyData, Trap
  <2>3. UNCHANGED source BY <1>5 DEF CopyData
  <2>4. \A t \in Scripts \ {s} : at'[t] \notin Forward BY <2>1, <2>2
  <2>5. at'[s] \in Forward => \A f \in Files : source[f] # 0 => copy'[f] = source[f] BY <2>2
  <2> QED BY <2>3, <2>4, <2>5
<1>6. CASE StartHome(s) BY <1>6 DEF StartHome, Start, Trap
<1>7. CASE CheckHome(s) BY <1>7 DEF CheckHome, Trap, TrapTwice
<1>8. CASE StartTunnel(s) BY <1>8 DEF StartTunnel, Start, Trap
<1>9. CASE CheckTunnel(s) BY <1>9 DEF CheckTunnel, Trap, TrapTwice
<1>10. CASE Out(s) BY <1>10 DEF Out, Doubled
<1>11. CASE HomeBack(s) BY <1>11 DEF HomeBack, Back, Doubled
<1>12. CASE TunnelBack(s) BY <1>12 DEF TunnelBack, Back, Doubled
<1>13. CASE Kill(s) BY <1>13 DEF Kill
<1> QED BY <1>1, <1>2, <1>3, <1>4, <1>5, <1>6, <1>7, <1>8, <1>9, <1>10, <1>11, <1>12, <1>13 DEF ScriptStep

\* The operator's Home writes only while it is up, which it is not after the copy.
LEMMA CopiedWrites ==
  ASSUME CutoverInv, ~ overlapped => Copied, NEW f \in Files, UserWrite(f) \/ UserRemove(f)
  PROVE  (~ overlapped => Copied)'
  BY DEF CutoverInv, Going, Copied, Forward, UserWrite, UserRemove, UserJobs, scriptVars

LEMMA CopiedStep ==
  CutoverInv /\ (~ overlapped => Copied) /\ [CutoverNext]_cutoverVars => (~ overlapped => Copied)'
<1> SUFFICES ASSUME CutoverInv, ~ overlapped => Copied, [CutoverNext]_cutoverVars
             PROVE  (~ overlapped => Copied)'
  OBVIOUS
<1>1. CASE Moves BY <1>1, CopiedMoves
<1>2. CASE \E f \in Files : UserWrite(f) \/ UserRemove(f) BY <1>2, CopiedWrites
<1>3. CASE UNCHANGED cutoverVars BY <1>3 DEF cutoverVars, dataVars, scriptVars, Copied
<1> QED BY <1>1, <1>2, <1>3 DEF CutoverNext, Moves

\* What a script says at its end.
TrueReport ==
  \A s \in Scripts : ~overlapped' =>
     /\ Ends(s, "restored") => UserJobs \subseteq loaded' /\ (loaded' = UserJobs \/ missed')
     /\ Ends(s, "applied") =>
          /\ loaded' = SystemJobs
          /\ \A f \in Files : source[f] # 0 => copy'[f] = source[f]

LEMMA ReportMoves == CutoverInv /\ (~ overlapped => Copied) /\ Moves => TrueReport
<1> SUFFICES ASSUME CutoverInv, ~ overlapped => Copied, ~ overlapped',
                    NEW t \in Scripts, Check(t) \/ ScriptStep(t) \/ Kill(t),
                    NEW s \in Scripts
             PROVE  /\ Ends(s, "restored") => UserJobs \subseteq loaded' /\ (loaded' = UserJobs \/ missed')
                    /\ Ends(s, "applied") =>
                         /\ loaded' = SystemJobs
                         /\ \A f \in Files : source[f] # 0 => copy'[f] = source[f]
  BY DEF Moves, TrueReport
<1> USE DEF CutoverInv, PlacesOK, Goes, Says, Ends
<1>1. CASE Check(t) BY <1>1 DEF Check
<1>2. CASE Arm(t) BY <1>2 DEF Arm
<1>3. CASE StopTunnel(t) BY <1>3 DEF StopTunnel, Stop, Trap
<1>4. CASE StopHome(t) BY <1>4 DEF StopHome, Stop, Trap
<1>5. CASE CopyData(t) BY <1>5 DEF CopyData, Trap
<1>6. CASE StartHome(t) BY <1>6 DEF StartHome, Start, Trap
<1>7. CASE CheckHome(t) BY <1>7 DEF CheckHome, Trap, TrapTwice
<1>8. CASE StartTunnel(t) BY <1>8 DEF StartTunnel, Start, Trap
<1>9. CASE CheckTunnel(t)
  <2>1. ~ overlapped /\ at[t] = "check_tunnel" BY <1>9 DEF CheckTunnel
  <2>2. loaded = SystemJobs BY <2>1 DEF Going, Forward, UserJobs, SystemJobs
  <2> QED BY <1>9, <2>1, <2>2 DEF CheckTunnel, Trap, TrapTwice, Copied, Forward, dataVars
<1>10. CASE Out(t) BY <1>10 DEF Out, Doubled
<1>11. CASE HomeBack(t) BY <1>11 DEF HomeBack, Back, Doubled
<1>12. CASE TunnelBack(t)
  <2>1. ~ overlapped /\ missed' = missed BY <1>12 DEF TunnelBack, Back
  <2>2. \/ at' = [at EXCEPT ![t] = "out"]
        \/ at' = [at EXCEPT ![t] = "done"] /\ at[t] = "tunnel_back"
    <3>1. at[t] = "tunnel_back" \/ Doubled(t) BY <1>12 DEF TunnelBack, Doubled
    <3>2. at' = [at EXCEPT ![t] = IF Doubled(t) THEN "out" ELSE "done"]
      BY <1>12 DEF TunnelBack, Back
    <3>3. CASE Doubled(t) BY <3>2, <3>3
    <3>4. CASE ~ Doubled(t) BY <3>1, <3>2, <3>4
    <3> QED BY <3>3, <3>4
  <2>3. CASE report' = [report EXCEPT ![t] = "manual"] BY <2>2, <2>3
  <2>4. CASE /\ loaded' = loaded \union {"UserTunnel"}
             /\ UNCHANGED report
    <3>a. ~ Ends(s, "applied")
      <4>1. CASE s = t /\ at[t] = "tunnel_back" BY <2>1, <2>4, <4>1 DEF Going
      <4>2. CASE s = t /\ at[t] # "tunnel_back" BY <2>2, <4>2
      <4>3. CASE s # t BY <2>2, <4>3
      <4> QED BY <4>1, <4>2, <4>3
    <3> SUFFICES ASSUME Ends(s, "restored")
                 PROVE  UserJobs \subseteq loaded' /\ (loaded' = UserJobs \/ missed')
      BY <3>a
    <3>1. s = t /\ at[t] = "tunnel_back" /\ report[t] = "restored" BY <2>2, <2>4
    <3>2. "UserHome" \in loaded /\ (missed \/ SystemJobs \intersect loaded = {})
      BY <2>1, <3>1 DEF Going
    <3> QED BY <2>1, <2>4, <3>2 DEF UserJobs, SystemJobs
  <2> QED BY <1>12, <2>3, <2>4 DEF TunnelBack, Back
<1>13. CASE Kill(t) BY <1>13 DEF Kill
<1> QED BY <1>1, <1>2, <1>3, <1>4, <1>5, <1>6, <1>7, <1>8, <1>9, <1>10, <1>11, <1>12, <1>13 DEF ScriptStep

LEMMA ReportStep ==
  CutoverInv /\ (~ overlapped => Copied) /\ [CutoverNext]_cutoverVars => TrueReport
<1> SUFFICES ASSUME CutoverInv, ~ overlapped => Copied, [CutoverNext]_cutoverVars
             PROVE  TrueReport
  OBVIOUS
<1>1. CASE Moves BY <1>1, ReportMoves
<1>2. CASE UNCHANGED at BY <1>2 DEF TrueReport, Ends
<1> QED BY <1>1, <1>2 DEF CutoverNext, Moves, UserWrite, UserRemove, cutoverVars, scriptVars

\* A script that says applied has moved every file and every service, and one that
\* says restored has brought the user services back, unless two scripts met.
THEOREM ReportsAreTrue == CutoverSpec => ReportIsTrue
<1>1. CutoverInit => (~ overlapped => Copied)
  BY DEF CutoverInit, Copied, Forward
<1>2. CutoverInv /\ (~ overlapped => Copied) /\ [CutoverNext]_cutoverVars => [TrueReport]_cutoverVars
  BY ReportStep
<1> QED BY <1>1, <1>2, InvInit, InvStep, CopiedStep, PTL DEF CutoverSpec, ReportIsTrue, TrueReport

-------------------------------------------------------------------------------
(* Types.                                                                  *)

LEMMA TypeStep == CutoverTypeOK /\ CutoverInv' /\ [CutoverNext]_cutoverVars => CutoverTypeOK'
<1> SUFFICES ASSUME CutoverTypeOK, CutoverInv', [CutoverNext]_cutoverVars
             PROVE  /\ {source, copy}' \subseteq [Files -> 0..MaxWrites]
                    /\ writes' \in 1..MaxWrites
  BY DEF CutoverTypeOK, CutoverInv, PlacesOK, Reports
<1> USE CutoverAssumption DEF CutoverTypeOK
<1>1. ASSUME NEW f \in Files, UserWrite(f) \/ UserRemove(f)
      PROVE  /\ {source, copy}' \subseteq [Files -> 0..MaxWrites]
             /\ writes' \in 1..MaxWrites
  BY <1>1 DEF UserWrite, UserRemove
<1>2. ASSUME NEW s \in Scripts, CopyData(s)
      PROVE  /\ {source, copy}' \subseteq [Files -> 0..MaxWrites]
             /\ writes' \in 1..MaxWrites
  BY <1>2 DEF CopyData
<1>3. CASE UNCHANGED dataVars BY <1>3 DEF dataVars
<1> QED
  BY <1>1, <1>2, <1>3 DEF CutoverNext, ScriptStep, Check, Arm, StopTunnel, StopHome, Stop, StartHome,
     CheckHome, StartTunnel, Start, CheckTunnel, Out, HomeBack, TunnelBack, Back, Kill, cutoverVars

\* Every variable keeps its type: in particular no write passes its bound.
THEOREM CutoverTypeCorrect == CutoverSpec => []CutoverTypeOK
<1>1. ASSUME CutoverInit PROVE CutoverTypeOK
  <2>1. source \in [Files -> 0..MaxWrites] /\ writes \in 1..MaxWrites
    BY <1>1, CutoverAssumption DEF CutoverInit
  <2>2. /\ loaded \subseteq UserJobs \union SystemJobs
        /\ at \in [Scripts -> Steps]
        /\ report \in [Scripts -> Reports]
        /\ {missed, overlapped} \subseteq BOOLEAN
    BY <1>1, InvInit DEF CutoverInv, PlacesOK
  <2> QED BY <1>1, <2>1, <2>2 DEF CutoverInit, CutoverTypeOK, Reports
<1> QED BY <1>1, InvInit, InvStep, TypeStep, PTL DEF CutoverSpec

--------------------------------------------------------------------------------
(* The bootstrap.                                                          *)

HostOK ==
  host \in [repo : Candidates \union {Absent, "partial"}, releases : SUBSET Candidates,
            wheels : [Candidates -> Archives \union {Absent, "partial"}],
            staging : SUBSET Candidates, runtime : Archives \union {Absent},
            builder : Archives \union {Absent},
            config : [of : Candidates \union {Absent}, resource : BOOLEAN],
            prompts : Candidates \union {Absent}, current : Candidates \union {Absent},
            marker : Candidates \union {Absent, "empty"}, plists : SUBSET {"home", "tunnel"},
            shadow : BOOLEAN]

\* The steps of a run of the bootstrap that come after each part is made.
AfterShadow  == {"smoke"}
AfterTunnel  == AfterShadow \union {"shadow"}
AfterHome    == AfterTunnel \union {"tunnel_plist"}
AfterMark    == AfterHome \union {"home_plist"}
AfterEmpty   == AfterMark \union {"mark"}
AfterLink    == AfterEmpty \union {"empty"}
AfterData    == AfterLink \union {"link"}
AfterAppend  == AfterData \union {"data"}
AfterPrompts == AfterAppend \union {"append"}
AfterConfig  == AfterPrompts \union {"prompts"}
AfterBuilder == AfterConfig \union {"config"}
AfterInstall == AfterBuilder \union {"builder"}
AfterCheck   == AfterInstall \union {"venv", "install"}
AfterWheels  == AfterCheck \union {"check"}
AfterRelease == AfterWheels \union {"wheels"}
AfterRepo    == AfterRelease \union {"release"}

BootOK ==
  /\ boot \in [at : AfterRepo \union {"repo", "idle"}, of : Candidates \union {Absent},
              archive : Archives \union {Absent}, kept : SUBSET {"wheels", "runtime", "prompts"},
              last : {"none", "running", "applied", "refused", "killed"}]
  /\ boot.at # "idle" => boot.of \in Candidates /\ boot.archive \in Archives /\ boot.last = "running"
  /\ boot.last = "applied" => ~ host.shadow

\* The parts that a run has made or found by now.
Built ==
  /\ boot.at \in AfterRepo => host.repo = boot.of
  /\ boot.at \in AfterRelease => boot.of \in host.releases
  /\ boot.at \in AfterWheels => /\ host.wheels[boot.of] # Absent
                                /\ "wheels" \notin boot.kept => host.wheels[boot.of] = boot.archive
  /\ boot.at \in AfterCheck /\ "wheels" \notin boot.kept => boot.archive \notin Mixed
  /\ boot.at \in AfterInstall =>
       /\ host.runtime # Absent
       /\ {"wheels", "runtime"} \intersect boot.kept = {} => host.runtime = boot.archive
  /\ boot.at \in AfterConfig => host.config.of = boot.of
  /\ boot.at \in AfterPrompts => /\ host.prompts # Absent
                                 /\ "prompts" \notin boot.kept => host.prompts = boot.of
  /\ boot.at \in AfterAppend => host.config.resource
  /\ boot.at \in AfterLink => host.current = boot.of
  /\ boot.at \in AfterEmpty => host.marker # Absent
  /\ boot.at \in AfterMark => host.marker = boot.of
  /\ boot.at \in AfterHome => "home" \in host.plists
  /\ boot.at \in AfterTunnel => "tunnel" \in host.plists

\* Whatever cut a run short, the parts fit together.
Startable ==
  /\ host.plists # {} =>
       /\ host.current \in host.releases
       /\ Absent \notin {host.runtime, host.config.of, host.prompts, host.marker}
  /\ host.shadow => host.plists # {}

BootInv ==
  /\ HostOK
  /\ BootOK
  /\ Built
  /\ Startable
  /\ AppliedIsWhole

-------------------------------------------------------------------------------
(* The steps of a run.                                                     *)

LEMMA BootInvStep ==
  ASSUME BootInv, BootStep
  PROVE  BootInv'
<1> USE BootstrapAssumption
    DEF BootInv, HostOK, BootOK, Built, Startable, AppliedIsWhole, AfterRepo, AfterRelease, AfterWheels,
        AfterCheck, AfterInstall, AfterBuilder, AfterConfig, AfterPrompts, AfterAppend, AfterData,
        AfterLink, AfterEmpty, AfterMark, AfterHome, AfterTunnel, AfterShadow, Does, Keeps
<1>1. CASE Checkout BY <1>1 DEF Checkout
<1>2. CASE Release BY <1>2 DEF Release
<1>3. CASE Extract BY <1>3 DEF Extract
<1>4. CASE OnlyWheels BY <1>4 DEF OnlyWheels
<1>5. CASE KeepWheels
  <2>1. BootOK' BY <1>5 DEF KeepWheels
  <2>2. Built' BY <1>5 DEF KeepWheels
  <2>3. boot.at = "wheels" /\ boot'.last = "running" /\ host' = host BY <1>5 DEF KeepWheels
  <2> QED BY <2>1, <2>2, <2>3
<1>6. CASE MakeVenv BY <1>6 DEF MakeVenv
<1>7. CASE Install
  <2>1. HostOK'
    <3>1. /\ host' = [host EXCEPT !.runtime = host.wheels[boot.of], !.staging = @ \ {boot.of}]
          /\ boot.of \in Candidates
          /\ host.wheels[boot.of] # "partial"
      BY <1>7 DEF Install
    <3>2. host.wheels[boot.of] \in Archives \union {Absent} BY <3>1
    <3> QED BY <3>1, <3>2
  <2>2. BootOK' BY <1>7 DEF Install
  <2>3. Built' BY <1>7 DEF Install
  <2>4. Startable' BY <1>7 DEF Install
  <2>5. AppliedIsWhole' BY <1>7 DEF Install
  <2> QED BY <2>1, <2>2, <2>3, <2>4, <2>5
<1>8. CASE KeepRuntime
  <2>1. BootOK' BY <1>8 DEF KeepRuntime
  <2>2. Built' BY <1>8 DEF KeepRuntime
  <2>3. boot.at = "venv" /\ boot'.last = "running" /\ host' = host BY <1>8 DEF KeepRuntime
  <2> QED BY <2>1, <2>2, <2>3
<1>9. CASE Builder BY <1>9 DEF Builder
<1>10. CASE Config
  <2>1. HostOK' BY <1>10 DEF Config
  <2>2. BootOK' BY <1>10 DEF Config
  <2>3. Built' BY <1>10 DEF Config
  <2>4. Startable' BY <1>10 DEF Config
  <2>5. AppliedIsWhole' BY <1>10 DEF Config
  <2> QED BY <2>1, <2>2, <2>3, <2>4, <2>5
<1>11. CASE Prompts BY <1>11 DEF Prompts
<1>12. CASE KeepPrompts
  <2>1. BootOK' BY <1>12 DEF KeepPrompts
  <2>2. Built' BY <1>12 DEF KeepPrompts
  <2>3. boot.at = "prompts" /\ boot'.last = "running" /\ host' = host BY <1>12 DEF KeepPrompts
  <2> QED BY <2>1, <2>2, <2>3
<1>13. CASE AppendResource
  <2>1. HostOK' BY <1>13 DEF AppendResource
  <2>2. BootOK' BY <1>13 DEF AppendResource
  <2>3. Built' BY <1>13 DEF AppendResource
  <2>4. Startable' BY <1>13 DEF AppendResource
  <2>5. AppliedIsWhole' BY <1>13 DEF AppendResource
  <2> QED BY <2>1, <2>2, <2>3, <2>4, <2>5
<1>14. CASE BootCopies BY <1>14 DEF BootCopies
<1>15. CASE Link BY <1>15 DEF Link
<1>16. CASE EmptyMarker BY <1>16 DEF EmptyMarker
<1>17. CASE Mark BY <1>17 DEF Mark
<1>18. CASE HomePlist BY <1>18 DEF HomePlist
<1>19. CASE TunnelPlist BY <1>19 DEF TunnelPlist
<1>20. CASE StartShadow
  <2>1. HostOK' BY <1>20 DEF StartShadow
  <2>2. BootOK' BY <1>20 DEF StartShadow
  <2>3. Built' BY <1>20 DEF StartShadow
  <2>4. Startable' BY <1>20 DEF StartShadow
  <2>5. AppliedIsWhole' BY <1>20 DEF StartShadow
  <2> QED BY <2>1, <2>2, <2>3, <2>4, <2>5
<1>21. CASE StopShadow
  <2>1. HostOK' BY <1>21 DEF StopShadow
  <2>2. BootOK' BY <1>21 DEF StopShadow
  <2>3. Built' BY <1>21 DEF StopShadow
  <2>4. Startable' BY <1>21 DEF StopShadow
  <2>5. AppliedIsWhole' BY <1>21 DEF StopShadow
  <2> QED BY <2>1, <2>2, <2>3, <2>4, <2>5
<1> QED BY <1>1, <1>2, <1>3, <1>4, <1>5, <1>6, <1>7, <1>8, <1>9, <1>10, <1>11, <1>12, <1>13, <1>14,
          <1>15, <1>16, <1>17, <1>18, <1>19, <1>20, <1>21 DEF BootStep

\* What a step that is cut off leaves fits together as well as what it met.
LEMMA TornFits ==
  ASSUME BootInv, boot.at # "idle", NEW h \in Torn
  PROVE  /\ h \in [repo : Candidates \union {Absent, "partial"}, releases : SUBSET Candidates,
                   wheels : [Candidates -> Archives \union {Absent, "partial"}],
                   staging : SUBSET Candidates, runtime : Archives \union {Absent},
                   builder : Archives \union {Absent},
                   config : [of : Candidates \union {Absent}, resource : BOOLEAN],
                   prompts : Candidates \union {Absent}, current : Candidates \union {Absent},
                   marker : Candidates \union {Absent, "empty"}, plists : SUBSET {"home", "tunnel"},
                   shadow : BOOLEAN]
         /\ h.releases = host.releases /\ h.runtime = host.runtime /\ h.config = host.config
         /\ h.prompts = host.prompts /\ h.current = host.current /\ h.marker = host.marker
         /\ h.plists \subseteq host.plists
         /\ h.shadow = host.shadow
         /\ host.plists # {} => h.plists # {}
<1> USE DEF BootInv, HostOK, BootOK
<1>1. CASE h = host BY <1>1
<1>2. CASE boot.at = "repo" /\ h = [host EXCEPT !.repo = "partial"] BY <1>2
<1>3. CASE /\ boot.at = "wheels"
           /\ h = [host EXCEPT !.wheels[boot.of] = IF @ = Absent THEN "partial" ELSE @]
  BY <1>3
<1>4. CASE boot.at = "tunnel_plist" /\ h = [host EXCEPT !.plists = @ \ {"tunnel"}]
  BY <1>4 DEF Built, AfterHome, AfterTunnel
<1> QED BY <1>1, <1>2, <1>3, <1>4 DEF Torn

LEMMA BootInvEnds ==
  ASSUME BootInv, BootFails \/ BootKilled
  PROVE  BootInv'
<1>1. boot.at # "idle" BY DEF BootFails, BootKilled
<1>2. PICK h \in Torn : host' = h \/ host' = [h EXCEPT !.shadow = h.shadow /\ boot.at # "smoke"]
  BY DEF BootFails, BootKilled
<1>3. /\ boot'.at = "idle" /\ boot'.last \in {"refused", "killed"}
      /\ BootOK'
  BY DEF BootFails, BootKilled, BootInv, BootOK
<1>4. HostOK' BY <1>1, <1>2, TornFits DEF HostOK
<1>5. Startable' BY <1>1, <1>2, TornFits DEF BootInv, Startable
<1>6. Built' BY <1>3
  DEF Built, AfterRepo, AfterRelease, AfterWheels, AfterCheck, AfterInstall, AfterBuilder, AfterConfig,
      AfterPrompts, AfterAppend, AfterData, AfterLink, AfterEmpty, AfterMark, AfterHome, AfterTunnel,
      AfterShadow
<1> QED BY <1>3, <1>4, <1>5, <1>6 DEF BootInv, AppliedIsWhole

LEMMA BootInvBegins ==
  ASSUME BootInv, NEW c \in Candidates, NEW a \in Archives, BeginBoot(c, a)
  PROVE  BootInv'
BY DEF BeginBoot, BootInv, HostOK, BootOK, Built, Startable, AppliedIsWhole, AfterRepo, AfterRelease,
       AfterWheels, AfterCheck, AfterInstall, AfterBuilder, AfterConfig, AfterPrompts, AfterAppend,
       AfterData, AfterLink, AfterEmpty, AfterMark, AfterHome, AfterTunnel, AfterShadow

LEMMA BootInvStays ==
  ASSUME BootInv, UNCHANGED bootVars
  PROVE  BootInv'
BY DEF BootInv, HostOK, BootOK, Built, Startable, AppliedIsWhole, bootVars

LEMMA BootInvNext ==
  ASSUME BootInv, [BootstrapNext]_vars
  PROVE  BootInv'
BY BootInvStep, BootInvEnds, BootInvBegins, BootInvStays
DEF BootstrapNext, CheckHost, CutoverStep, vars

LEMMA BootInvInit ==
  ASSUME BootstrapInit
  PROVE  BootInv
<1>1. boot = NoBoot BY DEF BootstrapInit
<1>2. BootOK /\ Built /\ AppliedIsWhole
  <2>1. BlankHost.shadow = FALSE BY DEF BlankHost
  <2>2. \A c \in Candidates, a \in Archives : BootstrappedHost(c, a).shadow = FALSE
    BY DEF BootstrappedHost, BlankHost
  <2>3. host.shadow = FALSE BY <2>1, <2>2 DEF BootstrapInit
  <2> QED BY <1>1, <2>3
      DEF NoBoot, BootOK, Built, AppliedIsWhole, AfterRepo, AfterRelease, AfterWheels, AfterCheck,
          AfterInstall, AfterBuilder, AfterConfig, AfterPrompts, AfterAppend, AfterData, AfterLink,
          AfterEmpty, AfterMark, AfterHome, AfterTunnel, AfterShadow
<1>3. HostOK /\ Startable
  <2>1. CASE host = BlankHost BY <2>1 DEF BlankHost, HostOK, Startable
  <2>2. ASSUME NEW c \in Candidates, NEW a \in Archives, host = BootstrappedHost(c, a)
        PROVE  HostOK /\ Startable
    BY <2>2, BootstrapAssumption DEF BootstrappedHost, BlankHost, HostOK, Startable
  <2> QED BY <2>1, <2>2 DEF BootstrapInit
<1> QED BY <1>2, <1>3 DEF BootInv

LEMMA BootInvHolds == BootstrapSpec => []BootInv
<1>1. BootstrapInit => BootInv BY BootInvInit
<1>2. BootInv /\ [BootstrapNext]_vars => BootInv' BY BootInvNext
<1> QED BY <1>1, <1>2, PTL DEF BootstrapSpec

\* A run that says applied has made every part, but those it says it found; and
\* however many runs failed or were killed at any step, what a plist names can be
\* started, and only a run that was killed holds the port of the shadow.
THEOREM BootstrapKeepsWord == BootstrapSpec => []BootstrapIsSound
<1>1. BootInv => BootstrapIsSound
  BY BootstrapAssumption DEF BootInv, BootOK, Startable, BootstrapIsSound, PlistsCanStart
<1> QED BY <1>1, BootInvHolds, PTL

-------------------------------------------------------------------------------
(* The cutovers around it.                                                 *)

\* The bootstrap runs while no cutover does.
Alone == boot.at # "idle" => Quiet

CutoversOK ==
  /\ CutoverInv
  /\ ~ overlapped => Copied
  /\ Alone

LEMMA ScriptsMove ==
  ASSUME CutoversOK, BootInv, [BootstrapNext]_vars
  PROVE  \/ Moves /\ boot.at = "idle" /\ UNCHANGED bootVars
         \/ \E f \in Files : (UserWrite(f) \/ UserRemove(f)) /\ UNCHANGED bootVars
         \/ /\ UNCHANGED <<loaded, source, scriptVars>>
            /\ copy' = copy \/ boot.at # "idle"
            /\ boot' = boot \/ Quiet
<1>1. CASE \E c \in Candidates, a \in Archives : BeginBoot(c, a)
  BY <1>1 DEF BeginBoot, cutoverVars, dataVars
<1>2. CASE BootStep
  <2>1. boot.at # "idle"
    BY <1>2 DEF BootStep, Does, Keeps, Checkout, Release, Extract, OnlyWheels, KeepWheels, MakeVenv,
       Install, KeepRuntime, Builder, Config, Prompts, KeepPrompts, AppendResource, BootCopies, Link,
       EmptyMarker, Mark, HomePlist, TunnelPlist, StartShadow, StopShadow
  <2>2. UNCHANGED <<loaded, source, scriptVars>>
    BY <1>2 DEF BootStep, Does, Keeps, Checkout, Release, Extract, OnlyWheels, KeepWheels, MakeVenv,
       Install, KeepRuntime, Builder, Config, Prompts, KeepPrompts, AppendResource, BootCopies, Link,
       EmptyMarker, Mark, HomePlist, TunnelPlist, StartShadow, StopShadow, cutoverVars, dataVars
  <2> QED BY <2>1, <2>2 DEF CutoversOK, Alone
<1>3. CASE BootFails \/ BootKilled BY <1>3 DEF BootFails, BootKilled, CutoversOK, Alone
<1>4. CASE UNCHANGED vars BY <1>4 DEF vars, cutoverVars, dataVars, bootVars
<1>5. ASSUME NEW s \in Scripts, CheckHost(s) \/ CutoverStep(s) \/ (Kill(s) /\ UNCHANGED bootVars)
      PROVE  Moves /\ boot.at = "idle" /\ UNCHANGED bootVars
  <2>1. CASE CheckHost(s) BY <2>1 DEF CheckHost, Moves
  <2>2. CASE CutoverStep(s) \/ (Kill(s) /\ UNCHANGED bootVars)
    <3>1. at[s] \notin {"new", "done"}
      BY <2>2 DEF CutoverStep, ScriptStep, Arm, StopTunnel, StopHome, Stop, CopyData, StartHome, Start,
         CheckHome, StartTunnel, CheckTunnel, Out, HomeBack, TunnelBack, Back, Doubled, Kill, Armed
    <3>2. boot.at = "idle" BY <3>1 DEF CutoversOK, Alone, Quiet
    <3> QED BY <2>2, <3>2 DEF Moves, CutoverStep
  <2> QED BY <1>5, <2>1, <2>2
<1> QED BY <1>1, <1>2, <1>3, <1>4, <1>5 DEF BootstrapNext

LEMMA CutoversStep ==
  ASSUME CutoversOK, BootInv, [BootstrapNext]_vars
  PROVE  CutoversOK' /\ TrueReport
<1>1. CASE Moves /\ boot.at = "idle" /\ UNCHANGED bootVars
  <2>1. CutoverInv' /\ (~ overlapped => Copied)' /\ TrueReport
    BY <1>1, InvMoves, CopiedMoves, ReportMoves DEF CutoversOK
  <2>2. Alone' BY <1>1 DEF Alone, bootVars
  <2> QED BY <2>1, <2>2 DEF CutoversOK
<1>2. CASE \E f \in Files : (UserWrite(f) \/ UserRemove(f)) /\ UNCHANGED bootVars
  <2>1. UNCHANGED <<loaded, scriptVars, bootVars>> BY <1>2 DEF UserWrite, UserRemove
  <2>2. CutoverInv' /\ (~ overlapped => Copied)'
    BY <1>2, <2>1, InvStays, CopiedWrites DEF CutoversOK
  <2>3. Alone' BY <2>1 DEF CutoversOK, Alone, Quiet, bootVars, scriptVars
  <2>4. TrueReport BY <2>1 DEF TrueReport, Ends, scriptVars
  <2> QED BY <2>2, <2>3, <2>4 DEF CutoversOK
<1>3. CASE /\ UNCHANGED <<loaded, source, scriptVars>>
           /\ copy' = copy \/ boot.at # "idle"
           /\ boot' = boot \/ Quiet
  <2>1. CutoverInv' BY <1>3, InvStays DEF CutoversOK
  <2>2. (~ overlapped => Copied)'
    <3>1. CASE copy' = copy BY <1>3, <3>1 DEF CutoversOK, Copied, scriptVars
    <3>2. CASE Quiet BY <1>3, <3>2 DEF Copied, Quiet, Forward, scriptVars
    <3> QED BY <1>3, <3>1, <3>2 DEF CutoversOK, Alone
  <2>3. Alone' BY <1>3 DEF CutoversOK, Alone, Quiet, scriptVars
  <2>4. TrueReport BY <1>3 DEF TrueReport, Ends, scriptVars
  <2> QED BY <2>1, <2>2, <2>3, <2>4 DEF CutoversOK
<1> QED BY <1>1, <1>2, <1>3, ScriptsMove

LEMMA CutoversInit ==
  ASSUME BootstrapInit
  PROVE  CutoversOK
<1>1. /\ loaded = UserJobs
      /\ at \in [Scripts -> {"new", "done"}]
      /\ report = [s \in Scripts |-> "none"]
      /\ missed = FALSE /\ overlapped = FALSE
      /\ boot = NoBoot
  BY DEF BootstrapInit
<1>2. CutoverInv
  BY <1>1 DEF CutoverInv, PlacesOK, OneArmed, Going, ServicesApart, Armed, Forward, Backward, Steps,
     Reports, UserJobs, SystemJobs
<1>3. Copied BY <1>1 DEF Copied, Forward
<1> QED BY <1>1, <1>2, <1>3 DEF CutoversOK, Alone, NoBoot

LEMMA CutoversHold == BootstrapSpec => [](CutoversOK /\ BootInv)
<1>1. BootstrapInit => CutoversOK BY CutoversInit
<1>2. CutoversOK /\ BootInv /\ [BootstrapNext]_vars => CutoversOK' BY CutoversStep
<1> QED BY <1>1, <1>2, BootInvHolds, PTL DEF BootstrapSpec

\* Cutovers on a host that is bootstrapped again between them, for another candidate
\* and with any failures, never have the two Homes up together,
THEOREM BootstrappedServicesStayApart == BootstrapSpec => []NoSplitService
<1>1. CutoversOK => NoSplitService BY InvHolds DEF CutoversOK
<1> QED BY <1>1, CutoversHold, PTL

\* and report what they leave; the data that a bootstrap copies meanwhile does no
\* harm, as it runs while no cutover does.
THEOREM BootstrappedReportsAreTrue == BootstrapSpec => ReportIsTrue
<1>1. CutoversOK /\ BootInv /\ [BootstrapNext]_vars => [TrueReport]_cutoverVars BY CutoversStep
<1> QED BY <1>1, CutoversHold, PTL DEF BootstrapSpec, ReportIsTrue, TrueReport

--------------------------------------------------------------------------------
(* The administration helper.                                              *)

Reviewing == {"prepare", "grant", "pend"}
Executing == {"verify", "consume", "launch", "wait", "result"}

\* What is pending, consumed, handled or run was requested.
RequestsKnown ==
  /\ \A k \in Kinds : pending[k] # None => pending[k] \in Requests /\ pending[k].kind = k
  /\ consumed \subseteq Requests
  /\ \A c \in commands : c.op \in consumed
  /\ \A p \in Helpers : pc[p] \in Reviewing \union Executing => job[p] \in Requests

\* A reviewed operation has its id for itself, also against the one under review.
IdsUsedOnce ==
  /\ \A op \in Reviewed : op.id \in material
  /\ \A one, other \in Reviewed : one.id = other.id => one = other
  /\ \A k \in Kinds : pending[k] \notin consumed
  /\ \A p \in Helpers : pc[p] \in Reviewing =>
       /\ pending[job[p].kind] = None
       /\ job[p].id \in material
       /\ \A op \in Reviewed : op.id # job[p].id

\* What is started was consumed before, and has one command at most.
StartedOnce ==
  /\ \A id \in Ids : started[id] \in {0, 1}
  /\ \A id \in Ids : started[id] # 0 => \E op \in consumed : op.id = id
  /\ \A c \in commands : started[c.op.id] = 1
  /\ \A one, other \in commands : one.op = other.op => one = other
  /\ \A p \in Helpers :
       /\ pc[p] \in {"verify", "consume"} => pending[job[p].kind] = job[p]
       /\ pc[p] \in {"launch", "wait", "result"} => job[p] \in consumed
       /\ pc[p] = "launch" => started[job[p].id] = 0
       /\ pc[p] \in {"wait", "result"} => started[job[p].id] = 1

\* The operation did its work.
Done(op) ==
  IF op.kind = "cutover" THEN at[op.id] = "done" /\ report[op.id] = "applied" ELSE op.id \in spent

\* A command has its helper, or is known to have lost it, and completes when it did
\* its work.
CommandsOK ==
  \A c \in commands :
    /\ c.waiter # None => pc[c.waiter] = "wait" /\ job[c.waiter] = c.op
    /\ c.waiter = None => c.op \in orphaned /\ Alive(c)
    /\ c.phase = "moved" => c.op.kind # "cutover" /\ c.op.id \in spent
    /\ c.phase = "completed" => Done(c.op)

\* What the journal is promised of a record, and what keeps it so.
Truthful(e) ==
  /\ \E op \in Reviewed : op.id = e.id
  /\ e.result = "completed" =>
       /\ e.id \in results
       /\ started[e.id] = 1
       /\ \E op \in consumed : op.id = e.id /\ op.kind = e.kind /\ Done(op)

RecordOK(p) ==
  /\ pc[p] \in Executing => record[p] = Entry(job[p].kind, job[p].id, "error", "not_requested")
  /\ pc[p] \in Reviewing => record[p] = Entry("review", None, "error", "not_requested")
  /\ pc[p] = "result" => Done(job[p])
  /\ pc[p] = "audit" => /\ record[p] \in Records
                        /\ record[p].result = "error" \/ Truthful(record[p])

RecordsOK == \A p \in Helpers : RecordOK(p)

JournalOK == \A e \in journal : Truthful(e)

\* A release that is no longer the reviewed one was moved by an orphan.
Drifted ==
  \A p \in Helpers :
    pc[p] \in {"verify", "consume", "launch"} /\ job[p].kind # "deploy" /\ current # job[p].candidate =>
      \E o \in orphaned : o.kind # "cutover" /\ current = Production!To(Approval(o))

HostInv ==
  /\ AdminTypeOK
  /\ RequestsKnown
  /\ IdsUsedOnce
  /\ StartedOnce
  /\ CommandsOK
  /\ RecordsOK
  /\ JournalOK
  /\ Drifted
  /\ CutoverInv

-------------------------------------------------------------------------------
(* The steps of the host.                                                  *)

\* A step of a command of the promotion adapter, and of the cutover script.
Promotes == \E c \in commands : (Move(c) \/ ExitPromote(c)) /\ UNCHANGED cutoverVars
Exits == \E c \in commands : ScriptExits(c)
Scripted == Moves /\ UNCHANGED adminVars

HelperActs(p) ==
  \/ \E op \in Requests : StartReview(p, op)
  \/ \E kind \in Kinds : StartExecute(p, kind)
  \/ Prepare(p) \/ Grant(p) \/ Pend(p) \/ Verify(p) \/ Consume(p) \/ Launch(p)
  \/ Collect(p) \/ WriteResult(p) \/ Audit(p) \/ Crash(p)

LEMMA HostSteps ==
  ASSUME RequestsKnown, [HostNext]_hostedVars
  PROVE  \/ \E p \in Helpers : HelperActs(p) /\ UNCHANGED cutoverVars
         \/ Promotes
         \/ Exits
         \/ Scripted
         \/ \E kind \in Kinds : Expire(kind) /\ UNCHANGED cutoverVars
         \/ UNCHANGED hostedVars
<1>1. ASSUME NEW c \in commands, Script(c) \/ ScriptDies(c) PROVE Scripted
  <2>1. c.op.id \in Scripts
    BY <1>1, HostAssumption DEF RequestsKnown, Script, ScriptDies
  <2> QED BY <1>1, <2>1 DEF Script, ScriptDies, Scripted, Moves
<1> QED
  BY <1>1 DEF HostNext, Helper, HelperStep, HelperActs, Promotion, Promotes, Exits, Surroundings

-------------------------------------------------------------------------------
(* Types.                                                                  *)

LEMMA RecordsHaveType ==
  ASSUME HostInv, NEW p \in Helpers, pc[p] # "idle"
  PROVE  record[p] \in Records
  BY AdminAssumption DEF HostInv, AdminTypeOK, RecordsOK, RecordOK, RequestsKnown, Reviewing, Executing, Labels,
     Entry, Records, Operations

\* The end of an invocation, and a step within it, as far as types go.
CallTypeOK ==
  /\ lock \in Helpers \union {None}
  /\ pc \in [Helpers -> Labels]
  /\ job \in [Helpers -> Operations \union {None}]
  /\ record \in [Helpers -> Records \union {None}]
  /\ \A p \in Helpers : pc[p] # "idle" <=> lock = p

LEMMA GotoTypes ==
  ASSUME HostInv, NEW p \in Helpers, pc[p] # "idle", NEW label \in Labels \ {"idle"}, Goto(p, label)
  PROVE  CallTypeOK'
  BY DEF HostInv, AdminTypeOK, CallTypeOK, Goto

LEMMA FinishTypes ==
  ASSUME HostInv, NEW p \in Helpers, pc[p] # "idle",
         NEW result \in {"error", "reviewed", "completed"},
         NEW rollback \in {"not_requested", "required", "completed"},
         Finish(p, result, rollback)
  PROVE  CallTypeOK'
<1>1. record[p] \in Records BY RecordsHaveType
<1>2. [record[p] EXCEPT !.result = result, !.rollback = rollback] \in Records BY <1>1 DEF Records
<1>3. record' \in [Helpers -> Records \union {None}]
  BY <1>2 DEF Finish, HostInv, AdminTypeOK
<1> QED BY <1>3 DEF HostInv, AdminTypeOK, CallTypeOK, Finish, Labels

LEMMA LeaveTypes ==
  ASSUME HostInv, NEW p \in Helpers, pc[p] # "idle", Leave(p)
  PROVE  CallTypeOK'
<1>1. lock = p /\ \A q \in Helpers \ {p} : pc[q] = "idle" BY DEF HostInv, AdminTypeOK
<1> QED BY <1>1, AdminAssumption DEF HostInv, AdminTypeOK, CallTypeOK, Leave, Labels

LEMMA EnterTypes ==
  ASSUME HostInv, NEW p \in Helpers, NEW label \in Labels \ {"idle"}, NEW op \in Operations \union {None},
         NEW entry \in Records, Enter(p, label, op, entry)
  PROVE  CallTypeOK'
<1>1. \A q \in Helpers : pc[q] = "idle" BY AdminAssumption DEF HostInv, AdminTypeOK, Enter
<1> QED BY <1>1, AdminAssumption DEF HostInv, AdminTypeOK, CallTypeOK, Enter

LEMMA TypeOfHelper ==
  ASSUME HostInv, NEW p \in Helpers, HelperActs(p)
  PROVE  AdminTypeOK'
<1> USE AdminAssumption
    DEF HostInv, AdminTypeOK, requestVars, hostVars, storeVars, runVars, callVars
<1>1. ASSUME NEW op \in Requests, StartReview(p, op) PROVE AdminTypeOK'
  <2>1. CallTypeOK'
    BY <1>1, EnterTypes DEF StartReview, Entry, Records, Labels
  <2> QED BY <1>1, <2>1 DEF StartReview, CallTypeOK, Operations
<1>2. ASSUME NEW kind \in Kinds, StartExecute(p, kind) PROVE AdminTypeOK'
  <2>1. CallTypeOK'
    BY <1>2, EnterTypes DEF StartExecute, Entry, Loadable, Records, Operations, Labels
  <2> QED BY <1>2, <2>1 DEF StartExecute, CallTypeOK
<1>3. CASE Prepare(p)
  <2>1. CallTypeOK' BY <1>3, GotoTypes, FinishTypes DEF Prepare, Deny, Labels
  <2> QED BY <1>3, <2>1 DEF Prepare, CallTypeOK, RequestsKnown, Reviewing, Operations
<1>4. CASE Grant(p)
  <2>1. CallTypeOK' BY <1>4, GotoTypes, FinishTypes DEF Grant, Deny, Labels
  <2>2. job[p].id \in Ids /\ Approval(job[p]) \in Production!Approvals
    BY <1>4 DEF Grant, RequestsKnown, Reviewing, Operations, Approval, Production!Approvals
  <2>3. granted' \subseteq granted \union {<<job[p].id, Approval(job[p])>>} /\ UNCHANGED <<current, spent>>
    BY <1>4 DEF Grant, Production!Grant
  <2> QED BY <1>4, <2>1, <2>2, <2>3 DEF Grant, CallTypeOK
<1>5. CASE Pend(p)
  <2>1. CASE Deny(p) /\ UNCHANGED pending
    <3>1. CallTypeOK' BY <1>5, <2>1, FinishTypes DEF Pend, Deny
    <3> QED BY <1>5, <2>1, <3>1 DEF Pend, CallTypeOK
  <2>2. CASE ~ (Deny(p) /\ UNCHANGED pending)
    <3>1. job[p] \in Operations /\ pc[p] = "pend" BY <1>5 DEF Pend, RequestsKnown, Reviewing
    <3>2. /\ pending' = [pending EXCEPT ![job[p].kind] = job[p]]
          /\ pc' = [pc EXCEPT ![p] = "audit"]
          /\ record' = [record EXCEPT ![p] = Entry("review", job[p].id, "reviewed", "not_requested")]
          /\ UNCHANGED <<lock, job>>
      BY <1>5, <2>2 DEF Pend
    <3>3. Entry("review", job[p].id, "reviewed", "not_requested") \in Records
      BY <3>1 DEF Entry, Records, Operations
    <3>4. CallTypeOK' BY <3>1, <3>2, <3>3 DEF CallTypeOK, Labels
    <3> QED BY <1>5, <3>1, <3>2, <3>4 DEF Pend, CallTypeOK
  <2> QED BY <2>1, <2>2
<1>6. CASE Verify(p)
  <2>1. CallTypeOK' BY <1>6, GotoTypes, FinishTypes DEF Verify, Deny, Labels
  <2> QED BY <1>6, <2>1 DEF Verify, CallTypeOK
<1>7. CASE Consume(p)
  <2>1. CallTypeOK' BY <1>7, GotoTypes DEF Consume, Labels
  <2> QED BY <1>7, <2>1 DEF Consume, CallTypeOK, RequestsKnown, Executing, Operations
<1>8. CASE Launch(p)
  <2>1. CallTypeOK' BY <1>8, GotoTypes DEF Launch, Labels
  <2> QED BY <1>8, <2>1 DEF Launch, CallTypeOK, RequestsKnown, Executing, Operations, Commands
<1>9. CASE Collect(p)
  <2>1. CallTypeOK' BY <1>9, GotoTypes, FinishTypes DEF Collect, Deny, Labels
  <2> QED BY <1>9, <2>1 DEF Collect, CallTypeOK
<1>10. CASE WriteResult(p)
  <2>1. CallTypeOK' BY <1>10, FinishTypes DEF WriteResult
  <2> QED BY <1>10, <2>1 DEF WriteResult, CallTypeOK, RequestsKnown, Executing, Operations
<1>11. CASE Audit(p)
  <2>1. CallTypeOK' BY <1>11, LeaveTypes DEF Audit
  <2>2. record[p] \in Records BY <1>11, RecordsHaveType DEF Audit
  <2> QED BY <1>11, <2>1, <2>2 DEF Audit, CallTypeOK
<1>12. CASE Crash(p)
  <2>1. CallTypeOK' BY <1>12, LeaveTypes DEF Crash
  <2>2. commands' \subseteq Commands
    <3>1. \A c \in commands : [c EXCEPT !.waiter = None] \in Commands BY DEF Commands
    <3> QED BY <1>12, <3>1 DEF Crash
  <2>3. orphaned' \subseteq Operations BY <1>12 DEF Crash, Commands
  <2> QED BY <1>12, <2>1, <2>2, <2>3 DEF Crash, CallTypeOK
<1> QED BY <1>1, <1>2, <1>3, <1>4, <1>5, <1>6, <1>7, <1>8, <1>9, <1>10, <1>11, <1>12 DEF HelperActs

LEMMA BecomesTypes ==
  ASSUME HostInv, NEW c \in commands, NEW phase \in {"running", "moved", "completed", "stopped", "failed"},
         Becomes(c, phase)
  PROVE  commands' \subseteq Commands
<1>1. [c EXCEPT !.phase = phase] \in Commands BY DEF HostInv, AdminTypeOK, Commands
<1> QED BY <1>1 DEF HostInv, AdminTypeOK, Becomes

\* Commands change production along approvals, and nothing else.
LEMMA TypeOfPromotion ==
  ASSUME HostInv, NEW c \in commands, Move(c) \/ ExitPromote(c)
  PROVE  AdminTypeOK'
<1> USE DEF HostInv, AdminTypeOK, requestVars, callVars
<1>1. c.op \in Operations /\ c.op.id \in Ids BY DEF Commands, Operations
<1>2. commands' \subseteq Commands BY BecomesTypes DEF Move, ExitPromote
<1>3. CASE Move(c)
  <2>1. Production!To(Approval(c.op)) \in Builds
    BY <1>1 DEF Production!To, Approval, Operations
  <2> QED BY <1>1, <1>2, <1>3, <2>1 DEF Move, Production!Move
<1>4. CASE ExitPromote(c)
  <2>1. current' \in Builds /\ granted' = granted /\ spent' \subseteq Ids
    BY <1>1, <1>4 DEF ExitPromote, Production!Waste, storeVars
  <2> QED BY <1>2, <1>4, <2>1 DEF ExitPromote
<1> QED BY <1>3, <1>4

LEMMA HostTypeStep ==
  ASSUME HostInv, [HostNext]_hostedVars
  PROVE  AdminTypeOK'
<1>1. CASE \E p \in Helpers : HelperActs(p) /\ UNCHANGED cutoverVars BY <1>1, TypeOfHelper
<1>2. CASE Promotes BY <1>2, TypeOfPromotion DEF Promotes
<1>3. CASE Exits
  <2>1. PICK c \in commands : ScriptExits(c) BY <1>3 DEF Exits
  <2>2. commands' \subseteq Commands BY <2>1, BecomesTypes DEF ScriptExits, ExitCutover
  <2> QED
    BY <2>1, <2>2
    DEF ScriptExits, ExitCutover, HostInv, AdminTypeOK, hostVars, storeVars, requestVars, callVars
<1>4. CASE \E kind \in Kinds : Expire(kind)
  BY <1>4, AdminAssumption DEF Expire, HostInv, AdminTypeOK, Operations, hostVars, storeVars, runVars, callVars
<1>5. CASE UNCHANGED adminVars BY <1>5 DEF HostInv, AdminTypeOK, adminVars
<1> QED BY <1>1, <1>2, <1>3, <1>4, <1>5, HostSteps DEF HostInv, Scripted, hostedVars

-------------------------------------------------------------------------------
(* The steps of a helper.                                                  *)

\* The lock keeps the other helpers out.
LEMMA OthersIdle ==
  ASSUME HostInv, NEW p \in Helpers, HelperActs(p)
  PROVE  \A q \in Helpers \ {p} : pc[q] = "idle" /\ pc'[q] = "idle"
<1> USE AdminAssumption DEF HostInv, AdminTypeOK
<1>1. \A q \in Helpers \ {p} : pc[q] = "idle"
  <2>1. CASE pc[p] # "idle" BY <2>1
  <2>2. CASE pc[p] = "idle"
    BY <2>2
    DEF HelperActs, StartReview, StartExecute, Enter, Prepare, Grant, Pend, Verify, Consume, Launch,
        Collect, WriteResult, Audit, Crash
  <2> QED BY <2>1, <2>2
<1>2. \A q \in Helpers \ {p} : pc'[q] = pc[q]
  BY DEF HelperActs, StartReview, StartExecute, Enter, Prepare, Grant, Pend, Verify, Consume, Launch,
         Collect, WriteResult, Audit, Crash, Goto, Deny, Finish, Leave
<1> QED BY <1>1, <1>2

LEMMA RequestsOfHelper ==
  ASSUME HostInv, NEW p \in Helpers, HelperActs(p)
  PROVE  RequestsKnown'
<1>0. \A q \in Helpers \ {p} : pc[q] = "idle" /\ pc'[q] = "idle" BY OthersIdle
<1> USE AdminAssumption, <1>0 DEF HostInv, AdminTypeOK, requestVars, hostVars, storeVars, runVars, callVars, Labels, RequestsKnown, Reviewing, Executing, Kinds
<1>1. ASSUME NEW op \in Requests, StartReview(p, op) PROVE RequestsKnown'
  BY <1>1 DEF StartReview, Enter, Unused
<1>2. ASSUME NEW kind \in Kinds, StartExecute(p, kind) PROVE RequestsKnown'
  BY <1>2 DEF StartExecute, Enter, Loadable
<1>3. CASE Prepare(p) BY <1>3 DEF Prepare, Goto, Deny, Finish
<1>4. CASE Grant(p) BY <1>4 DEF Grant, Goto, Deny, Finish, Production!Grant
<1>5. CASE Pend(p) BY <1>5 DEF Pend, Deny, Finish, Entry
<1>6. CASE Verify(p) BY <1>6 DEF Verify, Goto, Deny, Finish
<1>7. CASE Consume(p) BY <1>7 DEF Consume, Goto
<1>8. CASE Launch(p)
  <2>1. \A c \in commands' : c \in commands \/ c.op = job[p] BY <1>8 DEF Launch
  <2>2. job[p] \in consumed BY <1>8 DEF Launch, StartedOnce
  <2> QED BY <1>8, <2>1, <2>2 DEF Launch, Goto
<1>9. CASE Collect(p) BY <1>9 DEF Collect, Goto, Deny, Finish
<1>10. CASE WriteResult(p) BY <1>10 DEF WriteResult, Finish
<1>11. CASE Audit(p) BY <1>11 DEF Audit, Leave
<1>12. CASE Crash(p)
  <2>1. \A c \in commands' : \E x \in commands : c.op = x.op BY <1>12 DEF Crash, Commands
  <2>2. \A c \in commands' : c.op \in consumed BY <2>1
  <2> QED BY <1>12, <2>2 DEF Crash, Leave
<1> QED BY <1>1, <1>2, <1>3, <1>4, <1>5, <1>6, <1>7, <1>8, <1>9, <1>10, <1>11, <1>12 DEF HelperActs

LEMMA IdsOfHelper ==
  ASSUME HostInv, NEW p \in Helpers, HelperActs(p)
  PROVE  IdsUsedOnce'
<1>0. \A q \in Helpers \ {p} : pc[q] = "idle" /\ pc'[q] = "idle" BY OthersIdle
<1> USE AdminAssumption, <1>0 DEF HostInv, AdminTypeOK, requestVars, hostVars, storeVars, runVars, callVars, Labels, RequestsKnown, IdsUsedOnce, Reviewing, Executing, Kinds, Reviewed
<1>1. ASSUME NEW op \in Requests, StartReview(p, op) PROVE IdsUsedOnce'
  BY <1>1 DEF StartReview, Enter, Unused
<1>2. ASSUME NEW kind \in Kinds, StartExecute(p, kind) PROVE IdsUsedOnce'
  BY <1>2 DEF StartExecute, Enter, Loadable
<1>3. CASE Prepare(p) BY <1>3 DEF Prepare, Goto, Deny, Finish
<1>4. CASE Grant(p) BY <1>4 DEF Grant, Goto, Deny, Finish, Production!Grant
<1>5. CASE Pend(p) BY <1>5 DEF Pend, Deny, Finish, Entry
<1>6. CASE Verify(p) BY <1>6 DEF Verify, Goto, Deny, Finish
<1>7. CASE Consume(p)
  <2> DEFINE own == job[p]
  <2>1. own \in consumed' /\ own \in Requests /\ pending[own.kind] = own /\ own.kind \in Kinds
    BY <1>7 DEF Consume, StartedOnce, Operations
  <2>2. \A k \in Kinds : k # own.kind => pending[k] # own BY <2>1
  <2>3. consumed' = consumed \union {own} /\ pending' = [pending EXCEPT ![own.kind] = None]
    BY <1>7 DEF Consume
  <2>4. \A k \in Kinds : pending'[k] = IF k = own.kind THEN None ELSE pending[k] BY <2>3
  <2>5. Reviewed' = Reviewed BY <2>1, <2>2, <2>3, <2>4
  <2>6. \A k \in Kinds : pending'[k] \notin consumed' BY <2>1, <2>2, <2>3, <2>4
  <2>7. \A op \in Reviewed : op.id \in material BY DEF IdsUsedOnce
  <2>8. \A one, other \in Reviewed : one.id = other.id => one = other BY DEF IdsUsedOnce
  <2>9. material' = material /\ \A q \in Helpers : pc'[q] \notin Reviewing BY <1>7 DEF Consume, Goto
  <2> HIDE DEF Reviewed, Reviewing
  <2> QED BY <2>5, <2>6, <2>7, <2>8, <2>9 DEF IdsUsedOnce
<1>8. CASE Launch(p) BY <1>8 DEF Launch, Goto
<1>9. CASE Collect(p) BY <1>9 DEF Collect, Goto, Deny, Finish
<1>10. CASE WriteResult(p) BY <1>10 DEF WriteResult, Finish
<1>11. CASE Audit(p) BY <1>11 DEF Audit, Leave
<1>12. CASE Crash(p) BY <1>12 DEF Crash, Leave
<1> QED BY <1>1, <1>2, <1>3, <1>4, <1>5, <1>6, <1>7, <1>8, <1>9, <1>10, <1>11, <1>12 DEF HelperActs

LEMMA StartsOfHelper ==
  ASSUME HostInv, NEW p \in Helpers, HelperActs(p)
  PROVE  StartedOnce'
<1>0. \A q \in Helpers \ {p} : pc[q] = "idle" /\ pc'[q] = "idle" BY OthersIdle
<1> USE AdminAssumption, <1>0 DEF HostInv, AdminTypeOK, requestVars, hostVars, storeVars, runVars, callVars, Labels, RequestsKnown, IdsUsedOnce, StartedOnce, Reviewing, Executing, Kinds
<1>1. ASSUME NEW op \in Requests, StartReview(p, op) PROVE StartedOnce'
  BY <1>1 DEF StartReview, Enter, Unused
<1>2. ASSUME NEW kind \in Kinds, StartExecute(p, kind) PROVE StartedOnce'
  BY <1>2 DEF StartExecute, Enter, Loadable
<1>3. CASE Prepare(p) BY <1>3 DEF Prepare, Goto, Deny, Finish
<1>4. CASE Grant(p) BY <1>4 DEF Grant, Goto, Deny, Finish, Production!Grant
<1>5. CASE Pend(p) BY <1>5 DEF Pend, Deny, Finish, Entry
<1>6. CASE Verify(p) BY <1>6 DEF Verify, Goto, Deny, Finish
<1>7. CASE Consume(p)
  <2>1. job[p].id \in Ids /\ started[job[p].id] = 0 BY <1>7 DEF Consume, Operations
  <2> QED BY <1>7, <2>1 DEF Consume, Goto
<1>8. CASE Launch(p)
  <2> DEFINE id == job[p].id
  <2>1. id \in Ids /\ job[p] \in consumed /\ started[id] = 0 BY <1>8 DEF Launch, Operations
  <2>2. started' = [started EXCEPT ![id] = 1] BY <1>8, <2>1 DEF Launch
  <2>3. \A c \in commands : c.op \in Operations /\ c.op.id \in Ids /\ c.op.id # id
    BY <2>1 DEF Commands, Operations
  <2>4. \A c \in commands' : c \in commands \/ c = [op |-> job[p], waiter |-> p, phase |-> "running"]
    BY <1>8 DEF Launch
  <2>5. \A c \in commands' : started'[c.op.id] = 1 BY <2>1, <2>2, <2>3, <2>4
  <2>6. \A one, other \in commands' : one.op = other.op => one = other BY <2>3, <2>4
  <2>7. consumed' = consumed /\ job' = job /\ pc' = [pc EXCEPT ![p] = "wait"]
    BY <1>8 DEF Launch, Goto
  <2>8. \A i \in Ids : /\ started'[i] \in {0, 1}
                       /\ started'[i] # 0 => \E op \in consumed' : op.id = i
    BY <2>1, <2>2, <2>7
  <2>9. /\ pc'[p] = "wait" /\ started'[job'[p].id] = 1 /\ job'[p] \in consumed'
        /\ \A q \in Helpers \ {p} : pc'[q] = "idle"
    BY <2>1, <2>2, <2>7
  <2> QED BY <2>5, <2>6, <2>8, <2>9 DEF StartedOnce
<1>9. CASE Collect(p) BY <1>9 DEF Collect, Goto, Deny, Finish
<1>10. CASE WriteResult(p) BY <1>10 DEF WriteResult, Finish
<1>11. CASE Audit(p) BY <1>11 DEF Audit, Leave
<1>12. CASE Crash(p)
  <2>1. \A c \in commands' : \E x \in commands :
          c.op = x.op /\ c = (IF x.waiter = p THEN [x EXCEPT !.waiter = None] ELSE x)
    BY <1>12 DEF Crash, Commands
  <2>2. \A c \in commands' : started[c.op.id] = 1 BY <2>1
  <2>3. \A one, other \in commands' : one.op = other.op => one = other BY <2>1
  <2> QED BY <1>12, <2>2, <2>3 DEF Crash, Leave
<1> QED BY <1>1, <1>2, <1>3, <1>4, <1>5, <1>6, <1>7, <1>8, <1>9, <1>10, <1>11, <1>12 DEF HelperActs

LEMMA CommandsOfHelper ==
  ASSUME HostInv, NEW p \in Helpers, HelperActs(p), UNCHANGED cutoverVars
  PROVE  CommandsOK'
<1>0. \A q \in Helpers \ {p} : pc[q] = "idle" /\ pc'[q] = "idle" BY OthersIdle
<1> USE AdminAssumption, <1>0 DEF HostInv, AdminTypeOK, requestVars, hostVars, storeVars, runVars, callVars, Labels, CommandsOK, StartedOnce, Done, Alive, cutoverVars, scriptVars, Commands
<1>1. ASSUME NEW op \in Requests, StartReview(p, op) PROVE CommandsOK'
  BY <1>1 DEF StartReview, Enter, Unused
<1>2. ASSUME NEW kind \in Kinds, StartExecute(p, kind) PROVE CommandsOK'
  BY <1>2 DEF StartExecute, Enter, Loadable
<1>3. CASE Prepare(p) BY <1>3 DEF Prepare, Goto, Deny, Finish
<1>4. CASE Grant(p) BY <1>4 DEF Grant, Goto, Deny, Finish, Production!Grant
<1>5. CASE Pend(p) BY <1>5 DEF Pend, Deny, Finish, Entry
<1>6. CASE Verify(p) BY <1>6 DEF Verify, Goto, Deny, Finish
<1>7. CASE Consume(p) BY <1>7 DEF Consume, Goto
<1>8. CASE Launch(p) BY <1>8 DEF Launch, Goto
<1>9. CASE Collect(p) BY <1>9 DEF Collect, Goto, Deny, Finish
<1>10. CASE WriteResult(p) BY <1>10 DEF WriteResult, Finish
<1>11. CASE Audit(p) BY <1>11 DEF Audit, Leave
<1>12. CASE Crash(p) BY <1>12 DEF Crash, Leave
<1> QED BY <1>1, <1>2, <1>3, <1>4, <1>5, <1>6, <1>7, <1>8, <1>9, <1>10, <1>11, <1>12 DEF HelperActs

LEMMA DriftOfHelper ==
  ASSUME HostInv, NEW p \in Helpers, HelperActs(p)
  PROVE  Drifted'
<1>0. \A q \in Helpers \ {p} : pc[q] = "idle" /\ pc'[q] = "idle" BY OthersIdle
<1> USE AdminAssumption, <1>0 DEF HostInv, AdminTypeOK, requestVars, hostVars, storeVars, runVars, callVars, Labels, Drifted
<1>1. ASSUME NEW op \in Requests, StartReview(p, op) PROVE Drifted'
  BY <1>1 DEF StartReview, Enter, Unused
<1>2. ASSUME NEW kind \in Kinds, StartExecute(p, kind) PROVE Drifted'
  BY <1>2 DEF StartExecute, Enter, Loadable, Fits
<1>3. CASE Prepare(p) BY <1>3 DEF Prepare, Goto, Deny, Finish
<1>4. CASE Grant(p) BY <1>4 DEF Grant, Goto, Deny, Finish, Production!Grant
<1>5. CASE Pend(p) BY <1>5 DEF Pend, Deny, Finish, Entry
<1>6. CASE Verify(p) BY <1>6 DEF Verify, Goto, Deny, Finish
<1>7. CASE Consume(p) BY <1>7 DEF Consume, Goto
<1>8. CASE Launch(p) BY <1>8 DEF Launch, Goto
<1>9. CASE Collect(p) BY <1>9 DEF Collect, Goto, Deny, Finish
<1>10. CASE WriteResult(p) BY <1>10 DEF WriteResult, Finish
<1>11. CASE Audit(p) BY <1>11 DEF Audit, Leave
<1>12. CASE Crash(p) BY <1>12 DEF Crash, Leave
<1> QED BY <1>1, <1>2, <1>3, <1>4, <1>5, <1>6, <1>7, <1>8, <1>9, <1>10, <1>11, <1>12 DEF HelperActs

-------------------------------------------------------------------------------
(* What is true once.                                                      *)

\* A script that ended has ended.
LEMMA ScriptsEnd ==
  ASSUME CutoverInv, NEW s \in Scripts, at[s] = "done", [Moves]_cutoverVars
  PROVE  at'[s] = "done" /\ report'[s] = report[s]
<1>1. ASSUME NEW t \in Scripts, Check(t) \/ ScriptStep(t) \/ Kill(t)
      PROVE  at'[s] = "done" /\ report'[s] = report[s]
  BY <1>1
  DEF CutoverInv, PlacesOK, Goes, Says, Trap, TrapTwice, Check, ScriptStep, Arm, StopTunnel, StopHome, Stop,
      CopyData, StartHome, CheckHome, StartTunnel, Start, CheckTunnel, Out, HomeBack, TunnelBack, Back, Kill
<1> QED BY <1>1 DEF Moves, cutoverVars, scriptVars

\* Nothing that was reviewed, consumed, used, started or answered is forgotten.
Remembers ==
  /\ Reviewed \subseteq Reviewed'
  /\ consumed \subseteq consumed'
  /\ results \subseteq results'
  /\ spent \subseteq spent'
  /\ \A id \in Ids : started[id] = 1 => started'[id] = 1

LEMMA DoneStays ==
  ASSUME HostInv, Remembers, [Moves]_cutoverVars, NEW op \in consumed, Done(op)
  PROVE  Done(op)'
<1>1. CASE op.kind = "cutover"
  <2>1. op.id \in Scripts BY <1>1, HostAssumption DEF HostInv, RequestsKnown
  <2> QED BY <1>1, <2>1, ScriptsEnd DEF HostInv, Done
<1>2. CASE op.kind # "cutover" BY <1>2 DEF Done, Remembers
<1> QED BY <1>1, <1>2

LEMMA TruthStays ==
  ASSUME HostInv, Remembers, [Moves]_cutoverVars, NEW e, Truthful(e)
  PROVE  Truthful(e)'
<1>1. \A op \in consumed : op.id \in Ids BY DEF HostInv, AdminTypeOK, Operations
<1> QED BY <1>1, DoneStays DEF Truthful, Remembers

LEMMA HelperRemembers ==
  ASSUME HostInv, NEW p \in Helpers, HelperActs(p)
  PROVE  Remembers
<1> USE AdminAssumption DEF HostInv, AdminTypeOK, Remembers, Reviewed, requestVars, hostVars, storeVars, runVars
<1>1. CASE Consume(p)
  <2>1. pending[job[p].kind] = job[p] BY <1>1 DEF Consume, StartedOnce
  <2> QED BY <1>1, <2>1 DEF Consume
<1>2. CASE Pend(p)
  <2>1. pending[job[p].kind] = None BY <1>2 DEF Pend, IdsUsedOnce, Reviewing
  <2> QED BY <1>2, <2>1 DEF Pend
<1>3. CASE Launch(p)
  <2>1. started[job[p].id] = 0 BY <1>3 DEF Launch, StartedOnce
  <2> QED BY <1>3, <2>1 DEF Launch
<1>4. CASE Grant(p) BY <1>4 DEF Grant, Production!Grant
<1> QED
  BY <1>1, <1>2, <1>3, <1>4
  DEF HelperActs, StartReview, StartExecute, Prepare, Verify, Collect, WriteResult, Audit, Crash

LEMMA GotoRecord ==
  ASSUME HostInv, NEW p \in Helpers, NEW label, Goto(p, label),
         \/ {pc[p], label} \subseteq Reviewing
         \/ {pc[p], label} \subseteq Executing /\ label # "result"
  PROVE  RecordOK(p)'
<1>1. pc'[p] = label /\ job' = job /\ record' = record
  BY DEF Goto, HostInv, AdminTypeOK
<1> QED BY <1>1 DEF HostInv, RecordsOK, RecordOK, Reviewing, Executing

LEMMA DenyRecord ==
  ASSUME HostInv, NEW p \in Helpers, pc[p] # "idle", Deny(p)
  PROVE  RecordOK(p)'
<1>1. record[p] \in Records BY RecordsHaveType
<1>2. pc'[p] = "audit" /\ record'[p] = [record[p] EXCEPT !.result = "error", !.rollback = "not_requested"]
  BY DEF Deny, Finish, HostInv, AdminTypeOK
<1>3. record'[p] \in Records /\ record'[p].result = "error" BY <1>1, <1>2 DEF Records
<1> QED BY <1>2, <1>3 DEF RecordOK, Reviewing, Executing

\* Only the record of p changes, and what was true of it stays true.
LEMMA RecordsOfHelper ==
  ASSUME HostInv, NEW p \in Helpers, HelperActs(p), UNCHANGED cutoverVars
  PROVE  RecordsOK'
<1>a. \A q \in Helpers \ {p} : pc'[q] = "idle" BY OthersIdle
<1>b. \A e : Truthful(e) => Truthful(e)' BY HelperRemembers, TruthStays
<1> SUFFICES RecordOK(p)'
  BY <1>a DEF RecordsOK, RecordOK, Executing, Reviewing
<1> USE AdminAssumption
<1>1. ASSUME NEW op \in Requests, StartReview(p, op) PROVE RecordOK(p)'
  <2>1. /\ pc'[p] \in {"prepare", "audit"}
        /\ record'[p] = Entry("review", None, "error", "not_requested")
    BY <1>1 DEF StartReview, Enter, HostInv, AdminTypeOK
  <2> QED BY <2>1 DEF RecordOK, Reviewing, Executing, Entry, Records
<1>2. ASSUME NEW kind \in Kinds, StartExecute(p, kind) PROVE RecordOK(p)'
  <2> DEFINE id == IF Loadable(kind) THEN pending[kind].id ELSE None
  <2>1. /\ pc'[p] \in {"verify", "audit"}
        /\ pc'[p] = "verify" => Loadable(kind)
        /\ job'[p] = pending[kind]
        /\ record'[p] = Entry(kind, id, "error", "not_requested")
    BY <1>2 DEF StartExecute, Enter, HostInv, AdminTypeOK
  <2>2. Loadable(kind) => pending[kind].kind = kind /\ pending[kind].id \in Ids
    BY DEF Loadable, HostInv, RequestsKnown, Operations
  <2>3. record'[p] \in Records /\ record'[p].result = "error" BY <2>1, <2>2 DEF Entry, Records
  <2> QED BY <2>1, <2>2, <2>3 DEF RecordOK, Reviewing, Executing
<1>3. CASE Prepare(p) BY <1>3, GotoRecord, DenyRecord DEF Prepare, Reviewing
<1>4. CASE Grant(p) BY <1>4, GotoRecord, DenyRecord DEF Grant, Reviewing
<1>5. CASE Pend(p)
  <2>1. CASE Deny(p) BY <1>5, <2>1, DenyRecord DEF Pend
  <2>2. CASE ~ Deny(p)
    <3> DEFINE own == job[p]
    <3>1. own \in Operations /\ own.kind \in Kinds /\ own.id \in Ids
      BY <1>5 DEF Pend, HostInv, RequestsKnown, Reviewing, Operations
    <3>2. pending'[own.kind] = own /\ own # None
      BY <1>5, <2>2, <3>1 DEF Pend, HostInv, AdminTypeOK
    <3>3. own \in Reviewed' BY <3>1, <3>2 DEF Reviewed
    <3>4. pc'[p] = "audit" /\ record'[p] = Entry("review", own.id, "reviewed", "not_requested")
      BY <1>5, <2>2 DEF Pend, HostInv, AdminTypeOK
    <3>5. record'[p] \in Records /\ record'[p].id = own.id /\ record'[p].result = "reviewed"
      BY <3>1, <3>4 DEF Entry, Records
    <3>6. Truthful(record[p])' BY <3>3, <3>5 DEF Truthful
    <3> QED BY <3>4, <3>5, <3>6 DEF RecordOK, Reviewing, Executing
  <2> QED BY <2>1, <2>2
<1>6. CASE Verify(p) BY <1>6, GotoRecord, DenyRecord DEF Verify, Executing
<1>7. CASE Consume(p) BY <1>7, GotoRecord DEF Consume, Executing
<1>8. CASE Launch(p) BY <1>8, GotoRecord DEF Launch, Executing
<1>9. CASE Collect(p)
  <2>1. PICK c \in commands : /\ c.waiter = p
                              /\ IF c.phase = "completed" THEN Goto(p, "result") ELSE Deny(p)
    BY <1>9 DEF Collect
  <2>2. pc[p] = "wait" /\ c.op = job[p] BY <1>9, <2>1 DEF Collect, HostInv, CommandsOK
  <2>3. CASE c.phase = "completed"
    <3>1. pc'[p] = "result" /\ job' = job /\ record' = record
      BY <2>1, <2>3 DEF Goto, HostInv, AdminTypeOK
    <3>2. Done(job[p]) BY <2>2, <2>3 DEF HostInv, CommandsOK
    <3>3. UNCHANGED spent BY <1>9 DEF Collect, storeVars
    <3>4. Done(job[p])' BY <3>1, <3>2, <3>3 DEF Done, cutoverVars, scriptVars
    <3> QED BY <2>2, <3>1, <3>4 DEF HostInv, RecordsOK, RecordOK, Reviewing, Executing
  <2>4. CASE c.phase # "completed" BY <2>1, <2>2, <2>4, DenyRecord
  <2> QED BY <2>3, <2>4
<1>10. CASE WriteResult(p)
  <2> DEFINE own == job[p]
  <2>1. /\ own \in consumed /\ own \in Operations /\ own.id \in Ids /\ own.kind \in Kinds
        /\ started[own.id] = 1
        /\ Done(own)
        /\ record[p] = Entry(own.kind, own.id, "error", "not_requested")
    BY <1>10 DEF WriteResult, HostInv, AdminTypeOK, StartedOnce, RecordsOK, RecordOK, Executing, Operations
  <2>2. \E rollback \in {"not_requested", "required", "completed"} :
          /\ pc'[p] = "audit" /\ job' = job
          /\ record'[p] = [record[p] EXCEPT !.result = "completed", !.rollback = rollback]
    BY <1>10 DEF WriteResult, Finish, HostInv, AdminTypeOK
  <2>3. /\ pc'[p] = "audit" /\ job' = job
        /\ record'[p] \in Records
        /\ record'[p].kind = own.kind /\ record'[p].id = own.id
    <3>1. record[p] \in Records BY <1>10, RecordsHaveType DEF WriteResult
    <3>2. record[p].kind = own.kind /\ record[p].id = own.id BY <2>1 DEF Entry
    <3> QED BY <2>2, <3>1, <3>2 DEF Records
  <2>4. own.id \in results' /\ own \in Reviewed' /\ own \in consumed' /\ started'[own.id] = 1
    BY <1>10, <2>1, <2>3 DEF WriteResult, Reviewed, runVars
  <2>5. Done(own)'
    BY <1>10, <2>1, <2>3 DEF WriteResult, Done, storeVars, cutoverVars, scriptVars
  <2>6. Truthful(record[p])' BY <2>3, <2>4, <2>5 DEF Truthful
  <2> QED BY <2>3, <2>6 DEF RecordOK, Reviewing, Executing
<1>11. CASE Audit(p) BY <1>11 DEF Audit, Leave, RecordOK, Reviewing, Executing, HostInv, AdminTypeOK
<1>12. CASE Crash(p) BY <1>12 DEF Crash, Leave, RecordOK, Reviewing, Executing, HostInv, AdminTypeOK
<1> QED BY <1>1, <1>2, <1>3, <1>4, <1>5, <1>6, <1>7, <1>8, <1>9, <1>10, <1>11, <1>12 DEF HelperActs

LEMMA JournalOfHelper ==
  ASSUME HostInv, NEW p \in Helpers, HelperActs(p), UNCHANGED cutoverVars
  PROVE  JournalOK'
<1>1. \A e \in journal' : e \in journal \/ (e = record[p] /\ pc[p] = "audit" /\ e.result # "error")
  BY DEF HelperActs, StartReview, StartExecute, Prepare, Grant, Pend, Verify, Consume, Launch, Collect,
         WriteResult, Audit, Crash
<1>2. \A e \in journal' : Truthful(e) BY <1>1 DEF HostInv, JournalOK, RecordsOK, RecordOK
<1> QED BY <1>2, HelperRemembers, TruthStays DEF JournalOK

-------------------------------------------------------------------------------
(* The steps of commands and of time.                                      *)

LEMMA RecordsElse ==
  ASSUME HostInv, Remembers, [Moves]_cutoverVars, UNCHANGED <<callVars, journal>>
  PROVE  RecordsOK' /\ JournalOK'
<1>1. \A e : Truthful(e) => Truthful(e)' BY TruthStays
<1>2. JournalOK' BY <1>1 DEF HostInv, JournalOK
<1>3. ASSUME NEW p \in Helpers PROVE RecordOK(p)'
  <2>1. pc[p] = "result" => job[p] \in consumed /\ Done(job[p])
    BY DEF HostInv, StartedOnce, RecordsOK, RecordOK
  <2>2. pc'[p] = "result" => Done(job[p])' BY <2>1, DoneStays DEF callVars
  <2> QED BY <1>1, <2>2 DEF HostInv, RecordsOK, RecordOK, callVars
<1> QED BY <1>2, <1>3 DEF RecordsOK

\* A command goes on, or is forgotten.
LEMMA BecomesKeeps ==
  ASSUME HostInv, Remembers, [Moves]_cutoverVars,
         UNCHANGED <<callVars, requestVars, started, orphaned>>,
         NEW c \in commands, NEW phase, Becomes(c, phase),
         phase = "moved" => c.op.kind # "cutover" /\ c.op.id \in spent',
         phase = "completed" => Done(c.op)'
  PROVE  RequestsKnown' /\ IdsUsedOnce' /\ StartedOnce' /\ CommandsOK'
<1> DEFINE next == [c EXCEPT !.phase = phase]
<1>1. c \in Commands BY DEF HostInv, AdminTypeOK
<1>2. next.op = c.op /\ next.waiter = c.waiter /\ next.phase = phase BY <1>1 DEF Commands
<1>3. \A d \in commands' : \/ d \in commands \ {c}
                           \/ d = next /\ (c.waiter # None \/ Alive(next))
  BY DEF Becomes
<1>4. RequestsKnown'
  BY <1>2, <1>3 DEF HostInv, RequestsKnown, callVars, requestVars
<1>5. IdsUsedOnce'
  BY DEF HostInv, IdsUsedOnce, Reviewed, callVars, requestVars
<1>6. StartedOnce'
  <2>1. \A d \in commands' : \/ d \in commands /\ d # c
                             \/ d = next /\ next.op = c.op
    BY <1>2, <1>3
  <2>2. \A one, other \in commands : one.op = other.op => one = other BY DEF HostInv, StartedOnce
  <2> HIDE DEF next
  <2>3. \A one, other \in commands' : one.op = other.op => one = other BY <2>1, <2>2
  <2>4. \A d \in commands' : started'[d.op.id] = 1 BY <2>1 DEF HostInv, StartedOnce
  <2> QED BY <2>3, <2>4 DEF HostInv, StartedOnce, callVars, requestVars
<1>7. \A d \in commands : d.op \in consumed BY DEF HostInv, RequestsKnown
<1>8. CommandsOK'
  <2>1. ASSUME NEW d \in commands \ {c}
        PROVE  /\ d.waiter # None => pc'[d.waiter] = "wait" /\ job'[d.waiter] = d.op
               /\ d.waiter = None => d.op \in orphaned' /\ Alive(d)
               /\ d.phase = "moved" => d.op.kind # "cutover" /\ d.op.id \in spent'
               /\ d.phase = "completed" => Done(d.op)'
    BY <1>7, DoneStays DEF HostInv, CommandsOK, Remembers, callVars
  <2>2. /\ next.waiter # None => pc'[next.waiter] = "wait" /\ job'[next.waiter] = next.op
        /\ next.waiter = None => next.op \in orphaned'
        /\ next.phase = "moved" => next.op.kind # "cutover" /\ next.op.id \in spent'
        /\ next.phase = "completed" => Done(c.op)'
    BY <1>2 DEF HostInv, CommandsOK, callVars
  <2> HIDE DEF next
  <2> QED BY <1>2, <1>3, <2>1, <2>2 DEF CommandsOK, Done, Alive
<1> QED BY <1>4, <1>5, <1>6, <1>8

LEMMA RestKeeps ==
  ASSUME HostInv, Remembers, [Moves]_cutoverVars,
         UNCHANGED <<callVars, material, pending, consumed, runVars, current>>
  PROVE  RequestsKnown' /\ IdsUsedOnce' /\ StartedOnce' /\ CommandsOK' /\ Drifted'
<1>1. RequestsKnown' /\ IdsUsedOnce' /\ StartedOnce' /\ Drifted'
  BY DEF HostInv, RequestsKnown, IdsUsedOnce, StartedOnce, Drifted, Reviewed, callVars, runVars
<1>2. CommandsOK'
  <2>1. \A c \in commands : c.op \in consumed BY DEF HostInv, RequestsKnown
  <2> QED BY <2>1, DoneStays DEF HostInv, CommandsOK, Remembers, callVars, runVars
<1> QED BY <1>1, <1>2

\* Only the command of a dead helper moves production while the lock is held by a
\* helper that is about to start one.
LEMMA DriftOfPromotion ==
  ASSUME HostInv, NEW c \in commands, Move(c) \/ ExitPromote(c)
  PROVE  Drifted'
<1>1. CASE ExitPromote(c)
  BY <1>1 DEF ExitPromote, Production!Waste, HostInv, Drifted, callVars
<1>2. CASE Move(c)
  <2>1. current' = Production!To(Approval(c.op)) /\ c.op.kind # "cutover" /\ orphaned' = orphaned
    BY <1>2 DEF Move, Production!Move
  <2>2. ASSUME NEW p \in Helpers, pc'[p] \in {"verify", "consume", "launch"}
        PROVE  c.op \in orphaned
    <3>1. pc[p] \in {"verify", "consume", "launch"} BY <1>2, <2>2 DEF Move, callVars
    <3>2. lock = p BY <3>1 DEF HostInv, AdminTypeOK
    <3>3. c.waiter \in Helpers => c.waiter # p /\ lock = c.waiter
      BY <3>1, AdminAssumption DEF HostInv, AdminTypeOK, CommandsOK
    <3> QED BY <3>2, <3>3 DEF HostInv, AdminTypeOK, CommandsOK, Commands
  <2> QED BY <2>1, <2>2 DEF Drifted
<1> QED BY <1>1, <1>2

LEMMA HostInvOfPromotion ==
  ASSUME HostInv, NEW c \in commands, Move(c) \/ ExitPromote(c), UNCHANGED cutoverVars
  PROVE  HostInv'
<1>1. Remembers /\ UNCHANGED <<callVars, requestVars, started, orphaned, journal>>
  BY DEF Remembers, Move, ExitPromote, Production!Move, Production!Waste, Reviewed, requestVars, storeVars
<1>2. PICK phase : /\ Becomes(c, phase)
                   /\ phase = "moved" => c.op.kind # "cutover" /\ c.op.id \in spent'
                   /\ phase = "completed" => c.op.kind # "cutover" /\ c.op.id \in spent'
  <2>1. CASE Move(c) BY <2>1 DEF Move, Production!Move
  <2>2. CASE ExitPromote(c) BY <2>2 DEF ExitPromote, HostInv, CommandsOK, storeVars
  <2> QED BY <2>1, <2>2
<1>3. RequestsKnown' /\ IdsUsedOnce' /\ StartedOnce' /\ CommandsOK'
  <2>1. phase = "completed" => Done(c.op)' BY <1>2 DEF Done
  <2> QED BY <1>1, <1>2, <2>1, BecomesKeeps
<1>4. CutoverInv'
  BY DEF HostInv, CutoverInv, PlacesOK, OneArmed, Going, ServicesApart, Armed, cutoverVars, scriptVars
<1> QED BY <1>1, <1>3, <1>4, RecordsElse, DriftOfPromotion, TypeOfPromotion DEF HostInv

LEMMA HostInvOfExit ==
  ASSUME HostInv, NEW c \in commands, ScriptExits(c)
  PROVE  HostInv'
<1>1. Remembers /\ UNCHANGED <<callVars, requestVars, started, orphaned, journal, current>>
  BY DEF Remembers, ScriptExits, ExitCutover, Reviewed, requestVars, storeVars, hostVars
<1>2. PICK phase : Becomes(c, phase) /\ phase # "moved" /\ (phase = "completed" => Done(c.op)')
  BY DEF ScriptExits, ExitCutover, Done, cutoverVars, scriptVars
<1>3. RequestsKnown' /\ IdsUsedOnce' /\ StartedOnce' /\ CommandsOK'
  BY <1>1, <1>2, BecomesKeeps DEF ScriptExits
<1>4. Drifted' BY <1>1 DEF HostInv, Drifted, callVars
<1>5. CutoverInv'
  BY DEF HostInv, ScriptExits, CutoverInv, PlacesOK, OneArmed, Going, ServicesApart, Armed, cutoverVars,
         scriptVars
<1>6. AdminTypeOK' BY HostTypeStep DEF HostNext, hostedVars
<1> QED BY <1>1, <1>3, <1>4, <1>5, <1>6, RecordsElse DEF HostInv, ScriptExits

LEMMA HostInvOfRest ==
  ASSUME HostInv, AdminTypeOK', UNCHANGED <<callVars, material, pending, consumed, results, journal, spent, runVars, current>>,
         [Moves]_cutoverVars
  PROVE  HostInv'
<1>1. Remembers BY DEF Remembers, Reviewed, runVars
<1>2. CutoverInv'
  <2>1. CASE Moves BY <2>1, InvMoves DEF HostInv
  <2>2. CASE UNCHANGED cutoverVars
    BY <2>2
    DEF HostInv, CutoverInv, PlacesOK, OneArmed, Going, ServicesApart, Armed, cutoverVars, scriptVars
  <2> QED BY <2>1, <2>2
<1> QED BY <1>1, <1>2, RestKeeps, RecordsElse DEF HostInv

-------------------------------------------------------------------------------
(* The invariant holds.                                                    *)

LEMMA HostInvInit == HostInit => HostInv
<1> SUFFICES ASSUME HostInit PROVE HostInv OBVIOUS
<1> USE AdminAssumption DEF HostInit, AdminInit
<1>1. AdminTypeOK BY DEF AdminTypeOK, Labels
<1>2. RequestsKnown /\ IdsUsedOnce /\ StartedOnce /\ Drifted
  BY DEF RequestsKnown, IdsUsedOnce, StartedOnce, Drifted, Reviewed, Reviewing, Executing
<1>3. CommandsOK /\ RecordsOK /\ JournalOK
  BY DEF CommandsOK, RecordsOK, RecordOK, JournalOK, Reviewing, Executing
<1>4. CutoverInv BY InvInit
<1> QED BY <1>1, <1>2, <1>3, <1>4 DEF HostInv

LEMMA HostInvStep == HostInv /\ [HostNext]_hostedVars => HostInv'
<1> SUFFICES ASSUME HostInv, [HostNext]_hostedVars PROVE HostInv' OBVIOUS
<1>1. AdminTypeOK' BY HostTypeStep
<1>2. ASSUME NEW p \in Helpers, HelperActs(p), UNCHANGED cutoverVars PROVE HostInv'
  <2>1. CutoverInv'
    BY <1>2
    DEF HostInv, CutoverInv, PlacesOK, OneArmed, Going, ServicesApart, Armed, cutoverVars, scriptVars
  <2> QED
    BY <1>1, <1>2, <2>1, RequestsOfHelper, IdsOfHelper, StartsOfHelper, CommandsOfHelper, RecordsOfHelper,
       JournalOfHelper, DriftOfHelper
    DEF HostInv
<1>3. CASE Promotes BY <1>3, HostInvOfPromotion DEF Promotes
<1>4. CASE Exits BY <1>4, HostInvOfExit DEF Exits
<1>5. CASE Scripted
  BY <1>1, <1>5, HostInvOfRest DEF Scripted, adminVars, callVars, runVars
<1>6. ASSUME NEW kind \in Kinds, Expire(kind), UNCHANGED cutoverVars PROVE HostInv'
  BY <1>1, <1>6, HostInvOfRest DEF Expire, hostVars, storeVars
<1>7. CASE UNCHANGED hostedVars
  BY <1>1, <1>7, HostInvOfRest DEF hostedVars, adminVars, callVars, runVars
<1> QED BY <1>2, <1>3, <1>4, <1>5, <1>6, <1>7, HostSteps DEF HostInv

LEMMA HostInvHolds == HostSpec => []HostInv
  BY HostInvInit, HostInvStep, PTL DEF HostSpec

\* Every variable of the helper keeps its type, and whoever is inside an invocation
\* holds admin.lock.
THEOREM HostTypeCorrect == HostSpec => []AdminTypeOK
<1>1. HostInv => AdminTypeOK BY DEF HostInv
<1> QED BY <1>1, HostInvHolds, PTL

\* The journal never says more than what was reviewed, started once and done.
THEOREM JournalIsTruthful == HostSpec => []AuditIsTruthful
<1>1. ASSUME HostInv, NEW e \in journal, e.result = "completed", NEW op \in consumed,
             op.id = e.id, op.kind = e.kind, Done(op)
      PROVE  IF e.kind = "cutover" THEN report[e.id] = "applied" ELSE e.id \in spent
  BY <1>1 DEF Done
<1>2. HostInv => AuditIsTruthful BY <1>1 DEF HostInv, JournalOK, Truthful, AuditIsTruthful
<1> QED BY <1>2, HostInvHolds, PTL

\* Whatever is started finds the release it was reviewed for, unless the command of a
\* dead helper has moved production since.
THEOREM DriftHasOrphan == HostSpec => DriftNeedsOrphan
<1>1. ASSUME HostInv
      PROVE  \A p \in Helpers :
               pc[p] = "launch" /\ pc'[p] = "wait" /\ job[p].kind # "deploy" /\ current # job[p].candidate =>
                 \E o \in orphaned : o.kind # "cutover" /\ current = Production!To(Approval(o))
  BY <1>1 DEF HostInv, Drifted
<1> QED BY <1>1, HostInvHolds, PTL DEF DriftNeedsOrphan

-------------------------------------------------------------------------------
(* What the host implements.                                               *)

\* Only the end of a review approves, and only the start of a command starts.
LEMMA ReviewStep ==
  ASSUME HostInv, [HostNext]_hostedVars
  PROVE  [RunsOnce!ReviewNext]_(RunsOnce!reviewVars)
<1> USE DEF RunsOnce!reviewVars
<1>1. ASSUME NEW p \in Helpers, HelperActs(p) PROVE [RunsOnce!ReviewNext]_(RunsOnce!reviewVars)
  <2> USE AdminAssumption DEF HostInv, AdminTypeOK
  <2>1. CASE Pend(p)
    <3>1. CASE UNCHANGED pending BY <2>1, <3>1 DEF Pend, Reviewed, runVars
    <3>2. CASE ~ UNCHANGED pending
      <4> DEFINE own == job[p]
      <4>1. /\ own \in Operations /\ own.kind \in Kinds
            /\ pending[own.kind] = None
            /\ \A other \in Reviewed : other.id # own.id
        BY <2>1 DEF Pend, RequestsKnown, IdsUsedOnce, Reviewing, Operations
      <4>2. pending' = [pending EXCEPT ![own.kind] = own] /\ own # None /\ UNCHANGED <<consumed, started>>
        BY <2>1, <3>2, <4>1 DEF Pend, runVars
      <4>3. \A k \in Kinds : pending'[k] = IF k = own.kind THEN own ELSE pending[k] BY <4>2
      <4> HIDE DEF own
      <4>4. Reviewed' = Reviewed \union {own} BY <4>1, <4>2, <4>3 DEF Reviewed
      <4>5. RunsOnce!Review(own) BY <4>1, <4>2, <4>4 DEF RunsOnce!Review
      <4> QED BY <4>1, <4>5 DEF RunsOnce!ReviewNext
    <3> QED BY <3>1, <3>2
  <2>2. CASE Consume(p)
    <3> DEFINE own == job[p]
    <3>1. /\ own \in Operations /\ own.kind \in Kinds /\ pending[own.kind] = own
          /\ \A k \in Kinds : k # own.kind => pending[k] # own
      BY <2>2 DEF Consume, RequestsKnown, StartedOnce, Executing, Operations
    <3>2. /\ consumed' = consumed \union {own}
          /\ \A k \in Kinds : pending'[k] = IF k = own.kind THEN None ELSE pending[k]
          /\ UNCHANGED started
      BY <2>2 DEF Consume, runVars
    <3> HIDE DEF own
    <3>3. Reviewed' = Reviewed BY <3>1, <3>2 DEF Reviewed
    <3> QED BY <3>2, <3>3
  <2>3. CASE Launch(p)
    <3>1. job[p] \in consumed /\ started[job[p].id] = 0 BY <2>3 DEF Launch, StartedOnce
    <3>2. started' = [started EXCEPT ![job[p].id] = 1] BY <2>3, <3>1 DEF Launch
    <3>3. RunsOnce!Start(job[p]) BY <2>3, <3>1, <3>2 DEF Launch, RunsOnce!Start, Reviewed, requestVars
    <3> QED BY <3>1, <3>3 DEF RunsOnce!ReviewNext
  <2> QED
    BY <1>1, <2>1, <2>2, <2>3
    DEF HelperActs, StartReview, StartExecute, Prepare, Grant, Verify, Collect, WriteResult, Audit, Crash,
        Reviewed, runVars, requestVars
<1>2. CASE Promotes BY <1>2 DEF Promotes, Move, ExitPromote, Reviewed, requestVars
<1>3. CASE Exits BY <1>3 DEF Exits, ScriptExits, ExitCutover, Reviewed, requestVars
<1>4. ASSUME NEW kind \in Kinds, Expire(kind) PROVE UNCHANGED RunsOnce!reviewVars
  BY <1>4 DEF Expire, Reviewed, runVars
<1>5. CASE UNCHANGED adminVars BY <1>5 DEF adminVars, Reviewed
<1> QED BY <1>1, <1>2, <1>3, <1>4, <1>5, HostSteps DEF HostInv, Scripted, hostedVars

\* A host mutation is started at most once, and exactly as a human reviewed it before
\* under an id of its own.
THEOREM OperationsRunOnce == HostSpec => ImplementsReviewedOnce
<1>1. HostInit => RunsOnce!ReviewInit
  BY DEF HostInit, AdminInit, RunsOnce!ReviewInit, Reviewed
<1> QED
  BY <1>1, HostInvHolds, ReviewStep, PTL DEF HostSpec, ImplementsReviewedOnce, RunsOnce!ReviewedOnce

\* An id has one approval at most, since the directory of its review is left behind
\* whatever becomes of the review; one under way has none before it is granted.
GrantsOK ==
  /\ \A grant \in granted : grant[1] \in material
  /\ \A one, other \in granted : one[1] = other[1] => one = other
  /\ \A p \in Helpers : pc[p] \in {"prepare", "grant"} => \A grant \in granted : grant[1] # job[p].id

LEMMA GrantsOfHelper ==
  ASSUME HostInv, GrantsOK, NEW p \in Helpers, HelperActs(p)
  PROVE  GrantsOK'
<1>0. \A q \in Helpers \ {p} : pc[q] = "idle" /\ pc'[q] = "idle" BY OthersIdle
<1>1. pc \in [Helpers -> Labels] /\ job \in [Helpers -> Operations \union {None}]
  BY DEF HostInv, AdminTypeOK
<1>2. ASSUME NEW op \in Requests, StartReview(p, op) PROVE GrantsOK'
  <2>1. granted' = granted /\ material \subseteq material' BY <1>2 DEF StartReview, storeVars
  <2>2. ASSUME pc'[p] \in {"prepare", "grant"}
        PROVE  op.id \notin material /\ job'[p] = op
    BY <1>1, <1>2, <2>2 DEF StartReview, Enter, Unused
  <2> QED BY <1>0, <2>1, <2>2 DEF GrantsOK
<1>3. CASE Grant(p)
  <2>1. pc'[p] \notin {"prepare", "grant"} BY <1>1, <1>3 DEF Grant, Goto, Deny, Finish
  <2>2. material' = material BY <1>3 DEF Grant, requestVars
  <2>3. job[p].id \in material /\ \A grant \in granted : grant[1] # job[p].id
    BY <1>3 DEF Grant, HostInv, IdsUsedOnce, Reviewing, GrantsOK
  <2>4. \/ granted' = granted \union {<<job[p].id, Approval(job[p])>>}
        \/ granted' = granted
    BY <1>3 DEF Grant, Production!Grant, storeVars
  <2> QED BY <1>0, <2>1, <2>2, <2>3, <2>4 DEF GrantsOK
<1>4. CASE ~ Grant(p) /\ ~ \E op \in Requests : StartReview(p, op)
  <2>1. granted' = granted /\ material' = material
    BY <1>4
    DEF HelperActs, StartExecute, Prepare, Pend, Verify, Consume, Launch, Collect, WriteResult, Audit, Crash,
        storeVars, requestVars
  <2>2. pc'[p] \in {"prepare", "grant"} => pc[p] = "prepare" /\ job'[p] = job[p]
    BY <1>1, <1>4
    DEF HelperActs, StartExecute, Enter, Prepare, Pend, Verify, Consume, Launch, Collect, WriteResult, Audit,
        Crash, Goto, Deny, Finish, Leave
  <2> QED BY <1>0, <2>1, <2>2 DEF GrantsOK
<1> QED BY <1>2, <1>3, <1>4

LEMMA GrantsStep ==
  ASSUME HostInv, GrantsOK, [HostNext]_hostedVars
  PROVE  GrantsOK'
<1>1. CASE UNCHANGED <<granted, material, pc, job>> BY <1>1 DEF GrantsOK
<1>2. CASE Promotes
  BY <1>1, <1>2 DEF Promotes, Move, ExitPromote, Production!Move, Production!Waste, storeVars, requestVars, callVars
<1>3. CASE Exits BY <1>1, <1>3 DEF Exits, ScriptExits, ExitCutover, storeVars, requestVars, callVars
<1>4. ASSUME NEW kind \in Kinds, Expire(kind) PROVE GrantsOK' BY <1>1, <1>4 DEF Expire, storeVars, callVars
<1>5. CASE UNCHANGED adminVars BY <1>1, <1>5 DEF adminVars
<1> QED BY <1>2, <1>3, <1>4, <1>5, GrantsOfHelper, HostSteps DEF HostInv, Scripted, hostedVars

LEMMA ReleaseStays ==
  ASSUME HostInv, [HostNext]_hostedVars, current' # current
  PROVE  \E c \in commands : Move(c)
<1>1. ASSUME NEW p \in Helpers, HelperActs(p) PROVE UNCHANGED current
  BY <1>1
  DEF HelperActs, StartReview, StartExecute, Prepare, Grant, Production!Grant, Pend, Verify, Consume, Launch,
      Collect, WriteResult, Audit, Crash, hostVars
<1>2. CASE Promotes BY <1>2 DEF Promotes, ExitPromote, Production!Waste
<1>3. CASE Exits BY <1>3 DEF Exits, ScriptExits, ExitCutover, hostVars
<1>4. ASSUME NEW kind \in Kinds, Expire(kind) PROVE UNCHANGED current BY <1>4 DEF Expire, hostVars
<1>5. CASE UNCHANGED adminVars BY <1>5 DEF adminVars
<1> QED BY <1>1, <1>2, <1>3, <1>4, <1>5, HostSteps DEF HostInv, Scripted, hostedVars

\* Whichever helper dies, and whatever approvals and commands it leaves behind, the
\* release changes only by a reviewed operation that was consumed, was started once
\* and uses the one approval its review was given.
THEOREM ReleaseFollowsReview == HostSpec => MovesAsReviewed
<1>1. HostInit => GrantsOK BY DEF HostInit, AdminInit, GrantsOK
<1>2. ASSUME HostInv, GrantsOK, NEW c \in commands, Move(c)
      PROVE  \E op \in consumed :
               /\ op.kind # "cutover"
               /\ current = Production!From(Approval(op)) /\ current' = Production!To(Approval(op))
               /\ started[op.id] = 1
               /\ op.id \in spent' \ spent
               /\ \A other \in Reviewed : other.id = op.id => other = op
               /\ \A grant \in granted : grant[1] = op.id => grant[2] = Approval(op)
  <2> DEFINE op == c.op
  <2>1. op \in consumed /\ op \in Reviewed BY <1>2 DEF HostInv, RequestsKnown, Reviewed
  <2>2. started[op.id] = 1 BY <1>2 DEF HostInv, StartedOnce
  <2>3. /\ op.kind # "cutover"
        /\ current = Production!From(Approval(op)) /\ current' = Production!To(Approval(op))
        /\ op.id \in spent' \ spent
        /\ <<op.id, Approval(op)>> \in granted
    BY <1>2 DEF Move, Production!Move
  <2>4. \A other \in Reviewed : other.id = op.id => other = op
    BY <1>2, <2>1 DEF HostInv, IdsUsedOnce
  <2>5. \A grant \in granted : grant[1] = op.id => grant[2] = Approval(op)
    BY <1>2, <2>3 DEF GrantsOK
  <2> HIDE DEF op
  <2> QED BY <2>1, <2>2, <2>3, <2>4, <2>5
<1>3. HostInv /\ GrantsOK /\ [HostNext]_hostedVars => GrantsOK' BY GrantsStep
<1>4. HostInv /\ GrantsOK /\ [HostNext]_hostedVars =>
        (current' # current =>
           \E op \in consumed :
             /\ op.kind # "cutover"
             /\ current = Production!From(Approval(op)) /\ current' = Production!To(Approval(op))
             /\ started[op.id] = 1
             /\ op.id \in spent' \ spent
             /\ \A other \in Reviewed : other.id = op.id => other = op
             /\ \A grant \in granted : grant[1] = op.id => grant[2] = Approval(op))
  BY <1>2, ReleaseStays
<1> QED BY <1>1, <1>3, <1>4, HostInvHolds, PTL DEF HostSpec, MovesAsReviewed

LEMMA ScriptedStep ==
  ASSUME HostInv, [HostNext]_hostedVars
  PROVE  [CutoverNext]_cutoverVars
<1>1. CASE Scripted BY <1>1 DEF Scripted, Moves, CutoverNext
<1>2. ~ Scripted => UNCHANGED cutoverVars
  BY HostSteps DEF HostInv, Promotes, Exits, ScriptExits, hostedVars
<1> QED BY <1>1, <1>2

\* The runs of the cutover that helpers start and lose behave as the cutover does by
\* itself, so that the two Homes are never up together,
THEOREM HostedServicesStayApart == HostSpec => []NoSplitService
<1>1. HostInv => NoSplitService BY DEF HostInv, CutoverInv, ServicesApart, NoSplitService
<1> QED BY <1>1, HostInvHolds, PTL

\* and so that the exit status the helper goes by says what the services are.
THEOREM HostedReportsAreTrue == HostSpec => ReportIsTrue
<1>1. HostInit => (~ overlapped => Copied)
  BY DEF HostInit, CutoverInit, Copied, Forward
<1>2. HostInv /\ [HostNext]_hostedVars => [CutoverNext]_cutoverVars BY ScriptedStep
<1>3. HostInv => CutoverInv BY DEF HostInv
<1>4. CutoverInv /\ (~ overlapped => Copied) /\ [CutoverNext]_cutoverVars => [TrueReport]_cutoverVars
  BY ReportStep
<1> QED
  BY <1>1, <1>2, <1>3, <1>4, HostInvHolds, CopiedStep, PTL DEF HostSpec, ReportIsTrue, TrueReport
================================================================================
