------------------------------- MODULE Bootstrap -------------------------------
(***************************************************************************)
(* The bootstrap of production (scripts/bootstrap_minillm_production.sh     *)
(* with provision_minillm_service_identities.sh) before, between and after  *)
(* cutovers.  The script may be run again, for the same candidate or for    *)
(* another, after a run that failed or was killed at any step, and keeps    *)
(* what it finds: a release, an extracted wheelhouse, a Python runtime.     *)
(*                                                                         *)
(* A command that fails ends the script and its EXIT trap stops the shadow  *)
(* it has started; a kill runs no trap.  The administrator runs one of the  *)
(* scripts, bootstrap or cutover, at a time.  Owners and modes are left     *)
(* out, as are the builder's tests, which nothing here reads.               *)
(***************************************************************************)
EXTENDS Cutover

CONSTANTS
  Candidates,  \* commits
  Archives,    \* wheelhouse archives, each with the digest the run confirms
  Mixed,       \* archives that hold more than wheels
  Absent,
  Plans        \* what may happen: [boots, scripts, bootstrapped, writes]

ASSUME BootstrapAssumption ==
  /\ Absent \notin Candidates \union Archives \union {"partial", "empty"}
  /\ "partial" \notin Archives

VARIABLES
  host,   \* what the bootstrap builds
  boot,   \* the run of the bootstrap, or how the last one ended
  left    \* bound: runs of the bootstrap to come

bootVars == <<host, boot, left>>
vars == <<cutoverVars, bootVars>>

BlankHost ==
  [repo     |-> Absent,                            \* HEAD of the trusted repository
   releases |-> {},                              \* complete releases
   wheels   |-> [c \in Candidates |-> Absent],     \* the archive extracted for a candidate
   staging  |-> {},                              \* candidates with a partial runtime
   runtime  |-> Absent,                            \* the archive the runtime is made of
   builder  |-> Absent,                            \* the same of the builder's
   config   |-> [of |-> Absent, resource |-> FALSE],
   prompts  |-> Absent,                            \* the prompts production reads
   current  |-> Absent,                            \* releases/current
   marker   |-> Absent,                            \* current_build
   plists   |-> {},
   shadow   |-> FALSE]                           \* a shadow listens on its port

BootstrappedHost(c, a) ==
  [BlankHost EXCEPT !.repo = c, !.releases = {c}, !.wheels[c] = a, !.runtime = a, !.builder = a,
                    !.config = [of |-> c, resource |-> TRUE], !.prompts = c,
                    !.current = c, !.marker = c, !.plists = {"home", "tunnel"}]

NoBoot == [at |-> "idle", of |-> Absent, archive |-> Absent, kept |-> {}, last |-> "none"]

\* A plan says whether the host starts blank, which scripts are run, and how many of
\* the writes of the user Home are past.
BootstrapInit ==
  \E plan \in Plans :
    /\ loaded = UserJobs
    /\ source = [f \in Files |-> 1]
    /\ copy = IF plan.bootstrapped THEN source ELSE [f \in Files |-> 0]
    /\ writes = plan.writes
    /\ at = [s \in Scripts |-> IF s \in plan.scripts THEN "new" ELSE "done"]
    /\ report = [s \in Scripts |-> "none"]
    /\ missed = FALSE
    /\ overlapped = FALSE
    /\ IF plan.bootstrapped
       THEN \E c \in Candidates, a \in Archives \ Mixed : host = BootstrappedHost(c, a)
       ELSE host = BlankHost
    /\ boot = NoBoot
    /\ left = plan.boots

-------------------------------------------------------------------------------
(* One action per step of the script; "kept" collects what it found and left. *)

Quiet == \A s \in Scripts : at[s] \in {"new", "done"}

BeginBoot(c, a) ==
  /\ boot.at = "idle" /\ left > 0 /\ Quiet
  /\ boot' = [at |-> "repo", of |-> c, archive |-> a, kept |-> {}, last |-> "running"]
  /\ left' = left - 1
  /\ UNCHANGED <<cutoverVars, host>>

Does(step, next, h) ==
  /\ boot.at = step
  /\ boot' = [boot EXCEPT !.at = next]
  /\ host' = h
  /\ UNCHANGED <<cutoverVars, left>>

Keeps(step, next, what) ==
  /\ boot.at = step
  /\ boot' = [boot EXCEPT !.at = next, !.kept = @ \union {what}]
  /\ UNCHANGED <<cutoverVars, host, left>>

\* Cloned, or found clean; then the candidate is fetched and checked out.
Checkout == host.repo # "partial" /\ Does("repo", "release", [host EXCEPT !.repo = boot.of])

\* Extracted beside its place and moved there, unless it is there.
Release == Does("release", "wheels", [host EXCEPT !.releases = @ \union {boot.of}])

\* Extracted in its place, before it is checked.
Extract ==
  /\ Does("wheels", "check", [host EXCEPT !.wheels[boot.of] = boot.archive])
  /\ host.wheels[boot.of] = Absent

OnlyWheels == Does("check", "venv", host) /\ host.wheels[boot.of] \notin Mixed

KeepWheels == Keeps("wheels", "venv", "wheels") /\ host.wheels[boot.of] # Absent

\* A runtime is made beside its place; a partial one is a hard stop.
MakeVenv ==
  /\ host.runtime = Absent /\ boot.of \notin host.staging
  /\ Does("venv", "install", [host EXCEPT !.staging = @ \union {boot.of}])

Install ==
  /\ Does("install", "builder", [host EXCEPT !.runtime = host.wheels[boot.of], !.staging = @ \ {boot.of}])
  /\ host.wheels[boot.of] # "partial"

KeepRuntime == host.runtime # Absent /\ Keeps("venv", "builder", "runtime")

\* pip leaves a distribution that is installed.
Builder ==
  /\ Does("builder", "config",
          [host EXCEPT !.builder = IF host.builder = Absent THEN host.wheels[boot.of] ELSE host.builder])
  /\ host'.builder # "partial"

Config == Does("config", "prompts", [host EXCEPT !.config = [of |-> boot.of, resource |-> FALSE]])

\* cp -R into a directory that is there puts the prompts below the old ones.
Prompts == host.prompts = Absent /\ Does("prompts", "append", [host EXCEPT !.prompts = boot.of])

KeepPrompts == host.prompts # Absent /\ Keeps("prompts", "append", "prompts")

AppendResource == Does("append", "data", [host EXCEPT !.config.resource = TRUE])

\* rsync from the operator's live data.
BootCopies ==
  /\ boot.at = "data"
  /\ copy' = [f \in Files |-> IF source[f] # 0 THEN source[f] ELSE copy[f]]
  /\ boot' = [boot EXCEPT !.at = "link"]
  /\ UNCHANGED <<loaded, source, writes, scriptVars, host, left>>

Link == Does("link", "empty", [host EXCEPT !.current = boot.of])

EmptyMarker == Does("empty", "mark", [host EXCEPT !.marker = "empty"])

\* Mutant: the marker is left as it was.
MarkNothing == Does("mark", "home_plist", host)

Mark == Does("mark", "home_plist", [host EXCEPT !.marker = boot.of])

\* Written beside its place and checked.
HomePlist ==
  /\ host.current \in host.releases /\ host.runtime # Absent
  /\ Does("home_plist", "tunnel_plist", [host EXCEPT !.plists = @ \union {"home"}])

TunnelPlist == Does("tunnel_plist", "shadow", [host EXCEPT !.plists = @ \union {"tunnel"}])

\* Another listener is a hard stop.
StartShadow == ~ host.shadow /\ Does("shadow", "smoke", [host EXCEPT !.shadow = TRUE])

\* The shadow is healthy, its smoke test passes, its port is free again.
StopShadow ==
  /\ boot.at = "smoke"
  /\ host' = [host EXCEPT !.shadow = FALSE]
  /\ boot' = [boot EXCEPT !.at = "idle", !.last = "applied"]
  /\ UNCHANGED <<cutoverVars, left>>

BootStep ==
  \/ Checkout \/ Release \/ Extract \/ OnlyWheels \/ KeepWheels
  \/ MakeVenv \/ Install \/ KeepRuntime \/ Builder
  \/ Config \/ Prompts \/ KeepPrompts \/ AppendResource \/ BootCopies
  \/ Link \/ EmptyMarker \/ Mark \/ HomePlist \/ TunnelPlist \/ StartShadow \/ StopShadow

\* What a step that is cut off may leave: a checkout that is not clean, a wheelhouse
\* that is not whole, a tunnel plist that was overwritten in its place.
Torn ==
  {host} \union
  CASE boot.at = "repo"         -> {[host EXCEPT !.repo = "partial"]}
    [] boot.at = "wheels"       -> {[host EXCEPT !.wheels[boot.of] = IF @ = Absent THEN "partial" ELSE @]}
    [] boot.at = "tunnel_plist" -> {[host EXCEPT !.plists = @ \ {"tunnel"}]}
    [] OTHER                    -> {}

\* A copy that is cut off has copied some files.
CopiedSome ==
  IF boot.at = "data"
  THEN \E part \in SUBSET {f \in Files : source[f] # 0} :
         copy' = [f \in Files |-> IF f \in part THEN source[f] ELSE copy[f]]
  ELSE UNCHANGED copy

\* A command fails, or a check refuses: the EXIT trap stops the shadow.
BootFails ==
  /\ boot.at # "idle"
  /\ \E h \in Torn : host' = [h EXCEPT !.shadow = h.shadow /\ boot.at # "smoke"]
  /\ boot' = [boot EXCEPT !.at = "idle", !.last = "refused"]
  /\ CopiedSome
  /\ UNCHANGED <<loaded, source, writes, scriptVars, left>>

BootKilled ==
  /\ boot.at # "idle"
  /\ host' \in Torn
  /\ boot' = [boot EXCEPT !.at = "idle", !.last = "killed"]
  /\ CopiedSome
  /\ UNCHANGED <<loaded, source, writes, scriptVars, left>>

-------------------------------------------------------------------------------
(* The cutover on this host.                                               *)

\* What the cutover asks of the host before it stops anything.
Bootstrapped ==
  /\ host.runtime # Absent
  /\ host.current \in host.releases
  /\ host.plists = {"home", "tunnel"}

CheckHost(s) ==
  /\ boot.at = "idle"
  /\ Check(s)
  /\ at'[s] = "arm" => Bootstrapped
  /\ UNCHANGED bootVars

CutoverStep(s) == ScriptStep(s) /\ UNCHANGED bootVars

BootstrapNext ==
  \/ \E c \in Candidates, a \in Archives : BeginBoot(c, a)
  \/ BootStep \/ BootFails \/ BootKilled
  \/ \E s \in Scripts : CheckHost(s) \/ CutoverStep(s) \/ (Kill(s) /\ UNCHANGED bootVars)
  \/ \E f \in Files : (UserWrite(f) \/ UserRemove(f)) /\ UNCHANGED bootVars

BootstrapSpec ==
  /\ BootstrapInit
  /\ [][BootstrapNext]_vars
  /\ \A s \in Scripts : WF_vars(CutoverStep(s))

-------------------------------------------------------------------------------
(* Properties.                                                             *)

\* A run that says it has applied leaves every part at its candidate, though for
\* the prompts and the runtime that it found and kept.
AppliedIsWhole ==
  boot.last = "applied" =>
    /\ <<host.repo, host.current, host.marker>> = <<boot.of, boot.of, boot.of>>
    /\ host.config = [of |-> boot.of, resource |-> TRUE]
    /\ boot.of \in host.releases /\ host.plists = {"home", "tunnel"} /\ ~ host.shadow
    /\ "prompts" \notin boot.kept => host.prompts = boot.of
    /\ {"wheels", "runtime"} \intersect boot.kept = {} => host.runtime = boot.archive /\ boot.archive \notin Mixed

\* Wherever runs were cut short, what a plist names can be started: the pointer
\* names a complete release, beside a runtime, a config and prompts; and only one
\* run that was killed with its shadow holds the shadow's port.
PlistsCanStart ==
  /\ host.plists # {} =>
       /\ host.current \in host.releases
       /\ Absent \notin {host.runtime, host.config.of, host.prompts, host.marker}
  /\ host.shadow /\ boot.at = "idle" => host.plists # {} /\ boot.last # "applied"

\* What the bootstrap reports is what it leaves, and what it leaves unfinished is
\* never less than the last run that finished had.
BootstrapIsSound == AppliedIsWhole /\ PlistsCanStart
===============================================================================
