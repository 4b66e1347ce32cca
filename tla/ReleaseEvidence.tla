---------------------------- MODULE ReleaseEvidence ----------------------------
(***************************************************************************)
(* Evidence for a public release: the gates that a checkout can prove      *)
(* (run_release_evidence.py), a candidate repository built, verified and   *)
(* audited anew (run_clean_clone_evidence.py, create_public_release_       *)
(* candidate.py), and the manifest that binds all evidence to one commit   *)
(* (build_release_evidence_manifest.py).                                   *)
(*                                                                         *)
(* The three commands read a checkout that somebody works in meanwhile,    *)
(* one fact at a time; each may die after any of its steps.  The hashes of *)
(* a commit are its tree and its lockfile.  The age of an artifact against *)
(* --as-of is one answer; so are the numbers that a test run reports.      *)
(***************************************************************************)
EXTENDS Naturals, Sequences, FiniteSets, Functions

CONSTANTS
  Commits,
  Lock,         \* the digest of uv.lock in each commit
  Literals,     \* versions of the private list of forbidden literals
  Leaks,        \* pairs of a commit and a list that has a literal found in it
  LocalKinds,   \* the sequence of LOCAL_ARTIFACT_TYPES
  Policy,       \* the sequence of all kinds, as ARTIFACT_POLICY has them
  MaxChanges,   \* bound: changes of the checkout, of the literals and of the candidate
  MaxStarts,    \* bound: commands started
  None

Edits == {"source", "lock", "license"}

Kinds == Range(Policy)

ASSUME EvidenceAssumption ==
  /\ None \notin Commits \union Literals \union Edits
  /\ Lock \in [Commits -> Literals \union Nat]
  /\ Leaks \subseteq Commits \X Literals
  /\ \A c \in Commits : \E l \in Literals : <<c, l>> \notin Leaks
  /\ Policy \in Seq(STRING) /\ LocalKinds \in Seq(STRING) \ {<<>>}
  /\ Range(LocalKinds) \subseteq Kinds \ {"clean_clone"} /\ "clean_clone" \in Kinds
  /\ MaxStarts \in Nat

VARIABLES
  head,        \* the commit that is checked out
  edited,      \* what the worktree changes in it: a member of Edits, or None
  literals,    \* the private list
  changes,     \* how often each of these and the candidate changed
  starts,      \* commands started
  evidence,    \* the artifact of each kind
  candidate,   \* the candidate repository
  sheet,       \* its release manifest
  manifest,    \* the release evidence manifest
  local, clone, builder   \* the three commands

checkoutVars == <<head, edited, literals, changes>>
fileVars == <<evidence, candidate, sheet, manifest>>
vars == <<head, edited, literals, changes, starts, evidence, candidate, sheet, manifest, local, clone, builder>>

Idle == [at |-> "idle"]

Worktree == [commit |-> head, edited |-> edited]
Clean(c) == [commit |-> c, edited |-> None]

-------------------------------------------------------------------------------
(* The identity of a repository, read one fact at a time.                  *)

\* What a fact is when it is read; the lockfile is the file in the worktree.
Fact(name) ==
  CASE name = "dirty" -> edited # None
    [] name = "lock"  -> IF edited = "lock" THEN None ELSE Lock[head]
    [] OTHER          -> head

LocalFacts == <<"commit", "tree", "dirty", "lock">>
BuilderFacts == <<"lock", "commit", "tree", "dirty">>

NoIdentity == [commit |-> None, tree |-> None, dirty |-> TRUE, lock |-> None]
IdentityOf(c) == [commit |-> c, tree |-> c, dirty |-> FALSE, lock |-> Lock[c]]

\* The next fact of order, put into identity.
Read(identity, order, step) == [identity EXCEPT ![order[step]] = Fact(order[step])]

-------------------------------------------------------------------------------
(* Whoever works in the checkout, and the owner.                           *)

Change(what, Effect) ==
  /\ changes.checkout + changes.literals + changes.candidate < MaxChanges
  /\ changes' = [changes EXCEPT ![what] = @ + 1]
  /\ Effect
  /\ UNCHANGED <<starts, evidence, manifest, local, clone, builder>>

Checkout(c) ==
  Change("checkout",
         /\ head' = c /\ edited' = None
         /\ head # c \/ edited # None
         /\ UNCHANGED <<literals, candidate, sheet>>)

Edit(what) ==
  Change("checkout",
         /\ edited = None /\ edited' = what
         /\ UNCHANGED <<head, literals, candidate, sheet>>)

EditLiterals(version) ==
  Change("literals",
         /\ literals # version /\ literals' = version
         /\ UNCHANGED <<head, edited, candidate, sheet>>)

\* Somebody changes a file in the candidate, or changes it back.
Tamper ==
  Change("candidate",
         /\ candidate # None
         /\ candidate' = [candidate EXCEPT !.whole = ~@]
         /\ UNCHANGED <<head, edited, literals, sheet>>)

\* Evidence from before: made for the commit, or established by the owner.
Earlier(c) ==
  [status |-> "pass", enough |-> TRUE, repository |-> IdentityOf(c), on |-> {Clean(c)}, changed |-> 0,
   digest |-> CHOOSE l \in Literals : <<c, l>> \notin Leaks, intact |-> TRUE, tampered |-> 0]

\* What a run left behind is cleared away for the next one.
RemoveOutputs ==
  /\ clone = Idle
  /\ candidate # None \/ evidence.clean_clone # None
  /\ candidate' = None /\ sheet' = None
  /\ evidence' = [evidence EXCEPT !.clean_clone = None]
  /\ UNCHANGED <<checkoutVars, starts, manifest, local, clone, builder>>

Start ==
  /\ starts < MaxStarts
  /\ starts' = starts + 1

-------------------------------------------------------------------------------
(* run_release_evidence.                                                   *)

OnlyLocal == UNCHANGED <<checkoutVars, candidate, sheet, manifest, clone, builder>>

\* _repository_identity, the first time.
LocalStart(mode) ==
  /\ local = Idle
  /\ Start
  /\ local' = [at |-> "identify", step |-> 1, mode |-> mode, since |-> changes.checkout,
               identity |-> NoIdentity, again |-> NoIdentity, ran |-> <<>>]
  /\ UNCHANGED evidence /\ OnlyLocal

LocalIdentify ==
  /\ local.at = "identify"
  /\ LET identity == Read(local.identity, LocalFacts, local.step)
     IN local' =
          IF local.step < Len(LocalFacts)
          THEN [local EXCEPT !.identity = identity, !.step = @ + 1]
          ELSE IF local.mode = "final" /\ identity.dirty THEN Idle
               ELSE [local EXCEPT !.at = "run", !.identity = identity, !.step = 1]
  /\ UNCHANGED <<starts, evidence>> /\ OnlyLocal

\* What a gate's reports say: that it passed, that it passed but misses a threshold that
\* only the manifest knows, or that it failed.
Reports == {"good", "weak", "bad"}

\* _run_commands, in the worktree as it is now.
Ran(report) == Append(local.ran, [report |-> report, on |-> Worktree])

\* The commands of a gate: one that fails ends the run.
LocalRun ==
  /\ local.at = "run"
  /\ \/ local' = Idle
     \/ \E report \in Reports :
          LET ran == Ran(report)
          IN local' = IF Len(ran) < Len(LocalKinds)
                      THEN [local EXCEPT !.ran = ran]
                      ELSE [local EXCEPT !.ran = ran, !.at = "recheck"]
  /\ UNCHANGED <<starts, evidence>> /\ OnlyLocal

\* Mutant: the identity is not compared with the one before the commands.
SameAlways == TRUE

Same == local.again = local.identity

LocalRecheck ==
  /\ local.at = "recheck"
  /\ local' = [local EXCEPT !.again = Read(@, LocalFacts, local.step),
                            !.step = IF @ < Len(LocalFacts) THEN @ + 1 ELSE 1,
                            !.at = IF local.step < Len(LocalFacts) THEN "recheck" ELSE "compare"]
  /\ UNCHANGED <<starts, evidence>> /\ OnlyLocal

LocalCompare ==
  /\ local.at = "compare"
  /\ local' = IF Same THEN [local EXCEPT !.at = "write"] ELSE Idle
  /\ UNCHANGED <<starts, evidence>> /\ OnlyLocal

\* The status of _artifact.
Status(run) ==
  IF run.report = "bad" THEN "fail"
  ELSE IF local.mode = "final" /\ ~local.identity.dirty THEN "pass" ELSE "development_pass"

\* _atomic_private_json of this runner renames a whole file over the one before.
Replaced(kind, artifact) == [evidence EXCEPT ![kind] = artifact]

\* The artifacts replace those of an earlier run, one by one.
LocalWrite ==
  /\ local.at = "write"
  /\ LET run == local.ran[local.step]
     IN evidence' = Replaced(LocalKinds[local.step],
          [status |-> Status(run), enough |-> run.report = "good",
           repository |-> local.identity, on |-> {r.on : r \in Range(local.ran)},
           changed |-> changes.checkout - local.since])
  /\ local' = IF local.step < Len(LocalKinds) THEN [local EXCEPT !.step = @ + 1] ELSE Idle
  /\ UNCHANGED starts /\ OnlyLocal

LocalDies ==
  /\ local # Idle
  /\ local' = Idle
  /\ UNCHANGED <<starts, evidence>> /\ OnlyLocal

-------------------------------------------------------------------------------
(* run_clean_clone_evidence.                                               *)

OnlyClone == UNCHANGED <<checkoutVars, manifest, local, builder>>

Goto(place) == clone' = [clone EXCEPT !.at = place]

\* The command names the commit to clone.
CloneStart(c) ==
  /\ clone = Idle
  /\ Start
  /\ clone' = [at |-> "resolve", commit |-> c, step |-> 1, again |-> FALSE, digest |-> None,
               loaded |-> None, check |-> FALSE, on |-> {}, intact |-> FALSE,
               since |-> changes.checkout, before |-> changes.candidate]
  /\ UNCHANGED <<evidence, candidate, sheet>> /\ OnlyClone

\* _resolve_source: status, then HEAD, then the two scripts as the commit has them;
\* the tree and the lockfile are the commit's.  Scripts may be the same in all commits.
Resolves(step) ==
  CASE step = 1 -> edited = None
    [] step = 2 -> head = clone.commit
    [] OTHER    -> edited # "source"

CloneResolve ==
  /\ clone.at = "resolve"
  /\ IF ~Resolves(clone.step) THEN clone' = Idle
     ELSE clone' = [clone EXCEPT !.step = IF @ < 3 THEN @ + 1 ELSE 1,
                                 !.at = IF clone.step < 3 THEN "resolve"
                                        ELSE IF clone.again THEN "write" ELSE "inputs"]
  /\ UNCHANGED <<starts, evidence, candidate, sheet>> /\ OnlyClone

\* _ensure_safe_destinations of the creator, and _validate_destinations.
OutputsFree == candidate = None /\ sheet = None
DestinationsFree == OutputsFree /\ evidence.clean_clone = None

\* _validate_external_literals takes the digest, then the destinations are checked.
CloneInputs ==
  /\ clone.at = "inputs"
  /\ clone' = IF DestinationsFree
              THEN [clone EXCEPT !.at = "load", !.digest = literals]
              ELSE Idle
  /\ UNCHANGED <<starts, evidence, candidate, sheet>> /\ OnlyClone

\* Both runs of the creator, a script of the worktree, read the literals first.
CreatorLoads ==
  /\ clone.at = "load"
  /\ clone' = [clone EXCEPT !.loaded = literals, !.on = @ \union {Worktree},
                            !.at = IF clone.check THEN "audit" ELSE "create"]
  /\ UNCHANGED <<starts, evidence, candidate, sheet>> /\ OnlyClone

\* _scan_content on every blob of the commit finds no literal of the list.
Scanned(list) == <<clone.commit, list>> \notin Leaks

\* create_candidate up to the rename of the repository it prepared.
Creates ==
  /\ clone.at = "create"
  /\ IF edited = None /\ OutputsFree /\ Scanned(clone.loaded)
     THEN /\ candidate' = [source |-> clone.commit, whole |-> TRUE]
          /\ Goto("sheet")
     ELSE clone' = Idle /\ UNCHANGED candidate
  /\ UNCHANGED <<starts, evidence, sheet>> /\ OnlyClone

\* The manifest of a candidate that this run scanned with a list.
SheetOf(list) == [source |-> clone.commit, literals |-> list]

\* A crash before this step leaves a candidate without its manifest.
CreatorWritesSheet ==
  /\ clone.at = "sheet"
  /\ sheet' = SheetOf(clone.loaded)
  /\ Goto("fields")
  /\ UNCHANGED <<starts, evidence, candidate>> /\ OnlyClone

\* Mutant: the literals that the sheet names are not compared.
FieldsHoldForAnyLiterals ==
  /\ sheet # None
  /\ sheet.source = clone.commit
  /\ candidate = [source |-> clone.commit, whole |-> TRUE]

\* _manifest_fields: the sheet and the repository against what the run knows.
FieldsHold ==
  /\ sheet = SheetOf(clone.digest)
  /\ candidate = [source |-> clone.commit, whole |-> TRUE]

CloneFields ==
  /\ clone.at = "fields"
  /\ clone' = IF ~FieldsHold THEN Idle
              ELSE IF clone.check THEN [clone EXCEPT !.at = "resolve", !.again = TRUE]
              ELSE [clone EXCEPT !.at = "verify"]
  /\ UNCHANGED <<starts, evidence, candidate, sheet>> /\ OnlyClone

\* The verify command, in the candidate: it fails or passes.
CloneVerify ==
  /\ clone.at = "verify"
  /\ \/ clone' = Idle
     \/ clone' = [clone EXCEPT !.at = "load", !.check = TRUE, !.intact = candidate.whole]
  /\ UNCHANGED <<starts, evidence, candidate, sheet>> /\ OnlyClone

\* check_candidate: scanned again, and the sheet is the one it would write now.
AuditHolds ==
  /\ candidate.whole
  /\ Scanned(clone.loaded)
  /\ sheet = SheetOf(clone.loaded)

CloneAudit ==
  /\ clone.at = "audit"
  /\ IF AuditHolds THEN Goto("fields") ELSE clone' = Idle
  /\ UNCHANGED <<starts, evidence, candidate, sheet>> /\ OnlyClone

\* _atomic_private_json of this runner creates the file and writes into it: a crash tears it.
Created(artifact) ==
  {[evidence EXCEPT !.clean_clone = IF @ = None THEN [artifact EXCEPT !.status = status] ELSE @] :
     status \in {"pass", "torn"}}

CloneWrite ==
  /\ clone.at = "write"
  /\ evidence' \in Created(
       [status |-> "pass", enough |-> TRUE,
        repository |-> IdentityOf(clone.commit), on |-> clone.on,
        changed |-> changes.checkout - clone.since,
        digest |-> clone.digest, intact |-> clone.intact,
        tampered |-> changes.candidate - clone.before])
  /\ clone' = Idle
  /\ UNCHANGED <<starts, candidate, sheet>> /\ OnlyClone

CloneDies ==
  /\ clone # Idle
  /\ clone' = Idle
  /\ UNCHANGED <<starts, evidence, candidate, sheet>> /\ OnlyClone

-------------------------------------------------------------------------------
(* build_manifest.                                                         *)

OnlyBuilder == UNCHANGED <<checkoutVars, evidence, candidate, sheet, local, clone>>

BuilderStart(mode) ==
  /\ builder = Idle
  /\ Start
  /\ builder' = [at |-> "identify", step |-> 1, mode |-> mode, identity |-> NoIdentity,
                 blocked |-> FALSE, licensed |-> FALSE, used |-> {}]
  /\ UNCHANGED manifest /\ OnlyBuilder

BuilderIdentify ==
  /\ builder.at = "identify"
  /\ builder' = [builder EXCEPT !.identity = Read(@, BuilderFacts, builder.step),
                   !.step = IF @ < Len(BuilderFacts) THEN @ + 1 ELSE 1,
                   !.at = IF builder.step < Len(BuilderFacts) THEN "identify" ELSE "gates"]
  /\ UNCHANGED <<starts, manifest>> /\ OnlyBuilder

\* _repository_gates: the required files, LICENSE among them, are the worktree's.
BuilderGates ==
  /\ builder.at = "gates"
  /\ builder' = [builder EXCEPT !.at = "artifacts", !.blocked = builder.identity.dirty,
                                !.licensed = (edited # "license")]
  /\ UNCHANGED <<starts, manifest>> /\ OnlyBuilder

\* The metrics of an artifact meet ARTIFACT_POLICY.
MeetsPolicy(artifact) == artifact.enough

\* The checks of _artifact_record but the age.
GatePasses(kind) ==
  LET artifact == evidence[kind]
  IN /\ artifact # None
     /\ artifact.status = "pass" /\ MeetsPolicy(artifact)
     /\ artifact.repository = [builder.identity EXCEPT !.dirty = FALSE]
     /\ kind = "license_review" => builder.licensed

BuilderReads ==
  /\ builder.at = "artifacts"
  /\ \E timely \in BOOLEAN :
       LET kind == Policy[builder.step]
           passes == timely /\ GatePasses(kind) /\ ~builder.blocked
       IN builder' = [builder EXCEPT
            !.blocked = ~passes,
            !.used = IF passes THEN @ \union {evidence[kind]} ELSE {},
            !.step = @ + 1,
            !.at = IF builder.step < Len(Policy) THEN "artifacts" ELSE "write"]
  /\ UNCHANGED <<starts, manifest>> /\ OnlyBuilder

BuilderWrites ==
  /\ builder.at = "write"
  /\ manifest' = [ready |-> builder.mode = "final" /\ ~builder.blocked,
                  repository |-> builder.identity, used |-> builder.used]
  /\ builder' = Idle
  /\ UNCHANGED starts /\ OnlyBuilder

BuilderDies ==
  /\ builder # Idle
  /\ builder' = Idle
  /\ UNCHANGED <<starts, manifest>> /\ OnlyBuilder

-------------------------------------------------------------------------------
Init ==
  /\ head \in Commits /\ edited = None /\ literals \in Literals
  /\ changes = [checkout |-> 0, literals |-> 0, candidate |-> 0]
  /\ starts = 0
  /\ evidence = [kind \in Kinds |-> Earlier(head)]
  /\ candidate = None /\ sheet = None /\ manifest = None
  /\ local = Idle /\ clone = Idle /\ builder = Idle

Next ==
  \/ \E c \in Commits : Checkout(c) \/ CloneStart(c)
  \/ \E what \in Edits : Edit(what)
  \/ \E version \in Literals : EditLiterals(version)
  \/ Tamper \/ RemoveOutputs
  \/ \E mode \in {"development", "final"} : LocalStart(mode)
  \/ \E mode \in {"pre-release", "final"} : BuilderStart(mode)
  \/ LocalIdentify \/ LocalRun \/ LocalRecheck \/ LocalCompare \/ LocalWrite \/ LocalDies
  \/ CloneResolve \/ CloneInputs \/ CreatorLoads \/ Creates \/ CreatorWritesSheet
  \/ CloneFields \/ CloneVerify \/ CloneAudit \/ CloneWrite \/ CloneDies
  \/ BuilderIdentify \/ BuilderGates \/ BuilderReads \/ BuilderWrites \/ BuilderDies

Spec == Init /\ [][Next]_vars

-------------------------------------------------------------------------------
\* Every variable has its type.
EvidenceTypeOK ==
  /\ head \in Commits /\ edited \in Edits \union {None} /\ literals \in Literals
  /\ starts \in 0..MaxStarts
  /\ \A kind \in Kinds : evidence[kind] = None
       \/ evidence[kind].status \in {"pass", "development_pass", "fail", "torn"}
  /\ candidate = None \/ candidate \in [source : Commits, whole : BOOLEAN]
  /\ sheet = None \/ sheet \in [source : Commits, literals : Literals]
  /\ manifest = None \/ manifest.ready \in BOOLEAN

\* A manifest that says release_ready names the identity of one commit, although it read
\* that identity fact by fact in a checkout that moves, and every piece of evidence it
\* counted is of that commit: each command saw the clean worktree of it, unless the
\* checkout changed twice during the run, when the second change may undo the first.
ReadyIsEarned ==
  (manifest # None /\ manifest.ready) =>
    \E c \in Commits :
      /\ manifest.repository = IdentityOf(c)
      /\ Cardinality(manifest.used) > 0
      /\ \A artifact \in manifest.used :
           /\ artifact.repository = IdentityOf(c)
           /\ artifact.on \subseteq {Clean(c)} \/ artifact.changed >= 2

\* Evidence of a clean clone that passed: the commit had been scanned with the very
\* literals whose digest the run names, though each process reads that file anew, no
\* literal of them is in it, and the candidate that was verified had the commit's content,
\* unless it was changed twice meanwhile.
CloneEvidenceHolds ==
  LET artifact == evidence.clean_clone
  IN (artifact # None /\ artifact.status = "pass") =>
       /\ <<artifact.repository.commit, artifact.digest>> \notin Leaks
       /\ artifact.intact \/ artifact.tampered >= 2
===============================================================================
