------------------------- MODULE ReleaseEvidence_proofs -------------------------
(***************************************************************************)
(* Theorems about the evidence for a release, for any commits, lists of    *)
(* literals, kinds of evidence and numbers of changes and commands: types, *)
(* that a ready manifest was earned on the commit it names, and that a     *)
(* clean clone was scanned with the literals it names.                     *)
(*                                                                         *)
(* The facts of a checkout are read one by one.  What makes two readings    *)
(* good for something is that a single change between them shows in the    *)
(* later one; the invariant says, for each command, what it has seen when   *)
(* nothing changed since it started, and when one change was made.         *)
(***************************************************************************)
EXTENDS ReleaseEvidence, TLAPS, FiniteSetTheorems

Worktrees == [commit : Commits, edited : Edits \union {None}]

Identities == [commit : Commits \union {None}, tree : Commits \union {None}, dirty : BOOLEAN,
               lock : Range(Lock) \union {None}]

Statuses == {"pass", "development_pass", "fail", "torn"}

LocalArtifacts ==
  [status : Statuses, enough : BOOLEAN, repository : Identities, on : SUBSET Worktrees, changed : Nat]

CloneArtifacts ==
  [status : Statuses, enough : BOOLEAN, repository : Identities, on : SUBSET Worktrees, changed : Nat,
   digest : Literals, intact : BOOLEAN, tampered : Nat]

Artifacts == LocalArtifacts \union CloneArtifacts

Gates == [report : Reports, on : Worktrees]

LocalRuns ==
  [at : {"identify", "run", "recheck", "compare", "write"}, step : Nat, mode : {"development", "final"},
   since : Nat, identity : Identities, again : Identities, ran : Seq(Gates)]

CloneRuns ==
  [at : {"resolve", "inputs", "load", "create", "sheet", "fields", "verify", "audit", "write"},
   commit : Commits, step : 1..3, again : BOOLEAN, digest : Literals \union {None},
   loaded : Literals \union {None}, check : BOOLEAN, on : SUBSET Worktrees, intact : BOOLEAN,
   since : Nat, before : Nat]

BuilderRuns ==
  [at : {"identify", "gates", "artifacts", "write"}, step : Nat, mode : {"pre-release", "final"},
   identity : Identities, blocked : BOOLEAN, licensed : BOOLEAN, used : SUBSET Artifacts]

-------------------------------------------------------------------------------
(* The invariant.                                                          *)

FilesOK ==
  /\ head \in Commits /\ edited \in Edits \union {None} /\ literals \in Literals
  /\ changes \in [checkout : Nat, literals : Nat, candidate : Nat]
  /\ starts \in 0..MaxStarts
  /\ candidate \in {None} \union [source : Commits, whole : BOOLEAN]
  /\ sheet \in {None} \union [source : Commits, literals : Literals]
  /\ manifest = None \/ manifest.ready \in BOOLEAN

\* Evidence that passed is of one clean worktree, but for two changes.
Good(artifact) ==
  artifact.status = "pass" =>
    /\ ~ artifact.repository.dirty
    /\ artifact.on \subseteq {Clean(artifact.repository.commit)} \/ artifact.changed >= 2

OfOneCommit(identity) == \E c \in Commits : identity = IdentityOf(c)

EvidenceOK ==
  /\ evidence \in [Kinds -> {None} \union Artifacts]
  /\ \A kind \in Kinds : evidence[kind] # None => Good(evidence[kind])
  /\ evidence["clean_clone"] # None =>
       /\ evidence["clean_clone"] \in CloneArtifacts
       /\ OfOneCommit(evidence["clean_clone"].repository)

\* Whoever read that far has the facts of the worktree as it is now.
UpToDate(identity, step) ==
  /\ step > 1 => identity.commit = head
  /\ step > 3 => identity.dirty = (edited # None)

\* All gates ran in the clean worktree of the commit.
RanClean == \A i \in DOMAIN local.ran : local.ran[i].on = Clean(local.identity.commit)

LocalTyped ==
  /\ local \in {Idle} \union LocalRuns
  /\ local # Idle => local.since <= changes.checkout
  /\ local.at \in {"identify", "recheck"} => local.step \in 1..4
  /\ local.at \in {"run", "compare"} => local.step = 1
  /\ local.at = "run" => Len(local.ran) < Len(LocalKinds)
  /\ local.at \in {"recheck", "compare", "write"} => Len(local.ran) = Len(LocalKinds)
  /\ local.at = "write" => local.step \in 1..Len(LocalKinds)
  /\ local.at = "identify" => local.ran = <<>>

\* Nothing changed: all is as it was read.  One change: all gates ran before it or the
\* second reading shows it.
LocalStory ==
  /\ local.at = "identify" /\ changes.checkout = local.since => UpToDate(local.identity, local.step)
  /\ local.at \in {"run", "recheck", "compare"} /\ changes.checkout = local.since =>
       /\ UpToDate(local.identity, 4)
       /\ \A i \in DOMAIN local.ran : local.ran[i].on = Worktree
  /\ local.at \in {"run", "recheck", "compare"} /\ changes.checkout = local.since + 1 /\ ~ local.identity.dirty =>
       \/ RanClean
       \/ /\ Worktree # Clean(local.identity.commit)
          /\ local.at = "recheck" => UpToDate(local.again, local.step)
          /\ local.at = "compare" => UpToDate(local.again, 4)
  /\ local.at = "write" /\ changes.checkout <= local.since + 1 /\ ~ local.identity.dirty => RanClean

LocalOK == LocalTyped /\ LocalStory

\* Where a clone has its candidate and has not yet verified it.
WithCandidate == {"sheet", "fields", "verify"}

CloneTyped ==
  /\ clone \in {Idle} \union CloneRuns
  /\ clone # Idle => clone.since <= changes.checkout /\ clone.before <= changes.candidate
  /\ clone # Idle =>
       /\ clone.at # "resolve" => clone.step = 1
       /\ clone.again => clone.check /\ clone.at \in {"resolve", "write"}
       /\ clone.at = "write" \/ (clone.check /\ clone.at = "resolve") => clone.again
       /\ clone.check => clone.at \in {"load", "audit", "fields", "resolve", "write"}
       /\ clone.at \notin {"resolve", "inputs"} \/ clone.check => clone.digest \in Literals
       /\ clone.at \in {"create", "sheet", "audit"} => clone.loaded \in Literals
       /\ clone.at = "audit" => clone.check
       /\ clone.at \in WithCandidate \/ clone.check => candidate \in [source : Commits, whole : BOOLEAN]

\* The creator ran in the clean worktree of the commit.
CreatedClean == clone.on \subseteq {Clean(clone.commit)}

CloneOn ==
  clone # Idle =>
    /\ changes.checkout = clone.since =>
         /\ CreatedClean
         /\ IF clone.at = "resolve" /\ ~ clone.again
            THEN /\ clone.step > 1 => edited = None
                 /\ clone.step > 2 => head = clone.commit
            ELSE Worktree = Clean(clone.commit)
    /\ changes.checkout = clone.since + 1 =>
         \/ CreatedClean
         \/ /\ Worktree # Clean(clone.commit)
            /\ clone.at # "write"
            /\ clone.again => clone.step = 1 \/ (clone.step = 2 /\ edited = None)

CloneScanned ==
  clone # Idle =>
    /\ clone.at \in {"sheet", "fields"} /\ ~ clone.check => <<clone.commit, clone.loaded>> \notin Leaks
    /\ clone.at = "fields" /\ ~ clone.check => sheet = SheetOf(clone.loaded)
    /\ clone.at = "verify" \/ clone.check => <<clone.commit, clone.digest>> \notin Leaks

CloneWhole ==
  clone # Idle =>
    /\ clone.at \in WithCandidate /\ ~ clone.check /\ changes.candidate = clone.before => candidate.whole
    /\ clone.check /\ changes.candidate = clone.before => clone.intact /\ candidate.whole
    /\ clone.check /\ changes.candidate = clone.before + 1 =>
         clone.intact \/ (clone.at \in {"load", "audit"} /\ ~ candidate.whole)

CloneOK == CloneTyped /\ CloneOn /\ CloneScanned /\ CloneWhole

\* What a builder that nothing blocked has counted is good evidence of its identity.
Counted ==
  /\ ~ builder.identity.dirty
  /\ \A artifact \in builder.used :
       artifact.repository = builder.identity /\ artifact.status = "pass" /\ Good(artifact)
  /\ IsFiniteSet(builder.used)
  /\ builder.step > 1 => builder.used # {}
  /\ (\E j \in DOMAIN Policy : j < builder.step /\ Policy[j] = "clean_clone") => OfOneCommit(builder.identity)

BuilderOK ==
  /\ builder \in {Idle} \union BuilderRuns
  /\ builder.at = "identify" => builder.step \in 1..4
  /\ builder.at = "gates" => builder.step = 1
  /\ builder.at \in {"identify", "gates"} => builder.used = {}
  /\ builder.at = "artifacts" => builder.step \in 1..Len(Policy)
  /\ builder.at = "write" => builder.step = Len(Policy) + 1
  /\ builder.at \in {"artifacts", "write"} /\ ~ builder.blocked => Counted

EvidenceInv ==
  /\ FilesOK /\ EvidenceOK /\ LocalOK /\ CloneOK /\ BuilderOK
  /\ ReadyIsEarned /\ CloneEvidenceHolds

-------------------------------------------------------------------------------
(* Identities.                                                             *)

\* A fact that is read joins the identity and leaves the others as they were.
LEMMA ReadLocalFact ==
  ASSUME FilesOK, NEW identity \in Identities, NEW step \in 1..4,
         NEW new, new = Read(identity, LocalFacts, step)
  PROVE  /\ new \in Identities
         /\ step = 1 => new.commit = head
         /\ step # 1 => new.commit = identity.commit
         /\ step = 3 => new.dirty = (edited # None)
         /\ step # 3 => new.dirty = identity.dirty
<1> head \in Commits
  BY DEF FilesOK
<1>0. Lock[head] \in Range(Lock)
  BY EvidenceAssumption DEF Range
<1>1. CASE step = 1
  <2>1. LocalFacts[step] = "commit" /\ Fact("commit") = head
    BY <1>1 DEF LocalFacts, Fact
  <2>2. new = [identity EXCEPT !.commit = head]
    BY <2>1 DEF Read
  <2> QED
    BY <1>1, <2>2 DEF Identities
<1>2. CASE step = 2
  <2>1. LocalFacts[step] = "tree" /\ Fact("tree") = head
    BY <1>2 DEF LocalFacts, Fact
  <2>2. new = [identity EXCEPT !.tree = head]
    BY <2>1 DEF Read
  <2> QED
    BY <1>2, <2>2 DEF Identities
<1>3. CASE step = 3
  <2>1. LocalFacts[step] = "dirty" /\ Fact("dirty") = (edited # None)
    BY <1>3 DEF LocalFacts, Fact
  <2>2. new = [identity EXCEPT !.dirty = (edited # None)]
    BY <2>1 DEF Read
  <2>3. PICK dirty \in BOOLEAN : dirty = (edited # None)
    OBVIOUS
  <2>4. new = [identity EXCEPT !.dirty = dirty]
    BY <2>2, <2>3
  <2>5. /\ new \in Identities /\ new.dirty = dirty
        /\ new.commit = identity.commit
    BY <2>4 DEF Identities
  <2> QED
    BY <1>3, <2>3, <2>5
<1>4. CASE step = 4
  <2>1. LocalFacts[step] = "lock" /\ Fact("lock") \in Range(Lock) \union {None}
    BY <1>0, <1>4 DEF LocalFacts, Fact
  <2>2. new = [identity EXCEPT !.lock = Fact("lock")]
    BY <2>1 DEF Read
  <2> QED
    BY <1>4, <2>1, <2>2 DEF Identities
<1> QED
  BY <1>1, <1>2, <1>3, <1>4

LEMMA ReadBuilderFact ==
  ASSUME FilesOK, NEW identity \in Identities, NEW step \in 1..4
  PROVE  Read(identity, BuilderFacts, step) \in Identities
<1> USE EvidenceAssumption DEF FilesOK, Identities
<1>0. Lock[head] \in Range(Lock)
  BY DEF Range
<1>1. CASE step = 1
  <2>1. BuilderFacts[step] = "lock" /\ Fact("lock") \in Range(Lock) \union {None}
    BY <1>0, <1>1 DEF BuilderFacts, Fact
  <2>2. Read(identity, BuilderFacts, step) = [identity EXCEPT !.lock = Fact("lock")]
    BY <2>1 DEF Read
  <2> QED
    BY <2>1, <2>2
<1>2. CASE step = 2
  <2>1. BuilderFacts[step] = "commit" /\ Fact("commit") = head
    BY <1>2 DEF BuilderFacts, Fact
  <2>2. Read(identity, BuilderFacts, step) = [identity EXCEPT !.commit = head]
    BY <2>1 DEF Read
  <2> QED
    BY <2>2
<1>3. CASE step = 3
  <2>1. BuilderFacts[step] = "tree" /\ Fact("tree") = head
    BY <1>3 DEF BuilderFacts, Fact
  <2>2. Read(identity, BuilderFacts, step) = [identity EXCEPT !.tree = head]
    BY <2>1 DEF Read
  <2> QED
    BY <2>2
<1>4. CASE step = 4
  <2>1. BuilderFacts[step] = "dirty" /\ Fact("dirty") = (edited # None)
    BY <1>4 DEF BuilderFacts, Fact
  <2>2. Read(identity, BuilderFacts, step) = [identity EXCEPT !.dirty = (edited # None)]
    BY <2>1 DEF Read
  <2> QED
    BY <2>2
<1> QED
  BY <1>1, <1>2, <1>3, <1>4

LEMMA IdentityTyped ==
  ASSUME NEW c \in Commits
  PROVE  IdentityOf(c) \in Identities
BY EvidenceAssumption DEF IdentityOf, Identities, Range

-------------------------------------------------------------------------------
(* The gates that a checkout can prove.                                    *)

LocalSteps ==
  \/ \E mode \in {"development", "final"} : LocalStart(mode)
  \/ LocalIdentify \/ LocalRun \/ LocalRecheck \/ LocalCompare \/ LocalWrite \/ LocalDies

LEMMA LocalRunning ==
  ASSUME LocalTyped, local.at # "idle"
  PROVE  local \in LocalRuns /\ local # Idle
BY DEF LocalTyped, Idle

LEMMA LocalAtRest ==
  ASSUME local' = Idle
  PROVE  LocalOK'
BY DEF LocalOK, LocalTyped, LocalStory, Idle

LEMMA LocalStartKeeps ==
  ASSUME FilesOK, NEW mode \in {"development", "final"}, LocalStart(mode)
  PROVE  LocalOK'
<1>1. NoIdentity \in Identities
  BY DEF NoIdentity, Identities
<1>2. local' = [at |-> "identify", step |-> 1, mode |-> mode, since |-> changes.checkout,
                identity |-> NoIdentity, again |-> NoIdentity, ran |-> <<>>]
  BY DEF LocalStart
<1>3. local' \in LocalRuns
  BY <1>1, <1>2 DEF LocalRuns, FilesOK
<1>4. /\ local'.at = "identify" /\ local'.step = 1 /\ local'.since = changes.checkout
      /\ local'.ran = <<>>
  BY <1>2
<1>5. changes' = changes /\ changes.checkout \in Nat
  BY DEF LocalStart, OnlyLocal, checkoutVars, FilesOK
<1> QED
  BY <1>3, <1>4, <1>5 DEF LocalOK, LocalTyped, LocalStory, UpToDate

LEMMA LocalIdentifyKeeps ==
  ASSUME FilesOK, LocalOK, LocalIdentify
  PROVE  LocalOK'
<1>1. /\ local \in LocalRuns /\ local # Idle /\ local.at = "identify" /\ local.step \in 1..4
      /\ local.identity \in Identities /\ local.ran = <<>> /\ local.since <= changes.checkout
      /\ local.since \in Nat
  BY LocalRunning DEF LocalOK, LocalTyped, LocalIdentify, LocalRuns
<1>2. UNCHANGED <<head, edited, changes>> /\ changes.checkout \in Nat
  BY DEF LocalIdentify, OnlyLocal, checkoutVars, FilesOK
<1> DEFINE new == Read(local.identity, LocalFacts, local.step)
<1>3. /\ new \in Identities
      /\ local.step = 1 => new.commit = head
      /\ local.step # 1 => new.commit = local.identity.commit
      /\ local.step = 3 => new.dirty = (edited # None)
      /\ local.step # 3 => new.dirty = local.identity.dirty
  BY <1>1, ReadLocalFact
<1>4. local' = IF local.step < 4
               THEN [local EXCEPT !.identity = new, !.step = @ + 1]
               ELSE IF local.mode = "final" /\ new.dirty THEN Idle
                    ELSE [local EXCEPT !.at = "run", !.identity = new, !.step = 1]
  BY DEF LocalIdentify, LocalFacts
<1>5. changes.checkout = local.since => UpToDate(local.identity, local.step)
  BY <1>1 DEF LocalOK, LocalStory
<1> HIDE DEF new
<1>6. CASE local.step < 4
  <2>1. local' = [local EXCEPT !.identity = new, !.step = @ + 1]
    BY <1>4, <1>6
  <2> local.step + 1 \in Nat /\ local.step + 1 \in 1..4
    BY <1>1, <1>6
  <2>a. local' = [local EXCEPT !.identity = new, !.step = local.step + 1]
    BY <2>1
  <2>2. /\ local' \in LocalRuns /\ local'.at = "identify" /\ local'.step = local.step + 1
        /\ local'.identity = new /\ local'.since = local.since /\ local'.ran = <<>>
    BY <1>1, <1>3, <2>a DEF LocalRuns
  <2>3. changes.checkout = local.since => UpToDate(new, local.step + 1)
    BY <1>1, <1>3, <1>5, <1>6 DEF UpToDate
  <2> QED
    BY <1>1, <1>2, <2>2, <2>3 DEF LocalOK, LocalTyped, LocalStory, UpToDate
<1>7. CASE local.step = 4
  <2>1. CASE local.mode = "final" /\ new.dirty
    BY <1>4, <1>7, <2>1, LocalAtRest
  <2>2. CASE ~ (local.mode = "final" /\ new.dirty)
    <3>1. local' = [local EXCEPT !.at = "run", !.identity = new, !.step = 1]
      BY <1>4, <1>7, <2>2
    <3>2. /\ local' \in LocalRuns /\ local'.at = "run" /\ local'.step = 1
          /\ local'.identity = new /\ local'.since = local.since /\ local'.ran = <<>>
      BY <1>1, <1>3, <3>1 DEF LocalRuns
    <3>3. changes.checkout = local.since => UpToDate(new, 4)
      BY <1>1, <1>3, <1>5, <1>7 DEF UpToDate
    <3>4. Len(local'.ran) < Len(LocalKinds) /\ \A i \in DOMAIN local'.ran : FALSE
      BY <3>2, EvidenceAssumption
    <3> QED
      BY <1>1, <1>2, <3>2, <3>3, <3>4 DEF LocalOK, LocalTyped, LocalStory, UpToDate, RanClean
  <2> QED
    BY <2>1, <2>2
<1> QED
  BY <1>1, <1>6, <1>7

\* The first gates may run after a change: then the second reading is yet to come.
LEMMA LocalRunKeeps ==
  ASSUME FilesOK, LocalOK, LocalRun
  PROVE  LocalOK'
<1>1. /\ local \in LocalRuns /\ local # Idle /\ local.at = "run" /\ local.step = 1
      /\ local.identity \in Identities /\ local.ran \in Seq(Gates)
      /\ local.since <= changes.checkout /\ local.since \in Nat
      /\ Len(local.ran) < Len(LocalKinds)
  BY LocalRunning DEF LocalOK, LocalTyped, LocalRun, LocalRuns
<1>2. UNCHANGED <<head, edited, changes>> /\ changes.checkout \in Nat
  BY DEF LocalRun, OnlyLocal, checkoutVars, FilesOK
<1>3. CASE local' = Idle
  BY <1>3, LocalAtRest
<1>4. ASSUME NEW report \in Reports,
             local' = IF Len(Ran(report)) < Len(LocalKinds)
                      THEN [local EXCEPT !.ran = Ran(report)]
                      ELSE [local EXCEPT !.ran = Ran(report), !.at = "recheck"]
      PROVE  LocalOK'
  <2> DEFINE ran == Ran(report)
  <2>1. Worktree \in Worktrees
    BY DEF Worktree, Worktrees, FilesOK
  <2>2. [report |-> report, on |-> Worktree] \in Gates
    BY <2>1 DEF Gates
  <2>3. /\ ran \in Seq(Gates) /\ Len(ran) = Len(local.ran) + 1
        /\ \A i \in DOMAIN ran : \/ (i \in DOMAIN local.ran /\ ran[i] = local.ran[i])
                                  \/ ran[i].on = Worktree
    BY <1>1, <2>2 DEF Ran
  <2> Len(LocalKinds) \in Nat /\ Len(local.ran) \in Nat
    BY <1>1, EvidenceAssumption
  <2> HIDE DEF ran
  <2>4. /\ local' \in LocalRuns /\ local'.at \in {"run", "recheck"} /\ local'.step = 1
        /\ local'.identity = local.identity /\ local'.since = local.since /\ local'.ran = ran
        /\ local'.at = "run" => Len(ran) < Len(LocalKinds)
        /\ local'.at = "recheck" => Len(ran) = Len(LocalKinds)
    <3>1. CASE Len(ran) < Len(LocalKinds)
      <4>1. local' = [local EXCEPT !.ran = ran]
        BY <1>4, <3>1 DEF ran
      <4> QED
        BY <1>1, <2>3, <3>1, <4>1 DEF LocalRuns
    <3>2. CASE ~ (Len(ran) < Len(LocalKinds))
      <4>1. local' = [local EXCEPT !.ran = ran, !.at = "recheck"]
        BY <1>4, <3>2 DEF ran
      <4>2. Len(ran) = Len(LocalKinds)
        BY <1>1, <2>3, <3>2
      <4> QED
        BY <1>1, <2>3, <4>2, <4>1 DEF LocalRuns
    <3> QED
      BY <3>1, <3>2
  <2>5. LocalTyped'
    BY <1>1, <1>2, <2>4 DEF LocalTyped, Idle
  <2>6. changes.checkout = local.since =>
          /\ UpToDate(local.identity, 4)
          /\ \A i \in DOMAIN ran : ran[i].on = Worktree
    BY <1>1, <2>3 DEF LocalOK, LocalStory
  <2>7. changes.checkout = local.since + 1 /\ ~ local.identity.dirty =>
          \/ \A i \in DOMAIN ran : ran[i].on = Clean(local.identity.commit)
          \/ Worktree # Clean(local.identity.commit)
    BY <1>1, <2>3 DEF LocalOK, LocalStory, RanClean
  <2>8. LocalStory'
    BY <1>1, <1>2, <2>4, <2>6, <2>7 DEF LocalStory, UpToDate, RanClean, Worktree, Clean
  <2> QED
    BY <2>5, <2>8 DEF LocalOK
<1> QED
  BY <1>3, <1>4 DEF LocalRun

LEMMA LocalRecheckKeeps ==
  ASSUME FilesOK, LocalOK, LocalRecheck
  PROVE  LocalOK'
<1>1. /\ local \in LocalRuns /\ local # Idle /\ local.at = "recheck" /\ local.step \in 1..4
      /\ local.again \in Identities /\ local.since <= changes.checkout /\ local.since \in Nat
      /\ Len(local.ran) = Len(LocalKinds)
  BY LocalRunning DEF LocalOK, LocalTyped, LocalRecheck, LocalRuns
<1>2. UNCHANGED <<head, edited, changes>> /\ changes.checkout \in Nat
  BY DEF LocalRecheck, OnlyLocal, checkoutVars, FilesOK
<1> DEFINE new == Read(local.again, LocalFacts, local.step)
<1>3. /\ new \in Identities
      /\ local.step = 1 => new.commit = head
      /\ local.step # 1 => new.commit = local.again.commit
      /\ local.step = 3 => new.dirty = (edited # None)
      /\ local.step # 3 => new.dirty = local.again.dirty
  BY <1>1, ReadLocalFact
<1> DEFINE step == IF local.step < 4 THEN local.step + 1 ELSE 1
           at == IF local.step < 4 THEN "recheck" ELSE "compare"
<1>4. local' = [local EXCEPT !.again = new, !.step = step, !.at = at]
  BY DEF LocalRecheck, LocalFacts
<1>5. /\ step \in 1..4 /\ step \in Nat /\ at \in {"recheck", "compare"}
      /\ at = "compare" => step = 1 /\ local.step = 4
      /\ at = "recheck" => step = local.step + 1
  BY <1>1
<1> HIDE DEF new, step, at
<1>6. /\ local' \in LocalRuns /\ local'.at = at /\ local'.step = step /\ local'.again = new
      /\ local'.identity = local.identity /\ local'.since = local.since /\ local'.ran = local.ran
  BY <1>1, <1>3, <1>4, <1>5 DEF LocalRuns
<1>7. LocalTyped'
  BY <1>1, <1>2, <1>5, <1>6 DEF LocalTyped, Idle
<1>8. UpToDate(local.again, local.step) =>
        /\ at = "recheck" => UpToDate(new, step)
        /\ at = "compare" => UpToDate(new, 4)
  BY <1>1, <1>3, <1>5 DEF UpToDate
<1>9. LocalStory'
  BY <1>1, <1>2, <1>5, <1>6, <1>8 DEF LocalOK, LocalStory, UpToDate, RanClean, Worktree, Clean
<1> QED
  BY <1>7, <1>9 DEF LocalOK

\* The comparison fails if one change was made that a gate ran after.
LEMMA LocalCompareKeeps ==
  ASSUME FilesOK, LocalOK, LocalCompare
  PROVE  LocalOK'
<1>1. /\ local \in LocalRuns /\ local # Idle /\ local.at = "compare" /\ local.step = 1
      /\ local.since <= changes.checkout /\ local.since \in Nat
      /\ local.identity \in Identities
      /\ Len(local.ran) = Len(LocalKinds) /\ local.ran \in Seq(Gates)
  BY LocalRunning DEF LocalOK, LocalTyped, LocalCompare, LocalRuns
<1>2. UNCHANGED <<head, edited, changes>> /\ changes.checkout \in Nat
  BY DEF LocalCompare, OnlyLocal, checkoutVars, FilesOK
<1>3. CASE local.again = local.identity
  <2>1. local' = [local EXCEPT !.at = "write"]
    BY <1>3 DEF LocalCompare, Same
  <2>2. /\ local' \in LocalRuns /\ local'.at = "write" /\ local'.step = 1
        /\ local'.identity = local.identity /\ local'.since = local.since /\ local'.ran = local.ran
    BY <1>1, <2>1 DEF LocalRuns
  <2>3. Len(LocalKinds) \in Nat \ {0}
    BY EvidenceAssumption
  <2>4. LocalTyped'
    BY <1>1, <1>2, <2>2, <2>3 DEF LocalTyped, Idle
  <2>5. UpToDate(local.identity, 4) /\ ~ local.identity.dirty => Worktree = Clean(local.identity.commit)
    <3> SUFFICES ASSUME UpToDate(local.identity, 4), ~ local.identity.dirty
                 PROVE  head = local.identity.commit /\ edited = None
      BY DEF Worktree, Clean
    <3>1. local.identity.dirty = (edited # None)
      BY DEF UpToDate
    <3>2. edited = None
      BY <3>1
    <3> QED
      BY <3>2 DEF UpToDate
  <2>6. changes.checkout = local.since /\ ~ local.identity.dirty => RanClean
    BY <1>1, <2>5 DEF LocalOK, LocalStory, RanClean
  <2>7. changes.checkout = local.since + 1 /\ ~ local.identity.dirty => RanClean
    BY <1>1, <1>3, <2>5 DEF LocalOK, LocalStory
  <2>8. LocalStory'
    BY <1>1, <1>2, <2>2, <2>6, <2>7 DEF LocalStory, RanClean, Clean
  <2> QED
    BY <2>4, <2>8 DEF LocalOK
<1>4. CASE local.again # local.identity
  BY <1>4, LocalAtRest DEF LocalCompare, Same
<1> QED
  BY <1>3, <1>4

LEMMA LocalWriteKeeps ==
  ASSUME FilesOK, LocalOK, LocalWrite
  PROVE  LocalOK'
<1>1. /\ local \in LocalRuns /\ local # Idle /\ local.at = "write"
      /\ local.step \in 1..Len(LocalKinds)
      /\ local.since <= changes.checkout /\ local.since \in Nat
      /\ Len(local.ran) = Len(LocalKinds)
  BY LocalRunning DEF LocalOK, LocalTyped, LocalWrite, LocalRuns
<1>2. UNCHANGED <<head, edited, changes>> /\ changes.checkout \in Nat
  BY DEF LocalWrite, OnlyLocal, checkoutVars, FilesOK
<1>3. CASE local.step < Len(LocalKinds)
  <2>0. local.step + 1 \in Nat /\ local.step + 1 \in 1..Len(LocalKinds)
    BY <1>1, <1>3, EvidenceAssumption
  <2>1. local' = [local EXCEPT !.step = local.step + 1]
    BY <1>3 DEF LocalWrite
  <2>2. /\ local' \in LocalRuns /\ local'.at = "write" /\ local'.step = local.step + 1
        /\ local'.identity = local.identity /\ local'.since = local.since /\ local'.ran = local.ran
    BY <1>1, <2>0, <2>1 DEF LocalRuns
  <2>3. LocalTyped'
    BY <1>1, <1>2, <2>0, <2>2 DEF LocalTyped, Idle
  <2>4. LocalStory'
    BY <1>1, <1>2, <2>2 DEF LocalOK, LocalStory, RanClean, Clean
  <2> QED
    BY <2>3, <2>4 DEF LocalOK
<1>4. CASE ~ (local.step < Len(LocalKinds))
  BY <1>4, LocalAtRest DEF LocalWrite
<1> QED
  BY <1>3, <1>4

LEMMA LocalKeeps ==
  ASSUME FilesOK, LocalOK, LocalSteps
  PROVE  LocalOK'
BY LocalStartKeeps, LocalIdentifyKeeps, LocalRunKeeps, LocalRecheckKeeps, LocalCompareKeeps,
   LocalWriteKeeps, LocalAtRest DEF LocalSteps, LocalDies

\* The checkout changes while a command runs or not.
LEMMA LocalElse ==
  ASSUME FilesOK, LocalOK, UNCHANGED local,
         \/ UNCHANGED <<head, edited>> /\ changes'.checkout = changes.checkout
         \/ changes'.checkout = changes.checkout + 1 /\ Worktree' # Worktree
  PROVE  LocalOK'
<1>1. CASE local = Idle
  BY <1>1, LocalAtRest
<1>2. CASE local # Idle
  <2>1. /\ local \in LocalRuns /\ local.since <= changes.checkout /\ local.since \in Nat
        /\ changes.checkout \in Nat /\ local.identity \in Identities
    BY <1>2 DEF LocalOK, LocalTyped, LocalRuns, FilesOK
  <2>2. LocalTyped'
    BY <1>2, <2>1 DEF LocalOK, LocalTyped
  <2>3. CASE UNCHANGED <<head, edited>> /\ changes'.checkout = changes.checkout
    BY <2>2, <2>3 DEF LocalOK, LocalStory, UpToDate, RanClean, Worktree, Clean
  <2>4. CASE changes'.checkout = changes.checkout + 1 /\ Worktree' # Worktree
    <3>1. /\ local.at \in {"run", "recheck", "compare"}
          /\ changes.checkout = local.since /\ ~ local.identity.dirty
          => RanClean
      <4> SUFFICES ASSUME local.at \in {"run", "recheck", "compare"},
                          changes.checkout = local.since, ~ local.identity.dirty
                   PROVE  RanClean
        OBVIOUS
      <4>1. local.identity.commit = head /\ local.identity.dirty = (edited # None)
        BY DEF LocalOK, LocalStory, UpToDate
      <4>2. edited = None
        BY <4>1
      <4> QED
        BY <4>1, <4>2 DEF LocalOK, LocalStory, RanClean, Worktree, Clean
    <3>2. /\ changes'.checkout # local.since
          /\ changes'.checkout = local.since + 1 => changes.checkout = local.since
          /\ changes'.checkout <= local.since + 1 => changes.checkout <= local.since + 1
      BY <2>1, <2>4
    <3>3. local.at = "write" /\ changes'.checkout <= local.since + 1 /\ ~ local.identity.dirty => RanClean
      BY <3>2 DEF LocalOK, LocalStory
    <3>4. LocalStory'
      BY <3>1, <3>2, <3>3 DEF LocalStory, RanClean, Clean
    <3> QED
      BY <2>2, <3>4 DEF LocalOK
  <2> QED
    BY <2>3, <2>4
<1> QED
  BY <1>1, <1>2

\* What a run writes is good, and no evidence of a clean clone.
LEMMA LocalEvidence ==
  ASSUME FilesOK, LocalOK, EvidenceOK, CloneEvidenceHolds, LocalWrite
  PROVE  EvidenceOK' /\ CloneEvidenceHolds'
<1>1. /\ local \in LocalRuns /\ local.at = "write" /\ local.step \in 1..Len(LocalKinds)
      /\ local.since <= changes.checkout /\ local.since \in Nat /\ local.identity \in Identities
      /\ Len(local.ran) = Len(LocalKinds) /\ local.ran \in Seq(Gates)
      /\ changes.checkout \in Nat
  BY LocalRunning DEF LocalOK, LocalTyped, LocalWrite, LocalRuns, FilesOK
<1>2. /\ LocalKinds[local.step] \in Kinds \ {"clean_clone"} /\ "clean_clone" \in Kinds
      /\ local.ran[local.step] \in Gates
      /\ \A i \in DOMAIN local.ran : local.ran[i].on \in Worktrees
  <2>1. local.step \in DOMAIN LocalKinds /\ local.step \in DOMAIN local.ran
    BY <1>1, EvidenceAssumption
  <2>2. LocalKinds[local.step] \in Range(LocalKinds)
    BY <2>1 DEF Range
  <2>3. \A i \in DOMAIN local.ran : local.ran[i] \in Gates
    BY <1>1
  <2> QED
    BY <2>1, <2>2, <2>3, EvidenceAssumption DEF Gates
<1> DEFINE kind == LocalKinds[local.step]
           run == local.ran[local.step]
           seen == {r.on : r \in Range(local.ran)}
           changed == changes.checkout - local.since
           enough == run.report = "good"
           artifact == [status |-> Status(run), enough |-> enough,
                        repository |-> local.identity, on |-> seen, changed |-> changed]
<1>3. evidence' = [evidence EXCEPT ![kind] = artifact]
  BY DEF LocalWrite, Replaced
<1>4. Status(run) \in Statuses /\ (Status(run) = "pass" => ~ local.identity.dirty)
  BY DEF Status, Statuses
<1>5. seen \subseteq Worktrees
  BY <1>2 DEF Range
<1>6. changed \in Nat
  BY <1>1
<1> enough \in BOOLEAN
  OBVIOUS
<1> HIDE DEF enough
<1>7. artifact \in LocalArtifacts
  BY <1>1, <1>4, <1>5, <1>6 DEF LocalArtifacts
<1>8. Good(artifact)
  <2>0. /\ artifact.status = Status(run) /\ artifact.repository = local.identity
        /\ artifact.on = seen /\ artifact.changed = changed
    OBVIOUS
  <2>1. ASSUME Status(run) = "pass"
        PROVE  ~ local.identity.dirty /\ (seen \subseteq {Clean(local.identity.commit)} \/ changed >= 2)
    <3>1. ~ local.identity.dirty
      BY <1>4, <2>1
    <3>2. CASE changes.checkout <= local.since + 1
      <4>1. RanClean
        BY <1>1, <3>1, <3>2 DEF LocalOK, LocalStory
      <4> QED
        BY <3>1, <4>1 DEF RanClean, Range
    <3>3. CASE ~ (changes.checkout <= local.since + 1)
      BY <1>1, <3>1, <3>3
    <3> QED
      BY <3>2, <3>3
  <2> HIDE DEF seen, run, changed, artifact
  <2> QED
    BY <2>0, <2>1 DEF Good
<1> HIDE DEF kind, artifact
<1>9. /\ evidence' \in [Kinds -> {None} \union Artifacts]
      /\ evidence'["clean_clone"] = evidence["clean_clone"]
      /\ \A k \in Kinds : evidence'[k] = evidence[k] \/ evidence'[k] = artifact
  BY <1>2, <1>3, <1>7 DEF EvidenceOK, Artifacts, kind
<1>10. \A k \in Kinds : evidence'[k] # None => Good(evidence'[k])
  BY <1>8, <1>9 DEF EvidenceOK
<1>11. EvidenceOK'
  BY <1>9, <1>10 DEF EvidenceOK, Good, Clean, OfOneCommit
<1> QED
  BY <1>9, <1>11 DEF CloneEvidenceHolds

-------------------------------------------------------------------------------
(* The clean clone.                                                        *)

CloneSteps ==
  \/ \E c \in Commits : CloneStart(c)
  \/ CloneResolve \/ CloneInputs \/ CreatorLoads \/ Creates \/ CreatorWritesSheet
  \/ CloneFields \/ CloneVerify \/ CloneAudit \/ CloneWrite \/ CloneDies

LEMMA CloneRunning ==
  ASSUME FilesOK, CloneTyped, clone.at # "idle"
  PROVE  /\ clone \in CloneRuns /\ clone # Idle
         /\ clone.since \in Nat /\ clone.since <= changes.checkout /\ changes.checkout \in Nat
         /\ clone.before \in Nat /\ clone.before <= changes.candidate /\ changes.candidate \in Nat
BY DEF CloneTyped, CloneRuns, FilesOK, Idle

LEMMA CloneAtRest ==
  ASSUME clone' = Idle
  PROVE  CloneOK'
BY DEF CloneOK, CloneTyped, CloneOn, CloneScanned, CloneWhole, Idle

LEMMA CloneStartKeeps ==
  ASSUME FilesOK, NEW c \in Commits, CloneStart(c)
  PROVE  CloneOK'
<1>1. clone' = [at |-> "resolve", commit |-> c, step |-> 1, again |-> FALSE, digest |-> None,
                loaded |-> None, check |-> FALSE, on |-> {}, intact |-> FALSE,
                since |-> changes.checkout, before |-> changes.candidate]
  BY DEF CloneStart
<1>2. clone' \in CloneRuns
  BY <1>1 DEF CloneRuns, FilesOK
<1>3. /\ clone'.at = "resolve" /\ clone'.step = 1 /\ ~ clone'.again /\ ~ clone'.check
      /\ clone'.on = {} /\ clone'.since = changes.checkout /\ clone'.before = changes.candidate
  BY <1>1
<1>4. changes' = changes /\ changes.checkout \in Nat /\ changes.candidate \in Nat
  BY DEF CloneStart, OnlyClone, checkoutVars, FilesOK
<1>5. CloneTyped'
  BY <1>2, <1>3, <1>4 DEF CloneTyped, WithCandidate
<1>6. CloneOn'
  BY <1>3, <1>4 DEF CloneOn, CreatedClean
<1>7. CloneScanned' /\ CloneWhole'
  BY <1>3 DEF CloneScanned, CloneWhole, WithCandidate
<1> QED
  BY <1>5, <1>6, <1>7 DEF CloneOK

\* The first look at the source finds what the second compares with.
LEMMA CloneResolveKeeps ==
  ASSUME FilesOK, CloneOK, CloneResolve
  PROVE  CloneOK'
<1>1. /\ clone \in CloneRuns /\ clone # Idle /\ clone.at = "resolve" /\ clone.step \in 1..3
      /\ clone.since <= changes.checkout /\ clone.since \in Nat
      /\ clone.before <= changes.candidate /\ clone.before \in Nat
      /\ changes.checkout \in Nat /\ changes.candidate \in Nat
      /\ clone.again \in BOOLEAN /\ clone.check \in BOOLEAN
  BY CloneRunning DEF CloneOK, CloneTyped, CloneResolve, CloneRuns
<1>2. UNCHANGED <<head, edited, literals, changes, candidate, sheet>>
  BY DEF CloneResolve, OnlyClone, checkoutVars
<1>3. CASE ~ Resolves(clone.step)
  BY <1>3, CloneAtRest DEF CloneResolve
<1>4. CASE Resolves(clone.step)
  <2> DEFINE step == IF clone.step < 3 THEN clone.step + 1 ELSE 1
             at == IF clone.step < 3 THEN "resolve" ELSE IF clone.again THEN "write" ELSE "inputs"
  <2>1. clone' = [clone EXCEPT !.step = step, !.at = at]
    BY <1>4 DEF CloneResolve
  <2>2. /\ step \in 1..3 /\ at \in {"resolve", "write", "inputs"}
        /\ at = "resolve" => step = clone.step + 1
        /\ at # "resolve" => step = 1 /\ clone.step = 3
        /\ at = "write" => clone.again
        /\ at = "inputs" => ~ clone.again
    BY <1>1
  <2> HIDE DEF step, at
  <2>3. /\ clone' \in CloneRuns /\ clone'.at = at /\ clone'.step = step
        /\ clone'.commit = clone.commit /\ clone'.again = clone.again /\ clone'.digest = clone.digest
        /\ clone'.loaded = clone.loaded /\ clone'.check = clone.check /\ clone'.on = clone.on
        /\ clone'.intact = clone.intact /\ clone'.since = clone.since /\ clone'.before = clone.before
    BY <1>1, <2>1, <2>2 DEF CloneRuns
  <2>4. CloneTyped'
    BY <1>1, <1>2, <2>2, <2>3 DEF CloneOK, CloneTyped, WithCandidate, Idle
  <2>5. /\ clone.step = 1 => edited = None
        /\ clone.step = 2 => head = clone.commit
    BY <1>4 DEF Resolves
  <2>6. Worktree = Clean(clone.commit) <=> head = clone.commit /\ edited = None
    BY DEF Worktree, Clean
  <2>7. CloneOn'
    <3>1. ASSUME changes.checkout = clone.since
          PROVE  /\ CreatedClean
                 /\ IF at = "resolve" /\ ~ clone.again
                    THEN (step > 1 => edited = None) /\ (step > 2 => head = clone.commit)
                    ELSE head = clone.commit /\ edited = None
      BY <1>1, <2>2, <2>5, <2>6, <3>1 DEF CloneOK, CloneOn
    <3>2. ASSUME changes.checkout = clone.since + 1
          PROVE  \/ CreatedClean
                 \/ /\ Worktree # Clean(clone.commit)
                    /\ at # "write"
                    /\ clone.again => step = 1 \/ (step = 2 /\ edited = None)
      BY <1>1, <2>2, <2>5, <2>6, <3>2 DEF CloneOK, CloneOn
    <3> QED
      BY <1>1, <1>2, <2>3, <2>6, <3>1, <3>2 DEF CloneOn, CreatedClean, Worktree, Clean
  <2>8. CloneScanned' /\ CloneWhole'
    BY <1>1, <1>2, <2>2, <2>3 DEF CloneOK, CloneScanned, CloneWhole, WithCandidate
  <2> QED
    BY <2>4, <2>7, <2>8 DEF CloneOK
<1> QED
  BY <1>3, <1>4

LEMMA CloneInputsKeeps ==
  ASSUME FilesOK, CloneOK, CloneInputs
  PROVE  CloneOK'
<1>1. /\ clone \in CloneRuns /\ clone # Idle /\ clone.at = "inputs"
      /\ clone.since <= changes.checkout /\ clone.since \in Nat
      /\ clone.before <= changes.candidate /\ clone.before \in Nat
      /\ changes.checkout \in Nat /\ changes.candidate \in Nat
      /\ clone.again \in BOOLEAN /\ clone.check \in BOOLEAN /\ clone.commit \in Commits
      /\ clone.on \subseteq Worktrees /\ clone.step = 1 /\ ~ clone.again
  BY CloneRunning DEF CloneOK, CloneTyped, CloneInputs, CloneRuns
<1>2. UNCHANGED <<head, edited, literals, changes, candidate, sheet>>
  BY DEF CloneInputs, OnlyClone, checkoutVars
<1>3. CASE ~ DestinationsFree
  BY <1>3, CloneAtRest DEF CloneInputs
<1>4. CASE DestinationsFree
  <2>1. clone' = [clone EXCEPT !.at = "load", !.digest = literals]
    BY <1>4 DEF CloneInputs
  <2>2. /\ clone' \in CloneRuns /\ clone'.at = "load" /\ clone'.step = 1 /\ clone'.digest \in Literals
        /\ clone'.commit = clone.commit /\ clone'.again = clone.again
        /\ clone'.check = clone.check /\ clone'.on = clone.on
        /\ clone'.since = clone.since /\ clone'.before = clone.before
    BY <1>1, <2>1 DEF CloneRuns, FilesOK
  <2>3. ~ clone.check
    BY <1>1 DEF CloneOK, CloneTyped
  <2>4. CloneTyped'
    BY <1>1, <1>2, <2>2, <2>3 DEF CloneTyped, WithCandidate, Idle
  <2>5. CloneOn'
    BY <1>1, <1>2, <2>2 DEF CloneOK, CloneOn, CreatedClean, Worktree, Clean
  <2>6. CloneScanned' /\ CloneWhole'
    BY <1>1, <1>2, <2>2, <2>3 DEF CloneScanned, CloneWhole, WithCandidate
  <2> QED
    BY <2>4, <2>5, <2>6 DEF CloneOK
<1> QED
  BY <1>3, <1>4

\* A creator that runs after the one change runs in a worktree that the second look refuses.
LEMMA CreatorLoadsKeeps ==
  ASSUME FilesOK, CloneOK, CreatorLoads
  PROVE  CloneOK'
<1>1. /\ clone \in CloneRuns /\ clone # Idle /\ clone.at = "load"
      /\ clone.since <= changes.checkout /\ clone.since \in Nat
      /\ clone.before <= changes.candidate /\ clone.before \in Nat
      /\ changes.checkout \in Nat /\ changes.candidate \in Nat
      /\ clone.again \in BOOLEAN /\ clone.check \in BOOLEAN /\ clone.commit \in Commits
      /\ clone.on \subseteq Worktrees /\ clone.step = 1 /\ ~ clone.again
  BY CloneRunning DEF CloneOK, CloneTyped, CreatorLoads, CloneRuns
<1>2. UNCHANGED <<head, edited, literals, changes, candidate, sheet>>
  BY DEF CreatorLoads, OnlyClone, checkoutVars
<1> DEFINE at == IF clone.check THEN "audit" ELSE "create"
           on == clone.on \union {Worktree}
<1>3. clone' = [clone EXCEPT !.loaded = literals, !.on = on, !.at = at]
  BY DEF CreatorLoads
<1>4. /\ at \in {"audit", "create"} /\ on \subseteq Worktrees
      /\ at = "audit" <=> clone.check
  BY <1>1 DEF Worktrees, Worktree, FilesOK
<1> HIDE DEF at
<1>5. /\ clone' \in CloneRuns /\ clone'.at = at /\ clone'.step = 1 /\ clone'.loaded = literals
      /\ clone'.commit = clone.commit /\ clone'.again = clone.again /\ clone'.digest = clone.digest
      /\ clone'.check = clone.check /\ clone'.on = on /\ clone'.intact = clone.intact
      /\ clone'.since = clone.since /\ clone'.before = clone.before
  BY <1>1, <1>3, <1>4 DEF CloneRuns, FilesOK
<1>6. CloneTyped'
  BY <1>1, <1>2, <1>4, <1>5 DEF CloneOK, CloneTyped, WithCandidate, Idle, FilesOK
<1>7. CloneOn'
  BY <1>1, <1>2, <1>4, <1>5 DEF CloneOK, CloneOn, CreatedClean, Worktree, Clean
<1>8. CloneScanned' /\ CloneWhole'
  BY <1>1, <1>2, <1>4, <1>5 DEF CloneOK, CloneScanned, CloneWhole, WithCandidate
<1> QED
  BY <1>6, <1>7, <1>8 DEF CloneOK

LEMMA CreatesKeeps ==
  ASSUME FilesOK, CloneOK, Creates
  PROVE  CloneOK' /\ candidate' \in {None} \union [source : Commits, whole : BOOLEAN]
<1>1. /\ clone \in CloneRuns /\ clone # Idle /\ clone.at = "create"
      /\ clone.since <= changes.checkout /\ clone.since \in Nat
      /\ clone.before <= changes.candidate /\ clone.before \in Nat
      /\ changes.checkout \in Nat /\ changes.candidate \in Nat
      /\ clone.again \in BOOLEAN /\ clone.check \in BOOLEAN /\ clone.commit \in Commits
      /\ clone.on \subseteq Worktrees /\ clone.step = 1 /\ ~ clone.again
  BY CloneRunning DEF CloneOK, CloneTyped, Creates, CloneRuns
<1>2. UNCHANGED <<head, edited, literals, changes, sheet>>
  BY DEF Creates, OnlyClone, checkoutVars
<1>3. CASE ~ (edited = None /\ OutputsFree /\ Scanned(clone.loaded))
  BY <1>3, CloneAtRest DEF Creates, FilesOK
<1>4. CASE edited = None /\ OutputsFree /\ Scanned(clone.loaded)
  <2>1. /\ clone' = [clone EXCEPT !.at = "sheet"]
        /\ candidate' = [source |-> clone.commit, whole |-> TRUE]
    BY <1>4 DEF Creates, Goto
  <2>2. /\ clone' \in CloneRuns /\ clone'.at = "sheet" /\ clone'.step = 1
        /\ clone'.commit = clone.commit /\ clone'.again = clone.again /\ clone'.digest = clone.digest
        /\ clone'.loaded = clone.loaded /\ clone'.check = clone.check /\ clone'.on = clone.on
        /\ clone'.since = clone.since /\ clone'.before = clone.before
    BY <1>1, <2>1 DEF CloneRuns
  <2>3. candidate' \in [source : Commits, whole : BOOLEAN] /\ candidate'.whole
    BY <1>1, <2>1
  <2>4. ~ clone.check
    BY <1>1 DEF CloneOK, CloneTyped
  <2>5. CloneTyped'
    BY <1>1, <1>2, <2>2, <2>3, <2>4 DEF CloneOK, CloneTyped, WithCandidate, Idle
  <2>6. CloneOn'
    BY <1>1, <1>2, <2>2 DEF CloneOK, CloneOn, CreatedClean, Worktree, Clean
  <2>7. CloneScanned' /\ CloneWhole'
    BY <1>1, <1>4, <2>2, <2>3, <2>4 DEF CloneScanned, CloneWhole, WithCandidate, Scanned
  <2> QED
    BY <2>3, <2>5, <2>6, <2>7 DEF CloneOK
<1> QED
  BY <1>3, <1>4

LEMMA CreatorWritesSheetKeeps ==
  ASSUME FilesOK, CloneOK, CreatorWritesSheet
  PROVE  CloneOK' /\ sheet' \in [source : Commits, literals : Literals]
<1>1. /\ clone \in CloneRuns /\ clone # Idle /\ clone.at = "sheet"
      /\ clone.since <= changes.checkout /\ clone.since \in Nat
      /\ clone.before <= changes.candidate /\ clone.before \in Nat
      /\ changes.checkout \in Nat /\ changes.candidate \in Nat
      /\ clone.again \in BOOLEAN /\ clone.check \in BOOLEAN /\ clone.commit \in Commits
      /\ clone.on \subseteq Worktrees /\ clone.step = 1 /\ ~ clone.again
  BY CloneRunning DEF CloneOK, CloneTyped, CreatorWritesSheet, CloneRuns
<1>2. UNCHANGED <<head, edited, literals, changes, candidate>>
  BY DEF CreatorWritesSheet, OnlyClone, checkoutVars
<1>3. clone' = [clone EXCEPT !.at = "fields"] /\ sheet' = SheetOf(clone.loaded)
  BY DEF CreatorWritesSheet, Goto
<1>4. /\ clone' \in CloneRuns /\ clone'.at = "fields" /\ clone'.step = 1
      /\ clone'.commit = clone.commit /\ clone'.again = clone.again /\ clone'.digest = clone.digest
      /\ clone'.loaded = clone.loaded /\ clone'.check = clone.check /\ clone'.on = clone.on
      /\ clone'.since = clone.since /\ clone'.before = clone.before
  BY <1>1, <1>3 DEF CloneRuns
<1>5. ~ clone.check /\ clone.loaded \in Literals
  BY <1>1 DEF CloneOK, CloneTyped
<1>6. CloneTyped'
  BY <1>1, <1>2, <1>4, <1>5 DEF CloneOK, CloneTyped, WithCandidate, Idle
<1>7. CloneOn'
  BY <1>1, <1>2, <1>4 DEF CloneOK, CloneOn, CreatedClean, Worktree, Clean
<1>8. CloneScanned' /\ CloneWhole'
  BY <1>1, <1>2, <1>3, <1>4, <1>5 DEF CloneOK, CloneScanned, CloneWhole, WithCandidate, SheetOf
<1> QED
  BY <1>1, <1>3, <1>5, <1>6, <1>7, <1>8 DEF CloneOK, SheetOf

\* The sheet that this run wrote names the literals it scanned with; they are the digest's.
LEMMA CloneFieldsKeeps ==
  ASSUME FilesOK, CloneOK, CloneFields
  PROVE  CloneOK'
<1>1. /\ clone \in CloneRuns /\ clone # Idle /\ clone.at = "fields"
      /\ clone.since <= changes.checkout /\ clone.since \in Nat
      /\ clone.before <= changes.candidate /\ clone.before \in Nat
      /\ changes.checkout \in Nat /\ changes.candidate \in Nat
      /\ clone.again \in BOOLEAN /\ clone.check \in BOOLEAN /\ clone.commit \in Commits
      /\ clone.on \subseteq Worktrees /\ clone.step = 1 /\ ~ clone.again
  BY CloneRunning DEF CloneOK, CloneTyped, CloneFields, CloneRuns
<1>2. UNCHANGED <<head, edited, literals, changes, candidate, sheet>>
  BY DEF CloneFields, OnlyClone, checkoutVars
<1>3. CASE ~ FieldsHold
  BY <1>3, CloneAtRest DEF CloneFields
<1>4. CASE FieldsHold /\ clone.check
  <2>1. clone' = [clone EXCEPT !.at = "resolve", !.again = TRUE]
    BY <1>4 DEF CloneFields
  <2>2. /\ clone' \in CloneRuns /\ clone'.at = "resolve" /\ clone'.step = 1
        /\ clone'.commit = clone.commit /\ clone'.again /\ clone'.digest = clone.digest
        /\ clone'.check /\ clone'.on = clone.on /\ clone'.intact = clone.intact
        /\ clone'.since = clone.since /\ clone'.before = clone.before
    BY <1>1, <1>4, <2>1 DEF CloneRuns
  <2>3. CloneTyped'
    BY <1>1, <1>2, <1>4, <2>2 DEF CloneOK, CloneTyped, WithCandidate, Idle
  <2>4. CloneOn'
    BY <1>1, <1>2, <2>2 DEF CloneOK, CloneOn, CreatedClean, Worktree, Clean
  <2>5. CloneScanned' /\ CloneWhole'
    BY <1>1, <1>2, <1>4, <2>2 DEF CloneOK, CloneScanned, CloneWhole, WithCandidate
  <2> QED
    BY <2>3, <2>4, <2>5 DEF CloneOK
<1>5. CASE FieldsHold /\ ~ clone.check
  <2>1. clone' = [clone EXCEPT !.at = "verify"]
    BY <1>5 DEF CloneFields
  <2>2. /\ clone' \in CloneRuns /\ clone'.at = "verify" /\ clone'.step = 1
        /\ clone'.commit = clone.commit /\ clone'.again = clone.again /\ clone'.digest = clone.digest
        /\ clone'.check = clone.check /\ clone'.on = clone.on
        /\ clone'.since = clone.since /\ clone'.before = clone.before
    BY <1>1, <2>1 DEF CloneRuns
  <2>3. clone.digest = clone.loaded /\ <<clone.commit, clone.loaded>> \notin Leaks
    BY <1>1, <1>5 DEF FieldsHold, SheetOf, CloneOK, CloneScanned
  <2>4. CloneTyped'
    BY <1>1, <1>2, <1>5, <2>2 DEF CloneOK, CloneTyped, WithCandidate, Idle
  <2>5. CloneOn'
    BY <1>1, <1>2, <2>2 DEF CloneOK, CloneOn, CreatedClean, Worktree, Clean
  <2>6. CloneScanned' /\ CloneWhole'
    BY <1>1, <1>2, <1>5, <2>2, <2>3 DEF CloneOK, CloneScanned, CloneWhole, WithCandidate
  <2> QED
    BY <2>4, <2>5, <2>6 DEF CloneOK
<1> QED
  BY <1>3, <1>4, <1>5

LEMMA CloneVerifyKeeps ==
  ASSUME FilesOK, CloneOK, CloneVerify
  PROVE  CloneOK'
<1>1. /\ clone \in CloneRuns /\ clone # Idle /\ clone.at = "verify"
      /\ clone.since <= changes.checkout /\ clone.since \in Nat
      /\ clone.before <= changes.candidate /\ clone.before \in Nat
      /\ changes.checkout \in Nat /\ changes.candidate \in Nat
      /\ clone.again \in BOOLEAN /\ clone.check \in BOOLEAN /\ clone.commit \in Commits
      /\ clone.on \subseteq Worktrees /\ clone.step = 1 /\ ~ clone.again
  BY CloneRunning DEF CloneOK, CloneTyped, CloneVerify, CloneRuns
<1>2. UNCHANGED <<head, edited, literals, changes, candidate, sheet>>
  BY DEF CloneVerify, OnlyClone, checkoutVars
<1>3. CASE clone' = Idle
  BY <1>3, CloneAtRest
<1>4. CASE clone' = [clone EXCEPT !.at = "load", !.check = TRUE, !.intact = candidate.whole]
  <2>1. candidate \in [source : Commits, whole : BOOLEAN] /\ clone.digest \in Literals /\ ~ clone.check
    BY <1>1 DEF CloneOK, CloneTyped, WithCandidate
  <2>2. /\ clone' \in CloneRuns /\ clone'.at = "load" /\ clone'.step = 1
        /\ clone'.commit = clone.commit /\ clone'.again = clone.again /\ clone'.digest = clone.digest
        /\ clone'.check /\ clone'.on = clone.on /\ clone'.intact = candidate.whole
        /\ clone'.since = clone.since /\ clone'.before = clone.before
    BY <1>1, <1>4, <2>1 DEF CloneRuns
  <2>3. CloneTyped'
    BY <1>1, <1>2, <2>1, <2>2 DEF CloneTyped, WithCandidate, Idle
  <2>4. CloneOn'
    BY <1>1, <1>2, <2>2 DEF CloneOK, CloneOn, CreatedClean, Worktree, Clean
  <2>5. CloneScanned' /\ CloneWhole'
    BY <1>1, <1>2, <2>1, <2>2 DEF CloneOK, CloneScanned, CloneWhole, WithCandidate
  <2> QED
    BY <2>3, <2>4, <2>5 DEF CloneOK
<1> QED
  BY <1>3, <1>4 DEF CloneVerify

\* The audit finds a candidate that was changed before the verification.
LEMMA CloneAuditKeeps ==
  ASSUME FilesOK, CloneOK, CloneAudit
  PROVE  CloneOK'
<1>1. /\ clone \in CloneRuns /\ clone # Idle /\ clone.at = "audit"
      /\ clone.since <= changes.checkout /\ clone.since \in Nat
      /\ clone.before <= changes.candidate /\ clone.before \in Nat
      /\ changes.checkout \in Nat /\ changes.candidate \in Nat
      /\ clone.again \in BOOLEAN /\ clone.check \in BOOLEAN /\ clone.commit \in Commits
      /\ clone.on \subseteq Worktrees /\ clone.step = 1 /\ ~ clone.again
  BY CloneRunning DEF CloneOK, CloneTyped, CloneAudit, CloneRuns
<1>2. UNCHANGED <<head, edited, literals, changes, candidate, sheet>>
  BY DEF CloneAudit, OnlyClone, checkoutVars
<1>3. CASE ~ AuditHolds
  BY <1>3, CloneAtRest DEF CloneAudit
<1>4. CASE AuditHolds
  <2>1. clone' = [clone EXCEPT !.at = "fields"] /\ candidate.whole
    BY <1>4 DEF CloneAudit, Goto, AuditHolds
  <2>2. /\ clone' \in CloneRuns /\ clone'.at = "fields" /\ clone'.step = 1
        /\ clone'.commit = clone.commit /\ clone'.again = clone.again /\ clone'.digest = clone.digest
        /\ clone'.check = clone.check /\ clone'.on = clone.on /\ clone'.intact = clone.intact
        /\ clone'.since = clone.since /\ clone'.before = clone.before
    BY <1>1, <2>1 DEF CloneRuns
  <2>3. clone.check
    BY <1>1 DEF CloneOK, CloneTyped
  <2>4. CloneTyped'
    BY <1>1, <1>2, <2>2, <2>3 DEF CloneOK, CloneTyped, WithCandidate, Idle
  <2>5. CloneOn'
    BY <1>1, <1>2, <2>2 DEF CloneOK, CloneOn, CreatedClean, Worktree, Clean
  <2>6. CloneScanned' /\ CloneWhole'
    BY <1>1, <1>2, <2>1, <2>2, <2>3 DEF CloneOK, CloneScanned, CloneWhole, WithCandidate
  <2> QED
    BY <2>4, <2>5, <2>6 DEF CloneOK
<1> QED
  BY <1>3, <1>4

LEMMA CloneKeeps ==
  ASSUME FilesOK, CloneOK, CloneSteps
  PROVE  CloneOK'
BY CloneStartKeeps, CloneResolveKeeps, CloneInputsKeeps, CreatorLoadsKeeps, CreatesKeeps,
   CreatorWritesSheetKeeps, CloneFieldsKeeps, CloneVerifyKeeps, CloneAuditKeeps, CloneAtRest
   DEF CloneSteps, CloneWrite, CloneDies

LEMMA TamperedType ==
  ASSUME NEW old \in [source : Commits, whole : BOOLEAN]
  PROVE  [old EXCEPT !.whole = ~@] \in [source : Commits, whole : BOOLEAN]
<1>1. PICK whole \in BOOLEAN : whole = ~ old.whole
  OBVIOUS
<1>2. [old EXCEPT !.whole = ~@] = [old EXCEPT !.whole = whole]
  BY <1>1
<1> QED
  BY <1>2

\* Somebody else's step: none of what a clone sees, the checkout, or the candidate.
LEMMA CloneElse ==
  ASSUME FilesOK, CloneOK, UNCHANGED clone,
         \/ clone = Idle
         \/ UNCHANGED <<head, edited, changes.checkout, changes.candidate, candidate, sheet>>
         \/ /\ changes'.checkout = changes.checkout + 1 /\ Worktree' # Worktree
            /\ UNCHANGED <<changes.candidate, candidate, sheet>>
         \/ /\ changes'.candidate = changes.candidate + 1
            /\ candidate' = [candidate EXCEPT !.whole = ~@]
            /\ UNCHANGED <<head, edited, changes.checkout, sheet>>
  PROVE  CloneOK'
<1>1. CASE clone = Idle
  BY <1>1, CloneAtRest
<1>2. CASE clone # Idle
  <2>1. /\ clone \in CloneRuns
        /\ clone.since <= changes.checkout /\ clone.since \in Nat
        /\ clone.before <= changes.candidate /\ clone.before \in Nat
        /\ changes.checkout \in Nat /\ changes.candidate \in Nat
    BY <1>2 DEF CloneOK, CloneTyped, CloneRuns, FilesOK
  <2>2. CASE UNCHANGED <<head, edited, changes.checkout, changes.candidate, candidate, sheet>>
    <3>1. CloneTyped'
      BY <1>2, <2>1, <2>2 DEF CloneOK, CloneTyped, WithCandidate
    <3>2. CloneOn'
      BY <1>2, <2>1, <2>2 DEF CloneOK, CloneOn, CreatedClean, Worktree, Clean
    <3>3. CloneScanned' /\ CloneWhole'
      BY <1>2, <2>1, <2>2 DEF CloneOK, CloneScanned, CloneWhole, WithCandidate, SheetOf
    <3> QED
      BY <3>1, <3>2, <3>3 DEF CloneOK
  <2>3. CASE /\ changes'.checkout = changes.checkout + 1 /\ Worktree' # Worktree
             /\ UNCHANGED <<changes.candidate, candidate, sheet>>
    <3>1. CloneTyped'
      BY <1>2, <2>1, <2>3 DEF CloneOK, CloneTyped, WithCandidate
    <3>2. /\ changes'.checkout # clone.since
          /\ changes'.checkout = clone.since + 1 => changes.checkout = clone.since
      BY <2>1, <2>3
    <3>3. changes.checkout = clone.since => CreatedClean
      BY <1>2 DEF CloneOK, CloneOn
    <3>4. CloneOn'
      BY <3>2, <3>3 DEF CloneOn, CreatedClean, Clean
    <3>5. CloneScanned' /\ CloneWhole'
      BY <1>2, <2>1, <2>3 DEF CloneOK, CloneScanned, CloneWhole, WithCandidate, SheetOf
    <3> QED
      BY <3>1, <3>4, <3>5 DEF CloneOK
  <2>4. CASE /\ changes'.candidate = changes.candidate + 1
             /\ candidate' = [candidate EXCEPT !.whole = ~@]
             /\ UNCHANGED <<head, edited, changes.checkout, sheet>>
    <3>1. CloneTyped'
      <4>1. candidate \in [source : Commits, whole : BOOLEAN]
              => candidate' \in [source : Commits, whole : BOOLEAN]
        BY <2>4, TamperedType
      <4> QED
        BY <1>2, <2>1, <2>4, <4>1 DEF CloneOK, CloneTyped, WithCandidate
    <3>2. CloneOn'
      BY <1>2, <2>1, <2>4 DEF CloneOK, CloneOn, CreatedClean, Worktree, Clean
    <3>3. CloneScanned'
      BY <1>2, <2>1, <2>4 DEF CloneOK, CloneScanned, SheetOf
    <3>4. /\ changes'.candidate # clone.before
          /\ changes'.candidate = clone.before + 1 => changes.candidate = clone.before
      BY <2>1, <2>4
    <3>5. CloneWhole'
      BY <1>2, <3>4 DEF CloneOK, CloneWhole
    <3> QED
      BY <3>1, <3>2, <3>3, <3>5 DEF CloneOK
  <2> QED
    BY <1>2, <2>2, <2>3, <2>4
<1> QED
  BY <1>1, <1>2

\* The evidence that a run writes after its second look and its audit is good.
LEMMA CloneEvidence ==
  ASSUME FilesOK, CloneOK, EvidenceOK, CloneEvidenceHolds, CloneWrite
  PROVE  EvidenceOK' /\ CloneEvidenceHolds'
<1>1. /\ clone \in CloneRuns /\ clone # Idle /\ clone.at = "write" /\ clone.check
      /\ clone.since <= changes.checkout /\ clone.since \in Nat
      /\ clone.before <= changes.candidate /\ clone.before \in Nat
      /\ changes.checkout \in Nat /\ changes.candidate \in Nat
      /\ clone.commit \in Commits /\ clone.on \subseteq Worktrees
      /\ clone.digest \in Literals /\ clone.intact \in BOOLEAN
  BY CloneRunning DEF CloneOK, CloneTyped, CloneWrite, CloneRuns
<1> DEFINE changed == changes.checkout - clone.since
           tampered == changes.candidate - clone.before
           artifact == [status |-> "pass", enough |-> TRUE, repository |-> IdentityOf(clone.commit),
                        on |-> clone.on, changed |-> changed, digest |-> clone.digest,
                        intact |-> clone.intact, tampered |-> tampered]
<1>2. evidence' \in Created(artifact)
  BY DEF CloneWrite
<1>3. changed \in Nat /\ tampered \in Nat
  BY <1>1
<1>4. <<clone.commit, clone.digest>> \notin Leaks
  BY <1>1 DEF CloneOK, CloneScanned
<1>5. CreatedClean \/ changed >= 2
  BY <1>1 DEF CloneOK, CloneOn
<1>6. clone.intact \/ tampered >= 2
  BY <1>1 DEF CloneOK, CloneWhole
<1> HIDE DEF changed, tampered
<1>7. /\ artifact \in CloneArtifacts /\ artifact.status = "pass"
      /\ artifact.repository = IdentityOf(clone.commit) /\ artifact.on = clone.on
      /\ artifact.changed = changed /\ artifact.digest = clone.digest
      /\ artifact.intact = clone.intact /\ artifact.tampered = tampered
  BY <1>1, <1>3, IdentityTyped DEF CloneArtifacts, Statuses
<1> HIDE DEF artifact
<1>8. PICK status \in {"pass", "torn"} :
        evidence' = [evidence EXCEPT !["clean_clone"] =
                       IF evidence["clean_clone"] = None THEN [artifact EXCEPT !.status = status]
                       ELSE evidence["clean_clone"]]
  BY <1>2 DEF Created
<1> DEFINE written == [artifact EXCEPT !.status = status]
<1>9. /\ written \in CloneArtifacts
      /\ written.repository = IdentityOf(clone.commit) /\ written.on = clone.on
      /\ written.changed = changed /\ written.digest = clone.digest
      /\ written.intact = clone.intact /\ written.tampered = tampered
  BY <1>7, <1>8 DEF CloneArtifacts, Statuses
<1> HIDE DEF written
<1>10. IdentityOf(clone.commit).commit = clone.commit /\ ~ IdentityOf(clone.commit).dirty
  BY DEF IdentityOf
<1>11. Good(written)
  BY <1>5, <1>9, <1>10 DEF Good, CreatedClean
<1>12. /\ evidence' \in [Kinds -> {None} \union Artifacts]
       /\ \A k \in Kinds : evidence'[k] = evidence[k] \/ evidence'[k] = written
       /\ evidence'["clean_clone"] = IF evidence["clean_clone"] = None THEN written
                                     ELSE evidence["clean_clone"]
  BY <1>8, <1>9, EvidenceAssumption DEF EvidenceOK, Artifacts, written
<1>13. \A k \in Kinds : evidence'[k] # None => Good(evidence'[k])
  BY <1>11, <1>12 DEF EvidenceOK
<1>14. evidence'["clean_clone"] # None =>
         /\ evidence'["clean_clone"] \in CloneArtifacts
         /\ OfOneCommit(evidence'["clean_clone"].repository)
  BY <1>1, <1>9, <1>12 DEF EvidenceOK, OfOneCommit
<1>15. EvidenceOK'
  BY <1>12, <1>13, <1>14 DEF EvidenceOK, Good, Clean, OfOneCommit, IdentityOf
<1>16. CloneEvidenceHolds'
  BY <1>4, <1>6, <1>9, <1>10, <1>12 DEF CloneEvidenceHolds
<1> QED
  BY <1>15, <1>16

-------------------------------------------------------------------------------
(* The manifest.                                                           *)

BuilderSteps ==
  \/ \E mode \in {"pre-release", "final"} : BuilderStart(mode)
  \/ BuilderIdentify \/ BuilderGates \/ BuilderReads \/ BuilderWrites \/ BuilderDies

LEMMA BuilderRunning ==
  ASSUME BuilderOK, builder.at # "idle"
  PROVE  builder \in BuilderRuns
BY DEF BuilderOK, Idle

LEMMA BuilderAtRest ==
  ASSUME builder' = Idle
  PROVE  BuilderOK'
BY DEF BuilderOK, Idle

\* A kind that passes the gate of a builder that nothing blocked is evidence of its identity.
LEMMA GateCounts ==
  ASSUME EvidenceOK, NEW kind \in Kinds, GatePasses(kind),
         builder.identity \in Identities, ~ builder.identity.dirty
  PROVE  /\ evidence[kind] \in Artifacts /\ evidence[kind].repository = builder.identity
         /\ evidence[kind].status = "pass" /\ Good(evidence[kind])
         /\ kind = "clean_clone" => OfOneCommit(builder.identity)
<1>1. evidence[kind] # None /\ evidence[kind].status = "pass"
  BY DEF GatePasses
<1>2. evidence[kind] \in Artifacts /\ Good(evidence[kind])
  BY <1>1 DEF EvidenceOK
<1>3. builder.identity.dirty = FALSE
  BY DEF Identities
<1>4. [builder.identity EXCEPT !.dirty = FALSE] = builder.identity
  BY <1>3 DEF Identities
<1>5. evidence[kind].repository = builder.identity
  BY <1>4 DEF GatePasses
<1> QED
  BY <1>1, <1>2, <1>5 DEF EvidenceOK

LEMMA BuilderKeeps ==
  ASSUME FilesOK, EvidenceOK, BuilderOK, BuilderSteps
  PROVE  BuilderOK'
<1>1. ASSUME NEW mode \in {"pre-release", "final"}, BuilderStart(mode)
      PROVE  BuilderOK'
  <2>1. NoIdentity \in Identities
    BY DEF NoIdentity, Identities
  <2>2. builder' = [at |-> "identify", step |-> 1, mode |-> mode, identity |-> NoIdentity,
                    blocked |-> FALSE, licensed |-> FALSE, used |-> {}]
    BY <1>1 DEF BuilderStart
  <2>3. builder' \in BuilderRuns
    BY <2>1, <2>2 DEF BuilderRuns
  <2> QED
    BY <2>2, <2>3 DEF BuilderOK
<1>2. ASSUME BuilderIdentify
      PROVE  BuilderOK'
  <2>1. /\ builder \in BuilderRuns /\ builder.at = "identify" /\ builder.step \in 1..4
        /\ builder.used = {} /\ builder.identity \in Identities
    BY <1>2, BuilderRunning DEF BuilderIdentify, BuilderOK, BuilderRuns
  <2> DEFINE new == Read(builder.identity, BuilderFacts, builder.step)
             step == IF builder.step < 4 THEN builder.step + 1 ELSE 1
             at == IF builder.step < 4 THEN "identify" ELSE "gates"
  <2>2. builder' = [builder EXCEPT !.identity = new, !.step = step, !.at = at]
    BY <1>2 DEF BuilderIdentify, BuilderFacts
  <2>3. new \in Identities
    BY <2>1, ReadBuilderFact
  <2>4. step \in 1..4 /\ step \in Nat /\ at \in {"identify", "gates"} /\ (at = "gates" => step = 1)
    BY <2>1
  <2> HIDE DEF new, step, at
  <2>5. builder' \in BuilderRuns /\ builder'.at = at /\ builder'.step = step /\ builder'.used = {}
    BY <2>1, <2>2, <2>3, <2>4 DEF BuilderRuns
  <2> QED
    BY <2>4, <2>5 DEF BuilderOK
<1>3. ASSUME BuilderGates
      PROVE  BuilderOK'
  <2>1. /\ builder \in BuilderRuns /\ builder.at = "gates" /\ builder.step = 1
        /\ builder.used = {} /\ builder.identity \in Identities /\ builder.identity.dirty \in BOOLEAN
    BY <1>3, BuilderRunning DEF BuilderGates, BuilderOK, BuilderRuns, Identities
  <2>2. PICK licensed \in BOOLEAN : licensed = (edited # "license")
    OBVIOUS
  <2>3. builder' = [builder EXCEPT !.at = "artifacts", !.blocked = builder.identity.dirty,
                                   !.licensed = licensed]
    BY <1>3, <2>2 DEF BuilderGates
  <2>4. /\ builder' \in BuilderRuns /\ builder'.at = "artifacts" /\ builder'.step = 1
        /\ builder'.used = {} /\ builder'.identity = builder.identity
        /\ builder'.blocked = builder.identity.dirty
    BY <2>1, <2>2, <2>3 DEF BuilderRuns
  <2>5. 1 \in 1..Len(Policy) /\ \A j \in DOMAIN Policy : ~ (j < 1)
    BY EvidenceAssumption DEF Kinds, Range
  <2>6. ~ builder'.blocked => Counted'
    BY <2>4, <2>5, FS_EmptySet DEF Counted
  <2> QED
    BY <2>4, <2>5, <2>6 DEF BuilderOK
<1>4. ASSUME BuilderReads
      PROVE  BuilderOK'
  <2>1. /\ builder \in BuilderRuns /\ builder.at = "artifacts" /\ builder.step \in 1..Len(Policy)
        /\ builder.identity \in Identities /\ builder.used \subseteq Artifacts
        /\ builder.blocked \in BOOLEAN
        /\ ~ builder.blocked => Counted
    BY <1>4, BuilderRunning DEF BuilderReads, BuilderOK, BuilderRuns
  <2>2. Len(Policy) \in Nat /\ DOMAIN Policy = 1..Len(Policy)
    BY EvidenceAssumption
  <2> DEFINE kind == Policy[builder.step]
  <2>3. kind \in Kinds
    BY <2>1, <2>2 DEF Kinds, Range
  <2>4. PICK timely \in BOOLEAN :
          LET passes == timely /\ GatePasses(kind) /\ ~builder.blocked
          IN builder' = [builder EXCEPT
               !.blocked = ~passes,
               !.used = IF passes THEN @ \union {evidence[kind]} ELSE {},
               !.step = @ + 1,
               !.at = IF builder.step < Len(Policy) THEN "artifacts" ELSE "write"]
    BY <1>4 DEF BuilderReads
  <2> DEFINE passes == timely /\ GatePasses(kind) /\ ~builder.blocked
             at == IF builder.step < Len(Policy) THEN "artifacts" ELSE "write"
             step == builder.step + 1
             used == IF passes THEN builder.used \union {evidence[kind]} ELSE {}
  <2>5. PICK blocked \in BOOLEAN : blocked = ~ passes
    OBVIOUS
  <2>6. builder' = [builder EXCEPT !.blocked = blocked, !.used = used, !.step = step, !.at = at]
    BY <2>4, <2>5
  <2>7. /\ step \in Nat /\ at \in {"artifacts", "write"}
        /\ at = "artifacts" => step \in 1..Len(Policy)
        /\ at = "write" => step = Len(Policy) + 1
    BY <2>1, <2>2
  <2>8. passes => /\ Counted /\ ~ builder.identity.dirty
                  /\ evidence[kind] \in Artifacts /\ evidence[kind].repository = builder.identity
                  /\ evidence[kind].status = "pass" /\ Good(evidence[kind])
                  /\ kind = "clean_clone" => OfOneCommit(builder.identity)
    BY <2>1, <2>3, GateCounts DEF Counted
  <2>9. used \subseteq Artifacts
    BY <2>1, <2>8
  <2>10. passes => IsFiniteSet(used) /\ used # {}
    BY <2>8, FS_AddElement DEF Counted
  <2>11. ASSUME passes, NEW j \in DOMAIN Policy, j < step, Policy[j] = "clean_clone"
         PROVE  OfOneCommit(builder.identity)
    <3>1. CASE j = builder.step
      BY <2>8, <2>11, <3>1
    <3>2. CASE j < builder.step
      BY <2>8, <2>11, <3>2 DEF Counted
    <3> QED
      BY <2>1, <2>2, <2>11, <3>1, <3>2
  <2>12. passes => \A artifact \in used :
                     /\ artifact.repository = builder.identity /\ artifact.status = "pass"
                     /\ Good(artifact)
    BY <2>8 DEF Counted
  <2> HIDE DEF passes, used, at, step, kind
  <2>13. /\ builder' \in BuilderRuns /\ builder'.at = at /\ builder'.step = step
         /\ builder'.used = used /\ builder'.identity = builder.identity /\ builder'.blocked = blocked
    BY <2>1, <2>5, <2>6, <2>7, <2>9 DEF BuilderRuns
  <2>14. ASSUME passes
         PROVE  Counted'
    <3>1. ~ builder'.identity.dirty
      BY <2>8, <2>13, <2>14
    <3>2. \A artifact \in builder'.used :
            artifact.repository = builder'.identity /\ artifact.status = "pass" /\ Good(artifact)
      BY <2>12, <2>13, <2>14
    <3>3. IsFiniteSet(builder'.used) /\ builder'.used # {}
      BY <2>10, <2>13, <2>14
    <3>4. (\E j \in DOMAIN Policy : j < builder'.step /\ Policy[j] = "clean_clone")
            => OfOneCommit(builder'.identity)
      BY <2>11, <2>13, <2>14
    <3> QED
      BY <3>1, <3>2, <3>3, <3>4 DEF Counted, Good, Clean, OfOneCommit, IdentityOf
  <2> QED
    BY <2>5, <2>7, <2>13, <2>14 DEF BuilderOK
<1>5. CASE BuilderWrites \/ BuilderDies
  BY <1>5, BuilderAtRest DEF BuilderWrites, BuilderDies
<1> QED
  BY <1>1, <1>2, <1>3, <1>4, <1>5 DEF BuilderSteps

\* What is counted when all kinds were read is of one commit.
LEMMA ManifestIsEarned ==
  ASSUME BuilderOK, BuilderWrites
  PROVE  ReadyIsEarned' /\ manifest'.ready \in BOOLEAN
<1>1. /\ builder \in BuilderRuns /\ builder.at = "write" /\ builder.step = Len(Policy) + 1
      /\ builder.blocked \in BOOLEAN
      /\ ~ builder.blocked => Counted
  BY BuilderRunning DEF BuilderWrites, BuilderOK, BuilderRuns
<1>2. PICK ready \in BOOLEAN : ready = (builder.mode = "final" /\ ~builder.blocked)
  OBVIOUS
<1>3. manifest' = [ready |-> ready, repository |-> builder.identity, used |-> builder.used]
  BY <1>2 DEF BuilderWrites
<1>4. /\ manifest'.ready = ready /\ manifest'.repository = builder.identity
      /\ manifest'.used = builder.used
  BY <1>3
<1>5. ASSUME ready
      PROVE  \E c \in Commits :
               /\ builder.identity = IdentityOf(c)
               /\ Cardinality(builder.used) > 0
               /\ \A artifact \in builder.used :
                    /\ artifact.repository = IdentityOf(c)
                    /\ artifact.on \subseteq {Clean(c)} \/ artifact.changed >= 2
  <2>1. Counted
    BY <1>1, <1>2, <1>5
  <2>2. Len(Policy) \in Nat /\ DOMAIN Policy = 1..Len(Policy)
    BY EvidenceAssumption
  <2>3. \E j \in DOMAIN Policy : j < builder.step /\ Policy[j] = "clean_clone"
    BY <1>1, <2>2, EvidenceAssumption DEF Kinds, Range
  <2>4. PICK c \in Commits : builder.identity = IdentityOf(c)
    BY <2>1, <2>3 DEF Counted, OfOneCommit
  <2>5. IdentityOf(c).commit = c
    BY DEF IdentityOf
  <2>6. builder.used # {} /\ IsFiniteSet(builder.used)
    BY <1>1, <2>1, <2>2, <2>3 DEF Counted
  <2>7. Cardinality(builder.used) > 0
    BY <2>6, FS_EmptySet, FS_CardinalityType
  <2>8. \A artifact \in builder.used :
          /\ artifact.repository = IdentityOf(c)
          /\ artifact.on \subseteq {Clean(c)} \/ artifact.changed >= 2
    BY <2>1, <2>4, <2>5 DEF Counted, Good
  <2> QED
    BY <2>4, <2>7, <2>8
<1>6. ReadyIsEarned'
  BY <1>4, <1>5 DEF ReadyIsEarned, IdentityOf, Clean
<1> QED
  BY <1>4, <1>6

-------------------------------------------------------------------------------
(* The specification.                                                      *)

\* Whoever works in the checkout, and the owner.
ChangeSteps ==
  \/ \E c \in Commits : Checkout(c)
  \/ \E what \in Edits : Edit(what)
  \/ \E version \in Literals : EditLiterals(version)
  \/ Tamper

LEMMA EvidenceInvInit == Init => EvidenceInv
<1> SUFFICES ASSUME Init PROVE EvidenceInv
  OBVIOUS
<1> DEFINE scanned == CHOOSE l \in Literals : <<head, l>> \notin Leaks
<1>1. head \in Commits /\ scanned \in Literals /\ <<head, scanned>> \notin Leaks
  BY EvidenceAssumption DEF Init
<1> HIDE DEF scanned
<1>2. IdentityOf(head) \in Identities
  BY <1>1, IdentityTyped
<1>3. /\ IdentityOf(head).commit = head /\ ~ IdentityOf(head).dirty
      /\ Clean(head) \in Worktrees
  BY <1>1 DEF IdentityOf, Clean, Worktrees
<1>4. Earlier(head) = [status |-> "pass", enough |-> TRUE, repository |-> IdentityOf(head),
                       on |-> {Clean(head)}, changed |-> 0, digest |-> scanned, intact |-> TRUE,
                       tampered |-> 0]
  BY DEF Earlier, scanned
<1>5. /\ Earlier(head) \in CloneArtifacts /\ Earlier(head).repository = IdentityOf(head)
      /\ Earlier(head).on = {Clean(head)} /\ Earlier(head).digest = scanned /\ Earlier(head).intact
  BY <1>1, <1>2, <1>3, <1>4 DEF CloneArtifacts, Statuses
<1>6. Good(Earlier(head))
  BY <1>3, <1>5 DEF Good
<1>7. evidence = [kind \in Kinds |-> Earlier(head)]
  BY DEF Init
<1>8. EvidenceOK /\ CloneEvidenceHolds
  BY <1>1, <1>3, <1>5, <1>6, <1>7, EvidenceAssumption DEF EvidenceOK, CloneEvidenceHolds, Artifacts, OfOneCommit
<1>9. FilesOK /\ ReadyIsEarned
  BY EvidenceAssumption DEF Init, FilesOK, ReadyIsEarned
<1>10. LocalOK /\ CloneOK /\ BuilderOK
  BY DEF Init, LocalOK, LocalTyped, LocalStory, CloneOK, CloneTyped, CloneOn, CloneScanned, CloneWhole,
         BuilderOK, Idle
<1> QED
  BY <1>8, <1>9, <1>10 DEF EvidenceInv

LEMMA ChangeKeepsFiles ==
  ASSUME FilesOK, ChangeSteps
  PROVE  FilesOK'
<1>0. changes \in [checkout : Nat, literals : Nat, candidate : Nat]
  BY DEF FilesOK
<1>1. ASSUME NEW what \in {"checkout", "literals", "candidate"},
             changes' = [changes EXCEPT ![what] = @ + 1]
      PROVE  changes' \in [checkout : Nat, literals : Nat, candidate : Nat]
  BY <1>0, <1>1
<1>2. ASSUME NEW c \in Commits, Checkout(c)
      PROVE  FilesOK'
  BY <1>1, <1>2 DEF FilesOK, Checkout, Change
<1>3. ASSUME NEW what \in Edits, Edit(what)
      PROVE  FilesOK'
  BY <1>1, <1>3 DEF FilesOK, Edit, Change
<1>4. ASSUME NEW version \in Literals, EditLiterals(version)
      PROVE  FilesOK'
  BY <1>1, <1>4 DEF FilesOK, EditLiterals, Change
<1>5. ASSUME Tamper
      PROVE  FilesOK'
  <2>1. candidate \in [source : Commits, whole : BOOLEAN]
    BY <1>5 DEF FilesOK, Tamper, Change
  <2>2. candidate' \in [source : Commits, whole : BOOLEAN]
    BY <1>5, <2>1, TamperedType DEF Tamper, Change
  <2> QED
    BY <1>1, <1>5, <2>2 DEF FilesOK, Tamper, Change
<1> QED
  BY <1>2, <1>3, <1>4, <1>5 DEF ChangeSteps

LEMMA ChangeKeeps ==
  ASSUME FilesOK, LocalOK, CloneOK, ChangeSteps
  PROVE  LocalOK' /\ CloneOK'
<1>0. /\ changes \in [checkout : Nat, literals : Nat, candidate : Nat]
      /\ None \notin Edits /\ UNCHANGED <<local, clone>>
  BY EvidenceAssumption DEF FilesOK, ChangeSteps, Checkout, Edit, EditLiterals, Tamper, Change
<1>1. CASE \/ \E c \in Commits : Checkout(c)
           \/ \E what \in Edits : Edit(what)
  <2>1. changes' = [changes EXCEPT !["checkout"] = @ + 1] /\ UNCHANGED <<candidate, sheet>>
    BY <1>1 DEF Checkout, Edit, Change
  <2>2. changes'.checkout = changes.checkout + 1 /\ changes'.candidate = changes.candidate
    BY <1>0, <2>1
  <2>3. Worktree' # Worktree
    BY <1>0, <1>1 DEF Checkout, Edit, Change, Worktree
  <2> QED
    BY <1>0, <2>1, <2>2, <2>3, LocalElse, CloneElse
<1>2. CASE \E version \in Literals : EditLiterals(version)
  <2>1. changes' = [changes EXCEPT !["literals"] = @ + 1] /\ UNCHANGED <<head, edited, candidate, sheet>>
    BY <1>2 DEF EditLiterals, Change
  <2>2. changes'.checkout = changes.checkout /\ changes'.candidate = changes.candidate
    BY <1>0, <2>1
  <2> QED
    BY <1>0, <2>1, <2>2, LocalElse, CloneElse
<1>3. CASE Tamper
  <2>1. /\ changes' = [changes EXCEPT !["candidate"] = @ + 1]
        /\ candidate' = [candidate EXCEPT !.whole = ~@]
        /\ UNCHANGED <<head, edited, sheet>>
    BY <1>3 DEF Tamper, Change
  <2>2. changes'.checkout = changes.checkout /\ changes'.candidate = changes.candidate + 1
    BY <1>0, <2>1
  <2> QED
    BY <1>0, <2>1, <2>2, LocalElse, CloneElse
<1> QED
  BY <1>1, <1>2, <1>3 DEF ChangeSteps

LEMMA StepKeepsFiles ==
  ASSUME EvidenceInv, LocalSteps \/ CloneSteps \/ BuilderSteps \/ RemoveOutputs
  PROVE  FilesOK'
<1>1. FilesOK /\ CloneOK /\ BuilderOK
  BY DEF EvidenceInv
<1>2. starts' \in 0..MaxStarts
  <2>1. \/ UNCHANGED starts
        \/ starts < MaxStarts /\ starts' = starts + 1
    BY DEF LocalSteps, CloneSteps, BuilderSteps, RemoveOutputs, Start, LocalStart, LocalIdentify,
           LocalRun, LocalRecheck, LocalCompare, LocalWrite, LocalDies, CloneStart, CloneResolve, CloneInputs,
           CreatorLoads, Creates, CreatorWritesSheet, CloneFields, CloneVerify, CloneAudit, CloneWrite,
           CloneDies, BuilderStart, BuilderIdentify, BuilderGates, BuilderReads, BuilderWrites, BuilderDies
  <2> QED
    BY <1>1, <2>1, EvidenceAssumption DEF FilesOK
<1>3. UNCHANGED checkoutVars
  BY DEF LocalSteps, CloneSteps, BuilderSteps, RemoveOutputs, LocalStart, LocalIdentify,
         LocalRun, LocalRecheck, LocalCompare, LocalWrite, LocalDies, CloneStart, CloneResolve, CloneInputs,
         CreatorLoads, Creates, CreatorWritesSheet, CloneFields, CloneVerify, CloneAudit, CloneWrite,
         CloneDies, BuilderStart, BuilderIdentify, BuilderGates, BuilderReads, BuilderWrites, BuilderDies,
         OnlyLocal, OnlyClone, OnlyBuilder, checkoutVars
<1>4. candidate' \in {None} \union [source : Commits, whole : BOOLEAN]
  BY <1>1, CreatesKeeps
     DEF FilesOK, LocalSteps, CloneSteps, BuilderSteps, RemoveOutputs, LocalStart, LocalIdentify,
         LocalRun, LocalRecheck, LocalCompare, LocalWrite, LocalDies, CloneStart, CloneResolve, CloneInputs,
         CreatorLoads, CreatorWritesSheet, CloneFields, CloneVerify, CloneAudit, CloneWrite,
         CloneDies, BuilderStart, BuilderIdentify, BuilderGates, BuilderReads, BuilderWrites, BuilderDies,
         OnlyLocal, OnlyBuilder
<1>5. sheet' \in {None} \union [source : Commits, literals : Literals]
  BY <1>1, CreatorWritesSheetKeeps
     DEF FilesOK, LocalSteps, CloneSteps, BuilderSteps, RemoveOutputs, LocalStart, LocalIdentify,
         LocalRun, LocalRecheck, LocalCompare, LocalWrite, LocalDies, CloneStart, CloneResolve, CloneInputs,
         CreatorLoads, Creates, CloneFields, CloneVerify, CloneAudit, CloneWrite,
         CloneDies, BuilderStart, BuilderIdentify, BuilderGates, BuilderReads, BuilderWrites, BuilderDies,
         OnlyLocal, OnlyBuilder
<1>6. manifest' = None \/ manifest'.ready \in BOOLEAN
  BY <1>1, ManifestIsEarned
     DEF FilesOK, LocalSteps, CloneSteps, BuilderSteps, RemoveOutputs, LocalStart, LocalIdentify,
         LocalRun, LocalRecheck, LocalCompare, LocalWrite, LocalDies, CloneStart, CloneResolve, CloneInputs,
         CreatorLoads, Creates, CreatorWritesSheet, CloneFields, CloneVerify, CloneAudit, CloneWrite,
         CloneDies, BuilderStart, BuilderIdentify, BuilderGates, BuilderReads, BuilderDies,
         OnlyLocal, OnlyClone
<1> QED
  BY <1>1, <1>2, <1>3, <1>4, <1>5, <1>6 DEF FilesOK, checkoutVars

\* The evidence and the manifest stay what they are but for the two writers and the removal.
LEMMA EvidenceElse ==
  ASSUME EvidenceOK, CloneEvidenceHolds, UNCHANGED evidence
  PROVE  EvidenceOK' /\ CloneEvidenceHolds'
BY DEF EvidenceOK, CloneEvidenceHolds, Good, Clean, OfOneCommit, IdentityOf

LEMMA ManifestElse ==
  ASSUME ReadyIsEarned, UNCHANGED manifest
  PROVE  ReadyIsEarned'
BY DEF ReadyIsEarned, IdentityOf, Clean

LEMMA BuilderElse ==
  ASSUME BuilderOK, UNCHANGED builder
  PROVE  BuilderOK'
BY DEF BuilderOK, Counted, Good, Clean, OfOneCommit, IdentityOf

LEMMA EvidenceInvStep == EvidenceInv /\ [Next]_vars => EvidenceInv'
<1> SUFFICES ASSUME EvidenceInv, [Next]_vars PROVE EvidenceInv'
  OBVIOUS
<1>0. /\ FilesOK /\ EvidenceOK /\ LocalOK /\ CloneOK /\ BuilderOK
      /\ ReadyIsEarned /\ CloneEvidenceHolds
  BY DEF EvidenceInv
<1>1. CASE ChangeSteps
  <2>1. UNCHANGED <<evidence, manifest, builder>>
    BY <1>1 DEF ChangeSteps, Checkout, Edit, EditLiterals, Tamper, Change
  <2> QED
    BY <1>0, <1>1, <2>1, ChangeKeepsFiles, ChangeKeeps, EvidenceElse, ManifestElse, BuilderElse
       DEF EvidenceInv
<1>2. CASE LocalSteps
  <2>1. UNCHANGED <<head, edited, changes, candidate, sheet, manifest, clone, builder>>
    BY <1>2 DEF LocalSteps, LocalStart, LocalIdentify, LocalRun, LocalRecheck, LocalCompare, LocalWrite,
                LocalDies, OnlyLocal, checkoutVars
  <2>2. EvidenceOK' /\ CloneEvidenceHolds'
    <3>1. CASE LocalWrite
      BY <1>0, <3>1, LocalEvidence
    <3>2. CASE ~ LocalWrite
      <4>1. UNCHANGED evidence
        BY <1>2, <3>2 DEF LocalSteps, LocalStart, LocalIdentify, LocalRun, LocalRecheck, LocalCompare,
                          LocalDies
      <4> QED
        BY <1>0, <4>1, EvidenceElse
    <3> QED
      BY <3>1, <3>2
  <2> QED
    BY <1>0, <1>2, <2>1, <2>2, StepKeepsFiles, LocalKeeps, CloneElse, ManifestElse, BuilderElse
       DEF EvidenceInv
<1>3. CASE CloneSteps
  <2>1. UNCHANGED <<head, edited, changes, manifest, local, builder>>
    BY <1>3 DEF CloneSteps, CloneStart, CloneResolve, CloneInputs, CreatorLoads, Creates,
                CreatorWritesSheet, CloneFields, CloneVerify, CloneAudit, CloneWrite, CloneDies,
                OnlyClone, checkoutVars
  <2>2. EvidenceOK' /\ CloneEvidenceHolds'
    <3>1. CASE CloneWrite
      BY <1>0, <3>1, CloneEvidence
    <3>2. CASE ~ CloneWrite
      <4>1. UNCHANGED evidence
        BY <1>3, <3>2 DEF CloneSteps, CloneStart, CloneResolve, CloneInputs, CreatorLoads, Creates,
                          CreatorWritesSheet, CloneFields, CloneVerify, CloneAudit, CloneDies
      <4> QED
        BY <1>0, <4>1, EvidenceElse
    <3> QED
      BY <3>1, <3>2
  <2> QED
    BY <1>0, <1>3, <2>1, <2>2, StepKeepsFiles, LocalElse, CloneKeeps, ManifestElse, BuilderElse
       DEF EvidenceInv
<1>4. CASE BuilderSteps
  <2>1. UNCHANGED <<head, edited, changes, evidence, candidate, sheet, local, clone>>
    BY <1>4 DEF BuilderSteps, BuilderStart, BuilderIdentify, BuilderGates, BuilderReads, BuilderWrites,
                BuilderDies, OnlyBuilder, checkoutVars
  <2>2. ReadyIsEarned'
    <3>1. CASE BuilderWrites
      BY <1>0, <3>1, ManifestIsEarned
    <3>2. CASE ~ BuilderWrites
      <4>1. UNCHANGED manifest
        BY <1>4, <3>2 DEF BuilderSteps, BuilderStart, BuilderIdentify, BuilderGates, BuilderReads, BuilderDies
      <4> QED
        BY <1>0, <4>1, ManifestElse
    <3> QED
      BY <3>1, <3>2
  <2> QED
    BY <1>0, <1>4, <2>1, <2>2, StepKeepsFiles, LocalElse, CloneElse, EvidenceElse, BuilderKeeps
       DEF EvidenceInv
<1>5. CASE RemoveOutputs
  <2>1. /\ UNCHANGED <<head, edited, changes, manifest, local, clone, builder>> /\ clone = Idle
        /\ evidence' = [evidence EXCEPT !["clean_clone"] = None]
    BY <1>5 DEF RemoveOutputs, checkoutVars
  <2>2. /\ evidence' \in [Kinds -> {None} \union Artifacts] /\ evidence'["clean_clone"] = None
        /\ \A kind \in Kinds : evidence'[kind] = evidence[kind] \/ evidence'[kind] = None
    BY <1>0, <2>1, EvidenceAssumption DEF EvidenceOK
  <2>3. \A kind \in Kinds : evidence'[kind] # None => Good(evidence'[kind])
    BY <1>0, <2>2 DEF EvidenceOK
  <2>4. EvidenceOK' /\ CloneEvidenceHolds'
    BY <2>2, <2>3 DEF EvidenceOK, CloneEvidenceHolds, Good, Clean
  <2> QED
    BY <1>0, <1>5, <2>1, <2>4, StepKeepsFiles, LocalElse, CloneElse, ManifestElse, BuilderElse
       DEF EvidenceInv
<1>6. CASE UNCHANGED vars
  <2>1. FilesOK'
    BY <1>0, <1>6 DEF FilesOK, vars
  <2> QED
    BY <1>0, <1>6, <2>1, LocalElse, CloneElse, BuilderElse, EvidenceElse, ManifestElse DEF EvidenceInv, vars
<1> QED
  BY <1>1, <1>2, <1>3, <1>4, <1>5, <1>6 DEF Next, ChangeSteps, LocalSteps, CloneSteps, BuilderSteps

LEMMA EvidenceInvHolds == Spec => []EvidenceInv
BY EvidenceInvInit, EvidenceInvStep, PTL DEF Spec

\* The files of a release and its evidence have their types, whatever dies in between.
THEOREM EvidenceTypeCorrect == Spec => []EvidenceTypeOK
<1>1. EvidenceInv => EvidenceTypeOK
  BY DEF EvidenceInv, FilesOK, EvidenceOK, EvidenceTypeOK, Artifacts, LocalArtifacts, CloneArtifacts, Statuses
<1> QED
  BY <1>1, EvidenceInvHolds, PTL

\* A manifest that says release_ready was earned: it names the identity of one commit, and
\* all it counted was made in the clean worktree of that commit, unless the checkout changed twice.
THEOREM ManifestEarned == Spec => []ReadyIsEarned
<1>1. EvidenceInv => ReadyIsEarned
  BY DEF EvidenceInv
<1> QED
  BY <1>1, EvidenceInvHolds, PTL

\* Evidence of a clean clone that passed names the literals the commit was scanned with, and
\* its candidate had the commit's content when it was verified, unless it was changed twice.
THEOREM CloneScannedAsNamed == Spec => []CloneEvidenceHolds
<1>1. EvidenceInv => CloneEvidenceHolds
  BY DEF EvidenceInv
<1> QED
  BY <1>1, EvidenceInvHolds, PTL
===============================================================================
