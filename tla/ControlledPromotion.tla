--------------------------- MODULE ControlledPromotion ---------------------------
(***************************************************************************)
(* The trusted adapter under the rules of the gate and the controller: the *)
(* steps of TrustedPromotion, each with what it does to the manifests, the *)
(* approvals' scopes and the content of the releases.                      *)
(*                                                                         *)
(* A release is not a checkout of its commit: it is a copy of the previous *)
(* release with the artifacts of the manifest replaced.                    *)
(***************************************************************************)
EXTENDS TrustedPromotion, PromotionRules

CONSTANTS
  Identities,   \* users: services and people
  Submitted,    \* the deployment manifests in use
  Approvers     \* who may give approvals

\* A deployment manifest as load_deployment_candidate reads it: where each artifact
\* resolves, whether repository, branch and roots are those of the policy, and the
\* four reports of tests, evals, security checks and migration.
Deployments ==
  [candidate : Builds, previous : Builds, artifacts : SUBSET Paths, redirected : SUBSET Paths,
   builder : Identities, production : Identities, placed : BOOLEAN, reported : BOOLEAN,
   reference : {"previous", "other", "shell"}]

\* An approval: who gave it, for which action, builds and artifacts.
Authorizations ==
  [actor : Identities, action : {"promote", "rollback"}, candidate : Builds, previous : Builds,
   artifacts : SUBSET Paths]

ManifestOf(d) == [candidate |-> d.candidate, previous |-> d.previous]

ASSUME ControlledAssumption ==
  /\ Submitted \subseteq Deployments
  /\ Approvers \subseteq Identities
  /\ Tree \in [Builds -> SUBSET Paths]
  /\ \A d \in Submitted : ManifestOf(d) \in Manifests
  /\ None \notin Authorizations

VARIABLES
  content,        \* of each release: the build from which each path has its content
  scope,          \* the authorization in each pending approval
  taken,          \* the authorization in each consumed approval
  declared,       \* the manifest of each running operation
  recorded        \* of each build: the manifest in its persisted operation

ruleVars == <<content, scope, taken, declared, recorded>>
controlledVars == <<vars, ruleVars>>

Absent == [path \in Paths |-> None]

\* The release that bootstrap installed is a checkout; the manifests are for others.
ControlledInit ==
  /\ Init
  /\ \A d \in Submitted : d.candidate \notin releases
  /\ content = [b \in Builds |->
       IF b \in releases THEN [path \in Paths |-> IF path \in Tree[b] THEN b ELSE None] ELSE Absent]
  /\ scope = [a \in Ids |-> None]
  /\ taken = [a \in Ids |-> None]
  /\ declared = [p \in Operators |-> None]
  /\ recorded = [b \in Builds |-> None]

-------------------------------------------------------------------------------
AuthorizationOf(d, action, actor) ==
  [actor |-> actor, action |-> action, candidate |-> d.candidate, previous |-> d.previous,
   artifacts |-> d.artifacts]

\* The command authorize: it refuses what is not inventoried or not promotable.
ControlledAuthorize(a, action, d, actor) ==
  /\ Inventoried(d) /\ Promotable(d)
  /\ Authorize(a, action, ManifestOf(d))
  /\ scope' = [scope EXCEPT ![a] = AuthorizationOf(d, action, actor)]
  /\ UNCHANGED <<content, taken, declared, recorded>>

ControlledStart(p, d, a) ==
  /\ StartPromotion(p, ManifestOf(d), a)
  /\ declared' = [declared EXCEPT ![p] = d]
  /\ UNCHANGED <<content, scope, taken, recorded>>

ControlledRollback(p, operation, a) ==
  /\ StartRollback(p, operation, a)
  /\ declared' = [declared EXCEPT ![p] = recorded[operation.candidate]]
  /\ UNCHANGED <<content, scope, taken, recorded>>

\* The inventory comes before the preflight commands.
ControlledChecks(p) ==
  /\ Checks(p)
  /\ Inventoried(declared[p])
  /\ UNCHANGED ruleVars

Allowed(p) ==
  IF Promoting(p) THEN PromotionAllowed(declared[p], scope[job[p].id])
                  ELSE RollbackAllowed(declared[p], scope[job[p].id])

\* A plan that the rules do not allow is blocked, and nothing else comes of it.
ControlledPlan(p) ==
  /\ Plan(p)
  /\ (pc'[p] = "consume" \/ entries' # entries) => Allowed(p)
  /\ UNCHANGED ruleVars

ControlledConsume(p) ==
  /\ Consume(p)
  /\ taken' = [taken EXCEPT ![job[p].id] = scope[job[p].id]]
  /\ scope' = [scope EXCEPT ![job[p].id] = None]
  /\ UNCHANGED <<content, declared, recorded>>

\* _stage_release raises when a path may not be in a release, with the approval gone.
ControlledStage(p) ==
  /\ Stage(p)
  /\ \A path \in declared[p].artifacts : ~ReleaseDenies(path)
  /\ content' = [content EXCEPT ![Target(p)] =
       [path \in Paths |-> IF path \in declared[p].artifacts THEN Target(p)
                           ELSE content[Approval(p).previous][path]]]
  /\ UNCHANGED <<scope, taken, declared, recorded>>

\* The result of the smokes; whether a promotion completed is the controller's word.
ControlledSmoke(p) ==
  /\ Smoke(p)
  /\ (Promoting(p) /\ pc'[p] = "outcome" /\ job'[p].passed) => Completes(declared[p], TRUE)
  /\ UNCHANGED ruleVars

ControlledPersist(p) ==
  /\ Persist(p)
  /\ recorded' = [recorded EXCEPT ![Approval(p).candidate] = declared[p]]
  /\ UNCHANGED <<content, scope, taken, declared>>

ControlledStep(p) ==
  \/ \E d \in Submitted, a \in Ids : ControlledStart(p, d, a)
  \/ \E o \in operations, a \in Ids : ControlledRollback(p, o, a)
  \/ ControlledChecks(p)
  \/ ControlledPlan(p)
  \/ ControlledConsume(p)
  \/ ControlledStage(p)
  \/ ControlledSmoke(p)
  \/ ControlledPersist(p)
  \/ /\ Log(p) \/ Swap(p) \/ Mark(p) \/ Restart(p) \/ Outcome(p) \/ Abort(p)
     /\ UNCHANGED ruleVars

ControlledNext ==
  \/ \E a \in Ids, action \in {"promote", "rollback"}, d \in Submitted, actor \in Approvers :
       ControlledAuthorize(a, action, d, actor)
  \/ \E p \in Operators : ControlledStep(p)

ControlledSpec == ControlledInit /\ [][ControlledNext]_controlledVars

-------------------------------------------------------------------------------
\* Whatever is approved, planned and interrupted in whatever order: the content of every
\* release that was promoted is that of the release before it, with exactly the artifacts
\* replaced that somebody, who is neither the builder nor the service, had approved for
\* this build over that one.
ReleaseIsApproved ==
  \A b \in releases :
    \/ \A d \in Submitted : d.candidate # b
    \/ \E a \in Ids, d \in Submitted :
         /\ taken[a] # None
         /\ d.candidate = b
         /\ Authorized(taken[a], d, "promote")
         /\ content[b] = [path \in Paths |-> IF path \in taken[a].artifacts THEN b
                                             ELSE content[taken[a].previous][path]]

\* docs/production_promotion.md: auth, tunnel, audit and promotion code needs a separate
\* security review.  No promotion changes it: every release has it as bootstrap
\* installed it, though the gate by itself would let the controller through.
ControlPlaneIsFrozen ==
  \A b, c \in releases : \A path \in ControlPlane : content[b][path] = content[c][path]
===============================================================================
