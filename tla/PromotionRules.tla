----------------------------- MODULE PromotionRules -----------------------------
(***************************************************************************)
(* What may be promoted: the rules of the deployment gate                  *)
(* (deployment_gate.py), those of the promotion controller                 *)
(* (promotion_controller.py), which does not rely on the gate alone, and   *)
(* those of a release tree (trusted_promotion.py).  Each has a list of its *)
(* own of what is denied.                                                  *)
(*                                                                         *)
(* A path is one of the kinds of path that some list tells apart.  Paths   *)
(* are compared in lower case, prefixes and names by string operations;    *)
(* neither is modelled.                                                    *)
(***************************************************************************)
CONSTANTS
  Tree,        \* the paths committed in each build
  Executor,    \* executor_identity of the adapter's configuration
  Verifier     \* its verifier_identity

\* Under src/, tests/, config/ and docs/, with the suffixes allowed there.
Ordinary == {"source", "test", "config", "documentation"}

Paths == Ordinary \union
  {"data",          \* data/, .git/, .venv/, at the top
   "nested_data",   \* docs/data/
   "nested_cache",  \* src/local_agent_lab/__pycache__/
   "control",       \* a file that both lists of control-plane files name
   "controller",    \* src/local_agent_lab/promotion_controller.py
   "secrets",       \* a component secrets/, a key, a name with "token" in it
   "token",         \* a component token/
   "exposure",      \* config/ with auth, production or tunnel in the name
   "script",        \* outside of what may be promoted
   "escaping"}      \* absolute, or with .. in it

-------------------------------------------------------------------------------
(* The deployment gate.                                                    *)

\* _denied_artifact_reason
GateDenies(path) == path \in {"data", "control", "secrets", "exposure"}

\* _allowed_artifact_category goes by prefix and suffix: what lies deeper it allows.
Categorized(path) ==
  path \in Ordinary \union {"nested_data", "nested_cache", "control", "controller", "token", "exposure"}

\* _check_artifact
GateApproves(d, path) ==
  /\ path # "escaping"
  /\ path \notin d.redirected
  /\ ~GateDenies(path)
  /\ Categorized(path)

\* _check_environment
IdentitiesApart(d) == d.builder # d.production

\* The checks of the rollback metadata, all of it present.
RollbackNamed(d) ==
  /\ d.previous # d.candidate
  /\ d.reference # "shell"

\* _check_build_evidence: repository and branch are those of the policy; tests, evals,
\* security checks and migration passed.
EvidenceComplete(d) == d.placed /\ d.reported

\* check_deployment_candidate
Promotable(d) ==
  /\ IdentitiesApart(d)
  /\ EvidenceComplete(d)
  /\ d.artifacts # {}
  /\ \A path \in d.artifacts : GateApproves(d, path)
  /\ RollbackNamed(d)

-------------------------------------------------------------------------------
(* The inventory of the committed tree, and the controller.                *)

\* GitCommittedTree.verify raises unless every artifact is a regular committed file.
Inventoried(d) ==
  /\ d.redirected \intersect d.artifacts = {}
  /\ "escaping" \notin d.artifacts
  /\ d.artifacts \subseteq Tree[d.candidate]

\* Mutant: the controller has the gate's list.
ControllerDeniesAsGate(path) == path = "escaping" \/ GateDenies(path)

\* _controller_artifact_denial, where every component counts.
ControllerDenies(path) ==
  path \in {"escaping", "data", "nested_cache", "control", "controller", "secrets", "token", "exposure"}

\* _verify_candidate_identity: the verifier is independent.  That the commit was
\* checked out clean is among the facts of the moment.
VerifierIndependent(d) == Verifier \notin {d.builder, d.production}

\* _verify_manifest: what is inventoried is what was declared and approved.
ManifestVerified(d) ==
  /\ \A path \in d.artifacts : ~ControllerDenies(path)
  /\ d.artifacts = {path \in d.artifacts : GateApproves(d, path)}

\* Mutant: the digest of the manifest is not in the scope of an approval.
CoversBuilds(authorization, d, action) ==
  /\ authorization.action = action
  /\ authorization.candidate = d.candidate
  /\ authorization.previous = d.previous

\* The scope of _verify_authorization; the digest of the manifest stands for the paths
\* and contents of the artifacts, and the candidate has their contents.
Covers(authorization, d, action) ==
  /\ authorization.action = action
  /\ authorization.candidate = d.candidate
  /\ authorization.previous = d.previous
  /\ authorization.artifacts = d.artifacts

\* _verify_authorization, but for its dates.
Authorized(authorization, d, action) ==
  /\ Covers(authorization, d, action)
  /\ authorization.actor \notin {d.builder, d.production}

\* The part of _rollback_readiness that the manifest decides.
ReferenceResolves(d) == d.reference = "previous"

\* build_promotion_plan.
PromotionAllowed(d, authorization) ==
  /\ Promotable(d)
  /\ VerifierIndependent(d)
  /\ ManifestVerified(d)
  /\ Authorized(authorization, d, "promote")
  /\ ReferenceResolves(d)

\* build_rollback_plan and test_rollback_plan, of a promotion that was ready.
RollbackAllowed(d, authorization) ==
  /\ Authorized(authorization, d, "rollback")
  /\ ReferenceResolves(d)

\* assess_promotion_execution of a ready plan that was applied: it completes when
\* restart and smokes passed and the executor is not the builder.
Completes(d, passed) == passed /\ Executor # d.builder

-------------------------------------------------------------------------------
(* A release tree.                                                         *)

\* _release_path_denied, where every component counts.
ReleaseDenies(path) == path \in {"data", "nested_data", "nested_cache", "secrets", "token"}

ControlPlane == {"control", "controller", "exposure"}
===============================================================================
