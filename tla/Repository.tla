----------------------------- MODULE Repository -----------------------------
(***************************************************************************)
(* The git repositories the scaling server edits: what a manifest holds,   *)
(* what a POST asks for and what the update functions of                   *)
(* reconcilers/git/gitea.go make of a tree.  Shared by the modules that    *)
(* speak of commits.                                                       *)
(***************************************************************************)
EXTENDS Naturals, Sequences

CONSTANTS
    Namespaces,
    Repos,          \* git repositories; each has one Argo CD application
    Files,          \* manifests; a file's content is its one scaled field
    InitTree        \* InitTree[p][f]: the field of file f when repo p starts

ASSUME InitTreeAssumption == InitTree \in [Repos -> [Files -> Nat]]

Kinds == {"NamespaceQuota", "ResourceQuota", "Other"}

(***************************************************************************)
(* A body: what the handlers tell apart.  "labelled" is whether a          *)
(* ResourceQuota carries clusterName and repositoryUrl, "matches" are the  *)
(* manifests of the repository the body selects, "value" is MaxNodes of a  *)
(* NamespaceQuota and spec.hard of a ResourceQuota.                        *)
(***************************************************************************)
Bodies == [kind: Kinds, ns: Namespaces, repo: Repos, labelled: BOOLEAN,
           matches: SUBSET Files, value: Nat]

-----------------------------------------------------------------------------
\* The tree of repository p after the first i commits of its history h.
Tree(p, h, i) == IF i = 0 THEN InitTree[p] ELSE h[i].tree

\* Mutant: the maximum is only looked at when it has been reached.
IncrementUnclamped(replicas, maxNodes) ==
    IF replicas = 0 \/ replicas = maxNodes THEN replicas ELSE replicas + 1

\* The replica count UpdateResourceReplicasMachineDeployment writes.
Increment(replicas, maxNodes) ==
    IF replicas = 0 \/ replicas = maxNodes THEN replicas
    ELSE IF replicas + 1 > maxNodes THEN maxNodes ELSE replicas + 1

\* Mutant: the quota is taken for what is to be added.
UpdatedAdds(b, v) ==
    IF b.kind = "NamespaceQuota" THEN Increment(v, b.value) ELSE v + b.value

\* The field of a picked manifest after the update for body b.
Updated(b, v) ==
    IF b.kind = "NamespaceQuota" THEN Increment(v, b.value) ELSE b.value

\* The tree the update goroutines of a handler leave behind.
Edited(b, picked, tree) ==
    [f \in Files |-> IF f \in picked THEN Updated(b, tree[f]) ELSE tree[f]]
=============================================================================
