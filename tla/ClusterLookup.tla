---------------------------- MODULE ClusterLookup ----------------------------
(***************************************************************************)
(* How handleRQFromCluster gets a client of the workload cluster it has    *)
(* pushed for (reconcilers/capi/cluster.go, GetWorkloadClusterClient): the *)
(* clusters are listed, the kubeconfig Secret is read, the cluster is read *)
(* again for its Ready condition, and a client is made of the Secret read  *)
(* before.  The first two reads are answered by the manager's cache, whose *)
(* informers run behind, each on its own; the last one is of an            *)
(* unstructured object, which the manager's client reads from the API      *)
(* server.  Clusters come and go between the calls.  MgmtServer takes the  *)
(* outcome, a client or none, for a free choice.                           *)
(***************************************************************************)
EXTENDS Naturals

CONSTANTS
    Spaces,     \* namespaces of the management cluster
    Default,    \* "default", the only one Secrets are looked for in
    Names,      \* clusterName labels and names of clusters
    MaxLives    \* bound on the clusters ever made under one name

ASSUME DefaultAssumption == Default \in Spaces
ASSUME LivesAssumption == MaxLives \in Nat

Keys == Spaces \X Names
None == 0

VARIABLES
    life,       \* life[k]: the clusters made so far under k
    alive,      \* the keys that have a Cluster now
    ready,      \* those whose Cluster is Ready
    kubeconfig, \* kubeconfig[k]: the life the Secret of k is for, or None
    clusterCache,   \* clusterCache[k]: the Cluster k as its informer has it
    secretCache,    \* secretCache[k]: the Secret of k as its informer has it
    pc,         \* of the handler
    name,       \* the cluster it looks for
    secret,     \* the life its Secret is for
    checked     \* the life that was Ready when it looked

api == <<life, alive, ready, kubeconfig>>
objects == <<api, clusterCache, secretCache>>
vars == <<objects, pc, name, secret, checked>>

Labels == {"idle", "list", "secret", "ready", "client", "requeue", "error"}

\* The objects and the lookup are in their types, and no lookup gets past an
\* empty Secret.
TypeOK ==
    /\ life \in [Keys -> 0 .. MaxLives]
    /\ ready \subseteq alive /\ alive \subseteq Keys
    /\ kubeconfig \in [Keys -> 0 .. MaxLives]
    /\ clusterCache \in [Keys -> [life: 0 .. MaxLives, ready: BOOLEAN]]
    /\ secretCache \in [Keys -> 0 .. MaxLives]
    /\ pc \in Labels
    /\ pc \in {"ready", "client", "requeue"} => secret # None
    /\ name \in Names
    /\ secret \in 0 .. MaxLives /\ checked \in 0 .. MaxLives

Init ==
    /\ life = [k \in Keys |-> 0]
    /\ alive = {} /\ ready = {}
    /\ kubeconfig = [k \in Keys |-> None]
    /\ clusterCache = [k \in Keys |-> [life |-> None, ready |-> FALSE]]
    /\ secretCache = [k \in Keys |-> None]
    /\ pc = "idle"
    /\ name \in Names
    /\ secret = None /\ checked = None

-----------------------------------------------------------------------------
(***************************************************************************)
(* The lookup.  Every read may fail.                                       *)
(***************************************************************************)
Goto(label) == pc' = label

\* A handler has pushed its commit.
Pushed ==
    /\ pc = "idle"
    /\ \E n \in Names : name' = n
    /\ secret' = None /\ checked' = None
    /\ Goto("list")
    /\ UNCHANGED objects

\* A cluster of that name is looked for in all namespaces, in the cache.
ListClusters ==
    /\ pc = "list"
    /\ \/ Goto("error")
       \/ /\ \E s \in Spaces : clusterCache[<<s, name>>].life # None
          /\ Goto("secret")
    /\ UNCHANGED <<objects, name, secret, checked>>

\* Mutant: the error of the read is dropped, and the empty Secret used.
GetSecretUnchecked ==
    /\ pc = "secret"
    /\ secret' = secretCache[<<Default, name>>]
    /\ Goto("ready")
    /\ UNCHANGED <<objects, name, checked>>

\* Its kubeconfig, in the namespace "default" only, from the cache.
GetSecret ==
    LET k == <<Default, name>> IN
    /\ pc = "secret"
    /\ \/ Goto("error") /\ UNCHANGED secret
       \/ /\ secretCache[k] # None
          /\ secret' = secretCache[k]
          /\ Goto("ready")
    /\ UNCHANGED <<objects, name, checked>>

\* Mutant: the cluster is read typed, and so from the cache, like the rest.
GetReadyCached ==
    LET k == <<Default, name>> IN
    /\ pc = "ready"
    /\ \/ Goto("requeue") /\ UNCHANGED checked
       \/ /\ clusterCache[k].ready
          /\ checked' = clusterCache[k].life
          /\ Goto("client")
    /\ UNCHANGED <<objects, name, secret>>

\* A cluster that is gone or not Ready, and a kubeconfig no client can be
\* made of, end as a result to requeue and no error.  This read is live.
GetReady ==
    LET k == <<Default, name>> IN
    /\ pc = "ready"
    /\ \/ Goto("requeue") /\ UNCHANGED checked
       \/ /\ k \in ready
          /\ checked' = life[k]
          /\ Goto("client")
    /\ UNCHANGED <<objects, name, secret>>

\* handleRQFromCluster drops the result: without a client it skips the sync
\* and returns.
Finish ==
    /\ pc \in {"client", "requeue", "error"}
    /\ Goto("idle")
    /\ UNCHANGED <<objects, name, secret, checked>>

-----------------------------------------------------------------------------
(***************************************************************************)
(* Cluster API and the informers                                           *)
(***************************************************************************)
Unlooked == UNCHANGED <<pc, name, secret, checked>>
Uncached == UNCHANGED <<clusterCache, secretCache>>

\* The Secret of its predecessor may still be there.
CreateCluster(k) ==
    /\ k \notin alive /\ life[k] < MaxLives
    /\ alive' = alive \cup {k}
    /\ life' = [life EXCEPT ![k] = @ + 1]
    /\ UNCHANGED <<ready, kubeconfig>> /\ Uncached /\ Unlooked

WriteKubeconfig(k) ==
    /\ k \in alive
    /\ kubeconfig' = [kubeconfig EXCEPT ![k] = life[k]]
    /\ UNCHANGED <<life, alive, ready>> /\ Uncached /\ Unlooked

\* The Ready condition comes and goes, once there is a kubeconfig.
ReadyChanges(k) ==
    /\ k \in alive /\ kubeconfig[k] # None
    /\ ready' = IF k \in ready THEN ready \ {k} ELSE ready \cup {k}
    /\ UNCHANGED <<life, alive, kubeconfig>> /\ Uncached /\ Unlooked

DeleteCluster(k) ==
    /\ k \in alive
    /\ alive' = alive \ {k} /\ ready' = ready \ {k}
    /\ UNCHANGED <<life, kubeconfig>> /\ Uncached /\ Unlooked

\* A Secret whose cluster is gone is collected, at any time after.
CollectSecret(k) ==
    /\ kubeconfig[k] # None
    /\ k \notin alive \/ kubeconfig[k] # life[k]
    /\ kubeconfig' = [kubeconfig EXCEPT ![k] = None]
    /\ UNCHANGED <<life, alive, ready>> /\ Uncached /\ Unlooked

\* One of the informers delivers what is there now.
CacheCatchesUp(k) ==
    /\ \/ /\ clusterCache' = [clusterCache EXCEPT ![k] =
                [life |-> IF k \in alive THEN life[k] ELSE None,
                 ready |-> k \in ready]]
          /\ UNCHANGED secretCache
       \/ /\ secretCache' = [secretCache EXCEPT ![k] = kubeconfig[k]]
          /\ UNCHANGED clusterCache
    /\ UNCHANGED api /\ Unlooked

Lookup == ListClusters \/ GetSecret \/ GetReady \/ Finish
Clusters == \E k \in Keys : \/ CreateCluster(k) \/ WriteKubeconfig(k)
                            \/ ReadyChanges(k) \/ DeleteCluster(k)
                            \/ CollectSecret(k)  \/ CacheCatchesUp(k)

Next == Pushed \/ Lookup \/ Clusters

Spec == Init /\ [][Next]_vars

-----------------------------------------------------------------------------
(***************************************************************************)
(* Properties                                                              *)
(***************************************************************************)
\* The client the sync is sent through is never of a later cluster than the
\* one that was found Ready, which would not have been looked at: the Secret
\* may be newer than what the cache has of the Cluster, but the Cluster is
\* read after it and live (cluster.go:89-90, 158).  It may be of an earlier
\* one, whose Secret is still there, or still in the cache.
NotOfASuccessor == pc = "client" => secret \in 1 .. checked
=============================================================================
