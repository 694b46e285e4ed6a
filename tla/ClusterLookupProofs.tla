------------------------- MODULE ClusterLookupProofs -------------------------
(***************************************************************************)
(* Which cluster the client of a lookup belongs to, for any namespaces,    *)
(* names and number of clusters made one after the other, however far      *)
(* behind the caches are.                                                  *)
(***************************************************************************)
EXTENDS ClusterLookup, TLAPS

Looked == <<Default, name>>

\* A Secret, in the API server or in the cache, is for a cluster made under
\* its name already, the last one or an earlier one.
SecretInv ==
    \A k \in Keys : kubeconfig[k] <= life[k] /\ secretCache[k] <= life[k]

\* So is the Secret a lookup has read, and the cluster it then finds Ready is
\* the last one made under the name.
ReadInv ==
    /\ pc = "ready" => secret <= life[Looked]
    /\ pc = "client" => secret <= checked

IInv == TypeOK /\ SecretInv /\ ReadInv

-----------------------------------------------------------------------------
LEMMA LookedType == TypeOK => Looked \in Keys
BY DefaultAssumption DEF TypeOK, Looked, Keys

LEMMA InitInv == Init => IInv
<1>. SUFFICES ASSUME Init PROVE IInv
  OBVIOUS
<1>1. 0 \in 0 .. MaxLives
  BY LivesAssumption
<1>2. TypeOK
  BY <1>1 DEF Init, TypeOK, Labels, None
<1>. QED
  BY <1>2 DEF Init, IInv, SecretInv, ReadInv, None

\* The lookup leaves the objects and the caches alone.
LEMMA LookupStep ==
    ASSUME IInv, Pushed \/ Lookup
    PROVE  IInv'
<1>1. UNCHANGED <<life, alive, ready, kubeconfig, clusterCache, secretCache>>
  BY DEF Pushed, Lookup, ListClusters, GetSecret, GetReady, Finish, objects,
         api
<1>2. SecretInv'
  BY <1>1 DEF IInv, SecretInv
<1>3. CASE Pushed
  <2>1. 0 \in 0 .. MaxLives
    BY LivesAssumption
  <2>2. TypeOK'
    BY <1>1, <1>3, <2>1 DEF Pushed, Goto, Labels, IInv, TypeOK, None
  <2>3. ReadInv'
    BY <1>3 DEF Pushed, Goto, ReadInv
  <2>. QED
    BY <1>2, <2>2, <2>3 DEF IInv
<1>4. CASE ListClusters \/ Finish
  <2>1. /\ pc' \in {"error", "secret", "idle"}
        /\ UNCHANGED <<name, secret, checked>>
    BY <1>4 DEF ListClusters, Finish, Goto
  <2>2. TypeOK'
    BY <1>1, <2>1 DEF Labels, IInv, TypeOK
  <2>3. ReadInv'
    BY <2>1 DEF ReadInv
  <2>. QED
    BY <1>2, <2>2, <2>3 DEF IInv
<1>5. CASE GetSecret
  <2>1. CASE Goto("error") /\ UNCHANGED secret
    <3>1. TypeOK'
      BY <1>1, <1>5, <2>1 DEF GetSecret, Goto, Labels, IInv, TypeOK
    <3>2. ReadInv'
      BY <2>1 DEF Goto, ReadInv
    <3>. QED
      BY <1>2, <3>1, <3>2 DEF IInv
  <2>2. CASE /\ secretCache[Looked] # None /\ secret' = secretCache[Looked]
             /\ Goto("ready")
    <3>1. /\ secret' <= life[Looked] /\ secret' # None
          /\ secret' \in 0 .. MaxLives
      BY <2>2, LookedType DEF IInv, SecretInv, TypeOK
    <3>2. TypeOK'
      BY <1>1, <1>5, <2>2, <3>1 DEF GetSecret, Goto, Labels, IInv, TypeOK
    <3>3. ReadInv'
      BY <1>1, <1>5, <2>2, <3>1 DEF GetSecret, Goto, ReadInv, Looked
    <3>. QED
      BY <1>2, <3>2, <3>3 DEF IInv
  <2>. QED
    BY <1>5, <2>1, <2>2 DEF GetSecret, Looked
<1>6. CASE GetReady
  <2>1. CASE Goto("requeue") /\ UNCHANGED checked
    <3>1. TypeOK'
      BY <1>1, <1>6, <2>1 DEF GetReady, Goto, Labels, IInv, TypeOK
    <3>2. ReadInv'
      BY <2>1 DEF Goto, ReadInv
    <3>. QED
      BY <1>2, <3>1, <3>2 DEF IInv
  <2>2. CASE checked' = life[Looked] /\ Goto("client")
    <3>1. checked' \in 0 .. MaxLives
      BY <2>2, LookedType DEF IInv, TypeOK
    <3>2. TypeOK'
      BY <1>1, <1>6, <2>2, <3>1 DEF GetReady, Goto, Labels, IInv, TypeOK
    <3>3. ReadInv'
      BY <1>6, <2>2 DEF GetReady, Goto, IInv, ReadInv
    <3>. QED
      BY <1>2, <3>2, <3>3 DEF IInv
  <2>. QED
    BY <1>6, <2>1, <2>2 DEF GetReady, Looked
<1>. QED
  BY <1>3, <1>4, <1>5, <1>6 DEF Lookup

\* The clusters and the informers leave the lookup alone, and what has been
\* read stays of a cluster made already.
LEMMA ClustersStep ==
    ASSUME IInv, Clusters
    PROVE  IInv'
<1>1. UNCHANGED <<pc, name, secret, checked>>
  BY DEF Clusters, CreateCluster, WriteKubeconfig, ReadyChanges,
         DeleteCluster, CollectSecret, CacheCatchesUp, Unlooked
<1>2. ASSUME NEW k \in Keys, CreateCluster(k)
      PROVE  IInv'
  <2>1. UNCHANGED <<ready, kubeconfig, clusterCache, secretCache>>
    BY <1>2 DEF CreateCluster, Uncached
  <2>2. /\ life' \in [Keys -> 0 .. MaxLives]
        /\ \A l \in Keys : life[l] <= life'[l]
    BY <1>2, LivesAssumption DEF CreateCluster, IInv, TypeOK
  <2>3. ready' \subseteq alive' /\ alive' \subseteq Keys
    BY <1>2 DEF CreateCluster, IInv, TypeOK
  <2>4. TypeOK'
    BY <1>1, <2>1, <2>2, <2>3 DEF IInv, TypeOK
  <2>5. SecretInv'
    BY <2>1, <2>2 DEF IInv, TypeOK, SecretInv
  <2>6. ReadInv'
    BY <1>1, <2>2, LookedType DEF IInv, TypeOK, ReadInv, Looked
  <2>. QED
    BY <2>4, <2>5, <2>6 DEF IInv
<1>3. ASSUME NEW k \in Keys,
             \/ WriteKubeconfig(k) \/ ReadyChanges(k)
             \/ DeleteCluster(k) \/ CollectSecret(k)
      PROVE  IInv'
  <2>1. UNCHANGED <<life, clusterCache, secretCache>>
    BY <1>3 DEF WriteKubeconfig, ReadyChanges, DeleteCluster, CollectSecret,
                Uncached
  <2>2. kubeconfig' \in {kubeconfig, [kubeconfig EXCEPT ![k] = life[k]],
                         [kubeconfig EXCEPT ![k] = None]}
    BY <1>3 DEF WriteKubeconfig, ReadyChanges, DeleteCluster, CollectSecret
  <2>3. kubeconfig' \in [Keys -> 0 .. MaxLives] /\ SecretInv'
    BY <2>1, <2>2, LivesAssumption DEF IInv, TypeOK, SecretInv, None
  <2>4. ready' \subseteq alive' /\ alive' \subseteq Keys
    BY <1>3 DEF WriteKubeconfig, ReadyChanges, DeleteCluster, CollectSecret,
                IInv, TypeOK
  <2>5. TypeOK'
    BY <1>1, <2>1, <2>3, <2>4 DEF IInv, TypeOK
  <2>6. ReadInv'
    BY <1>1, <2>1 DEF IInv, ReadInv, Looked
  <2>. QED
    BY <2>3, <2>5, <2>6 DEF IInv
<1>4. ASSUME NEW k \in Keys, CacheCatchesUp(k)
      PROVE  IInv'
  <2>1. UNCHANGED <<life, alive, ready, kubeconfig>>
    BY <1>4 DEF CacheCatchesUp, api
  <2>2. secretCache' \in [Keys -> 0 .. MaxLives] /\ SecretInv'
    BY <1>4, <2>1 DEF CacheCatchesUp, IInv, TypeOK, SecretInv
  <2>3. clusterCache' \in [Keys -> [life: 0 .. MaxLives, ready: BOOLEAN]]
    <3>1. PICK n \in 0 .. MaxLives : n = IF k \in alive THEN life[k] ELSE None
      BY LivesAssumption DEF IInv, TypeOK, None
    <3>2. (k \in ready) = TRUE \/ (k \in ready) = FALSE
      OBVIOUS
    <3>3. \/ UNCHANGED clusterCache
          \/ \E b \in BOOLEAN : clusterCache' =
                [clusterCache EXCEPT ![k] = [life |-> n, ready |-> b]]
      BY <1>4, <3>1, <3>2, Zenon DEF CacheCatchesUp
    <3>. HIDE <3>1, <3>2
    <3>. QED
      BY <3>3 DEF IInv, TypeOK
  <2>4. TypeOK'
    BY <1>1, <2>1, <2>2, <2>3 DEF IInv, TypeOK
  <2>5. ReadInv'
    BY <1>1, <2>1 DEF IInv, ReadInv, Looked
  <2>. QED
    BY <2>2, <2>4, <2>5 DEF IInv
<1>. QED
  BY <1>2, <1>3, <1>4 DEF Clusters

LEMMA Inductive == Spec => []IInv
<1>1. IInv /\ [Next]_vars => IInv'
  <2>1. ASSUME IInv, UNCHANGED vars PROVE IInv'
    BY <2>1 DEF vars, objects, api, IInv, TypeOK, SecretInv, ReadInv, Looked
  <2>. QED
    BY <2>1, LookupStep, ClustersStep DEF Next
<1>. QED
  BY <1>1, InitInv, PTL DEF Spec

-----------------------------------------------------------------------------
\* No lookup gets past a Secret it has not read, and what it read is one of
\* the clusters made, for any namespaces and names.
THEOREM LookupTypes == Spec => []TypeOK
<1>1. IInv => TypeOK
  BY DEF IInv
<1>. QED
  BY <1>1, Inductive, PTL

\* GetWorkloadClusterClient reads the Secret from the cache and the Ready
\* condition live (reconcilers/capi/cluster.go:89-90, 158): what the sync is
\* sent through is never a client of a cluster made after the one that was
\* found ready, however far behind the caches are and however late the Secrets
\* of deleted clusters go.
THEOREM ClientIsNoSuccessor == Spec => []NotOfASuccessor
<1>1. IInv => NotOfASuccessor
  BY DEF IInv, TypeOK, ReadInv, NotOfASuccessor, None
<1>. QED
  BY <1>1, Inductive, PTL
=============================================================================
