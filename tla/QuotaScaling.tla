---------------------------- MODULE QuotaScaling ----------------------------
(***************************************************************************)
(* What a scaling round does for the pods that wait for quota: the keys of *)
(* a ResourceQuota, its admission of pods by the API server, the signals   *)
(* DetectQuotaExceeded reads and the keys TriggerScaleUpResourceQuota      *)
(* raises (internal/controller/namespacequota_controller.go).  The quota   *)
(* is read, POSTed and applied in one step here; WorkloadController and    *)
(* AutoScaling take that apart.  One resource is modelled, CPU; memory has *)
(* the same keys and is raised in the same step.                           *)
(***************************************************************************)
EXTENDS Integers

CONSTANTS
    InitQuotas,     \* the quotas to start with: functions from keys to amounts
    PodSizes,       \* the pods to start with: requests and limits of one
    MaxReplicas,    \* bound on the replicas of the workload
    Step            \* scaleStep.cpu of the NamespaceQuota

\* "cpu" is another name for "requests.cpu", but another key of the map.
Keys == {"cpu", "requests.cpu", "limits.cpu"}

ASSUME QuotasAssumption ==
    \A quota \in InitQuotas : \E D \in SUBSET Keys : quota \in [D -> Nat]
ASSUME SizesAssumption ==
    PodSizes \subseteq [requests: Nat \ {0}, limits: Nat \ {0}]
ASSUME RoundsAssumption == MaxReplicas \in Nat /\ Step \in Nat \ {0}

VARIABLES
    hard,       \* spec.hard of the quota
    pod,        \* the size of the workload's pods
    desired,    \* replicas asked for
    running,    \* pods admitted
    denied,     \* the ReplicaSet's ReplicaFailure condition
    event       \* whether a Warning Event waits for watchEventsCluster

vars == <<hard, pod, desired, running, denied, event>>

\* What a pod takes of key k.
Takes(k) == IF k = "limits.cpu" THEN pod.limits ELSE pod.requests
Used(k) == running * Takes(k)

\* With this much of a key every pod is admitted.
Plenty == MaxReplicas * (IF pod.limits > pod.requests THEN pod.limits
                                                      ELSE pod.requests)

\* The quota, the workload and the signals are in their types.
TypeOK ==
    /\ \E D \in SUBSET Keys : hard \in [D -> Nat]
    /\ pod \in PodSizes
    /\ desired \in 0 .. MaxReplicas
    /\ running \in 0 .. MaxReplicas
    /\ denied \in BOOLEAN
    /\ event \in BOOLEAN

Init ==
    /\ hard \in InitQuotas
    /\ pod \in PodSizes
    /\ desired = 0
    /\ running = 0
    /\ denied = FALSE
    /\ event = FALSE

-----------------------------------------------------------------------------
(***************************************************************************)
(* The workload and the API server                                         *)
(***************************************************************************)
\* Quota admission looks at every key of the quota.
Admits(quota) == \A k \in DOMAIN quota : Used(k) + Takes(k) <= quota[k]

ScaleWorkload ==
    /\ \E d \in 0 .. MaxReplicas : desired' = d
    /\ UNCHANGED <<hard, pod, running, denied, event>>

CreatePod ==
    /\ running < desired
    /\ Admits(hard)
    /\ running' = running + 1
    /\ denied' = FALSE
    /\ UNCHANGED <<hard, pod, desired, event>>

\* "exceeded quota": the ReplicaSet controller notes it and tries again.
DenyPod ==
    /\ running < desired
    /\ ~ Admits(hard)
    /\ denied' = TRUE
    /\ event' = TRUE
    /\ UNCHANGED <<hard, pod, desired, running>>

DeletePod ==
    /\ running > desired
    /\ running' = running - 1
    /\ UNCHANGED <<hard, pod, desired, denied, event>>

-----------------------------------------------------------------------------
(***************************************************************************)
(* The controller                                                          *)
(***************************************************************************)
Has(k) == IF k \in DOMAIN hard THEN hard[k] ELSE 0

\* Mutant: the step is subtracted.
ScaleUpSubtracts ==
    hard' = [k \in DOMAIN hard \cup {"limits.cpu"} |->
                IF k = "limits.cpu" THEN Has(k) - Step ELSE hard[k]]

\* Mutant: the step replaces the amount.
ScaleUpSets ==
    hard' = [k \in DOMAIN hard \cup {"limits.cpu"} |->
                IF k = "limits.cpu" THEN Step ELSE hard[k]]

\* Mutant: the step is added to the key the status is read by (up to Plenty,
\* the bound on rounds looking at the limits).
ScaleUpPlainKey ==
    hard' = [k \in DOMAIN hard \cup {"cpu"} |->
                IF k = "cpu" /\ Has(k) < Plenty THEN Has(k) + Step ELSE hard[k]]

\* TriggerScaleUpResourceQuota adds the step to the limits, which count as 0
\* when the quota has none, and to no other key.  Nothing compares the sum
\* with maxQuota.
ScaleUp ==
    hard' = [k \in DOMAIN hard \cup {"limits.cpu"} |->
                IF k = "limits.cpu" THEN Has(k) + Step ELSE hard[k]]

\* Bound on the rounds, to keep the instance finite: none once the limits
\* admit every pod.  The code knows no such end.
RoundsLeft == Has("limits.cpu") < Plenty

\* watchEventsCluster scales, or is throttled or fails on the way.
HandleEvent ==
    /\ RoundsLeft
    /\ event
    /\ event' = FALSE
    /\ ScaleUp
    /\ UNCHANGED <<pod, desired, running, denied>>

DropEvent ==
    /\ event
    /\ event' = FALSE
    /\ UNCHANGED <<hard, pod, desired, running, denied>>

\* DetectQuotaExceeded reads Status.Hard.Cpu(), which is the key "cpu" alone,
\* and then the conditions and the Events.
QuotaDenied ==
    \/ Has("cpu") > 0 /\ Used("cpu") >= Has("cpu")
    \/ denied
    \/ event

\* Reconcile raises the quota when it takes it for denied and finds no room
\* in the cluster.
Reconcile ==
    /\ RoundsLeft
    /\ QuotaDenied
    /\ ScaleUp
    /\ UNCHANGED <<pod, desired, running, denied, event>>

Workload == ScaleWorkload \/ CreatePod \/ DenyPod \/ DeletePod
Controller == HandleEvent \/ DropEvent \/ Reconcile

Next == Workload \/ Controller

Spec == Init /\ [][Next]_vars

\* The ReplicaSet controller keeps trying, and of the Events it makes some
\* get past the throttle of a minute.
Fairness ==
    /\ WF_vars(CreatePod) /\ WF_vars(DenyPod) /\ WF_vars(DeletePod)
    /\ SF_vars(HandleEvent)

FairSpec == Spec /\ Fairness

-----------------------------------------------------------------------------
(***************************************************************************)
(* Properties                                                              *)
(***************************************************************************)
\* The keys no round raises leave room for every replica asked for.
OtherKeysAdmit ==
    \A k \in DOMAIN hard \ {"limits.cpu"} : desired * Takes(k) <= hard[k]

\* Round after round leads to the pods: a workload that asks for replicas,
\* and goes on asking, gets them, however the Events are throttled, as long
\* as no key but the limits stands in the way.  With the quota of
\* README.md:23-34, which limits the requests as well, that is one pod of
\* README.md:84-109 and never two.  Nothing stops the rounds at maxQuota
\* (README.md:61, 78): pods whose limits go beyond it are admitted too.
WaitingAdmitted ==
    (running < desired /\ OtherKeysAdmit)
        ~> (running >= desired \/ ~ OtherKeysAdmit)

\* A round never puts the pods that run above their quota: what has been
\* admitted could be admitted again.
RunningWithinQuota == \A k \in DOMAIN hard : Used(k) <= hard[k]
=============================================================================
