----------------------------- MODULE ClusterFree -----------------------------
(***************************************************************************)
(* The capacity check of Reconcile                                         *)
(* (internal/controller/namespacequota_controller.go): computeClusterFree  *)
(* lists the nodes and then the pods, subtracts and keeps the largest free *)
(* amount of each resource on one node; Reconcile then lists the pods of   *)
(* the namespace and compares the sum of their requests with the maxima.   *)
(* The three lists are read from the manager's caches, which go on         *)
(* changing in between, each on its own.  WorkloadController takes the     *)
(* outcome for a free choice.                                              *)
(***************************************************************************)
EXTENDS Integers, FiniteSets, FiniteSetsExt, Functions

CONSTANTS
    Nodes,
    Pods,
    Resources,      \* cpu, memory and GPUs in the code
    NodeStates,     \* what the cache may say of a node
    PodStates,      \* and of a pod
    Unbound,        \* no node
    MaxChanges      \* bound on the changes of the caches during a check

Amounts == [Resources -> Nat]
Taints  == [control: BOOLEAN,
            effect: {"NoSchedule", "PreferNoSchedule", "NoExecute"}]

\* "ours" tells the pods of the namespace; "init" and "main" are the sums of
\* the requests of a pod's init containers and of its containers.
ASSUME StatesAssumption ==
    /\ Unbound \notin Nodes
    /\ NodeStates \subseteq [present: BOOLEAN, unschedulable: BOOLEAN,
                             taints: SUBSET Taints, allocatable: Amounts]
    /\ PodStates \subseteq [present: BOOLEAN, ours: BOOLEAN,
                            finished: BOOLEAN, node: Nodes \cup {Unbound},
                            init: Amounts, main: Amounts]
ASSUME FiniteAssumption == IsFiniteSet(Nodes) /\ IsFiniteSet(Pods)
ASSUME ChangesAssumption == MaxChanges \in Nat

VARIABLES
    nodes, pods,    \* the caches
    changes,        \* changes of the caches since the check began
    pc,
    workers,        \* workers[n]: the allocatable resources of worker node n
    listed,         \* the pods as they were listed last
    todo,           \* what the loop at pc has still to go over
    used,           \* used[n]: what the pods listed on n request
    maxNode,        \* free.MaxNodeCPU, MaxNodeMem and MaxNodeGPU
    request,        \* podCPU, podMem and podGPU
    verdict

caches == <<nodes, pods, changes>>
vars == <<caches, pc, workers, listed, todo, used, maxNode, request, verdict>>

Zero == [r \in Resources |-> 0]
Plus(a, b) == [r \in Resources |-> a[r] + b[r]]
AtMost(a, b) == \A r \in Resources : a[r] <= b[r]

\* The requests of init containers and containers are added up.
Counted(p) == Plus(p.init, p.main)

\* The check and the caches are in their types.
TypeOK ==
    /\ nodes \in [Nodes -> NodeStates]
    /\ pods \in [Pods -> PodStates]
    /\ changes \in 0 .. MaxChanges
    /\ pc \in {"listNodes", "listPods", "count", "free", "listOurs", "sum",
               "compare", "over"}
    /\ \E S \in SUBSET Nodes : workers \in [S -> Amounts]
    /\ listed \in [Pods -> PodStates]
    /\ todo \subseteq Nodes \cup Pods
    /\ pc = "free" => todo \subseteq DOMAIN workers
    /\ used \in [Nodes -> Amounts]
    /\ maxNode \in Amounts
    /\ request \in Amounts
    /\ verdict \in {"none", "fits", "full", "panic", "retry"}

Init ==
    /\ nodes \in [Nodes -> NodeStates]
    /\ pods \in [Pods -> PodStates]
    /\ changes = 0
    /\ pc = "listNodes"
    /\ workers = [n \in {} |-> Zero]
    /\ listed = pods
    /\ todo = {}
    /\ used = [n \in Nodes |-> Zero]
    /\ maxNode = Zero
    /\ request = Zero
    /\ verdict = "none"

-----------------------------------------------------------------------------
(***************************************************************************)
(* computeClusterFree                                                      *)
(***************************************************************************)
\* Cordoned nodes and control planes are left out; a control-plane taint
\* with another effect does not make one.
IsWorker(n) ==
    /\ n.present
    /\ ~ n.unschedulable
    /\ \A t \in n.taints :
          t.control => t.effect \notin {"NoSchedule", "PreferNoSchedule"}

\* Without the list there is no result, which Reconcile reads all the same:
\* controller-runtime recovers the panic and tries again.
ListNodes ==
    /\ pc = "listNodes"
    /\ \/ /\ workers' = [n \in {m \in Nodes : IsWorker(nodes[m])} |->
                            nodes[n].allocatable]
          /\ pc' = "listPods"
          /\ UNCHANGED verdict
       \/ /\ pc' = "over"
          /\ verdict' = "panic"
          /\ UNCHANGED workers
    /\ UNCHANGED <<caches, listed, todo, used, maxNode, request>>

ListPods ==
    /\ pc = "listPods"
    /\ \/ /\ listed' = pods
          /\ todo' = {p \in Pods : pods[p].present}
          /\ pc' = "count"
          /\ UNCHANGED verdict
       \/ /\ pc' = "over"
          /\ verdict' = "panic"
          /\ UNCHANGED <<listed, todo>>
    /\ UNCHANGED <<caches, workers, used, maxNode, request>>

\* Whether pod p counts on a node: not when it has ended, has no node yet or
\* is on a node that is no worker or was not listed.
CountsOn(p, n) == ~ p.finished /\ p.node = n /\ n \in DOMAIN workers

\* Mutant: pods that have ended are counted.
CountPodEnded(p) ==
    /\ pc = "count"
    /\ p \in todo
    /\ todo' = todo \ {p}
    /\ used' = [n \in Nodes |->
                   IF listed[p].node = n /\ n \in DOMAIN workers
                   THEN Plus(used[n], Counted(listed[p])) ELSE used[n]]
    /\ UNCHANGED <<caches, pc, workers, listed, maxNode, request, verdict>>

CountPod(p) ==
    /\ pc = "count"
    /\ p \in todo
    /\ todo' = todo \ {p}
    /\ used' = [n \in Nodes |->
                   IF CountsOn(listed[p], n)
                   THEN Plus(used[n], Counted(listed[p])) ELSE used[n]]
    /\ UNCHANGED <<caches, pc, workers, listed, maxNode, request, verdict>>

CountEnds ==
    /\ pc = "count"
    /\ todo = {}
    /\ todo' = DOMAIN workers
    /\ pc' = "free"
    /\ UNCHANGED <<caches, workers, listed, used, maxNode, request, verdict>>

\* What is free on worker n, and nothing when more is requested than it has.
Free(n) == [r \in Resources |->
               IF workers[n][r] > used[n][r] THEN workers[n][r] - used[n][r]
                                             ELSE 0]

\* Mutant: the first node seeds the maxima, with what is left on it even if
\* that is less than nothing.
FreeNodeSeeds(n) ==
    /\ pc = "free"
    /\ n \in todo
    /\ todo' = todo \ {n}
    /\ maxNode' = [r \in Resources |->
                      IF maxNode[r] = 0 \/ Free(n)[r] > maxNode[r]
                      THEN workers[n][r] - used[n][r] ELSE maxNode[r]]
    /\ UNCHANGED <<caches, pc, workers, listed, used, request, verdict>>

FreeNode(n) ==
    /\ pc = "free"
    /\ n \in todo
    /\ todo' = todo \ {n}
    /\ maxNode' = [r \in Resources |->
                      IF Free(n)[r] > maxNode[r] THEN Free(n)[r]
                                                 ELSE maxNode[r]]
    /\ UNCHANGED <<caches, pc, workers, listed, used, request, verdict>>

FreeEnds ==
    /\ pc = "free"
    /\ todo = {}
    /\ pc' = "listOurs"
    /\ UNCHANGED <<caches, workers, listed, todo, used, maxNode, request,
                   verdict>>

-----------------------------------------------------------------------------
(***************************************************************************)
(* Reconcile, after a denied quota                                         *)
(***************************************************************************)
\* An error is answered with a requeue in 20 seconds.
ListOurs ==
    /\ pc = "listOurs"
    /\ \/ /\ listed' = pods
          /\ todo' = {p \in Pods : pods[p].present /\ pods[p].ours}
          /\ pc' = "sum"
          /\ UNCHANGED verdict
       \/ /\ pc' = "over"
          /\ verdict' = "retry"
          /\ UNCHANGED <<listed, todo>>
    /\ UNCHANGED <<caches, workers, used, maxNode, request>>

\* Mutant: the sum starts again with every pod.
SumPodReset(p) ==
    /\ pc = "sum"
    /\ p \in todo
    /\ todo' = todo \ {p}
    /\ request' = Counted(listed[p])
    /\ UNCHANGED <<caches, pc, workers, listed, used, maxNode, verdict>>

\* Pods that run or have ended count like those that wait.
SumPod(p) ==
    /\ pc = "sum"
    /\ p \in todo
    /\ todo' = todo \ {p}
    /\ request' = Plus(request, Counted(listed[p]))
    /\ UNCHANGED <<caches, pc, workers, listed, used, maxNode, verdict>>

SumEnds ==
    /\ pc = "sum"
    /\ todo = {}
    /\ pc' = "compare"
    /\ UNCHANGED <<caches, workers, listed, todo, used, maxNode, request,
                   verdict>>

\* Mutant: the verdict is reached before every resource has been compared.
CompareSome ==
    /\ pc = "compare"
    /\ pc' = "over"
    /\ verdict' = IF \E r \in Resources : request[r] <= maxNode[r]
                  THEN "fits" ELSE "full"
    /\ UNCHANGED <<caches, workers, listed, todo, used, maxNode, request>>

Compare ==
    /\ pc = "compare"
    /\ pc' = "over"
    /\ verdict' = IF AtMost(request, maxNode) THEN "fits" ELSE "full"
    /\ UNCHANGED <<caches, workers, listed, todo, used, maxNode, request>>

-----------------------------------------------------------------------------
(***************************************************************************)
(* The caches                                                              *)
(***************************************************************************)
Change ==
    /\ pc # "over"
    /\ changes < MaxChanges
    /\ changes' = changes + 1
    /\ UNCHANGED <<pc, workers, listed, todo, used, maxNode, request, verdict>>

\* A node joins, leaves, is cordoned or tainted.
NodeChanges(n) ==
    /\ \E s \in NodeStates \ {nodes[n]} : nodes' = [nodes EXCEPT ![n] = s]
    /\ UNCHANGED pods
    /\ Change

\* A pod is created, bound, ends or is deleted.
PodChanges(p) ==
    /\ \E s \in PodStates \ {pods[p]} : pods' = [pods EXCEPT ![p] = s]
    /\ UNCHANGED nodes
    /\ Change

Check ==
    \/ ListNodes \/ ListPods \/ CountEnds \/ FreeEnds \/ ListOurs \/ SumEnds
    \/ Compare
    \/ \E p \in Pods : CountPod(p) \/ SumPod(p)
    \/ \E n \in Nodes : FreeNode(n)

Next == \/ Check
        \/ \E n \in Nodes : NodeChanges(n)
        \/ \E p \in Pods : PodChanges(p)

Spec == Init /\ [][Next]_vars

-----------------------------------------------------------------------------
(***************************************************************************)
(* Properties                                                              *)
(***************************************************************************)
\* The pods the namespace's list named.
Ours == {p \in Pods : listed[p].present /\ listed[p].ours}

\* What the pods listed on n request of r.
RequestedOn(n, r) ==
    SumFunctionOnSet([p \in Pods |-> Counted(listed[p])[r]],
                     {p \in Pods : listed[p].present /\ CountsOn(listed[p], n)})

\* "schedulability limits (max free on a single node)"
\* (namespacequota_controller.go:440): once the loops are over, whatever
\* order the maps are ranged in, each maximum is attained on a worker and is
\* not exceeded on any, and a node has no more left than its capacity
\* without the pods that run on it.
MaximaOfListed ==
    pc = "listOurs" =>
        \A r \in Resources :
            maxNode[r] = Max({0} \cup {workers[n][r] - RequestedOn(n, r) :
                                            n \in DOMAIN workers})

\* When the check says that there is room, every pod of the namespace finds
\* enough of each resource on some worker, however the caches changed while
\* it went on; but it may be another worker for every resource.
RoomForEach ==
    verdict = "fits" =>
        \A p \in Ours, r \in Resources :
            \/ Counted(listed[p])[r] = 0
            \/ \E n \in DOMAIN workers : Counted(listed[p])[r] <= Free(n)[r]

\* The scheduler's account: init containers run before the containers.
Needs(p, r) == IF p.init[r] > p.main[r] THEN p.init[r] ELSE p.main[r]

Running(n) == {p \in Pods : pods[p].present /\ ~ pods[p].finished
                              /\ pods[p].node = n}
Waiting == {p \in Pods : pods[p].present /\ pods[p].ours
                           /\ ~ pods[p].finished /\ pods[p].node = Unbound}

\* Whether node n can take all pods of S.
Takes(n, S) ==
    \A r \in Resources :
        LET sum(T) == SumFunctionOnSet([p \in Pods |-> Needs(pods[p], r)], T) IN
        sum(S) = 0 \/ sum(S) + sum(Running(n)) <= nodes[n].allocatable[r]

\* With one worker and quiet caches the check errs on the safe side: what it
\* lets pass, the worker can take, all waiting pods of the namespace together.
SafeWithOneWorker ==
    verdict = "fits" /\ changes = 0 /\ Cardinality(DOMAIN workers) = 1 =>
        \A n \in DOMAIN workers : Takes(n, Waiting)
=============================================================================
