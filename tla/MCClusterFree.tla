---------------------------- MODULE MCClusterFree ----------------------------
(* Two nodes, two pods, two resources of up to two units. *)
EXTENDS ClusterFree, TLC

CONSTANTS n1, n2

MCResources == {"cpu", "memory"}
A(c, m) == [r \in MCResources |-> IF r = "cpu" THEN c ELSE m]

Node(taints, cordoned, a) ==
    [present |-> TRUE, unschedulable |-> cordoned, taints |-> taints,
     allocatable |-> a]
Control(effect) == {[control |-> TRUE, effect |-> effect]}

MCNodeStates ==
    {Node({}, FALSE, A(2, 1)), Node({}, FALSE, A(1, 2)),
     Node(Control("NoSchedule"), FALSE, A(2, 2)), Node({}, TRUE, A(2, 2)),
     Node(Control("NoExecute"), FALSE, A(2, 2))}

Pod(ours, finished, node, init, main) ==
    [present |-> TRUE, ours |-> ours, finished |-> finished, node |-> node,
     init |-> init, main |-> main]
NoPod == [Pod(TRUE, TRUE, Unbound, A(0, 0), A(0, 0)) EXCEPT !.present = FALSE]

MCPodStates ==
    {NoPod,
     Pod(TRUE, FALSE, Unbound, A(0, 0), A(1, 1)),
     Pod(TRUE, FALSE, Unbound, A(1, 0), A(1, 1)),
     Pod(TRUE, FALSE, n1, A(1, 0), A(0, 1)),
     Pod(FALSE, FALSE, n2, A(0, 0), A(1, 1)),
     Pod(TRUE, TRUE, n1, A(0, 0), A(2, 1))}
=============================================================================
