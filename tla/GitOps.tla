------------------------------- MODULE GitOps -------------------------------
(***************************************************************************)
(* What the scaling server promises to those who POST to it, as if it      *)
(* served one request at a time and each in one step: a request is applied *)
(* once, to the tree its commit sits on, or it is dropped and leaves no    *)
(* trace, and Argo CD brings the clusters forward along the history.       *)
(*                                                                         *)
(* MgmtServer implements it with concurrent handlers of a dozen calls      *)
(* each; AutoScaling puts it between a workload cluster's controller and   *)
(* that cluster.                                                           *)
(***************************************************************************)
EXTENDS Repository

CONSTANTS Requests, Payloads, NoBody

VARIABLES
    request,    \* request[r]: the body of r, NoBody before it is POSTed
    standing,   \* standing[r]: what has become of r
    log,        \* log[p]: the commits on main of repository p
    deployed    \* deployed[p]: the revision the cluster of p runs

vars == <<request, standing, log, deployed>>

Standings == {"none", "waiting", "applied", "dropped"}

Init ==
    /\ request = [r \in Requests |-> NoBody]
    /\ standing = [r \in Requests |-> "none"]
    /\ log = [p \in Repos |-> <<>>]
    /\ deployed = [p \in Repos |-> 0]

-----------------------------------------------------------------------------
\* A POST arrives; a body that is neither of the two kinds is ignored.
Submit(r, b) ==
    /\ standing[r] = "none"
    /\ request' = [request EXCEPT ![r] = b]
    /\ standing' = [standing EXCEPT ![r] =
                      IF b.kind = "Other" THEN "dropped" ELSE "waiting"]
    /\ UNCHANGED <<log, deployed>>

\* The bodies that lead to an edit.
Serviceable(b) ==
    b.kind = "NamespaceQuota" \/ (b.kind = "ResourceQuota" /\ b.labelled)

\* The request is applied to the head of its repository.  The scan may miss
\* some of the matches, never all of them.
Apply(r) ==
    LET b == request[r]
        p == b.repo
        head == Tree(p, log[p], Len(log[p])) IN
    /\ standing[r] = "waiting"
    /\ Serviceable(b)
    /\ \E picked \in (SUBSET b.matches) \ {{}} :
          log' = [log EXCEPT ![p] =
                    Append(@, [by |-> r, picked |-> picked,
                               tree |-> Edited(b, picked, head)])]
    /\ standing' = [standing EXCEPT ![r] = "applied"]
    /\ UNCHANGED <<request, deployed>>

\* Requests are lost: one to a failing call, or all that wait to a restart.
Drop(S) ==
    /\ S # {}
    /\ \A r \in S : standing[r] = "waiting"
    /\ standing' = [r \in Requests |->
                      IF r \in S THEN "dropped" ELSE standing[r]]
    /\ UNCHANGED <<request, log, deployed>>

\* A sync goes forward along the history, to any revision in it.
Deploy(p) ==
    /\ \E i \in deployed[p] + 1 .. Len(log[p]) :
          deployed' = [deployed EXCEPT ![p] = i]
    /\ UNCHANGED <<request, standing, log>>

Next ==
    \/ \E r \in Requests : Apply(r) \/ \E b \in Payloads : Submit(r, b)
    \/ \E S \in SUBSET Requests : Drop(S)
    \/ \E p \in Repos : Deploy(p)

Spec == Init /\ [][Next]_vars
=============================================================================
