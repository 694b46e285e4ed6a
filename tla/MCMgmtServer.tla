---------------------------- MODULE MCMgmtServer ----------------------------
(***************************************************************************)
(* Small instances of MgmtServer.  The repository "mgmt" holds two         *)
(* MachineDeployments, "md1" and "md2", and the repository "work" a        *)
(* ResourceQuota manifest, "rq".                                           *)
(***************************************************************************)
EXTENDS MgmtServer

Body(kind, repo, labelled, matches, value) ==
    [kind |-> kind, ns |-> "team", repo |-> repo, labelled |-> labelled,
     matches |-> matches, value |-> value]

\* Room for more nodes; the two bodies share a manifest.
NodesOfOne  == Body("NamespaceQuota", "mgmt", TRUE, {"md1"}, 3)
NodesOfBoth == Body("NamespaceQuota", "mgmt", TRUE, {"md1", "md2"}, 3)
\* maxNodes below the replicas that run, as when it is left out.
NoMaxNodes  == Body("NamespaceQuota", "mgmt", TRUE, {"md1"}, 0)
QuotaOfFour == Body("ResourceQuota", "work", TRUE, {"rq"}, 4)
QuotaOfSix  == Body("ResourceQuota", "work", TRUE, {"rq"}, 6)
Unlabelled  == Body("ResourceQuota", "work", FALSE, {}, 4)
OtherKind   == Body("Other", "work", FALSE, {}, 0)

MCFiles == {"md1", "md2", "rq"}
MCRepos == {"mgmt", "work"}

\* md1 may still grow; md2 has one step left; a quota of 2.
MCInitTree ==
    [p \in MCRepos |-> [f \in MCFiles |->
        IF p = "mgmt" THEN IF f = "md1" THEN 1 ELSE IF f = "md2" THEN 2 ELSE 0
        ELSE IF f = "rq" THEN 2 ELSE 0]]

AllPayloads == {NodesOfOne, NodesOfBoth, NoMaxNodes, QuotaOfFour, QuotaOfSix,
                Unlabelled, OtherKind}
=============================================================================
