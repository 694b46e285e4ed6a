---------------------------- MODULE MCManifests ----------------------------
(* Small clones: manifests of one document, and manifests of several. *)
EXTENDS Manifests, TLC

MD(name, replicas) == [kind |-> "MachineDeployment", name |-> name,
                       replicas |-> replicas, hard |-> Missing]
RQ(name, hard) == [kind |-> "ResourceQuota", name |-> name,
                   replicas |-> Missing, hard |-> hard]
Service == [kind |-> "Other", name |-> "own", replicas |-> Missing,
            hard |-> Missing]

MCNames == {"own", "other"}

MCRequests ==
    [kind: {"NamespaceQuota"}, name: {"own"}, value: {0, 2, 5}]
    \cup [kind: {"ResourceQuota"}, name: {"own"}, value: {3}]

Contents1 == {<<MD("own", 1)>>, <<MD("own", Missing)>>, <<RQ("own", 1)>>,
              <<MD("other", 1)>>}
ContentsN == {<<MD("own", 1), MD("own", 4)>>, <<MD("own", 2), RQ("own", 1)>>,
              <<Service, MD("own", 1)>>, <<RQ("own", 1), RQ("own", 2)>>,
              <<MD("other", 1), MD("own", 1), MD("own", 1)>>}

MCLayouts == [Files -> Contents1 \cup ContentsN]
=============================================================================
