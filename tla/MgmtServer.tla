----------------------------- MODULE MgmtServer -----------------------------
(***************************************************************************)
(* The scaling server of the management cluster (restapi/restapi_server.go *)
(* with the git and Argo CD helpers of reconcilers/git and the cluster     *)
(* lookup of reconcilers/capi).                                            *)
(*                                                                         *)
(* net/http runs every POST in a goroutine of its own, nothing serialises  *)
(* the handlers, and a handler has no retry: whatever fails is logged and  *)
(* the request is answered 204 all the same.  What the handlers share is   *)
(* the Kubernetes API (objects with optimistic locking, read through the   *)
(* manager's cache), the git repositories, the Argo CD applications and    *)
(* the Gitea client singleton.  Each handler is a process with a program   *)
(* counter; each call it makes is one step.                                *)
(***************************************************************************)
EXTENDS Repository, FiniteSets

CONSTANTS
    Requests,       \* the POSTs one behaviour may contain
    Payloads,       \* the decoded bodies a POST may carry
    MaxCrashes,     \* bound on restarts of the server
    NoBody

ASSUME PayloadsAssumption == Payloads \subseteq Bodies
ASSUME NoBodyAssumption == NoBody \notin Payloads
ASSUME CrashesAssumption == MaxCrashes \in Nat

VARIABLES
    pc,         \* pc[r]: the call the handler of r makes next
    body,       \* body[r]: the decoded object
    outcome,    \* outcome[r]: why the handler of r returned (history)
    nsObj,      \* nsObj[n]: the Namespace object and the cache's view of it
    nqObj,      \* nqObj[n]: the NamespaceQuota object and the cache's view
    nqSpec,     \* nqSpec[n]: the body whose spec the NamespaceQuota holds
    nqHolders,  \* nqHolders[n]: handlers that hold its current version
    gitea,      \* the singleton of giteaclient.go
    clone,      \* clone[r]: the temporary clone of r and the files picked
    log,        \* log[p]: the commits of branch main on the git server
    appHolders, \* appHolders[p]: handlers holding the application's version
    appCache,   \* appCache[p]: whether the cached application is current
    operation,  \* operation[p]: the application's operation field
    deployed,   \* deployed[p]: the revision Argo CD applied in full last
    phase,      \* phase[p]: how the last operation of the application ended
    crashes

apiVars  == <<nsObj, nqObj, nqSpec, nqHolders>>
argoVars == <<appHolders, appCache, operation, deployed, phase>>
vars == <<pc, body, outcome, apiVars, gitea, clone, log, argoVars, crashes>>

(***************************************************************************)
(* An API object as the cached client sees it: it does not exist, it was   *)
(* created but the informer has not delivered it, the cache holds an older *)
(* version, or the cache is up to date.                                    *)
(***************************************************************************)
ObjStates == {"none", "unseen", "stale", "fresh"}

Labels == {"idle", "namespace", "createNs", "getNq", "createNq", "updateNq",
           "secret", "client", "clone", "edit", "secret2", "commit", "push",
           "cluster", "getApp", "updateApp", "done"}

Outcomes == {"none", "ignored", "failed", "exists", "conflict", "unlabelled",
             "noClient", "noMatch", "clean", "rejected", "crashed",
             "unsynced", "merged", "synced"}

\* No clone has been made yet.
NoClone == [rev |-> 0, tree |-> [f \in Files |-> 0], picked |-> {}]

\* The operation field: unset, set by a handler, or taken up by Argo CD,
\* which has resolved HEAD to revision rev.
NoOperation == [state |-> "unset", rev |-> 0]
Requested   == [state |-> "requested", rev |-> 0]
Running(n)  == [state |-> "running", rev |-> n]

-----------------------------------------------------------------------------
\* The tree of main of repository p after i commits.
TreeAt(p, i) == Tree(p, log[p], i)

Commits == [by: Requests, picked: SUBSET Files, tree: [Files -> Nat]]
Clones == [rev: Nat, tree: [Files -> Nat], picked: SUBSET Files]
Operations == [state: {"unset", "requested", "running"}, rev: Nat]

\* A handler that has started has a body, one that has not returned no outcome.
ControlOK ==
    /\ pc \in [Requests -> Labels]
    /\ body \in [Requests -> Payloads \cup {NoBody}]
    /\ outcome \in [Requests -> Outcomes]
    /\ \A r \in Requests :
          /\ pc[r] # "idle" => body[r] \in Payloads
          /\ pc[r] # "done" <=> outcome[r] = "none"

ApiOK ==
    /\ nsObj \in [Namespaces -> ObjStates]
    /\ nqObj \in [Namespaces -> ObjStates]
    /\ nqSpec \in [Namespaces -> Payloads \cup {NoBody}]
    /\ nqHolders \in [Namespaces -> SUBSET Requests]

GitOK ==
    /\ gitea \in {"none", "ready", "broken"}
    /\ clone \in [Requests -> Clones]
    /\ log \in [Repos -> Seq(Commits)]

ArgoOK ==
    /\ appHolders \in [Repos -> SUBSET Requests]
    /\ appCache \in [Repos -> {"stale", "fresh"}]
    /\ operation \in [Repos -> Operations]
    /\ deployed \in [Repos -> Nat]
    /\ phase \in [Repos -> {"Succeeded", "Failed"}]

\* Every variable stays in its type: the data the handlers of
\* restapi_server.go keep and share, and the program counters.
TypeOK == ControlOK /\ ApiOK /\ GitOK /\ ArgoOK /\ crashes \in 0 .. MaxCrashes

Init ==
    /\ pc = [r \in Requests |-> "idle"]
    /\ body = [r \in Requests |-> NoBody]
    /\ outcome = [r \in Requests |-> "none"]
    /\ nsObj \in [Namespaces -> {"none", "fresh"}]
    /\ nqObj \in [Namespaces -> {"none", "fresh"}]
    /\ \A n \in Namespaces : nqObj[n] = "fresh" => nsObj[n] = "fresh"
    /\ nqSpec = [n \in Namespaces |-> NoBody]
    /\ nqHolders = [n \in Namespaces |-> {}]
    /\ gitea = "none"
    /\ clone = [r \in Requests |-> NoClone]
    /\ log = [p \in Repos |-> <<>>]
    /\ appHolders = [p \in Repos |-> {}]
    /\ appCache = [p \in Repos |-> "fresh"]
    /\ operation = [p \in Repos |-> NoOperation]
    /\ deployed = [p \in Repos |-> 0]
    /\ phase = [p \in Repos |-> "Succeeded"]
    /\ crashes = 0

-----------------------------------------------------------------------------
Goto(r, l) ==
    /\ pc' = [pc EXCEPT ![r] = l]
    /\ UNCHANGED outcome

Return(r, o) ==
    /\ pc' = [pc EXCEPT ![r] = "done"]
    /\ outcome' = [outcome EXCEPT ![r] = o]

\* Mutant: a body that does not decode is handled like one that does.
ReceiveUndecoded(r) ==
    /\ pc[r] = "idle"
    /\ Goto(r, "namespace")
    /\ UNCHANGED <<body, apiVars, gitea, clone, log, argoVars, crashes>>

(***************************************************************************)
(* The HTTP handler decodes the body and dispatches on its type.           *)
(***************************************************************************)
Receive(r) ==
    /\ pc[r] = "idle"
    /\ \E b \in Payloads :
          /\ body' = [body EXCEPT ![r] = b]
          /\ IF b.kind = "Other" THEN Return(r, "ignored")
                                 ELSE Goto(r, "namespace")
    /\ UNCHANGED <<apiVars, gitea, clone, log, argoVars, crashes>>

\* Where a handler goes on once the namespace is there.
AfterNamespace(r) ==
    CASE body[r].kind = "NamespaceQuota" -> Goto(r, "getNq")
      [] body[r].kind = "ResourceQuota" /\ body[r].labelled ->
            Goto(r, "secret")
      [] OTHER -> Return(r, "unlabelled")

(***************************************************************************)
(* Get of the Namespace, from the cache.  Every error counts as "absent".  *)
(***************************************************************************)
GetNamespace(r) ==
    /\ pc[r] = "namespace"
    /\ \/ /\ nsObj[body[r].ns] = "fresh"
          /\ AfterNamespace(r)
       \/ Goto(r, "createNs")
    /\ UNCHANGED <<body, apiVars, gitea, clone, log, argoVars, crashes>>

\* Like any call that writes, it may take effect and its answer be lost.
CreateNamespace(r) ==
    LET n == body[r].ns IN
    /\ pc[r] = "createNs"
    /\ \/ /\ nsObj[n] = "none"
          /\ nsObj' = [nsObj EXCEPT ![n] = "unseen"]
          /\ AfterNamespace(r) \/ Return(r, "failed")
       \/ /\ nsObj[n] # "none"
          /\ Return(r, "exists")
          /\ UNCHANGED nsObj
    /\ UNCHANGED <<body, nqObj, nqSpec, nqHolders, gitea, clone, log,
                   argoVars, crashes>>

(***************************************************************************)
(* handleNamespaceQuota mirrors the object: Get, Create when the Get       *)
(* fails, then Update with the version it got.                             *)
(***************************************************************************)
GetNq(r) ==
    LET n == body[r].ns IN
    /\ pc[r] = "getNq"
    /\ \/ /\ nqObj[n] \in {"stale", "fresh"}
          /\ nqHolders' = [nqHolders EXCEPT ![n] =
                             IF nqObj[n] = "fresh" THEN @ \cup {r} ELSE @]
          /\ Goto(r, "updateNq")
       \/ /\ Goto(r, "createNq")
          /\ UNCHANGED nqHolders
    /\ UNCHANGED <<body, nsObj, nqObj, nqSpec, gitea, clone, log, argoVars,
                   crashes>>

\* Mutant: the Update is made with an object that has no version.
CreateNqVersionLost(r) ==
    LET n == body[r].ns IN
    /\ pc[r] = "createNq"
    /\ \/ /\ nqObj[n] = "none"
          /\ nqObj' = [nqObj EXCEPT ![n] = "unseen"]
          /\ Goto(r, "updateNq")
       \/ /\ nqObj[n] # "none"
          /\ Return(r, "exists")
          /\ UNCHANGED nqObj
    /\ UNCHANGED <<body, nsObj, nqSpec, nqHolders, gitea, clone, log, argoVars,
                   crashes>>

\* Mutant: an object that had to be created is not updated any more.
CreateNqIsEnough(r) ==
    LET n == body[r].ns IN
    /\ pc[r] = "createNq"
    /\ \/ /\ nqObj[n] = "none"
          /\ nqObj' = [nqObj EXCEPT ![n] = "unseen"]
          /\ nqHolders' = [nqHolders EXCEPT ![n] = {r}]
          /\ Goto(r, "secret") \/ Return(r, "failed")
       \/ /\ nqObj[n] # "none"
          /\ Return(r, "exists")
          /\ UNCHANGED <<nqObj, nqHolders>>
    /\ UNCHANGED <<body, nsObj, nqSpec, gitea, clone, log, argoVars, crashes>>

\* Create fills nq with the version the server gave the new object.
CreateNq(r) ==
    LET n == body[r].ns IN
    /\ pc[r] = "createNq"
    /\ \/ /\ nqObj[n] = "none"
          /\ nqObj' = [nqObj EXCEPT ![n] = "unseen"]
          /\ nqHolders' = [nqHolders EXCEPT ![n] = {r}]
          /\ Goto(r, "updateNq") \/ Return(r, "failed")
       \/ /\ nqObj[n] # "none"
          /\ Return(r, "exists")
          /\ UNCHANGED <<nqObj, nqHolders>>
    /\ UNCHANGED <<body, nsObj, nqSpec, gitea, clone, log, argoVars, crashes>>

\* An Update that changes nothing keeps the version.
UpdateNq(r) ==
    LET n == body[r].ns IN
    /\ pc[r] = "updateNq"
    /\ \/ /\ r \in nqHolders[n]
          /\ nqSpec[n] # body[r]
          /\ nqSpec' = [nqSpec EXCEPT ![n] = body[r]]
          /\ nqHolders' = [nqHolders EXCEPT ![n] = {}]
          /\ nqObj' = [nqObj EXCEPT ![n] = IF @ = "fresh" THEN "stale" ELSE @]
          /\ Goto(r, "secret") \/ Return(r, "failed")
       \/ /\ r \in nqHolders[n]
          /\ nqSpec[n] = body[r]
          /\ Goto(r, "secret")
          /\ UNCHANGED <<nqSpec, nqHolders, nqObj>>
       \/ /\ r \notin nqHolders[n]
          /\ Return(r, "conflict")
          /\ UNCHANGED <<nqSpec, nqHolders, nqObj>>
    /\ UNCHANGED <<body, nsObj, gitea, clone, log, argoVars, crashes>>

-----------------------------------------------------------------------------
(***************************************************************************)
(* Credentials, the Gitea singleton, the clone                             *)
(***************************************************************************)
GetSecret(r) ==
    /\ pc[r] = "secret"
    /\ Goto(r, "client")
    /\ UNCHANGED <<body, apiVars, gitea, clone, log, argoVars, crashes>>

\* Mutant: the handler waits for a client that is initialised.
GetClientWaits(r) ==
    /\ pc[r] = "client"
    /\ gitea' \in IF gitea = "none" THEN {"ready", "broken"} ELSE {gitea}
    /\ IF gitea' = "ready" THEN Goto(r, "clone") ELSE UNCHANGED <<pc, outcome>>
    /\ UNCHANGED <<body, apiVars, clone, log, argoVars, crashes>>

\* The first caller starts the singleton; a failed start is kept for good.
\* A caller may find a client that is ready not initialised yet: see
\* GiteaSingleton, and GiteaClient for why.
GetClient(r) ==
    /\ pc[r] = "client"
    /\ gitea' \in IF gitea = "none" THEN {"ready", "broken"} ELSE {gitea}
    /\ \/ gitea' = "ready" /\ Goto(r, "clone")
       \/ Return(r, "noClient")
    /\ UNCHANGED <<body, apiVars, clone, log, argoVars, crashes>>

\* Clone of the head and scan.  The scan may return before it collected
\* every match (its collector may see "done" first).
CloneAndScan(r) ==
    LET p == body[r].repo IN
    /\ pc[r] = "clone"
    /\ \E picked \in SUBSET body[r].matches :
          IF picked = {}
          THEN /\ Return(r, "noMatch")
               /\ UNCHANGED clone
          ELSE /\ clone' = [clone EXCEPT ![r] =
                              [rev |-> Len(log[p]),
                               tree |-> TreeAt(p, Len(log[p])),
                               picked |-> picked]]
               /\ Goto(r, "edit")
    /\ UNCHANGED <<body, apiVars, gitea, log, argoVars, crashes>>

\* The update goroutines, each on a file of its own, joined by wg.Wait.
EditFiles(r) ==
    /\ pc[r] = "edit"
    /\ clone' = [clone EXCEPT ![r].tree =
                   Edited(body[r], clone[r].picked, clone[r].tree)]
    /\ Goto(r, IF body[r].kind = "NamespaceQuota" THEN "secret2" ELSE "commit")
    /\ UNCHANGED <<body, apiVars, gitea, log, argoVars, crashes>>

\* handleNamespaceQuota reads the credentials a second time.
GetSecretAgain(r) ==
    /\ pc[r] = "secret2"
    /\ Goto(r, "commit")
    /\ UNCHANGED <<body, apiVars, gitea, clone, log, argoVars, crashes>>

\* Mutant: nothing to commit counts as success.
CommitOrClean(r) ==
    /\ pc[r] = "commit"
    /\ Goto(r, IF clone[r].tree = TreeAt(body[r].repo, clone[r].rev)
               THEN "getApp" ELSE "push")
    /\ UNCHANGED <<body, apiVars, gitea, clone, log, argoVars, crashes>>

(***************************************************************************)
(* CommitAndPush.  A clean work tree is an error of Commit.  A replica     *)
(* count that is not changed is not written; a ResourceQuota always is, so *)
(* the work tree may differ in its formatting alone.                       *)
(***************************************************************************)
Commit(r) ==
    /\ pc[r] = "commit"
    /\ LET unchanged == clone[r].tree = TreeAt(body[r].repo, clone[r].rev) IN
          \/ /\ unchanged
             /\ Return(r, "clean")
          \/ /\ unchanged => body[r].kind = "ResourceQuota"
             /\ Goto(r, "push")
    /\ UNCHANGED <<body, apiVars, gitea, clone, log, argoVars, crashes>>

TheCommit(r) ==
    [by |-> r, picked |-> clone[r].picked, tree |-> clone[r].tree]

\* A ResourceQuota is synced on the workload cluster, found first.
AfterPush(r) ==
    IF body[r].kind = "NamespaceQuota" THEN "getApp" ELSE "cluster"

\* Mutant: a push with force.
PushForced(r) ==
    LET p == body[r].repo IN
    /\ pc[r] = "push"
    /\ log' = [log EXCEPT ![p] =
                 Append(SubSeq(log[p], 1, clone[r].rev), TheCommit(r))]
    /\ Goto(r, AfterPush(r))
    /\ UNCHANGED <<body, apiVars, gitea, clone, argoVars, crashes>>

\* Mutant: the edited tree is pushed on top of whatever is there.
PushOnTop(r) ==
    LET p == body[r].repo IN
    /\ pc[r] = "push"
    /\ log' = [log EXCEPT ![p] = Append(@, TheCommit(r))]
    /\ Goto(r, AfterPush(r))
    /\ UNCHANGED <<body, apiVars, gitea, clone, argoVars, crashes>>

\* Mutant: a push whose answer was lost is tried again, at label l.
PushRetriedAt(r, l) ==
    LET p == body[r].repo IN
    /\ pc[r] = "push"
    /\ \/ /\ clone[r].rev = Len(log[p])
          /\ log' = [log EXCEPT ![p] = Append(@, TheCommit(r))]
          /\ Goto(r, AfterPush(r)) \/ Goto(r, l)
       \/ /\ clone[r].rev # Len(log[p])
          /\ Return(r, "rejected")
          /\ UNCHANGED log
    /\ UNCHANGED <<body, apiVars, gitea, clone, argoVars, crashes>>

PushRetriedWithNewClone(r) ==
    /\ pc[r] = "push"
    /\ Len(log[body[r].repo]) < 3
    /\ PushRetriedAt(r, "clone")
PushRetriedWithSameClone(r) == PushRetriedAt(r, "push")

\* The server takes a push only as a fast-forward.  Its answer may be lost
\* after it took the commit: the handler then fails with the commit landed.
Push(r) ==
    LET p == body[r].repo IN
    /\ pc[r] = "push"
    /\ \/ /\ clone[r].rev = Len(log[p])
          /\ log' = [log EXCEPT ![p] = Append(@, TheCommit(r))]
          /\ Goto(r, AfterPush(r)) \/ Return(r, "unsynced")
       \/ /\ clone[r].rev # Len(log[p])
          /\ Return(r, "rejected")
          /\ UNCHANGED log
    /\ UNCHANGED <<body, apiVars, gitea, clone, argoVars, crashes>>

-----------------------------------------------------------------------------
(***************************************************************************)
(* The Argo CD application                                                 *)
(***************************************************************************)

\* GetWorkloadClusterClient gives no client while the cluster is not ready.
GetCluster(r) ==
    /\ pc[r] = "cluster"
    /\ Goto(r, "getApp") \/ Return(r, "unsynced")
    /\ UNCHANGED <<body, apiVars, gitea, clone, log, argoVars, crashes>>

\* The management cluster's client reads its cache, the workload cluster's
\* client is direct.
GetApp(r) ==
    LET p == body[r].repo
        current == body[r].kind = "ResourceQuota" \/ appCache[p] = "fresh" IN
    /\ pc[r] = "getApp"
    /\ appHolders' = [appHolders EXCEPT ![p] =
                        IF current THEN @ \cup {r} ELSE @]
    /\ Goto(r, "updateApp")
    /\ UNCHANGED <<body, apiVars, gitea, clone, log, appCache, operation,
                   deployed, phase, crashes>>

(***************************************************************************)
(* Update of the application with a sync of HEAD.  Nothing looks at an     *)
(* operation that is already there: while one runs the Update changes      *)
(* nothing and starts nothing, and the handler is told, and reports, the   *)
(* same success.  "synced" and "merged" are that one success, told apart   *)
(* here by what came of it.                                                *)
(***************************************************************************)
UpdateApp(r) ==
    LET p == body[r].repo IN
    /\ pc[r] = "updateApp"
    /\ \/ /\ r \in appHolders[p]
          /\ operation[p].state # "running"
          /\ operation' = [operation EXCEPT ![p] = Requested]
          /\ IF operation[p] = Requested
             THEN UNCHANGED <<appHolders, appCache>>
             ELSE /\ appHolders' = [appHolders EXCEPT ![p] = {}]
                  /\ appCache' = [appCache EXCEPT ![p] = "stale"]
          /\ Return(r, "synced") \/ Return(r, "unsynced")
       \/ /\ r \in appHolders[p]
          /\ operation[p].state = "running"
          /\ Return(r, "merged")
          /\ UNCHANGED <<operation, appHolders, appCache>>
       \/ /\ r \notin appHolders[p]
          /\ Return(r, "unsynced")
          /\ UNCHANGED <<operation, appHolders, appCache>>
    /\ UNCHANGED <<body, apiVars, gitea, clone, log, deployed, phase, crashes>>

(***************************************************************************)
(* A call that fails for a reason outside the server (the API server, the  *)
(* git server, the file system): every one of them ends the handler.       *)
(***************************************************************************)
FailingCalls == {"createNs", "createNq", "updateNq", "secret", "clone",
                 "edit", "secret2", "commit", "push"}

CallFails(r) ==
    /\ \/ pc[r] \in FailingCalls /\ Return(r, "failed")
       \/ pc[r] \in {"getApp", "updateApp"} /\ Return(r, "unsynced")
    /\ UNCHANGED <<body, apiVars, gitea, clone, log, argoVars, crashes>>

-----------------------------------------------------------------------------
(***************************************************************************)
(* The environment                                                         *)
(***************************************************************************)

\* Argo CD takes up the operation and resolves HEAD; it records that in the
\* application's status.
ArgoStart(p) ==
    /\ operation[p].state = "requested"
    /\ operation' = [operation EXCEPT ![p] = Running(Len(log[p]))]
    /\ appHolders' = [appHolders EXCEPT ![p] = {}]
    /\ appCache' = [appCache EXCEPT ![p] = "stale"]
    /\ UNCHANGED <<pc, body, outcome, apiVars, gitea, clone, log, deployed,
                   phase, crashes>>

\* The sync is over, done or failed: Argo CD records which and clears the
\* operation field.
ArgoFinish(p) ==
    /\ operation[p].state = "running"
    /\ \/ /\ deployed' = [deployed EXCEPT ![p] = operation[p].rev]
          /\ phase' = [phase EXCEPT ![p] = "Succeeded"]
       \/ /\ phase' = [phase EXCEPT ![p] = "Failed"]
          /\ UNCHANGED deployed
    /\ operation' = [operation EXCEPT ![p] = NoOperation]
    /\ appHolders' = [appHolders EXCEPT ![p] = {}]
    /\ appCache' = [appCache EXCEPT ![p] = "stale"]
    /\ UNCHANGED <<pc, body, outcome, apiVars, gitea, clone, log, crashes>>

Seen(obj) == IF obj = "none" THEN "none" ELSE "fresh"

\* The informers deliver what the cache is behind on.
CacheCatchesUp ==
    \/ \E n \in Namespaces :
          /\ nsObj[n] = "unseen"
          /\ nsObj' = [nsObj EXCEPT ![n] = "fresh"]
          /\ UNCHANGED <<nqObj, appCache>>
    \/ \E n \in Namespaces :
          /\ nqObj[n] \in {"unseen", "stale"}
          /\ nqObj' = [nqObj EXCEPT ![n] = "fresh"]
          /\ UNCHANGED <<nsObj, appCache>>
    \/ \E p \in Repos :
          /\ appCache[p] = "stale"
          /\ appCache' = [appCache EXCEPT ![p] = "fresh"]
          /\ UNCHANGED <<nsObj, nqObj>>

CacheSync ==
    /\ CacheCatchesUp
    /\ UNCHANGED <<pc, body, outcome, nqSpec, nqHolders, gitea, clone, log,
                   appHolders, operation, deployed, phase, crashes>>

Active(r) == pc[r] \notin {"idle", "done"}

\* The server restarts: its handlers are gone, the singleton is unset and
\* the caches are listed anew.
Crash ==
    /\ crashes < MaxCrashes
    /\ crashes' = crashes + 1
    /\ pc' = [r \in Requests |-> IF Active(r) THEN "done" ELSE pc[r]]
    /\ outcome' = [r \in Requests |->
                     IF Active(r) THEN "crashed" ELSE outcome[r]]
    /\ gitea' = "none"
    /\ nsObj' = [n \in Namespaces |-> Seen(nsObj[n])]
    /\ nqObj' = [n \in Namespaces |-> Seen(nqObj[n])]
    /\ appCache' = [p \in Repos |-> "fresh"]
    /\ UNCHANGED <<body, nqSpec, nqHolders, clone, log, appHolders, operation,
                   deployed, phase>>

-----------------------------------------------------------------------------
Handler(r) ==
    \/ GetNamespace(r)  \/ CreateNamespace(r)
    \/ GetNq(r)         \/ CreateNq(r)         \/ UpdateNq(r)
    \/ GetSecret(r)     \/ GetClient(r)        \/ CloneAndScan(r)
    \/ EditFiles(r)     \/ GetSecretAgain(r)   \/ Commit(r)
    \/ Push(r)          \/ GetCluster(r)       \/ GetApp(r)
    \/ UpdateApp(r)     \/ CallFails(r)

Environment ==
    \/ \E p \in Repos : ArgoStart(p) \/ ArgoFinish(p)
    \/ CacheSync
    \/ Crash

Next ==
    \/ \E r \in Requests : Receive(r) \/ Handler(r)
    \/ Environment

Spec == Init /\ [][Next]_vars

\* Every call a handler makes returns, with an answer or an error.
Fairness == \A r \in Requests : WF_vars(Handler(r))

FairSpec == Spec /\ Fairness

-----------------------------------------------------------------------------
(***************************************************************************)
(* Properties                                                              *)
(***************************************************************************)

\* Every commit on main is the request of its author applied to the tree
\* just below it: with handlers that clone, edit and push at their own pace,
\* no commit undoes an increment another handler pushed in between
\* (handleRQFromCluster, handleNamespaceQuota, CommitAndPush).
LinearHistory ==
    \A p \in Repos : \A i \in 1 .. Len(log[p]) :
        LET c == log[p][i] IN
        c.tree = Edited(body[c.by], c.picked, TreeAt(p, i - 1))

\* "maxNodes" bounds a scale-up (README.md:71): from one commit to the next
\* its request adds at most one machine to a MachineDeployment, never beyond
\* the maximum, whatever was pushed since the request came in; machines are
\* taken away only down to a maximum that was below them, as when it was
\* lowered or left out.
NodesWithinMaximum ==
    \A p \in Repos : \A i \in 1 .. Len(log[p]), f \in Files :
        LET b == body[log[p][i].by]
            before == TreeAt(p, i - 1)[f]
            after == log[p][i].tree[f] IN
        b.kind = "NamespaceQuota" =>
            \/ after = before
            \/ after = before + 1 /\ after <= b.value
            \/ after = b.value /\ after < before

\* A commit sits on the very revision its author cloned.  So one request
\* scales at most once, and of two requests that read the same replica
\* count at most one is pushed.
CommitFollowsBase ==
    \A p \in Repos : \A i \in 1 .. Len(log[p]) :
        LET r == log[p][i].by IN
        /\ body[r].repo = p
        /\ clone[r].rev = i - 1

\* What was pushed stays: no push drops or rewrites an earlier commit, so a
\* request that was told its push went through is not undone.
HistoryKept ==
    [][\A p \in Repos : /\ Len(log[p]) <= Len(log'[p])
                        /\ log[p] = SubSeq(log'[p], 1, Len(log[p]))]_vars

\* A push is refused only because another request pushed to the same
\* repository after this one cloned it; a request with no rival is never
\* lost at the push.
RejectedByARival ==
    \A r \in Requests : outcome[r] = "rejected" =>
        \E i \in 1 .. Len(log[body[r].repo]) :
            /\ i > clone[r].rev
            /\ log[body[r].repo][i].by # r

\* The Update of the mirrored NamespaceQuota conflicts only if another
\* request of the same namespace wrote it: a request never loses to the
\* version it created itself.
ConflictNeedsARival ==
    \A r \in Requests : outcome[r] = "conflict" =>
        \E s \in Requests \ {r} :
            /\ body[s] # NoBody
            /\ body[s].kind = "NamespaceQuota"
            /\ body[s].ns = body[r].ns

\* Every commit is for a namespace the management cluster has, and nodes are
\* added only once it has the NamespaceQuota with the spec of a POST for that
\* namespace: not with what Create alone leaves, which lacks the behavior,
\* although the object, its spec and the commit are calls of their own, any
\* of which may fail or be lost in a restart (handleNamespaceQuota).
MirroredBeforeScaled ==
    \A p \in Repos : \A i \in 1 .. Len(log[p]) :
        LET b == body[log[p][i].by] IN
        /\ nsObj[b.ns] # "none"
        /\ b.kind = "NamespaceQuota" =>
              /\ nqObj[b.ns] # "none"
              /\ \E s \in Requests :
                    /\ pc[s] # "idle"
                    /\ body[s].kind = "NamespaceQuota"
                    /\ body[s].ns = b.ns
                    /\ nqSpec[b.ns] = body[s]

\* A request that reports success has its commit on main: the push is always
\* made before the sync is asked for.  If no operation ran when it asked,
\* that commit is deployed once the operation field is clear and the last
\* operation did not fail, whoever else pushed and asked in between.  A sync
\* asked for while one runs promises nothing (TriggerArgoCDSyncWithKubeClient
\* looks at neither the operation nor its result).
SyncedIsDeployed ==
    \A r \in Requests :
        LET p == body[r].repo IN
        outcome[r] \in {"synced", "merged"} =>
            \E i \in 1 .. Len(log[p]) :
                /\ log[p][i].by = r
                /\ /\ outcome[r] = "synced"
                   /\ operation[p] = NoOperation
                   /\ phase[p] = "Succeeded"
                   => i <= deployed[p]

\* Every POST the server takes is answered, whatever fails on the way: no
\* handler waits for another one, or for a Gitea client that is not there.
Answered ==
    \A r \in Requests : pc[r] = "namespace" ~> pc[r] = "done"

(***************************************************************************)
(* What has become of a request: it is applied by the commit that carries  *)
(* it, dropped when its handler is gone without one.                       *)
(***************************************************************************)
Committed(r) == \E p \in Repos : \E i \in 1 .. Len(log[p]) : log[p][i].by = r

Standing(r) ==
    IF pc[r] = "idle" THEN "none"
    ELSE IF Committed(r) THEN "applied"
    ELSE IF pc[r] = "done" THEN "dropped" ELSE "waiting"

Service == INSTANCE GitOps WITH
              request <- body,
              standing <- [r \in Requests |-> Standing(r)]

\* Seen from outside, concurrent handlers that clone, edit and push in a
\* dozen calls, any of which may fail, serve one request at a time: each is
\* applied once, in one step, to the head of its repository, or not at all
\* (RunQuotaBasedScalingServer, CommitAndPush), and what Argo CD deploys
\* only goes forward.
ServedAtomically == Service!Spec
=============================================================================
