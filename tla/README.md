# Verification of the quota-based autoscaler

TLA+ models of the autoscaler of this repository, the TLC configurations that
check them on small instances, and proofs of their main safety properties for
every instance (TLAPS).

## 1. The system

One binary (`cmd/main.go`) runs in two roles.

* In every **workload cluster** it is a controller-runtime manager with one
  controller (`internal/controller/namespacequota_controller.go`). It watches
  `NamespaceQuota`, `ResourceQuota`, `Event` and `Node` objects, decides that a
  namespace is short of quota or of nodes, and POSTs an object to the management
  cluster: a `ResourceQuota` with the scale step added, or the `NamespaceQuota`.
* In the **management cluster** (`SERVER_TYPE=MGMT`) it also runs an HTTP server
  (`restapi/restapi_server.go`). Each POST clones a git repository, edits the
  manifests that match (the replicas of MachineDeployments, or `spec.hard`),
  commits, pushes, and asks Argo CD to sync. The new quota or the new nodes come
  back to the workload cluster through Argo CD and the Cluster API.

| Component | State | Operations | Talks to |
|---|---|---|---|
| Workload controller (`namespacequota_controller.go`) | throttle `lastScale` (in memory), work queue, informer caches | `Reconcile`, `watchEventsCluster`, `TriggerScaleUpResourceQuota`, `TriggerScaleUpForCluster`, `allowScale` | API server (cached reads), scaling server (POST) |
| Scaling server (`restapi_server.go`) | none of its own; a goroutine per POST | `handleRQFromCluster`, `handleNamespaceQuota` | API server, git, Argo CD |
| Repository scan (`reconcilers/git/gitea.go`) | channels and goroutines of one call | `CheckRepoForMatching…` (two copies) | the clone on disk |
| Updates, push, sync (`gitea.go`) | the temporary clone | `UpdateResource…`, `CommitAndPush`, `TriggerArgoCDSyncWithKubeClient` | git server, Argo CD |
| Gitea client (`giteaclient.go`) | a singleton behind a lock | `GetClient`, `Start`, `IsInitialized` | Gitea, a Secret |
| Cluster lookup (`reconcilers/capi/cluster.go`) | none | `GetWorkloadClusterClient` | API server, kubeconfig Secret |

What is hard:

* **Concurrency.** The informer goroutine scales inside the mapping of an Event
  while the reconcile worker may scale the same namespace. On the server nothing
  serialises the handlers: they race on the NamespaceQuota object, on the branch
  and on the Argo CD application. The scan is a pool of goroutines.
* **Stale reads.** All reads go through caches; quotas are POSTed as absolute
  values computed from what the cache said.
* **Failure.** Any call may fail, or take effect and lose its answer; no handler
  retries; the server answers 204 whatever happened. A restart forgets the
  throttle and replays all Events.
* **Time.** A throttle of a minute, a window of two minutes for Events, a
  cooldown of five minutes.

What makes each part correct:

* workload controller: a quota grows by its step and no faster than the throttle
  allows, stays within `maxQuota`, node scale-ups keep their distance, and a
  shortage that was notified is reconciled;
* scaling server: concurrent requests never undo each other, a request is applied
  at most once, what is pushed stays, a failure has a cause, success means that the
  commit is on main, and deployed in the end, nothing is scaled for a namespace that is not mirrored,
  and every POST is answered;
* scan: it returns, finds every match and nothing else, and does not panic;
* manifest updates: what is committed is every match updated and nothing else,
  never a half-written file;
* Gitea client: one instance for the process, usable or not for everybody, and
  nobody stuck at its mutex;
* capacity check: "fits" and "does not fit" mean what the log says;
* quota rounds: they lead to pods being admitted and never take admission back;
* cluster lookup: the client is that of the cluster found ready (what the code keeps of
  it: never of a later one);
* the loop as a whole: the quota of the cluster only takes values the controller
  asked for, and each side keeps what the other one assumes of it.

## 2. Modules

| Module | What it is |
|---|---|
| `Repository` | manifests, POST bodies and what the update functions make of a tree |
| `GitOps` | abstract: the service the server promises, one request at a time |
| `MgmtServer` | the server's handlers, call by call, with git, the API objects and Argo CD |
| `WorkloadController` | the controller of a workload cluster |
| `AutoScaling` | the loop: `WorkloadController`, `GitOps` and Argo CD composed |
| `RepoScan` | the goroutines and channels of the repository scan |
| `Manifests` | the update goroutines of one request, on files of several documents |
| `GiteaSingleton` | abstract: one decision about the Gitea client |
| `GiteaClient` | the check-lock-check that makes it |
| `ClusterLookup` | from a pushed commit to a client of the workload cluster |
| `ClusterFree` | the capacity check of `Reconcile` |
| `QuotaScaling` | quota keys, admission of pods, signals and rounds |
| `MC…` | values of constants for small instances |
| `…Proofs` | theorems; those of `GitOps` are in `MgmtServerProofs`, those of `WorkloadController` in `AutoScalingProofs` |

How they hang together:

```
 WorkloadController <--implements-- AutoScaling --instance--> GitOps <--implements-- MgmtServer
   (fits?) : ClusterFree                                                EditFiles   : Manifests
   (signals, step) : QuotaScaling                                       CloneAndScan: RepoScan
                                                                        GetClient   : GiteaClient
                                                                        GetCluster  : ClusterLookup
```

`AutoScaling` implements `WorkloadController` and `MgmtServer` implements `GitOps`:
both are checked as properties and proved. The modules in the lower lines open up
one step of the module above them: `Manifests` shows that `EditFiles` may be taken
for one step when every manifest has one document, `GiteaClient` that `GetClient`
may (through `GiteaSingleton`), `RepoScan` why `CloneAndScan` may miss matches,
`ClusterLookup` and `ClusterFree` why their outcome is a free choice.

### 2.1 MgmtServer

A *request* is one POST and its handler a process: `pc[r]` names the call it
makes next, and each call is one step, with its error returns. `outcome[r]`
records why the handler returned; no action reads it.

| Code | Action |
|---|---|
| HTTP handler, decoding, dispatch | `Receive` |
| Get / Create of the Namespace | `GetNamespace`, `CreateNamespace` |
| Get / Create / Update of the mirrored NamespaceQuota | `GetNq`, `CreateNq`, `UpdateNq` |
| credentials (read twice by `handleNamespaceQuota`) | `GetSecret`, `GetSecretAgain` |
| `GetClient`, `Start`, `IsInitialized` | `GetClient` |
| clone and scan | `CloneAndScan` |
| update goroutines joined by `wg.Wait` | `EditFiles` |
| `CommitAndPush` | `Commit`, `Push` |
| `GetWorkloadClusterClient` | `GetCluster` |
| `TriggerArgoCDSyncWithKubeClient` | `GetApp`, `UpdateApp` |
| an error of any of these | `CallFails` and the failing disjuncts of the others |
| restart of the server | `Crash` |

Data. A manifest is a file with one number, its replicas or its quota; a
repository is an initial tree and a log of commits; a body is a record of what
the handlers tell apart (`Bodies`). An API object is "none", "unseen" (created,
not in the cache), "stale" or "fresh" (as the cache has it); its version is the
set of handlers that hold the current one, which is all that optimistic locking
looks at. A push is taken only as a fast-forward, as a git server does without
force. Argo CD (external) takes up the operation field, resolving HEAD then, and
clears the field when the sync has deployed that revision or has failed; `phase` keeps
which. An Update that is accepted while an operation runs does not start another. The
code reports the same success for it (`gitea.go:570-574`); only the model tells the two
apart, as the outcomes "merged" and "synced". Get of an object may fail at any time,
and the code takes every error for absence: so may `GetNamespace` and `GetNq` (the
server starts before the caches are filled).

### 2.2 WorkloadController

Two threads, "watch" (the goroutine that maps Events) and "worker" (the one
reconcile worker), share `TriggerScaleUpResourceQuota` (`AllowScale`,
`ReadQuota`, `PostQuota`, `Answer`) and `TriggerScaleUpForCluster`
(`CheckCooldown`, `PostNodes`, `Answer`). `WatchEvent` starts a mapping,
`Return` ends it and enqueues what it had listed. `Reconcile` stands for the
reads of `Reconcile` up to the trigger; `QuotaDenied` and `WorkloadShortage`
give what `DetectQuotaExceeded` and `detectWorkloadShortage` may answer. The first is
free: it looks at usage, conditions and Events, and swallows the errors of its lists
(`:578`, `:590`, `:603`). `Reconcile` raises the ResourceQuota of the namespace in
`AppliedQuotaRef`, which may be any. Whether the pods fit is a free choice here, see
`ClusterFree`.

What a mapping enqueues is the outcome of a List that may fail, and then nothing is
triggered or enqueued (`:923-925`), filtered by the Event's message and
`AppliedQuotaRef` (`:928`); `mapped` says that it had something to enqueue.

Around it: Events are created (one call of the mapping), repeated (two calls, for
the old and the new object) and expire (one call); a POSTed quota is applied at
any later time and in any order; the cache follows the cluster; NamespaceQuotas
are deleted; time passes in minutes; a restart forgets the throttle and lists
everything anew. `lastUpdated` has no action that changes it because nothing in
the code writes `Status.LastUpdated` back.

Quotas are counted in scale steps. The number of ResourceQuotas of a namespace is
fixed in a behaviour, that of NamespaceQuotas can only shrink.

### 2.3 RepoScan

One action per channel operation or close of the walker, the workers, the closer
and the collector. `wg` is the wait group, on which the closer waits before it closes
`matchCh`. The walk may fail at any entry, one after the last file included. A document matches, does not, or cannot be decoded. The error
channel holds one error; sends on it never wait.

### 2.4 GitOps and AutoScaling

`GitOps` is the server as a client sees it: a request is `Submit`ted, and later
`Apply`ed in one step to the head of its repository or `Drop`ped without a trace;
`Deploy` brings the cluster forward along the history. `MgmtServer` maps to it with
`Standing(r)`: a request is "applied" once a commit carries it, "dropped" when its
handler is gone without one. The push that is taken is `Apply`; a push whose answer
is lost is still `Apply`.

`AutoScaling` extends `WorkloadController` by an instance of `GitOps` for the
repository of the workload cluster, one manifest a namespace. `PostQuotaToServer` is
the POST of a goroutine joined with `Submit`, `Answered` its end once the handler
has returned, `Disconnected` its end before that; `Serve`, `RestartServer` and
`RestartController` are what may happen to the request meanwhile, `Sync` and
`ApplyManifest` are Argo CD. The clause of `WorkloadController` that a POSTed quota
may be applied at any time is no longer there: `ApplyManifest` takes its place.

### 2.5 Manifests

One goroutine for every match the scan listed (a file with two matches is there
twice), a semaphore of two slots, `errChan`, and the handler's `Join`. `ReadFile`
is the read and all of the checks of an update function, `OpenFile` the truncation
and `WriteFile` the write of `os.WriteFile`; each may fail. A document has a kind, a
name and its two scaled fields. Overlapping writes replace the file whole: that two
outputs of different length could mix in one file is left out.

### 2.6 GiteaClient

One action per read, write or lock operation of `GetClient` and `Start`. `up` says
whether the Secret is there and Gitea answers, and may change at any time. The
unsynchronised first check is a data race, so `MayRead` lets a goroutine that got
the pointer early see the fields behind it unset while the maker still holds the
mutex. `GiteaSingleton` has the one step `Decide`.

### 2.7 ClusterFree

The check is taken list by list and, inside the loops, node by node and pod by pod
in any order, as Go ranges over maps; the caches change between any two steps. A
resource is one of a set, an amount a natural number. When a list fails the code
dereferences a nil result, which the framework recovers: verdict "panic".

### 2.8 QuotaScaling

One resource (CPU) under the three keys a quota may have it. Admission looks at
every key; `QuotaDenied` looks at the key `cpu` alone, then at conditions and
Events; `ScaleUp` raises `limits.cpu` alone. A round always adds the
step, whatever `maxQuota` says, as the code does; that there are no more of them once
the limits admit every pod (`RoundsLeft`) is a bound of the model. Reading, POSTing and
applying are one step here, because `WorkloadController` and `AutoScaling` take them apart. The
capacity check of `Reconcile` is the free choice of not taking the step.

### 2.9 ClusterLookup

`ListClusters`, `GetSecret` and `GetReady` are the three reads. The first two are of
typed objects, which the manager's client (`main.go:190`) answers from a cache, one
informer per kind; the third is of an unstructured one (`cluster.go:89-90`), which the
client reads live. Clusters are made, become ready and are deleted between them, each
incarnation with a number (`life`) that its kubeconfig carries; the Secret of a cluster
that is gone is collected at any later time, be it after its successor was made. A lookup makes each read once and never waits, so that it
ends needs no run.

## 3. What is checked

| Run | Properties | Shows |
|---|---|---|
| `mgmt_mixed` | `TypeOK`, `LinearHistory`, `CommitFollowsBase`, `HistoryKept`, `RejectedByARival`, `ConflictNeedsARival`, `MirroredBeforeScaled`, `SyncedIsDeployed`, `ServedAtomically`, `NodesWithinMaximum`, `Answered` | two POSTs of any kind, one restart |
| `loop` | `TypeOK`, `GrowthBounded`, `StepByStep`, `ImplementsController` | both goroutines, late and overtaken POSTs, restarts; the loop does what the controller assumes |
| `loop_goes_on` | `GoroutinesGoOn`, `EventReconciled` | the server's progress gives the controller's; a notification that was mapped leads to a reconciliation |
| `workload_cooldown` | `NodeCooldown` (violated) | the cooldown never holds |
| `workload_nothing_fits` | `SkipsWhenNothingFits` (violated) | the skip branch scales |
| `scan` | `TypeOK`, `MatchesConserved`, `MissesExplained`, `NoSendOnClosed`, `StrandedByErrorOnly`, `Returns` | hand-overs between goroutines; the ways to lose a match; who is left behind; the pool does not wait on itself |
| `scan_misses` | `AllMatchesReturned` (violated) | the last match is lost to the select, without an error |
| `gitea` | `TypeOK`, `OneInstance`, `DecidedOnce`, `AllTold` | the check-lock-check and its race; nobody is stuck at the mutex |
| `manifests` | `TypeOK`, `AtomicOnSingles`, `CommittedWhole`, `Joined` | concurrent edits of a clone; slots and errors never hold up the handler |
| `cluster_free` | `TypeOK`, `MaximaOfListed`, `RoomForEach`, `SafeWithOneWorker` | what a verdict is worth |
| `quota_rounds` | `TypeOK`, `RunningWithinQuota`, `WaitingAdmitted` | rounds admit the pods that wait, as long as the other keys leave room |
| `lookup` | `TypeOK`, `NotOfASuccessor` | three reads of changing clusters, two of them from caches |

In `loop` and `loop_goes_on` `TypeOK`, `GrowthBounded`, `StepByStep` and
`EventReconciled` are those of `WorkloadController`, which `AutoScaling` extends: they
are checked with the server and Argo CD in their places, not with an environment that
may apply anything. Its own specification is what `ImplementsController` shows the
loop to satisfy, and what the violated runs and the proofs of section 4 are about.

`GrowthBounded` does not say "one step a minute" of what is POSTed but of what the
quota ever becomes, late POSTs and restarts included. `StepByStep` says the rest of it:
a quota POSTed or applied stands on the steps below it, each of them POSTed, so that a
late POST may take the quota back but never to a value that skips a step or lies below
the start. `LinearHistory` is the
central property of the server: it fails for a push that is forced or rebased
blindly. `CommitFollowsBase` and `RejectedByARival` are what a retry after a lost
answer would break; `ServedAtomically` says all of it at once, for the whole history
of a request. `MirroredBeforeScaled` relates the two places a handler writes to: the
objects of the management cluster, made by calls that may fail one by one, and the git
history. It matters that `CreateNq` is not enough, since the object it makes has an empty
behavior.

`RoomForEach`, `SafeWithOneWorker`, `CommittedWhole`, `MissesExplained`,
`StrandedByErrorOnly`, `NodesWithinMaximum`, `SyncedIsDeployed`, `EventReconciled`,
`WaitingAdmitted`, `RunningWithinQuota` and `NotOfASuccessor` say how much of a promise
the code does keep where it does not keep all of it (see below).

* A pod has room for each resource, if not on one worker; with one worker the check errs
  on the safe side.
* A file that two goroutines edit may lose an update but is never committed empty.
* A scan that returns while `errCh` is empty has each match in its result or still in
  `matchCh`: the select can lose it there, nothing else can. An error that the select
  overlooks excuses any loss. A scan that ends at an error has reported nothing that does
  not match (`MatchesConserved`), and one that returns without an error leaves nobody
  waiting that no error stranded.
* A commit lowers the machines only down to `maxNodes`.
* A success means that the commit is on main. It is deployed as well if no operation ran
  at the time of the Update and the last operation did not fail.
* A notification is reconciled if the mapping could list the NamespaceQuotas and one of
  them concerned it.
* Rounds admit the pods that wait if the keys which no round raises leave room for them
  (`OtherKeysAdmit`), for which they may have to go beyond `maxQuota`.
* A client is never of a cluster made later than the one found ready; it may be of an
  earlier one.

### Bounds and why they are enough

* `MgmtServer`: two requests meet in every pair of steps; a third would only let a
  handler fall two commits behind, and the theorems of section 4 cover any number.
  Both repositories, both kinds of bodies, bodies that share a manifest, one with a
  step left to `maxNodes` and one whose `maxNodes` is left out are there. One restart can fall between any two steps. One namespace:
  handlers of different namespaces share only the repositories, which the requests
  of one namespace share too.
* `WorkloadController`, on its own and in the loop: two minutes and one restart let
  the throttle grant, deny, grant again and be forgotten; one Event with two
  notifications (`loop_goes_on`, `workload_cooldown`) gives the three calls that can
  be waiting, in `loop` one notification and what a restart lists anew. One namespace: nothing but
  the order of the work is shared between namespaces. The cooldown of five minutes is
  not reached by the clock, which is enough to see two node scale-ups within it. In
  `loop_goes_on` the clock stands still, so that a second call is throttled unless a
  restart came before it.
* `RepoScan`: three files, two workers and channels of capacity one: all three
  actors wait for room or for work. The code's capacities (100) differ only in how
  many files that takes.

* `AutoScaling`: in two minutes with one restart the throttle grants three quotas, so
  `loop` has three POSTs (a fourth adds no state), enough for a request to be
  overtaken by two others. `loop_goes_on` has two: its clock stands still. Restarts of
  the server and broken connections are not bounded.
* `Manifests`: two files with every combination of nine contents, of one to three
  documents, give one to four goroutines for the two slots; requests whose maximum is
  below, at and above the replicas.
* `GiteaClient`: three goroutines, so that one is inside the mutex, one waits for it
  and one is before the first check; each calls again and again.
* `ClusterFree`: two nodes and two pods in all of five and six states (cordoned,
  tainted, bound, ended, with init containers, of another namespace), two resources
  of up to two units, and one change of a cache at any moment (`MaxChanges`).
* `QuotaScaling`: three replicas (`MaxReplicas`), three sizes of pods, amounts
  in units of 100m as in the README's simulation, its quota of `README.md:23-34` among
  them. Rounds stop once the limits admit every pod of `MaxReplicas` (`RoundsLeft`,
  `Plenty`). The code knows no such end; above that nothing that is checked changes.
* `ClusterLookup`: one name in two namespaces, each with two clusters one after the
  other (`MaxLives`), so that the lookup may span the end of one and the start of the
  next; the two caches may each be behind by any number of changes.

Symmetry (of requests in `loop`, of workers in `scan_misses`) is used only where no
liveness property is checked. A run without deadlock
checking is one whose system ends: a scan, an edit, a check, or a bounded number of
POSTs and notifications.

### Fairness

* `MgmtServer`: weak fairness of every handler; each call returns, with an answer
  or an error. The server sets no timeouts, so this assumes that git, the API
  server and Argo CD answer or break the connection. Argo CD and the caches need
  no fairness.
* `WorkloadController`: weak fairness of both threads and strong fairness of
  taking a namespace from the work queue, which is first-in first-out. The POST
  has no timeout either (`postYAML`), so that it returns is an assumption.
* `RepoScan`: weak fairness of every goroutine, as the Go scheduler gives.
* `AutoScaling`: that of `WorkloadController` without the answers, and weak fairness
  of `Serve`, which is `Answered` of `MgmtServer` (run `mgmt_mixed`).
* `Manifests`: weak fairness of every goroutine and of the handler.
* `GiteaClient`: weak fairness of every goroutine; strong fairness of `Lock`, since
  Go's mutex hands itself to a goroutine that has waited for a millisecond.
* `QuotaScaling`: weak fairness of the ReplicaSet controller; strong fairness of
  `HandleEvent`: an Event may be dropped by the throttle, but as long as a pod is
  denied there are more, and the throttle lets one pass a minute.

### Where code and text disagree

Shown by a run:

1. **Cooldown** (`namespacequota_controller.go:653-664`). `Status.LastUpdated` is
   set on the copy that is POSTed, never in the cluster, so the check against it
   never holds. For one Event the informer's goroutine and the worker both POST a node
   scale-up, in the same minute.
2. **"skipping quota patch"** (`:175-176`). The log says skip, the next line
   scales; when the pods would fit, nothing happens.
3. **Lost matches** (`gitea.go:193`). When the closer has closed `matchCh` and `done`,
   `select` may take `done` with a match still in `matchCh`; there is no error to tell.

Seen in the code while it was modelled, part of the models as it is (or noted as left
out), with no run of their own:

* `namespacequota_controller.go:781`: nothing compares the new quota with `maxQuota`,
  which `README.md:241` calls an upper bound and at which scaling stops by
  `README.md:61` and `:78`. `WaitingAdmitted` includes pods (three of 1100m) that are
  admitted only beyond it.
* `gitea.go:382`: the clamp to `MaxNodes` lowers a count that is above it, to 0 when
  `maxNodes` is left out; by `NodesWithinMaximum` nothing else lowers one.
* `namespacequota_controller.go:799`: quotas are POSTed as absolute values; a request
  whose connection broke is still served, after a later one if need be, and then
  lowers the quota.
* `restapi_server.go:267`: "retrying later", but a Gitea client whose start failed is
  kept for good.
* `gitea.go:357`: updates read the first document of a file, whatever its name, and
  write it back as the whole file.
* `namespacequota_controller.go:147-167`: the maxima compared may come from different
  nodes, and the sum compared with them takes in pods that run already.
* `namespacequota_controller.go:781`: only limits are raised. The quota of the README's
  own simulation (`README.md:23-34`) limits requests too: contrary to `README.md:111-120`
  no round admits its second pod. `WaitingAdmitted` promises nothing there. A quota without limits is
  given limits of a single step.
* `namespacequota_controller.go:132`: `targetQuotaUtilization` is not read; the usage is
  compared under the key `cpu` (`:562`), which a quota of limits does not have.
* `gitea.go:193`: the same `select` may take `done` or a closed `matchCh` with an error in
  `errCh`; the scan then reports what it has as complete (`MissesExplained` excepts it).
* `gitea.go:570`: an Update that finds an operation running is a success for the handler,
  although that operation may have resolved HEAD before the push; nobody looks whether
  the sync fails.
* `cluster.go:158`: the Secret comes from a cache and may be of the cluster's predecessor,
  while the Ready condition is that of the cluster there is now.
* `namespacequota_controller.go:923-925`: when the List of the mapping fails its Event is
  neither acted upon nor enqueued, and nothing tries it again.
* `restapi_server.go:320`: the result that asks for a requeue is dropped; the pushed
  commit stays without its sync.

## 4. What is proved

The theorems hold for every value of the constants that satisfies the named
assumptions of the modules: any number of requests, namespaces, repositories,
files, restarts, workers and channel sizes.

**MgmtServerProofs.** `TypeCorrect` is inductive as it stands. The properties of
the git history need to know about handlers in between their calls:

* `CloneInv`: between clone and push a handler's revision is on the branch, and
  its tree is the branch's tree at that revision, or, after the edit, the edit of
  it.
* `AuthorInv`: the author of a commit is past its push. A handler at the push has
  thus no commit yet, and a rejected one did not lose to itself.
* `HistoryInv` joins these two with `LinearHistory` and `CommitFollowsBase`: the
  four are inductive together, none of them alone.
* `PushedInv`, `SyncInv`: a handler on its way to the sync has a commit, and so has one
  that has reported success. If no operation ran when it asked, that commit is covered
  by what is deployed, by the revision a running operation resolved, or by a request
  that is still to be resolved, unless the last operation failed.

`NoLostUpdate`, `ScaledFromTheBase`, `PushedStays`, `OnlyRivalsReject` and
`SyncReachesTheCluster` follow. `ScaledWithinMaximum` follows from `LinearHistory` and
what one call of `Increment` may return (`IncrementBounds`): since a commit is the edit
of the commit below it, not of what its handler once read, the bound of the edit is the
bound of the step in the history.

*The service.* `ImplementsService`: `MgmtServer` implements `GitOps`. On top
of `HistoryInv` it needs `RouteInv` (only bodies that lead to an edit reach the git
calls), `PickedInv` (who edits has picked some match) and `OperationInv` (a running
operation never goes below what is deployed). The argument goes action by action:
`Receive` is `Submit` (`ReceiveSubmits`), a push that is taken is `Apply` on the head
because the clone is the head then (`PushApplies`), a return without a commit and a
restart are `Drop`, `ArgoFinish` is `Deploy`, or nothing when the sync failed (`FinishDeploys`), and every
other step
changes nothing the service shows (`GoingOn`). `OnlyRivalsConflict` rests on
`RouteInv` too: `VersionInv` says that a cache behind the NamespaceQuota has somebody
past the Update, and that a handler about to make the Update without the current
version has a rival. `MirrorFirst` (`MirroredBeforeScaled`) is inductive with
`MirrorInv`, which says how far the objects are at each call: who works on the
NamespaceQuota has the Namespace, who updates it has the object, who edits the
repository has its spec as well. What is there stays there: no step deletes an object,
and a step that changes the spec writes that of another POST for the namespace
(`ObjectsStay`).

**AutoScalingProofs.** *The controller.* `TypeInv` adds to `TypeOK` that the Events are
finitely many, without which a restart could not list them. The bases of a namespace
are the initial quota and what was POSTed for it. `StepInv` says that cluster and cache
show a base and that what a goroutine holds or has POSTed is one step above a base;
with it `LadderInv` is inductive, that every base stands on the steps below it, and
`StepByStep` follows. `GrowthInv` is a
budget argument: `Budget(n)` is the highest quota the time of the last grant
allows, `Pending(n)` counts the grants that have not been turned into a value, and
every level the quota has, had or may get through a POST under way stays below the
budget by the number of pending grants. A grant raises both by one, reading the
quota uses a grant up, a restart drops the grants and adds one boot.
`TypeCorrect`, `StepwiseGrowth` and `ThrottledGrowth` are the results.

*The loop.* `LoopImplementsController`: the loop implements
`WorkloadController`, whose `ApplyQuota` says that a quota only becomes a value that
was POSTed for its namespace. So the invariant follows a value from the POST to the
cluster: what waits at the server was POSTed (`RequestInv`), what a revision holds is
the initial quota or was POSTed and does not fall back to the initial one
(`TreeInv`), and a quota that has left its initial value has done so in the revision
that is deployed (`AppliedInv`). `LoopGrowth` and
`LoopStepwise` then are `ThrottledGrowth` and `StepwiseGrowth` of the controller,
carried over to the loop by the refinement.

**RepoScanProofs.** `ScanTypes` bounds the channels. `WgInv` says that the wait group
counts the workers that are not gone, at whatever point they leave; `ClosedAfterSends`
follows, since the closer closes `matchCh` at zero. `MatchesKept` follows a file through the scan
(`HandInv`): it is before the pool, with exactly one worker, or done, so that it waits
at one place only, and the counts of its name in `found` and `matchCh` change by one
with every hand-over (the counting lemmas on `Append` and `Tail`). It is stated for
every state, errors included: a file given up at a document that cannot be decoded has
sent some of its matches and no more, and without an error the count is exact. A scan that
returns while `errCh` is empty has had every file walked, taken and decoded to its end,
so that each match is collected or in `matchCh`: `OnlyTheSelectMisses`. `EndsWithItsPool`
rests on `ReturnInv`: workers that are all gone left a closed `fileCh` or an error that
nobody has collected, and the scan returns matches only after they are gone.

**ManifestsProofs.** `AtomicEdit`: with one document a file there is one goroutine a
file (`OneForAFile`), so `Knows` can say what each of them knows of its file at each
label; an error sent stays in `errChan`, so a commit means that all of them wrote.
`EditTypes` says that `sem` counts the goroutines inside (`SlotsHeld`).
`CommitsAreWhole` needs for files with several goroutines that what each has read and
is about to write was made of the original by at most as many updates as goroutines
have read the file (`Made`), that a file is empty only while somebody is about to
write it or an error is on its way (`WholeFile`), and that who leaves without an error
has written or found nothing to change (`WholeDraft`). `Applied(n, d)` is what n
updates come to in closed form; `AppliedOnce` shows that one update more takes it from
n to n + 1.

**GiteaClientProofs.** `ClientTypes` includes that the mutex is held by the goroutine
inside it. `MutexInv`: an instance is made only inside the mutex and only while there
is none. It gives `AllGetOneInstance`, and with it every step of
`GiteaClient` is one of `GiteaSingleton` or changes nothing it shows: `OneDecision`,
the data race included.

**ClusterFreeProofs.** `CheckTypes` shows that no subtraction goes below zero.
`RoomOnSomeWorker`: a maximum that is not zero is free on some worker (`Attained`),
the sum is at least the requests of each pod (`Summed`), so a positive verdict bounds
the requests of each pod by what some worker has free, whatever the caches did.
The exact accounts need sums over sets of pods. The first section proves what is
needed of `SumFunctionOnSet`: an element more adds its amount, and larger amounts over
more elements give larger sums. Induction over a finite set is done by taking a
smallest set for which the claim fails (`MinimalSubset`, from the well-foundedness of
strict inclusion), which needs no theorem with an operator for a parameter.
`Accounts` then says that `used` and `request` are the sums over the pods gone over,
that no worker gone over has more left than the maxima, and that while no cache
changes all lists agree. `MaximaAttained` and `SafeOnOneWorker` follow.

**QuotaScalingProofs.** `RunningStaysAdmitted` has a hypothesis about the quota a
behaviour starts with, that limits are among its keys; it is necessary, since the code
gives a quota without limits the limits of a single step, whatever runs under it (every
quota of the run `quota_rounds` has limits).
`OtherKeysStay` needs no hypothesis: the other keys go on admitting what runs.

**ClusterLookupProofs.** `ClientIsNoSuccessor`: a Secret, in the cluster or in the cache,
is of a cluster made already (`SecretInv`), so what the lookup holds is no later than
what it then finds ready (`ReadInv`). This rests on the Ready condition being read live
and after the Secret: from a cache it could be of an earlier cluster than the Secret
(mutant `GetReadyCached`).

Only model-checked: the liveness properties (`Answered`, `EventReconciled`, `Returns`,
`GoroutinesGoOn`, `Joined`, `AllTold`, `WaitingAdmitted`). They rest on
fairness and with it on ENABLED, which is beyond the prover. Every invariant and every
safety property of the passing runs is a theorem.

## 5. What is not modelled

* A call that never returns (`postYAML` has no timeout); two replicas of one role
  (leader election); other authors of the repositories or of the mirrored
  NamespaceQuota.
* A ResourceQuota without `spec.hard`, on which `namespacequota_controller.go:781`
  panics; the temporary clones, which nothing removes.
* The Event watch running on the management cluster too, where `Reconcile` is
  switched off by `SERVER_TYPE`.
* The node loop from the pushed MachineDeployment to a node that joins: it is the
  Cluster API's.
* The heartbeat store, `UpsertNodeHealth`, `MonitorNodes`, `patchQuota` and the parse
  helpers only it uses, `UpdateResourceReplicasNamespaceQuotaCR`,
  `ListArgoApplications`, `WaitForInitialization`, the wrappers of the Gitea API, the
  pod webhook and `restapi/helper.go`: nothing calls them, or they are commented out.
* Flags, TLS, metrics, kubeconfig parsing, generated code: I/O without state.

## 6. Plan

Done: the server, the controller, the scan, the loop, the abstract service, the Gitea
client, the manifests, the capacity check, the quota rounds, the cluster lookup, and
the refinements between them. Left:

* `WorkloadController` with the verdicts of `ClusterFree` in place of the free choice.
