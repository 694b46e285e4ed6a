---------------------------- MODULE AutoScaling -----------------------------
(***************************************************************************)
(* The loop as a whole: the controller of a workload cluster               *)
(* (WorkloadController) POSTs quotas to the scaling server, the server     *)
(* (GitOps, which MgmtServer implements) commits them to the repository of *)
(* the cluster, and Argo CD applies the manifests of that repository to    *)
(* the cluster the controller watches.                                     *)
(*                                                                         *)
(* What WorkloadController leaves to its environment, that a quota POSTed  *)
(* is applied at some time or never and that every POST is answered, is    *)
(* here what the server does.                                              *)
(***************************************************************************)
EXTENDS WorkloadController

CONSTANTS
    Requests,       \* the quota POSTs one behaviour may contain
    NoRequest

VARIABLES
    request, standing, log, deployed,   \* of the server, see GitOps
    waitsFor                            \* waitsFor[t]: the POST t has open

server == <<request, standing, log, deployed>>
systemVars == <<vars, server, waitsFor>>

(***************************************************************************)
(* The repository of the workload cluster: a ResourceQuota manifest for    *)
(* each namespace, found by the name and the namespace of the object that  *)
(* is POSTed.                                                              *)
(***************************************************************************)
Repo == "work"

QuotaBody(n, v) ==
    [kind |-> "ResourceQuota", ns |-> n, repo |-> Repo, labelled |-> TRUE,
     matches |-> {n}, value |-> v]

Server == INSTANCE GitOps WITH
             Repos <- {Repo},
             Files <- Namespaces,
             InitTree <- [p \in {Repo} |-> [n \in Namespaces |-> InitHard]],
             Payloads <- {QuotaBody(n, v) : n \in Namespaces, v \in Nat},
             NoBody <- NoRequest

SystemInit ==
    /\ Init
    /\ Server!Init
    /\ waitsFor = [t \in Threads |-> NoRequest]

-----------------------------------------------------------------------------
(***************************************************************************)
(* The calls between the two                                               *)
(***************************************************************************)
\* The requests whose handler has not returned.
Waiting == {r \in Requests : standing[r] = "waiting"}

\* postYAML of a quota: the server takes it up in a handler of its own.
PostQuotaToServer(t) ==
    /\ PostQuota(t)
    /\ \E r \in Requests :
          /\ Server!Submit(r, QuotaBody(job[t], value[t]))
          /\ waitsFor' = [waitsFor EXCEPT ![t] = r]

\* Mutant: the server answers only when it has applied the request.
AnsweredIfApplied(t) ==
    /\ waitsFor[t] \notin {r \in Requests : standing[r] # "applied"}
    /\ Answer(t)
    /\ waitsFor' = [waitsFor EXCEPT ![t] = NoRequest]
    /\ UNCHANGED server

\* The server answers when the handler returns, whatever came of it.  A node
\* request goes to another repository; it is answered as it is in
\* WorkloadController.
Answered(t) ==
    /\ waitsFor[t] \notin Waiting
    /\ Answer(t)
    /\ waitsFor' = [waitsFor EXCEPT ![t] = NoRequest]
    /\ UNCHANGED server

\* The connection breaks: the goroutine goes on, and so does the handler.
Disconnected(t) ==
    /\ waitsFor[t] # NoRequest
    /\ Answer(t)
    /\ waitsFor' = [waitsFor EXCEPT ![t] = NoRequest]
    /\ UNCHANGED server

\* The controller's own steps.  A restart closes its connections.
ControllerStep ==
    /\ \/ \E t \in Threads : AllowScale(t) \/ ReadQuota(t)
                               \/ CheckCooldown(t) \/ PostNodes(t)
       \/ WatchEvent
       \/ \E n \in Namespaces : StartReconcile(n)
       \/ Reconcile
    /\ UNCHANGED <<server, waitsFor>>

RestartController ==
    /\ Restart
    /\ waitsFor' = [t \in Threads |-> NoRequest]
    /\ UNCHANGED server

ClusterStep ==
    /\ \/ \E n \in Namespaces, cause \in Causes : RaiseEvent(n, cause)
       \/ \E e \in events : RepeatEvent(e) \/ ExpireEvent(e)
       \/ \E n \in Namespaces : CacheSync(n) \/ QuotaChanges(n) \/ DeleteNsq(n)
       \/ Tick
    /\ UNCHANGED <<server, waitsFor>>

-----------------------------------------------------------------------------
(***************************************************************************)
(* The server and Argo CD                                                  *)
(***************************************************************************)
Serve(r) ==
    /\ Server!Apply(r) \/ Server!Drop({r})
    /\ UNCHANGED <<vars, waitsFor>>

\* The server restarts: the handlers are gone.
RestartServer ==
    /\ Server!Drop(Waiting)
    /\ UNCHANGED <<vars, waitsFor>>

\* A sync starts on a later revision.
Sync ==
    /\ Server!Deploy(Repo)
    /\ UNCHANGED <<vars, waitsFor>>

\* Argo CD applies the manifests of the revision one by one.
ApplyManifest(n) ==
    LET quota == Server!Tree(Repo, log[Repo], deployed[Repo])[n] IN
    /\ rqs[n] > 0
    /\ hard[n] # quota
    /\ hard' = [hard EXCEPT ![n] = quota]
    /\ UNCHANGED <<now, boots, config, lastUpdated, cached, events, notices,
                   control, threads, history, server, waitsFor>>

-----------------------------------------------------------------------------
SystemNext ==
    \/ \E t \in Threads : PostQuotaToServer(t) \/ Answered(t) \/ Disconnected(t)
    \/ ControllerStep
    \/ RestartController
    \/ ClusterStep
    \/ \E r \in Requests : Serve(r)
    \/ RestartServer
    \/ Sync
    \/ \E n \in Namespaces : ApplyManifest(n)

SystemSpec == SystemInit /\ [][SystemNext]_systemVars

\* A goroutine goes on unless it waits for the server.
GoesOn(t) ==
    \/ PostQuotaToServer(t)
    \/ Answered(t)
    \/ /\ AllowScale(t) \/ ReadQuota(t) \/ CheckCooldown(t) \/ PostNodes(t)
       /\ UNCHANGED <<server, waitsFor>>

(***************************************************************************)
(* The server serves every request (Answered of MgmtServer), the           *)
(* goroutines are scheduled; nothing says that the server answers.         *)
(***************************************************************************)
SystemFairness ==
    /\ \A t \in Threads : WF_systemVars(GoesOn(t))
    /\ WF_systemVars(WatchEvent /\ UNCHANGED <<server, waitsFor>>)
    /\ WF_systemVars(Reconcile /\ UNCHANGED <<server, waitsFor>>)
    /\ \A n \in Namespaces :
          SF_systemVars(StartReconcile(n) /\ UNCHANGED <<server, waitsFor>>)
    /\ \A r \in Requests : WF_systemVars(Serve(r))

SystemFairSpec == SystemSpec /\ SystemFairness

-----------------------------------------------------------------------------
(***************************************************************************)
(* Properties                                                              *)
(***************************************************************************)

\* With the server and Argo CD in its place the controller's environment
\* does what WorkloadController takes for granted: whatever requests are
\* dropped, delayed, overtaken or cut off, a quota changes only to a value
\* that was POSTed for it, and never back to the one it started from.
ImplementsController == Spec

\* A POST is answered because the server serves every request, one that
\* fails included: no goroutine of the controller waits for ever, which
\* WorkloadController assumes.
GoroutinesGoOn == Fairness
=============================================================================
