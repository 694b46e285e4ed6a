------------------------- MODULE WorkloadController -------------------------
(***************************************************************************)
(* The controller of a workload cluster                                    *)
(* (internal/controller/namespacequota_controller.go).                     *)
(*                                                                         *)
(* Two goroutines of the manager run its code: "watch", the informer       *)
(* goroutine that maps Event notifications (watchEventsCluster, which      *)
(* scales as a side effect of the mapping), and "worker", the one          *)
(* reconcile worker.  Both call TriggerScaleUpResourceQuota and            *)
(* TriggerScaleUpForCluster, which POST an object to the management        *)
(* cluster and wait for the answer.  They share the throttle lastScale,    *)
(* which is lost when the controller restarts.                             *)
(*                                                                         *)
(* Time is in minutes.  Quotas are in units of scaleStep.                  *)
(***************************************************************************)
EXTENDS Integers, Sequences, FiniteSets

CONSTANTS
    Namespaces,
    InitHard,       \* spec.hard of a ResourceQuota at the start
    MaxTime,        \* bound on the clock
    MaxBoots,       \* bound on restarts of the controller
    MaxEvents,      \* bound on the Events that exist
    MaxNotices      \* bound on the notifications about them

ASSUME BoundsAssumption ==
    /\ InitHard \in Nat /\ MaxTime \in Nat /\ MaxBoots \in Nat
    /\ MaxEvents \in Nat /\ MaxNotices \in Nat

Threads == {"watch", "worker"}
Never == -1

MinInterval == 1   \* allowScale(namespace, time.Minute)
Cooldown    == 5   \* TriggerScaleUpForCluster: diff.Minutes() < 5

VARIABLES
    now,
    boots,       \* restarts so far
    nsqs,        \* nsqs[n]: how many NamespaceQuotas namespace n still has
    rqs,         \* rqs[n]: how many ResourceQuotas it has
    lastUpdated, \* lastUpdated[n]: Status.LastUpdated of the NamespaceQuota
    hard,        \* hard[n]: spec.hard of the ResourceQuota
    cached,      \* cached[n]: spec.hard in the manager's cache
    events,      \* the Warning Events, as the manager's cache has them
    notices,     \* notifications made so far (bound)
    inbox,       \* calls of watchEventsCluster the informer still has to make
    queue,       \* the controller's work queue
    lastScale,   \* the throttle, in memory
    pc, job, value,     \* of the two goroutines
    room,        \* room[t]: FALSE once its capacity check has failed
    mapped,      \* whether a mapping is on that will enqueue
    posted,      \* posted[n]: the quotas POSTed (history)
    nodePost     \* nodePost[n]: when nodes were last POSTed for (history)

config  == <<nsqs, rqs>>
cluster == <<lastUpdated, hard, cached, events, notices>>
control == <<inbox, queue, lastScale>>
threads == <<pc, job, value, room, mapped>>
history == <<posted, nodePost>>
vars == <<now, boots, config, cluster, control, threads, history>>

Labels == {"idle", "reconcile", "allow", "readQuota", "postQuota", "cooldown",
           "postNodes", "answer"}

\* "quota" is a Warning Event whose message has "exceeded quota", "create" a
\* FailedCreate with another message, "capacity" one that speaks of
\* insufficient resources or of nodes that are not available.
Causes == {"quota", "create", "capacity"}
Calls  == [ns: Namespaces, cause: Causes]
Events == [ns: Namespaces, cause: Causes, at: 0 .. MaxTime]

CallOf(e) == [ns |-> e.ns, cause |-> e.cause]

(***************************************************************************)
(* Every variable stays in its type: the controller's memory and the       *)
(* objects it reads.                                                       *)
(***************************************************************************)
TypeOK ==
    /\ now \in 0 .. MaxTime
    /\ boots \in 0 .. MaxBoots
    /\ nsqs \in [Namespaces -> 0 .. 2]
    /\ rqs \in [Namespaces -> 0 .. 2]
    /\ lastUpdated \in [Namespaces -> 0 .. MaxTime \cup {Never}]
    /\ hard \in [Namespaces -> Nat]
    /\ cached \in [Namespaces -> Nat]
    /\ events \subseteq Events
    /\ notices \in 0 .. MaxNotices
    /\ inbox \in Seq(Calls)
    /\ queue \subseteq Namespaces
    /\ lastScale \in [Namespaces -> 0 .. MaxTime \cup {Never}]
    /\ pc \in [Threads -> Labels]
    /\ job \in [Threads -> Namespaces]
    /\ value \in [Threads -> Nat]
    /\ room \in [Threads -> BOOLEAN]
    /\ mapped \in BOOLEAN
    /\ posted \in [Namespaces -> SUBSET Nat]
    /\ nodePost \in [Namespaces -> 0 .. MaxTime \cup {Never}]

\* Namespaces with a NamespaceQuota, which the controller's queue can hold.
Managed == {n \in Namespaces : nsqs[n] > 0}

Init ==
    /\ now = 0
    /\ boots = 0
    /\ nsqs \in [Namespaces -> 0 .. 2]
    /\ rqs \in [Namespaces -> 0 .. 2]
    /\ lastUpdated = [n \in Namespaces |-> Never]
    /\ hard = [n \in Namespaces |-> InitHard]
    /\ cached = [n \in Namespaces |-> InitHard]
    /\ events = {}
    /\ notices = 0
    /\ inbox = <<>>
    /\ queue = Managed
    /\ lastScale = [n \in Namespaces |-> Never]
    /\ pc = [t \in Threads |-> "idle"]
    /\ \E n \in Namespaces : job = [t \in Threads |-> n]
    /\ value = [t \in Threads |-> 0]
    /\ room = [t \in Threads |-> TRUE]
    /\ mapped = FALSE
    /\ posted = [n \in Namespaces |-> {}]
    /\ nodePost = [n \in Namespaces |-> Never]

-----------------------------------------------------------------------------
(***************************************************************************)
(* TriggerScaleUpResourceQuota, run by either goroutine                    *)
(***************************************************************************)
Goto(t, l) == pc' = [pc EXCEPT ![t] = l]

\* Mutant: the mapping returns nothing once it has scaled.
ReturnNothing(t) ==
    /\ Goto(t, "idle")
    /\ mapped' = (mapped /\ t # "watch")
    /\ UNCHANGED queue

\* The mapping enqueues, when it returns, the NamespaceQuotas it listed.
Return(t) ==
    /\ Goto(t, "idle")
    /\ mapped' = (mapped /\ t # "watch")
    /\ queue' = IF t = "watch" /\ mapped THEN queue \cup {job[t]} ELSE queue

\* Mutant: the time of the grant is not recorded.
AllowScaleForgotten(t) ==
    LET n == job[t] IN
    /\ pc[t] = "allow"
    /\ Goto(t, "readQuota")
    /\ UNCHANGED <<now, boots, config, cluster, inbox, queue, lastScale, job,
                   value, room, mapped, history>>

\* Mutant: the throttle keeps the time of the next grant, not of this one.
AllowScaleDeadline(t) ==
    LET n == job[t] IN
    /\ pc[t] = "allow"
    /\ IF lastScale[n] = Never \/ now >= lastScale[n]
       THEN /\ lastScale' = [lastScale EXCEPT ![n] = now + MinInterval]
            /\ Goto(t, "readQuota")
            /\ UNCHANGED <<queue, mapped>>
       ELSE /\ Return(t)
            /\ UNCHANGED lastScale
    /\ UNCHANGED <<now, boots, config, cluster, inbox, job, value, room,
                   history>>

\* allowScale, under its mutex.
AllowScale(t) ==
    LET n == job[t] IN
    /\ pc[t] = "allow"
    /\ \/ /\ lastScale[n] = Never \/ now - lastScale[n] >= MinInterval
          /\ lastScale' = [lastScale EXCEPT ![n] = now]
          /\ Goto(t, "readQuota")
          /\ UNCHANGED <<queue, mapped>>
       \/ /\ lastScale[n] # Never /\ now - lastScale[n] < MinInterval
          /\ Return(t)
          /\ UNCHANGED lastScale
    /\ UNCHANGED <<now, boots, config, cluster, inbox, job, value, room,
                   history>>

\* Mutant: the step is added to the cached object itself.
ReadQuotaAliased(t) ==
    LET n == job[t] IN
    /\ pc[t] = "readQuota"
    /\ rqs[n] = 1 /\ nsqs[n] = 1
    /\ value' = [value EXCEPT ![t] = cached[n] + 1]
    /\ cached' = [cached EXCEPT ![n] = @ + 1]
    /\ Goto(t, "postQuota")
    /\ UNCHANGED <<now, boots, config, lastUpdated, hard, events, notices,
                   control, job, room, mapped, history>>

\* The only ResourceQuota and the only NamespaceQuota of the namespace are
\* read from the cache, the steps parsed and added.  Any of it may fail.
ReadQuota(t) ==
    LET n == job[t] IN
    /\ pc[t] = "readQuota"
    /\ \/ /\ rqs[n] = 1 /\ nsqs[n] = 1
          /\ value' = [value EXCEPT ![t] = cached[n] + 1]
          /\ Goto(t, "postQuota")
          /\ UNCHANGED <<queue, mapped>>
       \/ /\ Return(t)
          /\ UNCHANGED value
    /\ UNCHANGED <<now, boots, config, cluster, inbox, lastScale, job, room,
                   history>>

\* postYAML; nothing compares the new quota with maxQuota.
PostQuota(t) ==
    LET n == job[t] IN
    /\ pc[t] = "postQuota"
    /\ posted' = [posted EXCEPT ![n] = @ \cup {value[t]}]
    /\ value' = [value EXCEPT ![t] = 0]
    /\ Goto(t, "answer")
    /\ UNCHANGED <<now, boots, config, cluster, control, job, room, mapped,
                   nodePost>>

\* The answer of the server, or an error: the callers ignore either.
Answer(t) ==
    /\ pc[t] = "answer"
    /\ Return(t)
    /\ UNCHANGED <<now, boots, config, cluster, inbox, lastScale, job, value,
                   room, history>>

-----------------------------------------------------------------------------
(***************************************************************************)
(* TriggerScaleUpForCluster, run by either goroutine                       *)
(***************************************************************************)

\* The new LastUpdated is set on the local copy that is POSTed; the object
\* in the cluster keeps the old one.
CheckCooldown(t) ==
    LET n == job[t] IN
    /\ pc[t] = "cooldown"
    /\ \/ /\ nsqs[n] = 1
          /\ lastUpdated[n] = Never \/ now - lastUpdated[n] >= Cooldown
          /\ Goto(t, "postNodes")
          /\ UNCHANGED <<queue, mapped>>
       \/ Return(t)
    /\ UNCHANGED <<now, boots, config, cluster, inbox, lastScale, job, value,
                   room, history>>

PostNodes(t) ==
    LET n == job[t] IN
    /\ pc[t] = "postNodes"
    /\ nodePost' = [nodePost EXCEPT ![n] = now]
    /\ Goto(t, "answer")
    /\ UNCHANGED <<now, boots, config, cluster, control, job, value, room,
                   mapped, posted>>

-----------------------------------------------------------------------------
(***************************************************************************)
(* watchEventsCluster: the informer's goroutine takes its calls in order   *)
(***************************************************************************)
\* The NamespaceQuotas of the namespace are listed.  If that fails the mapping
\* returns at once and the notification is lost.  Of those listed the mapping
\* will enqueue the ones whose quota is named in the message or said to be in
\* the Event's namespace, which may be none; it scales in any case.
WatchEvent ==
    LET c == Head(inbox) IN
    /\ pc["watch"] = "idle"
    /\ inbox # <<>>
    /\ inbox' = Tail(inbox)
    /\ \/ /\ mapped' \in IF c.ns \in Managed THEN BOOLEAN ELSE {FALSE}
          /\ job' = [job EXCEPT !["watch"] = c.ns]
          /\ Goto("watch", IF c.cause = "quota" THEN "allow" ELSE "cooldown")
       \/ UNCHANGED <<mapped, job, pc>>
    /\ UNCHANGED <<now, boots, config, cluster, queue, lastScale, value,
                   room, history>>

(***************************************************************************)
(* Reconcile                                                               *)
(***************************************************************************)
StartReconcile(n) ==
    /\ pc["worker"] = "idle"
    /\ n \in queue
    /\ queue' = queue \ {n}
    /\ job' = [job EXCEPT !["worker"] = n]
    /\ Goto("worker", "reconcile")
    /\ UNCHANGED <<now, boots, config, cluster, inbox, lastScale, value,
                   room, mapped, history>>

\* What DetectQuotaExceeded may say: the status of the quota and the conditions
\* of the workloads make it say yes without any Event, and it takes each list
\* that fails, that of the Events too, for an empty one.
QuotaDenied == {TRUE, FALSE}

\* detectWorkloadShortage looks for an Event about a ReplicaSet that cannot
\* create its pods, however old; one with another message does not count, nor
\* does any when a list fails.
WorkloadShortage(n) ==
    IF \E e \in events : e.ns = n /\ e.cause # "create"
    THEN {TRUE, FALSE} ELSE {FALSE}

\* Reads, then one of four ways on: nothing to do, a requeue after an error
\* (no ResourceQuota, no list of pods), the quota, the nodes.  The ResourceQuota
\* is the one the NamespaceQuota refers to, in whatever namespace m: it is
\* the quota of m that is scaled then, but the nodes of n.
Reconcile ==
    LET n == job["worker"] IN
    /\ pc["worker"] = "reconcile"
    /\ \/ /\ nsqs[n] = 0
          /\ Goto("worker", "idle")
          /\ UNCHANGED <<queue, room, job>>
       \/ /\ nsqs[n] > 0
          /\ Goto("worker", "idle")
          /\ queue' = queue \cup {n}
          /\ UNCHANGED <<room, job>>
       \/ /\ nsqs[n] > 0
          /\ \E m \in Namespaces, denied \in QuotaDenied, fits \in BOOLEAN,
                shortage \in WorkloadShortage(n) :
                /\ rqs[m] > 0
                /\ room' = [room EXCEPT !["worker"] = denied => fits]
                /\ job' = [job EXCEPT !["worker"] = IF denied THEN m ELSE n]
                /\ Goto("worker", IF denied /\ ~ fits THEN "allow"
                                  ELSE IF ~ denied /\ shortage THEN "cooldown"
                                  ELSE "idle")
          /\ UNCHANGED queue
    /\ UNCHANGED <<now, boots, config, cluster, inbox, lastScale, value,
                   mapped, history>>

-----------------------------------------------------------------------------
(***************************************************************************)
(* The cluster around the controller                                       *)
(***************************************************************************)

\* A notification makes the informer call the mapping once for a created or
\* deleted object, and for the old and the new object of an update.
Notify(calls) ==
    /\ notices < MaxNotices
    /\ notices' = notices + 1
    /\ inbox' = inbox \o calls

RaiseEvent(n, cause) ==
    LET e == [ns |-> n, cause |-> cause, at |-> now] IN
    /\ Cardinality(events) < MaxEvents
    /\ e \notin events
    /\ events' = events \cup {e}
    /\ Notify(<<CallOf(e)>>)
    /\ UNCHANGED <<now, boots, config, lastUpdated, hard, cached, queue,
                   lastScale, threads, history>>

\* The same failure again: the Event's count and timestamp are updated.
RepeatEvent(e) ==
    /\ events' = (events \ {e}) \cup {[e EXCEPT !.at = now]}
    /\ Notify(<<CallOf(e), CallOf(e)>>)
    /\ UNCHANGED <<now, boots, config, lastUpdated, hard, cached, queue,
                   lastScale, threads, history>>

\* The API server drops an old Event; the informer maps it once more.
ExpireEvent(e) ==
    /\ events' = events \ {e}
    /\ Notify(<<CallOf(e)>>)
    /\ UNCHANGED <<now, boots, config, lastUpdated, hard, cached, queue,
                   lastScale, threads, history>>

\* A quota that was POSTed comes back through git and Argo CD, at any time.
ApplyQuota(n) ==
    /\ rqs[n] > 0
    /\ \E v \in posted[n] \ {hard[n]} : hard' = [hard EXCEPT ![n] = v]
    /\ UNCHANGED <<now, boots, config, lastUpdated, cached, events, notices,
                   control, threads, history>>

\* The cache sees the new quota; the watch of ResourceQuotas enqueues the
\* NamespaceQuotas of the namespace that refer to it, if there are any and
\* their list does not fail.
CacheSync(n) ==
    /\ cached[n] # hard[n]
    /\ cached' = [cached EXCEPT ![n] = hard[n]]
    /\ queue' \in {queue, queue \cup (Managed \cap {n})}
    /\ UNCHANGED <<now, boots, config, lastUpdated, hard, events, notices,
                   inbox, lastScale, threads, history>>

\* Any other change of the ResourceQuota, its status for one, or of the
\* NamespaceQuota enqueues too.
QuotaChanges(n) ==
    /\ n \in Managed \ queue
    /\ queue' = queue \cup {n}
    /\ UNCHANGED <<now, boots, config, cluster, inbox, lastScale, threads,
                   history>>

\* A NamespaceQuota is deleted, which enqueues it once more.
DeleteNsq(n) ==
    /\ n \in Managed
    /\ nsqs' = [nsqs EXCEPT ![n] = @ - 1]
    /\ queue' = queue \cup {n}
    /\ UNCHANGED <<now, boots, rqs, cluster, inbox, lastScale, threads,
                   history>>

Tick ==
    /\ now < MaxTime
    /\ now' = now + 1
    /\ UNCHANGED <<boots, config, cluster, control, threads, history>>

\* The orders in which the Events may be listed.
Listings(S) ==
    {s \in [1 .. Cardinality(S) -> S] :
        \A e \in S : \E i \in DOMAIN s : s[i] = e}

\* The controller restarts and lists everything it watches: the Events are
\* mapped and every NamespaceQuota is enqueued.
Restart ==
    /\ boots < MaxBoots
    /\ boots' = boots + 1
    /\ pc' = [t \in Threads |-> "idle"]
    /\ mapped' = FALSE
    /\ lastScale' = [n \in Namespaces |-> Never]
    /\ cached' = hard
    /\ queue' = Managed
    /\ \E s \in Listings(events) :
          inbox' = [i \in DOMAIN s |-> CallOf(s[i])]
    /\ UNCHANGED <<now, config, lastUpdated, hard, events, notices, job,
                   value, room, history>>

-----------------------------------------------------------------------------
Trigger(t) == \/ AllowScale(t) \/ ReadQuota(t) \/ PostQuota(t)
              \/ CheckCooldown(t) \/ PostNodes(t) \/ Answer(t)

Controller ==
    \/ \E t \in Threads : Trigger(t)
    \/ WatchEvent
    \/ \E n \in Namespaces : StartReconcile(n)
    \/ Reconcile

Cluster ==
    \/ \E n \in Namespaces, cause \in Causes : RaiseEvent(n, cause)
    \/ \E e \in events : RepeatEvent(e) \/ ExpireEvent(e)
    \/ \E n \in Namespaces : ApplyQuota(n) \/ CacheSync(n) \/ QuotaChanges(n)
                               \/ DeleteNsq(n)
    \/ Tick
    \/ Restart

Next == Controller \/ Cluster

Spec == Init /\ [][Next]_vars

(***************************************************************************)
(* Both goroutines go on, and the server answers every POST: postYAML has  *)
(* no timeout, so without an answer a goroutine waits for ever.  The work  *)
(* queue is first-in first-out, hence the strong fairness of its takers.   *)
(***************************************************************************)
Fairness ==
    /\ \A t \in Threads : WF_vars(Trigger(t))
    /\ WF_vars(WatchEvent)
    /\ WF_vars(Reconcile)
    /\ \A n \in Namespaces : SF_vars(StartReconcile(n))

FairSpec == Spec /\ Fairness

-----------------------------------------------------------------------------
(***************************************************************************)
(* Properties                                                              *)
(***************************************************************************)

\* A quota grows by at most one step a minute, whichever of the two
\* goroutines asks and however late POSTs are applied; every restart, which
\* forgets the throttle of allowScale, gives one step on top.
GrowthBounded ==
    \A n \in Namespaces : hard[n] <= InitHard + now + boots + 1

\* "Quota increases in 0.5 CPU / 512Mi steps" (README.md:77): every quota
\* POSTed and the one in force were reached from the initial one through
\* every step in between, each of them POSTed, also when both goroutines read
\* and add at the same time; and POSTs that are applied late never take a
\* quota below the initial one.
StepByStep ==
    \A n \in Namespaces : \A v \in posted[n] \cup {hard[n]} :
        /\ v >= InitHard
        /\ InitHard + 1 .. v \subseteq posted[n]

\* Once the mapping of an Event has found a NamespaceQuota to enqueue
\* (namespacequota_controller.go:926-931) the namespace is reconciled, unless
\* its NamespaceQuotas are deleted: also when the scaling that the mapping does
\* first is throttled or fails, when its POST is cut off, and when the
\* controller restarts before the mapping returns.  (A notification whose list
\* of NamespaceQuotas fails is lost; nothing is said of it.)
EventReconciled ==
    \A n \in Namespaces :
        (mapped /\ job["watch"] = n)
            ~> \/ pc["worker"] = "reconcile" /\ job["worker"] = n
               \/ n \notin Managed

\* "Skipping: Scale-up recently triggered" within five minutes
\* (namespacequota_controller.go:655-657), "Prevent rapid, repeated node
\* scaling" (README.md:258): node scale-ups of a namespace are apart.
NodeCooldown ==
    [][\A t \in Threads :
          pc[t] = "postNodes" /\ pc'[t] = "answer" =>
              \/ nodePost[job[t]] = Never
              \/ now - nodePost[job[t]] >= Cooldown]_vars

\* "No pod in the namespace is schedulable on the cluster - skipping quota
\* patch" (namespacequota_controller.go:175): then the reconciliation POSTs
\* no quota.
SkipsWhenNothingFits ==
    [][pc["worker"] = "postQuota" /\ pc'["worker"] = "answer"
          => room["worker"]]_vars
=============================================================================
