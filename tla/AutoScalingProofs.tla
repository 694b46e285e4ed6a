------------------------- MODULE AutoScalingProofs --------------------------
(***************************************************************************)
(* Theorems about WorkloadController, with an environment that may apply   *)
(* what was POSTed at any time, and about AutoScaling, which puts the      *)
(* server and Argo CD in its place: the controller's type invariant, the   *)
(* bound on the growth of the quotas and that they grow step by step; and  *)
(* that the loop implements the controller's specification, so that what   *)
(* is proved of the controller alone holds of the loop.  For any number of *)
(* namespaces, requests and restarts.                                      *)
(***************************************************************************)
EXTENDS AutoScaling, FiniteSetTheorems, TLAPS

-----------------------------------------------------------------------------
(***************************************************************************)
(* Types                                                                   *)
(***************************************************************************)

\* The Events that exist are finitely many, so that a restarted controller
\* can list them.
TypeInv == TypeOK /\ IsFiniteSet(events)

\* A restart queues a sequence of calls, whatever the order of the list.
LEMMA ListingCalls ==
    ASSUME TypeInv, NEW s \in Listings(events)
    PROVE  [i \in DOMAIN s |-> CallOf(s[i])] \in Seq(Calls)
<1>1. Cardinality(events) \in Nat
  BY FS_CardinalityType DEF TypeInv
<1>2. s \in [1 .. Cardinality(events) -> events]
  BY DEF Listings
<1>3. \A e \in events : CallOf(e) \in Calls
  BY DEF TypeInv, TypeOK, Events, Calls, CallOf
<1> QED
  BY <1>1, <1>2, <1>3

LEMMA TypeInit == Init => TypeInv
<1> SUFFICES ASSUME Init PROVE TypeInv
  OBVIOUS
<1>1. IsFiniteSet(events)
  BY FS_EmptySet DEF Init
<1>2. job \in [Threads -> Namespaces]
  BY DEF Init
<1>3. pc \in [Threads -> Labels]
  BY DEF Init, Labels
<1>4. inbox \in Seq(Calls) /\ queue \subseteq Namespaces
  BY DEF Init, Managed
<1>5. /\ hard \in [Namespaces -> Nat] /\ cached \in [Namespaces -> Nat]
      /\ value \in [Threads -> Nat]
  BY BoundsAssumption DEF Init
<1>6. /\ lastUpdated \in [Namespaces -> 0 .. MaxTime \cup {Never}]
      /\ lastScale \in [Namespaces -> 0 .. MaxTime \cup {Never}]
      /\ nodePost \in [Namespaces -> 0 .. MaxTime \cup {Never}]
      /\ posted \in [Namespaces -> SUBSET Nat]
      /\ room \in [Threads -> BOOLEAN] /\ mapped \in BOOLEAN
  BY DEF Init
<1>7. now \in 0 .. MaxTime /\ boots \in 0 .. MaxBoots
      /\ notices \in 0 .. MaxNotices /\ events \subseteq Events
  BY BoundsAssumption DEF Init
<1> QED
  BY <1>1, <1>2, <1>3, <1>4, <1>5, <1>6, <1>7
     DEF Init, TypeInv, TypeOK

LEMMA ReturnMapped ==
    ASSUME NEW t \in Threads, Return(t)
    PROVE  mapped' \in BOOLEAN
BY DEF Return

LEMMA TypeNext == TypeInv /\ [Next]_vars => TypeInv'
<1> SUFFICES ASSUME TypeInv, [Next]_vars PROVE TypeInv'
  OBVIOUS
<1> USE BoundsAssumption DEF TypeInv, Managed
<1>1. ASSUME NEW t \in Threads, AllowScale(t) PROVE TypeInv'
  <2>1. pc' \in [Threads -> Labels] /\ queue' \subseteq Namespaces
    BY <1>1 DEF TypeOK, AllowScale, Return, Goto, Labels
  <2>2. lastScale' \in [Namespaces -> 0 .. MaxTime \cup {Never}]
    BY <1>1 DEF TypeOK, AllowScale
  <2>3. mapped' \in BOOLEAN
    BY <1>1, ReturnMapped DEF TypeOK, AllowScale
  <2> QED
    BY <1>1, <2>1, <2>2, <2>3 DEF TypeOK, AllowScale, config, cluster, history
<1>2. ASSUME NEW t \in Threads, ReadQuota(t) PROVE TypeInv'
  <2>1. pc' \in [Threads -> Labels] /\ queue' \subseteq Namespaces
    BY <1>2 DEF TypeOK, ReadQuota, Return, Goto, Labels
  <2>2. job[t] \in Namespaces /\ cached[job[t]] + 1 \in Nat
    BY DEF TypeOK
  <2>3. value' \in [Threads -> Nat]
    BY <1>2, <2>2 DEF TypeOK, ReadQuota
  <2>4. mapped' \in BOOLEAN
    BY <1>2, ReturnMapped DEF TypeOK, ReadQuota
  <2> QED
    BY <1>2, <2>1, <2>3, <2>4 DEF TypeOK, ReadQuota, config, cluster, history
<1>3. ASSUME NEW t \in Threads, PostQuota(t) PROVE TypeInv'
  BY <1>3 DEF TypeOK, PostQuota, Goto, Labels, config, cluster, control
<1>4. ASSUME NEW t \in Threads, CheckCooldown(t) PROVE TypeInv'
  <2>1. pc' \in [Threads -> Labels] /\ queue' \subseteq Namespaces
    BY <1>4 DEF TypeOK, CheckCooldown, Return, Goto, Labels
  <2>2. mapped' \in BOOLEAN
    BY <1>4, ReturnMapped DEF TypeOK, CheckCooldown
  <2> QED
    BY <1>4, <2>1, <2>2 DEF TypeOK, CheckCooldown, config, cluster, history
<1>5. ASSUME NEW t \in Threads, PostNodes(t) PROVE TypeInv'
  BY <1>5 DEF TypeOK, PostNodes, Goto, Labels, config, cluster, control
<1>6. ASSUME NEW t \in Threads, Answer(t) PROVE TypeInv'
  <2>1. pc' \in [Threads -> Labels] /\ queue' \subseteq Namespaces
    BY <1>6 DEF TypeOK, Answer, Return, Goto, Labels
  <2>2. mapped' \in BOOLEAN
    BY <1>6, ReturnMapped DEF Answer
  <2> QED
    BY <1>6, <2>1, <2>2 DEF TypeOK, Answer, config, cluster, history
<1>7. ASSUME WatchEvent PROVE TypeInv'
  <2>1. Head(inbox) \in Calls /\ inbox' \in Seq(Calls)
    BY <1>7 DEF TypeOK, WatchEvent
  <2>2. pc' \in [Threads -> Labels]
    BY <1>7 DEF TypeOK, WatchEvent, Goto, Labels
  <2>4. job' \in [Threads -> Namespaces]
    BY <1>7, <2>1 DEF TypeOK, WatchEvent, Calls
  <2>3. mapped' \in BOOLEAN
    BY <1>7, Zenon DEF TypeOK, WatchEvent
  <2> QED
    BY <1>7, <2>1, <2>2, <2>3, <2>4 DEF TypeOK, WatchEvent, config, cluster,
                                  history
<1>8. ASSUME NEW n \in Namespaces, StartReconcile(n) PROVE TypeInv'
  BY <1>8 DEF TypeOK, StartReconcile, Goto, Labels, Threads, config, cluster,
              history
<1>9. ASSUME Reconcile PROVE TypeInv'
  <2>1. pc' \in [Threads -> Labels] /\ queue' \subseteq Namespaces
    BY <1>9 DEF TypeOK, Reconcile, Goto, Labels, Threads
  <2>2. job' \in [Threads -> Namespaces]
    BY <1>9 DEF TypeOK, Reconcile, Threads
  <2>3. room' \in [Threads -> BOOLEAN]
    BY <1>9 DEF TypeOK, Reconcile
  <2> QED
    BY <1>9, <2>1, <2>2, <2>3 DEF TypeOK, Reconcile, config, cluster, history
<1>10. ASSUME NEW n \in Namespaces, NEW cause \in Causes, RaiseEvent(n, cause)
       PROVE TypeInv'
  <2> DEFINE e == [ns |-> n, cause |-> cause, at |-> now]
  <2>1. e \in Events /\ CallOf(e) \in Calls
    BY DEF TypeOK, Events, Calls, CallOf
  <2>2. IsFiniteSet(events')
    BY <1>10, FS_AddElement DEF RaiseEvent
  <2>3. inbox' \in Seq(Calls) /\ notices' \in 0 .. MaxNotices
    BY <1>10, <2>1 DEF TypeOK, RaiseEvent, Notify
  <2> QED
    BY <1>10, <2>1, <2>2, <2>3 DEF TypeOK, RaiseEvent, config, threads,
                                   history
<1>11. ASSUME NEW e \in events, RepeatEvent(e) PROVE TypeInv'
  <2>1. e \in Events /\ [e EXCEPT !.at = now] \in Events /\ CallOf(e) \in Calls
    BY DEF TypeOK, Events, Calls, CallOf
  <2>2. IsFiniteSet(events')
    BY <1>11, FS_AddElement, FS_RemoveElement DEF RepeatEvent
  <2>3. inbox' \in Seq(Calls) /\ notices' \in 0 .. MaxNotices
    BY <1>11, <2>1 DEF TypeOK, RepeatEvent, Notify
  <2> QED
    BY <1>11, <2>1, <2>2, <2>3 DEF TypeOK, RepeatEvent, config, threads,
                                   history
<1>12. ASSUME NEW e \in events, ExpireEvent(e) PROVE TypeInv'
  <2>1. CallOf(e) \in Calls
    BY DEF TypeOK, Events, Calls, CallOf
  <2>2. IsFiniteSet(events')
    BY <1>12, FS_RemoveElement DEF ExpireEvent
  <2>3. inbox' \in Seq(Calls) /\ notices' \in 0 .. MaxNotices
    BY <1>12, <2>1 DEF TypeOK, ExpireEvent, Notify
  <2> QED
    BY <1>12, <2>2, <2>3 DEF TypeOK, ExpireEvent, config, threads, history
<1>13. ASSUME NEW n \in Namespaces, ApplyQuota(n) PROVE TypeInv'
  BY <1>13 DEF TypeOK, ApplyQuota, config, control, threads, history
<1>14. ASSUME NEW n \in Namespaces, CacheSync(n) PROVE TypeInv'
  BY <1>14 DEF TypeOK, CacheSync, config, threads, history
<1>15. ASSUME NEW n \in Namespaces, QuotaChanges(n) PROVE TypeInv'
  BY <1>15 DEF TypeOK, QuotaChanges, config, cluster, threads, history
<1>16. ASSUME NEW n \in Namespaces, DeleteNsq(n) PROVE TypeInv'
  BY <1>16 DEF TypeOK, DeleteNsq, cluster, threads, history
<1>17. ASSUME Tick PROVE TypeInv'
  BY <1>17 DEF TypeOK, Tick, config, cluster, control, threads, history
<1>18. ASSUME Restart PROVE TypeInv'
  <2>1. inbox' \in Seq(Calls)
    BY <1>18, ListingCalls DEF Restart
  <2>2. mapped' \in BOOLEAN
    BY <1>18 DEF Restart
  <2> QED
    BY <1>18, <2>1, <2>2 DEF TypeOK, Restart, Labels, Never, config, history
<1>19. ASSUME UNCHANGED vars PROVE TypeInv'
  BY <1>19 DEF TypeOK, vars, config, cluster, control, threads, history
<1> QED
  BY <1>1, <1>2, <1>3, <1>4, <1>5, <1>6, <1>7, <1>8, <1>9, <1>10, <1>11,
     <1>12, <1>13, <1>14, <1>15, <1>16, <1>17, <1>18, <1>19
     DEF Next, Controller, Cluster, Trigger

LEMMA TypeInvariant == Spec => []TypeInv
  BY TypeInit, TypeNext, PTL DEF Spec

\* The controller's memory and the objects it reads keep their types.
THEOREM TypeCorrect == Spec => []TypeOK
<1>1. TypeInv => TypeOK
  BY DEF TypeInv
<1> QED
  BY <1>1, TypeInvariant, PTL

-----------------------------------------------------------------------------
(***************************************************************************)
(* Quotas grow step by step                                                *)
(***************************************************************************)

\* What namespace n may start its next step from.
Bases(n) == posted[n] \cup {InitHard}

\* A goroutine may hold a quota it has not POSTed yet, while the other one
\* POSTs: what it holds is a step above a base, and so is what it will read.
StepInv ==
    \A n \in Namespaces :
        /\ hard[n] \in Bases(n)
        /\ cached[n] \in Bases(n)
        /\ \A v \in posted[n] : v - 1 \in Bases(n)
        /\ \A t \in Threads :
              pc[t] = "postQuota" /\ job[t] = n => value[t] - 1 \in Bases(n)

LEMMA StepInit == Init => StepInv
  BY DEF Init, StepInv, Bases

\* A step that neither changes a quota nor brings a goroutine to the POST.
LEMMA StepQuiet ==
    ASSUME TypeInv, StepInv, UNCHANGED <<hard, cached, posted, value>>,
           \A t \in Threads : pc'[t] = "postQuota" =>
                               pc[t] = "postQuota" /\ job'[t] = job[t]
    PROVE  StepInv'
  BY DEF StepInv, Bases

LEMMA StepNext == TypeInv /\ StepInv /\ [Next]_vars => StepInv'
<1> SUFFICES ASSUME TypeInv, StepInv, [Next]_vars PROVE StepInv'
  OBVIOUS
<1>1. ASSUME NEW t \in Threads, AllowScale(t) PROVE StepInv'
  BY <1>1, StepQuiet DEF AllowScale, Return, Goto, TypeInv, TypeOK, cluster,
                         history
<1>2. ASSUME NEW t \in Threads, ReadQuota(t) PROVE StepInv'
  <2>1. CASE Return(t) /\ UNCHANGED value
    BY <1>2, <2>1, StepQuiet DEF ReadQuota, Return, Goto, TypeInv, TypeOK,
                                 cluster, history
  <2>2. CASE value' = [value EXCEPT ![t] = cached[job[t]] + 1]
             /\ Goto(t, "postQuota")
    <3>1. value'[t] - 1 = cached[job[t]] /\ job[t] \in Namespaces
      BY <2>2 DEF TypeInv, TypeOK
    <3>2. \A u \in Threads : u # t => value'[u] = value[u] /\ pc'[u] = pc[u]
      BY <2>2 DEF Goto, TypeInv, TypeOK
    <3> QED
      BY <1>2, <3>1, <3>2 DEF ReadQuota, StepInv, Bases, cluster, history
  <2> QED
    BY <1>2, <2>1, <2>2 DEF ReadQuota
<1>3. ASSUME NEW t \in Threads, PostQuota(t) PROVE StepInv'
  <2>1. \A n \in Namespaces :
           Bases(n) \subseteq Bases(n)' /\ UNCHANGED <<hard, cached, job>>
    BY <1>3 DEF PostQuota, Bases, cluster, TypeInv, TypeOK
  <2>2. \A n \in Namespaces : \A v \in posted'[n] :
           v \in posted[n] \/ (n = job[t] /\ v = value[t])
    BY <1>3 DEF PostQuota, TypeInv, TypeOK
  <2>3. value[t] - 1 \in Bases(job[t])
    BY <1>3 DEF PostQuota, StepInv, TypeInv, TypeOK
  <2>4. \A u \in Threads : pc'[u] = "postQuota" =>
                            pc[u] = "postQuota" /\ value'[u] = value[u]
    BY <1>3 DEF PostQuota, Goto, TypeInv, TypeOK
  <2> QED
    BY <2>1, <2>2, <2>3, <2>4 DEF StepInv
<1>4. ASSUME NEW t \in Threads, CheckCooldown(t) PROVE StepInv'
  BY <1>4, StepQuiet DEF CheckCooldown, Return, Goto, TypeInv, TypeOK, cluster,
                         history
<1>5. ASSUME NEW t \in Threads, PostNodes(t) PROVE StepInv'
  BY <1>5, StepQuiet DEF PostNodes, Goto, TypeInv, TypeOK, cluster
<1>6. ASSUME NEW t \in Threads, Answer(t) PROVE StepInv'
  BY <1>6, StepQuiet DEF Answer, Return, Goto, TypeInv, TypeOK, cluster,
                         history
<1>7. ASSUME WatchEvent PROVE StepInv'
  BY <1>7, StepQuiet DEF WatchEvent, Goto, TypeInv, TypeOK, cluster, history
<1>8. ASSUME NEW n \in Namespaces, StartReconcile(n) PROVE StepInv'
  BY <1>8, StepQuiet DEF StartReconcile, Goto, TypeInv, TypeOK, cluster,
                         history
<1>9. ASSUME Reconcile PROVE StepInv'
  BY <1>9, StepQuiet DEF Reconcile, Goto, TypeInv, TypeOK, cluster, history
<1>10. ASSUME NEW n \in Namespaces, NEW cause \in Causes, RaiseEvent(n, cause)
       PROVE StepInv'
  BY <1>10, StepQuiet DEF RaiseEvent, threads, history
<1>11. ASSUME NEW e \in events, RepeatEvent(e) \/ ExpireEvent(e)
       PROVE StepInv'
  BY <1>11, StepQuiet DEF RepeatEvent, ExpireEvent, threads, history
<1>12. ASSUME NEW n \in Namespaces, ApplyQuota(n) PROVE StepInv'
  BY <1>12 DEF ApplyQuota, StepInv, Bases, TypeInv, TypeOK, threads, history
<1>13. ASSUME NEW n \in Namespaces, CacheSync(n) PROVE StepInv'
  BY <1>13 DEF CacheSync, StepInv, Bases, TypeInv, TypeOK, threads, history
<1>14. ASSUME NEW n \in Namespaces, QuotaChanges(n) \/ DeleteNsq(n)
       PROVE StepInv'
  BY <1>14, StepQuiet DEF QuotaChanges, DeleteNsq, cluster, threads, history
<1>15. ASSUME Tick PROVE StepInv'
  BY <1>15, StepQuiet DEF Tick, cluster, threads, history
<1>16. ASSUME Restart PROVE StepInv'
  BY <1>16 DEF Restart, StepInv, Bases, history
<1>17. ASSUME UNCHANGED vars PROVE StepInv'
  BY <1>17, StepQuiet DEF vars, cluster, threads, history
<1> QED
  BY <1>1, <1>2, <1>3, <1>4, <1>5, <1>6, <1>7, <1>8, <1>9, <1>10, <1>11,
     <1>12, <1>13, <1>14, <1>15, <1>16, <1>17
     DEF Next, Controller, Cluster, Trigger

LEMMA StepCorrect == Spec => []StepInv
  BY TypeInvariant, StepInit, StepNext, PTL DEF Spec

\* Every base stands on the steps below it.  Without StepInv a goroutine might
\* POST a quota above a gap.
LadderInv ==
    \A n \in Namespaces : \A v \in Bases(n) :
        /\ v >= InitHard
        /\ InitHard + 1 .. v \subseteq posted[n]

LEMMA LadderInit == Init => LadderInv
  BY BoundsAssumption DEF Init, LadderInv, Bases

LEMMA OnlyPostsAreNew ==
    ASSUME [Next]_vars
    PROVE  UNCHANGED posted \/ \E t \in Threads : PostQuota(t)
<1>1. CASE Controller
  BY <1>1 DEF Controller, Trigger, AllowScale, ReadQuota, CheckCooldown,
              PostNodes, Answer, WatchEvent, StartReconcile, Reconcile, history
<1>2. CASE Cluster
  BY <1>2 DEF Cluster, RaiseEvent, RepeatEvent, ExpireEvent, ApplyQuota,
              CacheSync, QuotaChanges, DeleteNsq, Tick, Restart, history
<1>3. CASE UNCHANGED vars
  BY <1>3 DEF vars, history
<1>. QED
  BY <1>1, <1>2, <1>3 DEF Next

LEMMA LadderNext ==
    ASSUME TypeInv, StepInv, LadderInv, [Next]_vars
    PROVE  LadderInv'
<1>1. CASE UNCHANGED posted
  BY <1>1 DEF LadderInv, Bases
<1>2. ASSUME NEW t \in Threads, PostQuota(t) PROVE LadderInv'
  <2>. DEFINE n == job[t]
              u == value[t]
  <2>1. /\ n \in Namespaces /\ u \in Nat /\ posted[n] \subseteq Nat
        /\ posted' = [posted EXCEPT ![n] = @ \cup {u}]
        /\ u - 1 \in Bases(n)
    BY <1>2 DEF PostQuota, StepInv, TypeInv, TypeOK
  <2>2. u - 1 >= InitHard /\ InitHard + 1 .. u - 1 \subseteq posted[n]
    BY <2>1 DEF LadderInv
  <2>3. u >= InitHard /\ InitHard + 1 .. u \subseteq posted[n] \cup {u}
    BY <2>1, <2>2, BoundsAssumption
  <2>4. ASSUME NEW m \in Namespaces, NEW v \in Bases(m)'
        PROVE  v >= InitHard /\ InitHard + 1 .. v \subseteq posted'[m]
    <3>1. posted[m] \subseteq posted'[m]
      BY <2>1 DEF TypeInv, TypeOK
    <3>2. CASE v \in Bases(m)
      BY <3>1, <3>2 DEF LadderInv
    <3>3. CASE v \notin Bases(m)
      <4>1. m = n /\ v = u /\ posted'[m] = posted[n] \cup {u}
        BY <2>1, <3>3 DEF Bases, TypeInv, TypeOK
      <4>. QED
        BY <2>3, <4>1
    <3>. QED
      BY <3>2, <3>3
  <2>. QED
    BY <2>4 DEF LadderInv
<1>. QED
  BY <1>1, <1>2, OnlyPostsAreNew

LEMMA LadderCorrect == Spec => []LadderInv
  BY TypeInvariant, StepCorrect, LadderInit, LadderNext, PTL DEF Spec

\* "Quota increases in 0.5 CPU / 512Mi steps" (README.md:77), for any number
\* of namespaces, Events and restarts: no step is skipped on the way to the
\* quota in force, and it never falls below the one at the start.
THEOREM StepwiseGrowth == Spec => []StepByStep
<1>1. StepInv /\ LadderInv => StepByStep
  BY DEF StepInv, LadderInv, StepByStep, Bases
<1>. QED
  BY <1>1, StepCorrect, LadderCorrect, PTL

-----------------------------------------------------------------------------
(***************************************************************************)
(* Quotas grow slowly                                                      *)
(***************************************************************************)

\* The highest quota namespace n may reach if the throttle lets nobody else
\* through: since the last grant the clock has not been used.
Budget(n) ==
    IF lastScale[n] = Never THEN InitHard + now + boots
                            ELSE InitHard + lastScale[n] + boots + 1

\* A goroutine that was let through and has not read the quota yet.
Granted(t, n) == IF pc[t] = "readQuota" /\ job[t] = n THEN 1 ELSE 0
Pending(n) == Granted("watch", n) + Granted("worker", n)

\* Everything that is or may become the quota of n: what is applied, cached,
\* POSTed at any time, and what a goroutine is about to POST.
Levels(n) ==
    {hard[n], cached[n]} \cup posted[n]
    \cup {value[t] : t \in {u \in Threads : pc[u] = "postQuota" /\ job[u] = n}}

\* Each grant that has not been used pays for one step above every level.
GrowthInv ==
    \A n \in Namespaces :
        /\ lastScale[n] <= now
        /\ \A v \in Levels(n) : v + Pending(n) <= Budget(n)

LEMMA LevelsNat == TypeInv => \A n \in Namespaces : Levels(n) \subseteq Nat
  BY DEF TypeInv, TypeOK, Levels

LEMMA PendingNat == \A n : Pending(n) \in Nat
  BY DEF Pending, Granted

LEMMA BudgetInt == TypeInv => \A n \in Namespaces : Budget(n) \in Int
  BY BoundsAssumption DEF TypeInv, TypeOK, Budget, Never

LEMMA GrowthInit == Init => GrowthInv
<1> SUFFICES ASSUME Init, NEW n \in Namespaces
             PROVE  /\ lastScale[n] <= now
                    /\ \A v \in Levels(n) : v + Pending(n) <= Budget(n)
  BY DEF GrowthInv
<1>1. Levels(n) = {InitHard} /\ Pending(n) = 0
  BY DEF Init, Levels, Pending, Granted, Threads
<1> QED
  BY <1>1, BoundsAssumption DEF Init, Budget, Never

\* A step that brings no goroutine to the read or to the POST, and changes
\* neither quotas nor the throttle, while time may pass.
LEMMA GrowthQuiet ==
    ASSUME TypeInv, TypeInv', GrowthInv,
           UNCHANGED <<hard, cached, posted, value, lastScale, boots>>,
           now' = now \/ now' = now + 1,
           \A t \in Threads : pc'[t] \in {"readQuota", "postQuota"} =>
                               pc'[t] = pc[t] /\ job'[t] = job[t]
    PROVE  GrowthInv'
<1> SUFFICES ASSUME NEW n \in Namespaces
             PROVE  /\ lastScale'[n] <= now'
                    /\ \A v \in Levels(n)' : v + Pending(n)' <= Budget(n)'
  BY DEF GrowthInv
<1>1. /\ lastScale[n] \in Int /\ lastScale[n] <= now
      /\ now \in Int /\ now' \in Int /\ boots \in Int /\ InitHard \in Int
  BY BoundsAssumption DEF GrowthInv, TypeInv, TypeOK, Never
<1>2. Levels(n)' \subseteq Levels(n)
  BY DEF Levels
<1>3. Pending(n)' <= Pending(n)
  BY DEF Pending, Granted, Threads
<1>4. Budget(n)' >= Budget(n) /\ Budget(n)' \in Int /\ Budget(n) \in Int
  <2>1. lastScale' = lastScale /\ boots' = boots
    OBVIOUS
  <2>2. CASE lastScale[n] = Never
    <3>1. Budget(n) = InitHard + now + boots
      BY <2>2 DEF Budget
    <3>2. Budget(n)' = InitHard + now' + boots
      BY <2>1, <2>2 DEF Budget
    <3>3. Budget(n) \in Int
      BY <1>1, <3>1
    <3>4. Budget(n)' \in Int
      BY <1>1, <3>2
    <3>5. CASE now' = now
      BY <1>1, <3>1, <3>2, <3>3, <3>5
    <3>6. CASE now' = now + 1
      BY <1>1, <3>1, <3>2, <3>6
    <3> QED
      BY <3>3, <3>4, <3>5, <3>6
  <2>3. CASE lastScale[n] # Never
    <3>1. Budget(n) = InitHard + lastScale[n] + boots + 1
      BY <2>3 DEF Budget
    <3>2. Budget(n)' = Budget(n)
      BY <2>1, <2>3 DEF Budget
    <3> QED
      BY <1>1, <3>1, <3>2
  <2> QED
    BY <2>2, <2>3
<1>5. Levels(n) \subseteq Nat
  BY LevelsNat
<1>6. Pending(n) \in Nat /\ Pending(n)' \in Nat
  BY DEF Pending, Granted
<1>7. \A v \in Levels(n) : v + Pending(n) <= Budget(n)
  BY DEF GrowthInv
<1>8. ASSUME NEW v \in Levels(n)' PROVE v + Pending(n)' <= Budget(n)'
  <2>1. v \in Nat /\ v + Pending(n) <= Budget(n)
    BY <1>2, <1>5, <1>7
  <2> QED
    BY <2>1, <1>3, <1>4, <1>6
<1> QED
  BY <1>1, <1>8

\* A grant raises the budget by the step it promises.
LEMMA GrowthAllow ==
    ASSUME TypeInv, GrowthInv, NEW t \in Threads, AllowScale(t), TypeInv'
    PROVE  GrowthInv'
<1> DEFINE m == job[t]
<1>1. CASE Return(t) /\ UNCHANGED lastScale
  BY <1>1, GrowthQuiet DEF AllowScale, Return, Goto, TypeInv, TypeOK, cluster,
                           history
<1>2. CASE /\ lastScale[m] = Never \/ now - lastScale[m] >= MinInterval
           /\ lastScale' = [lastScale EXCEPT ![m] = now]
           /\ Goto(t, "readQuota")
  <2> SUFFICES ASSUME NEW n \in Namespaces
               PROVE  /\ lastScale'[n] <= now'
                      /\ \A v \in Levels(n)' : v + Pending(n)' <= Budget(n)'
    BY DEF GrowthInv
  <2>1. /\ lastScale[n] \in Int /\ lastScale[n] <= now /\ m \in Namespaces
        /\ now \in Int /\ boots \in Int /\ InitHard \in Int
    BY BoundsAssumption DEF GrowthInv, TypeInv, TypeOK, Never
  <2>2. now' = now /\ boots' = boots /\ pc[t] = "allow"
        /\ UNCHANGED <<hard, cached, posted, value, job>>
    BY <1>2 DEF AllowScale, cluster, history
  <2>3. pc' = [pc EXCEPT ![t] = "readQuota"] /\ pc \in [Threads -> Labels]
    BY <1>2 DEF Goto, TypeInv, TypeOK
  <2>4. Levels(n)' \subseteq Levels(n) /\ Levels(n) \subseteq Nat
    BY <2>2, <2>3, LevelsNat DEF Levels
  <2>5. Pending(n) \in Nat /\ Pending(n)' \in Nat
        /\ Pending(n)' = Pending(n) + (IF n = m THEN 1 ELSE 0)
    BY <2>2, <2>3 DEF Pending, Granted, Threads
  <2>6. lastScale'[n] = IF n = m THEN now ELSE lastScale[n]
    BY <1>2, <2>1 DEF TypeInv, TypeOK
  <2>7. n = m => lastScale[n] = Never \/ now >= lastScale[n] + 1
    BY <1>2, <2>1 DEF MinInterval
  <2>8. /\ Budget(n) \in Int /\ Budget(n)' \in Int
        /\ Budget(n)' >= Budget(n) + (IF n = m THEN 1 ELSE 0)
    <3>1. Never = -1 /\ now >= 0
      BY BoundsAssumption DEF Never, TypeInv, TypeOK
    <3> QED
      BY <2>1, <2>2, <2>6, <2>7, <3>1 DEF Budget
  <2>9. ASSUME NEW v \in Levels(n)' PROVE v + Pending(n)' <= Budget(n)'
    <3>1. v \in Nat /\ v + Pending(n) <= Budget(n)
      BY <2>4 DEF GrowthInv
    <3> QED
      BY <3>1, <2>5, <2>8
  <2> QED
    BY <2>1, <2>2, <2>6, <2>9
<1> QED
  BY <1>1, <1>2 DEF AllowScale

\* The read turns the step that was granted into a value to POST.
LEMMA GrowthRead ==
    ASSUME TypeInv, GrowthInv, NEW t \in Threads, ReadQuota(t), TypeInv'
    PROVE  GrowthInv'
<1> DEFINE m == job[t]
<1>1. CASE Return(t) /\ UNCHANGED value
  BY <1>1, GrowthQuiet DEF ReadQuota, Return, Goto, TypeInv, TypeOK, cluster,
                           history
<1>2. CASE value' = [value EXCEPT ![t] = cached[m] + 1] /\ Goto(t, "postQuota")
  <2> SUFFICES ASSUME NEW n \in Namespaces
               PROVE  /\ lastScale'[n] <= now'
                      /\ \A v \in Levels(n)' : v + Pending(n)' <= Budget(n)'
    BY DEF GrowthInv
  <2>1. /\ now' = now /\ boots' = boots /\ lastScale' = lastScale
        /\ pc[t] = "readQuota" /\ m \in Namespaces
        /\ UNCHANGED <<hard, cached, posted, job>>
    BY <1>2 DEF ReadQuota, cluster, history, TypeInv, TypeOK
  <2>2. pc' = [pc EXCEPT ![t] = "postQuota"] /\ pc \in [Threads -> Labels]
    BY <1>2 DEF Goto, TypeInv, TypeOK
  <2>3. \A u \in Threads : value'[u] = IF u = t THEN cached[m] + 1 ELSE value[u]
    BY <1>2 DEF TypeInv, TypeOK
  <2>4. /\ Pending(n) \in Nat /\ Pending(n)' \in Nat
        /\ Pending(n)' = Pending(n) - (IF n = m THEN 1 ELSE 0)
    BY <2>1, <2>2 DEF Pending, Granted, Threads
  <2>5. \A v \in Levels(n)' : v \in Levels(n) \/ (n = m /\ v = cached[n] + 1)
    BY <2>1, <2>2, <2>3 DEF Levels
  <2>6. cached[n] \in Levels(n) /\ Levels(n) \subseteq Nat
    BY LevelsNat DEF Levels
  <2>7. Budget(n)' = Budget(n) /\ Budget(n) \in Int
    BY <2>1, BudgetInt DEF Budget
  <2>8. ASSUME NEW v \in Levels(n)' PROVE v + Pending(n)' <= Budget(n)'
    <3>1. \A w \in Levels(n) : w \in Nat /\ w + Pending(n) <= Budget(n)
      BY <2>6 DEF GrowthInv
    <3> QED
      BY <3>1, <2>4, <2>5, <2>6, <2>7
  <2> QED
    BY <2>1, <2>8 DEF GrowthInv
<1> QED
  BY <1>1, <1>2 DEF ReadQuota

\* A step that moves quotas about but makes none that was not a level, and
\* leaves the clock, the throttle and the grants alone.
LEMMA GrowthMoves ==
    ASSUME TypeInv, GrowthInv, UNCHANGED <<now, boots, lastScale>>,
           \A n \in Namespaces :
               Levels(n)' \subseteq Levels(n) /\ Pending(n)' = Pending(n)
    PROVE  GrowthInv'
  BY DEF GrowthInv, Budget

LEMMA GrowthPost ==
    ASSUME TypeInv, GrowthInv, NEW t \in Threads, PostQuota(t)
    PROVE  GrowthInv'
<1>1. /\ UNCHANGED <<now, boots, lastScale, hard, cached, job>>
      /\ pc[t] = "postQuota"
      /\ pc' = [pc EXCEPT ![t] = "answer"] /\ pc \in [Threads -> Labels]
      /\ posted' = [posted EXCEPT ![job[t]] = @ \cup {value[t]}]
      /\ \A u \in Threads : u # t => value'[u] = value[u]
  BY DEF PostQuota, Goto, TypeInv, TypeOK, cluster, control
<1>2. ASSUME NEW n \in Namespaces
      PROVE  Levels(n)' \subseteq Levels(n) /\ Pending(n)' = Pending(n)
  <2>1. posted'[n] \subseteq posted[n] \cup (IF n = job[t] THEN {value[t]} ELSE {})
    BY <1>1 DEF TypeInv, TypeOK
  <2>2. Levels(n)' \subseteq Levels(n)
    BY <1>1, <2>1 DEF Levels
  <2>3. Pending(n)' = Pending(n)
    BY <1>1 DEF Pending, Granted, Threads
  <2> QED
    BY <2>2, <2>3
<1> QED
  BY <1>1, <1>2, GrowthMoves

\* The throttle is forgotten: the new budget, with one boot more, covers what
\* the old one allowed, and the grants are gone with the goroutines.
LEMMA GrowthRestart ==
    ASSUME TypeInv, GrowthInv, Restart
    PROVE  GrowthInv'
<1> SUFFICES ASSUME NEW n \in Namespaces
             PROVE  /\ lastScale'[n] <= now'
                    /\ \A v \in Levels(n)' : v + Pending(n)' <= Budget(n)'
  BY DEF GrowthInv
<1>1. /\ lastScale[n] \in Int /\ lastScale[n] <= now /\ now \in Nat
      /\ boots \in Int /\ InitHard \in Int /\ Never = -1
  BY BoundsAssumption DEF GrowthInv, TypeInv, TypeOK, Never
<1>2. lastScale'[n] = Never /\ now' = now /\ boots' = boots + 1
  BY DEF Restart
<1>3. Levels(n)' \subseteq Levels(n) /\ Levels(n) \subseteq Nat
  BY LevelsNat DEF Restart, Levels, history
<1>4. Pending(n)' = 0 /\ Pending(n) \in Nat
  BY DEF Restart, Pending, Granted, Threads
<1>5. Budget(n)' = InitHard + now + boots + 1 /\ Budget(n) <= Budget(n)'
      /\ Budget(n) \in Int
  BY <1>1, <1>2 DEF Budget
<1>6. ASSUME NEW v \in Levels(n)' PROVE v + Pending(n)' <= Budget(n)'
  <2>1. v \in Nat /\ v + Pending(n) <= Budget(n)
    BY <1>3 DEF GrowthInv
  <2> QED
    BY <2>1, <1>1, <1>4, <1>5
<1> QED
  BY <1>1, <1>2, <1>6

LEMMA GrowthNext == TypeInv /\ GrowthInv /\ [Next]_vars => GrowthInv'
<1> SUFFICES ASSUME TypeInv, GrowthInv, [Next]_vars PROVE GrowthInv'
  OBVIOUS
<1>t. TypeInv'
  BY TypeNext
<1>1. ASSUME NEW t \in Threads, AllowScale(t) PROVE GrowthInv'
  BY <1>1, <1>t, GrowthAllow
<1>2. ASSUME NEW t \in Threads, ReadQuota(t) PROVE GrowthInv'
  BY <1>2, <1>t, GrowthRead
<1>3. ASSUME NEW t \in Threads, PostQuota(t) PROVE GrowthInv'
  BY <1>3, GrowthPost
<1>4. ASSUME NEW t \in Threads, CheckCooldown(t) \/ PostNodes(t) \/ Answer(t)
      PROVE GrowthInv'
  BY <1>4, <1>t, GrowthQuiet
     DEF CheckCooldown, PostNodes, Answer, Return, Goto, TypeInv, TypeOK,
         cluster, control, history
<1>5. ASSUME WatchEvent PROVE GrowthInv'
  <2>1. UNCHANGED <<hard, cached, posted, value, lastScale, boots, now>>
    BY <1>5 DEF WatchEvent, cluster, history
  <2>2. ASSUME NEW t \in Threads, pc'[t] \in {"readQuota", "postQuota"}
        PROVE  t # "watch" /\ pc'[t] = pc[t]
    BY <1>5, <2>2 DEF WatchEvent, Goto, TypeInv, TypeOK
  <2>3. ASSUME NEW t \in Threads, t # "watch" PROVE job'[t] = job[t]
    BY <1>5, <2>3 DEF WatchEvent, TypeInv, TypeOK
  <2> QED
    BY <1>t, <2>1, <2>2, <2>3, GrowthQuiet
<1>6. ASSUME NEW n \in Namespaces, StartReconcile(n) PROVE GrowthInv'
  BY <1>6, <1>t, GrowthQuiet DEF StartReconcile, Goto, TypeInv, TypeOK,
                                       cluster, history
<1>7. ASSUME Reconcile PROVE GrowthInv'
  <2>1. UNCHANGED <<hard, cached, posted, value, lastScale, boots, now>>
    BY <1>7 DEF Reconcile, cluster, history
  <2>2. ASSUME NEW t \in Threads, pc'[t] \in {"readQuota", "postQuota"}
        PROVE  t # "worker" /\ pc'[t] = pc[t]
    BY <1>7, <2>2 DEF Reconcile, Goto, TypeInv, TypeOK
  <2>3. ASSUME NEW t \in Threads, t # "worker" PROVE job'[t] = job[t]
    BY <1>7, <2>3 DEF Reconcile, TypeInv, TypeOK
  <2> QED
    BY <1>t, <2>1, <2>2, <2>3, GrowthQuiet
<1>8. ASSUME NEW n \in Namespaces, NEW cause \in Causes, RaiseEvent(n, cause)
      PROVE GrowthInv'
  BY <1>8, <1>t, GrowthQuiet DEF RaiseEvent, threads, history
<1>9. ASSUME NEW e \in events, RepeatEvent(e) \/ ExpireEvent(e)
      PROVE GrowthInv'
  BY <1>9, <1>t, GrowthQuiet DEF RepeatEvent, ExpireEvent, threads,
                                       history
<1>10. ASSUME NEW n \in Namespaces, ApplyQuota(n) PROVE GrowthInv'
  <2>1. \A k \in Namespaces : Levels(k)' \subseteq Levels(k)
    BY <1>10 DEF ApplyQuota, Levels, threads, history, TypeInv, TypeOK
  <2>2. \A k \in Namespaces : Pending(k)' = Pending(k)
    BY <1>10 DEF ApplyQuota, Pending, Granted, threads
  <2> QED
    BY <1>10, <2>1, <2>2, GrowthMoves DEF ApplyQuota, control
<1>11. ASSUME NEW n \in Namespaces, CacheSync(n) PROVE GrowthInv'
  <2>1. \A k \in Namespaces : Levels(k)' \subseteq Levels(k)
    BY <1>11 DEF CacheSync, Levels, threads, history, TypeInv, TypeOK
  <2>2. \A k \in Namespaces : Pending(k)' = Pending(k)
    BY <1>11 DEF CacheSync, Pending, Granted, threads
  <2> QED
    BY <1>11, <2>1, <2>2, GrowthMoves DEF CacheSync
<1>12. ASSUME NEW n \in Namespaces, QuotaChanges(n) \/ DeleteNsq(n)
       PROVE GrowthInv'
  BY <1>12, <1>t, GrowthQuiet DEF QuotaChanges, DeleteNsq, cluster,
                                        threads, history
<1>13. ASSUME Tick PROVE GrowthInv'
  BY <1>13, <1>t, GrowthQuiet DEF Tick, cluster, control, threads,
                                        history
<1>14. ASSUME Restart PROVE GrowthInv'
  BY <1>14, GrowthRestart
<1>15. ASSUME UNCHANGED vars PROVE GrowthInv'
  BY <1>15, <1>t, GrowthQuiet DEF vars, cluster, control, threads,
                                        history
<1> QED
  BY <1>1, <1>2, <1>3, <1>4, <1>5, <1>6, <1>7, <1>8, <1>9, <1>10, <1>11,
     <1>12, <1>13, <1>14, <1>15
     DEF Next, Controller, Cluster, Trigger

\* The throttle of allowScale bounds the growth of every quota by one step a
\* minute and one a restart, whichever goroutine asks and whenever what was
\* POSTed is applied, for any number of namespaces.
THEOREM ThrottledGrowth == Spec => []GrowthBounded
<1>1. TypeInv /\ GrowthInv => GrowthBounded
  <2> SUFFICES ASSUME TypeInv, GrowthInv, NEW n \in Namespaces
               PROVE  hard[n] <= InitHard + now + boots + 1
    BY DEF GrowthBounded
  <2>1. hard[n] \in Nat /\ hard[n] + Pending(n) <= Budget(n)
    BY DEF GrowthInv, Levels, TypeInv, TypeOK
  <2>2. /\ lastScale[n] \in Int /\ lastScale[n] <= now /\ now \in Int
        /\ boots \in Int /\ InitHard \in Int
    BY BoundsAssumption DEF GrowthInv, TypeInv, TypeOK, Never
  <2>3. Pending(n) \in Nat /\ Budget(n) \in Int
    BY PendingNat, BudgetInt
  <2> QED
    BY <2>1, <2>2, <2>3 DEF Budget
<1> QED
  BY <1>1, TypeInvariant, GrowthInit, GrowthNext, PTL DEF Spec

-----------------------------------------------------------------------------
(***************************************************************************)
(* The loop                                                                *)
(***************************************************************************)
PostBodies == {QuotaBody(n, v) : n \in Namespaces, v \in Nat}
LogEntries == [by: Requests, picked: SUBSET Namespaces,
               tree: [Namespaces -> Nat]]

ServerType ==
    /\ request \in [Requests -> PostBodies \cup {NoRequest}]
    /\ standing \in [Requests -> Server!Standings]
    /\ log \in [{Repo} -> Seq(LogEntries)]
    /\ deployed \in [{Repo} -> Nat]
    /\ deployed[Repo] <= Len(log[Repo])

\* The quota of namespace n in revision i of the repository.
Quota(n, i) == Server!Tree(Repo, log[Repo], i)[n]

\* A quota POSTed is above the initial one.
PostedInv == \A n \in Namespaces : \A v \in posted[n] : v > InitHard

\* The server has nothing to serve that was not POSTed.
RequestInv ==
    \A r \in Requests : standing[r] = "waiting" =>
        \E n \in Namespaces : \E v \in posted[n] : request[r] = QuotaBody(n, v)

\* A manifest holds the initial quota until it holds one that was POSTed.
TreeInv ==
    \A n \in Namespaces : \A i \in 0 .. Len(log[Repo]) :
        /\ Quota(n, i) \in Bases(n)
        /\ \A j \in 0 .. i : Quota(n, j) # InitHard => Quota(n, i) # InitHard

\* A quota that has left its initial value has done so in the repository.
AppliedInv ==
    \A n \in Namespaces :
        hard[n] # InitHard => Quota(n, deployed[Repo]) # InitHard

LoopInv == ServerType /\ PostedInv /\ RequestInv /\ TreeInv /\ AppliedInv

IInv == TypeInv /\ StepInv /\ LoopInv

-----------------------------------------------------------------------------
LEMMA LoopInit == SystemInit => Init /\ IInv
<1> SUFFICES ASSUME SystemInit PROVE Init /\ IInv
  OBVIOUS
<1>1. TypeInv /\ StepInv
  BY TypeInit, StepInit DEF SystemInit
<1>2. /\ log = [p \in {Repo} |-> <<>>] /\ deployed = [p \in {Repo} |-> 0]
      /\ request = [r \in Requests |-> NoRequest]
      /\ standing = [r \in Requests |-> "none"]
  BY DEF SystemInit, Server!Init
<1>3. ServerType
  BY <1>2 DEF ServerType, Server!Standings
<1>4. PostedInv /\ RequestInv
  BY <1>2 DEF SystemInit, Init, PostedInv, RequestInv
<1>5. \A n \in Namespaces : Quota(n, 0) = InitHard
  BY DEF Quota, Server!Tree
<1>6. TreeInv
  <2>1. Len(log[Repo]) = 0
    BY <1>2
  <2>2. \A i \in 0 .. 0 : i = 0
    OBVIOUS
  <2>q. QED
    BY <1>5, <2>1, <2>2 DEF TreeInv, Bases
<1>7. AppliedInv
  BY DEF SystemInit, Init, AppliedInv
<1>q. QED
  BY <1>1, <1>3, <1>4, <1>6, <1>7 DEF IInv, LoopInv, SystemInit

\* Steps of the controller and of the cluster that leave the server and the
\* quotas alone.
LEMMA LoopQuiet ==
    ASSUME IInv, UNCHANGED <<server, hard, posted>>
    PROVE  LoopInv'
BY DEF IInv, LoopInv, ServerType, PostedInv, RequestInv, TreeInv, AppliedInv,
       Quota, Bases, server

LEMMA LoopPost ==
    ASSUME IInv, NEW t \in Threads, PostQuotaToServer(t)
    PROVE  LoopInv'
<1> DEFINE b == QuotaBody(job[t], value[t])
<1>1. /\ PostQuota(t)
      /\ UNCHANGED <<hard, log, deployed>>
      /\ job[t] \in Namespaces /\ value[t] \in Nat /\ InitHard \in Nat
  BY BoundsAssumption
  DEF PostQuotaToServer, PostQuota, Server!Submit, cluster, IInv, TypeInv,
      TypeOK
<1>2. PICK r \in Requests : Server!Submit(r, b)
  BY DEF PostQuotaToServer
<1>3. /\ value[t] \in posted'[job[t]]
      /\ \A n \in Namespaces : posted[n] \subseteq posted'[n]
      /\ \A n \in Namespaces : \A v \in posted'[n] :
            v \in posted[n] \/ (n = job[t] /\ v = value[t])
  BY <1>1 DEF PostQuota, IInv, TypeInv, TypeOK
<1>4. value[t] > InitHard
  <2>1. value[t] - 1 \in Bases(job[t])
    BY <1>1 DEF PostQuota, IInv, StepInv
  <2>2. \A v \in posted[job[t]] : v \in Nat /\ v > InitHard
    BY <1>1 DEF IInv, LoopInv, PostedInv, TypeInv, TypeOK
  <2>q. QED
    BY <1>1, <2>1, <2>2 DEF Bases
<1>5. ServerType'
  BY <1>1, <1>2 DEF Server!Submit, IInv, LoopInv, ServerType, PostBodies,
                    Server!Standings
<1>6. PostedInv'
  BY <1>3, <1>4 DEF PostedInv, IInv, LoopInv
<1>7. RequestInv'
  <2> SUFFICES ASSUME NEW s \in Requests, standing'[s] = "waiting"
               PROVE  \E n \in Namespaces : \E v \in posted'[n] :
                          request'[s] = QuotaBody(n, v)
    BY DEF RequestInv
  <2>1. CASE s = r
    BY <1>1, <1>2, <1>3, <2>1 DEF Server!Submit, IInv, LoopInv, ServerType
  <2>2. CASE s # r
    <3>1. standing[s] = "waiting" /\ request'[s] = request[s]
      BY <1>2, <2>2 DEF Server!Submit, IInv, LoopInv, ServerType
    <3>q. QED
      BY <1>3, <3>1 DEF RequestInv, IInv, LoopInv
  <2>q. QED
    BY <2>1, <2>2
<1>8. TreeInv' /\ AppliedInv'
  BY <1>1, <1>3 DEF TreeInv, AppliedInv, Quota, Bases, IInv, LoopInv
<1>q. QED
  BY <1>5, <1>6, <1>7, <1>8 DEF LoopInv

\* What a commit does to the quotas in the repository.
LEMMA ApplyTrees ==
    ASSUME IInv, NEW r \in Requests, Server!Apply(r)
    PROVE  LET k == Len(log[Repo]) IN
           /\ k \in Nat /\ Len(log'[Repo]) = k + 1
           /\ log' \in [{Repo} -> Seq(LogEntries)]
           /\ \A n \in Namespaces :
                 /\ \A i \in 0 .. k : Quota(n, i)' = Quota(n, i)
                 /\ \A i \in {k + 1} :
                       Quota(n, i)' \in posted[n] \cup {Quota(n, k)}
<1> DEFINE k == Len(log[Repo])
<1>0. PICK n \in Namespaces :
         \E v \in posted[n] : request[r] = QuotaBody(n, v)
  BY DEF Server!Apply, IInv, LoopInv, RequestInv
<1>1. PICK v \in posted[n] : request[r] = QuotaBody(n, v)
  BY <1>0
<1>s. request[r].repo = Repo /\ request[r].matches = {n}
  BY <1>1 DEF QuotaBody
<1>2. v \in Nat
  BY DEF IInv, TypeInv, TypeOK
<1>3. k \in Nat /\ log[Repo] \in Seq(LogEntries)
  BY DEF IInv, LoopInv, ServerType
<1> DEFINE head == Server!Tree(Repo, log[Repo], k)
           edited(picked) == Server!Edited(QuotaBody(n, v), picked, head)
           entry(picked) == [by |-> r, picked |-> picked,
                             tree |-> edited(picked)]
<1>4. PICK picked \in (SUBSET {n}) \ {{}} :
         log' = [log EXCEPT ![Repo] = Append(@, entry(picked))]
  BY <1>1, <1>s DEF Server!Apply
<1>5. head \in [Namespaces -> Nat]
  <2>1. CASE k = 0
    BY <2>1, BoundsAssumption DEF Server!Tree
  <2>2. CASE k # 0
    <3>1. log[Repo][k] \in LogEntries
      BY <1>3, <2>2
    <3>q. QED
      BY <2>2, <3>1 DEF Server!Tree, LogEntries
  <2>q. QED
    BY <2>1, <2>2
<1>6. \A m \in Namespaces :
         edited(picked)[m] = IF m \in picked THEN v ELSE head[m]
  BY DEF Server!Edited, Server!Updated, QuotaBody
<1>7. edited(picked) \in [Namespaces -> Nat]
  BY <1>2, <1>5, <1>6 DEF Server!Edited
<1>8. entry(picked) \in LogEntries
  BY <1>4, <1>7 DEF LogEntries
<1>9. log'[Repo] = Append(log[Repo], entry(picked))
  BY <1>4 DEF IInv, LoopInv, ServerType
<1>10. log' \in [{Repo} -> Seq(LogEntries)]
  BY <1>3, <1>4, <1>8 DEF IInv, LoopInv, ServerType
<1>11. /\ Len(log'[Repo]) = k + 1
       /\ log'[Repo][k + 1] = entry(picked)
       /\ \A i \in 1 .. k : log'[Repo][i] = log[Repo][i]
  BY <1>3, <1>8, <1>9
<1>12. \A m \in Namespaces : \A i \in 0 .. k : Quota(m, i)' = Quota(m, i)
  BY <1>3, <1>11 DEF Quota, Server!Tree
<1>13. ASSUME NEW m \in Namespaces, NEW i \in {k + 1}
       PROVE  Quota(m, i)' \in posted[m] \cup {Quota(m, k)}
  <2>1. Quota(m, i)' = edited(picked)[m]
    BY <1>3, <1>11 DEF Quota, Server!Tree
  <2>2. CASE m \in picked
    <3>1. m = n
      BY <1>4, <2>2
    <3>2. Quota(m, i)' = v
      BY <1>6, <2>1, <2>2
    <3>q. QED
      BY <1>1, <3>1, <3>2
  <2>3. CASE m \notin picked
    BY <1>6, <2>1, <2>3 DEF Quota
  <2>q. QED
    BY <2>2, <2>3
<1>q. QED
  BY <1>3, <1>10, <1>11, <1>12, <1>13

LEMMA LoopApply ==
    ASSUME IInv, NEW r \in Requests, Server!Apply(r), UNCHANGED <<vars, waitsFor>>
    PROVE  LoopInv'
<1> DEFINE k == Len(log[Repo])
<1>1. /\ k \in Nat /\ Len(log'[Repo]) = k + 1
      /\ log' \in [{Repo} -> Seq(LogEntries)]
      /\ \A n \in Namespaces :
            /\ \A i \in 0 .. k : Quota(n, i)' = Quota(n, i)
            /\ \A i \in {k + 1} :
                  Quota(n, i)' \in posted[n] \cup {Quota(n, k)}
  BY ApplyTrees
<1>2. /\ UNCHANGED <<request, deployed, posted, hard>>
      /\ standing' = [standing EXCEPT ![r] = "applied"]
  BY DEF Server!Apply, vars, cluster, history
<1>3. deployed[Repo] \in Nat /\ deployed[Repo] <= k
  BY DEF IInv, LoopInv, ServerType
<1>4. ServerType'
  BY <1>1, <1>2, <1>3 DEF IInv, LoopInv, ServerType, Server!Standings
<1>5. PostedInv' /\ RequestInv'
  BY <1>2 DEF IInv, LoopInv, PostedInv, RequestInv, ServerType
<1>6. \A n \in Namespaces : \A v \in posted[n] : v # InitHard
  BY BoundsAssumption DEF IInv, LoopInv, PostedInv, TypeInv, TypeOK
<1>7. TreeInv'
  <2> SUFFICES ASSUME NEW n \in Namespaces, NEW i \in 0 .. k + 1
               PROVE  /\ Quota(n, i)' \in Bases(n)
                      /\ \A j \in 0 .. i :
                            Quota(n, j)' # InitHard => Quota(n, i)' # InitHard
    BY <1>1, <1>2 DEF TreeInv, Bases
  <2>1. \A m \in 0 .. k :
           /\ Quota(n, m)' = Quota(n, m) /\ Quota(n, m) \in Bases(n)
           /\ \A j \in 0 .. m : Quota(n, j) # InitHard => Quota(n, m) # InitHard
    BY <1>1 DEF IInv, LoopInv, TreeInv
  <2>2. CASE i \in 0 .. k
    <3>1. \A j \in 0 .. i : j \in 0 .. k
      BY <1>1, <2>2
    <3>q. QED
      BY <2>1, <2>2, <3>1
  <2>3. CASE i = k + 1
    <3>1. Quota(n, i)' \in posted[n] \cup {Quota(n, k)}
      BY <1>1, <2>3
    <3>2. k \in 0 .. k /\ \A j \in 0 .. i : j \in 0 .. k \/ j = i
      BY <1>1, <2>3
    <3>q. QED
      BY <1>6, <2>1, <3>1, <3>2 DEF Bases
  <2>q. QED
    BY <1>1, <2>2, <2>3
<1>8. AppliedInv'
  BY <1>1, <1>2, <1>3 DEF IInv, LoopInv, AppliedInv
<1>q. QED
  BY <1>4, <1>5, <1>7, <1>8 DEF LoopInv

LEMMA LoopDrop ==
    ASSUME IInv, NEW S \in SUBSET Requests, Server!Drop(S),
           UNCHANGED <<vars, waitsFor>>
    PROVE  LoopInv'
<1>1. /\ UNCHANGED <<request, log, deployed, posted, hard>>
      /\ standing' = [r \in Requests |->
                        IF r \in S THEN "dropped" ELSE standing[r]]
  BY DEF Server!Drop, vars, cluster, history
<1>2. ServerType'
  BY <1>1 DEF IInv, LoopInv, ServerType, Server!Standings
<1>3. PostedInv' /\ RequestInv' /\ TreeInv' /\ AppliedInv'
  BY <1>1 DEF IInv, LoopInv, PostedInv, RequestInv, TreeInv, AppliedInv,
              Quota, Bases
<1>q. QED
  BY <1>2, <1>3 DEF LoopInv

LEMMA LoopSync ==
    ASSUME IInv, Sync
    PROVE  LoopInv'
<1>1. PICK i \in deployed[Repo] + 1 .. Len(log[Repo]) :
         deployed' = [deployed EXCEPT ![Repo] = i]
  BY DEF Sync, Server!Deploy
<1>2. UNCHANGED <<request, standing, log, posted, hard>>
  BY DEF Sync, Server!Deploy, vars, cluster, history
<1>3. deployed[Repo] \in Nat /\ Len(log[Repo]) \in Nat
  BY DEF IInv, LoopInv, ServerType
<1>4. deployed'[Repo] = i /\ i \in 0 .. Len(log[Repo]) /\ deployed[Repo] \in 0 .. i
  BY <1>1, <1>3 DEF IInv, LoopInv, ServerType
<1>5. ServerType'
  BY <1>1, <1>2, <1>4 DEF IInv, LoopInv, ServerType
<1>6. PostedInv' /\ RequestInv' /\ TreeInv'
  BY <1>2 DEF IInv, LoopInv, PostedInv, RequestInv, TreeInv, Quota, Bases
<1>7. ASSUME NEW n \in Namespaces, hard'[n] # InitHard
      PROVE  Quota(n, i) # InitHard
  BY <1>2, <1>4, <1>7 DEF IInv, LoopInv, TreeInv, AppliedInv
<1>8. AppliedInv'
  BY <1>2, <1>4, <1>7 DEF AppliedInv, Quota
<1>q. QED
  BY <1>5, <1>6, <1>8 DEF LoopInv

\* The manifest that is applied holds a quota that was POSTed.
LEMMA ManifestIsPosted ==
    ASSUME IInv, NEW n \in Namespaces, ApplyManifest(n)
    PROVE  ApplyQuota(n) /\ LoopInv'
<1> DEFINE quota == Quota(n, deployed[Repo])
<1>1. /\ rqs[n] > 0 /\ hard[n] # quota
      /\ hard' = [hard EXCEPT ![n] = quota]
      /\ UNCHANGED <<now, boots, config, lastUpdated, cached, events, notices,
                     control, threads, history, server, waitsFor>>
  BY DEF ApplyManifest, Quota
<1>2. deployed[Repo] \in 0 .. Len(log[Repo])
  BY DEF IInv, LoopInv, ServerType
<1>3. quota \in Bases(n)
  BY <1>2 DEF IInv, LoopInv, TreeInv
<1>4. quota # InitHard
  BY <1>1 DEF IInv, LoopInv, AppliedInv
<1>5. quota \in posted[n] \ {hard[n]}
  BY <1>1, <1>3, <1>4 DEF Bases
<1>6. ApplyQuota(n)
  BY <1>1, <1>5 DEF ApplyQuota
<1>7. ServerType' /\ PostedInv' /\ RequestInv' /\ TreeInv'
  BY <1>1 DEF IInv, LoopInv, ServerType, PostedInv, RequestInv, TreeInv,
              Quota, Bases, server, history
<1>8. AppliedInv'
  BY <1>1, <1>4 DEF AppliedInv, Quota, server, IInv, LoopInv, TypeInv, TypeOK
<1>q. QED
  BY <1>6, <1>7, <1>8 DEF LoopInv

-----------------------------------------------------------------------------
\* Every step of the loop is one of the controller's specification, or none.
LEMMA LoopStep ==
    ASSUME IInv, [SystemNext]_systemVars
    PROVE  [Next]_vars /\ LoopInv'
<1>1. ASSUME NEW t \in Threads, PostQuotaToServer(t)
      PROVE  [Next]_vars /\ LoopInv'
  BY <1>1, LoopPost DEF PostQuotaToServer, Next, Controller, Trigger
<1>2. ASSUME NEW t \in Threads, Answered(t) \/ Disconnected(t)
      PROVE  [Next]_vars /\ LoopInv'
  BY <1>2, LoopQuiet DEF Answered, Disconnected, Answer, cluster, history,
                         Next, Controller, Trigger
<1>3. CASE ControllerStep
  <2>1. UNCHANGED <<server, hard, posted>>
    BY <1>3 DEF ControllerStep, AllowScale, ReadQuota, CheckCooldown,
                PostNodes, WatchEvent, StartReconcile, Reconcile, cluster,
                history
  <2>q. QED
    BY <1>3, <2>1, LoopQuiet DEF ControllerStep, Next, Controller, Trigger
<1>4. CASE RestartController
  BY <1>4, LoopQuiet DEF RestartController, Restart, history, Next, Cluster
<1>5. CASE ClusterStep
  <2>1. UNCHANGED <<server, hard, posted>>
    BY <1>5 DEF ClusterStep, RaiseEvent, RepeatEvent, ExpireEvent, CacheSync,
                QuotaChanges, DeleteNsq, Tick, cluster, history
  <2>q. QED
    BY <1>5, <2>1, LoopQuiet DEF ClusterStep, Next, Cluster
<1>6. ASSUME NEW r \in Requests, Serve(r) PROVE [Next]_vars /\ LoopInv'
  BY <1>6, LoopApply, LoopDrop DEF Serve
<1>7. CASE RestartServer
  BY <1>7, LoopDrop DEF RestartServer, Waiting
<1>8. CASE Sync
  BY <1>8, LoopSync DEF Sync
<1>9. ASSUME NEW n \in Namespaces, ApplyManifest(n)
      PROVE  [Next]_vars /\ LoopInv'
  BY <1>9, ManifestIsPosted DEF Next, Cluster
<1>10. CASE UNCHANGED systemVars
  BY <1>10, LoopQuiet DEF systemVars, vars, cluster, history
<1>q. QED
  BY <1>1, <1>2, <1>3, <1>4, <1>5, <1>6, <1>7, <1>8, <1>9, <1>10
  DEF SystemNext

LEMMA LoopNext == IInv /\ [SystemNext]_systemVars => [Next]_vars /\ IInv'
BY LoopStep, TypeNext, StepNext DEF IInv

\* The loop gives the controller the environment its specification assumes:
\* the server, git and Argo CD change a quota only to a value POSTed for it.
THEOREM LoopImplementsController == SystemSpec => ImplementsController
BY LoopInit, LoopNext, PTL DEF SystemSpec, ImplementsController, Spec

\* Whatever is dropped, delayed or overtaken on the way, a quota grows by at
\* most one step a minute, and one for every restart of the controller.
THEOREM LoopGrowth == SystemSpec => []GrowthBounded
BY LoopImplementsController, ThrottledGrowth, PTL DEF ImplementsController

\* "Quota increases in 0.5 CPU / 512Mi steps" (README.md:77) holds in the loop:
\* however late and in whatever order the quotas POSTed are committed and
\* applied, each is one step above the initial one or another one POSTed.
THEOREM LoopStepwise == SystemSpec => []StepByStep
BY LoopImplementsController, StepwiseGrowth, PTL DEF ImplementsController
=============================================================================
