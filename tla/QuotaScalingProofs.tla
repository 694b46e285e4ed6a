------------------------- MODULE QuotaScalingProofs -------------------------
(***************************************************************************)
(* What the rounds keep of the pods admitted already, for any quotas, pods *)
(* and steps.                                                              *)
(***************************************************************************)
EXTENDS QuotaScaling, TLAPS

\* Each key of the quota is a natural number, and the quota has these keys.
HardType == DOMAIN hard \subseteq Keys /\ hard \in [DOMAIN hard -> Nat]

\* The keys a round does not raise admit the pods that run.
OthersHold == \A k \in DOMAIN hard \ {"limits.cpu"} : Used(k) <= hard[k]

\* The limits are among the keys of the quota.
Limited == "limits.cpu" \in DOMAIN hard

-----------------------------------------------------------------------------
LEMMA Products ==
    ASSUME NEW n \in Nat, NEW t \in Nat
    PROVE  /\ n * t \in Nat
           /\ (n + 1) * t = n * t + t
           /\ n > 0 => (n - 1) * t <= n * t
OBVIOUS

LEMMA HardTyped == TypeOK <=> TypeOK /\ HardType
BY DEF TypeOK, HardType

LEMMA TakesType == TypeOK => \A k : Takes(k) \in Nat
BY SizesAssumption DEF TypeOK, Takes

LEMMA UsedType == TypeOK => \A k : Used(k) \in Nat
BY TakesType, Products, RoundsAssumption DEF TypeOK, Used

\* A round keeps the keys there are and lowers none of them.
LEMMA ScaleUpRaises ==
    ASSUME TypeOK, ScaleUp
    PROVE  /\ \E D \in SUBSET Keys : hard' \in [D -> Nat]
           /\ DOMAIN hard' = DOMAIN hard \cup {"limits.cpu"}
           /\ \A k \in DOMAIN hard' : hard'[k] \in Nat
           /\ \A k \in DOMAIN hard : hard'[k] >= hard[k]
           /\ \A k \in DOMAIN hard \ {"limits.cpu"} : hard'[k] = hard[k]
<1>. DEFINE D == DOMAIN hard \cup {"limits.cpu"}
<1>1. HardType
  BY HardTyped
<1>2. Has("limits.cpu") \in Nat
  BY <1>1 DEF Has, HardType
<1>3. Step \in Nat
  BY RoundsAssumption
<1>4. D \in SUBSET Keys
  BY <1>1 DEF HardType, Keys
<1>5. hard' = [k \in D |-> IF k = "limits.cpu" THEN Has(k) + Step ELSE hard[k]]
  BY DEF ScaleUp
<1>. HIDE DEF D
<1>6. ASSUME NEW k \in D
      PROVE  /\ hard'[k] \in Nat
             /\ k \in DOMAIN hard => hard'[k] >= hard[k]
             /\ k # "limits.cpu" => hard'[k] = hard[k]
  <2>1. k \in DOMAIN hard \/ k = "limits.cpu"
    BY DEF D
  <2>2. k \in DOMAIN hard => hard[k] \in Nat /\ Has(k) = hard[k]
    BY <1>1 DEF HardType, Has
  <2>3. hard'[k] = IF k = "limits.cpu" THEN Has(k) + Step ELSE hard[k]
    BY <1>5
  <2>. QED
    BY <1>2, <1>3, <2>1, <2>2, <2>3
<1>7. DOMAIN hard' = D /\ hard' \in [D -> Nat]
  BY <1>5, <1>6
<1>8. \E E \in SUBSET Keys : hard' \in [E -> Nat]
  BY <1>4, <1>7
<1>. QED
  BY <1>6, <1>7, <1>8 DEF D

-----------------------------------------------------------------------------
LEMMA InitTypes == Init => TypeOK
<1>. SUFFICES ASSUME Init PROVE TypeOK
  OBVIOUS
<1>1. \E D \in SUBSET Keys : hard \in [D -> Nat]
  BY QuotasAssumption DEF Init
<1>2. 0 \in 0 .. MaxReplicas
  BY RoundsAssumption
<1>. QED
  BY <1>1, <1>2 DEF Init, TypeOK

\* The quota, the pods that run and the size of a pod.
LEMMA TypeStep == TypeOK /\ [Next]_vars => TypeOK'
<1>. SUFFICES ASSUME TypeOK, [Next]_vars PROVE TypeOK'
  OBVIOUS
<1>1. CASE ScaleWorkload \/ DenyPod
  BY <1>1 DEF ScaleWorkload, DenyPod, TypeOK
<1>2. CASE CreatePod \/ DeletePod
  <2>1. running' \in 0 .. MaxReplicas
    BY <1>2, RoundsAssumption DEF CreatePod, DeletePod, TypeOK
  <2>2. UNCHANGED <<hard, pod, desired, event>> /\ denied' \in BOOLEAN
    BY <1>2 DEF CreatePod, DeletePod, TypeOK
  <2>. QED
    BY <2>1, <2>2 DEF TypeOK
<1>3. CASE HandleEvent \/ Reconcile
  <2>1. \E D \in SUBSET Keys : hard' \in [D -> Nat]
    BY <1>3, ScaleUpRaises DEF HandleEvent, Reconcile
  <2>. QED
    BY <1>3, <2>1 DEF HandleEvent, Reconcile, TypeOK
<1>4. CASE DropEvent \/ UNCHANGED vars
  BY <1>4 DEF DropEvent, vars, TypeOK
<1>. QED
  BY <1>1, <1>2, <1>3, <1>4 DEF Next, Workload, Controller

LEMMA TypeInvariant == Spec => []TypeOK
BY InitTypes, TypeStep, PTL DEF Spec

-----------------------------------------------------------------------------
\* A step keeps the amounts in use within a key that it finds them within,
\* limits of a quota that has none yet excepted.
LEMMA KeyKept ==
    ASSUME TypeOK, TypeOK', [Next]_vars,
           NEW k \in DOMAIN hard', k \in DOMAIN hard => Used(k) <= hard[k],
           k # "limits.cpu" \/ Limited
    PROVE  Used(k)' <= hard'[k]
<1>1. CASE CreatePod
  <2>1. hard' = hard /\ Takes(k)' = Takes(k) /\ running' = running + 1
    BY <1>1 DEF CreatePod, Takes
  <2>2. Used(k) + Takes(k) <= hard[k]
    BY <1>1, <2>1 DEF CreatePod, Admits
  <2>3. running \in Nat /\ Takes(k) \in Nat
    BY TakesType, RoundsAssumption DEF TypeOK
  <2>4. (running + 1) * Takes(k) = running * Takes(k) + Takes(k)
    BY <2>3, Products
  <2>. QED
    BY <2>1, <2>2, <2>4 DEF Used
<1>2. CASE DeletePod
  <2>1. hard' = hard /\ Takes(k)' = Takes(k) /\ running' = running - 1
    BY <1>2 DEF DeletePod, Takes
  <2>2. running \in Nat /\ running > 0 /\ Takes(k) \in Nat
    BY <1>2, TakesType, RoundsAssumption DEF TypeOK, DeletePod
  <2>3. (running - 1) * Takes(k) <= running * Takes(k)
    BY <2>2, Products
  <2>4. running * Takes(k) <= hard[k]
    BY <2>1 DEF Used
  <2>5. running * Takes(k) \in Nat /\ (running - 1) * Takes(k) \in Nat
    BY <2>2, Products
  <2>6. hard[k] \in Nat
    BY <2>1, HardTyped DEF HardType
  <2>. QED
    BY <2>1, <2>3, <2>4, <2>5, <2>6 DEF Used
<1>3. CASE HandleEvent \/ Reconcile
  <2>1. ScaleUp /\ UNCHANGED <<pod, running>>
    BY <1>3 DEF HandleEvent, Reconcile
  <2>2. Used(k)' = Used(k)
    BY <2>1 DEF Used, Takes
  <2>3. k \in DOMAIN hard /\ hard'[k] >= hard[k]
    BY <2>1, ScaleUpRaises DEF Limited
  <2>4. Used(k) \in Nat /\ hard[k] \in Nat /\ hard'[k] \in Nat
    BY <2>1, <2>3, UsedType, HardTyped, ScaleUpRaises DEF HardType
  <2>. QED
    BY <2>2, <2>3, <2>4
<1>4. CASE ScaleWorkload \/ DenyPod \/ DropEvent \/ UNCHANGED vars
  <2>1. UNCHANGED <<hard, pod, running>>
    BY <1>4 DEF ScaleWorkload, DenyPod, DropEvent, vars
  <2>. QED
    BY <2>1 DEF Used, Takes
<1>. QED
  BY <1>1, <1>2, <1>3, <1>4 DEF Next, Workload, Controller

\* No step takes a key away.
LEMMA KeysKept ==
    ASSUME TypeOK, [Next]_vars
    PROVE  /\ DOMAIN hard \subseteq DOMAIN hard'
           /\ DOMAIN hard' \subseteq DOMAIN hard \cup {"limits.cpu"}
<1>1. CASE HandleEvent \/ Reconcile
  BY <1>1, ScaleUpRaises DEF HandleEvent, Reconcile
<1>2. CASE Workload \/ DropEvent \/ UNCHANGED vars
  BY <1>2 DEF Workload, ScaleWorkload, CreatePod, DenyPod, DeletePod,
              DropEvent, vars
<1>. QED
  BY <1>1, <1>2 DEF Next, Controller

-----------------------------------------------------------------------------
\* The quota and the replicas stay in their types, whatever rounds are made.
THEOREM RoundTypes == Spec => []TypeOK
BY TypeInvariant

\* TriggerScaleUpResourceQuota (namespacequota_controller.go:781) raises the
\* limits of a quota that has limits, and nothing else: however many rounds
\* are made and whatever is deleted meanwhile, the pods that run stay within
\* every key.  That there are limits to start with is necessary: a quota
\* without is given limits of a single step, whatever runs under it.
THEOREM RunningStaysAdmitted == Spec /\ Limited => []RunningWithinQuota
<1>. DEFINE Inv == RunningWithinQuota /\ Limited
<1>1. Init /\ Limited => Inv
  <2>. SUFFICES ASSUME Init, NEW k \in DOMAIN hard PROVE Used(k) <= hard[k]
    BY DEF RunningWithinQuota
  <2>1. Used(k) = 0
    <3>1. Takes(k) \in Nat /\ running = 0
      BY InitTypes, TakesType DEF Init
    <3>. QED
      BY <3>1 DEF Used
  <2>2. hard[k] \in Nat
    BY InitTypes, HardTyped DEF HardType
  <2>. QED
    BY <2>1, <2>2
<1>2. TypeOK /\ TypeOK' /\ Inv /\ [Next]_vars => Inv'
  <2>. SUFFICES ASSUME TypeOK, TypeOK', Inv, [Next]_vars PROVE Inv'
    OBVIOUS
  <2>1. Limited'
    BY KeysKept DEF Limited
  <2>2. ASSUME NEW k \in DOMAIN hard' PROVE Used(k)' <= hard'[k]
    BY KeyKept DEF RunningWithinQuota
  <2>. QED
    BY <2>1, <2>2 DEF RunningWithinQuota
<1>3. Inv => RunningWithinQuota
  OBVIOUS
<1>. HIDE DEF Inv
<1>. QED
  BY <1>1, <1>2, <1>3, TypeInvariant, PTL DEF Spec

\* Of a quota without limits, the keys it was made with still admit what runs:
\* the rounds take admission back by the limits they add alone
\* (namespacequota_controller.go:781).
THEOREM OtherKeysStay == Spec => []OthersHold
<1>1. Init => OthersHold
  <2>. SUFFICES ASSUME Init, NEW k \in DOMAIN hard PROVE Used(k) <= hard[k]
    BY DEF OthersHold
  <2>1. Takes(k) \in Nat /\ running = 0 /\ hard[k] \in Nat
    BY InitTypes, TakesType, HardTyped DEF Init, HardType
  <2>. QED
    BY <2>1 DEF Used
<1>2. TypeOK /\ TypeOK' /\ OthersHold /\ [Next]_vars => OthersHold'
  <2>. SUFFICES ASSUME TypeOK, TypeOK', OthersHold, [Next]_vars,
                       NEW k \in DOMAIN hard', k # "limits.cpu"
                PROVE  Used(k)' <= hard'[k]
    BY DEF OthersHold
  <2>1. k \in DOMAIN hard
    BY KeysKept
  <2>. QED
    BY <2>1, KeyKept DEF OthersHold
<1>. QED
  BY <1>1, <1>2, TypeInvariant, PTL DEF Spec
=============================================================================
