-------------------------- MODULE ClusterFreeProofs --------------------------
(***************************************************************************)
(* What a verdict of the capacity check is worth, and what it is reached   *)
(* from, for any number of nodes, pods, resources and changes of the       *)
(* caches.                                                                 *)
(***************************************************************************)
EXTENDS ClusterFree, FiniteSetTheorems, TLAPS

(***************************************************************************)
(* Sums over finite sets.  The induction they need is the choice of a      *)
(* smallest set for which a claim fails.                                   *)
(***************************************************************************)
LEMMA MinimalSubset ==
    ASSUME NEW S, IsFiniteSet(S), NEW X \in SUBSET (SUBSET S), X # {}
    PROVE  \E T \in X : IsFiniteSet(T) /\ \A U \in X : U \subseteq T => U = T
<1>1. IsWellFoundedOn(StrictSubsetOrdering(S), FiniteSubsetsOf(S))
  BY FS_StrictSubsetOrderingWellFounded
<1>2. X \subseteq FiniteSubsetsOf(S)
  BY FS_Subset DEF FiniteSubsetsOf
<1>3. \E T \in X : \A U \in X : ~ (<<U, T>> \in StrictSubsetOrdering(S))
  BY <1>1, <1>2, WFMin
<1>. QED
  BY <1>3, FS_Subset DEF StrictSubsetOrdering

Some(T) == CHOOSE x \in T : TRUE
IsPartial(f, S, g) ==
    g = [T \in SUBSET S |-> IF T = {} THEN 0
                            ELSE f[Some(T)] + g[T \ {Some(T)}]]
Partial(f, S) == CHOOSE g : IsPartial(f, S, g)

LEMMA SumPartial ==
    ASSUME NEW f, NEW S
    PROVE  SumFunctionOnSet(f, S) = Partial(f, S)[S]
BY DEF SumFunctionOnSet, FoldFunctionOnSet, MapThenFoldSet, Partial,
       IsPartial, Some

LEMMA PartialAgree ==
    ASSUME NEW f, NEW S, NEW U \in SUBSET S, NEW g, NEW h,
           IsPartial(f, S, g), IsPartial(f, U, h), IsFiniteSet(U)
    PROVE  \A T \in SUBSET U : g[T] = h[T]
<1>. DEFINE X == {T \in SUBSET U : g[T] # h[T]}
<1>. SUFFICES ASSUME X # {} PROVE FALSE
  OBVIOUS
<1>1. X \in SUBSET (SUBSET U)
  OBVIOUS
<1>. HIDE DEF X
<1>2. PICK T \in X : IsFiniteSet(T) /\ \A V \in X : V \subseteq T => V = T
  BY <1>1, MinimalSubset
<1>3. T \in SUBSET U /\ g[T] # h[T]
  BY DEF X
<1>4. CASE T = {}
  BY <1>3, <1>4 DEF IsPartial
<1>5. CASE T # {}
  <2>. DEFINE V == T \ {Some(T)}
  <2>1. Some(T) \in T
    BY <1>5 DEF Some
  <2>2. V \in SUBSET U /\ V \in SUBSET S /\ V # T
    BY <1>3, <2>1
  <2>3. g[V] = h[V]
    BY <1>2, <2>1, <2>2 DEF X
  <2>4. g[T] = f[Some(T)] + g[V] /\ h[T] = f[Some(T)] + h[V]
    BY <1>3, <1>5 DEF IsPartial
  <2>. QED
    BY <1>3, <2>3, <2>4
<1>. QED
  BY <1>4, <1>5

LEMMA PartialExists ==
    ASSUME NEW f, NEW S, IsFiniteSet(S)
    PROVE  IsPartial(f, S, Partial(f, S))
<1>. SUFFICES \E g : IsPartial(f, S, g)
  BY DEF Partial
<1>. DEFINE X == {T \in SUBSET S : ~ \E g : IsPartial(f, T, g)}
<1>. SUFFICES ASSUME X # {} PROVE FALSE
  OBVIOUS
<1>1. X \in SUBSET (SUBSET S)
  OBVIOUS
<1>. HIDE DEF X
<1>2. PICK T \in X : IsFiniteSet(T) /\ \A V \in X : V \subseteq T => V = T
  BY <1>1, MinimalSubset
<1>3. T \in SUBSET S /\ IsFiniteSet(T) /\ ~ \E g : IsPartial(f, T, g)
  BY <1>1, <1>2 DEF X
<1>4. \A V \in SUBSET T : V # T => IsPartial(f, V, Partial(f, V))
  BY <1>2, <1>3 DEF X, Partial
<1>. DEFINE val(V) == IF V = T THEN IF T = {} THEN 0 ELSE f[Some(T)] + Partial(f, T \ {Some(T)})[T \ {Some(T)}]
                      ELSE Partial(f, V)[V]
            g == [V \in SUBSET T |-> val(V)]
<1>5. ASSUME NEW V \in SUBSET T
      PROVE  g[V] = IF V = {} THEN 0 ELSE f[Some(V)] + g[V \ {Some(V)}]
  <2>1. CASE V = {}
    <3>1. CASE V = T
      BY <2>1, <3>1
    <3>2. CASE V # T
      BY <1>4, <2>1, <3>2 DEF IsPartial
    <3>. QED
      BY <3>1, <3>2
  <2>2. CASE V # {}
    <3>. DEFINE W == V \ {Some(V)}
    <3>1. Some(V) \in V
      BY <2>2 DEF Some
    <3>2. W \in SUBSET T /\ W # T /\ W \in SUBSET V
      BY <3>1
    <3>3. g[W] = Partial(f, W)[W]
      BY <3>2
    <3>4. CASE V = T
      BY <2>2, <3>3, <3>4
    <3>5. CASE V # T
      <4>1. IsPartial(f, V, Partial(f, V)) /\ IsPartial(f, W, Partial(f, W))
        BY <1>4, <3>2, <3>5
      <4>2. IsFiniteSet(W)
        BY <1>3, <3>2, FS_Subset
      <4>3. Partial(f, V)[W] = Partial(f, W)[W]
        BY <3>2, <4>1, <4>2, PartialAgree
      <4>4. Partial(f, V)[V] = f[Some(V)] + Partial(f, V)[W]
        BY <2>2, <4>1 DEF IsPartial
      <4>. QED
        BY <2>2, <3>3, <3>5, <4>3, <4>4
    <3>. QED
      BY <3>4, <3>5
  <2>. QED
    BY <2>1, <2>2
<1>. HIDE DEF val
<1>6. IsPartial(f, T, g)
  BY <1>5 DEF IsPartial
<1>. QED
  BY <1>3, <1>6

LEMMA SumEmpty ==
    ASSUME NEW f
    PROVE  SumFunctionOnSet(f, {}) = 0
<1>1. IsPartial(f, {}, Partial(f, {}))
  BY PartialExists, FS_EmptySet
<1>2. Partial(f, {})[{}] = 0
  BY <1>1 DEF IsPartial
<1>. QED
  BY <1>2, SumPartial

LEMMA SumSome ==
    ASSUME NEW f, NEW S, IsFiniteSet(S), S # {}
    PROVE  SumFunctionOnSet(f, S)
              = f[Some(S)] + SumFunctionOnSet(f, S \ {Some(S)})
<1>. DEFINE U == S \ {Some(S)}
<1>1. U \in SUBSET S /\ IsFiniteSet(U)
  BY FS_Subset
<1>2. IsPartial(f, S, Partial(f, S)) /\ IsPartial(f, U, Partial(f, U))
  BY <1>1, PartialExists
<1>3. Partial(f, S)[U] = Partial(f, U)[U]
  BY <1>1, <1>2, PartialAgree
<1>4. Partial(f, S)[S] = f[Some(S)] + Partial(f, S)[U]
  BY <1>2 DEF IsPartial
<1>. QED
  BY <1>3, <1>4, SumPartial

LEMMA SumNat ==
    ASSUME NEW f, NEW S, IsFiniteSet(S), \A x \in S : f[x] \in Nat
    PROVE  SumFunctionOnSet(f, S) \in Nat
<1>. DEFINE X == {T \in SUBSET S : SumFunctionOnSet(f, T) \notin Nat}
<1>. SUFFICES ASSUME X # {} PROVE FALSE
  OBVIOUS
<1>1. X \in SUBSET (SUBSET S)
  OBVIOUS
<1>. HIDE DEF X
<1>2. PICK T \in X : IsFiniteSet(T) /\ \A V \in X : V \subseteq T => V = T
  BY <1>1, MinimalSubset
<1>3. T \in SUBSET S /\ IsFiniteSet(T) /\ SumFunctionOnSet(f, T) \notin Nat
  BY <1>1, <1>2 DEF X
<1>4. T # {}
  BY <1>3, SumEmpty
<1>5. Some(T) \in T /\ T \ {Some(T)} \in SUBSET S
  BY <1>3, <1>4 DEF Some
<1>6. SumFunctionOnSet(f, T \ {Some(T)}) \in Nat
  BY <1>2, <1>5 DEF X
<1>. QED
  BY <1>3, <1>4, <1>5, <1>6, SumSome

LEMMA SumRemove ==
    ASSUME NEW f, NEW S, IsFiniteSet(S), \A x \in S : f[x] \in Nat
    PROVE  \A x \in S :
              SumFunctionOnSet(f, S) = f[x] + SumFunctionOnSet(f, S \ {x})
<1>. DEFINE Holds(T) == \A x \in T : SumFunctionOnSet(f, T)
                                        = f[x] + SumFunctionOnSet(f, T \ {x})
            X == {T \in SUBSET S : ~ Holds(T)}
<1>. SUFFICES ASSUME X # {} PROVE FALSE
  OBVIOUS
<1>1. X \in SUBSET (SUBSET S)
  OBVIOUS
<1>. HIDE DEF X
<1>2. PICK T \in X : IsFiniteSet(T) /\ \A V \in X : V \subseteq T => V = T
  BY <1>1, MinimalSubset
<1>3. T \in SUBSET S /\ IsFiniteSet(T) /\ ~ Holds(T)
  BY <1>1, <1>2 DEF X
<1>4. PICK x \in T : SumFunctionOnSet(f, T) # f[x] + SumFunctionOnSet(f, T \ {x})
  BY <1>3
<1>. DEFINE c == Some(T)
<1>5. /\ c \in T
      /\ SumFunctionOnSet(f, T) = f[c] + SumFunctionOnSet(f, T \ {c})
  BY <1>3, <1>4, SumSome DEF Some
<1>. HIDE DEF c
<1>6. x # c
  BY <1>4, <1>5
<1>7. Holds(T \ {c}) /\ Holds(T \ {x})
  BY <1>2, <1>3, <1>4, <1>5 DEF X
<1>8. SumFunctionOnSet(f, T \ {c}) = f[x] + SumFunctionOnSet(f, (T \ {c}) \ {x})
  BY <1>4, <1>6, <1>7
<1>9. SumFunctionOnSet(f, T \ {x}) = f[c] + SumFunctionOnSet(f, (T \ {c}) \ {x})
  <2>1. (T \ {c}) \ {x} = (T \ {x}) \ {c}
    OBVIOUS
  <2>. QED
    BY <1>5, <1>6, <1>7, <2>1
<1>10. f[x] \in Nat /\ f[c] \in Nat
       /\ SumFunctionOnSet(f, (T \ {c}) \ {x}) \in Nat
  <2>1. IsFiniteSet((T \ {c}) \ {x})
    BY <1>3, FS_RemoveElement
  <2>. QED
    BY <1>3, <1>4, <1>5, <2>1, SumNat
<1>. HIDE DEF Holds
<1>11. SumFunctionOnSet(f, T) = f[x] + SumFunctionOnSet(f, T \ {x})
  BY <1>5, <1>8, <1>9, <1>10
<1>. QED
  BY <1>4, <1>11

LEMMA SumAdd ==
    ASSUME NEW f, NEW S, IsFiniteSet(S), NEW x, x \notin S,
           \A y \in S \cup {x} : f[y] \in Nat
    PROVE  SumFunctionOnSet(f, S \cup {x}) = f[x] + SumFunctionOnSet(f, S)
<1>1. IsFiniteSet(S \cup {x}) /\ (S \cup {x}) \ {x} = S
  BY FS_AddElement
<1>. QED
  BY <1>1, SumRemove

\* More elements and larger amounts make larger sums.
LEMMA SumMonotonic ==
    ASSUME NEW f, NEW g, NEW S, IsFiniteSet(S), NEW T \in SUBSET S,
           \A x \in S : f[x] \in Nat /\ g[x] \in Nat /\ f[x] <= g[x]
    PROVE  SumFunctionOnSet(f, T) <= SumFunctionOnSet(g, S)
<1>. DEFINE Holds(U) == \A V \in SUBSET U :
                           SumFunctionOnSet(f, V) <= SumFunctionOnSet(g, U)
            X == {U \in SUBSET S : ~ Holds(U)}
<1>. SUFFICES ASSUME X # {} PROVE FALSE
  OBVIOUS
<1>1. X \in SUBSET (SUBSET S)
  OBVIOUS
<1>. HIDE DEF X
<1>2. PICK U \in X : IsFiniteSet(U) /\ \A V \in X : V \subseteq U => V = U
  BY <1>1, MinimalSubset
<1>3. U \in SUBSET S /\ ~ Holds(U)
  BY DEF X
<1>4. PICK V \in SUBSET U :
         ~ (SumFunctionOnSet(f, V) <= SumFunctionOnSet(g, U))
  BY <1>3
<1>5. U # {}
  BY <1>4, SumEmpty
<1>6. PICK x \in U : TRUE
  BY <1>5
<1>7. SumFunctionOnSet(g, U) = g[x] + SumFunctionOnSet(g, U \ {x})
  BY <1>2, <1>3, SumRemove
<1>8. Holds(U \ {x})
  BY <1>2, <1>3, <1>6 DEF X
<1>9. IsFiniteSet(V) /\ IsFiniteSet(U \ {x}) /\ IsFiniteSet(V \ {x})
  BY <1>2, <1>4, FS_Subset, FS_RemoveElement
<1>10. /\ f[x] \in Nat /\ g[x] \in Nat /\ f[x] <= g[x]
       /\ SumFunctionOnSet(f, V \ {x}) \in Nat
       /\ SumFunctionOnSet(g, U \ {x}) \in Nat
  BY <1>3, <1>4, <1>6, <1>9, SumNat
<1>11. SumFunctionOnSet(f, V \ {x}) <= SumFunctionOnSet(g, U \ {x})
  BY <1>8
<1>12. CASE x \in V
  <2>1. SumFunctionOnSet(f, V) = f[x] + SumFunctionOnSet(f, V \ {x})
    BY <1>3, <1>9, <1>12, SumRemove
  <2>. QED
    BY <1>4, <1>7, <1>10, <1>11, <2>1
<1>13. CASE x \notin V
  <2>1. SumFunctionOnSet(f, V) = SumFunctionOnSet(f, V \ {x})
    <3>1. V = V \ {x}
      BY <1>13
    <3>. QED
      BY <3>1
  <2>. QED
    BY <1>4, <1>7, <1>10, <1>11, <2>1
<1>. QED
  BY <1>12, <1>13

-----------------------------------------------------------------------------
(***************************************************************************)
(* The inductive invariant of a positive verdict                           *)
(***************************************************************************)
\* A maximum is nothing, or at most what is free on some worker; it is kept
\* only once the used amounts are final.
Attained ==
    /\ pc \in {"listNodes", "listPods", "count"} => maxNode = Zero
    /\ \A r \in Resources :
          maxNode[r] = 0 \/ \E n \in DOMAIN workers : maxNode[r] <= Free(n)[r]

\* The sum is at least the requests of every pod it has gone over.
Summed ==
    /\ pc = "sum" => /\ todo \subseteq Pods
                     /\ \A p \in Ours \ todo :
                           AtMost(Counted(listed[p]), request)
    /\ pc = "compare" => \A p \in Ours : AtMost(Counted(listed[p]), request)

\* A positive verdict comes from the comparison.
Compared ==
    /\ verdict = "fits" =>
          /\ pc = "over"
          /\ AtMost(request, maxNode)
          /\ \A p \in Ours : AtMost(Counted(listed[p]), request)
    /\ pc = "over" => verdict # "none"

IInv == TypeOK /\ Attained /\ Summed /\ Compared

-----------------------------------------------------------------------------
LEMMA Amounts0 == Zero \in Amounts
BY DEF Zero, Amounts

LEMMA PlusType ==
    ASSUME NEW a \in Amounts, NEW b \in Amounts
    PROVE  /\ Plus(a, b) \in Amounts
           /\ AtMost(a, Plus(a, b)) /\ AtMost(b, Plus(a, b))
BY DEF Plus, Amounts, AtMost

LEMMA CountedType ==
    ASSUME NEW s \in PodStates
    PROVE  Counted(s) \in Amounts
<1>1. s.init \in Amounts /\ s.main \in Amounts
  BY StatesAssumption
<1>. QED
  BY <1>1, PlusType DEF Counted

LEMMA FreeType ==
    ASSUME TypeOK, NEW n \in DOMAIN workers
    PROVE  Free(n) \in Amounts
<1>1. workers[n] \in Amounts /\ used[n] \in Amounts
  BY DEF TypeOK
<1>. QED
  BY <1>1 DEF Free, Amounts

LEMMA InitInv == Init => IInv
<1>. SUFFICES ASSUME Init PROVE IInv
  OBVIOUS
<1>1. TypeOK
  <2>1. workers \in [{} -> Amounts] /\ {} \in SUBSET Nodes
    BY DEF Init
  <2>. QED
    BY <2>1, Amounts0, ChangesAssumption DEF Init, TypeOK
<1>2. Attained
  BY DEF Init, Attained, Zero
<1>. QED
  BY <1>1, <1>2 DEF Init, Summed, Compared, IInv

-----------------------------------------------------------------------------
LEMMA TypeStep == TypeOK /\ [Next]_vars => TypeOK'
<1>. SUFFICES ASSUME TypeOK, [Next]_vars PROVE TypeOK'
  OBVIOUS
<1>1. CASE ListNodes
  <2>1. CASE workers' = [n \in {m \in Nodes : IsWorker(nodes[m])} |->
                            nodes[n].allocatable]
    <3>. DEFINE S == {m \in Nodes : IsWorker(nodes[m])}
    <3>1. \A n \in S : nodes[n].allocatable \in Amounts
      BY StatesAssumption DEF TypeOK
    <3>2. S \in SUBSET Nodes /\ workers' \in [S -> Amounts]
      BY <2>1, <3>1
    <3>. HIDE DEF S
    <3>. QED
      BY <1>1, <3>2 DEF ListNodes, TypeOK, caches
  <2>2. CASE UNCHANGED workers
    BY <1>1, <2>2 DEF ListNodes, TypeOK, caches
  <2>. QED
    BY <1>1, <2>1, <2>2 DEF ListNodes
<1>2. CASE ListPods \/ ListOurs
  BY <1>2 DEF ListPods, ListOurs, TypeOK, caches
<1>3. ASSUME NEW p \in Pods, CountPod(p)
      PROVE  TypeOK'
  <2>1. Counted(listed[p]) \in Amounts
    BY CountedType DEF TypeOK
  <2>2. \A n \in Nodes : Plus(used[n], Counted(listed[p])) \in Amounts
    BY <2>1, PlusType DEF TypeOK
  <2>3. used' \in [Nodes -> Amounts]
    BY <1>3, <2>2 DEF CountPod, TypeOK
  <2>. QED
    BY <1>3, <2>3 DEF CountPod, TypeOK, caches
<1>4. CASE CountEnds \/ FreeEnds \/ SumEnds
  BY <1>4 DEF CountEnds, FreeEnds, SumEnds, TypeOK, caches
<1>5. ASSUME NEW n \in Nodes, FreeNode(n)
      PROVE  TypeOK'
  <2>. DEFINE m == [r \in Resources |->
                       IF Free(n)[r] > maxNode[r] THEN Free(n)[r]
                                                  ELSE maxNode[r]]
  <2>1. Free(n) \in Amounts
    BY <1>5, FreeType DEF FreeNode, TypeOK
  <2>2. m \in Amounts
    BY <2>1 DEF TypeOK, Amounts
  <2>. HIDE DEF m
  <2>3. maxNode' = m
    BY <1>5 DEF FreeNode, m
  <2>. QED
    BY <1>5, <2>2, <2>3 DEF FreeNode, TypeOK, caches
<1>6. ASSUME NEW p \in Pods, SumPod(p)
      PROVE  TypeOK'
  <2>1. Counted(listed[p]) \in Amounts
    BY CountedType DEF TypeOK
  <2>2. request' \in Amounts
    BY <1>6, <2>1, PlusType DEF SumPod, TypeOK
  <2>. QED
    BY <1>6, <2>2 DEF SumPod, TypeOK, caches
<1>7. CASE Compare
  BY <1>7 DEF Compare, TypeOK, caches
<1>8. ASSUME NEW n \in Nodes, NodeChanges(n)
      PROVE  TypeOK'
  BY <1>8, ChangesAssumption DEF NodeChanges, Change, TypeOK
<1>9. ASSUME NEW p \in Pods, PodChanges(p)
      PROVE  TypeOK'
  BY <1>9, ChangesAssumption DEF PodChanges, Change, TypeOK
<1>10. CASE UNCHANGED vars
  BY <1>10 DEF vars, caches, TypeOK
<1>. QED
  BY <1>1, <1>2, <1>3, <1>4, <1>5, <1>6, <1>7, <1>8, <1>9, <1>10
  DEF Next, Check

-----------------------------------------------------------------------------
\* Steps that leave what the three parts speak of alone.
LEMMA Elsewhere ==
    ASSUME IInv,
           UNCHANGED <<workers, listed, todo, used, maxNode, request>>,
           \/ UNCHANGED <<pc, verdict>>
           \/ verdict' # "fits" /\ verdict' # "none" /\ pc' = "over"
    PROVE  Attained' /\ Summed' /\ Compared'
BY DEF IInv, Attained, Free, Summed, Ours, Compared

LEMMA InvStep ==
    ASSUME IInv, TypeOK', [Next]_vars
    PROVE  Attained' /\ Summed' /\ Compared'
<1>1. CASE ListNodes
  <2>1. maxNode' = Zero /\ pc' \in {"listPods", "over"}
    BY <1>1 DEF ListNodes, IInv, Attained
  <2>2. verdict' # "fits" /\ (pc' = "over" => verdict' # "none")
    BY <1>1 DEF ListNodes, IInv, Compared
  <2>. QED
    BY <2>1, <2>2 DEF Attained, Summed, Compared, Zero
<1>2. CASE ListPods
  <2>1. maxNode' = Zero /\ pc' \in {"count", "over"}
    BY <1>2 DEF ListPods, IInv, Attained
  <2>2. verdict' # "fits" /\ (pc' = "over" => verdict' # "none")
    BY <1>2 DEF ListPods, IInv, Compared
  <2>. QED
    BY <2>1, <2>2 DEF Attained, Summed, Compared, Zero
<1>3. ASSUME NEW p \in Pods, CountPod(p)
      PROVE  Attained' /\ Summed' /\ Compared'
  <2>1. maxNode' = Zero /\ pc' = "count"
    BY <1>3 DEF CountPod, IInv, Attained
  <2>2. verdict' # "fits"
    BY <1>3 DEF CountPod, IInv, Compared
  <2>. QED
    BY <2>1, <2>2 DEF Attained, Summed, Compared, Zero
<1>4. CASE CountEnds \/ FreeEnds
  <2>1. /\ pc' \in {"free", "listOurs"} /\ verdict' # "fits"
        /\ UNCHANGED <<workers, used, maxNode>>
    BY <1>4 DEF CountEnds, FreeEnds, IInv, Compared
  <2>. QED
    BY <2>1 DEF IInv, Attained, Free, Summed, Compared
<1>5. ASSUME NEW n \in Nodes, FreeNode(n)
      PROVE  Attained' /\ Summed' /\ Compared'
  <2>1. pc' = "free" /\ verdict' # "fits" /\ UNCHANGED <<workers, used>>
    BY <1>5 DEF FreeNode, IInv, Compared
  <2>2. ASSUME NEW r \in Resources
        PROVE  \/ maxNode'[r] = 0
               \/ \E k \in DOMAIN workers : maxNode'[r] <= Free(k)[r]
    <3>1. maxNode'[r] = IF Free(n)[r] > maxNode[r] THEN Free(n)[r]
                                                   ELSE maxNode[r]
      BY <1>5 DEF FreeNode
    <3>2. n \in DOMAIN workers
      BY <1>5 DEF FreeNode, IInv, TypeOK
    <3>3. Free(n)[r] \in Nat
      BY <3>2, FreeType DEF IInv, Amounts
    <3>. QED
      BY <3>1, <3>2, <3>3 DEF IInv, Attained
  <2>3. Attained'
    BY <2>1, <2>2 DEF Attained, Free
  <2>. QED
    BY <2>1, <2>3 DEF Summed, Compared
<1>6. CASE ListOurs
  <2>1. UNCHANGED <<workers, used, maxNode>> /\ pc' \in {"sum", "over"}
    BY <1>6 DEF ListOurs
  <2>2. verdict' # "fits" /\ (pc' = "over" => verdict' # "none")
    BY <1>6 DEF ListOurs, IInv, Compared
  <2>3. pc' = "sum" => todo' \subseteq Pods /\ Ours' \subseteq todo'
    BY <1>6 DEF ListOurs, Ours, IInv, Compared
  <2>. QED
    BY <2>1, <2>2, <2>3 DEF IInv, Attained, Free, Summed, Compared
<1>7. ASSUME NEW p \in Pods, SumPod(p)
      PROVE  Attained' /\ Summed' /\ Compared'
  <2>1. /\ pc = "sum" /\ pc' = "sum" /\ verdict' # "fits"
        /\ UNCHANGED <<workers, used, maxNode, listed>>
    BY <1>7 DEF SumPod, IInv, Compared
  <2>2. todo' = todo \ {p} /\ request' = Plus(request, Counted(listed[p]))
    BY <1>7 DEF SumPod
  <2>3. request \in Amounts /\ Counted(listed[p]) \in Amounts
    BY CountedType DEF IInv, TypeOK
  <2>4. AtMost(request, request') /\ AtMost(Counted(listed[p]), request')
    BY <2>2, <2>3, PlusType
  <2>5. ASSUME NEW q \in Ours, q \notin todo'
        PROVE  AtMost(Counted(listed[q]), request')
    <3>1. CASE q = p
      BY <2>4, <3>1
    <3>2. CASE q # p
      <4>1. AtMost(Counted(listed[q]), request)
        BY <2>1, <2>2, <2>5, <3>2 DEF IInv, Summed
      <4>2. Counted(listed[q]) \in Amounts
        BY CountedType DEF Ours, IInv, TypeOK
      <4>3. request' \in Amounts
        BY DEF TypeOK
      <4>. QED
        BY <2>3, <2>4, <4>1, <4>2, <4>3 DEF AtMost, Amounts
    <3>. QED
      BY <3>1, <3>2
  <2>6. Summed'
    BY <2>1, <2>2, <2>5 DEF IInv, Summed, Ours
  <2>. QED
    BY <2>1, <2>6 DEF IInv, Attained, Free, Compared
<1>8. CASE SumEnds
  <2>1. /\ pc = "sum" /\ todo = {} /\ pc' = "compare" /\ verdict' # "fits"
        /\ UNCHANGED <<workers, used, maxNode, listed, request>>
    BY <1>8 DEF SumEnds, IInv, Compared
  <2>2. \A p \in Ours : AtMost(Counted(listed[p]), request)
    BY <2>1 DEF IInv, Summed
  <2>. QED
    BY <2>1, <2>2 DEF IInv, Attained, Free, Summed, Compared, Ours
<1>9. CASE Compare
  <2>1. /\ pc = "compare" /\ pc' = "over" /\ verdict' # "none"
        /\ verdict' = "fits" => AtMost(request, maxNode)
        /\ UNCHANGED <<workers, used, maxNode, listed, request>>
    BY <1>9 DEF Compare
  <2>2. \A p \in Ours : AtMost(Counted(listed[p]), request)
    BY <2>1 DEF IInv, Summed
  <2>. QED
    BY <2>1, <2>2
    DEF IInv, Attained, Free, Summed, Compared, Ours, AtMost
<1>10. ASSUME \/ \E n \in Nodes : NodeChanges(n)
              \/ \E p \in Pods : PodChanges(p)
              \/ UNCHANGED vars
       PROVE  Attained' /\ Summed' /\ Compared'
  <2>1. /\ UNCHANGED <<workers, listed, todo, used, maxNode, request>>
        /\ UNCHANGED <<pc, verdict>>
    BY <1>10 DEF NodeChanges, PodChanges, Change, vars
  <2>. QED
    BY <2>1, Elsewhere
<1>. QED
  BY <1>1, <1>2, <1>3, <1>4, <1>5, <1>6, <1>7, <1>8, <1>9, <1>10
  DEF Next, Check

LEMMA StepInv == IInv /\ [Next]_vars => IInv'
<1>. SUFFICES ASSUME IInv, [Next]_vars PROVE IInv'
  OBVIOUS
<1>1. TypeOK'
  BY TypeStep DEF IInv
<1>. QED
  BY <1>1, InvStep DEF IInv

LEMMA InvRoom == IInv => RoomForEach
<1>. SUFFICES ASSUME IInv, verdict = "fits", NEW p \in Ours, NEW r \in Resources
              PROVE  \/ Counted(listed[p])[r] = 0
                     \/ \E n \in DOMAIN workers :
                           Counted(listed[p])[r] <= Free(n)[r]
  BY DEF RoomForEach
<1>1. Counted(listed[p])[r] <= request[r] /\ request[r] <= maxNode[r]
  BY DEF IInv, Compared, AtMost
<1>2. /\ Counted(listed[p])[r] \in Nat /\ request[r] \in Nat
      /\ maxNode[r] \in Nat
  BY CountedType DEF Ours, IInv, TypeOK, Amounts
<1>3. CASE maxNode[r] = 0
  BY <1>1, <1>2, <1>3
<1>4. ASSUME NEW n \in DOMAIN workers, maxNode[r] <= Free(n)[r]
      PROVE  Counted(listed[p])[r] <= Free(n)[r]
  <2>1. Free(n)[r] \in Nat
    BY FreeType DEF IInv, Amounts
  <2>. QED
    BY <1>1, <1>2, <1>4, <2>1
<1>. QED
  BY <1>3, <1>4 DEF IInv, Attained

-----------------------------------------------------------------------------
LEMMA Inductive == Spec => []IInv
BY InitInv, StepInv, PTL DEF Spec

-----------------------------------------------------------------------------
(***************************************************************************)
(* The inductive invariant of the accounts: what the loops have added up   *)
(* is the sum over the pods they have gone over                            *)
(***************************************************************************)
Requests(r) == [p \in Pods |-> Counted(listed[p])[r]]
On(n) == {p \in Pods : listed[p].present /\ CountsOn(listed[p], n)}

\* While no cache changes, all lists are of the same pods and nodes.
Quiet ==
    changes = 0 =>
        /\ listed = pods
        /\ \A n \in DOMAIN workers : workers[n] = nodes[n].allocatable

\* The pods of the namespace that are listed last are those used was summed
\* over when nothing has changed since.
UsedCounted ==
    \/ pc \in {"free", "listOurs"}
    \/ changes = 0 /\ (pc \in {"sum", "compare"} \/ verdict = "fits")

Used ==
    /\ pc \in {"listNodes", "listPods"} => used = [n \in Nodes |-> Zero]
    /\ pc = "count" =>
          /\ todo \subseteq {p \in Pods : listed[p].present}
          /\ \A n \in DOMAIN workers, r \in Resources :
                used[n][r] = SumFunctionOnSet(Requests(r), On(n) \ todo)
    /\ UsedCounted =>
          \A n \in DOMAIN workers, r \in Resources :
             used[n][r] = SumFunctionOnSet(Requests(r), On(n))

\* No worker gone over has more left than the maxima.
Maximal ==
    /\ pc = "free" => \A n \in DOMAIN workers \ todo :
                         AtMost(Free(n), maxNode)
    /\ pc = "listOurs" => \A n \in DOMAIN workers : AtMost(Free(n), maxNode)

Summing ==
    /\ pc \notin {"sum", "compare", "over"} => request = Zero
    /\ pc = "sum" =>
          /\ todo \subseteq Ours
          /\ \A r \in Resources :
                request[r] = SumFunctionOnSet(Requests(r), Ours \ todo)
    /\ pc = "compare" \/ verdict = "fits" =>
          \A r \in Resources :
             request[r] = SumFunctionOnSet(Requests(r), Ours)

Accounts == Quiet /\ Used /\ Maximal /\ Summing

-----------------------------------------------------------------------------
LEMMA RequestsType ==
    ASSUME TypeOK, NEW r \in Resources
    PROVE  /\ \A p \in Pods : /\ Requests(r)[p] = Counted(listed[p])[r]
                              /\ Requests(r)[p] \in Nat
           /\ \A S \in SUBSET Pods : /\ IsFiniteSet(S)
                                     /\ SumFunctionOnSet(Requests(r), S) \in Nat
<1>1. ASSUME NEW p \in Pods
      PROVE  /\ Requests(r)[p] = Counted(listed[p])[r]
             /\ Requests(r)[p] \in Nat
  <2>1. Counted(listed[p]) \in Amounts
    BY CountedType DEF TypeOK
  <2>. QED
    BY <2>1 DEF Requests, Amounts
<1>2. \A S \in SUBSET Pods : IsFiniteSet(S)
  BY FiniteAssumption, FS_Subset
<1>. HIDE DEF Requests
<1>. QED
  BY <1>1, <1>2, SumNat

LEMMA Unlisted ==
    ASSUME UNCHANGED <<listed, workers>>
    PROVE  /\ \A r : Requests(r)' = Requests(r)
           /\ \A n : On(n)' = On(n)
           /\ Ours' = Ours
           /\ UNCHANGED used => \A n : Free(n)' = Free(n)
BY DEF Requests, On, CountsOn, Ours, Free

LEMMA InitAccounts == Init => Accounts
BY DEF Init, Accounts, Quiet, Used, UsedCounted, Maximal, Summing

LEMMA QuietStep ==
    ASSUME IInv, IInv', Accounts, [Next]_vars
    PROVE  Quiet'
<1>1. CASE ListNodes
  BY <1>1 DEF ListNodes, caches, Accounts, Quiet
<1>2. CASE ListPods \/ ListOurs
  BY <1>2 DEF ListPods, ListOurs, caches, Accounts, Quiet
<1>3. CASE \/ CountEnds \/ FreeEnds \/ SumEnds \/ Compare
           \/ \E p \in Pods : CountPod(p) \/ SumPod(p)
           \/ \E n \in Nodes : FreeNode(n)
           \/ UNCHANGED vars
  <2>1. UNCHANGED <<caches, workers, listed>>
    BY <1>3 DEF CountEnds, FreeEnds, SumEnds, Compare, CountPod, SumPod,
                FreeNode, vars
  <2>. QED
    BY <2>1 DEF caches, Accounts, Quiet
<1>4. CASE \/ \E n \in Nodes : NodeChanges(n)
           \/ \E p \in Pods : PodChanges(p)
  <2>1. changes' # 0
    BY <1>4 DEF NodeChanges, PodChanges, Change, IInv, TypeOK
  <2>. QED
    BY <2>1 DEF Quiet
<1>. QED
  BY <1>1, <1>2, <1>3, <1>4 DEF Next, Check

LEMMA UsedStep ==
    ASSUME IInv, IInv', Accounts, [Next]_vars
    PROVE  Used'
<1>. USE DEF Used, UsedCounted
<1>1. CASE ListNodes
  <2>1. /\ pc' \in {"listPods", "over"} /\ verdict' # "fits"
        /\ used' = [n \in Nodes |-> Zero]
    BY <1>1 DEF ListNodes, IInv, Compared, Accounts
  <2>. QED
    BY <2>1
<1>2. CASE ListPods
  <2>1. /\ pc' \in {"count", "over"} /\ verdict' # "fits"
        /\ used' = [n \in Nodes |-> Zero] /\ UNCHANGED workers
    BY <1>2 DEF ListPods, IInv, Compared, Accounts
  <2>2. ASSUME pc' = "count"
        PROVE  /\ todo' = {p \in Pods : listed'[p].present}
               /\ \A n : On(n)' \ todo' = {}
    BY <1>2, <2>2 DEF ListPods, On
  <2>3. ASSUME pc' = "count", NEW n \in DOMAIN workers, NEW r \in Resources
        PROVE  used'[n][r] = SumFunctionOnSet(Requests(r)', On(n)' \ todo')
    <3>1. used'[n][r] = 0
      BY <2>1 DEF Zero, IInv, TypeOK
    <3>2. On(n)' \ todo' = {}
      BY <2>2, <2>3
    <3>3. SumFunctionOnSet(Requests(r)', On(n)' \ todo') = 0
      BY <3>2, SumEmpty
    <3>. QED
      BY <3>1, <3>3
  <2>. QED
    BY <2>1, <2>2, <2>3
<1>3. ASSUME NEW p \in Pods, CountPod(p)
      PROVE  Used'
  <2>1. /\ pc = "count" /\ pc' = "count" /\ verdict' # "fits" /\ p \in todo
        /\ todo' = todo \ {p}
        /\ UNCHANGED <<workers, listed>>
    BY <1>3 DEF CountPod, IInv, Compared
  <2>2. todo' \subseteq {q \in Pods : listed'[q].present}
    BY <2>1 DEF Accounts
  <2>3. ASSUME NEW n \in DOMAIN workers, NEW r \in Resources
        PROVE  used'[n][r] = SumFunctionOnSet(Requests(r), On(n) \ todo')
    <3>1. used[n][r] = SumFunctionOnSet(Requests(r), On(n) \ todo)
      BY <2>1 DEF Accounts
    <3>2. n \in Nodes /\ On(n) \in SUBSET Pods
      BY DEF IInv, TypeOK, On
    <3>3. CASE CountsOn(listed[p], n)
      <4>1. used'[n][r] = used[n][r] + Counted(listed[p])[r]
        BY <1>3, <3>2, <3>3 DEF CountPod, Plus
      <4>2. p \in On(n) /\ p \notin On(n) \ todo
        BY <2>1, <3>3 DEF On, Accounts
      <4>3. On(n) \ todo' = (On(n) \ todo) \cup {p}
        BY <2>1, <4>2
      <4>4. /\ IsFiniteSet(On(n) \ todo)
            /\ \A q \in (On(n) \ todo) \cup {p} : Requests(r)[q] \in Nat
            /\ Requests(r)[p] = Counted(listed[p])[r]
            /\ SumFunctionOnSet(Requests(r), On(n) \ todo) \in Nat
        BY <3>2, RequestsType DEF IInv
      <4>5. SumFunctionOnSet(Requests(r), (On(n) \ todo) \cup {p})
               = Requests(r)[p] + SumFunctionOnSet(Requests(r), On(n) \ todo)
        BY <4>2, <4>4, SumAdd
      <4>6. SumFunctionOnSet(Requests(r), On(n) \ todo')
               = SumFunctionOnSet(Requests(r), (On(n) \ todo) \cup {p})
        BY <4>3
      <4>7. Counted(listed[p])[r] \in Nat
        BY RequestsType DEF IInv
      <4>. QED
        BY <3>1, <4>1, <4>4, <4>5, <4>6, <4>7
    <3>4. CASE ~ CountsOn(listed[p], n)
      <4>1. used'[n][r] = used[n][r]
        BY <1>3, <3>2, <3>4 DEF CountPod
      <4>2. On(n) \ todo' = On(n) \ todo
        BY <2>1, <3>4 DEF On
      <4>. QED
        BY <3>1, <4>1, <4>2
    <3>. QED
      BY <3>3, <3>4
  <2>4. \A n \in DOMAIN workers', r \in Resources :
           used'[n][r] = SumFunctionOnSet(Requests(r)', On(n)' \ todo')
    BY <2>1, <2>3, Unlisted
  <2>. QED
    BY <2>1, <2>2, <2>4
<1>4. CASE CountEnds
  <2>1. /\ pc = "count" /\ pc' = "free" /\ todo = {}
        /\ UNCHANGED <<workers, listed, used>>
    BY <1>4 DEF CountEnds
  <2>2. ASSUME NEW n \in DOMAIN workers, NEW r \in Resources
        PROVE  used[n][r] = SumFunctionOnSet(Requests(r), On(n))
    <3>1. On(n) \ todo = On(n)
      BY <2>1
    <3>2. used[n][r] = SumFunctionOnSet(Requests(r), On(n) \ todo)
      BY <2>1 DEF Accounts
    <3>. QED
      BY <3>1, <3>2
  <2>. QED
    BY <2>1, <2>2, Unlisted
<1>5. CASE \/ FreeEnds \/ SumEnds \/ Compare
           \/ \E p \in Pods : SumPod(p)
           \/ \E n \in Nodes : FreeNode(n)
  <2>1. /\ UNCHANGED <<changes, workers, listed, used>>
        /\ \/ pc \in {"free", "listOurs"} /\ pc' \in {"free", "listOurs"}
           \/ pc \in {"sum", "compare"} /\ pc' \in {"sum", "compare", "over"}
    BY <1>5 DEF FreeEnds, SumEnds, Compare, SumPod, FreeNode, caches
  <2>2. UsedCounted' => UsedCounted
    BY <2>1
  <2>3. UsedCounted => \A n \in DOMAIN workers, r \in Resources :
                          used[n][r] = SumFunctionOnSet(Requests(r), On(n))
    BY DEF Accounts
  <2>. QED
    BY <2>1, <2>2, <2>3, Unlisted
<1>6. CASE ListOurs
  <2>1. /\ pc = "listOurs" /\ pc' \in {"sum", "over"} /\ verdict' # "fits"
        /\ UNCHANGED <<changes, workers, used>>
        /\ listed' = pods \/ pc' = "over"
    BY <1>6 DEF ListOurs, caches, IInv, Compared
  <2>2. ASSUME changes' = 0, pc' = "sum"
        PROVE  \A n \in DOMAIN workers', r \in Resources :
                  used'[n][r] = SumFunctionOnSet(Requests(r)', On(n)')
    <3>1. UNCHANGED <<listed, workers>>
      BY <2>1, <2>2 DEF Accounts, Quiet
    <3>2. \A n \in DOMAIN workers, r \in Resources :
             used[n][r] = SumFunctionOnSet(Requests(r), On(n))
      BY <2>1 DEF Accounts
    <3>. QED
      BY <2>1, <3>1, <3>2, Unlisted
  <2>. QED
    BY <2>1, <2>2
<1>7. CASE \/ \E n \in Nodes : NodeChanges(n)
           \/ \E p \in Pods : PodChanges(p)
           \/ UNCHANGED vars
  <2>1. /\ UNCHANGED <<pc, workers, listed, todo, used, verdict>>
        /\ changes' = 0 => changes = 0
    BY <1>7 DEF NodeChanges, PodChanges, Change, vars, caches, IInv, TypeOK
  <2>2. Used
    BY DEF Accounts
  <2>. QED
    BY <2>1, <2>2, Unlisted
<1>. QED
  BY <1>1, <1>2, <1>3, <1>4, <1>5, <1>6, <1>7 DEF Next, Check

LEMMA MaximalStep ==
    ASSUME IInv, IInv', Accounts, [Next]_vars
    PROVE  Maximal'
<1>. USE DEF Maximal
<1>1. CASE CountEnds
  BY <1>1 DEF CountEnds
<1>2. ASSUME NEW n \in Nodes, FreeNode(n)
      PROVE  Maximal'
  <2>1. /\ pc = "free" /\ pc' = "free" /\ todo' = todo \ {n}
        /\ UNCHANGED <<workers, used, listed>>
        /\ n \in DOMAIN workers
    BY <1>2 DEF FreeNode, IInv, TypeOK
  <2>2. ASSUME NEW k \in DOMAIN workers \ todo', NEW r \in Resources
        PROVE  Free(k)[r] <= maxNode'[r]
    <3>1. maxNode'[r] = IF Free(n)[r] > maxNode[r] THEN Free(n)[r]
                                                   ELSE maxNode[r]
      BY <1>2 DEF FreeNode
    <3>2. Free(n)[r] \in Nat /\ Free(k)[r] \in Nat /\ maxNode[r] \in Nat
      BY <2>1, FreeType DEF IInv, TypeOK, Amounts
    <3>3. CASE k = n
      BY <3>1, <3>2, <3>3
    <3>4. CASE k # n
      <4>1. Free(k)[r] <= maxNode[r]
        BY <2>1, <2>2, <3>4 DEF Accounts, AtMost
      <4>. QED
        BY <3>1, <3>2, <4>1
    <3>. QED
      BY <3>3, <3>4
  <2>. QED
    BY <2>1, <2>2, Unlisted DEF AtMost
<1>3. CASE FreeEnds
  <2>1. /\ pc = "free" /\ pc' = "listOurs" /\ todo = {}
        /\ UNCHANGED <<workers, used, listed, maxNode>>
    BY <1>3 DEF FreeEnds
  <2>2. \A n \in DOMAIN workers : AtMost(Free(n), maxNode)
    BY <2>1 DEF Accounts
  <2>. QED
    BY <2>1, <2>2, Unlisted DEF AtMost
<1>4. CASE \/ ListNodes \/ ListPods \/ ListOurs \/ SumEnds \/ Compare
           \/ \E p \in Pods : CountPod(p) \/ SumPod(p)
  BY <1>4 DEF ListNodes, ListPods, ListOurs, SumEnds, Compare, CountPod,
              SumPod
<1>5. CASE \/ \E n \in Nodes : NodeChanges(n)
           \/ \E p \in Pods : PodChanges(p)
           \/ UNCHANGED vars
  <2>1. UNCHANGED <<pc, workers, listed, todo, used, maxNode>>
    BY <1>5 DEF NodeChanges, PodChanges, Change, vars
  <2>2. Maximal
    BY DEF Accounts
  <2>. QED
    BY <2>1, <2>2, Unlisted DEF AtMost
<1>. QED
  BY <1>1, <1>2, <1>3, <1>4, <1>5 DEF Next, Check

LEMMA SummingStep ==
    ASSUME IInv, IInv', Accounts, [Next]_vars
    PROVE  Summing'
<1>. USE DEF Summing
<1>1. CASE \/ ListNodes \/ ListPods \/ CountEnds \/ FreeEnds
           \/ \E p \in Pods : CountPod(p)
           \/ \E n \in Nodes : FreeNode(n)
  <2>1. /\ pc \notin {"sum", "compare", "over"} /\ pc' \notin {"sum", "compare"}
        /\ verdict' # "fits" /\ UNCHANGED request
    BY <1>1 DEF ListNodes, ListPods, CountEnds, FreeEnds, CountPod, FreeNode,
                IInv, Compared
  <2>. QED
    BY <2>1 DEF Accounts
<1>2. CASE ListOurs
  <2>1. /\ request' = Zero /\ verdict' # "fits" /\ pc' \in {"sum", "over"}
    BY <1>2 DEF ListOurs, IInv, Compared, Accounts
  <2>2. pc' = "sum" => todo' = Ours'
    BY <1>2 DEF ListOurs, Ours
  <2>3. ASSUME pc' = "sum", NEW r \in Resources
        PROVE  request'[r] = SumFunctionOnSet(Requests(r)', Ours' \ todo')
    <3>1. Ours' \ todo' = {}
      BY <2>2, <2>3
    <3>2. SumFunctionOnSet(Requests(r)', Ours' \ todo') = 0
      BY <3>1, SumEmpty
    <3>. QED
      BY <2>1, <3>2 DEF Zero
  <2>. QED
    BY <2>1, <2>2, <2>3
<1>3. ASSUME NEW p \in Pods, SumPod(p)
      PROVE  Summing'
  <2>1. /\ pc = "sum" /\ pc' = "sum" /\ verdict' # "fits" /\ p \in todo
        /\ todo' = todo \ {p} /\ request' = Plus(request, Counted(listed[p]))
        /\ UNCHANGED <<workers, listed>>
    BY <1>3 DEF SumPod, IInv, Compared
  <2>2. todo \subseteq Ours
    BY <2>1 DEF Accounts
  <2>3. ASSUME NEW r \in Resources
        PROVE  request'[r] = SumFunctionOnSet(Requests(r), Ours \ todo')
    <3>1. request[r] = SumFunctionOnSet(Requests(r), Ours \ todo)
      BY <2>1 DEF Accounts
    <3>2. Ours \in SUBSET Pods
      BY DEF Ours
    <3>3. p \notin Ours \ todo /\ Ours \ todo' = (Ours \ todo) \cup {p}
      BY <2>1, <2>2
    <3>4. /\ IsFiniteSet(Ours \ todo)
          /\ \A q \in (Ours \ todo) \cup {p} : Requests(r)[q] \in Nat
          /\ Requests(r)[p] = Counted(listed[p])[r]
          /\ Requests(r)[p] \in Nat
          /\ SumFunctionOnSet(Requests(r), Ours \ todo) \in Nat
      BY <3>2, RequestsType DEF IInv
    <3>5. SumFunctionOnSet(Requests(r), (Ours \ todo) \cup {p})
             = Requests(r)[p] + SumFunctionOnSet(Requests(r), Ours \ todo)
      BY <3>3, <3>4, SumAdd
    <3>6. SumFunctionOnSet(Requests(r), Ours \ todo')
             = SumFunctionOnSet(Requests(r), (Ours \ todo) \cup {p})
      BY <3>3
    <3>7. request'[r] = request[r] + Counted(listed[p])[r]
      BY <2>1 DEF Plus
    <3>. QED
      BY <3>1, <3>4, <3>5, <3>6, <3>7
  <2>. QED
    BY <2>1, <2>2, <2>3, Unlisted
<1>4. CASE SumEnds
  <2>1. /\ pc = "sum" /\ pc' = "compare" /\ todo = {} /\ verdict' # "fits"
        /\ UNCHANGED <<workers, listed, request>>
    BY <1>4 DEF SumEnds, IInv, Compared
  <2>2. Ours \ todo = Ours
    BY <2>1
  <2>3. \A r \in Resources : request[r] = SumFunctionOnSet(Requests(r), Ours)
    BY <2>1, <2>2 DEF Accounts
  <2>. QED
    BY <2>1, <2>3, Unlisted
<1>5. CASE Compare
  <2>1. /\ pc = "compare" /\ pc' = "over"
        /\ UNCHANGED <<workers, listed, request>>
    BY <1>5 DEF Compare
  <2>. QED
    BY <2>1, Unlisted DEF Accounts
<1>6. CASE \/ \E n \in Nodes : NodeChanges(n)
           \/ \E p \in Pods : PodChanges(p)
           \/ UNCHANGED vars
  <2>1. UNCHANGED <<pc, workers, listed, todo, request, verdict>>
    BY <1>6 DEF NodeChanges, PodChanges, Change, vars
  <2>2. Summing
    BY DEF Accounts
  <2>. QED
    BY <2>1, <2>2, Unlisted
<1>. QED
  BY <1>1, <1>2, <1>3, <1>4, <1>5, <1>6 DEF Next, Check

LEMMA StepAccounts == IInv /\ IInv' /\ Accounts /\ [Next]_vars => Accounts'
<1>. SUFFICES ASSUME IInv, IInv', Accounts, [Next]_vars PROVE Accounts'
  OBVIOUS
<1>. QED
  BY QuietStep, UsedStep, MaximalStep, SummingStep DEF Accounts

LEMMA InductiveAccounts == Spec => [](IInv /\ Accounts)
BY Inductive, InitAccounts, StepAccounts, PTL DEF Spec

LEMMA MaxIs ==
    ASSUME NEW S \in SUBSET Int, NEW m \in S, \A y \in S : m >= y
    PROVE  Max(S) = m
<1>1. \A x \in S : (\A y \in S : x >= y) => x = m
  BY SMTT(30)
<1>. QED
  BY <1>1 DEF Max

LEMMA InvMaxima == IInv /\ Accounts => MaximaOfListed
<1>. SUFFICES ASSUME IInv, Accounts, pc = "listOurs", NEW r \in Resources
              PROVE  maxNode[r] = Max({0} \cup {workers[n][r] - RequestedOn(n, r) :
                                                   n \in DOMAIN workers})
  BY DEF MaximaOfListed
<1>. DEFINE S == {0} \cup {workers[n][r] - RequestedOn(n, r) :
                              n \in DOMAIN workers}
<1>1. ASSUME NEW n \in DOMAIN workers
      PROVE  /\ RequestedOn(n, r) = used[n][r]
             /\ workers[n][r] \in Nat /\ used[n][r] \in Nat
             /\ Free(n)[r] = IF workers[n][r] > used[n][r]
                             THEN workers[n][r] - used[n][r] ELSE 0
             /\ Free(n)[r] <= maxNode[r]
  <2>1. RequestedOn(n, r) = used[n][r]
    BY DEF Accounts, Used, UsedCounted, RequestedOn, Requests, On
  <2>2. workers[n][r] \in Nat /\ used[n][r] \in Nat
    BY DEF IInv, TypeOK, Amounts
  <2>. QED
    BY <2>1, <2>2 DEF Free, Accounts, Maximal, AtMost
<1>2. maxNode[r] \in Nat
  BY DEF IInv, TypeOK, Amounts
<1>3. S \in SUBSET Int /\ \A y \in S : maxNode[r] >= y
  BY <1>1, <1>2
<1>4. maxNode[r] \in S
  <2>1. CASE maxNode[r] = 0
    BY <2>1
  <2>2. ASSUME maxNode[r] # 0, NEW n \in DOMAIN workers,
               maxNode[r] <= Free(n)[r]
        PROVE  maxNode[r] \in S
    <3>1. maxNode[r] = workers[n][r] - RequestedOn(n, r)
      BY <1>1, <1>2, <2>2
    <3>. QED
      BY <3>1
  <2>. QED
    BY <2>1, <2>2 DEF IInv, Attained
<1>. HIDE DEF S
<1>5. Max(S) = maxNode[r]
  BY <1>3, <1>4, MaxIs
<1>. QED
  BY <1>5 DEF S

\* What the scheduler asks for is at most what the check counts, and the
\* pods that wait are among those of the namespace.
LEMMA InvSafe == IInv /\ Accounts => SafeWithOneWorker
<1>. SUFFICES ASSUME IInv, Accounts, verdict = "fits", changes = 0,
                     Cardinality(DOMAIN workers) = 1,
                     NEW n \in DOMAIN workers, NEW r \in Resources
              PROVE  LET sum(T) == SumFunctionOnSet(
                                      [p \in Pods |-> Needs(pods[p], r)], T) IN
                     \/ sum(Waiting) = 0
                     \/ sum(Waiting) + sum(Running(n))
                           <= nodes[n].allocatable[r]
  BY DEF SafeWithOneWorker, Takes
<1>. DEFINE need == [p \in Pods |-> Needs(pods[p], r)]
            sum(T) == SumFunctionOnSet(need, T)
<1>1. listed = pods /\ workers[n] = nodes[n].allocatable
  BY DEF Accounts, Quiet
<1>2. ASSUME NEW p \in Pods
      PROVE  /\ need[p] \in Nat /\ Requests(r)[p] \in Nat
             /\ need[p] <= Requests(r)[p]
  <2>1. pods[p].init \in Amounts /\ pods[p].main \in Amounts
    BY StatesAssumption DEF IInv, TypeOK
  <2>2. pods[p].init[r] \in Nat /\ pods[p].main[r] \in Nat
    BY <2>1 DEF Amounts
  <2>3. Requests(r)[p] = pods[p].init[r] + pods[p].main[r]
    BY <1>1, RequestsType DEF IInv, Counted, Plus
  <2>. QED
    BY <2>2, <2>3 DEF Needs
<1>3. /\ Waiting \in SUBSET Ours /\ Ours \in SUBSET Pods
      /\ Running(n) = On(n) /\ On(n) \in SUBSET Pods
  BY <1>1 DEF Waiting, Ours, Running, On, CountsOn
<1>. HIDE DEF need
<1>4. \A S \in SUBSET Pods, T \in SUBSET Pods : T \subseteq S =>
         /\ sum(T) \in Nat
         /\ SumFunctionOnSet(Requests(r), S) \in Nat
         /\ sum(T) <= SumFunctionOnSet(Requests(r), S)
  <2>1. \A S \in SUBSET Pods : /\ IsFiniteSet(S)
                               /\ SumFunctionOnSet(Requests(r), S) \in Nat
    BY RequestsType DEF IInv
  <2>. QED
    BY <1>2, <2>1, SumNat, SumMonotonic
<1>. DEFINE w == sum(Waiting)
            k == sum(Running(n))
<1>5. /\ w \in Nat /\ k \in Nat
      /\ w <= SumFunctionOnSet(Requests(r), Ours)
      /\ k <= SumFunctionOnSet(Requests(r), On(n))
  BY <1>3, <1>4
<1>6. /\ request[r] = SumFunctionOnSet(Requests(r), Ours)
      /\ used[n][r] = SumFunctionOnSet(Requests(r), On(n))
  BY DEF Accounts, Summing, Used, UsedCounted
<1>7. request[r] <= maxNode[r]
  BY DEF IInv, Compared, AtMost
<1>8. maxNode[r] = 0 \/ maxNode[r] <= Free(n)[r]
  <2>1. DOMAIN workers = {n}
    <3>1. PICK x : DOMAIN workers = {x}
      <4>1. IsFiniteSet(DOMAIN workers)
        BY FiniteAssumption, FS_Subset DEF IInv, TypeOK
      <4>. QED
        BY <4>1, FS_Singleton
    <3>. QED
      BY <3>1
  <2>. QED
    BY <2>1 DEF IInv, Attained
<1>9. /\ request[r] \in Nat /\ maxNode[r] \in Nat /\ used[n][r] \in Nat
      /\ workers[n][r] \in Nat
      /\ Free(n)[r] = IF workers[n][r] > used[n][r]
                      THEN workers[n][r] - used[n][r] ELSE 0
  BY DEF IInv, TypeOK, Amounts, Free
<1>. HIDE DEF w, k
<1>10. w = 0 \/ w + k <= workers[n][r]
  BY <1>5, <1>6, <1>7, <1>8, <1>9
<1>. QED
  BY <1>1, <1>10 DEF w, k, need

\* The loops of the check keep the types of their variables, and no maximum
\* is ever negative.
THEOREM CheckTypes == Spec => []TypeOK
<1>1. IInv => TypeOK
  BY DEF IInv
<1>. QED
  BY <1>1, Inductive, PTL

\* When Reconcile takes the namespace's pods for schedulable
\* (namespacequota_controller.go:167-171), every one of them finds enough of
\* each resource on some worker node, in whatever order the lists and maps
\* are gone through and however the caches change between the lists.
THEOREM RoomOnSomeWorker == Spec => []RoomForEach
BY Inductive, InvRoom, PTL

\* "schedulability limits (max free on a single node)"
\* (namespacequota_controller.go:440): in whatever order the maps are ranged
\* in, computeClusterFree returns for each resource the most that is left on
\* one worker beside the requests of all pods listed on it, and never less
\* than nothing.
THEOREM MaximaAttained == Spec => []MaximaOfListed
BY InductiveAccounts, InvMaxima, PTL

\* A positive verdict on a cluster of one worker, whose caches stood still
\* while it was reached, holds for all waiting pods of the namespace together
\* and by the scheduler's own account, which asks for the larger of the init
\* containers and the containers where the check adds them up
\* (namespacequota_controller.go:149, 419).
THEOREM SafeOnOneWorker == Spec => []SafeWithOneWorker
BY InductiveAccounts, InvSafe, PTL
=============================================================================
