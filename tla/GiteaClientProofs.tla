------------------------- MODULE GiteaClientProofs --------------------------
(***************************************************************************)
(* Proofs about GiteaClient, for any number of goroutines: one instance,   *)
(* and the decision about it looks atomic.                                 *)
(***************************************************************************)
EXTENDS GiteaClient, TLAPS

\* Inside the mutex an instance is made only while there is none, and a
\* goroutine leaves GetClient with one.
MutexInv ==
    \A c \in Callers :
        /\ pc[c] \in {"secret", "connect", "publish"} => singleInstance = Nobody
        /\ pc[c] = "unlock" => singleInstance # Nobody
        /\ pc[c] = "initialized" => got[c] # Nobody

IInv == TypeOK /\ MutexInv /\ OneInstance

LEMMA TypeStep == TypeOK /\ [Next]_vars => TypeOK'
<1> SUFFICES ASSUME TypeOK, [Next]_vars PROVE TypeOK'
  OBVIOUS
<1> USE NobodyAssumption DEF TypeOK, Goto, Labels, Locked
<1>1. ASSUME NEW c \in Callers,
             Call(c) \/ Check(c) \/ Lock(c) \/ Recheck(c) \/ ReadSecret(c)
      PROVE  TypeOK'
  <2>1. CASE Call(c)
    BY <2>1 DEF Call
  <2>2. CASE Check(c)
    BY <2>2 DEF Check
  <2>3. CASE Lock(c)
    BY <2>3 DEF Lock
  <2>4. CASE Recheck(c) \/ ReadSecret(c)
    BY <2>4 DEF Recheck, ReadSecret
  <2>q. QED
    BY <1>1, <2>1, <2>2, <2>3, <2>4
<1>2. ASSUME NEW c \in Callers, Connect(c) \/ Publish(c) \/ Unlock(c)
      PROVE  TypeOK'
  <2>1. CASE Connect(c)
    BY <2>1 DEF Connect
  <2>2. CASE Publish(c)
    BY <2>2 DEF Publish
  <2>3. CASE Unlock(c)
    BY <2>3 DEF Unlock
  <2>q. QED
    BY <1>2, <2>1, <2>2, <2>3
<1>3. ASSUME NEW c \in Callers, IsInitialized(c) PROVE TypeOK'
  BY <1>3 DEF IsInitialized, MayRead
<1>4. CASE Environment \/ Restart \/ UNCHANGED vars
  <2>1. CASE Environment
    BY <2>1 DEF Environment
  <2>2. CASE Restart
    BY <2>2 DEF Restart
  <2>3. CASE UNCHANGED vars
    BY <2>3 DEF vars
  <2>q. QED
    BY <1>4, <2>1, <2>2, <2>3
<1>q. QED
  BY <1>1, <1>2, <1>3, <1>4 DEF Next, GetClient

LEMMA InvStep == IInv /\ [Next]_vars => MutexInv' /\ OneInstance'
<1> SUFFICES ASSUME IInv, [Next]_vars PROVE MutexInv' /\ OneInstance'
  OBVIOUS
<1> USE NobodyAssumption DEF IInv, TypeOK, MutexInv, OneInstance, Goto, Locked
<1>1. ASSUME NEW c \in Callers, Call(c) PROVE MutexInv' /\ OneInstance'
  BY <1>1 DEF Call
<1>2. ASSUME NEW c \in Callers, Check(c) PROVE MutexInv' /\ OneInstance'
  BY <1>2 DEF Check
<1>3. ASSUME NEW c \in Callers, Lock(c) PROVE MutexInv' /\ OneInstance'
  BY <1>3 DEF Lock
<1>4. ASSUME NEW c \in Callers, Recheck(c) \/ ReadSecret(c) \/ Connect(c)
      PROVE  MutexInv' /\ OneInstance'
  BY <1>4 DEF Recheck, ReadSecret, Connect
<1>5. ASSUME NEW c \in Callers, Publish(c) PROVE MutexInv' /\ OneInstance'
  <2>1. singleInstance = Nobody /\ singleInstance' = c
    BY <1>5 DEF Publish
  <2>2. \A d \in Callers : got'[d] = Nobody /\ pc[d] # "initialized"
    BY <1>5, <2>1 DEF Publish
  <2>3. \A d \in Callers \ {c} : pc[d] \notin Locked /\ pc'[d] = pc[d]
    BY <1>5 DEF Publish
  <2>4. pc'[c] = "unlock" /\ UNCHANGED lock
    BY <1>5 DEF Publish
  <2>5. lock = c
    BY <1>5 DEF Publish
  <2>6. MutexInv'
    BY <2>1, <2>2, <2>3, <2>4, <2>5
  <2>7. OneInstance'
    BY <2>2
  <2>q. QED
    BY <2>6, <2>7
<1>6. ASSUME NEW c \in Callers, Unlock(c) PROVE MutexInv' /\ OneInstance'
  BY <1>6 DEF Unlock
<1>7. ASSUME NEW c \in Callers, IsInitialized(c) PROVE MutexInv' /\ OneInstance'
  BY <1>7 DEF IsInitialized
<1>8. CASE Environment \/ Restart \/ UNCHANGED vars
  BY <1>8 DEF Environment, Restart, vars
<1>q. QED
  BY <1>1, <1>2, <1>3, <1>4, <1>5, <1>6, <1>7, <1>8 DEF Next, GetClient

LEMMA Inductive == Spec => []IInv
<1>1. Init => IInv
  BY DEF Init, IInv, TypeOK, MutexInv, OneInstance, Labels, Locked
<1>2. IInv /\ [Next]_vars => IInv'
  BY TypeStep, InvStep DEF IInv
<1>q. QED
  BY <1>1, <1>2, PTL DEF Spec

\* The mutex is held by the goroutine that is inside it and by no other.
THEOREM ClientTypes == Spec => []TypeOK
BY Inductive, PTL DEF IInv

\* Every goroutine is given the same instance, however many find none.
THEOREM AllGetOneInstance == Spec => []OneInstance
BY Inductive, PTL DEF IInv

\* What a step means to those who only see the decision and the answers.
LEMMA DecisionStep ==
    ASSUME IInv, [Next]_vars
    PROVE  [Single!Next]_(Single!vars)
<1> USE NobodyAssumption DEF IInv, TypeOK, MutexInv, OneInstance
<1>1. ASSUME NEW c \in Callers, Call(c) PROVE [Single!Next]_(Single!vars)
  <2>1. Single!Come(c)
    BY <1>1 DEF Call, Single!Come
  <2>q. QED
    BY <2>1 DEF Single!Next
<1>2. ASSUME NEW c \in Callers,
             Check(c) \/ Lock(c) \/ Recheck(c) \/ ReadSecret(c) \/ Unlock(c)
      PROVE  [Single!Next]_(Single!vars)
  BY <1>2 DEF Check, Lock, Recheck, ReadSecret, Unlock, Single!vars
<1>3. ASSUME NEW c \in Callers, Connect(c) PROVE [Single!Next]_(Single!vars)
  <2>1. singleInstance = Nobody /\ UNCHANGED <<singleInstance, told>>
    BY <1>3 DEF Connect
  <2>q. QED
    BY <2>1 DEF Single!vars
<1>4. ASSUME NEW c \in Callers, Publish(c) PROVE [Single!Next]_(Single!vars)
  <2>1. /\ singleInstance = Nobody /\ singleInstance' = c
        /\ UNCHANGED <<giteaClient, told>>
    BY <1>4 DEF Publish
  <2>2. Single!Decide
    BY <2>1 DEF Single!Decide
  <2>q. QED
    BY <2>2 DEF Single!Next
<1>5. ASSUME NEW c \in Callers, IsInitialized(c)
      PROVE  [Single!Next]_(Single!vars)
  <2>1. PICK answer \in MayRead(got[c]) : told' = [told EXCEPT ![c] = answer]
    BY <1>5 DEF IsInitialized
  <2>2. /\ got[c] = singleInstance /\ singleInstance # Nobody
        /\ UNCHANGED <<singleInstance, giteaClient>>
    BY <1>5 DEF IsInitialized
  <2>3. answer = "noClient" \/ (answer = "ready" /\ singleInstance \in giteaClient)
    BY <2>1, <2>2 DEF MayRead
  <2>4. Single!Ask(c)
    BY <2>1, <2>2, <2>3 DEF Single!Ask
  <2>q. QED
    BY <2>4 DEF Single!Next
<1>6. CASE Restart
  <2>1. Single!Restart
    BY <1>6 DEF Restart, Single!Restart
  <2>q. QED
    BY <2>1 DEF Single!Next
<1>7. CASE Environment \/ UNCHANGED vars
  BY <1>7 DEF Environment, vars, Single!vars
<1>q. QED
  BY <1>1, <1>2, <1>3, <1>4, <1>5, <1>6, <1>7 DEF Next, GetClient

\* The mutex and the two checks make the start of the client one decision
\* for the whole process, which no later step of any goroutine changes.
THEOREM OneDecision == Spec => DecidedOnce
<1>1. Init => Single!Init
  BY DEF Init, Single!Init
<1>q. QED
  BY <1>1, DecisionStep, Inductive, PTL DEF Spec, DecidedOnce, Single!Spec
=============================================================================
