---------------------------- MODULE GiteaClient -----------------------------
(***************************************************************************)
(* git.GetClient (reconcilers/git/giteaclient.go): the Gitea client of the *)
(* process, made by whichever handler comes first, with a check before and *)
(* another one under the mutex, and IsInitialized, which the handlers call *)
(* on what they get.  Handlers of any number of requests call it at the    *)
(* same time and again and again; each reads and writes shared variables   *)
(* step by step.                                                           *)
(*                                                                         *)
(* The first check reads singleInstance without the mutex while another    *)
(* goroutine may be assigning it: a data race.  Until the maker releases   *)
(* the mutex, a caller that reads the pointer may find the fields behind   *)
(* it as they were before they were set.                                   *)
(***************************************************************************)
CONSTANTS Callers, Nobody

ASSUME NobodyAssumption == Nobody \notin Callers

VARIABLES
    pc,             \* pc[c]: the next step of the goroutine of c
    lock,           \* who holds the mutex
    singleInstance, \* whose instance the process uses
    giteaClient,    \* whose instances have a client
    got,            \* got[c]: whose instance GetClient returned to c
    told,           \* told[c]: what IsInitialized said
    up              \* whether the Secret is there and Gitea answers

vars == <<pc, lock, singleInstance, giteaClient, got, told, up>>

Labels == {"idle", "check", "lock", "recheck", "secret", "connect", "publish",
           "unlock", "initialized"}
Locked == {"recheck", "secret", "connect", "publish", "unlock"}

\* The variables of giteaclient.go keep their types, and the mutex is held
\* by the goroutine that is inside it.
TypeOK ==
    /\ pc \in [Callers -> Labels]
    /\ lock \in Callers \cup {Nobody}
    /\ singleInstance \in Callers \cup {Nobody}
    /\ giteaClient \subseteq Callers
    /\ got \in [Callers -> Callers \cup {Nobody}]
    /\ told \in [Callers -> {"nothing", "ready", "noClient"}]
    /\ up \in BOOLEAN
    /\ \A c \in Callers : pc[c] \in Locked => lock = c

Init ==
    /\ pc = [c \in Callers |-> "idle"]
    /\ lock = Nobody
    /\ singleInstance = Nobody
    /\ giteaClient = {}
    /\ got = [c \in Callers |-> Nobody]
    /\ told = [c \in Callers |-> "nothing"]
    /\ up \in BOOLEAN

-----------------------------------------------------------------------------
Goto(c, l) == pc' = [pc EXCEPT ![c] = l]

\* A request reaches the call of GetClient.
Call(c) ==
    /\ pc[c] = "idle"
    /\ Goto(c, "check")
    /\ got' = [got EXCEPT ![c] = Nobody]
    /\ told' = [told EXCEPT ![c] = "nothing"]
    /\ UNCHANGED <<lock, singleInstance, giteaClient, up>>

\* The first check, without the mutex.
Check(c) ==
    /\ pc[c] = "check"
    /\ got' = [got EXCEPT ![c] = singleInstance]
    /\ Goto(c, IF singleInstance = Nobody THEN "lock" ELSE "initialized")
    /\ UNCHANGED <<lock, singleInstance, giteaClient, told, up>>

Lock(c) ==
    /\ pc[c] = "lock"
    /\ lock = Nobody
    /\ lock' = c
    /\ Goto(c, "recheck")
    /\ UNCHANGED <<singleInstance, giteaClient, got, told, up>>

\* Mutant: no second check.
RecheckDropped(c) ==
    /\ pc[c] = "recheck"
    /\ giteaClient' = giteaClient \ {c}
    /\ Goto(c, "secret")
    /\ UNCHANGED <<lock, singleInstance, got, told, up>>

\* Mutant: the instance is published before it is started.
RecheckPublishes(c) ==
    /\ pc[c] = "recheck"
    /\ singleInstance' = IF singleInstance = Nobody THEN c ELSE singleInstance
    /\ Goto(c, IF singleInstance = Nobody THEN "secret" ELSE "unlock")
    /\ UNCHANGED <<lock, giteaClient, got, told, up>>

\* The second check; an instance that is to be made has no client yet.
Recheck(c) ==
    /\ pc[c] = "recheck"
    /\ Goto(c, IF singleInstance = Nobody THEN "secret" ELSE "unlock")
    /\ UNCHANGED <<lock, singleInstance, giteaClient, got, told, up>>

\* Start: the URL and the Secret.  A failure leaves the instance as it is.
ReadSecret(c) ==
    /\ pc[c] = "secret"
    /\ Goto(c, IF up THEN "connect" ELSE "publish")
    /\ UNCHANGED <<lock, singleInstance, giteaClient, got, told, up>>

\* Mutant: a failed connection returns with the mutex held.
ConnectLocked(c) ==
    /\ pc[c] = "connect"
    /\ giteaClient' = IF up THEN giteaClient \cup {c} ELSE giteaClient
    /\ Goto(c, IF up THEN "publish" ELSE "initialized")
    /\ UNCHANGED <<lock, singleInstance, got, told, up>>

\* Mutant: the mutex is not held while the connection is tried.
ConnectUnlocked(c) ==
    /\ pc[c] = "connect"
    /\ giteaClient' = IF up THEN giteaClient \cup {c} ELSE giteaClient
    /\ lock' = Nobody
    /\ Goto(c, "publish")
    /\ UNCHANGED <<singleInstance, got, told, up>>

\* Start: the client is made and its connection tried, then kept.
Connect(c) ==
    /\ pc[c] = "connect"
    /\ giteaClient' = IF up THEN giteaClient \cup {c} ELSE giteaClient
    /\ Goto(c, "publish")
    /\ UNCHANGED <<lock, singleInstance, got, told, up>>

\* Whatever became of Start, its instance is the one of the process.
Publish(c) ==
    /\ pc[c] = "publish"
    /\ singleInstance' = c
    /\ Goto(c, "unlock")
    /\ UNCHANGED <<lock, giteaClient, got, told, up>>

\* return singleInstance, then the deferred Unlock.
Unlock(c) ==
    /\ pc[c] = "unlock"
    /\ got' = [got EXCEPT ![c] = singleInstance]
    /\ lock' = Nobody
    /\ Goto(c, "initialized")
    /\ UNCHANGED <<singleInstance, giteaClient, told, up>>

\* What a goroutine may read behind the pointer it got: while the maker of
\* the instance is inside the mutex, also the fields' first values.
MayRead(i) ==
    (IF i \in giteaClient THEN {"ready"} ELSE {"noClient"})
    \cup (IF lock = i THEN {"noClient"} ELSE {})

\* IsInitialized: without a client the handler ends.
IsInitialized(c) ==
    /\ pc[c] = "initialized"
    /\ \E answer \in MayRead(got[c]) : told' = [told EXCEPT ![c] = answer]
    /\ Goto(c, "idle")
    /\ UNCHANGED <<lock, singleInstance, giteaClient, got, up>>

\* Gitea or its Secret comes or goes.
Environment ==
    /\ up' = ~ up
    /\ UNCHANGED <<pc, lock, singleInstance, giteaClient, got, told>>

\* The process starts anew.
Restart ==
    /\ pc' = [c \in Callers |-> "idle"]
    /\ lock' = Nobody
    /\ singleInstance' = Nobody
    /\ giteaClient' = {}
    /\ got' = [c \in Callers |-> Nobody]
    /\ told' = [c \in Callers |-> "nothing"]
    /\ UNCHANGED up

-----------------------------------------------------------------------------
GetClient(c) == \/ Check(c)      \/ Lock(c)    \/ Recheck(c) \/ ReadSecret(c)
                \/ Connect(c)    \/ Publish(c) \/ Unlock(c)
                \/ IsInitialized(c)

Next ==
    \/ \E c \in Callers : Call(c) \/ GetClient(c)
    \/ Environment
    \/ Restart

Spec == Init /\ [][Next]_vars

\* Every call that Start makes returns, and Go's mutex starves nobody.
Fairness ==
    \A c \in Callers : WF_vars(GetClient(c)) /\ SF_vars(Lock(c))

FairSpec == Spec /\ Fairness

-----------------------------------------------------------------------------
(***************************************************************************)
(* Properties                                                              *)
(***************************************************************************)

\* However many goroutines find no instance at the same time, all of them
\* are given the same one ("Create singleton instance with check-lock-check
\* pattern", giteaclient.go:62).
OneInstance ==
    \A c \in Callers : got[c] # Nobody => got[c] = singleInstance

Single == INSTANCE GiteaSingleton WITH
             gitea <- IF singleInstance = Nobody THEN "none"
                      ELSE IF singleInstance \in giteaClient THEN "ready"
                      ELSE "broken"

\* Seen from the handlers, the mutex, the two checks and the calls of Start
\* are one decision made once, and a handler that goes on has a client: the
\* data race of the first check at worst ends a handler early.
DecidedOnce == Single!Spec

\* Every goroutine that calls GetClient is told something, also when the one
\* that holds the mutex cannot reach Gitea.
AllTold == \A c \in Callers : pc[c] = "check" ~> pc[c] = "idle"
=============================================================================
