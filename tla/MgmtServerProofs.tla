-------------------------- MODULE MgmtServerProofs --------------------------
(***************************************************************************)
(* Proofs about MgmtServer, for any number of requests, repositories,      *)
(* files and restarts: first what holds of the git history and of the      *)
(* syncs, then that the server implements GitOps.                          *)
(***************************************************************************)
EXTENDS MgmtServer, TLAPS

(***************************************************************************)
(* The inductive invariant                                                 *)
(***************************************************************************)

\* The clone of a handler that has not pushed yet: what it read is the tree
\* of a revision of main, and once edited its request applied to that tree.
CloneInv ==
    \A r \in Requests :
        LET base == TreeAt(body[r].repo, clone[r].rev) IN
        /\ pc[r] \in {"edit", "secret2", "commit", "push"} =>
              clone[r].rev <= Len(log[body[r].repo])
        /\ pc[r] = "edit" => clone[r].tree = base
        /\ pc[r] \in {"secret2", "commit", "push"} =>
              clone[r].tree = Edited(body[r], clone[r].picked, base)

\* The author of a commit is past its push, and its clone is not touched
\* any more.
AuthorInv ==
    \A p \in Repos : \A i \in 1 .. Len(log[p]) :
        pc[log[p][i].by] \in {"cluster", "getApp", "updateApp", "done"}

\* Whoever gets as far as the Argo CD application has pushed.
PushedInv ==
    \A r \in Requests :
        pc[r] \in {"cluster", "getApp", "updateApp"} =>
            \E i \in 1 .. Len(log[body[r].repo]) : log[body[r].repo][i].by = r

\* A synced request's commit is covered by the operation that is asked for,
\* by the one that runs, or by what is deployed, unless the last operation
\* failed.
Covered(p, i) ==
    \/ operation[p].state = "requested"
    \/ operation[p].state = "running" /\ i <= operation[p].rev
    \/ /\ operation[p].state = "unset"
       /\ phase[p] = "Succeeded" => i <= deployed[p]

SyncInv ==
    \A r \in Requests : outcome[r] \in {"synced", "merged"} =>
        \E i \in 1 .. Len(log[body[r].repo]) :
            /\ log[body[r].repo][i].by = r
            /\ outcome[r] = "synced" => Covered(body[r].repo, i)

HistoryInv == CloneInv /\ AuthorInv /\ LinearHistory /\ CommitFollowsBase

-----------------------------------------------------------------------------
(***************************************************************************)
(* What a step does to the control state.  Most calls of a handler are     *)
(* quiet: they touch neither a clone nor a history, and leave the handler  *)
(* in the part of its path it is in, or end it.                            *)
(***************************************************************************)
BeforeEdit == {"namespace", "createNs", "getNq", "createNq", "updateNq",
               "secret", "client", "clone"}
AfterEdit == {"secret2", "commit", "push"}
Pushed == {"cluster", "getApp", "updateApp"}

Moves(r, l, o) ==
    /\ pc' = [pc EXCEPT ![r] = l]
    /\ outcome' = [outcome EXCEPT ![r] = o]
    /\ body' = body
    /\ l \in Labels \ {"idle"}
    /\ o \in Outcomes
    /\ l # "done" <=> o = "none"

Quiet(r) ==
    /\ \E l \in Labels, o \in Outcomes :
          /\ Moves(r, l, o)
          /\ \/ pc[r] \in BeforeEdit /\ l \in BeforeEdit
             \/ pc[r] \in AfterEdit /\ l \in AfterEdit
             \/ pc[r] \in Pushed /\ l \in Pushed
             \/ /\ pc[r] \in Labels \ {"idle", "done"} 
                /\ l = "done"
                /\ o \notin {"rejected", "synced", "merged"}
    /\ UNCHANGED <<clone, log>>

LEMMA GotoMoves ==
    ASSUME ControlOK, NEW r \in Requests, pc[r] # "done",
           NEW l \in Labels \ {"idle", "done"}, Goto(r, l), body' = body
    PROVE  Moves(r, l, "none")
BY DEF ControlOK, Goto, Moves, Outcomes

LEMMA ReturnMoves ==
    ASSUME ControlOK, NEW r \in Requests, NEW o \in Outcomes \ {"none"},
           Return(r, o), body' = body
    PROVE  Moves(r, "done", o)
BY DEF ControlOK, Return, Moves, Labels

LEMMA MovesControl ==
    ASSUME ControlOK, NEW r \in Requests, pc[r] # "idle", NEW l, NEW o,
           Moves(r, l, o)
    PROVE  ControlOK'
BY DEF ControlOK, Moves

LEMMA QuietSteps ==
    ASSUME ControlOK, NEW r \in Requests,
           \/ GetNamespace(r)
           \/ CreateNamespace(r)
           \/ GetNq(r)
           \/ CreateNq(r)
           \/ UpdateNq(r)
           \/ GetSecret(r)
           \/ GetClient(r)
           \/ GetSecretAgain(r)
           \/ Commit(r)
           \/ GetCluster(r)
           \/ GetApp(r)
           \/ CallFails(r)
    PROVE  Quiet(r)
<1>1. CASE GetNamespace(r)
  BY <1>1, GotoMoves, ReturnMoves
  DEF GetNamespace, AfterNamespace, Quiet, BeforeEdit, AfterEdit, Pushed,
      Labels, Outcomes
<1>2. CASE CreateNamespace(r)
  BY <1>2, GotoMoves, ReturnMoves
  DEF CreateNamespace, AfterNamespace, Quiet, BeforeEdit, AfterEdit, Pushed,
      Labels, Outcomes
<1>3. CASE GetNq(r)
  BY <1>3, GotoMoves, ReturnMoves
  DEF GetNq, Quiet, BeforeEdit, AfterEdit, Pushed, Labels, Outcomes
<1>4. CASE CreateNq(r)
  BY <1>4, GotoMoves, ReturnMoves
  DEF CreateNq, Quiet, BeforeEdit, AfterEdit, Pushed, Labels, Outcomes
<1>5. CASE UpdateNq(r)
  BY <1>5, GotoMoves, ReturnMoves
  DEF UpdateNq, Quiet, BeforeEdit, AfterEdit, Pushed, Labels, Outcomes
<1>6. CASE GetSecret(r)
  BY <1>6, GotoMoves, ReturnMoves
  DEF GetSecret, Quiet, BeforeEdit, AfterEdit, Pushed, Labels, Outcomes
<1>7. CASE GetClient(r)
  BY <1>7, GotoMoves, ReturnMoves
  DEF GetClient, Quiet, BeforeEdit, AfterEdit, Pushed, Labels, Outcomes
<1>8. CASE GetSecretAgain(r)
  BY <1>8, GotoMoves, ReturnMoves
  DEF GetSecretAgain, Quiet, BeforeEdit, AfterEdit, Pushed, Labels, Outcomes
<1>9. CASE Commit(r)
  BY <1>9, GotoMoves, ReturnMoves
  DEF Commit, Quiet, BeforeEdit, AfterEdit, Pushed, Labels, Outcomes
<1>10. CASE GetCluster(r)
  BY <1>10, GotoMoves, ReturnMoves
  DEF GetCluster, Quiet, BeforeEdit, AfterEdit, Pushed, Labels, Outcomes
<1>11. CASE GetApp(r)
  BY <1>11, GotoMoves, ReturnMoves
  DEF GetApp, Quiet, BeforeEdit, AfterEdit, Pushed, Labels, Outcomes
<1>12. CASE CallFails(r)
  BY <1>12, GotoMoves, ReturnMoves
  DEF CallFails, FailingCalls, Quiet, BeforeEdit, AfterEdit, Pushed, Labels,
      Outcomes
<1>q. QED
  BY <1>1, <1>2, <1>3, <1>4, <1>5, <1>6, <1>7, <1>8, <1>9, <1>10, <1>11, <1>12

LEMMA UpdateAppMoves ==
    ASSUME ControlOK, NEW r \in Requests, UpdateApp(r)
    PROVE  \E o \in {"synced", "merged", "unsynced"} : Moves(r, "done", o)
BY ReturnMoves DEF UpdateApp, Outcomes

LEMMA CloneMoves ==
    ASSUME ControlOK, NEW r \in Requests, CloneAndScan(r)
    PROVE  Moves(r, "edit", "none") \/ Moves(r, "done", "noMatch")
BY GotoMoves, ReturnMoves DEF CloneAndScan, Labels, Outcomes

LEMMA EditMoves ==
    ASSUME ControlOK, NEW r \in Requests, EditFiles(r)
    PROVE  Moves(r, "secret2", "none") \/ Moves(r, "commit", "none")
BY GotoMoves DEF EditFiles, Labels

LEMMA PushMoves ==
    ASSUME ControlOK, NEW r \in Requests, Push(r)
    PROVE  \/ Moves(r, AfterPush(r), "none")
           \/ \E o \in {"unsynced", "rejected"} : Moves(r, "done", o)
BY GotoMoves, ReturnMoves DEF Push, AfterPush, Labels, Outcomes

LEMMA HandlerControl ==
    ASSUME ControlOK, NEW r \in Requests, Handler(r)
    PROVE  ControlOK' /\ body[r] \in Payloads
<1>1. pc[r] # "idle"
  BY DEF Handler, GetNamespace, CreateNamespace, GetNq, CreateNq, UpdateNq,
     GetSecret, GetClient, CloneAndScan, EditFiles, GetSecretAgain, Commit,
     Push, GetCluster, GetApp, UpdateApp, CallFails, FailingCalls
<1>2. \E l, o : Moves(r, l, o)
  BY QuietSteps, UpdateAppMoves, CloneMoves, EditMoves, PushMoves
  DEF Handler, Quiet
<1>3. body[r] \in Payloads
  BY <1>1 DEF ControlOK
<1>q. QED
  BY <1>1, <1>2, <1>3, MovesControl

-----------------------------------------------------------------------------
(***************************************************************************)
(* Types                                                                   *)
(***************************************************************************)

LEMMA InitType == Init => TypeOK
BY InitTreeAssumption, CrashesAssumption
   DEF Init, TypeOK, ControlOK, ApiOK, GitOK, ArgoOK, Labels, Outcomes,
       ObjStates, Clones, NoClone, Operations, NoOperation

\* The replica count or quota written is a natural number.
LEMMA EditedType ==
    ASSUME NEW b \in Payloads, NEW picked \in SUBSET Files,
           NEW tree \in [Files -> Nat]
    PROVE  Edited(b, picked, tree) \in [Files -> Nat]
BY PayloadsAssumption DEF Edited, Updated, Increment, Bodies

LEMMA TreeAtType ==
    ASSUME GitOK, NEW p \in Repos, NEW i \in 0 .. Len(log[p])
    PROVE  TreeAt(p, i) \in [Files -> Nat]
<1>1. CASE i = 0
  BY <1>1, InitTreeAssumption DEF TreeAt, Tree
<1>2. CASE i # 0
  <2>1. log[p][i] \in Commits
    BY <1>2 DEF GitOK
  <2>q. QED
    BY <1>2, <2>1 DEF TreeAt, Tree, Commits
<1>q. QED
  BY <1>1, <1>2

LEMMA HandlerApi ==
    ASSUME ApiOK, NEW r \in Requests, body[r] \in Payloads, Handler(r)
    PROVE  ApiOK'
<1>1. body[r].ns \in Namespaces
  BY PayloadsAssumption DEF Bodies
<1>2. CASE \/ GetNamespace(r) \/ GetSecret(r) \/ GetClient(r)
         \/ CloneAndScan(r) \/ EditFiles(r) \/ GetSecretAgain(r)
         \/ Commit(r) \/ Push(r) \/ GetCluster(r)
         \/ GetApp(r) \/ UpdateApp(r) \/ CallFails(r)
  BY <1>2 DEF GetNamespace, GetSecret, GetClient, CloneAndScan, EditFiles,
              GetSecretAgain, Commit, Push, GetCluster, GetApp, UpdateApp,
              CallFails, ApiOK, apiVars, argoVars
<1>3. CASE CreateNamespace(r)
  BY <1>3, <1>1 DEF CreateNamespace, ApiOK, ObjStates
<1>4. CASE GetNq(r)
  BY <1>4, <1>1 DEF GetNq, ApiOK, ObjStates
<1>5. CASE CreateNq(r)
  BY <1>5, <1>1 DEF CreateNq, ApiOK, ObjStates
<1>6. CASE UpdateNq(r)
  BY <1>6, <1>1 DEF UpdateNq, ApiOK, ObjStates
<1>q. QED
  BY <1>2, <1>3, <1>4, <1>5, <1>6 DEF Handler

LEMMA HandlerGit ==
    ASSUME GitOK, NEW r \in Requests, body[r] \in Payloads, Handler(r)
    PROVE  GitOK'
<1>1. body[r].repo \in Repos /\ body[r].matches \in SUBSET Files
  BY PayloadsAssumption DEF Bodies
<1>2. CASE \/ GetNamespace(r) \/ CreateNamespace(r) \/ GetNq(r)
         \/ CreateNq(r) \/ UpdateNq(r) \/ GetSecret(r)
         \/ GetSecretAgain(r) \/ Commit(r) \/ GetCluster(r)
         \/ GetApp(r) \/ UpdateApp(r) \/ CallFails(r)
  BY <1>2 DEF GetNamespace, CreateNamespace, GetNq, CreateNq, UpdateNq,
              GetSecret, GetSecretAgain, Commit, GetCluster, GetApp,
              UpdateApp, CallFails, GitOK, apiVars, argoVars
<1>3. CASE GetClient(r)
  BY <1>3, <1>1 DEF GetClient, GitOK, Clones
<1>4. CASE CloneAndScan(r)
  <2> DEFINE n == Len(log[body[r].repo])
  <2>1. UNCHANGED <<gitea, log>>
    BY <1>4 DEF CloneAndScan
  <2>2. CASE UNCHANGED clone
    BY <2>1, <2>2 DEF GitOK
  <2>3. CASE clone' # clone
    <3>1. PICK picked \in SUBSET body[r].matches :
             clone' = [clone EXCEPT ![r] =
                         [rev |-> n, tree |-> TreeAt(body[r].repo, n),
                          picked |-> picked]]
      BY <1>4, <2>3 DEF CloneAndScan
    <3>2. n \in Nat /\ n \in 0 .. n
      BY <1>1 DEF GitOK
    <3>3. TreeAt(body[r].repo, n) \in [Files -> Nat]
      BY <1>1, <3>2, TreeAtType
    <3>4. clone' \in [Requests -> Clones]
      BY <1>1, <3>1, <3>2, <3>3 DEF GitOK, Clones
    <3>q. QED
      BY <2>1, <3>4 DEF GitOK
  <2>q. QED
    BY <2>2, <2>3
<1>5. CASE EditFiles(r)
  <2>1. clone[r] \in Clones
    BY DEF GitOK
  <2>2. Edited(body[r], clone[r].picked, clone[r].tree) \in [Files -> Nat]
    BY <2>1, EditedType DEF Clones
  <2>3. clone' \in [Requests -> Clones]
    BY <1>5, <2>1, <2>2 DEF EditFiles, GitOK, Clones
  <2>q. QED
    BY <1>5, <2>3 DEF EditFiles, GitOK
<1>6. CASE Push(r)
  <2>1. TheCommit(r) \in Commits
    BY DEF TheCommit, GitOK, Clones, Commits
  <2>2. \/ UNCHANGED log
        \/ log' = [log EXCEPT ![body[r].repo] = Append(@, TheCommit(r))]
    BY <1>6 DEF Push
  <2>3. Append(log[body[r].repo], TheCommit(r)) \in Seq(Commits)
    BY <1>1, <2>1 DEF GitOK
  <2>4. log' \in [Repos -> Seq(Commits)]
    BY <1>1, <2>2, <2>3 DEF GitOK
  <2>q. QED
    BY <1>6, <2>4 DEF Push, GitOK
<1>q. QED
  BY <1>2, <1>3, <1>4, <1>5, <1>6 DEF Handler

LEMMA HandlerArgo ==
    ASSUME ArgoOK, NEW r \in Requests, body[r] \in Payloads, Handler(r)
    PROVE  ArgoOK'
<1>1. body[r].repo \in Repos
  BY PayloadsAssumption DEF Bodies
<1>2. CASE \/ GetNamespace(r) \/ CreateNamespace(r) \/ GetNq(r)
         \/ CreateNq(r) \/ UpdateNq(r) \/ GetSecret(r)
         \/ GetClient(r) \/ CloneAndScan(r) \/ EditFiles(r)
         \/ GetSecretAgain(r) \/ Commit(r) \/ Push(r)
         \/ GetCluster(r) \/ CallFails(r)
  BY <1>2 DEF GetNamespace, CreateNamespace, GetNq, CreateNq, UpdateNq,
              GetSecret, GetClient, CloneAndScan, EditFiles, GetSecretAgain,
              Commit, Push, GetCluster, CallFails, ArgoOK, apiVars, argoVars
<1>3. CASE GetApp(r)
  BY <1>3, <1>1 DEF GetApp, ArgoOK, Operations, Requested
<1>4. CASE UpdateApp(r)
  <2>1. Requested \in Operations
    BY DEF Requested, Operations
  <2>q. QED
    BY <1>4, <1>1, <2>1 DEF UpdateApp, ArgoOK
<1>q. QED
  BY <1>2, <1>3, <1>4 DEF Handler

\* The body of a handler that starts is one of the payloads.
LEMMA ReceiveControl ==
    ASSUME ControlOK, NEW r \in Requests, Receive(r)
    PROVE  ControlOK'
BY DEF ControlOK, Receive, Goto, Return, Labels, Outcomes

LEMMA NextType == TypeOK /\ [Next]_vars => TypeOK'
<1> SUFFICES ASSUME TypeOK, [Next]_vars PROVE TypeOK'
  OBVIOUS
<1>1. ASSUME NEW r \in Requests, Receive(r) PROVE TypeOK'
  BY <1>1, ReceiveControl
  DEF TypeOK, Receive, ApiOK, GitOK, ArgoOK, apiVars, argoVars
<1>2. ASSUME NEW r \in Requests, Handler(r) PROVE TypeOK'
  <2>1. UNCHANGED crashes
    BY <1>2 DEF Handler, GetNamespace, CreateNamespace, GetNq, CreateNq,
       UpdateNq, GetSecret, GetClient, CloneAndScan, EditFiles,
       GetSecretAgain, Commit, Push, GetCluster, GetApp, UpdateApp, CallFails
  <2>q. QED
    BY <1>2, <2>1, HandlerControl, HandlerApi, HandlerGit, HandlerArgo
    DEF TypeOK
<1>3. ASSUME NEW p \in Repos, ArgoStart(p) \/ ArgoFinish(p) PROVE TypeOK'
  <2>1. Len(log[p]) \in Nat /\ operation[p].rev \in Nat
    BY DEF TypeOK, GitOK, ArgoOK, Operations
  <2>2. Running(Len(log[p])) \in Operations /\ NoOperation \in Operations
    BY <2>1 DEF Running, NoOperation, Operations
  <2>3. appHolders' \in [Repos -> SUBSET Requests]
    BY <1>3 DEF TypeOK, ArgoOK, ArgoStart, ArgoFinish
  <2>4. appCache' \in [Repos -> {"stale", "fresh"}]
    BY <1>3 DEF TypeOK, ArgoOK, ArgoStart, ArgoFinish
  <2>5. operation' \in [Repos -> Operations]
    BY <1>3, <2>2 DEF TypeOK, ArgoOK, ArgoStart, ArgoFinish
  <2>6. deployed' \in [Repos -> Nat]
    BY <1>3, <2>1 DEF TypeOK, ArgoOK, ArgoStart, ArgoFinish
  <2>7. phase' \in [Repos -> {"Succeeded", "Failed"}]
    BY <1>3 DEF TypeOK, ArgoOK, ArgoStart, ArgoFinish
  <2>q. QED
    BY <1>3, <2>3, <2>4, <2>5, <2>6, <2>7
    DEF TypeOK, ControlOK, ApiOK, GitOK, ArgoOK, ArgoStart, ArgoFinish, apiVars
<1>4. CASE CacheSync
  BY <1>4 DEF TypeOK, ControlOK, ApiOK, GitOK, ArgoOK, ObjStates, CacheSync,
     CacheCatchesUp
<1>5. CASE Crash
  <2>1. ControlOK'
    BY <1>5 DEF TypeOK, ControlOK, Crash, Active, Labels, Outcomes
  <2>2. ApiOK' /\ GitOK' /\ ArgoOK'
    BY <1>5 DEF TypeOK, ApiOK, GitOK, ArgoOK, ObjStates, Crash, Seen
  <2>3. crashes' \in 0 .. MaxCrashes
    BY <1>5, CrashesAssumption DEF TypeOK, Crash
  <2>q. QED
    BY <2>1, <2>2, <2>3 DEF TypeOK
<1>6. CASE UNCHANGED vars
  BY <1>6 DEF TypeOK, ControlOK, ApiOK, GitOK, ArgoOK, vars, apiVars, argoVars
<1>q. QED
  BY <1>1, <1>2, <1>3, <1>4, <1>5, <1>6 DEF Next, Environment

\* Every variable stays in its type, whatever the number of requests,
\* repositories, files and restarts.
THEOREM TypeCorrect == Spec => []TypeOK
BY InitType, NextType, PTL DEF Spec

-----------------------------------------------------------------------------
(***************************************************************************)
(* The history of the repositories                                         *)
(***************************************************************************)

\* Steps that leave clones and histories alone and keep every handler in
\* its part of the path, or end it, or start it.
Still ==
    /\ UNCHANGED <<clone, log>>
    /\ \A s \in Requests :
          /\ pc[s] # "idle" => body'[s] = body[s]
          /\ outcome'[s] = "rejected" => outcome[s] = "rejected"
          /\ \/ pc'[s] = "done"
             \/ pc'[s] = pc[s]
             \/ pc'[s] \in BeforeEdit
             \/ pc[s] \in AfterEdit /\ pc'[s] \in AfterEdit
             \/ pc[s] \in Pushed /\ pc'[s] \in Pushed
          /\ pc[s] \in Pushed \cup {"done"} => pc'[s] \in Pushed \cup {"done"}

LEMMA QuietIsStill ==
    ASSUME ControlOK, NEW r \in Requests, Quiet(r)
    PROVE  Still
BY DEF Quiet, Moves, Still, ControlOK, BeforeEdit, AfterEdit, Pushed

LEMMA NextStill ==
    ASSUME TypeOK, [Next]_vars,
           ~ \E r \in Requests : CloneAndScan(r) \/ EditFiles(r) \/ Push(r)
    PROVE  Still
<1> USE DEF TypeOK
<1>1. ASSUME NEW r \in Requests, Receive(r) PROVE Still
  BY <1>1 DEF Receive, Goto, Return, Still, ControlOK, BeforeEdit, Pushed
<1>2. ASSUME NEW r \in Requests, UpdateApp(r) PROVE Still
  <2>1. UNCHANGED <<clone, log>> /\ pc[r] = "updateApp"
    BY <1>2 DEF UpdateApp
  <2>q. QED
    BY <1>2, <2>1, UpdateAppMoves DEF Moves, Still, ControlOK, Pushed
<1>3. ASSUME NEW r \in Requests, Handler(r) PROVE Still
  BY <1>2, <1>3, QuietSteps, QuietIsStill DEF Handler
<1>4. CASE Environment \/ UNCHANGED vars
  BY <1>4 DEF Environment, ArgoStart, ArgoFinish, CacheSync, Crash, Active,
     vars, Still, ControlOK, Pushed
<1>q. QED
  BY <1>1, <1>3, <1>4 DEF Next

LEMMA StillHistory ==
    ASSUME TypeOK, HistoryInv, Still
    PROVE  HistoryInv'
<1>1. CloneInv'
  <2> SUFFICES ASSUME NEW s \in Requests
               PROVE  (LET base == TreeAt(body[s].repo, clone[s].rev) IN
                       /\ pc[s] \in {"edit", "secret2", "commit", "push"} =>
                             clone[s].rev <= Len(log[body[s].repo])
                       /\ pc[s] = "edit" => clone[s].tree = base
                       /\ pc[s] \in {"secret2", "commit", "push"} =>
                             clone[s].tree =
                               Edited(body[s], clone[s].picked, base))'
    BY DEF CloneInv
  <2>1. UNCHANGED <<clone, log>>
    BY DEF Still
  <2>2. pc'[s] = "edit" => pc[s] = "edit"
    BY DEF Still, BeforeEdit, AfterEdit, Pushed
  <2>3. pc'[s] \in AfterEdit => pc[s] \in AfterEdit
    BY DEF Still, BeforeEdit, AfterEdit, Pushed
  <2>4. pc'[s] = "edit" \/ pc'[s] \in AfterEdit => body'[s] = body[s]
    BY <2>2, <2>3 DEF Still, AfterEdit
  <2>q. QED
    BY <2>1, <2>2, <2>3, <2>4
    DEF HistoryInv, CloneInv, TreeAt, AfterEdit
<1>2. ASSUME NEW p \in Repos, NEW i \in 1 .. Len(log[p])
      PROVE  /\ log[p][i].by \in Requests
             /\ pc[log[p][i].by] \in Pushed \cup {"done"}
             /\ body'[log[p][i].by] = body[log[p][i].by]
  <2>1. log[p][i] \in Commits
    BY DEF TypeOK, GitOK
  <2>2. pc[log[p][i].by] \in Pushed \cup {"done"}
    BY DEF HistoryInv, AuthorInv, Pushed
  <2>q. QED
    BY <2>1, <2>2 DEF Commits, Still, Pushed
<1>3. AuthorInv'
  BY <1>2 DEF AuthorInv, Still, Pushed
<1>4. LinearHistory'
  BY <1>2 DEF HistoryInv, LinearHistory, Still, TreeAt
<1>5. CommitFollowsBase'
  BY <1>2 DEF HistoryInv, CommitFollowsBase, Still
<1>q. QED
  BY <1>1, <1>3, <1>4, <1>5 DEF HistoryInv

\* A handler that has not pushed may change its clone: no commit is its own.
LEMMA OthersHistory ==
    ASSUME TypeOK, HistoryInv, NEW r \in Requests, UNCHANGED <<log, body>>,
           pc[r] \in BeforeEdit \cup {"edit"},
           \A s \in Requests \ {r} : pc'[s] = pc[s] /\ clone'[s] = clone[s]
    PROVE  AuthorInv' /\ LinearHistory' /\ CommitFollowsBase'
<1>1. ASSUME NEW p \in Repos, NEW i \in 1 .. Len(log[p])
      PROVE  log[p][i].by \in Requests \ {r}
  <2>1. log[p][i] \in Commits
    BY DEF TypeOK, GitOK
  <2>2. pc[log[p][i].by] \notin BeforeEdit \cup {"edit"}
    BY DEF HistoryInv, AuthorInv, BeforeEdit
  <2>q. QED
    BY <2>1, <2>2 DEF Commits
<1>q. QED
  BY <1>1 DEF HistoryInv, AuthorInv, LinearHistory, CommitFollowsBase, TreeAt

LEMMA CloneHistory ==
    ASSUME TypeOK, HistoryInv, NEW r \in Requests,
           CloneAndScan(r) \/ EditFiles(r)
    PROVE  HistoryInv'
<1>1. UNCHANGED <<log, body>> /\ pc[r] \in {"clone", "edit"}
  BY DEF CloneAndScan, EditFiles
<1>2. \A s \in Requests \ {r} : pc'[s] = pc[s] /\ clone'[s] = clone[s]
  BY DEF CloneAndScan, EditFiles, Goto, Return, TypeOK, ControlOK, GitOK
<1>3. body[r] \in Payloads /\ body[r].repo \in Repos
  BY <1>1, PayloadsAssumption DEF TypeOK, ControlOK, Bodies
<1>4. clone[r] \in Clones /\ Len(log[body[r].repo]) \in Nat
  BY <1>3 DEF TypeOK, GitOK
<1>5. CASE CloneAndScan(r)
  <2>1. \/ pc'[r] = "done"
        \/ /\ pc'[r] = "edit"
           /\ clone'[r].rev = Len(log[body[r].repo])
           /\ clone'[r].tree = TreeAt(body[r].repo, Len(log[body[r].repo]))
    BY <1>5, <1>4 DEF CloneAndScan, Goto, Return, TypeOK, ControlOK, GitOK
  <2>2. CloneInv'
    BY <1>1, <1>2, <1>4, <2>1 DEF HistoryInv, CloneInv, TreeAt
  <2>q. QED
    BY <1>1, <1>2, <2>2, OthersHistory DEF HistoryInv, BeforeEdit
<1>6. CASE EditFiles(r)
  <2>1. /\ pc'[r] \in {"secret2", "commit"}
        /\ clone'[r].rev = clone[r].rev
        /\ clone'[r].picked = clone[r].picked
        /\ clone'[r].tree = Edited(body[r], clone[r].picked, clone[r].tree)
    BY <1>6, <1>4 DEF EditFiles, Goto, TypeOK, ControlOK, GitOK, Clones
  <2>2. CloneInv'
    BY <1>1, <1>2, <1>6, <2>1
    DEF HistoryInv, CloneInv, TreeAt, EditFiles
  <2>q. QED
    BY <1>1, <1>2, <2>2, OthersHistory DEF HistoryInv, BeforeEdit
<1>q. QED
  BY <1>5, <1>6

-----------------------------------------------------------------------------
(***************************************************************************)
(* The push                                                                *)
(***************************************************************************)

\* A push that is taken puts the commit on top of the history its author
\* cloned; one that is not leaves every history alone.
LEMMA PushOutcome ==
    ASSUME TypeOK, HistoryInv, NEW r \in Requests, Push(r)
    PROVE  LET p == body[r].repo
               n == Len(log[p]) IN
           /\ p \in Repos /\ n \in Nat /\ UNCHANGED <<body, clone>>
           /\ \A s \in Requests \ {r} :
                 pc'[s] = pc[s] /\ outcome'[s] = outcome[s]
           /\ \/ /\ clone[r].rev = n
                 /\ log' = [log EXCEPT ![p] = Append(@, TheCommit(r))]
                 /\ pc'[r] \in Pushed \cup {"done"}
                 /\ outcome'[r] \in {"none", "unsynced"}
              \/ /\ clone[r].rev < n
                 /\ UNCHANGED log
                 /\ pc'[r] = "done" /\ outcome'[r] = "rejected"
<1>1. body[r] \in Payloads /\ body[r].repo \in Repos
  BY PayloadsAssumption DEF TypeOK, ControlOK, Push, Bodies
<1>2. Len(log[body[r].repo]) \in Nat /\ clone[r].rev \in Nat
  BY <1>1 DEF TypeOK, GitOK, Clones
<1>3. clone[r].rev <= Len(log[body[r].repo])
  BY DEF Push, HistoryInv, CloneInv
<1>4. \A s \in Requests \ {r} : pc'[s] = pc[s] /\ outcome'[s] = outcome[s]
  BY DEF Push, Goto, Return, TypeOK, ControlOK
<1>5. CASE clone[r].rev = Len(log[body[r].repo])
  <2>1. Goto(r, AfterPush(r)) \/ Return(r, "unsynced")
    BY <1>5 DEF Push
  <2>2. /\ pc'[r] \in Pushed \cup {"done"}
        /\ outcome'[r] \in {"none", "unsynced"}
    BY <2>1 DEF Push, Goto, Return, AfterPush, Pushed, TypeOK, ControlOK
  <2>q. QED
    BY <1>1, <1>2, <1>4, <1>5, <2>2 DEF Push
<1>6. CASE clone[r].rev # Len(log[body[r].repo])
  <2>1. Return(r, "rejected") /\ UNCHANGED log
    BY <1>6 DEF Push
  <2>q. QED
    BY <1>1, <1>2, <1>3, <1>4, <1>6, <2>1
    DEF Push, Return, TypeOK, ControlOK
<1>q. QED
  BY <1>5, <1>6

\* What appending commit c to the history of p means, position by position.
LEMMA LogGrows ==
    ASSUME GitOK, NEW p \in Repos, NEW c \in Commits,
           log' = [log EXCEPT ![p] = Append(@, c)]
    PROVE  /\ Len(log[p]) \in Nat
           /\ Len(log'[p]) = Len(log[p]) + 1
           /\ log'[p][Len(log[p]) + 1] = c
           /\ \A i \in 1 .. Len(log[p]) : log'[p][i] = log[p][i]
           /\ \A q \in Repos \ {p} : log'[q] = log[q]
<1>1. log[p] \in Seq(Commits) /\ log'[p] = Append(log[p], c)
  BY DEF GitOK
<1>q. QED
  BY <1>1 DEF GitOK

\* What was in a history keeps its place, so the trees below it do too.
LEMMA TreesKept ==
    ASSUME GitOK, NEW p \in Repos, NEW c \in Commits,
           log' = [log EXCEPT ![p] = Append(@, c)]
    PROVE  \A q \in Repos :
             /\ Len(log[q]) <= Len(log'[q])
             /\ \A i \in 1 .. Len(log[q]) : log'[q][i] = log[q][i]
             /\ \A i \in 0 .. Len(log[q]) :
                   Tree(q, log'[q], i) = Tree(q, log[q], i)
<1> SUFFICES ASSUME NEW q \in Repos
             PROVE  /\ Len(log[q]) <= Len(log'[q])
                    /\ \A i \in 1 .. Len(log[q]) : log'[q][i] = log[q][i]
                    /\ \A i \in 0 .. Len(log[q]) :
                          Tree(q, log'[q], i) = Tree(q, log[q], i)
  OBVIOUS
<1>1. Len(log[q]) \in Nat
  BY DEF GitOK
<1>2. /\ Len(log[q]) <= Len(log'[q])
      /\ \A i \in 1 .. Len(log[q]) : log'[q][i] = log[q][i]
  BY <1>1, LogGrows
<1>q. QED
  BY <1>1, <1>2 DEF Tree

LEMMA TheCommitType ==
    ASSUME GitOK, NEW r \in Requests
    PROVE  TheCommit(r) \in Commits
BY DEF TheCommit, GitOK, Clones, Commits

LEMMA PushHistory ==
    ASSUME TypeOK, HistoryInv, NEW r \in Requests, Push(r)
    PROVE  HistoryInv'
<1> DEFINE p == body[r].repo
           n == Len(log[p])
<1>0. /\ p \in Repos /\ n \in Nat /\ UNCHANGED <<body, clone>>
      /\ \A s \in Requests \ {r} : pc'[s] = pc[s]
      /\ pc[r] = "push"
  BY PushOutcome DEF Push
<1>a. \A q \in Repos, i \in Nat : i \in 1 .. Len(log[q]) => log[q][i] \in Commits
  BY DEF TypeOK, GitOK
<1>1. CASE /\ clone[r].rev = n
           /\ log' = [log EXCEPT ![p] = Append(@, TheCommit(r))]
           /\ pc'[r] \in Pushed \cup {"done"}
  <2>1. /\ Len(log'[p]) = n + 1 /\ log'[p][n + 1] = TheCommit(r)
        /\ \A q \in Repos \ {p} : log'[q] = log[q]
    BY <1>0, <1>1, LogGrows, TheCommitType DEF TypeOK
  <2>2. \A q \in Repos :
             /\ Len(log[q]) <= Len(log'[q])
             /\ \A i \in 1 .. Len(log[q]) : log'[q][i] = log[q][i]
             /\ \A i \in 0 .. Len(log[q]) :
                   Tree(q, log'[q], i) = Tree(q, log[q], i)
    BY <1>0, <1>1, TreesKept, TheCommitType DEF TypeOK
  <2>3. \A q \in Repos, i \in Nat : i \in 1 .. Len(log'[q]) =>
           i \in 1 .. Len(log[q]) \/ (q = p /\ i = n + 1)
    BY <1>0, <2>1 DEF TypeOK, GitOK
  <2>4. CloneInv'
    <3> SUFFICES ASSUME NEW s \in Requests
                 PROVE  (LET base == TreeAt(body[s].repo, clone[s].rev) IN
                         /\ pc[s] \in {"edit", "secret2", "commit", "push"} =>
                               clone[s].rev <= Len(log[body[s].repo])
                         /\ pc[s] = "edit" => clone[s].tree = base
                         /\ pc[s] \in {"secret2", "commit", "push"} =>
                               clone[s].tree =
                                 Edited(body[s], clone[s].picked, base))'
      BY DEF CloneInv
    <3>1. CASE s = r
      BY <1>1, <3>1 DEF Pushed
    <3>2. CASE s # r /\ pc[s] \in {"edit", "secret2", "commit", "push"}
      <4>1. body[s].repo \in Repos
        BY <3>2, PayloadsAssumption DEF TypeOK, ControlOK, Bodies
      <4>2. clone[s].rev \in Nat /\ Len(log[body[s].repo]) \in Nat
        BY <4>1 DEF TypeOK, GitOK, Clones
      <4>3. clone[s].rev <= Len(log[body[s].repo])
        BY <3>2 DEF HistoryInv, CloneInv
      <4>4. Len(log[body[s].repo]) <= Len(log'[body[s].repo])
        BY <2>2, <4>1
      <4>5. Len(log'[body[s].repo]) \in Nat
        BY <4>1, <4>2, <2>1, <1>0
      <4>6. Tree(body[s].repo, log'[body[s].repo], clone[s].rev)
              = Tree(body[s].repo, log[body[s].repo], clone[s].rev)
        BY <2>2, <4>1, <4>2, <4>3
      <4>q. QED
        BY <1>0, <3>2, <4>2, <4>3, <4>4, <4>5, <4>6
        DEF HistoryInv, CloneInv, TreeAt
    <3>3. CASE s # r /\ pc[s] \notin {"edit", "secret2", "commit", "push"}
      BY <1>0, <3>3
    <3>q. QED
      BY <3>1, <3>2, <3>3
  <2>5. AuthorInv'
    <3> SUFFICES ASSUME NEW q \in Repos, NEW i \in 1 .. Len(log'[q])
                 PROVE  pc'[log'[q][i].by] \in Pushed \cup {"done"}
      BY DEF AuthorInv, Pushed
    <3>1. CASE i \in 1 .. Len(log[q])
      <4>1. log'[q][i] = log[q][i]
        BY <3>1, <2>2
      <4>2. log[q][i].by \in Requests
        BY <3>1, <1>a DEF Commits
      <4>3. pc[log[q][i].by] \in Pushed \cup {"done"}
        BY <3>1 DEF HistoryInv, AuthorInv, Pushed
      <4>4. log[q][i].by # r
        BY <1>0, <4>3 DEF Pushed
      <4>q. QED
        BY <1>0, <4>1, <4>2, <4>3, <4>4
    <3>2. CASE q = p /\ i = n + 1
      <4>1. log'[q][i].by = r
        BY <2>1, <3>2 DEF TheCommit
      <4>q. QED
        BY <1>1, <4>1
    <3>q. QED
      BY <2>3, <3>1, <3>2
  <2>6. LinearHistory'
    <3> SUFFICES ASSUME NEW q \in Repos, NEW i \in 1 .. Len(log'[q])
                 PROVE  log'[q][i].tree =
                          Edited(body[log'[q][i].by], log'[q][i].picked,
                                 Tree(q, log'[q], i - 1))
      BY <1>0 DEF LinearHistory, TreeAt
    <3>1. CASE i \in 1 .. Len(log[q])
      BY <3>1, <2>2 DEF HistoryInv, LinearHistory, TreeAt, TypeOK, GitOK
    <3>2. CASE q = p /\ i = n + 1
      <4>1. TheCommit(r).tree =
              Edited(body[r], clone[r].picked, Tree(p, log[p], n))
        BY <1>0, <1>1 DEF TheCommit, HistoryInv, CloneInv, TreeAt
      <4>2. Tree(p, log'[p], n) = Tree(p, log[p], n)
        BY <1>0, <2>2
      <4>q. QED
        <5>1. /\ log'[q][i] = TheCommit(r)
              /\ Tree(q, log'[q], i - 1) = Tree(p, log[p], n)
          BY <1>0, <2>1, <3>2, <4>2
        <5>2. TheCommit(r).by = r /\ TheCommit(r).picked = clone[r].picked
          BY DEF TheCommit
        <5>q. QED
          BY <1>0, <4>1, <5>1, <5>2
    <3>q. QED
      BY <2>3, <3>1, <3>2
  <2>7. CommitFollowsBase'
    <3> SUFFICES ASSUME NEW q \in Repos, NEW i \in 1 .. Len(log'[q])
                 PROVE  /\ body[log'[q][i].by].repo = q
                        /\ clone[log'[q][i].by].rev = i - 1
      BY <1>0 DEF CommitFollowsBase
    <3>1. CASE i \in 1 .. Len(log[q])
      BY <3>1, <2>2 DEF HistoryInv, CommitFollowsBase
    <3>2. CASE q = p /\ i = n + 1
      <4>1. log'[q][i].by = r
        BY <2>1, <3>2 DEF TheCommit
      <4>2. body'[r].repo = q /\ clone'[r].rev = n
        BY <1>0, <1>1, <3>2
      <4>q. QED
        BY <1>0, <3>2, <4>1, <4>2
    <3>q. QED
      BY <2>3, <3>1, <3>2
  <2>q. QED
    BY <2>4, <2>5, <2>6, <2>7 DEF HistoryInv
<1>2. CASE UNCHANGED log /\ pc'[r] = "done" /\ outcome'[r] = "rejected"
  <2>1. CloneInv'
    BY <1>0, <1>2 DEF HistoryInv, CloneInv, TreeAt
  <2>2. AuthorInv'
    <3> SUFFICES ASSUME NEW q \in Repos, NEW i \in 1 .. Len(log[q])
                 PROVE  pc'[log[q][i].by] \in Pushed \cup {"done"}
      BY <1>2 DEF AuthorInv, Pushed
    <3>1. log[q][i].by \in Requests
      BY <1>a DEF Commits
    <3>2. pc[log[q][i].by] \in Pushed \cup {"done"}
      BY DEF HistoryInv, AuthorInv, Pushed
    <3>q. QED
      BY <1>0, <1>2, <3>1, <3>2
  <2>3. LinearHistory' /\ CommitFollowsBase'
    BY <1>0, <1>2 DEF HistoryInv, LinearHistory, CommitFollowsBase, TreeAt
  <2>q. QED
    BY <2>1, <2>2, <2>3 DEF HistoryInv
<1>q. QED
  BY <1>1, <1>2, PushOutcome

LEMMA NextHistory == TypeOK /\ HistoryInv /\ [Next]_vars => HistoryInv'
BY NextStill, StillHistory, CloneHistory, PushHistory

LEMMA InitHistory == Init => HistoryInv
BY DEF Init, HistoryInv, CloneInv, AuthorInv, LinearHistory, CommitFollowsBase

LEMMA HistoryCorrect == Spec => []HistoryInv
BY InitHistory, NextHistory, TypeCorrect, PTL DEF Spec

\* No commit undoes another one's increment: every commit is its author's
\* request applied to the tree below it.
THEOREM NoLostUpdate == Spec => []LinearHistory
BY HistoryCorrect, PTL DEF HistoryInv

\* A commit sits on the revision its author cloned, so a request scales at
\* most once and two requests never scale from the same count.
THEOREM ScaledFromTheBase == Spec => []CommitFollowsBase
BY HistoryCorrect, PTL DEF HistoryInv

LEMMA IncrementBounds ==
    ASSUME NEW v \in Nat, NEW m \in Nat
    PROVE  \/ Increment(v, m) = v
           \/ Increment(v, m) = v + 1 /\ Increment(v, m) <= m
           \/ Increment(v, m) = m /\ Increment(v, m) < v
BY DEF Increment

LEMMA HistoryWithinMaximum == TypeOK /\ HistoryInv => NodesWithinMaximum
<1>. SUFFICES ASSUME TypeOK, HistoryInv,
                     NEW p \in Repos, NEW i \in 1 .. Len(log[p]), NEW f \in Files,
                     body[log[p][i].by].kind = "NamespaceQuota"
              PROVE  LET m == body[log[p][i].by].value
                         before == TreeAt(p, i - 1)[f]
                         after == log[p][i].tree[f] IN
                     \/ after = before
                     \/ after = before + 1 /\ after <= m
                     \/ after = m /\ after < before
  BY DEF NodesWithinMaximum
<1>. DEFINE c == log[p][i]
            b == body[c.by]
            before == TreeAt(p, i - 1)
<1>1. log[p] \in Seq(Commits) /\ Len(log[p]) \in Nat
  BY DEF TypeOK, GitOK
<1>2. c \in Commits
  BY <1>1
<1>3. c.by \in Requests
  BY <1>2 DEF Commits
<1>4. b.value \in Nat
  <2>1. pc[c.by] # "idle"
    BY DEF HistoryInv, AuthorInv
  <2>2. b \in Payloads
    BY <1>3, <2>1 DEF TypeOK, ControlOK
  <2>. QED
    BY <2>2, PayloadsAssumption DEF Bodies
<1>5. before[f] \in Nat
  <2>1. CASE i = 1
    BY <2>1, InitTreeAssumption DEF TreeAt, Tree
  <2>2. CASE i # 1
    <3>1. i - 1 \in 1 .. Len(log[p])
      BY <1>1, <2>2
    <3>2. log[p][i - 1] \in Commits
      BY <1>1, <3>1
    <3>. QED
      BY <2>2, <3>1, <3>2 DEF TreeAt, Tree, Commits
  <2>. QED
    BY <2>1, <2>2
<1>6. c.tree = Edited(b, c.picked, before)
  BY DEF HistoryInv, LinearHistory
<1>7. c.tree[f] = before[f] \/ c.tree[f] = Increment(before[f], b.value)
  BY <1>6 DEF Edited, Updated
<1>. HIDE DEF b, before, c
<1>8. \/ c.tree[f] = before[f]
      \/ c.tree[f] = before[f] + 1 /\ c.tree[f] <= b.value
      \/ c.tree[f] = b.value /\ c.tree[f] < before[f]
  BY <1>4, <1>5, <1>7, IncrementBounds
<1>. QED
  BY <1>8 DEF b, before, c

\* UpdateResourceReplicasMachineDeployment (reconcilers/git/gitea.go:373-384)
\* and the handlers around it: however requests with different maxNodes race,
\* each commit adds at most one machine to what the commit below it left, up
\* to the maximum of its request, and takes some away only down to it.
THEOREM ScaledWithinMaximum == Spec => []NodesWithinMaximum
BY HistoryCorrect, TypeCorrect, HistoryWithinMaximum, PTL

-----------------------------------------------------------------------------
(***************************************************************************)
(* What was pushed stays, and who loses a push loses it to somebody        *)
(***************************************************************************)

LEMMA NextKeepsHistory ==
    ASSUME TypeOK, HistoryInv, [Next]_vars
    PROVE  \A p \in Repos :
             /\ Len(log[p]) <= Len(log'[p])
             /\ \A i \in 1 .. Len(log[p]) : log'[p][i] = log[p][i]
<1>1. CASE \E r \in Requests : Push(r)
  <2>1. PICK r \in Requests : Push(r)
    BY <1>1
  <2>2. \/ UNCHANGED log
        \/ log' = [log EXCEPT ![body[r].repo] = Append(@, TheCommit(r))]
    BY <2>1, PushOutcome
  <2>3. body[r].repo \in Repos
    BY <2>1, PushOutcome
  <2>4. \A p \in Repos : Len(log[p]) \in Nat
    BY DEF TypeOK, GitOK
  <2>5. CASE UNCHANGED log
    BY <2>4, <2>5
  <2>6. CASE log' = [log EXCEPT ![body[r].repo] = Append(@, TheCommit(r))]
    <3>1. GitOK /\ TheCommit(r) \in Commits
      BY TheCommitType DEF TypeOK
    <3>q. QED
      BY <2>3, <2>6, <3>1, TreesKept
  <2>q. QED
    BY <2>2, <2>5, <2>6
<1>2. CASE ~ \E r \in Requests : Push(r)
  <2>1. UNCHANGED log
    BY <1>2, NextStill DEF Still, CloneAndScan, EditFiles
  <2>2. \A p \in Repos : Len(log[p]) \in Nat
    BY DEF TypeOK, GitOK
  <2>q. QED
    BY <2>1, <2>2
<1>q. QED
  BY <1>1, <1>2

\* No push drops or rewrites a commit that is on main.
THEOREM PushedStays == Spec => HistoryKept
<1>1. TypeOK /\ TypeOK' /\ HistoryInv /\ [Next]_vars =>
        [\A p \in Repos : /\ Len(log[p]) <= Len(log'[p])
                          /\ log[p] = SubSeq(log'[p], 1, Len(log[p]))]_vars
  <2> SUFFICES ASSUME TypeOK, TypeOK', HistoryInv, [Next]_vars,
                      NEW p \in Repos
               PROVE  /\ Len(log[p]) <= Len(log'[p])
                      /\ log[p] = SubSeq(log'[p], 1, Len(log[p]))
    OBVIOUS
  <2>1. /\ Len(log[p]) <= Len(log'[p])
        /\ \A i \in 1 .. Len(log[p]) : log'[p][i] = log[p][i]
    BY NextKeepsHistory
  <2>2. log[p] \in Seq(Commits) /\ log'[p] \in Seq(Commits)
    BY DEF TypeOK, GitOK
  <2>q. QED
    BY <2>1, <2>2
<1>q. QED
  BY <1>1, TypeCorrect, HistoryCorrect, PTL DEF Spec, HistoryKept

LEMMA NextRejected ==
    TypeOK /\ HistoryInv /\ RejectedByARival /\ [Next]_vars => RejectedByARival'
<1> SUFFICES ASSUME TypeOK, HistoryInv, RejectedByARival, [Next]_vars,
                    NEW s \in Requests, outcome'[s] = "rejected"
             PROVE  (\E i \in 1 .. Len(log[body[s].repo]) :
                        /\ i > clone[s].rev
                        /\ log[body[s].repo][i].by # s)'
  BY DEF RejectedByARival
<1>1. CASE /\ outcome[s] = "rejected" /\ body'[s] = body[s]
           /\ clone'[s] = clone[s]
  <2>1. body[s].repo \in Repos
    BY <1>1, PayloadsAssumption DEF TypeOK, ControlOK, Bodies
  <2>2. PICK i \in 1 .. Len(log[body[s].repo]) :
            i > clone[s].rev /\ log[body[s].repo][i].by # s
    BY <1>1 DEF RejectedByARival
  <2>3. i \in 1 .. Len(log'[body[s].repo]) /\ log'[body[s].repo][i] = log[body[s].repo][i]
    <3>1. Len(log[body[s].repo]) \in Nat /\ Len(log'[body[s].repo]) \in Nat
      BY <2>1, NextType DEF TypeOK, GitOK
    <3>q. QED
      BY <2>1, <3>1, NextKeepsHistory
  <2>q. QED
    BY <1>1, <2>2, <2>3
<1>2. CASE \E r \in Requests : Push(r)
  <2>1. PICK r \in Requests : Push(r)
    BY <1>2
  <2>2. CASE s # r
    BY <1>1, <2>1, <2>2, PushOutcome
  <2>3. CASE s = r
    <3>1. /\ UNCHANGED <<body, clone, log>> /\ body[r].repo \in Repos
          /\ clone[r].rev < Len(log[body[r].repo])
          /\ Len(log[body[r].repo]) \in Nat
      BY <2>1, <2>3, PushOutcome
    <3>2. clone[r].rev + 1 \in 1 .. Len(log[body[r].repo])
      BY <3>1 DEF TypeOK, GitOK, Clones
    <3>3. log[body[r].repo][clone[r].rev + 1].by # r
      BY <2>1, <3>1, <3>2 DEF HistoryInv, AuthorInv, Push
    <3>4. clone[r].rev + 1 > clone[r].rev
      BY DEF TypeOK, GitOK, Clones
    <3>q. QED
      BY <2>3, <3>1, <3>2, <3>3, <3>4
  <2>q. QED
    BY <2>2, <2>3
<1>3. CASE \E r \in Requests : CloneAndScan(r) \/ EditFiles(r)
  <2>1. PICK r \in Requests : CloneAndScan(r) \/ EditFiles(r)
    BY <1>3
  <2>2. s # r /\ outcome[s] = "rejected"
    BY <2>1 DEF CloneAndScan, EditFiles, Goto, Return, TypeOK, ControlOK
  <2>q. QED
    BY <1>1, <2>1, <2>2 DEF CloneAndScan, EditFiles, TypeOK, GitOK
<1>4. CASE ~ \E r \in Requests : CloneAndScan(r) \/ EditFiles(r) \/ Push(r)
  <2>1. Still
    BY <1>4, NextStill
  <2>q. QED
    BY <1>1, <2>1 DEF Still, TypeOK, ControlOK
<1>q. QED
  BY <1>2, <1>3, <1>4

\* A push is refused only because a rival pushed after the clone.
THEOREM OnlyRivalsReject == Spec => []RejectedByARival
<1>1. Init => RejectedByARival
  BY DEF Init, RejectedByARival
<1>q. QED
  BY <1>1, NextRejected, TypeCorrect, HistoryCorrect, PTL DEF Spec

-----------------------------------------------------------------------------
(***************************************************************************)
(* A synced request is deployed                                            *)
(***************************************************************************)

\* Whoever is on the way to the application, before or after a step, has a
\* commit that the step keeps.
LEMMA NextPushed ==
    TypeOK /\ HistoryInv /\ PushedInv /\ [Next]_vars => PushedInv'
<1> SUFFICES ASSUME TypeOK, HistoryInv, PushedInv, [Next]_vars,
                    NEW s \in Requests, pc'[s] \in Pushed
             PROVE  \E i \in 1 .. Len(log'[body'[s].repo]) :
                        log'[body'[s].repo][i].by = s
  BY DEF PushedInv, Pushed
<1>1. CASE pc[s] \in Pushed /\ body'[s] = body[s]
  <2>1. body[s].repo \in Repos
    BY <1>1, PayloadsAssumption DEF TypeOK, ControlOK, Bodies, Pushed
  <2>2. PICK i \in 1 .. Len(log[body[s].repo]) : log[body[s].repo][i].by = s
    BY <1>1 DEF PushedInv, Pushed
  <2>3. Len(log[body[s].repo]) \in Nat /\ Len(log'[body[s].repo]) \in Nat
    BY <2>1, NextType DEF TypeOK, GitOK
  <2>q. QED
    BY <1>1, <2>1, <2>2, <2>3, NextKeepsHistory
<1>2. CASE Push(s)
  <2>1. /\ body[s].repo \in Repos /\ UNCHANGED body
        /\ log' = [log EXCEPT ![body[s].repo] = Append(@, TheCommit(s))]
    BY <1>2, PushOutcome DEF Pushed
  <2>2. /\ Len(log[body[s].repo]) \in Nat
        /\ Len(log'[body[s].repo]) = Len(log[body[s].repo]) + 1
        /\ log'[body[s].repo][Len(log[body[s].repo]) + 1] = TheCommit(s)
    BY <2>1, LogGrows, TheCommitType DEF TypeOK
  <2>q. QED
    BY <2>1, <2>2 DEF TheCommit
<1>3. CASE \E r \in Requests : CloneAndScan(r) \/ EditFiles(r)
  BY <1>1, <1>3
  DEF CloneAndScan, EditFiles, Goto, Return, Pushed, TypeOK, ControlOK
<1>4. CASE \E r \in Requests \ {s} : Push(r)
  BY <1>1, <1>4, PushOutcome
<1>5. CASE ~ \E r \in Requests : CloneAndScan(r) \/ EditFiles(r) \/ Push(r)
  <2>1. Still
    BY <1>5, NextStill
  <2>q. QED
    BY <1>1, <2>1 DEF Still, Pushed, BeforeEdit, AfterEdit
<1>q. QED
  BY <1>2, <1>3, <1>4, <1>5

\* How an operation ends: with its revision deployed, or failed.
Ends(p) ==
    /\ operation[p].state = "running"
    /\ operation'[p] = NoOperation
    /\ phase'[p] = "Succeeded" => deployed'[p] = operation[p].rev

\* A step lets one handler only report success, which has then set the
\* operation, unless one was running; nothing else sets or clears one but
\* Argo CD.
LEMMA SyncSteps ==
    ASSUME TypeOK, [Next]_vars, NEW s \in Requests,
           outcome'[s] \in {"synced", "merged"}
    PROVE  \/ /\ UpdateApp(s)
              /\ outcome'[s] = "synced" =>
                    operation'[body[s].repo] = Requested
           \/ /\ outcome'[s] = outcome[s] /\ body'[s] = body[s]
              /\ \A p \in Repos :
                    \/ UNCHANGED <<operation[p], deployed[p], phase[p]>>
                    \/ operation'[p] = Requested
                    \/ operation'[p] = Running(Len(log[p])) /\ UNCHANGED log
                    \/ Ends(p)
<1>1. ASSUME NEW r \in Requests, UpdateApp(r)
      PROVE  \A p \in Repos :
               /\ \/ UNCHANGED <<operation[p], deployed[p], phase[p]>>
                  \/ operation'[p] = Requested
  BY <1>1 DEF UpdateApp, TypeOK, ArgoOK
<1>2. ASSUME NEW r \in Requests, UpdateApp(r), r # s
      PROVE  outcome'[s] = outcome[s] /\ body'[s] = body[s]
  BY <1>2, UpdateAppMoves DEF TypeOK, ControlOK, Moves
<1>3. CASE UpdateApp(s)
  <2>1. body[s].repo \in Repos
    BY <1>3, PayloadsAssumption DEF TypeOK, ControlOK, Bodies, UpdateApp
  <2>q. QED
    BY <1>3, <2>1 DEF UpdateApp, Return, TypeOK, ControlOK, ArgoOK
<1>4. ASSUME NEW r \in Requests, Handler(r), ~ UpdateApp(r)
      PROVE  outcome'[s] = outcome[s] /\ body'[s] = body[s]
             /\ UNCHANGED <<operation, deployed, phase>>
  <2>1. UNCHANGED <<operation, deployed, phase>>
    BY <1>4 DEF Handler, GetNamespace, CreateNamespace, GetNq, CreateNq,
       UpdateNq, GetSecret, GetClient, CloneAndScan, EditFiles,
       GetSecretAgain, Commit, Push, GetCluster, GetApp, CallFails, argoVars
  <2>2. \E l, o : Moves(r, l, o) /\ o \notin {"synced", "merged"}
    <3>1. CASE Quiet(r)
      BY <3>1 DEF Quiet, Moves, BeforeEdit, AfterEdit, Pushed
    <3>2. CASE CloneAndScan(r)
      BY <3>2, CloneMoves DEF TypeOK
    <3>3. CASE EditFiles(r)
      BY <3>3, EditMoves DEF TypeOK
    <3>4. CASE Push(r)
      BY <3>4, PushMoves DEF TypeOK
    <3>q. QED
      BY <1>4, <3>1, <3>2, <3>3, <3>4, QuietSteps DEF Handler, TypeOK
  <2>q. QED
    BY <2>1, <2>2 DEF Moves, TypeOK, ControlOK
<1>5. ASSUME NEW r \in Requests, Receive(r)
      PROVE  outcome'[s] = outcome[s] /\ body'[s] = body[s]
             /\ UNCHANGED <<operation, deployed, phase>>
  BY <1>5 DEF Receive, Goto, Return, TypeOK, ControlOK, argoVars
<1>6. ASSUME NEW q \in Repos, ArgoStart(q) \/ ArgoFinish(q)
      PROVE  /\ outcome'[s] = outcome[s] /\ body'[s] = body[s]
             /\ \A p \in Repos :
                    \/ UNCHANGED <<operation[p], deployed[p], phase[p]>>
                    \/ operation'[p] = Running(Len(log[p])) /\ UNCHANGED log
                    \/ Ends(p)
  BY <1>6 DEF ArgoStart, ArgoFinish, Ends, TypeOK, ArgoOK
<1>7. CASE CacheSync \/ Crash \/ UNCHANGED vars
  BY <1>7 DEF CacheSync, Crash, vars, argoVars, TypeOK, ControlOK
<1>q. QED
  BY <1>1, <1>2, <1>3, <1>4, <1>5, <1>6, <1>7 DEF Next, Environment

LEMMA NextSync ==
    TypeOK /\ HistoryInv /\ PushedInv /\ SyncInv /\ [Next]_vars => SyncInv'
<1> SUFFICES ASSUME TypeOK, HistoryInv, PushedInv, SyncInv, [Next]_vars,
                    NEW s \in Requests, outcome'[s] \in {"synced", "merged"}
             PROVE  (\E i \in 1 .. Len(log[body[s].repo]) :
                        /\ log[body[s].repo][i].by = s
                        /\ outcome[s] = "synced" => Covered(body[s].repo, i))'
  BY DEF SyncInv
<1>1. pc[s] # "idle"
  BY SyncSteps DEF UpdateApp, TypeOK, ControlOK
<1>2. body[s].repo \in Repos /\ body'[s] = body[s]
  BY <1>1, SyncSteps, PayloadsAssumption
  DEF UpdateApp, TypeOK, ControlOK, Bodies
<1>3. /\ Len(log[body[s].repo]) \in Nat /\ Len(log'[body[s].repo]) \in Nat
      /\ Len(log[body[s].repo]) <= Len(log'[body[s].repo])
      /\ \A i \in 1 .. Len(log[body[s].repo]) :
            log'[body[s].repo][i] = log[body[s].repo][i]
  BY <1>2, NextType, NextKeepsHistory DEF TypeOK, GitOK
<1>4. CASE /\ UpdateApp(s)
           /\ outcome'[s] = "synced" => operation'[body[s].repo] = Requested
  <2>1. PICK i \in 1 .. Len(log[body[s].repo]) : log[body[s].repo][i].by = s
    BY <1>4 DEF PushedInv, UpdateApp
  <2>q. QED
    BY <1>2, <1>3, <1>4, <2>1 DEF Covered, Requested
<1>5. CASE outcome'[s] = outcome[s]
  <2>1. PICK i \in 1 .. Len(log[body[s].repo]) :
            /\ log[body[s].repo][i].by = s
            /\ outcome[s] = "synced" => Covered(body[s].repo, i)
    BY <1>5 DEF SyncInv
  <2>2. CASE UpdateApp(s)
    BY <1>5, <2>2 DEF UpdateApp, TypeOK, ControlOK
  <2>3. CASE \/ UNCHANGED <<operation[body[s].repo], deployed[body[s].repo],
                            phase[body[s].repo]>>
             \/ operation'[body[s].repo] = Requested
             \/ /\ operation'[body[s].repo] = Running(Len(log[body[s].repo]))
                /\ UNCHANGED log
             \/ Ends(body[s].repo)
    <3>1. Covered(body[s].repo, i) => Covered(body[s].repo, i)'
      BY <1>2, <1>3, <2>1, <2>3
      DEF Covered, Requested, Running, NoOperation, Ends
    <3>q. QED
      BY <1>2, <1>3, <1>5, <2>1, <3>1
  <2>q. QED
    BY <1>2, <2>2, <2>3, SyncSteps
<1>q. QED
  BY <1>4, <1>5, SyncSteps

\* Whoever reports success has its commit on main, and once no operation is
\* left and the last one did not fail, a sync that was asked for while none
\* ran has deployed it.
THEOREM SyncReachesTheCluster == Spec => []SyncedIsDeployed
<1>1. Init => PushedInv /\ SyncInv
  BY DEF Init, PushedInv, SyncInv
<1>2. TypeOK /\ SyncInv => SyncedIsDeployed
  BY DEF SyncedIsDeployed, SyncInv, Covered, NoOperation
<1>q. QED
  BY <1>1, <1>2, NextPushed, NextSync, TypeCorrect, HistoryCorrect, PTL
  DEF Spec

-----------------------------------------------------------------------------
(***************************************************************************)
(* MgmtServer implements GitOps: concurrent handlers of many calls look    *)
(* like a service that handles one request at a time, each in one step.    *)
(* The push that is taken is that step.  At the end, conflicts at the      *)
(* mirrored NamespaceQuota, which rest on the same facts about who calls   *)
(* what.                                                                   *)
(***************************************************************************)

(***************************************************************************)
(* What the refinement needs besides the history                           *)
(***************************************************************************)
NodeCalls == {"getNq", "createNq", "updateNq"}
EditCalls == {"secret", "client", "clone", "edit", "secret2", "commit", "push"}

\* Only bodies that lead to an edit get as far as the git calls.
RouteInv ==
    \A r \in Requests :
        /\ pc[r] \in NodeCalls => body[r].kind = "NamespaceQuota"
        /\ pc[r] \in EditCalls => Service!Serviceable(body[r])

\* A handler that edits has picked some of the matches.
PickedInv ==
    \A r \in Requests :
        pc[r] \in {"edit"} \cup AfterEdit =>
            clone[r].picked \in (SUBSET body[r].matches) \ {{}}

\* Argo CD never runs a revision below the one that is deployed.
OperationInv ==
    \A p \in Repos :
        /\ deployed[p] <= Len(log[p])
        /\ operation[p].state = "running" =>
              deployed[p] <= operation[p].rev /\ operation[p].rev <= Len(log[p])

-----------------------------------------------------------------------------
LEMMA RouteStep ==
    ASSUME TypeOK, RouteInv, [Next]_vars
    PROVE  RouteInv'
<1> USE DEF TypeOK, ControlOK, RouteInv, NodeCalls, EditCalls,
            Service!Serviceable, Goto, Return
<1>1. ASSUME NEW r \in Requests, Receive(r) PROVE RouteInv'
  BY <1>1 DEF Receive
<1>2. ASSUME NEW r \in Requests,
             GetNamespace(r) \/ CreateNamespace(r)
      PROVE  RouteInv'
  BY <1>2 DEF GetNamespace, CreateNamespace, AfterNamespace
<1>3. ASSUME NEW r \in Requests, GetNq(r) \/ CreateNq(r) \/ UpdateNq(r)
      PROVE  RouteInv'
  BY <1>3 DEF GetNq, CreateNq, UpdateNq
<1>4. ASSUME NEW r \in Requests,
             \/ GetSecret(r) \/ GetClient(r) \/ CloneAndScan(r)
             \/ EditFiles(r) \/ GetSecretAgain(r) \/ Commit(r)
      PROVE  RouteInv'
  BY <1>4 DEF GetSecret, GetClient, CloneAndScan, EditFiles, GetSecretAgain,
              Commit
<1>5. ASSUME NEW r \in Requests,
             Push(r) \/ GetCluster(r) \/ GetApp(r) \/ UpdateApp(r) \/ CallFails(r)
      PROVE  RouteInv'
  BY <1>5 DEF Push, AfterPush, GetCluster, GetApp, UpdateApp, CallFails
<1>6. CASE Environment \/ UNCHANGED vars
  BY <1>6 DEF Environment, ArgoStart, ArgoFinish, CacheSync, Crash, Active,
              vars
<1>q. QED
  BY <1>1, <1>2, <1>3, <1>4, <1>5, <1>6 DEF Next, Handler

LEMMA PickedStep ==
    ASSUME TypeOK, PickedInv, [Next]_vars
    PROVE  PickedInv'
<1>1. ASSUME NEW r \in Requests, CloneAndScan(r) PROVE PickedInv'
  <2>1. /\ UNCHANGED body
        /\ \A s \in Requests \ {r} : pc'[s] = pc[s] /\ clone'[s] = clone[s]
    BY <1>1 DEF CloneAndScan, Goto, Return, TypeOK, ControlOK, GitOK
  <2>2. \/ pc'[r] = "done"
        \/ clone'[r].picked \in (SUBSET body[r].matches) \ {{}}
    BY <1>1 DEF CloneAndScan, Return, TypeOK, ControlOK, GitOK
  <2>q. QED
    BY <2>1, <2>2 DEF PickedInv, AfterEdit
<1>2. ASSUME NEW r \in Requests, EditFiles(r) PROVE PickedInv'
  <2>1. /\ UNCHANGED body /\ pc[r] = "edit"
        /\ \A s \in Requests \ {r} : pc'[s] = pc[s]
    BY <1>2 DEF EditFiles, Goto, TypeOK, ControlOK
  <2>2. \A s \in Requests : clone'[s].picked = clone[s].picked
    BY <1>2 DEF EditFiles, TypeOK, GitOK, Clones
  <2>q. QED
    BY <2>1, <2>2 DEF PickedInv, AfterEdit
<1>3. ASSUME NEW r \in Requests, Push(r) PROVE PickedInv'
  BY <1>3 DEF Push, AfterPush, PickedInv, AfterEdit, Goto, Return, TypeOK,
              ControlOK
<1>4. CASE ~ \E r \in Requests : CloneAndScan(r) \/ EditFiles(r) \/ Push(r)
  <2>1. Still
    BY <1>4, NextStill
  <2>q. QED
    BY <2>1 DEF Still, PickedInv, BeforeEdit, AfterEdit, Pushed
<1>q. QED
  BY <1>1, <1>2, <1>3, <1>4

\* The operation and what is deployed, as any step leaves them.
LEMMA OperationSteps ==
    ASSUME TypeOK, [Next]_vars, NEW p \in Repos
    PROVE  \/ UNCHANGED <<operation[p], deployed[p]>>
           \/ operation'[p] = Requested /\ UNCHANGED deployed[p]
           \/ /\ operation'[p] = Running(Len(log[p]))
              /\ UNCHANGED <<log, deployed[p]>>
           \/ /\ operation[p].state = "running"
              /\ operation'[p] = NoOperation
              /\ deployed'[p] \in {deployed[p], operation[p].rev}
              /\ UNCHANGED log
<1>1. ASSUME NEW r \in Requests, UpdateApp(r)
      PROVE  \/ UNCHANGED <<operation[p], deployed[p]>>
             \/ operation'[p] = Requested /\ UNCHANGED deployed[p]
  BY <1>1 DEF UpdateApp, TypeOK, ArgoOK
<1>2. ASSUME NEW r \in Requests, Handler(r), ~ UpdateApp(r)
      PROVE  UNCHANGED <<operation, deployed>>
  BY <1>2 DEF Handler, GetNamespace, CreateNamespace, GetNq, CreateNq,
     UpdateNq, GetSecret, GetClient, CloneAndScan, EditFiles,
     GetSecretAgain, Commit, Push, GetCluster, GetApp, CallFails, argoVars
<1>3. ASSUME NEW r \in Requests, Receive(r)
      PROVE  UNCHANGED <<operation, deployed>>
  BY <1>3 DEF Receive, argoVars
<1>4. ASSUME NEW q \in Repos, ArgoStart(q) \/ ArgoFinish(q)
      PROVE  \/ UNCHANGED <<operation[p], deployed[p]>>
             \/ /\ operation'[p] = Running(Len(log[p]))
                /\ UNCHANGED <<log, deployed[p]>>
             \/ /\ operation[p].state = "running"
                /\ operation'[p] = NoOperation
                /\ deployed'[p] \in {deployed[p], operation[p].rev}
                /\ UNCHANGED log
  BY <1>4 DEF ArgoStart, ArgoFinish, TypeOK, ArgoOK
<1>5. CASE CacheSync \/ Crash \/ UNCHANGED vars
  BY <1>5 DEF CacheSync, Crash, vars, argoVars
<1>q. QED
  BY <1>1, <1>2, <1>3, <1>4, <1>5 DEF Next, Environment

LEMMA OperationStep ==
    ASSUME TypeOK, HistoryInv, OperationInv, [Next]_vars
    PROVE  OperationInv'
<1> SUFFICES ASSUME NEW p \in Repos
             PROVE  /\ deployed'[p] <= Len(log'[p])
                    /\ operation'[p].state = "running" =>
                          /\ deployed'[p] <= operation'[p].rev
                          /\ operation'[p].rev <= Len(log'[p])
  BY DEF OperationInv
<1>1. /\ Len(log[p]) \in Nat /\ Len(log'[p]) \in Nat
      /\ Len(log[p]) <= Len(log'[p])
      /\ deployed[p] \in Nat /\ operation[p].rev \in Nat
  BY NextType, NextKeepsHistory DEF TypeOK, GitOK, ArgoOK, Operations
<1>2. /\ deployed[p] <= Len(log[p])
      /\ operation[p].state = "running" =>
            deployed[p] <= operation[p].rev /\ operation[p].rev <= Len(log[p])
  BY DEF OperationInv
<1>3. CASE UNCHANGED <<operation[p], deployed[p]>>
  BY <1>1, <1>2, <1>3
<1>4. CASE operation'[p] = Requested /\ UNCHANGED deployed[p]
  BY <1>1, <1>2, <1>4 DEF Requested
<1>5. CASE operation'[p] = Running(Len(log[p])) /\ UNCHANGED <<log, deployed[p]>>
  BY <1>1, <1>2, <1>5 DEF Running
<1>6. CASE /\ operation[p].state = "running" /\ operation'[p] = NoOperation
           /\ deployed'[p] \in {deployed[p], operation[p].rev}
           /\ UNCHANGED log
  BY <1>1, <1>2, <1>6 DEF NoOperation
<1>q. QED
  BY <1>3, <1>4, <1>5, <1>6, OperationSteps

ServiceInv == RouteInv /\ PickedInv /\ OperationInv

LEMMA ServiceInvCorrect == Spec => []ServiceInv
<1>1. Init => ServiceInv
  BY DEF Init, ServiceInv, RouteInv, PickedInv, OperationInv, NodeCalls,
         EditCalls, AfterEdit, NoOperation
<1>2. TypeOK /\ HistoryInv /\ ServiceInv /\ [Next]_vars => ServiceInv'
  BY RouteStep, PickedStep, OperationStep DEF ServiceInv
<1>q. QED
  BY <1>1, <1>2, TypeCorrect, HistoryCorrect, PTL DEF Spec

-----------------------------------------------------------------------------
(***************************************************************************)
(* Every step is one of the service's, or none                             *)
(***************************************************************************)

\* Handlers go on or end, and nothing is pushed or deployed: some requests
\* may be dropped.
LEMMA GoingOn ==
    ASSUME UNCHANGED <<body, log, deployed>>,
           \A r \in Requests : pc'[r] = "idle" <=> pc[r] = "idle",
           \A r \in Requests : pc[r] = "done" => pc'[r] = "done"
    PROVE  [Service!Next]_(Service!vars)
<1> DEFINE S == {r \in Requests : Standing(r) # Standing(r)'}
<1>1. \A r \in Requests : Committed(r)' <=> Committed(r)
  BY DEF Committed
<1>2. \A r \in S : Standing(r) = "waiting" /\ Standing(r)' = "dropped"
  BY <1>1 DEF Standing
<1>3. CASE S = {}
  BY <1>3 DEF Service!vars
<1>4. CASE S # {}
  <2>1. Service!Drop(S)
    BY <1>2, <1>4 DEF Service!Drop
  <2>q. QED
    BY <2>1 DEF Service!Next
<1>q. QED
  BY <1>3, <1>4

\* The author of a commit has started and is past its push.
LEMMA CommittedIsPast ==
    ASSUME TypeOK, HistoryInv, NEW r \in Requests, Committed(r)
    PROVE  pc[r] \in Pushed \cup {"done"}
BY DEF Committed, HistoryInv, AuthorInv, Pushed

LEMMA ReceiveSubmits ==
    ASSUME TypeOK, HistoryInv, NEW r \in Requests, Receive(r)
    PROVE  Service!Next
<1>1. PICK b \in Payloads :
        /\ body' = [body EXCEPT ![r] = b]
        /\ IF b.kind = "Other" THEN Return(r, "ignored")
                               ELSE Goto(r, "namespace")
  BY DEF Receive
<1>2. UNCHANGED <<log, deployed>> /\ pc[r] = "idle"
  BY DEF Receive, argoVars
<1>3. \A s \in Requests \ {r} : Standing(s)' = Standing(s)
  <2>1. \A s \in Requests \ {r} : pc'[s] = pc[s]
    BY <1>1 DEF Return, Goto, TypeOK, ControlOK
  <2>q. QED
    BY <1>2, <2>1 DEF Standing, Committed
<1>4. Standing(r) = "none"
  BY <1>2 DEF Standing
<1>5. Standing(r)' = IF b.kind = "Other" THEN "dropped" ELSE "waiting"
  <2>1. ~ Committed(r)
    BY <1>2, CommittedIsPast DEF Pushed
  <2>2. ~ Committed(r)'
    BY <1>2, <2>1 DEF Committed
  <2>3. pc'[r] = IF b.kind = "Other" THEN "done" ELSE "namespace"
    BY <1>1 DEF Return, Goto, TypeOK, ControlOK
  <2>q. QED
    BY <2>2, <2>3 DEF Standing
<1>6. Service!Submit(r, b)
  BY <1>1, <1>2, <1>3, <1>4, <1>5 DEF Service!Submit
<1>q. QED
  BY <1>6 DEF Service!Next

LEMMA PushApplies ==
    ASSUME TypeOK, HistoryInv, ServiceInv, NEW r \in Requests, Push(r)
    PROVE  [Service!Next]_(Service!vars)
<1> DEFINE p == body[r].repo
           n == Len(log[p])
           b == body[r]
<1>1. /\ p \in Repos /\ n \in Nat /\ UNCHANGED <<body, clone, deployed>>
      /\ \A s \in Requests \ {r} : pc'[s] = pc[s]
      /\ pc[r] = "push"
  BY PushOutcome DEF Push, argoVars
<1>2. CASE UNCHANGED log /\ pc'[r] = "done"
  BY <1>1, <1>2, GoingOn
<1>3. CASE /\ clone[r].rev = n
           /\ log' = [log EXCEPT ![p] = Append(@, TheCommit(r))]
           /\ pc'[r] \in Pushed \cup {"done"}
  <2>1. /\ Len(log'[p]) = n + 1 /\ log'[p][n + 1] = TheCommit(r)
        /\ \A i \in 1 .. n : log'[p][i] = log[p][i]
        /\ \A q \in Repos \ {p} : log'[q] = log[q]
    BY <1>1, <1>3, LogGrows, TheCommitType DEF TypeOK
  <2>2. Standing(r) = "waiting"
    <3>1. ~ Committed(r)
      BY <1>1, CommittedIsPast DEF Pushed
    <3>q. QED
      BY <1>1, <3>1 DEF Standing
  <2>3. Standing(r)' = "applied"
    <3>1. Committed(r)'
      BY <1>1, <2>1 DEF Committed, TheCommit
    <3>q. QED
      BY <1>3, <3>1 DEF Standing, Pushed
  <2>4. ASSUME NEW s \in Requests \ {r} PROVE Standing(s)' = Standing(s)
    <3>1. Committed(s) => Committed(s)'
      <4> SUFFICES ASSUME NEW q \in Repos, NEW i \in 1 .. Len(log[q]),
                          log[q][i].by = s
                   PROVE  Committed(s)'
        BY DEF Committed
      <4>1. i \in 1 .. Len(log'[q]) /\ log'[q][i] = log[q][i]
        BY <1>1, <2>1
      <4>q. QED
        BY <4>1 DEF Committed
    <3>2. Committed(s)' => Committed(s)
      <4> SUFFICES ASSUME NEW q \in Repos, NEW i \in 1 .. Len(log'[q]),
                          log'[q][i].by = s
                   PROVE  Committed(s)
        BY DEF Committed
      <4>1. CASE q = p /\ i = n + 1
        BY <1>1, <2>1, <4>1 DEF TheCommit
      <4>2. CASE q = p /\ i # n + 1
        <5>1. i \in 1 .. n
          BY <1>1, <2>1, <4>2
        <5>2. log[p][i].by = s
          BY <2>1, <4>2, <5>1
        <5>q. QED
          BY <1>1, <5>1, <5>2 DEF Committed
      <4>3. CASE q # p
        BY <2>1, <4>3 DEF Committed
      <4>q. QED
        BY <4>1, <4>2, <4>3
    <3>q. QED
      BY <1>1, <3>1, <3>2 DEF Standing
  <2>5. /\ Service!Serviceable(b)
        /\ clone[r].picked \in (SUBSET b.matches) \ {{}}
    BY <1>1 DEF ServiceInv, RouteInv, PickedInv, EditCalls, AfterEdit
  <2>6. clone[r].tree = Edited(b, clone[r].picked, Tree(p, log[p], n))
    BY <1>1, <1>3 DEF HistoryInv, CloneInv, TreeAt
  <2>7. TheCommit(r) =
          [by |-> r, picked |-> clone[r].picked,
           tree |-> Service!Edited(b, clone[r].picked,
                                   Service!Tree(p, log[p], n))]
    BY <2>6
    DEF TheCommit, Edited, Updated, Increment, Tree, Service!Edited,
        Service!Updated, Service!Increment, Service!Tree
  <2>8. Service!Apply(r)
    BY <1>1, <1>3, <2>2, <2>3, <2>4, <2>5, <2>7 DEF Service!Apply
  <2>q. QED
    BY <2>8 DEF Service!Next
<1>q. QED
  BY <1>2, <1>3, PushOutcome

LEMMA FinishDeploys ==
    ASSUME TypeOK, OperationInv, NEW p \in Repos, ArgoFinish(p)
    PROVE  [Service!Next]_(Service!vars)
<1>1. UNCHANGED <<pc, body, log>>
  BY DEF ArgoFinish
<1>2. [r \in Requests |-> Standing(r)]' = [r \in Requests |-> Standing(r)]
  BY <1>1 DEF Standing, Committed
<1>3. /\ \/ deployed' = [deployed EXCEPT ![p] = operation[p].rev]
         \/ UNCHANGED deployed
      /\ operation[p].rev \in Nat /\ deployed[p] \in Nat
      /\ Len(log[p]) \in Nat
      /\ deployed[p] <= operation[p].rev /\ operation[p].rev <= Len(log[p])
  BY DEF ArgoFinish, OperationInv, TypeOK, GitOK, ArgoOK, Operations
<1>4. CASE operation[p].rev = deployed[p] \/ UNCHANGED deployed
  <2>1. UNCHANGED deployed
    BY <1>3, <1>4 DEF TypeOK, ArgoOK
  <2>q. QED
    BY <1>1, <1>2, <2>1 DEF Service!vars
<1>5. CASE operation[p].rev # deployed[p] /\ deployed' # deployed
  <2>1. operation[p].rev \in deployed[p] + 1 .. Len(log[p])
    BY <1>3, <1>5
  <2>2. Service!Deploy(p)
    BY <1>1, <1>2, <1>3, <1>5, <2>1 DEF Service!Deploy
  <2>q. QED
    BY <2>2 DEF Service!Next
<1>q. QED
  BY <1>4, <1>5

LEMMA NextServes ==
    ASSUME TypeOK, HistoryInv, ServiceInv, [Next]_vars
    PROVE  [Service!Next]_(Service!vars)
<1>1. ASSUME NEW r \in Requests, Receive(r)
      PROVE  [Service!Next]_(Service!vars)
  BY <1>1, ReceiveSubmits
<1>2. ASSUME NEW r \in Requests, Handler(r), ~ Push(r)
      PROVE  [Service!Next]_(Service!vars)
  <2>1. UNCHANGED <<body, log, deployed>> /\ pc[r] \notin {"idle", "done"}
    BY <1>2 DEF Handler, GetNamespace, CreateNamespace, GetNq, CreateNq,
       UpdateNq, GetSecret, GetClient, CloneAndScan, EditFiles,
       GetSecretAgain, Commit, GetCluster, GetApp, UpdateApp, CallFails,
       FailingCalls, argoVars
  <2>2. \E l, o : Moves(r, l, o)
    BY <1>2, QuietSteps, UpdateAppMoves, CloneMoves, EditMoves
    DEF Handler, Quiet, TypeOK
  <2>q. QED
    BY <2>1, <2>2, GoingOn DEF Moves, TypeOK, ControlOK
<1>3. ASSUME NEW r \in Requests, Push(r)
      PROVE  [Service!Next]_(Service!vars)
  BY <1>3, PushApplies
<1>4. ASSUME NEW p \in Repos, ArgoFinish(p)
      PROVE  [Service!Next]_(Service!vars)
  BY <1>4, FinishDeploys DEF ServiceInv
<1>5. ASSUME NEW p \in Repos, ArgoStart(p)
      PROVE  [Service!Next]_(Service!vars)
  BY <1>5, GoingOn DEF ArgoStart
<1>6. CASE CacheSync \/ Crash \/ UNCHANGED vars
  <2>1. /\ UNCHANGED <<body, log, deployed>>
        /\ \A r \in Requests : \/ pc'[r] = pc[r]
                               \/ pc[r] # "idle" /\ pc'[r] = "done"
    BY <1>6 DEF CacheSync, Crash, Active, vars, argoVars
  <2>q. QED
    BY <2>1, GoingOn
<1>q. QED
  BY <1>1, <1>2, <1>3, <1>4, <1>5, <1>6 DEF Next, Environment

\* The concurrent server serves its requests atomically: every behaviour of
\* the handlers is one of GitOps, each request applied once, to the head of
\* its repository and in one step, or dropped without a trace.
THEOREM ImplementsService == Spec => ServedAtomically
<1>1. Init => Service!Init
  BY DEF Init, Service!Init, Standing, Committed
<1>2. TypeOK /\ HistoryInv /\ ServiceInv /\ [Next]_vars
        => [Service!Next]_(Service!vars)
  BY NextServes
<1>q. QED
  BY <1>1, <1>2, TypeCorrect, HistoryCorrect, ServiceInvCorrect, PTL
  DEF Spec, ServedAtomically, Service!Spec

-----------------------------------------------------------------------------
(***************************************************************************)
(* Conflicts at the mirrored NamespaceQuota                                *)
(***************************************************************************)
Early == {"namespace", "createNs"} \cup NodeCalls

\* s is a started request that mirrors the NamespaceQuota of namespace n.
Mirrors(s, n) ==
    pc[s] # "idle" /\ body[s].kind = "NamespaceQuota" /\ body[s].ns = n

Rival(r) == \E s \in Requests \ {r} : Mirrors(s, body[r].ns)

\* A cache that is behind has somebody past the Update; who is about to make
\* the Update and has lost the version has lost it to a rival.
VersionInv ==
    /\ \A n \in Namespaces : nqObj[n] = "stale" =>
          \E s \in Requests : Mirrors(s, n) /\ pc[s] \notin Early
    /\ \A r \in Requests : pc[r] = "updateNq" =>
          r \in nqHolders[body[r].ns] \/ Rival(r)
    /\ \A r \in Requests : outcome[r] = "conflict" => Rival(r)

\* A handler that has started keeps its body and never goes back.
LEMMA NeverBack ==
    ASSUME TypeOK, [Next]_vars, NEW s \in Requests, pc[s] # "idle"
    PROVE  /\ body'[s] = body[s]
           /\ pc'[s] # "idle"
           /\ pc[s] \notin Early => pc'[s] \notin Early
<1> DEFINE Goal == /\ body'[s] = body[s]
                   /\ pc'[s] # "idle"
                   /\ pc[s] \notin Early => pc'[s] \notin Early
<1> USE DEF TypeOK, ControlOK, Early, NodeCalls, Goto, Return
<1>1. ASSUME NEW r \in Requests, Receive(r) PROVE Goal
  BY <1>1 DEF Receive
<1>2. ASSUME NEW r \in Requests,
             \/ GetNamespace(r) \/ CreateNamespace(r)
             \/ GetNq(r) \/ CreateNq(r) \/ UpdateNq(r)
      PROVE  Goal
  BY <1>2 DEF GetNamespace, CreateNamespace, AfterNamespace, GetNq, CreateNq,
              UpdateNq
<1>3. ASSUME NEW r \in Requests,
             \/ GetSecret(r) \/ GetClient(r) \/ CloneAndScan(r)
             \/ EditFiles(r) \/ GetSecretAgain(r) \/ Commit(r)
      PROVE  Goal
  BY <1>3 DEF GetSecret, GetClient, CloneAndScan, EditFiles, GetSecretAgain,
              Commit
<1>4. ASSUME NEW r \in Requests,
             Push(r) \/ GetCluster(r) \/ GetApp(r) \/ UpdateApp(r) \/ CallFails(r)
      PROVE  Goal
  BY <1>4 DEF Push, AfterPush, GetCluster, GetApp, UpdateApp, CallFails
<1>5. CASE Environment \/ UNCHANGED vars
  BY <1>5 DEF Environment, ArgoStart, ArgoFinish, CacheSync, Crash, Active,
              vars
<1>q. QED
  BY <1>1, <1>2, <1>3, <1>4, <1>5 DEF Next, Handler

LEMMA MirrorsKept ==
    ASSUME TypeOK, [Next]_vars, NEW s \in Requests, NEW n, Mirrors(s, n)
    PROVE  Mirrors(s, n)'
BY NeverBack DEF Mirrors

LEMMA RivalKept ==
    ASSUME TypeOK, [Next]_vars, NEW r \in Requests, pc[r] # "idle", Rival(r)
    PROVE  Rival(r)'
<1>1. PICK s \in Requests \ {r} : Mirrors(s, body[r].ns)
  BY DEF Rival
<1>2. Mirrors(s, body[r].ns)' /\ body'[r] = body[r]
  BY <1>1, MirrorsKept, NeverBack DEF Mirrors
<1>q. QED
  BY <1>2 DEF Rival, Mirrors

\* The steps that leave versions alone.
LEMMA VersionKept ==
    ASSUME TypeOK, VersionInv, [Next]_vars,
           UNCHANGED nqHolders,
           \A n \in Namespaces : nqObj'[n] = "stale" => nqObj[n] = "stale",
           \A r \in Requests :
               /\ pc'[r] = "updateNq" => pc[r] = "updateNq"
               /\ outcome'[r] = "conflict" => outcome[r] = "conflict"
    PROVE  VersionInv'
<1>1. ASSUME NEW n \in Namespaces, nqObj'[n] = "stale"
      PROVE  \E s \in Requests : Mirrors(s, n)' /\ pc'[s] \notin Early
  <2>1. PICK s \in Requests : Mirrors(s, n) /\ pc[s] \notin Early
    BY <1>1 DEF VersionInv
  <2>q. QED
    BY <2>1, MirrorsKept, NeverBack DEF Mirrors
<1>2. ASSUME NEW r \in Requests, pc'[r] = "updateNq"
      PROVE  r \in nqHolders'[body'[r].ns] \/ Rival(r)'
  <2>1. pc[r] = "updateNq" /\ body'[r] = body[r]
    BY <1>2, NeverBack
  <2>q. QED
    BY <2>1, RivalKept DEF VersionInv
<1>3. ASSUME NEW r \in Requests, outcome'[r] = "conflict" PROVE Rival(r)'
  <2>1. outcome[r] = "conflict" /\ pc[r] # "idle"
    BY <1>3 DEF TypeOK, ControlOK
  <2>q. QED
    BY <2>1, RivalKept DEF VersionInv
<1>q. QED
  BY <1>1, <1>2, <1>3 DEF VersionInv

LEMMA NqStep ==
    ASSUME TypeOK, RouteInv, VersionInv, [Next]_vars, NEW r \in Requests,
           GetNq(r) \/ CreateNq(r) \/ UpdateNq(r)
    PROVE  VersionInv'
<1>0. PICK n \in Namespaces : n = body[r].ns
  BY PayloadsAssumption DEF Bodies, TypeOK, ControlOK, GetNq, CreateNq, UpdateNq
<1>1. /\ pc[r] \in NodeCalls
      /\ UNCHANGED body /\ Mirrors(r, n) /\ pc'[r] # "idle"
      /\ \A s \in Requests \ {r} : pc'[s] = pc[s] /\ outcome'[s] = outcome[s]
      /\ \A m \in Namespaces \ {n} :
            nqObj'[m] = nqObj[m] /\ nqHolders'[m] = nqHolders[m]
  BY <1>0 DEF RouteInv, NodeCalls, Mirrors, TypeOK, ControlOK, ApiOK, GetNq,
     CreateNq, UpdateNq, Goto, Return
<1>2. Mirrors(r, n)'
  BY <1>1, MirrorsKept
<1>3. ASSUME NEW s \in Requests \ {r}, body[s].ns = n PROVE Rival(s)'
  BY <1>0, <1>1, <1>2, <1>3 DEF Rival, Mirrors
<1>4. ASSUME NEW m \in Namespaces, nqObj'[m] = "stale"
      PROVE  \E s \in Requests : Mirrors(s, m)' /\ pc'[s] \notin Early
  <2>1. CASE nqObj[m] = "stale"
    <3>1. PICK s \in Requests : Mirrors(s, m) /\ pc[s] \notin Early
      BY <2>1 DEF VersionInv
    <3>q. QED
      BY <3>1, MirrorsKept, NeverBack DEF Mirrors
  <2>2. CASE nqObj[m] # "stale"
    <3>1. m = n /\ UpdateNq(r) /\ pc'[r] \notin Early
      BY <1>0, <1>1, <1>4, <2>2 DEF TypeOK, ControlOK, ApiOK, ObjStates, GetNq,
         CreateNq, UpdateNq, Goto, Return, Early, NodeCalls
    <3>q. QED
      BY <1>2, <3>1
  <2>q. QED
    BY <2>1, <2>2
<1>5. ASSUME NEW s \in Requests, pc'[s] = "updateNq"
      PROVE  s \in nqHolders'[body'[s].ns] \/ Rival(s)'
  <2>1. CASE s # r /\ body[s].ns = n
    BY <1>3, <2>1
  <2>2. CASE s # r /\ body[s].ns # n
    <3>1. pc[s] = "updateNq" /\ body[s].ns \in Namespaces /\ body'[s] = body[s]
      BY <1>1, <1>5, <2>2, PayloadsAssumption DEF TypeOK, ControlOK, Bodies
    <3>2. nqHolders'[body[s].ns] = nqHolders[body[s].ns]
      BY <1>1, <2>2, <3>1
    <3>q. QED
      BY <3>1, <3>2, RivalKept DEF VersionInv
  <2>3. CASE s = r /\ nqObj[n] = "stale" /\ GetNq(r)
    <3>1. PICK t \in Requests : Mirrors(t, n) /\ pc[t] \notin Early
      BY <1>1, <2>3 DEF VersionInv
    <3>2. t # r
      BY <1>1, <3>1 DEF Early
    <3>3. Mirrors(t, n)'
      BY <3>1, MirrorsKept
    <3>q. QED
      BY <1>0, <1>1, <2>3, <3>2, <3>3 DEF Rival, Mirrors
  <2>4. CASE s = r /\ ~ (nqObj[n] = "stale" /\ GetNq(r))
    BY <1>0, <1>1, <1>5, <2>4 DEF TypeOK, ControlOK, ApiOK, GetNq, CreateNq,
       UpdateNq, Goto, Return
  <2>q. QED
    BY <2>1, <2>2, <2>3, <2>4
<1>6. ASSUME NEW s \in Requests, outcome'[s] = "conflict" PROVE Rival(s)'
  <2>1. CASE s # r
    <3>1. outcome[s] = "conflict" /\ pc[s] # "idle"
      BY <1>1, <1>6, <2>1 DEF TypeOK, ControlOK
    <3>q. QED
      BY <3>1, RivalKept DEF VersionInv
  <2>2. CASE s = r
    <3>1. UpdateNq(r) /\ r \notin nqHolders[n]
      BY <1>0, <1>6, <2>2 DEF TypeOK, ControlOK, GetNq, CreateNq, UpdateNq, Goto,
         Return
    <3>2. Rival(r) /\ pc[r] # "idle"
      BY <1>0, <3>1 DEF VersionInv, UpdateNq
    <3>q. QED
      BY <2>2, <3>2, RivalKept
  <2>q. QED
    BY <2>1, <2>2
<1>q. QED
  BY <1>4, <1>5, <1>6 DEF VersionInv

LEMMA VersionStep ==
    ASSUME TypeOK, RouteInv, VersionInv, [Next]_vars
    PROVE  VersionInv'
<1> DEFINE Kept ==
      /\ UNCHANGED nqHolders
      /\ \A n \in Namespaces : nqObj'[n] = "stale" => nqObj[n] = "stale"
      /\ \A r \in Requests :
            /\ pc'[r] = "updateNq" => pc[r] = "updateNq"
            /\ outcome'[r] = "conflict" => outcome[r] = "conflict"
<1>1. ASSUME NEW r \in Requests, Receive(r) PROVE Kept
  BY <1>1 DEF TypeOK, ControlOK, Receive, apiVars, Goto, Return
<1>2. ASSUME NEW r \in Requests, GetNamespace(r) \/ CreateNamespace(r)
      PROVE  Kept
  BY <1>2 DEF TypeOK, ControlOK, GetNamespace, CreateNamespace,
              AfterNamespace, apiVars, Goto, Return
<1>3. ASSUME NEW r \in Requests,
             \/ GetSecret(r) \/ GetClient(r) \/ CloneAndScan(r)
             \/ EditFiles(r) \/ GetSecretAgain(r) \/ Commit(r)
      PROVE  Kept
  BY <1>3 DEF TypeOK, ControlOK, GetSecret, GetClient, CloneAndScan,
              EditFiles, GetSecretAgain, Commit, apiVars, Goto, Return
<1>4. ASSUME NEW r \in Requests,
             Push(r) \/ GetCluster(r) \/ GetApp(r) \/ UpdateApp(r) \/ CallFails(r)
      PROVE  Kept
  BY <1>4 DEF TypeOK, ControlOK, Push, AfterPush, GetCluster, GetApp,
              UpdateApp, CallFails, apiVars, Goto, Return
<1>5. ASSUME Environment \/ UNCHANGED vars PROVE Kept
  <2>1. CASE CacheSync
    BY <2>1 DEF CacheSync, CacheCatchesUp, TypeOK, ApiOK
  <2>2. CASE Crash
    BY <2>2 DEF Crash, Seen, Active, TypeOK, ControlOK, ApiOK
  <2>3. CASE (\E p \in Repos : ArgoStart(p) \/ ArgoFinish(p)) \/ UNCHANGED vars
    BY <2>3 DEF ArgoStart, ArgoFinish, apiVars, vars
  <2>q. QED
    BY <1>5, <2>1, <2>2, <2>3 DEF Environment
<1>6. ASSUME NEW r \in Requests, GetNq(r) \/ CreateNq(r) \/ UpdateNq(r)
      PROVE  VersionInv'
  BY <1>6, NqStep
<1>7. Kept => VersionInv'
  BY VersionKept
<1>q. QED
  BY <1>1, <1>2, <1>3, <1>4, <1>5, <1>6, <1>7 DEF Next, Handler

\* An Update conflicts only with another request for the same namespace:
\* the version a handler got from its own Create never conflicts.
THEOREM OnlyRivalsConflict == Spec => []ConflictNeedsARival
<1>1. Init => VersionInv
  BY DEF Init, VersionInv
<1>2. VersionInv /\ TypeOK => ConflictNeedsARival
  BY NoBodyAssumption
  DEF VersionInv, ConflictNeedsARival, Rival, Mirrors, TypeOK, ControlOK
<1>q. QED
  BY <1>1, <1>2, VersionStep, TypeCorrect, ServiceInvCorrect, PTL
  DEF Spec, ServiceInv
-----------------------------------------------------------------------------
(***************************************************************************)
(* Nothing is scaled for a namespace before the management cluster has it  *)
(* mirrored                                                                *)
(***************************************************************************)

\* The NamespaceQuota of n is there, with the spec of a POST for n.
Recorded(n) ==
    /\ nqObj[n] # "none"
    /\ \E s \in Requests : Mirrors(s, n) /\ nqSpec[n] = body[s]

\* What the management cluster must have for a commit for body b.
Mirrored(b) ==
    /\ nsObj[b.ns] # "none"
    /\ b.kind = "NamespaceQuota" => Recorded(b.ns)

\* How far the objects of its namespace are when a handler makes a call: who
\* works on the NamespaceQuota has the Namespace, who updates it has the
\* object, and who edits the repository has all of it.
MirrorInv ==
    /\ \A r \in Requests :
          /\ pc[r] \in NodeCalls => nsObj[body[r].ns] # "none"
          /\ pc[r] = "updateNq" => nqObj[body[r].ns] # "none"
          /\ pc[r] \in EditCalls => Mirrored(body[r])
    /\ \A p \in Repos : \A i \in 1 .. Len(log[p]) : Mirrored(body[log[p][i].by])

\* The server deletes no object, and a step that changes the spec of a
\* NamespaceQuota writes that of the handler that takes it.
LEMMA ObjectsStay ==
    ASSUME TypeOK, RouteInv, [Next]_vars, NEW n \in Namespaces
    PROVE  /\ nsObj[n] # "none" => nsObj'[n] # "none"
           /\ nqObj[n] # "none" => nqObj'[n] # "none"
           /\ \/ nqSpec'[n] = nqSpec[n]
              \/ \E r \in Requests : Mirrors(r, n) /\ nqSpec'[n] = body[r]
<1> DEFINE Goal ==
      /\ nsObj[n] # "none" => nsObj'[n] # "none"
      /\ nqObj[n] # "none" => nqObj'[n] # "none"
      /\ \/ nqSpec'[n] = nqSpec[n]
         \/ \E r \in Requests : Mirrors(r, n) /\ nqSpec'[n] = body[r]
<1>1. CASE UNCHANGED apiVars
  BY <1>1 DEF apiVars
<1>2. ASSUME NEW r \in Requests, GetNamespace(r) \/ CreateNamespace(r)
      PROVE  Goal
  BY <1>2 DEF TypeOK, ApiOK, apiVars, GetNamespace, CreateNamespace
<1>3. ASSUME NEW r \in Requests, GetNq(r) \/ CreateNq(r) PROVE Goal
  BY <1>3 DEF TypeOK, ApiOK, GetNq, CreateNq
<1>4. ASSUME NEW r \in Requests, UpdateNq(r) PROVE Goal
  <2>1. pc[r] = "updateNq" /\ body[r].kind = "NamespaceQuota"
    BY <1>4 DEF UpdateNq, RouteInv, NodeCalls
  <2>2. n = body[r].ns => Mirrors(r, n)
    BY <2>1 DEF Mirrors
  <2>3. /\ UNCHANGED nsObj
        /\ nqObj[n] # "none" => nqObj'[n] # "none"
    BY <1>4 DEF TypeOK, ApiOK, UpdateNq
  <2>4. nqSpec'[n] = nqSpec[n] \/ (n = body[r].ns /\ nqSpec'[n] = body[r])
    BY <1>4 DEF TypeOK, ApiOK, UpdateNq
  <2>q. QED
    BY <2>2, <2>3, <2>4
<1>5. CASE CacheSync
  BY <1>5 DEF CacheSync, CacheCatchesUp, TypeOK, ApiOK
<1>6. CASE Crash
  BY <1>6 DEF Crash, Seen, TypeOK, ApiOK
<1>7. \/ UNCHANGED apiVars
      \/ \E r \in Requests : \/ GetNamespace(r) \/ CreateNamespace(r)
                             \/ GetNq(r) \/ CreateNq(r) \/ UpdateNq(r)
      \/ CacheSync \/ Crash
  BY DEF Next, Handler, Environment, Receive, GetSecret, GetClient,
         CloneAndScan, EditFiles, GetSecretAgain, Commit, Push, GetCluster,
         GetApp, UpdateApp, CallFails, ArgoStart, ArgoFinish, vars
<1>q. QED
  BY <1>1, <1>2, <1>3, <1>4, <1>5, <1>6, <1>7

\* So what a commit needs of the management cluster stays there.
LEMMA MirroredStays ==
    ASSUME TypeOK, RouteInv, [Next]_vars, NEW r \in Requests,
           pc[r] # "idle", Mirrored(body[r])
    PROVE  Mirrored(body[r])'
<1>1. PICK n \in Namespaces : n = body[r].ns
  BY PayloadsAssumption DEF TypeOK, ControlOK, Bodies
<1>2. body'[r] = body[r]
  BY NeverBack
<1>3. ASSUME Recorded(n) PROVE Recorded(n)'
  <2>1. PICK s \in Requests : Mirrors(s, n) /\ nqSpec'[n] = body[s]
    BY <1>3, ObjectsStay DEF Recorded
  <2>2. Mirrors(s, n)' /\ body'[s] = body[s]
    BY <2>1, MirrorsKept, NeverBack DEF Mirrors
  <2>q. QED
    BY <1>3, <2>1, <2>2, ObjectsStay DEF Recorded
<1>4. nsObj'[n] # "none"
  BY <1>1, ObjectsStay DEF Mirrored
<1>q. QED
  BY <1>1, <1>2, <1>3, <1>4 DEF Mirrored

\* The ways to a call that needs something of the management cluster.
LEMMA WaysToACall ==
    ASSUME TypeOK, [Next]_vars, NEW r \in Requests,
           pc'[r] \in NodeCalls \cup EditCalls
    PROVE  \/ pc'[r] = pc[r]
           \/ pc[r] \in EditCalls /\ pc'[r] \in EditCalls
           \/ GetNamespace(r) \/ CreateNamespace(r)
           \/ GetNq(r) \/ CreateNq(r) \/ UpdateNq(r)
<1> DEFINE Goal == \/ pc'[r] = pc[r]
                   \/ pc[r] \in EditCalls /\ pc'[r] \in EditCalls
                   \/ GetNamespace(r) \/ CreateNamespace(r)
                   \/ GetNq(r) \/ CreateNq(r) \/ UpdateNq(r)
<1> USE DEF TypeOK, ControlOK, Goto, Return
<1>1. ASSUME NEW s \in Requests, Receive(s) PROVE Goal
  BY <1>1 DEF Receive, NodeCalls, EditCalls
<1>2. ASSUME NEW s \in Requests, GetNamespace(s) \/ CreateNamespace(s)
      PROVE  Goal
  BY <1>2 DEF GetNamespace, CreateNamespace, AfterNamespace
<1>3. ASSUME NEW s \in Requests, GetNq(s) \/ CreateNq(s) \/ UpdateNq(s)
      PROVE  Goal
  BY <1>3 DEF GetNq, CreateNq, UpdateNq
<1>4. ASSUME NEW s \in Requests,
             \/ GetSecret(s) \/ GetClient(s) \/ CloneAndScan(s)
             \/ EditFiles(s) \/ GetSecretAgain(s) \/ Commit(s)
      PROVE  Goal
  BY <1>4 DEF GetSecret, GetClient, CloneAndScan, EditFiles, GetSecretAgain,
              Commit, NodeCalls, EditCalls
<1>5. ASSUME NEW s \in Requests,
             Push(s) \/ GetCluster(s) \/ GetApp(s) \/ UpdateApp(s) \/ CallFails(s)
      PROVE  Goal
  BY <1>5 DEF Push, AfterPush, GetCluster, GetApp, UpdateApp, CallFails,
              NodeCalls, EditCalls
<1>6. CASE Environment \/ UNCHANGED vars
  BY <1>6 DEF Environment, ArgoStart, ArgoFinish, CacheSync, Crash, Active,
              vars, NodeCalls, EditCalls
<1>q. QED
  BY <1>1, <1>2, <1>3, <1>4, <1>5, <1>6 DEF Next, Handler

\* A call is made only once what it needs is there.
LEMMA CallsMirrored ==
    ASSUME TypeOK, RouteInv, MirrorInv, [Next]_vars, NEW r \in Requests
    PROVE  /\ pc'[r] \in NodeCalls => nsObj'[body'[r].ns] # "none"
           /\ pc'[r] = "updateNq" => nqObj'[body'[r].ns] # "none"
           /\ pc'[r] \in EditCalls => Mirrored(body[r])'
<1> DEFINE Ready == /\ pc'[r] \in NodeCalls => nsObj'[body'[r].ns] # "none"
                    /\ pc'[r] = "updateNq" => nqObj'[body'[r].ns] # "none"
                    /\ pc'[r] \in EditCalls => Mirrored(body[r])'
<1>1. CASE pc'[r] \notin NodeCalls \cup EditCalls
  BY <1>1 DEF NodeCalls
<1> SUFFICES ASSUME pc'[r] \in NodeCalls \cup EditCalls, pc[r] # "idle"
             PROVE  Ready
  BY <1>1, WaysToACall DEF NodeCalls, EditCalls, GetNamespace,
     CreateNamespace, GetNq, CreateNq, UpdateNq
<1>2. PICK n \in Namespaces : n = body[r].ns /\ body'[r] = body[r]
  BY NeverBack, PayloadsAssumption DEF TypeOK, ControlOK, Bodies
<1>3. CASE pc'[r] = pc[r]
  <2>1. pc[r] \in NodeCalls => nsObj'[n] # "none"
    BY <1>2, ObjectsStay DEF MirrorInv
  <2>2. pc[r] = "updateNq" => nqObj'[n] # "none"
    BY <1>2, ObjectsStay DEF MirrorInv
  <2>3. pc[r] \in EditCalls => Mirrored(body[r])'
    BY MirroredStays DEF MirrorInv
  <2>q. QED
    BY <1>2, <1>3, <2>1, <2>2, <2>3
<1>4. CASE pc[r] \in EditCalls /\ pc'[r] \in EditCalls
  <2>1. Mirrored(body[r])'
    BY <1>4, MirroredStays DEF MirrorInv
  <2>q. QED
    BY <1>4, <2>1 DEF NodeCalls, EditCalls
<1>5. CASE GetNamespace(r) \/ CreateNamespace(r)
  <2>1. nsObj'[n] # "none"
    BY <1>2, <1>5 DEF GetNamespace, CreateNamespace, AfterNamespace, apiVars,
       Goto, Return, TypeOK, ControlOK, ApiOK, NodeCalls, EditCalls
  <2>2. /\ pc'[r] # "updateNq"
        /\ pc'[r] \in EditCalls => body[r].kind = "ResourceQuota"
    BY <1>5 DEF GetNamespace, CreateNamespace, AfterNamespace, Goto, Return,
       TypeOK, ControlOK, EditCalls
  <2>q. QED
    BY <1>2, <2>1, <2>2 DEF Mirrored
<1>6. CASE GetNq(r) \/ CreateNq(r)
  <2>1. pc[r] \in NodeCalls /\ pc'[r] \notin EditCalls
    BY <1>6 DEF GetNq, CreateNq, Goto, Return, TypeOK, ControlOK, NodeCalls,
       EditCalls
  <2>2. nsObj'[n] # "none"
    BY <1>2, <2>1, ObjectsStay DEF MirrorInv
  <2>3. pc'[r] = "updateNq" => nqObj'[n] # "none"
    BY <1>2, <1>6 DEF GetNq, CreateNq, Goto, Return, TypeOK, ControlOK, ApiOK
  <2>q. QED
    BY <1>2, <2>1, <2>2, <2>3
<1>7. CASE UpdateNq(r)
  <2>1. pc[r] = "updateNq" /\ Mirrors(r, n) /\ pc'[r] \notin NodeCalls
    <3>1. /\ pc[r] = "updateNq"
          /\ \/ Goto(r, "secret")
             \/ Return(r, "failed") \/ Return(r, "conflict")
      BY <1>7 DEF UpdateNq
    <3>2. pc'[r] \in {"secret", "done"}
      BY <3>1 DEF Goto, Return, TypeOK, ControlOK
    <3>q. QED
      BY <1>2, <3>1, <3>2 DEF RouteInv, NodeCalls, Mirrors
  <2>2. nsObj'[n] # "none" /\ nqObj'[n] # "none"
    BY <1>2, <2>1, ObjectsStay DEF MirrorInv, NodeCalls
  <2>3. pc'[r] \in EditCalls => nqSpec'[n] = body[r]
    <3>1. \/ nqSpec' = [nqSpec EXCEPT ![n] = body[r]]
          \/ nqSpec[n] = body[r] /\ nqSpec' = nqSpec
          \/ Return(r, "conflict")
      BY <1>2, <1>7 DEF UpdateNq
    <3>2. Return(r, "conflict") => pc'[r] = "done"
      BY DEF Return, TypeOK, ControlOK
    <3>q. QED
      BY <3>1, <3>2 DEF EditCalls, TypeOK, ApiOK
  <2>4. Mirrors(r, n)'
    BY <2>1, MirrorsKept
  <2>q. QED
    BY <1>2, <2>1, <2>2, <2>3, <2>4 DEF Mirrored, Recorded, NodeCalls
<1>q. QED
  BY <1>3, <1>4, <1>5, <1>6, <1>7, WaysToACall

\* A commit is the push of a handler that had all of it, and it stays so.
LEMMA CommitsMirrored ==
    ASSUME TypeOK, HistoryInv, RouteInv, MirrorInv, [Next]_vars,
           NEW p \in Repos, NEW i \in 1 .. Len(log'[p])
    PROVE  Mirrored(body[log[p][i].by])'
<1>1. ASSUME NEW r \in Requests, pc[r] # "idle", Mirrored(body[r]),
             log'[p][i].by = r
      PROVE  Mirrored(body[log[p][i].by])'
  BY <1>1, MirroredStays
<1>2. CASE i \in 1 .. Len(log[p]) /\ log'[p][i] = log[p][i]
  <2>1. log[p][i].by \in Requests
    <3>1. log[p] \in Seq(Commits)
      BY DEF TypeOK, GitOK
    <3>2. log[p][i] \in Commits
      BY <1>2, <3>1
    <3>q. QED
      BY <3>2 DEF Commits
  <2>2. Committed(log[p][i].by)
    BY <1>2 DEF Committed
  <2>3. pc[log[p][i].by] # "idle"
    BY <2>1, <2>2, CommittedIsPast DEF Pushed
  <2>q. QED
    BY <1>1, <1>2, <2>1, <2>3 DEF MirrorInv
<1>3. ASSUME NEW r \in Requests, Push(r)
      PROVE  \/ i \in 1 .. Len(log[p]) /\ log'[p][i] = log[p][i]
             \/ log'[p][i].by = r
  <2>1. CASE log' = log
    BY <2>1
  <2>2. CASE log' = [log EXCEPT ![body[r].repo] = Append(@, TheCommit(r))]
    <3>1. TheCommit(r) \in Commits /\ TheCommit(r).by = r
      BY TheCommitType DEF TypeOK, TheCommit
    <3>2. body[r].repo \in Repos
      BY <1>3, PayloadsAssumption DEF Push, TypeOK, ControlOK, Bodies
    <3>q. QED
      BY <2>2, <3>1, <3>2, LogGrows DEF TypeOK
  <2>q. QED
    BY <1>3, <2>1, <2>2 DEF Push
<1>4. CASE \E r \in Requests : Push(r)
  <2>1. PICK r \in Requests : Push(r)
    BY <1>4
  <2>2. pc[r] # "idle" /\ Mirrored(body[r])
    BY <2>1 DEF Push, MirrorInv, EditCalls
  <2>q. QED
    BY <1>1, <1>2, <1>3, <2>1, <2>2
<1>5. CASE ~ \E r \in Requests : Push(r)
  <2>1. log' = log
    BY <1>5 DEF Next, Handler, Receive, GetNamespace, CreateNamespace, GetNq,
       CreateNq, UpdateNq, GetSecret, GetClient, CloneAndScan, EditFiles,
       GetSecretAgain, Commit, GetCluster, GetApp, UpdateApp, CallFails,
       Environment, ArgoStart, ArgoFinish, CacheSync, Crash, vars
  <2>q. QED
    BY <1>2, <2>1
<1>q. QED
  BY <1>4, <1>5

\* No machine is added for a namespace whose NamespaceQuota the management
\* cluster does not have with the spec of a POST, whichever of the calls of
\* handleNamespaceQuota fail and whenever the server restarts.
THEOREM MirrorFirst == Spec => []MirroredBeforeScaled
<1>1. Init => MirrorInv
  BY DEF Init, MirrorInv, NodeCalls, EditCalls
<1>2. TypeOK /\ HistoryInv /\ RouteInv /\ MirrorInv /\ [Next]_vars
        => MirrorInv'
  BY CallsMirrored, CommitsMirrored DEF MirrorInv
<1>3. MirrorInv => MirroredBeforeScaled
  BY DEF MirrorInv, Mirrored, Recorded, Mirrors, MirroredBeforeScaled
<1>q. QED
  BY <1>1, <1>2, <1>3, TypeCorrect, HistoryCorrect, ServiceInvCorrect, PTL
  DEF Spec, ServiceInv

=============================================================================
