----------------------------- MODULE Manifests -----------------------------
(***************************************************************************)
(* The edit of a clone between the scan and the commit: both handlers of   *)
(* restapi_server.go start a goroutine for every match the scan returned,  *)
(* two at a time through a semaphore; each reads its manifest, changes one *)
(* field of the first document and writes that document back as the whole  *)
(* file (UpdateResourceQuota, UpdateResourceReplicasMachineDeployment of   *)
(* reconcilers/git/gitea.go).  MgmtServer takes this edit as one step over *)
(* manifests of one field; here it is made read by read and write by write *)
(* over manifests of several documents.                                    *)
(***************************************************************************)
EXTENDS Integers, Sequences, FiniteSets

CONSTANTS
    Files,          \* the manifests of the clone
    Names,          \* the names documents and requests go by
    Layouts,        \* the clones to edit: Files -> sequences of documents
    Requests,       \* what is asked for
    Slots           \* capacity of the semaphore (2 in the code)

Missing == -1       \* a field the document does not have

Documents ==
    [kind: {"MachineDeployment", "ResourceQuota", "NamespaceQuota", "Other"},
     name: Names, replicas: Nat \cup {Missing}, hard: Nat \cup {Missing}]

ASSUME LayoutsAssumption ==
    \A layout \in Layouts :
        /\ layout \in [Files -> Seq(Documents)]
        /\ \A f \in Files : layout[f] # <<>>
ASSUME RequestsAssumption ==
    Requests \subseteq [kind: {"NamespaceQuota", "ResourceQuota"},
                        name: Names, value: Nat]
ASSUME FilesAssumption == IsFiniteSet(Files)
ASSUME SlotsAssumption == Slots \in Nat \ {0}

\* The one-field view of a clone that the commits of MgmtServer are made of.
R == INSTANCE Repository WITH Namespaces <- {}, Repos <- {}, InitTree <- <<>>

VARIABLES
    request,
    original,   \* the clone as the scan saw it
    content,    \* content[f]: the documents of f on the disk, none of a file
                \* that has been truncated and not written yet
    pc,         \* pc[<<f, i>>]: the goroutine for the match at document i of f
    draft,      \* draft[j]: the document goroutine j is about to write
    sem,        \* slots taken
    errChan,    \* errors sent
    result      \* what the handler goes on with

vars == <<request, original, content, pc, draft, sem, errChan, result>>

-----------------------------------------------------------------------------
Matches(b, d) ==
    /\ d.name = b.name
    /\ d.kind = IF b.kind = "NamespaceQuota" THEN "MachineDeployment"
                                             ELSE "ResourceQuota"

\* The matches of the scan: a file is listed once for every document.
MatchList(b, layout) ==
    UNION {{f} \X {i \in DOMAIN layout[f] : Matches(b, layout[f][i])} :
               f \in Files}

\* Whether the update function accepts the first document.  The name is not
\* looked at.
Accepted(b, d) ==
    /\ d.kind # "Other"
    /\ b.kind = "NamespaceQuota" => d.replicas # Missing

\* What it makes of it.
Update(b, d) ==
    IF b.kind = "NamespaceQuota"
    THEN [d EXCEPT !.replicas = R!Increment(@, b.value)]
    ELSE [d EXCEPT !.hard = b.value]

\* An increment that changes nothing is not written.
Unwritten(b, d) == b.kind = "NamespaceQuota" /\ Update(b, d) = d

Jobs == DOMAIN pc

Goto(j, label) == pc' = [pc EXCEPT ![j] = label]

\* The goroutines, the semaphore and the error channel are in their types.
TypeOK ==
    /\ request \in Requests
    /\ original \in Layouts
    /\ content \in [Files -> Seq(Documents)]
    /\ pc \in [MatchList(request, original) ->
                 {"started", "reading", "opening", "writing", "reporting",
                  "leaving", "gone"}]
    /\ draft \in [Jobs -> Documents]
    /\ sem \in 0 .. Slots
    /\ errChan \in Nat
    /\ result \in {"none", "committed", "dropped"}

Init ==
    /\ request \in Requests
    /\ original \in Layouts
    /\ content = original
    /\ pc = [j \in MatchList(request, original) |-> "started"]
    /\ draft = [j \in Jobs |-> original[j[1]][j[2]]]
    /\ sem = 0
    /\ errChan = 0
    /\ result = "none"

-----------------------------------------------------------------------------
(***************************************************************************)
(* A goroutine.  Any call on the file may fail.                            *)
(***************************************************************************)
Enter(j) ==
    /\ pc[j] = "started"
    /\ sem < Slots
    /\ sem' = sem + 1
    /\ Goto(j, "reading")
    /\ UNCHANGED <<request, original, content, draft, errChan, result>>

\* ReadFile and Unmarshal.  A file that another goroutine has truncated has
\* no kind and is not accepted.
ReadFile(j) ==
    /\ pc[j] = "reading"
    /\ \/ Goto(j, "reporting") /\ UNCHANGED draft
       \/ LET docs == content[j[1]] IN
          /\ docs # <<>>
          /\ Accepted(request, Head(docs))
          /\ IF Unwritten(request, Head(docs))
             THEN Goto(j, "leaving") /\ UNCHANGED draft
             ELSE /\ Goto(j, "opening")
                  /\ draft' = [draft EXCEPT ![j] = Update(request, Head(docs))]
    /\ UNCHANGED <<request, original, content, sem, errChan, result>>

\* WriteFile opens the file with O_TRUNC ...
OpenFile(j) ==
    /\ pc[j] = "opening"
    /\ \/ Goto(j, "reporting") /\ UNCHANGED content
       \/ /\ content' = [content EXCEPT ![j[1]] = <<>>]
          /\ Goto(j, "writing")
    /\ UNCHANGED <<request, original, draft, sem, errChan, result>>

\* Mutant: the error of the write is not looked at.
WriteFileUnchecked(j) ==
    /\ pc[j] = "writing"
    /\ \/ UNCHANGED content
       \/ content' = [content EXCEPT ![j[1]] = <<draft[j]>>]
    /\ Goto(j, "leaving")
    /\ UNCHANGED <<request, original, draft, sem, errChan, result>>

\* ... and then writes it.
WriteFile(j) ==
    /\ pc[j] = "writing"
    /\ \/ Goto(j, "reporting") /\ UNCHANGED content
       \/ /\ content' = [content EXCEPT ![j[1]] = <<draft[j]>>]
          /\ Goto(j, "leaving")
    /\ UNCHANGED <<request, original, draft, sem, errChan, result>>

\* Mutant: errChan holds a single error, and nobody reads it before the end.
ReportToOne(j) ==
    /\ pc[j] = "reporting"
    /\ errChan < 1
    /\ errChan' = errChan + 1
    /\ Goto(j, "leaving")
    /\ UNCHANGED <<request, original, content, draft, sem, result>>

\* errChan has room for an error of every goroutine.
Report(j) ==
    /\ pc[j] = "reporting"
    /\ errChan < Cardinality(Jobs)
    /\ errChan' = errChan + 1
    /\ Goto(j, "leaving")
    /\ UNCHANGED <<request, original, content, draft, sem, result>>

\* Mutant: the slot is given back by the error path and by the deferred call.
LeaveTwice(j) ==
    /\ pc[j] = "leaving"
    /\ sem' = IF errChan > 0 THEN sem - 2 ELSE sem - 1
    /\ Goto(j, "gone")
    /\ UNCHANGED <<request, original, content, draft, errChan, result>>

Leave(j) ==
    /\ pc[j] = "leaving"
    /\ sem' = sem - 1
    /\ Goto(j, "gone")
    /\ UNCHANGED <<request, original, content, draft, errChan, result>>

Goroutine(j) ==
    Enter(j) \/ ReadFile(j) \/ OpenFile(j) \/ WriteFile(j) \/ Report(j)
        \/ Leave(j)

-----------------------------------------------------------------------------
\* Mutant: a goroutine adds itself to the wait group when it runs.
JoinStarted ==
    /\ result = "none"
    /\ \A j \in Jobs : pc[j] \in {"started", "gone"}
    /\ result' = IF errChan = 0 THEN "committed" ELSE "dropped"
    /\ UNCHANGED <<request, original, content, pc, draft, sem, errChan>>

\* The handler waits for all of them and commits if none sent an error.
\* Without a match it has returned before.
Join ==
    /\ result = "none"
    /\ \A j \in Jobs : pc[j] = "gone"
    /\ result' = IF errChan = 0 /\ Jobs # {} THEN "committed" ELSE "dropped"
    /\ UNCHANGED <<request, original, content, pc, draft, sem, errChan>>

Next == (\E j \in Jobs : Goroutine(j)) \/ Join

Spec == Init /\ [][Next]_vars

\* The Go scheduler runs the handler and every goroutine that can go on; one
\* that waits for a slot gets it in the end, as the others run out.
Fairness ==
    /\ WF_vars(Join)
    /\ \A j \in UNION {MatchList(b, layout) : b \in Requests, layout \in Layouts} :
          WF_vars(j \in Jobs /\ Goroutine(j))

FairSpec == Spec /\ Fairness

-----------------------------------------------------------------------------
(***************************************************************************)
(* Properties                                                              *)
(***************************************************************************)
\* The scaled field of the first document of f.
Field(docs) == IF request.kind = "NamespaceQuota" THEN docs[1].replicas
                                                  ELSE docs[1].hard

Picked == {j[1] : j \in Jobs}

\* Over manifests of one document each, what is committed is what MgmtServer
\* takes the edit for: one step from the scanned tree to the edited one,
\* whatever the order of the goroutines and whichever call failed on the way.
AtomicOnSingles ==
    result = "committed" /\ (\A f \in Files : Len(original[f]) = 1) =>
        /\ \A f \in Files : Len(content[f]) = 1
        /\ [f \in Files |-> Field(content[f])] =
               R!Edited(request, Picked, [f \in Files |-> Field(original[f])])

\* Document d after n updates, one or more, each of which read what the one
\* before it has written: machines are added one by one up to MaxNodes, the
\* hard limits of a quota are replaced.
Applied(n, d) ==
    IF request.kind = "NamespaceQuota"
    THEN [d EXCEPT !.replicas = IF @ = 0 \/ @ = request.value THEN @
                                ELSE IF @ + n > request.value THEN request.value
                                ELSE @ + n]
    ELSE [d EXCEPT !.hard = request.value]

\* Goroutines that share a file may lose each other's updates, but what is
\* committed is whole: a manifest nobody picked is as it was cloned, and a
\* picked one holds its first document updated at least once and at most as
\* often as the file was listed, never the empty file between the truncation
\* and the write of another goroutine.
CommittedWhole ==
    result = "committed" =>
        \A f \in Files :
            LET listed == Cardinality({j \in Jobs : j[1] = f})
                first == Head(original[f]) IN
            \/ listed = 0 /\ content[f] = original[f]
            \/ listed > 0 /\ content[f] = original[f] /\ Unwritten(request, first)
            \/ \E n \in 1 .. listed : content[f] = <<Applied(n, first)>>

\* The handler gets past wg.Wait, however many goroutines fail: none waits
\* for ever for a slot or for room in errChan.
Joined == <>(result # "none")
=============================================================================
