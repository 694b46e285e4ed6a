--------------------------- MODULE ManifestsProofs ---------------------------
(***************************************************************************)
(* Over manifests of one document each the concurrent edit of a clone is   *)
(* the one step MgmtServer takes it for, for any number of manifests,      *)
(* slots and failing calls.                                                *)
(***************************************************************************)
EXTENDS Manifests, FiniteSetTheorems, TLAPS

Labels == {"started", "reading", "opening", "writing", "reporting",
           "leaving", "gone"}

\* The part of TypeOK the argument rests on.
Shapes ==
    /\ request \in Requests
    /\ original \in Layouts
    /\ content \in [Files -> Seq(Documents)]
    /\ pc \in [MatchList(request, original) -> Labels]
    /\ draft \in [MatchList(request, original) -> Documents]
    /\ errChan \in Nat

Singles == \A f \in Files : Len(original[f]) = 1

First(f) == Head(original[f])
Target(f) == Update(request, First(f))

\* What a goroutine at each label knows of its file.
Knows(j) ==
    LET f == j[1] IN
    /\ pc[j] \in {"started", "reading", "opening"} => content[f] = original[f]
    /\ pc[j] \in {"opening", "writing"} => draft[j] = Target(f)
    /\ pc[j] \in {"leaving", "gone"} =>
           errChan > 0 \/ content[f] = <<Target(f)>>

\* With one document a file there is one goroutine a file, and nobody else
\* writes it.
Edits ==
    Singles =>
        /\ \A j \in MatchList(request, original) : Knows(j)
        /\ \A f \in Files :
              <<f, 1>> \notin MatchList(request, original) =>
                  content[f] = original[f]

Ends ==
    result = "committed" =>
        errChan = 0 /\ \A j \in MatchList(request, original) : pc[j] = "gone"

Inv == Shapes /\ Edits /\ Ends

\* The goroutines of a file that have read it, those that hold a slot, and a
\* document made of the first one by goroutines that have read the file.
HaveRead(f) == {j \in MatchList(request, original) :
                   j[1] = f /\ pc[j] \notin {"started", "reading"}}
Inside == {j \in MatchList(request, original) :
              pc[j] \notin {"started", "gone"}}
Made(f, d) ==
    /\ Accepted(request, First(f))
    /\ \E n \in 1 .. Cardinality(HaveRead(f)) : d = Applied(n, First(f))
Rewritten(f) ==
    content[f] # <<>> =>
        content[f] = <<Head(content[f])>> /\ Made(f, Head(content[f]))

\* Each slot taken is held by a goroutine.
SlotsHeld ==
    /\ sem = Cardinality(Inside) /\ sem <= Slots
    /\ result \in {"none", "committed", "dropped"}

\* With several goroutines a file.  A file nobody has written is the original
\* one, an empty one is about to be written or an error is on its way, and a
\* goroutine that leaves without an error has written the file or found that
\* nothing changes.
WholeFile(f) ==
    /\ content[f] = original[f] \/ Rewritten(f)
    /\ content[f] = <<>> =>
          \/ errChan > 0
          \/ \E j \in MatchList(request, original) :
                j[1] = f /\ pc[j] \in {"writing", "reporting"}

WholeDraft(j) ==
    /\ pc[j] \in {"opening", "writing"} => Made(j[1], draft[j])
    /\ pc[j] \in {"leaving", "gone"} =>
          \/ errChan > 0
          \/ Rewritten(j[1])
          \/ Unwritten(request, First(j[1]))

Whole == /\ \A f \in Files : WholeFile(f)
         /\ \A j \in MatchList(request, original) : WholeDraft(j)

-----------------------------------------------------------------------------
\* A match names a file and, with one document a file, its first one.
LEMMA MatchShape ==
    ASSUME NEW b \in Requests, NEW layout \in Layouts,
           NEW j \in MatchList(b, layout)
    PROVE  /\ j[1] \in Files /\ j = <<j[1], j[2]>>
           /\ j[2] \in DOMAIN layout[j[1]]
           /\ Len(layout[j[1]]) = 1 => j = <<j[1], 1>>
<1>1. PICK f \in Files : j \in {f} \X {i \in DOMAIN layout[f] :
                                          Matches(b, layout[f][i])}
  BY DEF MatchList
<1>2. j[1] = f /\ j = <<j[1], j[2]>> /\ j[2] \in DOMAIN layout[f]
  BY <1>1
<1>3. layout[f] \in Seq(Documents)
  BY LayoutsAssumption
<1>4. DOMAIN layout[f] = 1 .. Len(layout[f])
  BY <1>3
<1>5. j[1] \in Files /\ j[2] \in DOMAIN layout[j[1]]
  BY <1>2
<1>6. Len(layout[j[1]]) = 1 => j[2] = 1
  BY <1>2, <1>3, <1>4
<1>7. j[2] = 1 => j = <<j[1], 1>>
  BY <1>2
<1>. QED
  BY <1>2, <1>5, <1>6, <1>7

\* Two goroutines of one file of one document are the same one.
LEMMA OneForAFile ==
    ASSUME NEW b \in Requests, NEW layout \in Layouts,
           NEW j \in MatchList(b, layout), NEW k \in MatchList(b, layout),
           Len(layout[j[1]]) = 1, j[1] = k[1]
    PROVE  j = k
<1>1. j = <<j[1], 1>>
  BY MatchShape
<1>2. k = <<k[1], 1>>
  BY MatchShape
<1>. QED
  BY <1>1, <1>2

\* An update keeps a document a document.
LEMMA UpdateType ==
    ASSUME NEW b \in Requests, NEW d \in Documents, Accepted(b, d)
    PROVE  Update(b, d) \in Documents
<1>1. b.value \in Nat
  BY RequestsAssumption
<1>2. CASE b.kind = "NamespaceQuota"
  <2>1. d.replicas \in Nat
    BY <1>2 DEF Accepted, Documents
  <2>2. R!Increment(d.replicas, b.value) \in Nat
    BY <1>1, <2>1 DEF R!Increment
  <2>. QED
    BY <1>2, <2>2 DEF Update, Documents
<1>3. CASE b.kind # "NamespaceQuota"
  BY <1>1, <1>3 DEF Update, Documents
<1>. QED
  BY <1>2, <1>3

\* The first document of a file of one document.
LEMMA FirstOfOne ==
    ASSUME NEW layout \in Layouts, NEW f \in Files, Len(layout[f]) = 1
    PROVE  /\ Head(layout[f]) \in Documents
           /\ layout[f] = <<Head(layout[f])>>
<1>1. layout[f] \in Seq(Documents)
  BY LayoutsAssumption
<1>. QED
  BY <1>1

-----------------------------------------------------------------------------
LEMMA InitInv == Init => Inv
<1>. SUFFICES ASSUME Init PROVE Inv
  OBVIOUS
<1>1. Shapes
  <2>1. original \in [Files -> Seq(Documents)]
    BY LayoutsAssumption DEF Init
  <2>2. ASSUME NEW j \in MatchList(request, original)
        PROVE  original[j[1]][j[2]] \in Documents
    <3>1. j[1] \in Files /\ j[2] \in DOMAIN original[j[1]]
      BY MatchShape DEF Init
    <3>. QED
      BY <2>1, <3>1
  <2>. QED
    BY <2>1, <2>2 DEF Init, Shapes, Labels, Jobs
<1>2. Edits
  BY DEF Init, Edits, Knows
<1>3. Ends
  BY DEF Init, Ends
<1>. QED
  BY <1>1, <1>2, <1>3 DEF Inv

\* What a step of goroutine j leaves to the others: they keep their labels,
\* their drafts and, in clones of one document a file, their files.
LEMMA OthersKeep ==
    ASSUME Inv, NEW j \in MatchList(request, original),
           NEW label \in Labels, Goto(j, label),
           UNCHANGED <<request, original>>,
           draft' \in [MatchList(request, original) -> Documents],
           \A k \in MatchList(request, original) \ {j} : draft'[k] = draft[k],
           content' \in [Files -> Seq(Documents)],
           \A f \in Files \ {j[1]} : content'[f] = content[f],
           errChan' \in Nat, errChan' >= errChan,
           Singles => Knows(j)',
           result' # "committed"
    PROVE  Inv'
<1>1. Shapes'
  BY DEF Inv, Shapes, Goto
<1>2. Edits'
  <2>. SUFFICES ASSUME Singles'
                PROVE  /\ \A k \in MatchList(request, original) : Knows(k)'
                       /\ \A f \in Files :
                            <<f, 1>> \notin MatchList(request, original) =>
                                content'[f] = original[f]
    BY DEF Edits
  <2>1. Singles
    BY DEF Singles
  <2>2. ASSUME NEW k \in MatchList(request, original), k # j
        PROVE  Knows(k)'
    <3>1. k[1] \in Files /\ k[1] # j[1]
      BY <2>1, <2>2, OneForAFile, MatchShape DEF Inv, Shapes, Singles
    <3>2. Knows(k)
      BY <2>1 DEF Inv, Edits
    <3>3. pc'[k] = pc[k]
      BY <2>2 DEF Inv, Shapes, Goto
    <3>4. content'[k[1]] = content[k[1]] /\ draft'[k] = draft[k]
      BY <2>2, <3>1
    <3>. QED
      BY <3>2, <3>3, <3>4 DEF Knows, Target, First, Inv, Shapes
  <2>3. ASSUME NEW f \in Files, <<f, 1>> \notin MatchList(request, original)
        PROVE  content'[f] = original[f]
    <3>1. f # j[1]
      <4>1. j[1] \in Files /\ (Len(original[j[1]]) = 1 => j = <<j[1], 1>>)
        BY MatchShape DEF Inv, Shapes
      <4>2. j = <<j[1], 1>>
        BY <2>1, <4>1 DEF Singles
      <4>. QED
        BY <2>3, <4>2
    <3>. QED
      BY <2>1, <2>3, <3>1 DEF Inv, Edits
  <2>. QED
    BY <2>1, <2>2, <2>3
<1>3. Ends'
  BY DEF Ends
<1>. QED
  BY <1>1, <1>2, <1>3 DEF Inv

\* No goroutine runs once the handler has joined them and found no error.
LEMMA NotCommitted ==
    ASSUME Inv, NEW j \in MatchList(request, original), pc[j] # "gone"
    PROVE  result # "committed"
BY DEF Inv, Ends

LEMMA GoroutineKeeps ==
    ASSUME Inv, NEW j \in Jobs, Goroutine(j)
    PROVE  Inv'
<1>1. j \in MatchList(request, original) /\ j[1] \in Files
  BY MatchShape DEF Inv, Shapes, Jobs
<1>2. Singles => Knows(j)
  BY <1>1 DEF Inv, Edits
<1>3. Singles => First(j[1]) \in Documents /\ original[j[1]] = <<First(j[1])>>
  BY <1>1, FirstOfOne DEF Inv, Shapes, Singles, First
<1>4. CASE Enter(j)
  <2>1. Singles => Knows(j)'
    BY <1>1, <1>2, <1>4 DEF Enter, Goto, Knows, Target, First, Inv, Shapes
  <2>. QED
    BY <1>1, <1>4, <2>1, OthersKeep, NotCommitted
    DEF Enter, Inv, Shapes, Labels
<1>5. CASE ReadFile(j)
  <2>1. CASE Goto(j, "reporting") /\ UNCHANGED draft
    <3>1. Singles => Knows(j)'
      BY <1>1, <2>1 DEF Goto, Knows, Inv, Shapes
    <3>. QED
      BY <1>1, <1>5, <2>1, <3>1, OthersKeep, NotCommitted
      DEF ReadFile, Inv, Shapes, Labels
  <2>2. CASE ~ (Goto(j, "reporting") /\ UNCHANGED draft)
    <3>. DEFINE d == Head(content[j[1]])
    <3>1. /\ content[j[1]] # <<>> /\ Accepted(request, d)
          /\ UNCHANGED <<request, original, content, errChan, result>>
          /\ pc[j] = "reading"
      BY <1>5, <2>2 DEF ReadFile
    <3>2. d \in Documents
      BY <1>1, <3>1 DEF Inv, Shapes
    <3>3. Singles => d = First(j[1])
      BY <1>2, <3>1 DEF Knows, First
    <3>4. CASE Unwritten(request, d)
      <4>1. Goto(j, "leaving") /\ UNCHANGED draft
        BY <1>5, <2>2, <3>4 DEF ReadFile
      <4>2. Singles => content[j[1]] = <<Target(j[1])>>
        BY <1>2, <1>3, <3>1, <3>3, <3>4 DEF Knows, Unwritten, Target
      <4>3. Singles => Knows(j)'
        BY <1>1, <3>1, <4>1, <4>2 DEF Goto, Knows, Target, First, Inv, Shapes
      <4>. QED
        BY <1>1, <3>1, <4>1, <4>3, OthersKeep, NotCommitted
        DEF Inv, Shapes, Labels
    <3>5. CASE ~ Unwritten(request, d)
      <4>1. /\ Goto(j, "opening")
            /\ draft' = [draft EXCEPT ![j] = Update(request, d)]
        BY <1>5, <2>2, <3>5 DEF ReadFile
      <4>2. Update(request, d) \in Documents
        BY <3>1, <3>2, UpdateType DEF Inv, Shapes
      <4>3. Singles => Knows(j)'
        BY <1>1, <1>2, <3>1, <3>3, <4>1
        DEF Goto, Knows, Target, First, Inv, Shapes
      <4>. QED
        BY <1>1, <3>1, <4>1, <4>2, <4>3, OthersKeep, NotCommitted
        DEF Inv, Shapes, Labels
    <3>. QED
      BY <3>4, <3>5
  <2>. QED
    BY <2>1, <2>2
<1>6. CASE OpenFile(j)
  <2>1. content' \in [Files -> Seq(Documents)]
    <3>1. <<>> \in Seq(Documents)
      OBVIOUS
    <3>. QED
      BY <1>1, <1>6, <3>1 DEF OpenFile, Inv, Shapes
  <2>2. \A f \in Files \ {j[1]} : content'[f] = content[f]
    BY <1>6 DEF OpenFile, Inv, Shapes
  <2>3. PICK label \in {"reporting", "writing"} : Goto(j, label)
    BY <1>6 DEF OpenFile
  <2>4. Singles => Knows(j)'
    BY <1>1, <1>2, <1>6, <2>3
    DEF OpenFile, Goto, Knows, Target, First, Inv, Shapes
  <2>. QED
    BY <1>1, <1>6, <2>1, <2>2, <2>3, <2>4, OthersKeep, NotCommitted
    DEF OpenFile, Inv, Shapes, Labels
<1>7. CASE WriteFile(j)
  <2>1. content' \in [Files -> Seq(Documents)]
    <3>1. <<draft[j]>> \in Seq(Documents)
      BY <1>1 DEF Inv, Shapes
    <3>. QED
      BY <1>1, <1>7, <3>1 DEF WriteFile, Inv, Shapes
  <2>2. \A f \in Files \ {j[1]} : content'[f] = content[f]
    BY <1>7 DEF WriteFile, Inv, Shapes
  <2>3. CASE Goto(j, "reporting") /\ UNCHANGED content
    <3>1. Singles => Knows(j)'
      BY <1>1, <2>3 DEF Goto, Knows, Inv, Shapes
    <3>. QED
      BY <1>1, <1>7, <2>1, <2>2, <2>3, <3>1, OthersKeep, NotCommitted
      DEF WriteFile, Inv, Shapes, Labels
  <2>4. CASE /\ content' = [content EXCEPT ![j[1]] = <<draft[j]>>]
             /\ Goto(j, "leaving")
    <3>1. Singles => content'[j[1]] = <<Target(j[1])>>
      BY <1>1, <1>2, <1>7, <2>4 DEF WriteFile, Knows, Inv, Shapes
    <3>2. Singles => Knows(j)'
      BY <1>1, <1>7, <2>4, <3>1
      DEF WriteFile, Goto, Knows, Target, First, Inv, Shapes
    <3>. QED
      BY <1>1, <1>7, <2>1, <2>2, <2>4, <3>2, OthersKeep, NotCommitted
      DEF WriteFile, Inv, Shapes, Labels
  <2>. QED
    BY <1>7, <2>3, <2>4 DEF WriteFile
<1>8. CASE Report(j)
  <2>1. Singles => Knows(j)'
    BY <1>1, <1>8 DEF Report, Goto, Knows, Inv, Shapes
  <2>. QED
    BY <1>1, <1>8, <2>1, OthersKeep, NotCommitted
    DEF Report, Inv, Shapes, Labels
<1>9. CASE Leave(j)
  <2>1. Singles => Knows(j)'
    BY <1>1, <1>2, <1>9 DEF Leave, Goto, Knows, Target, First, Inv, Shapes
  <2>. QED
    BY <1>1, <1>9, <2>1, OthersKeep, NotCommitted
    DEF Leave, Inv, Shapes, Labels
<1>. QED
  BY <1>4, <1>5, <1>6, <1>7, <1>8, <1>9 DEF Goroutine

LEMMA JoinKeeps == Inv /\ Join => Inv'
BY DEF Inv, Shapes, Edits, Singles, Knows, Target, First, Ends, Join, Jobs

LEMMA StepInv == Inv /\ [Next]_vars => Inv'
<1>. SUFFICES ASSUME Inv, [Next]_vars PROVE Inv'
  OBVIOUS
<1>1. CASE UNCHANGED vars
  BY <1>1 DEF vars, Inv, Shapes, Edits, Singles, Knows, Target, First, Ends
<1>. QED
  BY <1>1, GoroutineKeeps, JoinKeeps DEF Next

-----------------------------------------------------------------------------
LEMMA Inductive == Spec => []Inv
BY InitInv, StepInv, PTL DEF Spec

(***************************************************************************)
(* The semaphore                                                           *)
(***************************************************************************)
LEMMA FiniteJobs ==
    ASSUME NEW b \in Requests, NEW layout \in Layouts
    PROVE  IsFiniteSet(MatchList(b, layout))
<1>. DEFINE E(f) == {f} \X {i \in DOMAIN layout[f] : Matches(b, layout[f][i])}
            g == [f \in Files |-> E(f)]
            fam == {g[f] : f \in Files}
<1>1. ASSUME NEW f \in Files
      PROVE  IsFiniteSet(E(f))
  <2>1. layout[f] \in Seq(Documents)
    BY LayoutsAssumption
  <2>2. /\ DOMAIN layout[f] = 1 .. Len(layout[f])
        /\ Len(layout[f]) \in Nat
    BY <2>1
  <2>3. IsFiniteSet(DOMAIN layout[f])
    BY <2>2, FS_Interval
  <2>4. IsFiniteSet({i \in DOMAIN layout[f] : Matches(b, layout[f][i])})
    BY <2>3, FS_Subset
  <2>. QED
    BY <2>4, FS_Singleton, FS_Product
<1>2. MatchList(b, layout) = UNION fam
  BY DEF MatchList
<1>3. \A T \in fam : IsFiniteSet(T)
  BY <1>1
<1>4. IsFiniteSet(fam)
  <2>1. g \in Surjection(Files, fam)
    BY DEF Surjection
  <2>. HIDE DEF g, fam
  <2>. QED
    BY <2>1, FilesAssumption, FS_Surjection
<1>. QED
  BY <1>2, <1>3, <1>4, FS_UNION

LEMMA InitSlots == Init => SlotsHeld
<1>. SUFFICES ASSUME Init PROVE SlotsHeld
  OBVIOUS
<1>1. Inside = {}
  BY DEF Init, Inside
<1>. QED
  BY <1>1, FS_EmptySet, SlotsAssumption DEF Init, SlotsHeld

LEMMA SlotsStep == Inv /\ SlotsHeld /\ [Next]_vars => SlotsHeld'
<1>. SUFFICES ASSUME Inv, SlotsHeld, [Next]_vars PROVE SlotsHeld'
  OBVIOUS
<1>1. IsFiniteSet(Inside) /\ sem \in Nat
  <2>1. Inside \subseteq MatchList(request, original)
    BY DEF Inside
  <2>2. IsFiniteSet(Inside)
    BY <2>1, FiniteJobs, FS_Subset DEF Inv, Shapes
  <2>. QED
    BY <2>2, FS_CardinalityType DEF SlotsHeld
<1>2. ASSUME NEW j \in Jobs, Goroutine(j)
      PROVE  SlotsHeld'
  <2>1. j \in MatchList(request, original)
    BY DEF Inv, Shapes, Jobs
  <2>2. CASE Enter(j)
    <3>1. j \notin Inside /\ Inside' = Inside \cup {j}
      BY <2>1, <2>2 DEF Enter, Goto, Inside, Inv, Shapes
    <3>2. Cardinality(Inside') = sem + 1
      BY <1>1, <3>1, FS_AddElement DEF SlotsHeld
    <3>. QED
      BY <1>1, <2>2, <3>2, SlotsAssumption DEF Enter, SlotsHeld
  <2>3. CASE Leave(j)
    <3>1. j \in Inside /\ Inside' = Inside \ {j}
      BY <2>1, <2>3 DEF Leave, Goto, Inside, Inv, Shapes
    <3>2. Cardinality(Inside') = sem - 1
      BY <1>1, <3>1, FS_RemoveElement DEF SlotsHeld
    <3>. QED
      BY <1>1, <2>3, <3>2, SlotsAssumption DEF Leave, SlotsHeld
  <2>4. CASE ReadFile(j) \/ OpenFile(j) \/ WriteFile(j) \/ Report(j)
    <3>1. /\ UNCHANGED <<request, original, sem, result>>
          /\ pc[j] \notin {"started", "gone"}
          /\ \E label \in Labels \ {"started", "gone"} : Goto(j, label)
      BY <2>4 DEF ReadFile, OpenFile, WriteFile, Report, Labels
    <3>2. Inside' = Inside
      BY <2>1, <3>1 DEF Goto, Inside, Inv, Shapes
    <3>. QED
      BY <3>1, <3>2 DEF SlotsHeld
  <2>. QED
    BY <1>2, <2>2, <2>3, <2>4 DEF Goroutine
<1>3. CASE Join \/ UNCHANGED vars
  <2>1. UNCHANGED <<request, original, pc, sem>>
    BY <1>3 DEF Join, vars
  <2>2. result' \in {"none", "committed", "dropped"}
    BY <1>3 DEF Join, vars, SlotsHeld
  <2>. QED
    BY <2>1, <2>2 DEF SlotsHeld, Inside
<1>. QED
  BY <1>2, <1>3 DEF Next

LEMMA InvTypes == Inv /\ SlotsHeld => TypeOK
<1>. SUFFICES ASSUME Inv, SlotsHeld PROVE TypeOK
  OBVIOUS
<1>1. sem \in 0 .. Slots
  <2>1. IsFiniteSet(Inside)
    <3>1. Inside \subseteq MatchList(request, original)
      BY DEF Inside
    <3>. QED
      BY <3>1, FiniteJobs, FS_Subset DEF Inv, Shapes
  <2>. QED
    BY <2>1, FS_CardinalityType, SlotsAssumption DEF SlotsHeld
<1>2. Jobs = MatchList(request, original)
  BY DEF Jobs, Inv, Shapes
<1>. QED
  BY <1>1, <1>2 DEF Inv, Shapes, Labels, SlotsHeld, TypeOK

-----------------------------------------------------------------------------
(***************************************************************************)
(* Several goroutines a file                                               *)
(***************************************************************************)
LEMMA FirstType ==
    ASSUME Inv, NEW f \in Files
    PROVE  /\ original[f] \in Seq(Documents) /\ original[f] # <<>>
           /\ First(f) \in Documents
<1>1. original[f] \in Seq(Documents) /\ original[f] # <<>>
  BY LayoutsAssumption DEF Inv, Shapes
<1>. QED
  BY <1>1 DEF First

\* The first update, and one update more.
LEMMA AppliedOnce ==
    ASSUME Inv, NEW d \in Documents, Accepted(request, d)
    PROVE  /\ Update(request, d) = Applied(1, d)
           /\ \A n \in Nat \ {0} :
                 /\ Update(request, Applied(n, d)) = Applied(n + 1, d)
                 /\ Unwritten(request, Applied(n, d)) =>
                       Applied(n, d) = Applied(n + 1, d)
<1>1. request.value \in Nat
  BY RequestsAssumption DEF Inv, Shapes
<1>2. CASE request.kind = "NamespaceQuota"
  <2>. DEFINE m == request.value
              v == d.replicas
              a(n) == IF v = 0 \/ v = m THEN v ELSE IF v + n > m THEN m ELSE v + n
  <2>1. v \in Nat /\ m \in Nat
    BY <1>1, <1>2 DEF Accepted, Documents
  <2>2. \A n : Applied(n, d) = [d EXCEPT !.replicas = a(n)]
    BY <1>2 DEF Applied
  <2>3. \A n : Update(request, [d EXCEPT !.replicas = a(n)])
                  = [d EXCEPT !.replicas = R!Increment(a(n), m)]
    BY <1>2 DEF Update, Documents
  <2>4. R!Increment(v, m) = a(1)
    BY <2>1 DEF R!Increment
  <2>5. \A n \in Nat \ {0} : R!Increment(a(n), m) = a(n + 1)
    BY <2>1 DEF R!Increment
  <2>6. Update(request, d) = [d EXCEPT !.replicas = R!Increment(v, m)]
    BY <1>2 DEF Update
  <2>. HIDE DEF a
  <2>. QED
    BY <2>2, <2>3, <2>4, <2>5, <2>6 DEF Unwritten
<1>3. CASE request.kind # "NamespaceQuota"
  <2>1. \A n : Applied(n, d) = [d EXCEPT !.hard = request.value]
    BY <1>3 DEF Applied
  <2>2. Update(request, d) = [d EXCEPT !.hard = request.value]
    BY <1>3 DEF Update
  <2>3. Update(request, [d EXCEPT !.hard = request.value])
           = [d EXCEPT !.hard = request.value]
    BY <1>3 DEF Update, Documents
  <2>. QED
    BY <2>1, <2>2, <2>3
<1>. QED
  BY <1>2, <1>3

LEMMA ReadFinite ==
    ASSUME Inv, NEW f
    PROVE  IsFiniteSet(HaveRead(f)) /\ Cardinality(HaveRead(f)) \in Nat
<1>1. HaveRead(f) \subseteq MatchList(request, original)
  BY DEF HaveRead
<1>. QED
  BY <1>1, FiniteJobs, FS_Subset, FS_CardinalityType DEF Inv, Shapes

\* What readers have made of a file stays in reach when there are more.
LEMMA MadeGrows ==
    ASSUME Inv, Inv', UNCHANGED <<request, original>>, NEW f, NEW d,
           HaveRead(f) \subseteq HaveRead(f)', Made(f, d)
    PROVE  Made(f, d)'
<1>1. PICK n \in 1 .. Cardinality(HaveRead(f)) : d = Applied(n, First(f))
  BY DEF Made
<1>2. IsFiniteSet(HaveRead(f)') /\ Cardinality(HaveRead(f)') \in Nat
  <2>1. HaveRead(f)' \subseteq MatchList(request, original)
    BY DEF HaveRead
  <2>. QED
    BY <2>1, FiniteJobs, FS_Subset, FS_CardinalityType DEF Inv, Shapes
<1>3. Cardinality(HaveRead(f)) <= Cardinality(HaveRead(f)')
  BY <1>2, FS_Subset
<1>4. n \in 1 .. Cardinality(HaveRead(f)')
  BY <1>2, <1>3, ReadFinite
<1>5. d = Applied(n, First(f))' /\ Accepted(request, First(f))'
  BY <1>1 DEF Made, Applied, First
<1>. QED
  BY <1>4, <1>5 DEF Made

LEMMA RewrittenStays ==
    ASSUME Inv, Inv', UNCHANGED <<request, original>>, NEW f,
           HaveRead(f) \subseteq HaveRead(f)', Rewritten(f),
           content'[f] = content[f]
    PROVE  Rewritten(f)'
<1>1. CASE content[f] = <<>>
  BY <1>1 DEF Rewritten
<1>2. CASE content[f] # <<>>
  <2>1. content[f] = <<Head(content[f])>> /\ Made(f, Head(content[f]))
    BY <1>2 DEF Rewritten
  <2>2. PICK d : d = Head(content[f])
    OBVIOUS
  <2>3. Made(f, d)'
    BY <2>1, <2>2, MadeGrows
  <2>4. content'[f] = <<Head(content'[f])>> /\ Head(content'[f]) = d
    BY <2>1, <2>2
  <2>5. Made(f, Head(content[f]))'
    BY <2>3, <2>4 DEF Made
  <2>. QED
    BY <2>4, <2>5 DEF Rewritten
<1>. QED
  BY <1>1, <1>2

LEMMA InitWhole == Init => Whole
<1>. SUFFICES ASSUME Init PROVE Whole
  OBVIOUS
<1>1. \A f \in Files : content[f] = original[f] /\ original[f] # <<>>
  BY LayoutsAssumption DEF Init
<1>. QED
  BY <1>1 DEF Init, Whole, WholeFile, WholeDraft

\* A step of goroutine j: it may empty or rewrite its file and nothing else.
LEMMA OthersWhole ==
    ASSUME Inv, Inv', Whole, NEW j \in MatchList(request, original),
           UNCHANGED <<request, original>>,
           \A k \in MatchList(request, original) \ {j} :
               pc'[k] = pc[k] /\ draft'[k] = draft[k],
           HaveRead(j[1]) \subseteq HaveRead(j[1])',
           \A f \in Files \ {j[1]} : content'[f] = content[f],
           errChan' >= errChan,
           \/ content'[j[1]] = content[j[1]] \/ Rewritten(j[1])',
           content'[j[1]] = <<>> =>
               \/ errChan' > 0
               \/ pc'[j] \in {"writing", "reporting"}
               \/ /\ content[j[1]] = <<>>
                  /\ pc[j] \notin {"writing", "reporting"},
           WholeDraft(j)'
    PROVE  Whole'
<1>. DEFINE ML == MatchList(request, original)
<1>0. errChan \in Nat /\ errChan' \in Nat /\ ML' = ML
  BY DEF Inv, Shapes
<1>1. \A f : HaveRead(f) \subseteq HaveRead(f)'
  BY DEF HaveRead
<1>3. \A f \in Files : Rewritten(f) => Rewritten(f)'
  BY <1>1, RewrittenStays
<1>4. ASSUME NEW f \in Files
      PROVE  WholeFile(f)'
  <2>1. WholeFile(f)
    BY DEF Whole
  <2>2. content'[f] = original'[f] \/ Rewritten(f)'
    BY <1>3, <2>1 DEF WholeFile
  <2>3. ASSUME content'[f] = <<>>
        PROVE  \/ errChan' > 0
               \/ \E k \in ML : k[1] = f /\ pc'[k] \in {"writing", "reporting"}
    <3>1. CASE f # j[1]
      <4>1. content[f] = <<>>
        BY <2>3, <3>1
      <4>2. \/ errChan > 0
            \/ \E k \in ML : k[1] = f /\ pc[k] \in {"writing", "reporting"}
        BY <2>1, <4>1 DEF WholeFile
      <4>. QED
        BY <1>0, <3>1, <4>2
    <3>2. CASE f = j[1]
      <4>1. CASE content[f] = <<>> /\ pc[j] \notin {"writing", "reporting"}
        <5>1. \/ errChan > 0
              \/ \E k \in ML : k[1] = f /\ pc[k] \in {"writing", "reporting"}
          BY <2>1, <4>1 DEF WholeFile
        <5>. QED
          BY <1>0, <4>1, <5>1
      <4>2. CASE errChan' > 0 \/ pc'[j] \in {"writing", "reporting"}
        BY <3>2, <4>2
      <4>. QED
        BY <2>3, <3>2, <4>1, <4>2
    <3>. QED
      BY <3>1, <3>2
  <2>. QED
    BY <1>0, <2>2, <2>3 DEF WholeFile
<1>5. ASSUME NEW k \in ML, k # j
      PROVE  WholeDraft(k)'
  <2>1. WholeDraft(k) /\ pc'[k] = pc[k] /\ draft'[k] = draft[k] /\ k[1] \in Files
    BY <1>5, MatchShape DEF Whole, Inv, Shapes
  <2>2. ASSUME pc'[k] \in {"opening", "writing"}
        PROVE  Made(k[1], draft[k])'
    <3>1. PICK e : e = draft[k]
      OBVIOUS
    <3>2. Made(k[1], e)'
      BY <1>1, <2>1, <2>2, <3>1, MadeGrows DEF WholeDraft
    <3>. QED
      BY <2>1, <3>1, <3>2 DEF Made
  <2>3. ASSUME pc'[k] \in {"leaving", "gone"}
        PROVE  \/ errChan' > 0 \/ Rewritten(k[1])'
               \/ Unwritten(request, First(k[1]))'
    <3>1. \/ errChan > 0 \/ Rewritten(k[1]) \/ Unwritten(request, First(k[1]))
      BY <2>1, <2>3 DEF WholeDraft
    <3>2. Unwritten(request, First(k[1])) => Unwritten(request, First(k[1]))'
      BY DEF Unwritten, Update, First
    <3>. QED
      BY <1>0, <1>3, <2>1, <3>1, <3>2
  <2>. QED
    BY <2>2, <2>3 DEF WholeDraft
<1>. QED
  BY <1>0, <1>4, <1>5 DEF Whole

\* The document a reader of the file makes.
LEMMA ReaderMakes ==
    ASSUME Inv, Inv', Whole, NEW j \in Jobs, ReadFile(j),
           ~ Goto(j, "reporting")
    PROVE  LET f == j[1]
               d == Head(content[j[1]]) IN
           /\ pc'[j] = "leaving" => Unwritten(request, First(f)) \/ Rewritten(f)
           /\ pc'[j] = "opening" => Made(f, draft[j])'
<1>. DEFINE f == j[1]
            d == Head(content[f])
<1>1. j \in MatchList(request, original) /\ f \in Files
  BY MatchShape DEF Inv, Shapes, Jobs
<1>2. /\ pc[j] = "reading" /\ content[f] # <<>> /\ Accepted(request, d)
      /\ UNCHANGED <<request, original, content>>
      /\ IF Unwritten(request, d) THEN Goto(j, "leaving")
         ELSE /\ Goto(j, "opening")
              /\ draft' = [draft EXCEPT ![j] = Update(request, d)]
  BY DEF ReadFile
<1>3. \/ content[f] = original[f] /\ d = First(f)
      \/ content[f] = <<d>> /\ Made(f, d)
  BY <1>1, <1>2 DEF Whole, WholeFile, Rewritten, First
<1>4. ASSUME pc'[j] = "leaving"
      PROVE  Unwritten(request, First(f)) \/ Rewritten(f)
  <2>1. Unwritten(request, d)
    BY <1>1, <1>2, <1>4 DEF Goto, Inv, Shapes
  <2>. QED
    BY <1>3, <2>1 DEF Rewritten
<1>5. ASSUME pc'[j] = "opening"
      PROVE  Made(f, draft[j])'
  <2>1. /\ draft'[j] = Update(request, d)
        /\ pc' = [pc EXCEPT ![j] = "opening"]
    BY <1>1, <1>2, <1>5 DEF Goto, Inv, Shapes
  <2>2. HaveRead(f)' = HaveRead(f) \cup {j} /\ j \notin HaveRead(f)
    BY <1>1, <1>2, <2>1 DEF HaveRead, Inv, Shapes
  <2>3. Cardinality(HaveRead(f)') = Cardinality(HaveRead(f)) + 1
    BY <2>2, ReadFinite, FS_AddElement
  <2>. DEFINE c == Cardinality(HaveRead(f))
  <2>4. c \in Nat
    BY ReadFinite
  <2>5. First(f) \in Documents
    BY <1>1, FirstType
  <2>6. \E n \in 1 .. c + 1 :
           Accepted(request, First(f)) /\ Update(request, d) = Applied(n, First(f))
    <3>1. CASE d = First(f)
      BY <1>2, <2>4, <2>5, <3>1, AppliedOnce
    <3>2. CASE Made(f, d)
      <4>1. PICK n \in 1 .. c : d = Applied(n, First(f))
        BY <3>2 DEF Made
      <4>2. Accepted(request, First(f))
        BY <3>2 DEF Made
      <4>3. n \in Nat \ {0} /\ n + 1 \in 1 .. c + 1
        BY <2>4, <4>1
      <4>4. Update(request, Applied(n, First(f))) = Applied(n + 1, First(f))
        BY <2>5, <4>2, <4>3, AppliedOnce
      <4>. QED
        BY <4>1, <4>2, <4>3, <4>4
    <3>. QED
      BY <1>3, <3>1, <3>2
  <2>7. PICK n \in 1 .. c + 1 :
           Accepted(request, First(f)) /\ Update(request, d) = Applied(n, First(f))
    BY <2>6
  <2>8. n \in 1 .. Cardinality(HaveRead(f)')
    BY <2>3
  <2>9. draft'[j] = Applied(n, First(f))' /\ Accepted(request, First(f))'
    BY <1>2, <2>1, <2>7 DEF Applied, First
  <2>. QED
    BY <2>8, <2>9 DEF Made
<1>. QED
  BY <1>4, <1>5

LEMMA GoroutineWhole ==
    ASSUME Inv, Inv', Whole, NEW j \in Jobs, Goroutine(j)
    PROVE  Whole'
<1>. DEFINE f == j[1]
<1>1. j \in MatchList(request, original) /\ f \in Files
  BY MatchShape DEF Inv, Shapes, Jobs
<1>2. /\ UNCHANGED <<request, original>>
      /\ \A k \in MatchList(request, original) \ {j} :
            pc'[k] = pc[k] /\ draft'[k] = draft[k]
      /\ pc'[j] \in {"started", "reading"} => pc[j] \in {"started", "reading"}
      /\ \A k \in Files \ {f} : content'[k] = content[k]
  BY <1>1 DEF Goroutine, Enter, ReadFile, OpenFile, WriteFile, Report, Leave,
              Goto, Inv, Shapes
<1>3. HaveRead(f) \subseteq HaveRead(f)'
  BY <1>2 DEF HaveRead
<1>4. WholeDraft(j) /\ errChan \in Nat
  BY <1>1 DEF Whole, Inv, Shapes
<1>5. CASE Enter(j)
  <2>1. /\ pc[j] = "started" /\ pc'[j] = "reading"
        /\ UNCHANGED <<content, errChan>>
    BY <1>1, <1>5 DEF Enter, Goto, Inv, Shapes
  <2>2. WholeDraft(j)'
    BY <2>1 DEF WholeDraft
  <2>. QED
    BY <1>1, <1>2, <1>3, <1>4, <2>1, <2>2, OthersWhole
<1>6. CASE ReadFile(j)
  <2>1. /\ pc[j] = "reading" /\ pc'[j] \in {"reporting", "leaving", "opening"}
        /\ UNCHANGED <<content, errChan>>
        /\ pc'[j] # "reporting" => ~ Goto(j, "reporting")
    BY <1>1, <1>6 DEF ReadFile, Goto, Inv, Shapes
  <2>2. WholeDraft(j)'
    <3>1. CASE pc'[j] = "reporting"
      BY <3>1 DEF WholeDraft
    <3>2. CASE pc'[j] = "leaving"
      <4>1. Unwritten(request, First(f)) \/ Rewritten(f)
        BY <1>6, <2>1, <3>2, ReaderMakes
      <4>2. Rewritten(f) => Rewritten(f)'
        BY <1>2, <1>3, <2>1, RewrittenStays
      <4>3. Unwritten(request, First(f)) => Unwritten(request, First(f))'
        BY <1>2 DEF Unwritten, Update, First
      <4>. QED
        BY <3>2, <4>1, <4>2, <4>3 DEF WholeDraft
    <3>3. CASE pc'[j] = "opening"
      <4>1. Made(f, draft[j])'
        BY <1>6, <2>1, <3>3, ReaderMakes
      <4>. QED
        BY <3>3, <4>1 DEF WholeDraft
    <3>. QED
      BY <2>1, <3>1, <3>2, <3>3
  <2>. QED
    BY <1>1, <1>2, <1>3, <1>4, <2>1, <2>2, OthersWhole
<1>7. CASE OpenFile(j) \/ WriteFile(j)
  <2>1. /\ pc[j] \in {"opening", "writing"}
        /\ UNCHANGED <<draft, errChan>>
        /\ \/ pc'[j] = "reporting" /\ UNCHANGED content
           \/ pc'[j] = "writing" /\ content'[f] = <<>>
           \/ pc'[j] = "leaving" /\ content'[f] = <<draft[j]>>
    BY <1>1, <1>7 DEF OpenFile, WriteFile, Goto, Inv, Shapes
  <2>2. PICK d : d = draft[j]
    OBVIOUS
  <2>3. Made(f, d)'
    BY <1>2, <1>3, <1>4, <2>1, <2>2, MadeGrows DEF WholeDraft
  <2>4. Made(f, draft[j])'
    BY <2>1, <2>2, <2>3 DEF Made
  <2>5. CASE pc'[j] = "reporting" /\ UNCHANGED content
    <3>1. WholeDraft(j)'
      BY <2>5 DEF WholeDraft
    <3>. QED
      BY <1>1, <1>2, <1>3, <1>4, <2>1, <2>5, <3>1, OthersWhole
  <2>6. CASE pc'[j] = "writing" /\ content'[f] = <<>>
    <3>1. WholeDraft(j)'
      BY <2>4, <2>6 DEF WholeDraft
    <3>2. Rewritten(f)'
      BY <2>6 DEF Rewritten
    <3>. QED
      BY <1>1, <1>2, <1>3, <1>4, <2>1, <2>6, <3>1, <3>2, OthersWhole
  <2>7. CASE pc'[j] = "leaving" /\ content'[f] = <<draft[j]>>
    <3>1. /\ content'[f] = <<d>> /\ Head(content'[f]) = d
          /\ content'[f] # <<>>
      BY <2>2, <2>7
    <3>2. Made(f, Head(content[f]))'
      BY <2>3, <3>1 DEF Made
    <3>3. Rewritten(f)'
      BY <3>1, <3>2 DEF Rewritten
    <3>4. WholeDraft(j)'
      BY <2>7, <3>3 DEF WholeDraft
    <3>. QED
      BY <1>1, <1>2, <1>3, <1>4, <2>1, <3>1, <3>3, <3>4, OthersWhole
  <2>. QED
    BY <2>1, <2>5, <2>6, <2>7
<1>8. CASE Report(j)
  <2>1. /\ pc[j] = "reporting" /\ pc'[j] = "leaving"
        /\ UNCHANGED content /\ errChan' = errChan + 1
    BY <1>1, <1>8 DEF Report, Goto, Inv, Shapes
  <2>2. errChan' > 0 /\ errChan' >= errChan
    BY <1>4, <2>1
  <2>3. WholeDraft(j)'
    BY <2>1, <2>2 DEF WholeDraft
  <2>. QED
    BY <1>1, <1>2, <1>3, <1>4, <2>1, <2>2, <2>3, OthersWhole
<1>9. CASE Leave(j)
  <2>1. /\ pc[j] = "leaving" /\ pc'[j] = "gone"
        /\ UNCHANGED <<content, errChan>>
    BY <1>1, <1>9 DEF Leave, Goto, Inv, Shapes
  <2>2. \/ errChan > 0 \/ Rewritten(f) \/ Unwritten(request, First(f))
    BY <1>4, <2>1 DEF WholeDraft
  <2>3. Rewritten(f) => Rewritten(f)'
    BY <1>2, <1>3, <2>1, RewrittenStays
  <2>4. Unwritten(request, First(f)) => Unwritten(request, First(f))'
    BY <1>2 DEF Unwritten, Update, First
  <2>5. WholeDraft(j)'
    BY <2>1, <2>2, <2>3, <2>4 DEF WholeDraft
  <2>. QED
    BY <1>1, <1>2, <1>3, <1>4, <2>1, <2>5, OthersWhole
<1>. QED
  BY <1>5, <1>6, <1>7, <1>8, <1>9 DEF Goroutine

LEMMA StepWhole == Inv /\ Inv' /\ Whole /\ [Next]_vars => Whole'
<1>. SUFFICES ASSUME Inv, Inv', Whole, [Next]_vars PROVE Whole'
  OBVIOUS
<1>1. CASE Join \/ UNCHANGED vars
  <2>1. UNCHANGED <<request, original, content, pc, draft, errChan>>
    BY <1>1 DEF Join, vars
  <2>2. \A f : HaveRead(f)' = HaveRead(f)
    BY <2>1 DEF HaveRead
  <2>3. \A f : Rewritten(f) => Rewritten(f)'
    BY <2>1, <2>2, RewrittenStays
  <2>4. \A f : Unwritten(request, First(f)) => Unwritten(request, First(f))'
    BY <2>1 DEF Unwritten, Update, First
  <2>5. \A f \in Files : WholeFile(f)'
    BY <2>1, <2>3 DEF Whole, WholeFile
  <2>6. ASSUME NEW j \in MatchList(request, original)
        PROVE  WholeDraft(j)'
    <3>1. WholeDraft(j)
      BY DEF Whole
    <3>2. ASSUME pc[j] \in {"opening", "writing"}
          PROVE  Made(j[1], draft[j])'
      <4>1. PICK d : d = draft[j]
        OBVIOUS
      <4>2. Made(j[1], d)'
        BY <2>1, <2>2, <3>1, <3>2, <4>1, MadeGrows DEF WholeDraft
      <4>. QED
        BY <2>1, <4>1, <4>2 DEF Made
    <3>. QED
      BY <2>1, <2>3, <2>4, <3>1, <3>2 DEF WholeDraft
  <2>. QED
    BY <2>1, <2>5, <2>6 DEF Whole
<1>. QED
  BY <1>1, GoroutineWhole DEF Next

LEMMA InvWhole == Inv /\ Whole => CommittedWhole
<1>. SUFFICES ASSUME Inv, Whole, result = "committed", NEW f \in Files
              PROVE  LET listed == Cardinality({j \in Jobs : j[1] = f})
                         first == Head(original[f]) IN
                     \/ listed = 0 /\ content[f] = original[f]
                     \/ /\ listed > 0 /\ content[f] = original[f]
                        /\ Unwritten(request, first)
                     \/ \E n \in 1 .. listed : content[f] = <<Applied(n, first)>>
  BY DEF CommittedWhole
<1>1. /\ Jobs = MatchList(request, original) /\ errChan = 0
      /\ \A j \in Jobs : pc[j] = "gone"
  BY DEF Jobs, Inv, Shapes, Ends
<1>2. HaveRead(f) = {j \in Jobs : j[1] = f}
  BY <1>1 DEF HaveRead
<1>. DEFINE c == Cardinality({j \in Jobs : j[1] = f})
<1>3. IsFiniteSet(HaveRead(f)) /\ c \in Nat /\ c = Cardinality(HaveRead(f))
  BY <1>2, ReadFinite
<1>4. content[f] # <<>>
  BY <1>1 DEF Whole, WholeFile
<1>5. CASE Rewritten(f)
  <2>1. PICK n \in 1 .. c : Head(content[f]) = Applied(n, First(f))
    BY <1>3, <1>4, <1>5 DEF Rewritten, Made
  <2>2. content[f] = <<Applied(n, Head(original[f]))>>
    BY <1>4, <1>5, <2>1 DEF Rewritten, First
  <2>. QED
    BY <2>2
<1>6. CASE ~ Rewritten(f)
  <2>1. content[f] = original[f]
    BY <1>6 DEF Whole, WholeFile
  <2>2. CASE {j \in Jobs : j[1] = f} = {}
    BY <2>1, <2>2, FS_EmptySet
  <2>3. ASSUME NEW j \in Jobs, j[1] = f
        PROVE  Unwritten(request, First(f)) /\ c > 0
    <3>1. WholeDraft(j)
      BY <1>1 DEF Whole
    <3>2. c # 0
      BY <1>2, <1>3, <2>3, FS_EmptySet
    <3>. QED
      BY <1>1, <1>3, <1>6, <2>3, <3>1, <3>2 DEF WholeDraft
  <2>. QED
    BY <2>1, <2>2, <2>3 DEF First
<1>. QED
  BY <1>5, <1>6

-----------------------------------------------------------------------------
\* What the invariant says of a commit, field by field.
LEMMA InvAtomic == Inv => AtomicOnSingles
<1>. SUFFICES ASSUME Inv, result = "committed", Singles
              PROVE  /\ \A f \in Files : Len(content[f]) = 1
                     /\ [f \in Files |-> Field(content[f])] =
                          R!Edited(request, Picked,
                                   [f \in Files |-> Field(original[f])])
  BY DEF AtomicOnSingles, Singles
<1>. DEFINE tree == [f \in Files |-> Field(original[f])]
<1>1. ASSUME NEW f \in Files
      PROVE  /\ Len(content[f]) = 1
             /\ Field(content[f]) =
                  IF f \in Picked THEN R!Updated(request, tree[f]) ELSE tree[f]
  <2>1. First(f) \in Documents /\ original[f] = <<First(f)>>
    BY FirstOfOne DEF Inv, Shapes, Singles, First
  <2>2. CASE f \in Picked
    <3>1. PICK j \in MatchList(request, original) : j[1] = f
      BY <2>2 DEF Picked, Jobs, Inv, Shapes
    <3>2. content[f] = <<Target(f)>>
      BY <3>1 DEF Inv, Ends, Edits, Knows, Shapes
    <3>3. Field(content[f]) = R!Updated(request, tree[f])
      BY <2>1, <3>2 DEF Field, Target, Update, Documents, R!Updated
    <3>. QED
      BY <2>2, <3>2, <3>3
  <2>3. CASE f \notin Picked
    <3>1. <<f, 1>> \notin MatchList(request, original)
      BY <2>3 DEF Picked, Jobs, Inv, Shapes
    <3>2. content[f] = original[f]
      BY <3>1 DEF Inv, Edits
    <3>. QED
      BY <2>1, <2>3, <3>2
  <2>. QED
    BY <2>2, <2>3
<1>. QED
  BY <1>1 DEF R!Edited

\* The edit the handlers make of a clone of one-document manifests with a
\* goroutine for every match (restapi_server.go:285-311, 441-468) is the
\* atomic EditFiles of MgmtServer, whichever calls fail.
THEOREM AtomicEdit == Spec => []AtomicOnSingles
BY Inductive, InvAtomic, PTL

\* Every slot of the semaphore that is taken is held by one goroutine between
\* its send and its receive on sem (restapi_server.go:286-294, 445-453): never
\* more than the capacity are inside, and no goroutine takes out what another
\* has put in.
THEOREM EditTypes == Spec => []TypeOK
<1>1. Spec => [](Inv /\ SlotsHeld)
  BY Inductive, InitSlots, SlotsStep, PTL DEF Spec
<1>. QED
  BY <1>1, InvTypes, PTL

\* A commit holds whole manifests (gitea.go:350-392, 436-470,
\* restapi_server.go:285-310, 444-469): goroutines that share a file read it
\* truncated or overwrite each other, and still what is pushed is the clone's
\* own manifest or its first document updated at least once and not more often
\* than the file is listed.
THEOREM CommitsAreWhole == Spec => []CommittedWhole
<1>1. Spec => [](Inv /\ Whole)
  BY Inductive, InitWhole, StepWhole, PTL DEF Spec
<1>. QED
  BY <1>1, InvWhole, PTL
=============================================================================
