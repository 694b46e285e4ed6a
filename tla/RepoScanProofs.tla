---------------------------- MODULE RepoScanProofs ----------------------------
(***************************************************************************)
(* Theorems about RepoScan: its type invariant, that matchCh is not closed *)
(* before the last send on it, that no hand-over between goroutines drops  *)
(* or repeats a match, and what a scan without an error may have missed.   *)
(***************************************************************************)
EXTENDS RepoScan, FiniteSetTheorems, TLAPS

\* The wait group counts the workers that are not gone.
Alive == {w \in Workers : worker[w] # "gone"}

WgInv == wg = Cardinality(Alive)

LEMMA AliveFinite ==
    /\ IsFiniteSet(Alive) /\ Cardinality(Alive) \in 0 .. Cardinality(Workers)
    /\ Cardinality(Alive) = 0 <=> Alive = {}
    /\ Cardinality(Workers) \in Nat
<1>1. Alive \subseteq Workers /\ IsFiniteSet(Workers)
  BY WorkersAssumption DEF Alive
<1>2. IsFiniteSet(Alive) /\ Cardinality(Alive) <= Cardinality(Workers)
  BY <1>1, FS_Subset
<1>3. Cardinality(Alive) \in Nat /\ Cardinality(Workers) \in Nat
  BY <1>1, <1>2, FS_CardinalityType
<1> QED
  BY <1>2, <1>3, FS_EmptySet

LEMMA WgInit == Init => WgInv
<1> SUFFICES ASSUME Init PROVE WgInv
  OBVIOUS
<1>1. Alive = Workers
  BY DEF Init, Alive
<1> QED
  BY <1>1 DEF Init, WgInv

LEMMA WgNext ==
    ASSUME worker \in [Workers -> {"taking", "decoding", "gone"}], WgInv,
           [Next]_vars
    PROVE  WgInv' /\ wg' \in 0 .. Cardinality(Workers)
<1>1. CASE UNCHANGED <<wg, Alive>>
  BY <1>1, AliveFinite DEF WgInv
<1>2. ASSUME NEW w \in Workers, NothingToTake(w) \/ DecodeFails(w)
      PROVE  WgInv' /\ wg' \in 0 .. Cardinality(Workers)
  <2>1. w \in Alive /\ Alive' = Alive \ {w} /\ wg' = wg - 1
    BY <1>2 DEF NothingToTake, DecodeFails, Alive
  <2>2. Cardinality(Alive') = Cardinality(Alive) - 1 /\ Cardinality(Alive) # 0
    BY <2>1, AliveFinite, FS_RemoveElement
  <2> QED
    BY <2>1, <2>2, AliveFinite DEF WgInv
<1>3. ASSUME NEW w \in Workers, Take(w) \/ Decode(w) \/ EndOfFile(w)
      PROVE  UNCHANGED <<wg, Alive>>
  BY <1>3 DEF Take, Decode, EndOfFile, Alive
<1>4. ASSUME Walker \/ Closer \/ Collector \/ UNCHANGED vars
      PROVE  UNCHANGED <<wg, Alive>>
  BY <1>4 DEF Walker, WalkFile, WalkEnds, WalkFails, Closer, CloseMatches,
              CloseDone, Collector, CollectMatch, ReturnError, ReturnMatches,
              vars, Alive
<1> QED
  BY <1>1, <1>2, <1>3, <1>4 DEF Next, Worker

LEMMA ScanInit == Init => TypeOK
<1> SUFFICES ASSUME Init PROVE TypeOK
  OBVIOUS
<1>w. wg \in 0 .. Cardinality(Workers)
  BY AliveFinite DEF Init
<1>1. (CHOOSE f \in Files : TRUE) \in Files
  BY FilesAssumption
<1>2. path \in [Workers -> Files]
  BY <1>1 DEF Init
<1>3. /\ content \in [Files -> Contents] /\ left \in [Workers -> Seq(Docs)]
      /\ worker \in [Workers -> {"taking", "decoding", "gone"}]
  BY DEF Init
<1>4. /\ fileCh \in Seq(Files) /\ Len(fileCh) <= FileCap
      /\ matchCh \in Seq(Files) /\ Len(matchCh) <= MatchCap
      /\ found \in Seq(Files)
  BY CapsAssumption DEF Init
<1> QED
  BY <1>w, <1>2, <1>3, <1>4 DEF Init, TypeOK

LEMMA ScanNext == TypeOK /\ WgInv /\ [Next]_vars => TypeOK' /\ WgInv'
<1> SUFFICES ASSUME TypeOK, WgInv, [Next]_vars PROVE TypeOK' /\ WgInv'
  OBVIOUS
<1>w. WgInv' /\ wg' \in 0 .. Cardinality(Workers)
  BY WgNext DEF TypeOK
<1> USE CapsAssumption, <1>w
<1>1. ASSUME NEW f \in Files, WalkFile(f) PROVE TypeOK'
  <2>1. fileCh' \in Seq(Files) /\ Len(fileCh') <= FileCap
    BY <1>1 DEF TypeOK, WalkFile
  <2> QED
    BY <1>1, <2>1 DEF TypeOK, WalkFile
<1>2. ASSUME WalkEnds \/ WalkFails PROVE TypeOK'
  BY <1>2 DEF TypeOK, WalkEnds, WalkFails
<1>3. ASSUME NEW w \in Workers, Take(w) PROVE TypeOK'
  <2>1. Head(fileCh) \in Files /\ fileCh' \in Seq(Files)
        /\ Len(fileCh') <= FileCap
    BY <1>3 DEF TypeOK, Take
  <2>2. content[Head(fileCh)] \in Seq(Docs)
    BY <2>1, ContentsAssumption DEF TypeOK
  <2> QED
    BY <1>3, <2>1, <2>2 DEF TypeOK, Take
<1>4. ASSUME NEW w \in Workers, NothingToTake(w) \/ EndOfFile(w) PROVE TypeOK'
  BY <1>4 DEF TypeOK, NothingToTake, EndOfFile
<1>5. ASSUME NEW w \in Workers, Decode(w) PROVE TypeOK'
  <2>1. matchCh' \in Seq(Files) /\ Len(matchCh') <= MatchCap
    BY <1>5 DEF TypeOK, Decode
  <2>2. left[w] \in Seq(Docs) /\ Tail(left[w]) \in Seq(Docs)
    BY <1>5 DEF TypeOK, Decode
  <2> QED
    BY <1>5, <2>1, <2>2 DEF TypeOK, Decode
<1>6. ASSUME NEW w \in Workers, DecodeFails(w) PROVE TypeOK'
  BY <1>6 DEF TypeOK, DecodeFails
<1>7. ASSUME CloseMatches \/ CloseDone PROVE TypeOK'
  BY <1>7 DEF TypeOK, CloseMatches, CloseDone
<1>8. ASSUME CollectMatch PROVE TypeOK'
  <2>1. matchCh' \in Seq(Files) /\ Len(matchCh') <= MatchCap
        /\ found' \in Seq(Files)
    BY <1>8 DEF TypeOK, CollectMatch
  <2> QED
    BY <1>8, <2>1 DEF TypeOK, CollectMatch
<1>9. ASSUME ReturnError \/ ReturnMatches PROVE TypeOK'
  BY <1>9 DEF TypeOK, ReturnError, ReturnMatches
<1>10. ASSUME UNCHANGED vars PROVE TypeOK'
  BY <1>10 DEF TypeOK, vars
<1> QED
  BY <1>1, <1>2, <1>3, <1>4, <1>5, <1>6, <1>7, <1>8, <1>9, <1>10
     DEF Next, Walker, Worker, Closer, Collector

LEMMA ScanCorrect == Spec => [](TypeOK /\ WgInv)
  BY ScanInit, WgInit, ScanNext, PTL DEF Spec

\* No channel is ever above its capacity and every goroutine keeps its type,
\* for any number of files, workers and capacities.
THEOREM ScanTypes == Spec => []TypeOK
  BY ScanCorrect, PTL

\* However workers leave, at the close of fileCh or at an error, the wait group
\* (gitea.go:86, 173-177) counts those that are left: when it is down to zero
\* nobody can send on matchCh any more, nor ever will.
THEOREM ClosedAfterSends == Spec => []NoSendOnClosed
<1>1. Init => NoSendOnClosed
  BY DEF Init, NoSendOnClosed
<1>2. TypeOK /\ WgInv /\ NoSendOnClosed /\ [Next]_vars => NoSendOnClosed'
  <2> SUFFICES ASSUME TypeOK, WgInv, NoSendOnClosed, [Next]_vars
               PROVE  NoSendOnClosed'
    OBVIOUS
  <2>1. ASSUME NEW w \in Workers, Worker(w) PROVE NoSendOnClosed'
    <3>1. worker[w] # "gone" /\ matchClosed' = matchClosed
      BY <2>1 DEF Worker, Take, NothingToTake, Decode, DecodeFails, EndOfFile
    <3> QED
      BY <3>1 DEF NoSendOnClosed
  <2>2. ASSUME Closer PROVE NoSendOnClosed'
    <3>1. CASE CloseMatches
      <4>1. Alive = {}
        BY <3>1, AliveFinite DEF CloseMatches, WgInv
      <4> QED
        BY <3>1, <4>1 DEF CloseMatches, Alive, NoSendOnClosed
    <3>2. CASE CloseDone
      BY <3>2 DEF CloseDone, NoSendOnClosed
    <3> QED
      BY <2>2, <3>1, <3>2 DEF Closer
  <2>3. ASSUME Walker \/ Collector \/ UNCHANGED vars PROVE NoSendOnClosed'
    BY <2>3 DEF Walker, WalkFile, WalkEnds, WalkFails, Collector,
                CollectMatch, ReturnError, ReturnMatches, vars,
                NoSendOnClosed
  <2> QED
    BY <2>1, <2>2, <2>3 DEF Next
<1> QED
  BY <1>1, <1>2, ScanCorrect, PTL DEF Spec

-----------------------------------------------------------------------------
(***************************************************************************)
(* Counting                                                                *)
(***************************************************************************)
At(s, x) == {i \in DOMAIN s : s[i] = x}

LEMMA AtFinite ==
    ASSUME NEW S, NEW s \in Seq(S), NEW x
    PROVE  IsFiniteSet(At(s, x)) /\ Count(s, x) \in Nat
<1>1. DOMAIN s = 1 .. Len(s) /\ Len(s) \in Nat
  OBVIOUS
<1>2. IsFiniteSet(1 .. Len(s))
  BY <1>1, FS_Interval
<1>3. IsFiniteSet(At(s, x))
  BY <1>1, <1>2, FS_Subset DEF At
<1>. QED
  BY <1>3, FS_CardinalityType DEF Count, At

LEMMA CountEmpty == \A x : Count(<<>>, x) = 0
<1>. TAKE x
<1>1. At(<<>>, x) = {}
  BY DEF At
<1>. QED
  BY <1>1, FS_EmptySet DEF Count, At

LEMMA CountAbsent ==
    ASSUME NEW S, NEW s \in Seq(S), NEW x
    PROVE  Count(s, x) = 0 <=> \A i \in DOMAIN s : s[i] # x
<1>1. Count(s, x) = 0 <=> At(s, x) = {}
  BY AtFinite, FS_EmptySet DEF Count, At
<1>. QED
  BY <1>1 DEF At

LEMMA CountAppend ==
    ASSUME NEW S, NEW s \in Seq(S), NEW e \in S, NEW x
    PROVE  Count(Append(s, e), x) = Count(s, x) + (IF e = x THEN 1 ELSE 0)
<1>. DEFINE n == Len(s) + 1
<1>1. /\ DOMAIN s = 1 .. Len(s) /\ DOMAIN Append(s, e) = 1 .. n
      /\ \A i \in DOMAIN s : Append(s, e)[i] = s[i]
      /\ Append(s, e)[n] = e /\ n \notin DOMAIN s
      /\ DOMAIN Append(s, e) = DOMAIN s \cup {n}
  OBVIOUS
<1>. HIDE DEF n
<1>a. /\ Count(s, x) = Cardinality(At(s, x))
      /\ Count(Append(s, e), x) = Cardinality(At(Append(s, e), x))
  BY DEF Count, At
<1>b. IsFiniteSet(At(s, x)) /\ Count(s, x) \in Nat
  BY AtFinite
<1>2. CASE e = x
  <2>1. At(Append(s, e), x) = At(s, x) \cup {n} /\ n \notin At(s, x)
    BY <1>1, <1>2 DEF At
  <2>. QED
    BY <1>2, <1>a, <1>b, <2>1, FS_AddElement
<1>3. CASE e # x
  <2>1. At(Append(s, e), x) = At(s, x)
    BY <1>1, <1>3 DEF At
  <2>. QED
    BY <1>3, <1>a, <1>b, <2>1
<1>. QED
  BY <1>2, <1>3

LEMMA CountTail ==
    ASSUME NEW S, NEW s \in Seq(S), s # <<>>, NEW x
    PROVE  Count(s, x) = Count(Tail(s), x) + (IF Head(s) = x THEN 1 ELSE 0)
<1>. DEFINE T == At(Tail(s), x)
            U == At(s, x) \ {1}
            f == [i \in T |-> i + 1]
<1>1. /\ DOMAIN s = 1 .. Len(s) /\ Len(s) \in Nat \ {0} /\ s[1] = Head(s)
      /\ DOMAIN Tail(s) = 1 .. Len(s) - 1 /\ Tail(s) \in Seq(S)
      /\ \A i \in DOMAIN Tail(s) : Tail(s)[i] = s[i + 1]
  OBVIOUS
<1>2. f \in Bijection(T, U)
  <2>1. \A i \in T : i + 1 \in U
    BY <1>1 DEF At
  <2>2. \A k \in U : k - 1 \in T /\ (k - 1) + 1 = k
    BY <1>1 DEF At
  <2>3. \A i, k \in T : i + 1 = k + 1 => i = k
    BY <1>1 DEF At
  <2>4. f \in Injection(T, U)
    BY <2>1, <2>3 DEF Injection, IsInjective
  <2>5. f \in Surjection(T, U)
    BY <2>1, <2>2 DEF Surjection
  <2>. QED
    BY <2>4, <2>5 DEF Bijection
<1>3. IsFiniteSet(T) /\ IsFiniteSet(At(s, x))
  BY <1>1, AtFinite
<1>. HIDE DEF f
<1>4. Cardinality(U) = Cardinality(T)
  <2>1. ExistsBijection(T, U)
    BY <1>2 DEF ExistsBijection
  <2>. QED
    BY <1>3, <2>1, FS_Bijection
<1>5. Cardinality(U) = IF 1 \in At(s, x) THEN Cardinality(At(s, x)) - 1
                                         ELSE Cardinality(At(s, x))
  BY <1>3, FS_RemoveElement
<1>6. 1 \in At(s, x) <=> Head(s) = x
  BY <1>1 DEF At
<1>7. Cardinality(T) \in Nat /\ Cardinality(At(s, x)) \in Nat
  BY <1>3, FS_CardinalityType
<1>8. Count(s, x) = Cardinality(At(s, x)) /\ Count(Tail(s), x) = Cardinality(T)
  BY DEF Count, At
<1>. QED
  BY <1>4, <1>5, <1>6, <1>7, <1>8

LEMMA ContainsAppend ==
    ASSUME NEW S, NEW s \in Seq(S), NEW e \in S, NEW x
    PROVE  Contains(Append(s, e), x) <=> Contains(s, x) \/ e = x
BY DEF Contains

LEMMA ContainsTail ==
    ASSUME NEW S, NEW s \in Seq(S), s # <<>>, NEW x
    PROVE  Contains(s, x) <=> Contains(Tail(s), x) \/ Head(s) = x
<1>1. /\ Len(s) \in Nat \ {0} /\ s[1] = Head(s) /\ Len(Tail(s)) = Len(s) - 1
      /\ \A i \in 1 .. Len(s) - 1 : Tail(s)[i] = s[i + 1]
  OBVIOUS
<1>2. ASSUME NEW i \in 1 .. Len(s)
      PROVE  i = 1 \/ (i - 1 \in 1 .. Len(s) - 1 /\ Tail(s)[i - 1] = s[i])
  BY <1>1
<1>3. ASSUME NEW i \in 1 .. Len(s) - 1
      PROVE  i + 1 \in 1 .. Len(s) /\ Tail(s)[i] = s[i + 1]
  BY <1>1
<1>4. Contains(s, x) => Contains(Tail(s), x) \/ Head(s) = x
  BY <1>1, <1>2 DEF Contains
<1>5. Contains(Tail(s), x) => Contains(s, x)
  BY <1>1, <1>3 DEF Contains
<1>6. Contains(s, s[1])
  BY <1>1 DEF Contains
<1>. QED
  BY <1>1, <1>4, <1>5, <1>6

-----------------------------------------------------------------------------
(***************************************************************************)
(* Where a file and its matches are                                        *)
(***************************************************************************)
\* No error has occurred.
Clean == ~ errCh /\ result # "error"

\* A file the walker has sent is in the channel once.
Apart ==
    /\ \A i, k \in 1 .. Len(fileCh) : fileCh[i] = fileCh[k] => i = k
    /\ \A i \in 1 .. Len(fileCh) : fileCh[i] \notin toWalk

Sent(f) == Count(found, f) + Count(matchCh, f)

\* A file a worker gave up at an error has sent some of its matches only.
Placed(f) ==
    \/ Waits(f) /\ Decoding(f) = {} /\ Sent(f) = 0
    \/ /\ ~ Waits(f) /\ Decoding(f) = {}
       /\ Sent(f) <= Count(content[f], "match")
       /\ Clean => Sent(f) = Count(content[f], "match")
    \/ ~ Waits(f) /\ \E w \in Workers :
           /\ Decoding(f) = {w}
           /\ Sent(f) + Count(left[w], "match") = Count(content[f], "match")

\* A channel is closed, and a worker gone, only once there is nothing more to
\* come.
Ended ==
    /\ fileClosed => toWalk = {}
    /\ \A w \in Workers : worker[w] = "gone" => fileCh = <<>> /\ fileClosed

HandInv == Apart /\ (Clean => Ended) /\ \A f \in Files : Placed(f)

LEMMA ConservedPlaced == HandInv => MatchesConserved
BY DEF HandInv, MatchesConserved, Clean, Placed, Sent

LEMMA HandInit == Init => HandInv
<1>. SUFFICES ASSUME Init PROVE HandInv
  OBVIOUS
<1>1. Apart /\ Ended
  BY DEF Init, Apart, Ended
<1>2. ASSUME NEW f \in Files PROVE Placed(f)
  <2>1. Waits(f) /\ Decoding(f) = {}
    BY DEF Init, Waits, Decoding
  <2>2. Sent(f) = 0
    BY CountEmpty DEF Init, Sent
  <2>. QED
    BY <2>1, <2>2 DEF Placed
<1>. QED
  BY <1>1, <1>2 DEF HandInv

\* What a step leaves alone: the file f itself, and where it waits.
LEMMA PlacedFrame ==
    ASSUME NEW f \in Files, Placed(f),
           Waits(f)' <=> Waits(f), Sent(f)' = Sent(f),
           Decoding(f)' = Decoding(f), content' = content,
           \A w \in Decoding(f) : left'[w] = left[w],
           Clean' => Clean
    PROVE  Placed(f)'
<1>1. \A w \in Workers : Decoding(f) = {w} => w \in Decoding(f)
  OBVIOUS
<1>. HIDE DEF Decoding, Clean
<1>. QED
  BY <1>1 DEF Placed

LEMMA SentType ==
    ASSUME TypeOK, NEW f
    PROVE  Count(found, f) \in Nat /\ Count(matchCh, f) \in Nat
BY AtFinite DEF TypeOK

LEMMA MatchesType ==
    ASSUME TypeOK, NEW f \in Files
    PROVE  Count(content[f], "match") \in Nat
<1>1. content[f] \in Seq(Docs)
  BY ContentsAssumption DEF TypeOK
<1>. QED
  BY <1>1, AtFinite

LEMMA HandNext ==
    ASSUME TypeOK, WgInv, HandInv, [Next]_vars
    PROVE  HandInv'
<1>0. Clean' => Clean
  BY DEF Clean, Next, Walker, WalkFile, WalkEnds, WalkFails, Worker, Take,
         NothingToTake, Decode, DecodeFails, EndOfFile, Closer, CloseMatches,
         CloseDone, Collector, CollectMatch, ReturnError, ReturnMatches, vars
<1>1. ASSUME NEW f \in Files, WalkFile(f)
      PROVE  HandInv'
  <2>1. /\ fileCh' = Append(fileCh, f) /\ toWalk' = toWalk \ {f}
        /\ f \in toWalk /\ ~ fileClosed /\ fileCh \in Seq(Files)
        /\ UNCHANGED <<content, fileClosed, left, path, worker, matchCh, found>>
    BY <1>1 DEF WalkFile, TypeOK
  <2>2. Apart'
    BY <1>1, <2>1 DEF HandInv, Apart
  <2>3. (Clean => Ended)'
    BY <1>0, <1>1, <2>1 DEF HandInv, Ended
  <2>4. ASSUME NEW g \in Files PROVE Placed(g)'
    <3>1. Waits(g)' <=> Waits(g)
      BY <2>1, ContainsAppend DEF Waits
    <3>2. Sent(g)' = Sent(g) /\ Decoding(g)' = Decoding(g)
      BY <2>1 DEF Sent, Decoding
    <3>. QED
      BY <1>1, <2>1, <3>1, <3>2, <1>0, PlacedFrame DEF HandInv
  <2>. QED
    BY <2>2, <2>3, <2>4 DEF HandInv
<1>2. ASSUME NEW w \in Workers, Take(w)
      PROVE  HandInv'
  <2>f. PICK f \in Files : f = Head(fileCh)
    BY <1>2 DEF Take, TypeOK
  <2>1. /\ fileCh' = Tail(fileCh) /\ fileCh # <<>> /\ fileCh \in Seq(Files)
        /\ UNCHANGED <<content, toWalk, fileClosed, matchCh, found>>
        /\ worker[w] = "taking"
        /\ path' = [path EXCEPT ![w] = f]
        /\ left' = [left EXCEPT ![w] = content[f]]
        /\ worker' = [worker EXCEPT ![w] = "decoding"]
    BY <1>2, <2>f DEF Take, TypeOK
  <2>a. /\ path' \in [Workers -> Files]
        /\ left' \in [Workers -> Seq(Docs)]
        /\ DOMAIN worker = Workers /\ DOMAIN worker' = Workers
        /\ DOMAIN path = Workers /\ DOMAIN left = Workers
    BY <1>2, ScanNext DEF TypeOK
  <2>2. Apart'
    BY <1>2, <2>1 DEF HandInv, Apart
  <2>3. (Clean => Ended)'
    BY <1>0, <1>2, <2>1, <2>a DEF HandInv, Ended
  <2>4. f \notin toWalk /\ ~ Contains(Tail(fileCh), f) /\ Contains(fileCh, f)
    <3>1. /\ fileCh[1] = f /\ Len(fileCh) \in Nat \ {0}
          /\ \A i \in 1 .. Len(Tail(fileCh)) :
                Tail(fileCh)[i] = fileCh[i + 1] /\ i + 1 \in 1 .. Len(fileCh)
      BY <2>1, <2>f
    <3>2. f \notin toWalk /\ Contains(fileCh, f)
      BY <1>2, <3>1 DEF HandInv, Apart, Contains
    <3>3. ASSUME NEW i \in 1 .. Len(Tail(fileCh)) PROVE Tail(fileCh)[i] # f
      <4>1. i + 1 # 1 /\ 1 \in 1 .. Len(fileCh) /\ i + 1 \in 1 .. Len(fileCh)
        BY <2>1, <3>1
      <4>. QED
        BY <1>2, <3>1, <4>1 DEF HandInv, Apart
    <3>. QED
      BY <3>2, <3>3 DEF Contains
  <2>5. Placed(f)'
    <3>1. Waits(f) /\ ~ Waits(f)'
      BY <2>1, <2>4 DEF Waits
    <3>2. Decoding(f) = {} /\ Sent(f) = 0
      BY <1>2, <2>1, <3>1 DEF HandInv, Placed
    <3>3. Decoding(f)' = {w}
      BY <2>1, <2>a, <3>2 DEF Decoding
    <3>4. Sent(f)' = 0 /\ left'[w] = content[f]
      BY <2>1, <2>a, <3>2 DEF Sent
    <3>5. Count(content[f], "match") \in Nat
      BY <2>1, AtFinite, ContentsAssumption DEF TypeOK
    <3>. QED
      BY <2>1, <3>1, <3>3, <3>4, <3>5 DEF Placed
  <2>6. ASSUME NEW g \in Files, g # f PROVE Placed(g)'
    <3>1. Waits(g)' <=> Waits(g)
      BY <2>1, <2>6, <2>f, ContainsTail DEF Waits
    <3>2. Sent(g)' = Sent(g)
      BY <2>1 DEF Sent
    <3>3. Decoding(g)' = Decoding(g) /\ w \notin Decoding(g)
      BY <2>1, <2>6, <2>a DEF Decoding
    <3>4. \A v \in Decoding(g) : left'[v] = left[v]
      BY <2>1, <2>a, <3>3 DEF Decoding
    <3>. QED
      BY <1>2, <2>1, <3>1, <3>2, <3>3, <3>4, <1>0, PlacedFrame DEF HandInv
  <2>. QED
    BY <2>2, <2>3, <2>5, <2>6 DEF HandInv
<1>3. ASSUME NEW w \in Workers, Decode(w)
      PROVE  HandInv'
  <2>f. PICK f \in Files : f = path[w]
    BY DEF TypeOK
  <2>1. /\ UNCHANGED <<content, toWalk, fileCh, fileClosed, path, worker, found>>
        /\ worker[w] = "decoding"
        /\ left' = [left EXCEPT ![w] = Tail(@)] /\ DOMAIN left = Workers
        /\ left[w] \in Seq(Docs) /\ left[w] # <<>> /\ matchCh \in Seq(Files)
        /\ matchCh' = IF Head(left[w]) = "match" THEN Append(matchCh, f)
                                                 ELSE matchCh
    BY <1>3, <2>f DEF Decode, TypeOK
  <2>2. Apart' /\ (Clean => Ended)'
    BY <1>0, <1>3, <2>1 DEF HandInv, Apart, Ended
  <2>3. \A g : Waits(g)' = Waits(g) /\ Decoding(g)' = Decoding(g)
    BY <2>1 DEF Waits, Decoding
  <2>4. w \in Decoding(f) /\ \A g : g # f => w \notin Decoding(g)
    BY <2>1, <2>f DEF Decoding
  <2>5. \A g : Count(matchCh', g)
                = Count(matchCh, g)
                  + (IF Head(left[w]) = "match" /\ g = f THEN 1 ELSE 0)
    <3>1. \A g : Count(matchCh, g) \in Nat
      BY SentType
    <3>2. \A g : Count(Append(matchCh, f), g)
                  = Count(matchCh, g) + (IF f = g THEN 1 ELSE 0)
      BY <2>1, CountAppend
    <3>. QED
      BY <2>1, <3>1, <3>2
  <2>6. Placed(f)'
    <3>1. /\ ~ Waits(f) /\ Decoding(f) = {w}
          /\ Sent(f) + Count(left[w], "match") = Count(content[f], "match")
      <4>1. PICK v \in Workers :
               /\ Decoding(f) = {v} /\ ~ Waits(f)
               /\ Sent(f) + Count(left[v], "match") = Count(content[f], "match")
        BY <1>3, <2>1, <2>4 DEF HandInv, Placed
      <4>. QED
        BY <2>4, <4>1
    <3>2. Count(left[w], "match")
             = Count(Tail(left[w]), "match")
               + (IF Head(left[w]) = "match" THEN 1 ELSE 0)
      BY <2>1, CountTail
    <3>3. /\ Count(Tail(left[w]), "match") \in Nat
          /\ Count(found, f) \in Nat /\ Count(matchCh, f) \in Nat
      <4>1. Tail(left[w]) \in Seq(Docs)
        BY <2>1
      <4>. QED
        BY <4>1, AtFinite, SentType
    <3>4. Sent(f)' = Sent(f) + (IF Head(left[w]) = "match" THEN 1 ELSE 0)
      BY <2>1, <2>5, <3>3 DEF Sent
    <3>5. left'[w] = Tail(left[w])
      BY <2>1
    <3>6. Sent(f)' + Count(left'[w], "match") = Count(content[f], "match")
      BY <3>1, <3>2, <3>3, <3>4, <3>5 DEF Sent
    <3>. QED
      BY <2>1, <2>3, <3>1, <3>6 DEF Placed
  <2>7. ASSUME NEW g \in Files, g # f PROVE Placed(g)'
    <3>1. Sent(g)' = Sent(g)
      BY <2>1, <2>5, <2>7, SentType DEF Sent
    <3>2. \A v \in Decoding(g) : left'[v] = left[v]
      BY <2>1, <2>4, <2>7 DEF Decoding
    <3>. QED
      BY <1>3, <2>1, <2>3, <3>1, <3>2, <1>0, PlacedFrame DEF HandInv
  <2>. QED
    BY <2>2, <2>6, <2>7 DEF HandInv
<1>4. ASSUME NEW w \in Workers, NothingToTake(w)
      PROVE  HandInv'
  <2>1. /\ UNCHANGED <<content, toWalk, fileCh, fileClosed, left, path, matchCh,
                       found>>
        /\ fileCh = <<>> /\ fileClosed /\ worker[w] = "taking"
        /\ worker' = [worker EXCEPT ![w] = "gone"] /\ DOMAIN worker = Workers
    BY <1>4 DEF NothingToTake, TypeOK
  <2>2. Apart' /\ (Clean => Ended)'
    BY <1>0, <1>4, <2>1 DEF HandInv, Apart, Ended
  <2>3. ASSUME NEW g \in Files PROVE Placed(g)'
    <3>1. (Waits(g)' <=> Waits(g)) /\ Sent(g)' = Sent(g)
      BY <2>1 DEF Waits, Sent
    <3>2. Decoding(g)' = Decoding(g)
      BY <2>1 DEF Decoding
    <3>. QED
      BY <1>4, <2>1, <3>1, <3>2, <1>0, PlacedFrame DEF HandInv
  <2>. QED
    BY <2>2, <2>3 DEF HandInv
<1>5. ASSUME NEW w \in Workers, EndOfFile(w)
      PROVE  HandInv'
  <2>f. PICK f \in Files : f = path[w]
    BY DEF TypeOK
  <2>1. /\ UNCHANGED <<content, toWalk, fileCh, fileClosed, left, path, matchCh,
                       found>>
        /\ worker[w] = "decoding" /\ left[w] = <<>>
        /\ worker' = [worker EXCEPT ![w] = "taking"] /\ DOMAIN worker = Workers
    BY <1>5 DEF EndOfFile, TypeOK
  <2>2. Apart' /\ (Clean => Ended)'
    BY <1>0, <1>5, <2>1 DEF HandInv, Apart, Ended
  <2>3. \A g : (Waits(g)' <=> Waits(g)) /\ Sent(g)' = Sent(g)
    BY <2>1 DEF Waits, Sent
  <2>4. w \in Decoding(f) /\ Decoding(f)' = Decoding(f) \ {w}
    BY <2>1, <2>f DEF Decoding
  <2>5. Placed(f)'
    <3>1. PICK v \in Workers :
             /\ Decoding(f) = {v} /\ ~ Waits(f)
             /\ Sent(f) + Count(left[v], "match") = Count(content[f], "match")
      BY <1>5, <2>1, <2>4 DEF HandInv, Placed
    <3>2. v = w /\ Decoding(f)' = {}
      BY <2>4, <3>1
    <3>3. Sent(f) = Count(content[f], "match")
      BY <2>1, <3>1, <3>2, CountEmpty, SentType DEF Sent
    <3>4. Count(content[f], "match") \in Nat
      BY MatchesType
    <3>. QED
      BY <2>1, <2>3, <3>1, <3>2, <3>3, <3>4 DEF Placed
  <2>6. ASSUME NEW g \in Files, g # f PROVE Placed(g)'
    <3>1. Decoding(g)' = Decoding(g)
      BY <2>1, <2>6, <2>f DEF Decoding
    <3>. QED
      BY <1>5, <2>1, <2>3, <3>1, <1>0, PlacedFrame DEF HandInv
  <2>. QED
    BY <2>2, <2>5, <2>6 DEF HandInv
<1>6. ASSUME CollectMatch
      PROVE  HandInv'
  <2>1. /\ UNCHANGED <<content, toWalk, fileCh, fileClosed, left, path, worker>>
        /\ matchCh \in Seq(Files) /\ matchCh # <<>> /\ found \in Seq(Files)
        /\ Head(matchCh) \in Files /\ matchCh' = Tail(matchCh)
        /\ found' = Append(found, Head(matchCh))
    BY <1>6 DEF CollectMatch, TypeOK
  <2>2. Apart' /\ (Clean => Ended)'
    BY <1>0, <1>6, <2>1 DEF HandInv, Apart, Ended
  <2>3. ASSUME NEW g \in Files PROVE Placed(g)'
    <3>1. Count(matchCh, g)
             = Count(Tail(matchCh), g) + (IF Head(matchCh) = g THEN 1 ELSE 0)
      BY <2>1, CountTail
    <3>2. Count(Append(found, Head(matchCh)), g)
             = Count(found, g) + (IF Head(matchCh) = g THEN 1 ELSE 0)
      BY <2>1, CountAppend
    <3>3. Count(Tail(matchCh), g) \in Nat /\ Count(found, g) \in Nat
      <4>1. Tail(matchCh) \in Seq(Files)
        BY <2>1
      <4>. QED
        BY <2>1, <4>1, AtFinite
    <3>4. Sent(g)' = Sent(g)
      BY <2>1, <3>1, <3>2, <3>3 DEF Sent
    <3>5. (Waits(g)' <=> Waits(g)) /\ Decoding(g)' = Decoding(g)
      BY <2>1 DEF Waits, Decoding
    <3>. QED
      BY <1>6, <2>1, <3>4, <3>5, <1>0, PlacedFrame DEF HandInv
  <2>. QED
    BY <2>2, <2>3 DEF HandInv
<1>7. ASSUME \/ WalkEnds \/ Closer \/ ReturnMatches \/ UNCHANGED vars
      PROVE  HandInv'
  <2>1. /\ UNCHANGED <<content, toWalk, fileCh, left, path, worker, matchCh,
                       found>>
        /\ fileClosed' = fileClosed \/ (fileClosed' = TRUE /\ toWalk = {})
    BY <1>7 DEF WalkEnds, Closer, CloseMatches, CloseDone, ReturnMatches, vars
  <2>2. Apart' /\ (Clean => Ended)'
    BY <1>0, <1>7, <2>1 DEF HandInv, Apart, Ended
  <2>3. ASSUME NEW g \in Files PROVE Placed(g)'
    <3>1. /\ Waits(g)' <=> Waits(g)
          /\ Sent(g)' = Sent(g) /\ Decoding(g)' = Decoding(g)
      BY <2>1 DEF Waits, Sent, Decoding
    <3>. QED
      BY <1>7, <2>1, <3>1, <1>0, PlacedFrame DEF HandInv
  <2>. QED
    BY <2>2, <2>3 DEF HandInv
<1>8. ASSUME NEW w \in Workers, DecodeFails(w)
      PROVE  HandInv'
  <2>f. PICK f \in Files : f = path[w]
    BY DEF TypeOK
  <2>1. /\ UNCHANGED <<content, toWalk, fileCh, fileClosed, left, path, matchCh,
                       found>>
        /\ worker[w] = "decoding" /\ errCh'
        /\ worker' = [worker EXCEPT ![w] = "gone"] /\ DOMAIN worker = Workers
    BY <1>8 DEF DecodeFails, TypeOK
  <2>2. Apart' /\ ~ Clean'
    BY <2>1 DEF HandInv, Apart, Clean
  <2>3. \A g : (Waits(g)' <=> Waits(g)) /\ Sent(g)' = Sent(g)
    BY <2>1 DEF Waits, Sent
  <2>4. w \in Decoding(f) /\ Decoding(f)' = Decoding(f) \ {w}
    BY <2>1, <2>f DEF Decoding
  <2>5. Placed(f)'
    <3>1. PICK v \in Workers :
             /\ Decoding(f) = {v} /\ ~ Waits(f)
             /\ Sent(f) + Count(left[v], "match") = Count(content[f], "match")
      BY <2>1, <2>4 DEF HandInv, Placed
    <3>2. Decoding(f)' = {}
      BY <2>4, <3>1
    <3>3. /\ Count(content[f], "match") \in Nat /\ Sent(f) \in Nat
          /\ Count(left[v], "match") \in Nat
      BY MatchesType, SentType, AtFinite DEF TypeOK, Sent
    <3>4. Sent(f) <= Count(content[f], "match")
      BY <3>1, <3>3
    <3>. QED
      BY <2>1, <2>2, <2>3, <3>1, <3>2, <3>4 DEF Placed
  <2>6. ASSUME NEW g \in Files, g # f PROVE Placed(g)'
    <3>1. Decoding(g)' = Decoding(g)
      BY <2>1, <2>6, <2>f DEF Decoding
    <3>. QED
      BY <1>0, <2>1, <2>3, <3>1, PlacedFrame DEF HandInv
  <2>. QED
    BY <2>2, <2>5, <2>6 DEF HandInv
<1>9. ASSUME WalkFails \/ ReturnError
      PROVE  HandInv'
  <2>1. /\ UNCHANGED <<content, toWalk, fileCh, left, path, worker, matchCh,
                       found>>
        /\ errCh' \/ result' = "error"
    BY <1>9 DEF WalkFails, ReturnError
  <2>2. Apart' /\ ~ Clean'
    BY <2>1 DEF HandInv, Apart, Clean
  <2>3. ASSUME NEW g \in Files PROVE Placed(g)'
    <3>1. /\ Waits(g)' <=> Waits(g)
          /\ Sent(g)' = Sent(g) /\ Decoding(g)' = Decoding(g)
      BY <2>1 DEF Waits, Sent, Decoding
    <3>. QED
      BY <1>0, <2>1, <3>1, PlacedFrame DEF HandInv
  <2>. QED
    BY <2>2, <2>3 DEF HandInv
<1>. QED
  BY <1>1, <1>2, <1>3, <1>4, <1>5, <1>6, <1>7, <1>8, <1>9
  DEF Next, Walker, Worker, Collector

LEMMA HandCorrect == Spec => []HandInv
<1>1. TypeOK /\ WgInv /\ HandInv /\ [Next]_vars => HandInv'
  BY HandNext
<1>. QED
  BY <1>1, HandInit, ScanCorrect, PTL DEF Spec

-----------------------------------------------------------------------------
\* Between the walker, the pool and the collector (gitea.go:60-200) no match
\* is dropped and none is sent twice, whatever the order of the goroutines
\* and the capacities of the channels; after an error too, nothing is
\* collected that does not match.
THEOREM MatchesKept == Spec => []MatchesConserved
  BY ConservedPlaced, HandCorrect, PTL

-----------------------------------------------------------------------------
\* What comes before a return without an error: the workers are gone because
\* the walker is done or because each met an error that nobody has collected.
ReturnInv ==
    /\ done \/ result = "matches" => matchClosed
    /\ result # "error" /\ (\A w \in Workers : worker[w] = "gone") =>
           fileClosed \/ errCh

LEMMA ReturnInit == Init => ReturnInv
  BY WorkersAssumption DEF Init, ReturnInv

LEMMA ReturnNext == TypeOK /\ ReturnInv /\ [Next]_vars => ReturnInv'
<1> SUFFICES ASSUME TypeOK, ReturnInv, [Next]_vars PROVE ReturnInv'
  OBVIOUS
<1>1. ASSUME Walker PROVE ReturnInv'
  BY <1>1 DEF Walker, WalkFile, WalkEnds, WalkFails, ReturnInv
<1>2. ASSUME NEW w \in Workers, Take(w) \/ Decode(w) \/ EndOfFile(w)
      PROVE  ReturnInv'
  <2>1. worker'[w] # "gone"
        /\ UNCHANGED <<done, result, matchClosed, fileClosed, errCh>>
    BY <1>2 DEF TypeOK, Take, Decode, EndOfFile
  <2>. QED
    BY <2>1 DEF ReturnInv
<1>3. ASSUME NEW w \in Workers, NothingToTake(w) \/ DecodeFails(w)
      PROVE  ReturnInv'
  BY <1>3 DEF NothingToTake, DecodeFails, ReturnInv
<1>4. ASSUME Closer \/ Collector \/ UNCHANGED vars PROVE ReturnInv'
  BY <1>4 DEF Closer, CloseMatches, CloseDone, Collector, CollectMatch,
              ReturnError, ReturnMatches, vars, ReturnInv
<1>. QED
  BY <1>1, <1>2, <1>3, <1>4 DEF Next, Worker

\* The caller gets its matches (gitea.go:184-196) only when the pool has ended,
\* and the walker with it unless every worker ended at an error: goroutines
\* that wait for ever are the price of an error, never of a success.
THEOREM EndsWithItsPool == Spec => []StrandedByErrorOnly
<1>1. ReturnInv /\ NoSendOnClosed => StrandedByErrorOnly
  BY DEF ReturnInv, NoSendOnClosed, StrandedByErrorOnly
<1>. QED
  BY <1>1, ReturnInit, ReturnNext, ScanTypes, ClosedAfterSends, PTL DEF Spec

\* The select of the collector (gitea.go:184-196) may return without the matches
\* that are still in matchCh and may overlook an error.  There is no third way
\* to lose a match: with errCh empty every file was walked, taken and decoded to
\* its end, and each of its matches is collected or still in matchCh.
THEOREM OnlyTheSelectMisses == Spec => []MissesExplained
<1>1. TypeOK /\ HandInv /\ NoSendOnClosed /\ ReturnInv => MissesExplained
  <2>. SUFFICES ASSUME TypeOK, HandInv, NoSendOnClosed, ReturnInv, ~ errCh,
                       result = "matches", NEW f \in Files
                PROVE  Sent(f) = Count(content[f], "match")
    BY DEF MissesExplained, Sent
  <2>1. Clean /\ \A w \in Workers : worker[w] = "gone"
    BY DEF Clean, ReturnInv, NoSendOnClosed
  <2>2. fileCh = <<>> /\ toWalk = {}
    BY <2>1, WorkersAssumption DEF HandInv, Ended
  <2>3. ~ Waits(f) /\ Decoding(f) = {}
    BY <2>1, <2>2 DEF Waits, Contains, Decoding
  <2>. QED
    BY <2>1, <2>3 DEF HandInv, Placed
<1>. QED
  BY <1>1, ReturnInit, ReturnNext, ScanTypes, HandCorrect, ClosedAfterSends,
     PTL DEF Spec
=============================================================================
