------------------------------ MODULE RepoScan ------------------------------
(***************************************************************************)
(* The concurrent scan of a cloned repository (reconcilers/git/gitea.go,   *)
(* CheckRepoForMatchingResourceQuotaManifests and                          *)
(* CheckRepoForMatchingClusterAPIManifestsMgmt, which differ only in what  *)
(* they match).  A walker sends paths to a pool of workers, the workers    *)
(* send matches and the first error to the collector, and a closer closes  *)
(* the channels once every worker is gone.  The caller's context is the    *)
(* background context, so it is never cancelled.                           *)
(***************************************************************************)
EXTENDS Naturals, Sequences, SequencesExt, FiniteSets

CONSTANTS
    Files,      \* the YAML files of the clone
    Contents,   \* the contents a file may have: sequences of documents
    Workers,    \* runtime.NumCPU() of them
    FileCap,    \* capacity of fileCh (100 in the code)
    MatchCap    \* capacity of matchCh (100 in the code)

\* A document matches, does not, or cannot be decoded; a file that cannot be
\* read is one with a bad document.
Docs == {"match", "other", "bad"}

ASSUME ContentsAssumption == Contents \subseteq Seq(Docs)
ASSUME FilesAssumption == Files # {}
ASSUME WorkersAssumption == Workers # {} /\ IsFiniteSet(Workers)
ASSUME CapsAssumption == FileCap \in Nat \ {0} /\ MatchCap \in Nat \ {0}

VARIABLES
    content,        \* content[f]: the documents of file f
    toWalk,         \* files WalkDir has not come to
    fileCh, fileClosed,
    left,           \* left[w]: the documents worker w has still to decode
    path,           \* path[w]: the file it is at
    worker,         \* worker[w]: "taking", "decoding" or "gone"
    wg,             \* the count of the wait group
    matchCh, matchClosed,
    errCh,          \* whether errCh holds an error
    done,           \* whether done is closed
    found,          \* matchingFiles of the collector
    result          \* what the scan returned

vars == <<content, toWalk, fileCh, fileClosed, left, path, worker, wg,
          matchCh, matchClosed, errCh, done, found, result>>

\* The channels and the goroutines are in their types, and no channel is
\* above its capacity.
TypeOK ==
    /\ content \in [Files -> Contents]
    /\ toWalk \subseteq Files
    /\ fileCh \in Seq(Files) /\ Len(fileCh) <= FileCap
    /\ fileClosed \in BOOLEAN
    /\ left \in [Workers -> Seq(Docs)]
    /\ path \in [Workers -> Files]
    /\ worker \in [Workers -> {"taking", "decoding", "gone"}]
    /\ wg \in 0 .. Cardinality(Workers)
    /\ matchCh \in Seq(Files) /\ Len(matchCh) <= MatchCap
    /\ matchClosed \in BOOLEAN
    /\ errCh \in BOOLEAN
    /\ done \in BOOLEAN
    /\ found \in Seq(Files)
    /\ result \in {"none", "matches", "error"}

Init ==
    /\ content \in [Files -> Contents]
    /\ toWalk = Files
    /\ fileCh = <<>> /\ fileClosed = FALSE
    /\ left = [w \in Workers |-> <<>>]
    /\ path \in [Workers -> {CHOOSE f \in Files : TRUE}]
    /\ worker = [w \in Workers |-> "taking"]
    /\ wg = Cardinality(Workers)
    /\ matchCh = <<>> /\ matchClosed = FALSE
    /\ errCh = FALSE
    /\ done = FALSE
    /\ found = <<>>
    /\ result = "none"

-----------------------------------------------------------------------------
(***************************************************************************)
(* The walker                                                              *)
(***************************************************************************)
\* Mutant: the walker does not wait for room.
WalkFileUnbounded(f) ==
    /\ f \in toWalk
    /\ ~ fileClosed
    /\ fileCh' = Append(fileCh, f)
    /\ toWalk' = toWalk \ {f}
    /\ UNCHANGED <<content, fileClosed, left, path, worker, wg, matchCh,
                   matchClosed, errCh, done, found, result>>

\* The walker waits for room in fileCh.
WalkFile(f) ==
    /\ f \in toWalk
    /\ ~ fileClosed
    /\ Len(fileCh) < FileCap
    /\ fileCh' = Append(fileCh, f)
    /\ toWalk' = toWalk \ {f}
    /\ UNCHANGED <<content, fileClosed, left, path, worker, wg, matchCh,
                   matchClosed, errCh, done, found, result>>

WalkEnds ==
    /\ toWalk = {}
    /\ ~ fileClosed
    /\ fileClosed' = TRUE
    /\ UNCHANGED <<content, toWalk, fileCh, left, path, worker, wg, matchCh,
                   matchClosed, errCh, done, found, result>>

\* WalkDir stops at an entry it cannot read, which may be one after the last
\* of the YAML files.
WalkFails ==
    /\ ~ fileClosed
    /\ errCh' = TRUE
    /\ fileClosed' = TRUE
    /\ UNCHANGED <<content, toWalk, fileCh, left, path, worker, wg, matchCh,
                   matchClosed, done, found, result>>

-----------------------------------------------------------------------------
(***************************************************************************)
(* The workers                                                             *)
(***************************************************************************)
Take(w) ==
    /\ worker[w] = "taking"
    /\ fileCh # <<>>
    /\ fileCh' = Tail(fileCh)
    /\ path' = [path EXCEPT ![w] = Head(fileCh)]
    /\ left' = [left EXCEPT ![w] = content[Head(fileCh)]]
    /\ worker' = [worker EXCEPT ![w] = "decoding"]
    /\ UNCHANGED <<content, toWalk, fileClosed, matchCh, matchClosed, errCh,
                   done, found, result, wg>>

\* Mutant: the worker does not wait for the close of fileCh.
NothingToTakeYet(w) ==
    /\ worker[w] = "taking"
    /\ fileCh = <<>>
    /\ worker' = [worker EXCEPT ![w] = "gone"]
    /\ wg' = wg - 1
    /\ UNCHANGED <<content, toWalk, fileCh, fileClosed, left, path, matchCh,
                   matchClosed, errCh, done, found, result>>

\* wg.Done is deferred: it comes with the end of the worker.
NothingToTake(w) ==
    /\ worker[w] = "taking"
    /\ fileCh = <<>> /\ fileClosed
    /\ worker' = [worker EXCEPT ![w] = "gone"]
    /\ wg' = wg - 1
    /\ UNCHANGED <<content, toWalk, fileCh, fileClosed, left, path, matchCh,
                   matchClosed, errCh, done, found, result>>

\* Mutant: the worker goes on with the next file after a match.
DecodeFirstMatch(w) ==
    /\ worker[w] = "decoding"
    /\ left[w] # <<>>
    /\ Head(left[w]) # "bad"
    /\ Head(left[w]) = "match" => Len(matchCh) < MatchCap
    /\ matchCh' = IF Head(left[w]) = "match" THEN Append(matchCh, path[w])
                                             ELSE matchCh
    /\ left' = [left EXCEPT ![w] = IF Head(@) = "match" THEN <<>> ELSE Tail(@)]
    /\ UNCHANGED <<content, toWalk, fileCh, fileClosed, path, worker, wg,
                   matchClosed, errCh, done, found, result>>

\* A document that matches is sent: the worker waits for room in matchCh.
Decode(w) ==
    /\ worker[w] = "decoding"
    /\ left[w] # <<>>
    /\ Head(left[w]) # "bad"
    /\ Head(left[w]) = "match" => Len(matchCh) < MatchCap
    /\ matchCh' = IF Head(left[w]) = "match" THEN Append(matchCh, path[w])
                                             ELSE matchCh
    /\ left' = [left EXCEPT ![w] = Tail(@)]
    /\ UNCHANGED <<content, toWalk, fileCh, fileClosed, path, worker, wg,
                   matchClosed, errCh, done, found, result>>

\* Mutant: wg.Done is called on the way out, and again by the defer.
DecodeFailsDoneTwice(w) ==
    /\ worker[w] = "decoding"
    /\ left[w] # <<>>
    /\ Head(left[w]) = "bad"
    /\ errCh' = TRUE
    /\ worker' = [worker EXCEPT ![w] = "gone"]
    /\ wg' = wg - 2
    /\ UNCHANGED <<content, toWalk, fileCh, fileClosed, left, path, matchCh,
                   matchClosed, done, found, result>>

\* The error is sent unless one is there already; the worker is gone.
DecodeFails(w) ==
    /\ worker[w] = "decoding"
    /\ left[w] # <<>>
    /\ Head(left[w]) = "bad"
    /\ errCh' = TRUE
    /\ worker' = [worker EXCEPT ![w] = "gone"]
    /\ wg' = wg - 1
    /\ UNCHANGED <<content, toWalk, fileCh, fileClosed, left, path, matchCh,
                   matchClosed, done, found, result>>

EndOfFile(w) ==
    /\ worker[w] = "decoding"
    /\ left[w] = <<>>
    /\ worker' = [worker EXCEPT ![w] = "taking"]
    /\ UNCHANGED <<content, toWalk, fileCh, fileClosed, left, path, matchCh,
                   matchClosed, errCh, done, found, result, wg>>

-----------------------------------------------------------------------------
(***************************************************************************)
(* The closer                                                              *)
(***************************************************************************)

\* Mutant: the closer waits for the first worker only.
CloseMatchesEarly ==
    /\ wg < Cardinality(Workers)
    /\ ~ matchClosed
    /\ matchClosed' = TRUE
    /\ UNCHANGED <<content, toWalk, fileCh, fileClosed, left, path, worker, wg,
                   matchCh, errCh, done, found, result>>

\* wg.Wait, then the close.
CloseMatches ==
    /\ wg = 0
    /\ ~ matchClosed
    /\ matchClosed' = TRUE
    /\ UNCHANGED <<content, toWalk, fileCh, fileClosed, left, path, worker, wg,
                   matchCh, errCh, done, found, result>>

CloseDone ==
    /\ matchClosed
    /\ ~ done
    /\ done' = TRUE
    /\ UNCHANGED <<content, toWalk, fileCh, fileClosed, left, path, worker, wg,
                   matchCh, matchClosed, errCh, found, result>>

-----------------------------------------------------------------------------
(***************************************************************************)
(* The collector: a select takes any of the cases that are ready           *)
(***************************************************************************)

\* Mutant: matches are collected only once every worker is gone.
CollectMatchLate ==
    /\ result = "none"
    /\ matchClosed
    /\ matchCh # <<>>
    /\ matchCh' = Tail(matchCh)
    /\ found' = Append(found, Head(matchCh))
    /\ UNCHANGED <<content, toWalk, fileCh, fileClosed, left, path, worker, wg,
                   matchClosed, errCh, done, result>>

CollectMatch ==
    /\ result = "none"
    /\ matchCh # <<>>
    /\ matchCh' = Tail(matchCh)
    /\ found' = Append(found, Head(matchCh))
    /\ UNCHANGED <<content, toWalk, fileCh, fileClosed, left, path, worker, wg,
                   matchClosed, errCh, done, result>>

ReturnError ==
    /\ result = "none"
    /\ errCh
    /\ errCh' = FALSE
    /\ result' = "error"
    /\ UNCHANGED <<content, toWalk, fileCh, fileClosed, left, path, worker, wg,
                   matchCh, matchClosed, done, found>>

\* matchCh is closed and empty, or done is closed.
ReturnMatches ==
    /\ result = "none"
    /\ (matchCh = <<>> /\ matchClosed) \/ done
    /\ result' = "matches"
    /\ UNCHANGED <<content, toWalk, fileCh, fileClosed, left, path, worker, wg,
                   matchCh, matchClosed, errCh, done, found>>

-----------------------------------------------------------------------------
Walker == (\E f \in Files : WalkFile(f)) \/ WalkEnds \/ WalkFails
Worker(w) == Take(w) \/ NothingToTake(w) \/ Decode(w) \/ DecodeFails(w)
                \/ EndOfFile(w)
Closer == CloseMatches \/ CloseDone
Collector == CollectMatch \/ ReturnError \/ ReturnMatches

Next == Walker \/ (\E w \in Workers : Worker(w)) \/ Closer \/ Collector

Spec == Init /\ [][Next]_vars

\* The Go scheduler runs every goroutine that can go on.
Fairness ==
    /\ WF_vars(Walker) /\ WF_vars(Closer) /\ WF_vars(Collector)
    /\ \A w \in Workers : WF_vars(Worker(w))

FairSpec == Spec /\ Fairness

-----------------------------------------------------------------------------
(***************************************************************************)
(* Properties                                                              *)
(***************************************************************************)
Count(s, x) == Cardinality({i \in DOMAIN s : s[i] = x})

Waits(f) == f \in toWalk \/ Contains(fileCh, f)
Decoding(f) == {w \in Workers : worker[w] = "decoding" /\ path[w] = f}

\* In every state, errors and the return of the scan included, a file is
\* still before the pool, or with one worker, or done, and its matches are
\* the ones collected, in the channel, and still before that worker: no
\* hand-over between the goroutines drops or repeats one, and what is
\* collected, which the handlers then edit, matches.  Only a file given up at
\* an error may be done with fewer.
MatchesConserved ==
    \A f \in Files :
        LET sent == Count(found, f) + Count(matchCh, f)
            all == Count(content[f], "match") IN
        \/ Waits(f) /\ Decoding(f) = {} /\ sent = 0
        \/ /\ ~ Waits(f) /\ Decoding(f) = {}
           /\ sent <= all
           /\ ~ errCh /\ result # "error" => sent = all
        \/ ~ Waits(f) /\ \E w \in Workers :
               Decoding(f) = {w} /\ sent + Count(left[w], "match") = all

\* A scan that returns without an error (gitea.go:184-196) has lost a match in
\* one of two ways only: it is still in matchCh, since the select took done
\* before it, or the select overlooked an error, which is then in errCh.  No
\* file is left unread or half read without one.
MissesExplained ==
    result = "matches" /\ ~ errCh =>
        \A f \in Files : Count(found, f) + Count(matchCh, f)
                           = Count(content[f], "match")

\* matchCh is closed only when no worker can send on it any more, also when
\* workers leave at errors: the wait group (gitea.go:86, 173-177) counts each of
\* them once.  A send on the closed channel would panic and take the whole
\* server down.
NoSendOnClosed == matchClosed => \A w \in Workers : worker[w] = "gone"

\* A scan that returns without an error leaves no goroutine behind that waits
\* for the collector, unless its select overlooked an error: whoever is
\* stranded at matchCh or fileCh was stranded by an error.
StrandedByErrorOnly ==
    result = "matches" =>
        /\ \A w \in Workers : worker[w] = "gone"
        /\ fileClosed \/ errCh

\* The scan returns, whatever the files hold and however small the channels
\* are against the matches: the pool never ends up waiting on itself.
Returns == <>(result # "none")

\* "clones a Git repo and scans it for YAML manifests matching a given
\* ResourceRef" (gitea.go:47-48): when nothing has failed, what is returned is
\* every match.
AllMatchesReturned ==
    result = "matches" /\ ~ errCh =>
        \A f \in Files : Count(found, f) = Count(content[f], "match")
=============================================================================
