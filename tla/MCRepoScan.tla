----------------------------- MODULE MCRepoScan -----------------------------
(* Small instances of RepoScan. *)
EXTENDS RepoScan, TLC

\* No match, one, two in one file, one before a document that is broken.
MCContents == {<<"other">>, <<"other", "match">>, <<"match", "match">>,
               <<"match", "bad">>}

GoodContents == {<<"other", "match">>, <<"match", "match">>}

WorkerSymmetry == Permutations(Workers)
=============================================================================
