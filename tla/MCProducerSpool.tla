--------------------------- MODULE MCProducerSpool ---------------------------
(***************************************************************************)
(* The model-checking instance of ProducerSpool: what the watcher and the  *)
(* post-commit hook enqueue.                                               *)
(***************************************************************************)
EXTENDS ProducerSpool

CONSTANTS r1, p1, p2, c1

Spooled(kind, mode, paths, commit) ==
    [repo |-> r1, kind |-> kind, source |-> IF kind = "sync" THEN "watcher" ELSE "post_commit",
     mode |-> mode, paths |-> paths, commit |-> commit]

WatcherPaths(S) == Spooled("sync", "paths", S, NoCommit)
Derivation == Spooled("derivation", "none", {}, c1)

\* The watcher and a commit, in one repo.
CommitProductions == {WatcherPaths({p1}), WatcherPaths({p2}), Derivation}

\* What may run beside the claim: a sync, which holds back both.
OneSyncTask == {[repo |-> r1, kind |-> "sync", policy |-> FALSE]}
=============================================================================
