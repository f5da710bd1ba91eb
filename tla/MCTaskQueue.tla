----------------------------- MODULE MCTaskQueue -----------------------------
(***************************************************************************)
(* Model-checking instances of TaskQueue: the enqueue calls the CLI, the   *)
(* init runtime, the producer spool and the policy reconciler make.        *)
(***************************************************************************)
EXTENDS TaskQueue

CONSTANTS r1, p1, p2, s1

SyncRequest(source, mode, paths, commit, session) ==
    [repo |-> r1, kind |-> "sync", source |-> source, mode |-> mode, paths |-> paths,
     commit |-> commit, session |-> session]

OtherRequest(kind, source, session) ==
    [repo |-> r1, kind |-> kind, source |-> source, mode |-> "none", paths |-> {},
     commit |-> NoCommit, session |-> session]

WatcherPath1 == SyncRequest("watcher", "paths", {p1}, NoCommit, NoSession)
WatcherPath2 == SyncRequest("watcher", "paths", {p2}, NoCommit, NoSession)
CheckoutFull == SyncRequest("post_checkout", "full", {}, NoCommit, NoSession)
PolicyFull   == SyncRequest("policy", "full", {}, NoCommit, NoSession)
InitAuto     == SyncRequest("init", "auto", {}, NoCommit, s1)
MergeIngest  == OtherRequest("ingest", "post_merge", NoSession)

\* Background producers, an init session and the policy reconciler.
CoalescingRequests ==
    {WatcherPath1, WatcherPath2, CheckoutFull, InitAuto, PolicyFull, MergeIngest}
=============================================================================
