--------------------------- MODULE MCInitRuntime ---------------------------
(* A model-checking instance of InitRuntime. *)
EXTENDS InitRuntime

Asked(sync, ingest, bootstraps) == [sync |-> sync, ingest |-> ingest, bootstraps |-> bootstraps]

\* Everything, a sync with one bootstrap, and an ingest without a sync.
MCSelections ==
    {Asked(TRUE, TRUE, {"embeddings"}), Asked(TRUE, FALSE, Bootstraps),
     Asked(FALSE, TRUE, {"summary"})}
=============================================================================
