-------------------------- MODULE MCLifecycleSpool --------------------------
(***************************************************************************)
(* Model-checking instances of LifecycleSpool.                             *)
(***************************************************************************)
EXTENDS LifecycleSpool

NoLegacyRows == [j \in {} |-> 0]
OnePendingLegacyRow == [j \in Legacy |-> [rowid |-> 1, status |-> "pending", attempts |-> 0]]
=============================================================================
