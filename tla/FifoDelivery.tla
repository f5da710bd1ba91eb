---------------------------- MODULE FifoDelivery ----------------------------
(***************************************************************************)
(* What the lifecycle spool promises its producers: a durable FIFO queue   *)
(* with at-least-once delivery.  Only the head is delivered; it leaves     *)
(* after a successful delivery or goes to the dead letters.                *)
(***************************************************************************)
EXTENDS Naturals, Sequences

CONSTANT Items

VARIABLES
    queue,      \* items waiting, oldest first
    dead,       \* dead letters
    delivered   \* how often each item was delivered successfully

fvars == <<queue, dead, delivered>>

FInit ==
    /\ queue = <<>>
    /\ dead = {}
    /\ delivered = [i \in Items |-> 0]

Append1(i) ==
    /\ queue' = Append(queue, i)
    /\ UNCHANGED <<dead, delivered>>

DeliverHead ==
    /\ queue # <<>>
    /\ delivered' = [delivered EXCEPT ![Head(queue)] = @ + 1]
    /\ UNCHANGED <<queue, dead>>

RemoveHead ==
    /\ queue # <<>>
    /\ delivered[Head(queue)] > 0
    /\ queue' = Tail(queue)
    /\ UNCHANGED <<dead, delivered>>

DeadLetterHead ==
    /\ queue # <<>>
    /\ dead' = dead \cup {Head(queue)}
    /\ queue' = Tail(queue)
    /\ UNCHANGED delivered

FNext ==
    \/ \E i \in Items : Append1(i)
    \/ DeliverHead
    \/ RemoveHead
    \/ DeadLetterHead

FSpec == FInit /\ [][FNext]_fvars
=============================================================================
