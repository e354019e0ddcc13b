------------------------------ MODULE LossyFeed ------------------------------
(***************************************************************************)
(* What a tail (Kafka, Socket) promises the client that started it: items  *)
(* are numbered as the source produces them; the client gets them in order *)
(* and at most once; items may be lost, but only when a newer one arrives, *)
(* and never the newest.                                                   *)
(***************************************************************************)
EXTENDS Naturals, Sequences, FiniteSetsExt

VARIABLES
    produced,   \* how many items the source has produced
    pending,    \* the items produced and neither lost nor delivered
    delivered,  \* the items given to the client, in order
    stopped     \* the client asked for the end of the feed

feed == <<produced, pending, delivered, stopped>>

Init ==
    /\ produced = 0
    /\ pending = {}
    /\ delivered = <<>>
    /\ stopped = FALSE

Produce ==
    /\ produced' = produced + 1
    /\ \E lost \in SUBSET pending : pending' = (pending \ lost) \cup {produced + 1}
    /\ UNCHANGED <<delivered, stopped>>

Deliver ==
    /\ pending # {}
    /\ delivered' = Append(delivered, Min(pending))
    /\ pending' = pending \ {Min(pending)}
    /\ UNCHANGED <<produced, stopped>>

Stop ==
    /\ ~stopped
    /\ stopped' = TRUE
    /\ UNCHANGED <<produced, pending, delivered>>

Next == Produce \/ Deliver \/ Stop

(* Until it is stopped a feed delivers what it has.                         *)
Spec == Init /\ [][Next]_feed /\ WF_feed(~stopped /\ Deliver)
=============================================================================
