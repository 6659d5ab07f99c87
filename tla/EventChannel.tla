----------------------------- MODULE EventChannel -----------------------------
(***************************************************************************)
(* What the path from the probes to the user promises: a channel that may   *)
(* lose an event or deliver it, as it was offered and at most once, and     *)
(* that counts every loss in the very step in which the event is lost.      *)
(* Ring, records, chunks, CPUs and open events do not appear here.          *)
(*                                                                         *)
(* The promise is "never disguised as complete data" (docs/usage.md:75) and *)
(* "Ring failures have independent map counters"                            *)
(* (docs/implementation.md:40).                                             *)
(***************************************************************************)
EXTENDS Naturals, Sequences, FiniteSets

CONSTANT Contents       \* what an event may say

VARIABLES
    offered,    \* sequence: the content of each event that has an id
    delivered,  \* set of [id, content]
    lost,       \* ids of events that will not be delivered
    refused,    \* how many events were lost before they had an id
    losses      \* the sum of the loss counters

channel == <<offered, delivered, lost, refused, losses>>

Open == DOMAIN offered \ (lost \cup {e.id : e \in delivered})

Init ==
    /\ offered = <<>> /\ delivered = {} /\ lost = {}
    /\ refused = 0 /\ losses = 0

Offer(x) ==
    /\ offered' = Append(offered, x)
    /\ UNCHANGED <<delivered, lost, refused, losses>>

\* The event is known by its id, and known to be lost, at once.
OfferInVain(x) ==
    /\ losses' = losses + 1
    /\ offered' = Append(offered, x)
    /\ lost' = lost \cup {Len(offered) + 1}
    /\ UNCHANGED <<delivered, refused>>

Refuse ==
    /\ losses' = losses + 1
    /\ refused' = refused + 1
    /\ UNCHANGED <<offered, delivered, lost>>

Deliver(id) ==
    /\ id \in Open
    /\ delivered' = delivered \cup {[id |-> id, content |-> offered[id]]}
    /\ UNCHANGED <<offered, lost, refused, losses>>

Lose(id) ==
    /\ losses' = losses + 1
    /\ id \in Open
    /\ lost' = lost \cup {id}
    /\ UNCHANGED <<offered, delivered, refused>>

\* A lost event may be counted a second time, and no more.
CountAgain ==
    /\ losses' = losses + 1
    /\ losses < refused + 2 * Cardinality(lost)
    /\ UNCHANGED <<offered, delivered, lost, refused>>

Next ==
    \/ \E x \in Contents : Offer(x) \/ OfferInVain(x)
    \/ Refuse \/ CountAgain
    \/ \E id \in Open : Deliver(id) \/ Lose(id)

Spec == Init /\ [][Next]_channel

=============================================================================
