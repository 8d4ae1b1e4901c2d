--------------------------- MODULE PacketChannel ---------------------------
(***************************************************************************)
(* What a connection promises to its users: packets given to SendPacket    *)
(* reach the server in order, packets of the server are handled in order,  *)
(* none is lost, repeated or made up while the connection lives, and what  *)
(* is under way is lost when it is closed.  A packet is its number.        *)
(***************************************************************************)
EXTENDS Naturals, Sequences

VARIABLES
    accepted,   \* number of packets SendPacket has taken
    delivered,  \* the packets the server has got
    offered,    \* number of packets the server has sent
    handled     \* the packets handlers have been called with

vars == <<accepted, delivered, offered, handled>>

Init == accepted = 0 /\ delivered = <<>> /\ offered = 0 /\ handled = <<>>

\* The first n packets.
First(n) == [i \in 1 .. n |-> i]

\* The client hands over at most one more packet, any of those handed over
\* reach the server.
Outgoing ==
    /\ accepted' \in {accepted, accepted + 1}
    /\ \E n \in Len(delivered) .. accepted' : delivered' = First(n)

\* A handler, which may send, is called with the next packet.
Handle ==
    /\ Len(handled) < offered
    /\ handled' = First(Len(handled) + 1)
    /\ UNCHANGED offered

Offer == offered' = offered + 1 /\ UNCHANGED <<accepted, delivered, handled>>

Close == accepted' = 0 /\ delivered' = <<>> /\ offered' = 0 /\ handled' = <<>>

Next ==
    \/ Outgoing /\ UNCHANGED <<offered, handled>>
    \/ Outgoing /\ Handle
    \/ Offer
    \/ Close

Spec == Init /\ [][Next]_vars

=============================================================================
