----------------------------- MODULE BtDataLink -----------------------------
(***************************************************************************)
(* What the transmit pump promises the Bluetooth stack for the data of     *)
(* each connection: the packets of one connection leave in the order in    *)
(* which they were accepted and are cut into parts, the parts of a packet  *)
(* are sent one after the other, each once, and no part of another packet  *)
(* of that connection comes between them.  The only other thing that can   *)
(* happen to the packets of a connection is that all are given up at once. *)
(***************************************************************************)
EXTENDS Naturals, Sequences

CONSTANTS Conn, Packet, MaxParts

VARIABLE chan   \* chan[c]: packets of c with the parts still to send, oldest first

Item == [packet : Packet, left : 1..MaxParts]

LinkInit == chan = [c \in Conn |-> << >>]

Accept(c) ==
    \E it \in Item :
       /\ chan' = [chan EXCEPT ![c] = Append(@, it)]
       /\ \A d \in Conn : \A i \in DOMAIN chan[d] : chan[d][i].packet # it.packet

SendPart(c) ==
    /\ chan[c] # << >>
    /\ LET first == Head(chan[c])
           rest  == [packet |-> first.packet, left |-> first.left - 1]
       IN  chan' = [chan EXCEPT ![c] = IF first.left = 1 THEN Tail(@)
                                       ELSE << rest >> \o Tail(@)]

GiveUp(c) == chan' = [chan EXCEPT ![c] = << >>]

\* (The first disjunct only spares TLC the search in steps of the pump alone.)
LinkNext == UNCHANGED chan \/ \E c \in Conn : Accept(c) \/ SendPart(c) \/ GiveUp(c)

LinkSpec == LinkInit /\ [][LinkNext]_chan
=============================================================================
