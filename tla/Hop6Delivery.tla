---------------------------- MODULE Hop6Delivery ----------------------------
(***************************************************************************)
(* Hop6 with the history of what is written to each peer, and the          *)
(* refinement of Delivery, once per PeerId: the lines typed to a peer are  *)
(* pending while their command waits for the manager or they wait in the   *)
(* peer's line channel.                                                    *)
(***************************************************************************)
EXTENDS Hop6

VARIABLE wire   \* PeerId -> the lines written to its streams, oldest first

WireInit == wire = [p \in PeerId |-> <<>>]

\* ConnWrite is the only step that writes a chat line.
WireNext ==
  wire' = [p \in PeerId |->
             IF ConnWrite(p) THEN Append(wire[p], Head(lines[p])) ELSE wire[p]]

DeliverySpec == Init /\ WireInit /\ [][Next /\ WireNext]_<<vars, wire>>

Online(p) == p \in DOMAIN peers /\ peers[p].connected

\* The lines typed to each peer arrive in order, at most once and nowhere else,
\* and none is accepted while the peer is shown offline: however sends, losses,
\* redials and hang-ups interleave, the program implements Delivery.
ToPeer(p) == INSTANCE Delivery WITH
  Body <- 1 .. MaxLogged,
  online <- Online(p),
  pending <- Queued(p),
  written <- wire[p]

\* (Pointwise, \A p \in PeerId : ToPeer(p)!Spec.)
ImplementsDelivery ==
  /\ \A p \in PeerId : ToPeer(p)!Init
  /\ [][\A p \in PeerId :
           \/ UNCHANGED <<Online(p), Queued(p), wire[p]>>
           \/ ToPeer(p)!Next]_<<vars, wire>>
=============================================================================
