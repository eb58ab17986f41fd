------------------------------ MODULE Delivery ------------------------------
(***************************************************************************)
(* What hop6 promises about the lines a user types to one peer, without    *)
(* queues, tasks or tables: they get to the peer in the order they were    *)
(* typed, each at most once, and they can be typed only while the way to   *)
(* the peer is open.  They may be lost: there is no store-and-forward.     *)
(* Implemented twice: by the program up to the write to a peer's stream    *)
(* (Hop6Delivery), and by one connection from end to end (Link).           *)
(***************************************************************************)
EXTENDS Integers, Sequences

CONSTANT Body

VARIABLES
  online,   \* lines may be typed
  pending,  \* lines typed, neither written nor lost
  written   \* lines that got to the peer

Init == online \in BOOLEAN /\ pending = <<>> /\ written = <<>>

Type(b) ==
  /\ online
  /\ pending' = Append(pending, b)
  /\ UNCHANGED <<online, written>>

Write ==
  /\ pending # <<>>
  /\ written' = Append(written, Head(pending))
  /\ pending' = Tail(pending)
  /\ UNCHANGED online

\* A run of pending lines, after the first k and before the m-th, is lost.
Lose ==
  /\ \E k \in 0 .. Len(pending), m \in 1 .. Len(pending) + 1 :
       /\ k < m
       /\ pending' = SubSeq(pending, 1, k) \o SubSeq(pending, m, Len(pending))
  /\ UNCHANGED <<online, written>>

ShowOrHide == online' = ~online /\ UNCHANGED <<pending, written>>

Next ==
  \/ \E b \in Body : Type(b)
  \/ Write
  \/ Lose
  \/ ShowOrHide

Spec == Init /\ [][Next]_<<online, pending, written>>
=============================================================================
