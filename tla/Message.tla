------------------------------ MODULE Message ------------------------------
(***************************************************************************)
(* The two channels that couple the user interface and the network layer   *)
(* (src/src/message.rs), and the types that travel on them.                *)
(*                                                                         *)
(* Onion addresses are members of a set; a spelled address is an onion     *)
(* with or without the ".onion" suffix.  The empty string, which stands    *)
(* for an identity that is not known yet, is NoOnion.  The text of a chat  *)
(* line is a number that identifies it.                                    *)
(***************************************************************************)
EXTENDS Integers, Sequences

CONSTANTS
  Onion,        \* onion service ids, the 56 bare characters
  NoOnion,      \* the empty string: identity unknown
  MaxPeerId,    \* bound: connections ever handed a PeerId
  MaxEvents,    \* bound: NetEvents waiting in the channel to the UI
  MaxCommands   \* bound: UiCommands waiting in the channel to the manager

PeerId == 1 .. MaxPeerId

Address == [id : Onion, suffixed : BOOLEAN]

ASSUME MessageAssumption ==
  /\ MaxPeerId \in Nat
  /\ MaxEvents \in Nat
  /\ MaxCommands \in Nat
  /\ NoOnion \notin Address
  /\ NoOnion \notin Onion

\* What normalize_onion keeps of a spelled address, and the spelling that the
\* dialer and a sender's own_onion use.
normalize_onion(a) == a.id
WithSuffix(o) == [id |-> o, suffixed |-> TRUE]

NetEvent ==
  [type : {"PeerConnected"}, peer : PeerId, onion : Address \cup {NoOnion},
   inbound : BOOLEAN]
    \cup [type : {"PeerDisconnected", "PeerError"}, peer : PeerId]
    \cup [type : {"Message"}, peer : PeerId, from_onion : Address \cup {NoOnion},
        body : Nat]

UiCommand ==
  [type : {"Connect"}, onion : Address]
    \cup [type : {"Send"}, peer : PeerId, body : Nat]
    \cup [type : {"Disconnect"}, peer : PeerId]
    \cup [type : {"Shutdown"}]

VARIABLES
  toUi,     \* NetEvents sent and not yet received by the UI loop, a FIFO
  fromUi,   \* UiCommands sent and not yet received by the manager, a FIFO
  running,  \* run_ui has not returned: the receiver of toUi exists
  serving   \* the manager loop is running: the receiver of fromUi exists

channels == <<toUi, fromUi, running, serving>>

ChannelTypeOK ==
  /\ toUi \in Seq(NetEvent)
  /\ fromUi \in Seq(UiCommand)
  /\ running \in BOOLEAN
  /\ serving \in BOOLEAN

\* network::run returns at once when the local port cannot be bound.
ChannelInit ==
  /\ toUi = <<>>
  /\ fromUi = <<>>
  /\ running = TRUE
  /\ serving \in BOOLEAN

\* `let _ = to_ui.send(ev)`: the error of a send to a dropped receiver is ignored.
Emit(ev) ==
  IF running
    THEN Len(toUi) < MaxEvents /\ toUi' = Append(toUi, ev)
    ELSE toUi' = toUi

\* `let _ = cmd_tx.send(cmd)`, likewise.
Command(cmd) ==
  IF serving
    THEN Len(fromUi) < MaxCommands /\ fromUi' = Append(fromUi, cmd)
    ELSE fromUi' = fromUi

\* No event about connection p is on its way to the UI.
Drained(p) == \A i \in DOMAIN toUi : toUi[i].peer # p
=============================================================================
