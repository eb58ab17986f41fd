------------------------------ MODULE Network ------------------------------
(***************************************************************************)
(* The network layer of src/src/network.rs: the manager task, which owns   *)
(* the routing table, and one task per connection, which dials, pumps and  *)
(* redials.  Every task runs concurrently with the others and with the UI  *)
(* loop; a step is what a task does between two awaits.                    *)
(*                                                                         *)
(* The table holds the sending end of each connection's line channel, so   *)
(* the channel of a connection is closed exactly when it is not in routes; *)
(* lines queued before that can still be received.                         *)
(*                                                                         *)
(* External: Tor and the peers.  A dial may fail, a connection may break   *)
(* at any time, a write may never complete, and a peer stamps any address  *)
(* it likes on what it sends, or none.  Left out: time (the heartbeat      *)
(* deadline is one of the ways a connection breaks), ping and pong frames  *)
(* but for their writes, malformed frames, status texts.                   *)
(***************************************************************************)
EXTENDS Message

CONSTANTS
  RECONNECT_BACKOFF_START,
  RECONNECT_BACKOFF_MAX,
  Claim,        \* what peers put into from_onion: true, false or empty
  MaxFrames     \* bound: chat messages received over one PeerId

ASSUME NetworkAssumption ==
  /\ RECONNECT_BACKOFF_START \in Nat \ {0}
  /\ RECONNECT_BACKOFF_MAX \in Nat
  /\ RECONNECT_BACKOFF_START <= RECONNECT_BACKOFF_MAX
  /\ Claim \subseteq Address \cup {NoOnion}
  /\ MaxFrames \in Nat

VARIABLES
  routes,     \* PeerIds in the manager's table: their line channel is open
  next_id,    \* the next PeerId
  inboundRx,  \* how many accepted streams the manager has not taken yet
  doneRx,     \* PeerIds of ended tasks not yet taken by the manager
  tasks,      \* PeerId -> state of its connection task
  lines,      \* PeerId -> lines queued in its channel
  received,   \* history: PeerId -> number of chat messages received
  hangups     \* history: PeerIds the user disconnected

netVars == <<routes, next_id, inboundRx, doneRx, tasks, lines, received, hangups>>

\* onion is the service a task dials.  Who dialed in Tor hides: of an inbound
\* task it is a history, the first identity its peer claimed, if any.
NewTask(pc, onion, inbound) ==
  [pc |-> pc, onion |-> onion, inbound |-> inbound,
   backoff |-> RECONNECT_BACKOFF_START]

Task == [pc : {"none", "dial", "conn", "stuck", "wait", "done"},
         onion : Onion \cup {NoOnion}, inbound : BOOLEAN,
         backoff : RECONNECT_BACKOFF_START .. RECONNECT_BACKOFF_MAX]

\* run_connection has not returned.
Up(p) == tasks[p].pc \in {"conn", "stuck"}

\* (A connection that is up has its backoff reset.)
NetworkTypeOK ==
  /\ routes \subseteq PeerId
  /\ next_id \in 1 .. MaxPeerId + 1
  /\ inboundRx \in Nat
  /\ doneRx \in Seq(PeerId)
  /\ tasks \in [PeerId -> Task]
  /\ \A p \in PeerId : Up(p) => tasks[p].backoff = RECONNECT_BACKOFF_START
  /\ lines \in [PeerId -> Seq(Nat)]
  /\ received \in [PeerId -> Nat]
  /\ hangups \subseteq PeerId

NetworkInit ==
  /\ routes = {}
  /\ next_id = 1
  /\ inboundRx = 0
  /\ doneRx = <<>>
  /\ tasks = [p \in PeerId |-> NewTask("none", NoOnion, FALSE)]
  /\ lines = [p \in PeerId |-> <<>>]
  /\ received = [p \in PeerId |-> 0]
  /\ hangups = {}

-----------------------------------------------------------------------------
(* The accept task and the manager's select loop.                          *)

\* The accept task hands an accepted stream to the manager.
Accept ==
  /\ serving
  /\ inboundRx' = inboundRx + 1
  /\ UNCHANGED <<channels, routes, next_id, doneRx, tasks, lines,
                 received, hangups>>

\* Spawn the task of a new connection and route to it.
Spawn(task) ==
  /\ next_id \in PeerId
  /\ tasks' = [tasks EXCEPT ![next_id] = task]
  /\ routes' = routes \cup {next_id}
  /\ next_id' = next_id + 1

\* The manager takes the first command off the channel.
TakeCommand(type) ==
  /\ serving
  /\ fromUi # <<>>
  /\ Head(fromUi).type = type
  /\ fromUi' = Tail(fromUi)
  /\ UNCHANGED <<running, inboundRx, received>>

ManagerConnect ==
  /\ TakeCommand("Connect")
  /\ Spawn(NewTask("dial", normalize_onion(Head(fromUi).onion), FALSE))
  /\ UNCHANGED <<toUi, serving, doneRx, lines, hangups>>

\* Fault: the line goes to every routed peer.
ManagerSendToAll ==
  /\ TakeCommand("Send")
  /\ lines' = [p \in PeerId |->
                 IF p \in routes /\ tasks[p].pc # "done"
                   THEN Append(lines[p], Head(fromUi).body) ELSE lines[p]]
  /\ UNCHANGED <<toUi, serving, routes, next_id, doneRx, tasks, hangups>>

\* A line for a peer that is not routed is dropped, and so is one whose task
\* has ended and dropped the receiving end.
ManagerSend ==
  /\ TakeCommand("Send")
  /\ LET cmd == Head(fromUi)
     IN  lines' = IF cmd.peer \in routes /\ tasks[cmd.peer].pc # "done"
                    THEN [lines EXCEPT ![cmd.peer] = Append(@, cmd.body)]
                    ELSE lines
  /\ UNCHANGED <<toUi, serving, routes, next_id, doneRx, tasks, hangups>>

ManagerDisconnect ==
  /\ TakeCommand("Disconnect")
  /\ LET p == Head(fromUi).peer
     IN  IF p \in routes
           THEN /\ routes' = routes \ {p}
                /\ hangups' = hangups \cup {p}
                /\ Emit([type |-> "PeerDisconnected", peer |-> p])
           ELSE UNCHANGED <<routes, hangups, toUi>>
  /\ UNCHANGED <<serving, next_id, doneRx, tasks, lines>>

\* The loop ends and drops the table and the receivers.
ManagerShutdown ==
  /\ serving
  /\ fromUi # <<>>
  /\ Head(fromUi).type = "Shutdown"
  /\ serving' = FALSE
  /\ fromUi' = <<>>
  /\ routes' = {}
  /\ inboundRx' = 0
  /\ doneRx' = <<>>
  /\ UNCHANGED <<toUi, running, next_id, tasks, lines, received, hangups>>

ManagerInbound ==
  /\ serving
  /\ inboundRx > 0
  /\ inboundRx' = inboundRx - 1
  /\ Spawn(NewTask("conn", NoOnion, TRUE))
  /\ Emit([type |-> "PeerConnected", peer |-> next_id, onion |-> NoOnion,
           inbound |-> TRUE])
  /\ UNCHANGED <<fromUi, running, serving, doneRx, lines, received, hangups>>

ManagerDone ==
  /\ serving
  /\ doneRx # <<>>
  /\ doneRx' = Tail(doneRx)
  /\ routes' = routes \ {Head(doneRx)}
  /\ UNCHANGED <<channels, next_id, inboundRx, tasks, lines, received, hangups>>

Manager ==
  \/ ManagerConnect
  \/ ManagerSend
  \/ ManagerDisconnect
  \/ ManagerShutdown
  \/ ManagerInbound
  \/ ManagerDone

-----------------------------------------------------------------------------
(* A connection's task.                                                    *)

\* Fault: somebody else keeps a sender of the channel.
never_closed(p) == FALSE

\* The channel's sender is dropped.
closed(p) == p \notin routes

\* Fault: the end is not reported to the manager.
FinishUnreported(p) ==
  /\ tasks' = [tasks EXCEPT ![p].pc = "done"]
  /\ lines' = [lines EXCEPT ![p] = <<>>]
  /\ UNCHANGED doneRx

\* The task ends and reports it; its line receiver is dropped.
Finish(p) ==
  /\ tasks' = [tasks EXCEPT ![p].pc = "done"]
  /\ lines' = [lines EXCEPT ![p] = <<>>]
  /\ doneRx' = IF serving THEN Append(doneRx, p) ELSE doneRx

\* wait_or_closed before it first sleeps: queued lines are dropped, a closed
\* channel ends the task.
wait_or_closed(p) ==
  IF closed(p)
    THEN Finish(p)
    ELSE /\ tasks' = [tasks EXCEPT ![p].pc = "wait"]
         /\ lines' = [lines EXCEPT ![p] = <<>>]
         /\ UNCHANGED doneRx

\* What a step of a connection's task leaves alone.
TaskFrame == UNCHANGED <<fromUi, running, serving, routes, next_id, inboundRx, hangups>>

\* The dial succeeds, whether or not the channel was closed meanwhile.
DialOk(p) ==
  /\ tasks[p].pc = "dial"
  /\ tasks' = [tasks EXCEPT ![p].pc = "conn",
                            ![p].backoff = RECONNECT_BACKOFF_START]
  /\ Emit([type |-> "PeerConnected", peer |-> p,
           onion |-> WithSuffix(tasks[p].onion), inbound |-> FALSE])
  /\ TaskFrame
  /\ UNCHANGED <<doneRx, lines, received>>

\* Fault: the first failure is the last.
DialFailGivesUp(p) ==
  /\ tasks[p].pc = "dial"
  /\ Emit([type |-> "PeerError", peer |-> p])
  /\ Finish(p)
  /\ TaskFrame
  /\ UNCHANGED received

DialFail(p) ==
  /\ tasks[p].pc = "dial"
  /\ Emit([type |-> "PeerError", peer |-> p])
  /\ wait_or_closed(p)
  /\ TaskFrame
  /\ UNCHANGED received

\* A chat frame arrives, from whomever its sender claims to be.
ConnRecv(p) ==
  /\ tasks[p].pc = "conn"
  /\ received[p] < MaxFrames
  /\ received' = [received EXCEPT ![p] = @ + 1]
  /\ \E claim \in Claim :
       /\ Emit([type |-> "Message", peer |-> p, from_onion |-> claim,
                body |-> received[p] + 1])
       /\ tasks' = IF tasks[p].onion = NoOnion /\ claim # NoOnion
                     THEN [tasks EXCEPT ![p].onion = normalize_onion(claim)]
                     ELSE tasks
  /\ TaskFrame
  /\ UNCHANGED <<doneRx, lines>>

\* Fault: the line is written but not taken from the queue.
ConnWritePeeks(p) ==
  /\ tasks[p].pc = "conn"
  /\ lines[p] # <<>>
  /\ TaskFrame
  /\ UNCHANGED <<toUi, doneRx, tasks, lines, received>>

\* The next queued line goes out on the stream.
ConnWrite(p) ==
  /\ tasks[p].pc = "conn"
  /\ lines[p] # <<>>
  /\ lines' = [lines EXCEPT ![p] = Tail(@)]
  /\ TaskFrame
  /\ UNCHANGED <<toUi, doneRx, tasks, received>>

\* A write is awaited inside its branch: of the next line, of a ping or of an
\* answer.  One that never completes keeps the task from everything else, the
\* closing of its channel included, for as long as the stream does not fail.
ConnStuck(p) ==
  /\ tasks[p].pc = "conn"
  /\ tasks' = [tasks EXCEPT ![p].pc = "stuck"]
  /\ \/ UNCHANGED lines
     \/ lines[p] # <<>> /\ lines' = [lines EXCEPT ![p] = Tail(@)]
  /\ TaskFrame
  /\ UNCHANGED <<toUi, doneRx, received>>

\* ConnEnd::LocalClosed: the channel is closed and empty.
ConnLocalClosed(p) ==
  /\ tasks[p].pc = "conn"
  /\ lines[p] = <<>>
  /\ closed(p)
  /\ Finish(p)
  /\ TaskFrame
  /\ UNCHANGED <<toUi, received>>

\* ConnEnd::Lost: end of file, an I/O error or the heartbeat deadline.  An
\* inbound task ends, an outbound one waits to redial.
ConnLost(p) ==
  /\ Up(p)
  /\ Emit([type |-> "PeerError", peer |-> p])
  /\ IF tasks[p].inbound THEN Finish(p) ELSE wait_or_closed(p)
  /\ TaskFrame
  /\ UNCHANGED received

\* A line that arrives during the sleep is dropped.
WaitDrop(p) ==
  /\ tasks[p].pc = "wait"
  /\ lines[p] # <<>>
  /\ lines' = [lines EXCEPT ![p] = Tail(@)]
  /\ TaskFrame
  /\ UNCHANGED <<toUi, doneRx, tasks, received>>

WaitClosed(p) ==
  /\ tasks[p].pc = "wait"
  /\ lines[p] = <<>>
  /\ closed(p)
  /\ Finish(p)
  /\ TaskFrame
  /\ UNCHANGED <<toUi, received>>

\* Fault: the backoff doubles without limit.
WaitElapsedUncapped(p) ==
  /\ tasks[p].pc = "wait"
  /\ tasks' = [tasks EXCEPT ![p].pc = "dial", ![p].backoff = 2 * @]
  /\ TaskFrame
  /\ UNCHANGED <<toUi, doneRx, lines, received>>

\* The sleep ends.  It may end at the moment a line arrives or the channel is
\* closed: select! then takes either branch.
WaitElapsed(p) ==
  /\ tasks[p].pc = "wait"
  /\ LET doubled == 2 * tasks[p].backoff
     IN  tasks' = [tasks EXCEPT
                     ![p].pc = "dial",
                     ![p].backoff = IF doubled < RECONNECT_BACKOFF_MAX
                                      THEN doubled ELSE RECONNECT_BACKOFF_MAX]
  /\ TaskFrame
  /\ UNCHANGED <<toUi, doneRx, lines, received>>

Connection(p) ==
  \/ DialOk(p)
  \/ DialFail(p)
  \/ ConnRecv(p)
  \/ ConnWrite(p)
  \/ ConnStuck(p)
  \/ ConnLocalClosed(p)
  \/ ConnLost(p)
  \/ WaitDrop(p)
  \/ WaitClosed(p)
  \/ WaitElapsed(p)
=============================================================================
