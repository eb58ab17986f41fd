-------------------------------- MODULE Hop6 --------------------------------
(***************************************************************************)
(* The running program: the UI loop of src/src/main.rs with the state of   *)
(* App, the manager and the connection tasks of Network, the user and the  *)
(* remote peers, coupled only by the two channels of Message.              *)
(*                                                                         *)
(* App and Network state nothing about each other; what their composition  *)
(* must satisfy is stated here.                                            *)
(***************************************************************************)
EXTENDS App, Network

vars == <<channels, appVars, netVars>>

TypeOK == ChannelTypeOK /\ AppTypeOK /\ NetworkTypeOK

Init == ChannelInit /\ AppInit /\ NetworkInit

\* Bound: PeerIds are left for one more connection.
IdLeft ==
  next_id + inboundRx
    + Cardinality({i \in DOMAIN fromUi : fromUi[i].type = "Connect"}) <= MaxPeerId

UiEvent == ApplyNetEvent /\ UNCHANGED netVars

UserConnect == \E a \in Address : IdLeft /\ Connect(a) /\ UNCHANGED netVars

UserKey == OnKey /\ UNCHANGED netVars

RemoteDials == IdLeft /\ Accept /\ UNCHANGED appVars

ManagerStep == Manager /\ UNCHANGED appVars

ConnectionStep == \E p \in PeerId : Connection(p) /\ UNCHANGED appVars

Next ==
  \/ UiEvent
  \/ UserConnect
  \/ UserKey
  \/ RemoteDials
  \/ ManagerStep
  \/ ConnectionStep

Spec == Init /\ [][Next]_vars

-----------------------------------------------------------------------------
(* Fairness.  Every task is scheduled while the process runs, a select!    *)
(* takes each of its ready branches in turn, a dial ends one way or the    *)
(* other; the user and the remote peers owe nothing.  A write ends unless  *)
(* its task is "stuck" in it, which nothing but a loss ever changes: no    *)
(* fairness rules that out.  The channels are unbounded, so where a step   *)
(* sends an event fairness is strong: the model's bound may disable it     *)
(* now and then.                                                           *)

Scheduled(A) == running /\ A /\ UNCHANGED appVars

TaskFairness(p) ==
  /\ SF_vars(Scheduled(DialOk(p) \/ DialFail(p)))
  /\ WF_vars(Scheduled(ConnWrite(p)))
  /\ WF_vars(Scheduled(ConnLocalClosed(p)))
  /\ WF_vars(Scheduled(WaitClosed(p) \/ WaitElapsed(p)))

Fairness ==
  /\ WF_vars(UiEvent)
  /\ SF_vars(Scheduled(ManagerConnect \/ ManagerSend \/ ManagerDisconnect))
  /\ WF_vars(Scheduled(ManagerDone))
  /\ \A p \in PeerId : TaskFairness(p)

FairSpec == Spec /\ Fairness

\* The remote comes back: dials that are tried for ever do not fail for ever.
ComesBack(p) == SF_vars(Scheduled(DialOk(p)))

-----------------------------------------------------------------------------
(* Safety.                                                                 *)

\* The roster and the table of conversations name the same PeerIds, each
\* once, and the focus is on one of them or on the system log: no sequence
\* of connects, losses and merges leaves a dangling entry or a lost one.
RosterConsistent ==
  /\ Range(order) = DOMAIN peers
  /\ IsInjective(order)
  /\ active \in DOMAIN peers \cup {None}

\* Every line ever logged is in exactly one conversation, exactly once: folding
\* conversations into one another loses no history and copies none.
HistoryConserved ==
  LET places == UNION {{<<p, i>> : i \in DOMAIN peers[p].log} : p \in DOMAIN peers}
  IN  /\ {peers[x[1]].log[x[2]].at : x \in places} = 1 .. logged
      /\ Cardinality(places) = logged

\* The connections p and q are with the same identity: one the user dialed, or
\* the first one an inbound peer claimed.  Nobody verifies what a peer claims.
SameIdentity(p, q) == tasks[p].onion # NoOnion /\ tasks[p].onion = tasks[q].onion

\* A conversation is shown to be with the identity that was dialed or first
\* claimed on its connection, whatever its peer claims later, and holds only
\* lines of that connection and of others with the same identity, in whatever
\* order claims, losses, redials and folds come.
NoCrossTalk ==
  \A p \in DOMAIN peers :
    /\ peers[p].onion # NoOnion => normalize_onion(peers[p].onion) = tasks[p].onion
    /\ \A l \in Range(peers[p].log) : l.peer = p \/ SameIdentity(l.peer, p)

\* Once its events have been applied, a connection the manager routes to is
\* shown as connected exactly while it is up, for any order of losses, redials
\* and events of other connections.
ViewConverges ==
  \A p \in routes :
    running /\ Drained(p) =>
      (Up(p) <=> p \in DOMAIN peers /\ peers[p].connected)

\* The chat messages of a connection the user has not dropped are logged in the
\* order they arrived or still on their way in that order: none is lost,
\* repeated or reordered, although conversations come and go under them.
Waiting(p) == {i \in DOMAIN toUi : toUi[i].type = "Message" /\ toUi[i].peer = p}

Heard(p) ==
  UNION {{l \in Range(peers[q].log) : l.peer = p /\ ~l.from_me} : q \in DOMAIN peers}

NoMessageLost ==
  \A p \in PeerId \ hangups :
    running =>
      /\ {l.body : l \in Heard(p)} \cup {toUi[i].body : i \in Waiting(p)} = 1 .. received[p]
      /\ \A l, m \in Heard(p) : l.body < m.body <=> l.at < m.at
      /\ \A l \in Heard(p), i \in Waiting(p) : l.body < toUi[i].body
      /\ \A i, j \in Waiting(p) : i < j => toUi[i].body < toUi[j].body

\* The manager routes to a connection until its task ends or the user drops it:
\* no task runs on unreachable, no route outlives its task unnoticed.
RoutesMatchTasks ==
  serving =>
    \A p \in PeerId :
      IF tasks[p].pc \in {"none", "done"}
        THEN p \in routes => p \in Range(doneRx)
        ELSE p \in routes \cup hangups

\* No event takes the focus off a conversation, except that it goes along with
\* one that is folded, to the conversation with the same identity: what is typed
\* while events arrive goes to the name it was typed to.  (Who is behind a name
\* an inbound peer claims, nobody verifies.)
FocusFollowsIdentity ==
  [][active # None /\ toUi # <<>> /\ toUi' = Tail(toUi) /\ active' # active =>
       /\ active \notin DOMAIN peers'
       /\ active' \in DOMAIN peers'
       /\ SameIdentity(active', active)]_vars

\* Tab alone brings the focus to the system log and to every conversation, and
\* Shift-Tab takes back what Tab did, after any folds: no conversation is left
\* that the user cannot get to, or not get out of.
Focusable == {None} \cup DOMAIN peers

KeysReachEveryone ==
  /\ \A p \in Focusable :
       /\ Cycled(order, p, 1) \in Focusable
       /\ Cycled(order, Cycled(order, p, 1), -1) = p
  /\ \A S \in SUBSET DOMAIN peers :
       (\A p \in {None} \cup S : Cycled(order, p, 1) \in {None} \cup S) => S = DOMAIN peers

-----------------------------------------------------------------------------
(* Statements of the repository that the program does not meet: each is    *)
(* refuted by a run of its own.                                            *)

\* "messages can only be sent while a peer is connected (the input is blocked
\* for offline peers)": a conversation whose events have all been applied is
\* not shown as connected when its connection is gone for good.
OnlineIsBacked ==
  \A p \in DOMAIN peers :
    running /\ Drained(p) /\ peers[p].connected => tasks[p].pc # "done"

\* "the duplicate only lasts until the first post-reconnect message": next to a
\* connected inbound conversation whose remote is known there is no offline
\* inbound one with the same remote.
DuplicateEnds ==
  \A p, q \in DOMAIN peers :
    /\ p # q
    /\ peers[p].inbound /\ peers[p].connected /\ peers[p].onion # NoOnion
    /\ peers[q].inbound /\ ~peers[q].connected /\ peers[q].onion # NoOnion
    => normalize_onion(peers[p].onion) # normalize_onion(peers[q].onion)

\* "preserving chronological order": the lines of a conversation are in the
\* order in which they were logged, after any number of folds.
Chronological ==
  \A p \in DOMAIN peers :
    \A i, j \in DOMAIN peers[p].log : i < j => peers[p].log[i].at < peers[p].log[j].at

\* "reconnect automatically ... until they come back or you /disconnect": a peer
\* being redialed is in the roster, where the user can select and drop it.
RedialCanBeStopped ==
  \A p \in routes :
    running /\ Drained(p) /\ tasks[p].pc = "wait" => p \in DOMAIN peers

-----------------------------------------------------------------------------
(* Liveness, while the process runs.                                       *)

\* "stops its task for good": the task of a connection the user dropped ends,
\* whether it dials, pumps with lines still queued, or waits; unless it is stuck
\* in a write, and then it ends after the loss of its stream.
DisconnectStops ==
  \A p \in PeerId :
    running /\ p \in hangups ~> tasks[p].pc \in {"done", "stuck"} \/ ~running

\* "reconnect automatically ... until they come back or you /disconnect": if
\* the remote of a dialed connection comes back, the connection is up again,
\* after any number of failed dials.
Reconnects ==
  \A p \in PeerId :
    ComesBack(p) =>
      (running /\ tasks[p].pc \in {"dial", "wait"}
         ~> tasks[p].pc = "conn" \/ p \in hangups \/ ~running)

\* Lines for p on their way to the wire, and every one of them is written or
\* dropped in the end: none is kept for ever by a task that goes round in
\* dials and waits, only by one that is stuck in the write of another frame.
Sends(cmds, p) ==
  FlattenSeq([i \in DOMAIN cmds |->
                IF cmds[i].type = "Send" /\ cmds[i].peer = p THEN <<cmds[i].body>> ELSE <<>>])

Queued(p) == lines[p] \o Sends(fromUi, p)

NothingStuck ==
  \A p \in PeerId, n \in 1 .. MaxLogged :
    running /\ n \in Range(Queued(p))
      ~> n \notin Range(Queued(p)) \/ tasks[p].pc = "stuck" \/ ~running

\* The user learns when a connection is over for good: an inbound one that ended
\* unasked is in the end shown offline, or has been folded away.  (An outbound
\* one does not end unasked; that its losses are shown is ViewConverges.)
LossIsShown ==
  \A p \in PeerId :
    running /\ tasks[p].pc = "done" /\ p \notin hangups
      ~> \/ ~running
         \/ p \notin DOMAIN peers
         \/ ~peers[p].connected
=============================================================================
