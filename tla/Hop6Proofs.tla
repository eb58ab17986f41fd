----------------------------- MODULE Hop6Proofs -----------------------------
(***************************************************************************)
(* Theorems about Hop6 for every value of its constants: its types, the    *)
(* consistency of the roster and that the keys reach all of it.            *)
(*                                                                         *)
(* The first two are not inductive alone.  Folding a conversation reads    *)
(* the logs of the roster's entries, so the type of a log rests on the     *)
(* roster naming only conversations; and the events a task that dials      *)
(* sends carry the address it was given when it was spawned, while one     *)
(* that was accepted has none and never dials (OnionKnown).  Inv is the    *)
(* three together, by the parts of the state: channels, application,       *)
(* network.                                                                *)
(***************************************************************************)
EXTENDS Hop6, AppFacts

\* A task that may dial has an address, and a connection that is up has its
\* backoff reset.
TaskOK(t) ==
  /\ t.pc \in {"dial", "wait"} => ~t.inbound
  /\ t.pc # "none" /\ ~t.inbound => t.onion \in Onion
  /\ t.pc \in {"conn", "stuck"} => t.backoff = RECONNECT_BACKOFF_START

OnionKnown == \A p \in PeerId : TaskOK(tasks[p])

AppInv == AppTypeOK /\ RosterConsistent

NetInv == NetworkTypeOK /\ OnionKnown

Inv == ChannelTypeOK /\ AppInv /\ NetInv

-----------------------------------------------------------------------------
(* What travels on the channels.                                           *)

\* The fields of an event, by its type.
LEMMA EventFields ==
  ASSUME NEW ev \in NetEvent
  PROVE  /\ ev.peer \in PeerId
         /\ ev.type = "PeerConnected" =>
              ev.onion \in Address \cup {NoOnion} /\ ev.inbound \in BOOLEAN
         /\ ev.type = "Message" =>
              ev.from_onion \in Address \cup {NoOnion} /\ ev.body \in Nat
BY DEF NetEvent

\* The fields of a command, by its type.
LEMMA CommandFields ==
  ASSUME NEW cmd \in UiCommand
  PROVE  /\ cmd.type = "Connect" => cmd.onion \in Address
         /\ cmd.type = "Send" => cmd.peer \in PeerId /\ cmd.body \in Nat
         /\ cmd.type = "Disconnect" => cmd.peer \in PeerId
BY DEF UiCommand

\* Sending an event keeps the channel one of events.
LEMMA EmitType ==
  ASSUME toUi \in Seq(NetEvent), NEW ev \in NetEvent, Emit(ev)
  PROVE  toUi' \in Seq(NetEvent)
BY DEF Emit

\* Sending a command keeps the channel one of commands.
LEMMA CommandType ==
  ASSUME fromUi \in Seq(UiCommand), NEW cmd \in UiCommand, Command(cmd)
  PROVE  fromUi' \in Seq(UiCommand)
BY DEF Command

\* The first element and the rest of a channel that is not empty.
LEMMA HeadTail ==
  ASSUME NEW T, NEW s \in Seq(T), s # <<>>
  PROVE  Head(s) \in T /\ Tail(s) \in Seq(T)
OBVIOUS

\* Appending to a sequence over T.
LEMMA AppendType ==
  ASSUME NEW T, NEW s \in Seq(T), NEW x \in T
  PROVE  Append(s, x) \in Seq(T)
OBVIOUS

-----------------------------------------------------------------------------
(* The UI loop.                                                            *)

\* Folding keeps a well-formed roster well-formed.
LEMMA MergeRoster ==
  ASSUME NEW ps, NEW ord \in Seq(PeerId), NEW act, NEW live \in DOMAIN ps,
         DOMAIN ps \subseteq PeerId, ps \in [DOMAIN ps -> Peer],
         Range(ord) = DOMAIN ps, IsInjective(ord),
         act \in DOMAIN ps \cup {None},
         merge_duplicates(ps, ord, act, live)
  PROVE  /\ DOMAIN peers' \subseteq PeerId
         /\ peers' \in [DOMAIN peers' -> Peer]
         /\ order' \in Seq(PeerId)
         /\ Range(order') = DOMAIN peers'
         /\ IsInjective(order')
         /\ active' \in DOMAIN peers' \cup {None}
<1> DEFINE stale == Stale(ps, ord, live)
           history == History(ps, ord, stale)
           merged == [ps[live] EXCEPT !.log = history \o @]
<1>1. stale \subseteq DOMAIN ps /\ live \notin stale
  BY DEF Stale
<1>2. /\ peers' = [p \in DOMAIN ps \ stale |-> IF p = live THEN merged ELSE ps[p]]
      /\ order' = Keep(ord, Range(ord) \ stale)
      /\ active' = IF act \in stale THEN live ELSE act
  BY DEF merge_duplicates
<1>3. ord \in Seq(DOMAIN ps)
  BY DEF Range
<1>4. ps[live] \in Peer /\ \A p \in DOMAIN ps : ps[p].log \in Seq(ChatLine)
  BY DEF Peer
<1>5. history \in Seq(ChatLine)
  <2>1. \A p \in stale : ps[p].log \in Seq(ChatLine)
    BY <1>1, <1>4
  <2> HIDE DEF stale
  <2> QED BY <1>3, <2>1, HistoryType
<1>6. merged \in Peer
  <2> HIDE DEF history
  <2>1. history \o ps[live].log \in Seq(ChatLine)
    BY <1>4, <1>5
  <2> QED BY <1>4, <2>1 DEF Peer
<1>7. DOMAIN peers' = DOMAIN ps \ stale
  BY <1>2
<1>8. peers' \in [DOMAIN peers' -> Peer]
  <2> HIDE DEF merged, stale
  <2> QED BY <1>2, <1>6, <1>7
<1>9. /\ order' \in Seq(PeerId)
      /\ Range(order') = Range(ord) \cap (Range(ord) \ stale)
      /\ IsInjective(order')
  <2> HIDE DEF stale
  <2> QED BY <1>2, KeepFacts
<1>10. active' \in DOMAIN peers' \cup {None}
  <2> HIDE DEF stale
  <2> QED BY <1>1, <1>2, <1>7
<1> HIDE DEF stale
<1> QED BY <1>7, <1>8, <1>9, <1>10

\* Every event keeps the types and the roster consistent.
LEMMA UiEventInv == Inv /\ UiEvent => Inv'
<1> SUFFICES ASSUME Inv, UiEvent PROVE Inv'
  OBVIOUS
<1> USE DEF Inv, AppInv
<1>1. NetInv'
  BY DEF UiEvent, netVars, NetInv, NetworkTypeOK, OnionKnown, Up
<1>2. /\ toUi # <<>> /\ toUi' = Tail(toUi)
      /\ UNCHANGED <<fromUi, running, serving>>
  BY DEF UiEvent, ApplyNetEvent, PeerConnected, PeerDisconnected, PeerError,
         MessageLogged, MessageDropped, Receive
<1>3. ChannelTypeOK' /\ Head(toUi) \in NetEvent
  BY <1>2, HeadTail DEF ChannelTypeOK
<1> DEFINE ev == Head(toUi)
<1>4. /\ ev.peer \in PeerId
      /\ ev.type = "PeerConnected" =>
           ev.onion \in Address \cup {NoOnion} /\ ev.inbound \in BOOLEAN
      /\ ev.type = "Message" =>
           ev.from_onion \in Address \cup {NoOnion} /\ ev.body \in Nat
  BY <1>3, EventFields
<1>5. CASE PeerConnected
  <2> DEFINE old == IF ev.peer \in DOMAIN peers
                      THEN peers[ev.peer]
                      ELSE [onion |-> NoOnion, inbound |-> ev.inbound,
                            connected |-> FALSE, log |-> <<>>]
             entry == [old EXCEPT !.connected = TRUE, !.inbound = ev.inbound,
                         !.onion = IF ev.onion # NoOnion THEN ev.onion ELSE @]
             ps == Put(peers, ev.peer, entry)
             ord == IF ev.peer \in DOMAIN peers THEN order ELSE order_push(order, ev.peer)
             act == IF active = None THEN ev.peer ELSE active
  <2>1. merge_duplicates(ps, ord, act, ev.peer) /\ UNCHANGED <<scroll, logged>>
    BY <1>5 DEF PeerConnected
  <2>2. ev.type = "PeerConnected"
    BY <1>5 DEF PeerConnected, Receive
  <2>3. old \in Peer
    <3>1. CASE ev.peer \in DOMAIN peers
      BY <3>1 DEF AppTypeOK
    <3>2. CASE ev.peer \notin DOMAIN peers
      <4>1. <<>> \in Seq(ChatLine)
        OBVIOUS
      <4> QED BY <1>4, <2>2, <3>2, <4>1 DEF Peer
    <3> QED BY <3>1, <3>2
  <2>4. entry \in Peer
    <3> HIDE DEF old
    <3> QED BY <1>4, <2>2, <2>3 DEF Peer
  <2>5. /\ DOMAIN ps = DOMAIN peers \cup {ev.peer}
        /\ DOMAIN ps \subseteq PeerId
        /\ ps \in [DOMAIN ps -> Peer]
    <3> HIDE DEF entry
    <3> QED BY <1>4, <2>4 DEF Put, AppTypeOK
  <2>6. ord \in Seq(PeerId) /\ Range(ord) = DOMAIN ps /\ IsInjective(ord)
    <3> HIDE DEF ps
    <3>1. CASE ev.peer \in DOMAIN peers
      BY <2>5, <3>1 DEF AppTypeOK, RosterConsistent
    <3>2. CASE ev.peer \notin DOMAIN peers
      <4> DEFINE tail == <<ev.peer>>
      <4>1. ord = order \o tail /\ tail \in Seq(PeerId)
        BY <1>4, <3>2 DEF order_push, RosterConsistent, AppTypeOK
      <4>2. Range(tail) = {ev.peer} /\ IsInjective(tail)
        BY DEF Range, IsInjective
      <4>3. order \in Seq(PeerId) /\ Range(order) = DOMAIN peers /\ IsInjective(order)
        BY DEF AppTypeOK, RosterConsistent
      <4> HIDE DEF ord, tail
      <4>4. Range(ord) = DOMAIN peers \cup {ev.peer}
        BY <4>1, <4>2, <4>3, RangeConcat
      <4>5. IsInjective(ord)
        <5>1. Range(order) \cap Range(tail) = {}
          BY <3>2, <4>2, <4>3
        <5> QED BY <4>1, <4>2, <4>3, <5>1, InjectiveConcat
      <4>6. ord \in Seq(PeerId)
        BY <4>1, <4>3
      <4> QED BY <2>5, <4>4, <4>5, <4>6
    <3> QED BY <3>1, <3>2
  <2>7. act \in DOMAIN ps \cup {None} /\ ev.peer \in DOMAIN ps
    <3> HIDE DEF ps
    <3> QED BY <2>5 DEF RosterConsistent
  <2> HIDE DEF ps, ord, act
  <2>8. AppInv'
    BY <2>1, <2>5, <2>6, <2>7, MergeRoster DEF AppTypeOK, RosterConsistent, None
  <2> QED BY <1>1, <1>3, <2>8
<1>6. ASSUME GoOffline(ev.peer) PROVE AppInv'
  <2>1. /\ DOMAIN peers' = DOMAIN peers
        /\ peers' \in [DOMAIN peers -> Peer]
    BY <1>6 DEF GoOffline, AppTypeOK, Peer
  <2> QED BY <1>6, <2>1 DEF GoOffline, AppTypeOK, RosterConsistent
<1>7. CASE PeerDisconnected
  BY <1>1, <1>3, <1>6, <1>7 DEF PeerDisconnected
<1>8. CASE PeerError
  BY <1>1, <1>3, <1>6, <1>8 DEF PeerError
<1>9. CASE MessageLogged
  <2> DEFINE learned == peers[ev.peer].onion = NoOnion /\ ev.from_onion # NoOnion
             updated == [peers EXCEPT
                          ![ev.peer].onion = IF learned THEN ev.from_onion ELSE @,
                          ![ev.peer].log = Append(@, Line(FALSE, ev.peer, ev.body))]
  <2>1. /\ ev.peer \in DOMAIN peers
        /\ scroll' = IF active = ev.peer THEN 0 ELSE scroll
        /\ IF learned
             THEN merge_duplicates(updated, order, active, ev.peer)
             ELSE peers' = updated /\ UNCHANGED <<order, active>>
        /\ logged' = logged + 1
        /\ ev.type = "Message"
    BY <1>9 DEF MessageLogged, Receive
  <2>2. Line(FALSE, ev.peer, ev.body) \in ChatLine
    BY <1>4, <2>1 DEF Line, ChatLine, AppTypeOK
  <2>3. DOMAIN updated = DOMAIN peers /\ updated \in [DOMAIN peers -> Peer]
    <3> DEFINE line == Line(FALSE, ev.peer, ev.body)
    <3> HIDE DEF line, learned
    <3>1. peers[ev.peer] \in Peer /\ peers[ev.peer].log \in Seq(ChatLine)
      BY <2>1 DEF AppTypeOK, Peer
    <3>2. Append(peers[ev.peer].log, line) \in Seq(ChatLine)
      <4>1. line \in ChatLine
        BY <2>2 DEF line
      <4> QED BY <3>1, <4>1, AppendType
    <3>3. (IF learned THEN ev.from_onion ELSE peers[ev.peer].onion) \in Address \cup {NoOnion}
      BY <1>4, <2>1, <3>1 DEF Peer
    <3> DEFINE new == [peers[ev.peer] EXCEPT
                         !.onion = IF learned THEN ev.from_onion ELSE @,
                         !.log = Append(@, line)]
    <3>4. new \in Peer
      BY <3>1, <3>2, <3>3 DEF Peer
    <3>5. updated = [peers EXCEPT ![ev.peer] = new]
      BY <2>1, <3>1 DEF line, Peer, AppTypeOK
    <3> HIDE DEF new, updated
    <3> QED BY <2>1, <3>4, <3>5 DEF AppTypeOK
  <2>4. /\ DOMAIN peers \subseteq PeerId /\ order \in Seq(PeerId)
        /\ Range(order) = DOMAIN peers /\ IsInjective(order)
        /\ active \in DOMAIN peers \cup {None}
    BY DEF AppTypeOK, RosterConsistent
  <2>5. scroll' \in Nat /\ logged' \in Nat
    BY <2>1 DEF AppTypeOK
  <2> HIDE DEF updated
  <2>6. CASE learned
    <3>1. merge_duplicates(updated, order, active, ev.peer)
      BY <2>1, <2>6
    <3>2. AppInv'
      BY <2>1, <2>3, <2>4, <2>5, <3>1, MergeRoster
         DEF AppTypeOK, RosterConsistent, None
    <3> QED BY <1>1, <1>3, <3>2
  <2>7. CASE ~learned
    <3>1. peers' = updated /\ UNCHANGED <<order, active>>
      BY <2>1, <2>7
    <3>2. AppInv'
      BY <2>3, <2>4, <2>5, <3>1 DEF AppTypeOK, RosterConsistent, None
    <3> QED BY <1>1, <1>3, <3>2
  <2> QED BY <2>6, <2>7
<1>10. CASE MessageDropped
  <2>1. AppInv'
    BY <1>10 DEF MessageDropped, appVars, AppTypeOK, RosterConsistent
  <2> QED BY <1>1, <1>3, <2>1
<1> QED BY <1>5, <1>7, <1>8, <1>9, <1>10 DEF UiEvent, ApplyNetEvent

\* Tab goes to an entry of the roster or to the system log.
LEMMA CycledFocus ==
  ASSUME NEW ord \in Seq(PeerId), NEW act, NEW delta \in {1, -1}
  PROVE  Cycled(ord, act, delta) \in Range(ord) \cup {None}
<1> DEFINE cur == IF act \in Range(ord)
                    THEN CHOOSE i \in DOMAIN ord : ord[i] = act ELSE 0
           next == (cur + delta) % (Len(ord) + 1)
<1>1. Cycled(ord, act, delta) = IF next = 0 THEN None ELSE ord[next]
  BY DEF Cycled
<1>2. Len(ord) \in Nat /\ DOMAIN ord = 1 .. Len(ord)
  OBVIOUS
<1>3. cur \in 0 .. Len(ord)
  <2>1. CASE act \in Range(ord)
    <3>1. \E i \in DOMAIN ord : ord[i] = act
      BY <2>1 DEF Range
    <3> QED BY <1>2, <2>1, <3>1
  <2>2. CASE act \notin Range(ord)
    BY <1>2, <2>2
  <2> QED BY <2>1, <2>2
<1>4. next \in 0 .. Len(ord)
  <2> HIDE DEF cur
  <2>1. cur + delta \in Int /\ Len(ord) + 1 \in Nat \ {0}
    BY <1>2, <1>3
  <2> QED BY <1>2, <2>1
<1> HIDE DEF next
<1> QED BY <1>1, <1>2, <1>4 DEF Range

\* Every key of the user keeps the types and the roster consistent.
LEMMA UserInv == Inv /\ (UserKey \/ UserConnect) => Inv'
<1> SUFFICES ASSUME Inv, UserKey \/ UserConnect PROVE Inv'
  OBVIOUS
<1> USE DEF Inv, AppInv
<1>1. NetInv'
  BY DEF UserKey, UserConnect, netVars, NetInv, NetworkTypeOK, OnionKnown, Up
<1>2. ASSUME UNCHANGED appVars PROVE AppInv'
  BY <1>2 DEF appVars, AppTypeOK, RosterConsistent
<1>3. active # None => active \in PeerId
  BY DEF AppTypeOK
<1>4. ASSUME NEW cmd \in UiCommand, Command(cmd), UNCHANGED <<toUi, running, serving>>
      PROVE  ChannelTypeOK'
  BY <1>4, CommandType DEF ChannelTypeOK
<1>5. CASE SendToActive
  <2> DEFINE body == logged + 1
             line == Line(TRUE, active, body)
             cmd == [type |-> "Send", peer |-> active, body |-> body]
  <2>1. /\ active \in PeerId /\ active \in DOMAIN peers
        /\ peers' = [peers EXCEPT ![active].log = Append(@, line)]
        /\ logged' = logged + 1 /\ scroll' = 0
        /\ Command(cmd)
        /\ UNCHANGED <<order, active, toUi, running, serving>>
    BY <1>3, <1>5 DEF SendToActive
  <2>2. body \in Nat /\ logged \in Nat
    BY DEF AppTypeOK
  <2>3. cmd \in UiCommand
    BY <2>1, <2>2 DEF UiCommand
  <2>4. ChannelTypeOK'
    <3> HIDE DEF cmd
    <3> QED BY <1>4, <2>1, <2>3
  <2>5. line \in ChatLine
    BY <2>1, <2>2 DEF Line, ChatLine
  <2>6. DOMAIN peers' = DOMAIN peers /\ peers' \in [DOMAIN peers -> Peer]
    <3> HIDE DEF line
    <3>1. peers[active] \in Peer /\ peers[active].log \in Seq(ChatLine)
      BY <2>1 DEF AppTypeOK, Peer
    <3>2. Append(peers[active].log, line) \in Seq(ChatLine)
      BY <2>5, <3>1, AppendType
    <3> DEFINE new == [peers[active] EXCEPT !.log = Append(@, line)]
    <3>3. new \in Peer
      BY <3>1, <3>2 DEF Peer
    <3>4. peers' = [peers EXCEPT ![active] = new]
      BY <2>1
    <3> HIDE DEF new
    <3> QED BY <2>1, <3>3, <3>4 DEF AppTypeOK
  <2>7. AppInv'
    BY <2>1, <2>2, <2>6 DEF AppTypeOK, RosterConsistent, None
  <2> QED BY <1>1, <2>4, <2>7
<1>6. CASE UserConnect
  <2>1. PICK a \in Address : Connect(a)
    BY <1>6 DEF UserConnect
  <2> DEFINE cmd == [type |-> "Connect", onion |-> a]
  <2>2. cmd \in UiCommand
    BY DEF UiCommand
  <2>3. Command(cmd) /\ UNCHANGED <<appVars, toUi, running, serving>>
    BY <2>1 DEF Connect
  <2> HIDE DEF cmd
  <2>4. ChannelTypeOK'
    BY <1>4, <2>2, <2>3
  <2> QED BY <1>1, <1>2, <2>3, <2>4
<1>7. CASE Disconnect
  <2> DEFINE cmd == [type |-> "Disconnect", peer |-> active]
  <2>1. cmd \in UiCommand
    BY <1>3, <1>7 DEF Disconnect, UiCommand
  <2>2. Command(cmd) /\ UNCHANGED <<appVars, toUi, running, serving>>
    BY <1>7 DEF Disconnect
  <2> HIDE DEF cmd
  <2>3. ChannelTypeOK'
    BY <1>4, <2>1, <2>2
  <2> QED BY <1>1, <1>2, <2>2, <2>3
<1>8. CASE Quit
  <2> DEFINE cmd == [type |-> "Shutdown"]
  <2>1. cmd \in UiCommand
    BY DEF UiCommand
  <2>2. /\ running' = FALSE /\ toUi' = <<>>
        /\ fromUi' = IF serving THEN Append(fromUi, cmd) ELSE fromUi
        /\ UNCHANGED <<appVars, serving>>
    BY <1>8 DEF Quit
  <2> HIDE DEF cmd
  <2>3. fromUi' \in Seq(UiCommand)
    BY <2>1, <2>2, AppendType DEF ChannelTypeOK
  <2>4. toUi' \in Seq(NetEvent)
    BY <2>2
  <2>5. ChannelTypeOK'
    BY <2>2, <2>3, <2>4 DEF ChannelTypeOK
  <2> QED BY <1>1, <1>2, <2>2, <2>5
<1>9. CASE PageUp \/ PageDown
  <2>1. ChannelTypeOK'
    BY <1>9 DEF PageUp, PageDown, channels, ChannelTypeOK
  <2>2. /\ scroll' \in Nat
        /\ UNCHANGED <<peers, order, active, logged>>
    BY <1>9 DEF PageUp, PageDown, AppTypeOK
  <2>3. AppInv'
    BY <2>2 DEF AppTypeOK, RosterConsistent
  <2> QED BY <1>1, <2>1, <2>3
<1>10. ASSUME NEW delta \in {1, -1}, CycleActive(delta) PROVE Inv'
  <2>1. /\ active' = Cycled(order, active, delta)
        /\ scroll' = 0
        /\ UNCHANGED <<peers, order, logged, channels>>
    BY <1>10 DEF CycleActive
  <2>2. order \in Seq(PeerId)
    BY DEF AppTypeOK
  <2>3. active' \in Range(order) \cup {None}
    BY <2>1, <2>2, CycledFocus
  <2>4. AppInv'
    BY <2>1, <2>3 DEF AppTypeOK, RosterConsistent
  <2>5. ChannelTypeOK'
    BY <2>1 DEF channels, ChannelTypeOK
  <2> QED BY <1>1, <2>4, <2>5
<1> QED BY <1>5, <1>6, <1>7, <1>8, <1>9, <1>10 DEF UserKey, OnKey

-----------------------------------------------------------------------------
(* The network layer.                                                      *)

\* Spawning gives the next PeerId its task.
SpawnedWell ==
  /\ tasks' \in [PeerId -> Task]
  /\ routes' \subseteq PeerId
  /\ next_id' \in 1 .. MaxPeerId + 1
  /\ OnionKnown'
  /\ \A p \in PeerId : Up(p)' => tasks'[p].backoff = RECONNECT_BACKOFF_START

LEMMA SpawnInv ==
  ASSUME NetInv, NEW task \in Task, TaskOK(task), Spawn(task)
  PROVE  SpawnedWell
<1> USE DEF NetInv, NetworkTypeOK
<1>1. next_id \in PeerId /\ MaxPeerId \in Nat
  BY MessageAssumption DEF Spawn
<1>2. tasks' = [tasks EXCEPT ![next_id] = task]
  BY DEF Spawn
<1>3. tasks' \in [PeerId -> Task]
  BY <1>1, <1>2
<1>4. OnionKnown'
  BY <1>1, <1>2 DEF OnionKnown
<1>5. routes' \subseteq PeerId /\ next_id' \in 1 .. MaxPeerId + 1
  BY <1>1 DEF Spawn, PeerId
<1>6. \A p \in PeerId : Up(p)' => tasks'[p].backoff = RECONNECT_BACKOFF_START
  BY <1>4 DEF OnionKnown, TaskOK, Up
<1> QED BY <1>3, <1>4, <1>5, <1>6 DEF SpawnedWell

\* A new task is one, with the address it was given and its backoff fresh.
LEMMA FreshTask ==
  ASSUME NEW pc \in {"none", "dial", "conn"}, NEW onion \in Onion \cup {NoOnion},
         NEW inbound \in BOOLEAN
  PROVE  /\ NewTask(pc, onion, inbound) \in Task
         /\ NewTask(pc, onion, inbound).pc = pc
         /\ NewTask(pc, onion, inbound).onion = onion
         /\ NewTask(pc, onion, inbound).inbound = inbound
         /\ NewTask(pc, onion, inbound).backoff = RECONNECT_BACKOFF_START
<1>1. RECONNECT_BACKOFF_START \in RECONNECT_BACKOFF_START .. RECONNECT_BACKOFF_MAX
  BY NetworkAssumption
<1> QED BY <1>1 DEF NewTask, Task

\* What a remote dials is accepted.
LEMMA AcceptInv == Inv /\ RemoteDials => Inv'
<1> SUFFICES ASSUME Inv, RemoteDials PROVE Inv'
  OBVIOUS
<1> USE DEF Inv, AppInv, NetInv
<1>1. Accept /\ UNCHANGED appVars
  BY DEF RemoteDials
<1>2. AppInv'
  BY <1>1 DEF appVars, AppTypeOK, RosterConsistent
<1>3. ChannelTypeOK'
  BY <1>1 DEF Accept, channels, ChannelTypeOK
<1>4. NetInv'
  BY <1>1 DEF Accept, NetworkTypeOK, OnionKnown, Up
<1> QED BY <1>2, <1>3, <1>4

\* Every branch of the manager keeps the types, and a task that it spawns to
\* dial has an address.
LEMMA ManagerInv == Inv /\ ManagerStep => Inv'
<1> SUFFICES ASSUME Inv, ManagerStep PROVE Inv'
  OBVIOUS
<1> USE DEF Inv
<1>1. AppInv'
  BY DEF ManagerStep, appVars, AppInv, AppTypeOK, RosterConsistent
<1>2. ASSUME NEW type, TakeCommand(type)
      PROVE  /\ Head(fromUi) \in UiCommand /\ Head(fromUi).type = type
             /\ fromUi' \in Seq(UiCommand)
             /\ UNCHANGED <<running, inboundRx, received>>
  BY <1>2, HeadTail DEF TakeCommand, ChannelTypeOK
<1>3. CASE ManagerConnect
  <2> DEFINE cmd == Head(fromUi)
             task == NewTask("dial", normalize_onion(cmd.onion), FALSE)
  <2>1. cmd \in UiCommand /\ cmd.type = "Connect"
    BY <1>2, <1>3 DEF ManagerConnect
  <2>2. normalize_onion(cmd.onion) \in Onion
    BY <2>1, CommandFields DEF Address, normalize_onion
  <2>3. task \in Task /\ TaskOK(task)
    <3>1. task \in Task /\ task.pc = "dial" /\ ~task.inbound
          /\ task.onion = normalize_onion(cmd.onion)
      BY <2>2, FreshTask
    <3> HIDE DEF task
    <3> QED BY <2>2, <3>1 DEF TaskOK
  <2>4. Spawn(task) /\ UNCHANGED <<toUi, serving, doneRx, lines, hangups>>
    BY <1>3 DEF ManagerConnect
  <2> HIDE DEF task
  <2>5. NetInv'
    <3>1. SpawnedWell
      BY <2>3, <2>4, SpawnInv
    <3> QED BY <1>2, <1>3, <2>4, <3>1
            DEF SpawnedWell, ManagerConnect, NetInv, NetworkTypeOK
  <2>6. ChannelTypeOK'
    BY <1>2, <1>3, <2>4 DEF ManagerConnect, ChannelTypeOK
  <2> QED BY <1>1, <2>5, <2>6
<1>4. CASE ManagerSend
  <2> DEFINE cmd == Head(fromUi)
  <2>1. cmd \in UiCommand /\ cmd.type = "Send"
    BY <1>2, <1>4 DEF ManagerSend
  <2>2. cmd.peer \in PeerId /\ cmd.body \in Nat
    BY <2>1, CommandFields
  <2>3. lines' \in [PeerId -> Seq(Nat)]
    <3>1. lines[cmd.peer] \in Seq(Nat)
      BY <2>2 DEF NetInv, NetworkTypeOK
    <3>2. Append(lines[cmd.peer], cmd.body) \in Seq(Nat)
      BY <2>2, <3>1, AppendType
    <3> QED BY <1>4, <2>2, <3>2 DEF ManagerSend, NetInv, NetworkTypeOK
  <2>4. NetInv'
    BY <1>2, <1>4, <2>3 DEF ManagerSend, NetInv, NetworkTypeOK, OnionKnown, Up
  <2>5. ChannelTypeOK'
    BY <1>2, <1>4 DEF ManagerSend, ChannelTypeOK
  <2> QED BY <1>1, <2>4, <2>5
<1>5. CASE ManagerDisconnect
  <2> DEFINE p == Head(fromUi).peer
             ev == [type |-> "PeerDisconnected", peer |-> p]
  <2>1. p \in PeerId
    BY <1>2, <1>5, CommandFields DEF ManagerDisconnect
  <2>2. /\ IF p \in routes
             THEN /\ routes' = routes \ {p}
                  /\ hangups' = hangups \cup {p}
                  /\ Emit(ev)
             ELSE UNCHANGED <<routes, hangups, toUi>>
        /\ UNCHANGED <<serving, next_id, doneRx, tasks, lines>>
    BY <1>5 DEF ManagerDisconnect
  <2>3. ev \in NetEvent
    BY <2>1 DEF NetEvent
  <2> HIDE DEF ev
  <2>4. toUi' \in Seq(NetEvent)
    BY <2>2, <2>3, EmitType DEF ChannelTypeOK
  <2>5. ChannelTypeOK'
    BY <1>2, <1>5, <2>2, <2>4 DEF ManagerDisconnect, ChannelTypeOK
  <2>6. NetInv'
    BY <1>2, <1>5, <2>1, <2>2 DEF ManagerDisconnect, NetInv, NetworkTypeOK, OnionKnown, Up
  <2> QED BY <1>1, <2>5, <2>6
<1>6. CASE ManagerShutdown
  <2>1. /\ serving' = FALSE /\ fromUi' = <<>>
        /\ routes' = {} /\ inboundRx' = 0 /\ doneRx' = <<>>
        /\ UNCHANGED <<toUi, running, next_id, tasks, lines, received, hangups>>
    BY <1>6 DEF ManagerShutdown
  <2>2. <<>> \in Seq(UiCommand) /\ <<>> \in Seq(PeerId)
    OBVIOUS
  <2>3. ChannelTypeOK'
    BY <2>1, <2>2 DEF ChannelTypeOK
  <2>4. NetInv'
    BY <2>1, <2>2 DEF NetInv, NetworkTypeOK, OnionKnown, Up
  <2> QED BY <1>1, <2>3, <2>4
<1>7. CASE ManagerInbound
  <2> DEFINE task == NewTask("conn", NoOnion, TRUE)
             ev == [type |-> "PeerConnected", peer |-> next_id, onion |-> NoOnion,
                    inbound |-> TRUE]
  <2>1. inboundRx - 1 \in Nat
    BY <1>7 DEF ManagerInbound, NetInv, NetworkTypeOK
  <2>2. task \in Task /\ TaskOK(task)
    BY FreshTask DEF TaskOK
  <2>3. /\ inboundRx' = inboundRx - 1
        /\ Spawn(task)
        /\ Emit(ev)
        /\ UNCHANGED <<fromUi, running, serving, doneRx, lines, received, hangups>>
    BY <1>7 DEF ManagerInbound
  <2>4. ev \in NetEvent
    BY <2>3 DEF Spawn, NetEvent
  <2> HIDE DEF ev, task
  <2>5. ChannelTypeOK'
    BY <2>3, <2>4, EmitType DEF ChannelTypeOK
  <2>6. NetInv'
    <3>1. SpawnedWell
      BY <2>2, <2>3, SpawnInv
    <3> QED BY <2>1, <2>3, <3>1 DEF SpawnedWell, NetInv, NetworkTypeOK
  <2> QED BY <1>1, <2>5, <2>6
<1>8. CASE ManagerDone
  <2>1. ChannelTypeOK'
    BY <1>8 DEF ManagerDone, channels, ChannelTypeOK
  <2>2. doneRx' \in Seq(PeerId)
    BY <1>8, HeadTail DEF ManagerDone, NetInv, NetworkTypeOK
  <2>3. NetInv'
    BY <1>8, <2>2 DEF ManagerDone, NetInv, NetworkTypeOK, OnionKnown, Up
  <2> QED BY <1>1, <2>1, <2>3
<1> QED BY <1>3, <1>4, <1>5, <1>6, <1>7, <1>8 DEF ManagerStep, Manager

-----------------------------------------------------------------------------
(* A connection's task.                                                    *)

\* What a step of a task may make of it without disturbing the types.
LEMMA TaskStep ==
  ASSUME NetInv, NEW p \in PeerId, NEW task \in Task, TaskOK(task),
         tasks' = [tasks EXCEPT ![p] = task]
  PROVE  tasks' \in [PeerId -> Task] /\ OnionKnown'
BY DEF NetInv, NetworkTypeOK, OnionKnown

\* The task moves on, keeping its backoff and its address.
LEMMA TaskMove ==
  ASSUME NetInv, NEW p \in PeerId,
         NEW pc \in {"stuck", "wait", "done"},
         TaskOK([tasks[p] EXCEPT !.pc = pc]),
         tasks' = [tasks EXCEPT ![p].pc = pc]
  PROVE  tasks' \in [PeerId -> Task] /\ OnionKnown'
<1> DEFINE old == tasks[p]
           task == [old EXCEPT !.pc = pc]
<1>1. tasks \in [PeerId -> Task] /\ old \in Task
  BY DEF NetInv, NetworkTypeOK
<1>2. task \in Task /\ TaskOK(task)
  BY <1>1 DEF Task
<1>3. tasks' = [tasks EXCEPT ![p] = task]
  OBVIOUS
<1> HIDE DEF task
<1> QED BY <1>2, <1>3, TaskStep

\* Ending a task keeps the types.
LEMMA FinishType ==
  ASSUME NetInv, NEW p \in PeerId, tasks[p].pc # "none", Finish(p)
  PROVE  /\ tasks' \in [PeerId -> Task] /\ OnionKnown'
         /\ lines' \in [PeerId -> Seq(Nat)]
         /\ doneRx' \in Seq(PeerId)
<1>1. tasks' \in [PeerId -> Task] /\ OnionKnown'
  <2>1. tasks[p] \in Task /\ TaskOK(tasks[p])
    BY DEF NetInv, NetworkTypeOK, OnionKnown
  <2>2. TaskOK([tasks[p] EXCEPT !.pc = "done"])
    BY <2>1 DEF TaskOK, Task
  <2> QED BY <2>2, TaskMove DEF Finish
<1>2. <<>> \in Seq(Nat)
  OBVIOUS
<1>3. lines' \in [PeerId -> Seq(Nat)]
  BY <1>2 DEF Finish, NetInv, NetworkTypeOK
<1>4. doneRx \in Seq(PeerId) /\ Append(doneRx, p) \in Seq(PeerId)
  BY AppendType DEF NetInv, NetworkTypeOK
<1>5. doneRx' \in Seq(PeerId)
  BY <1>4 DEF Finish
<1> QED BY <1>1, <1>3, <1>5

\* So does waiting to redial.
LEMMA WaitType ==
  ASSUME NetInv, NEW p \in PeerId, tasks[p].pc # "none", ~tasks[p].inbound,
         wait_or_closed(p)
  PROVE  /\ tasks' \in [PeerId -> Task] /\ OnionKnown'
         /\ lines' \in [PeerId -> Seq(Nat)]
         /\ doneRx' \in Seq(PeerId)
<1>1. CASE closed(p)
  BY <1>1, FinishType DEF wait_or_closed
<1>2. CASE ~closed(p)
  <2>1. tasks' \in [PeerId -> Task] /\ OnionKnown'
    <3>1. tasks[p] \in Task /\ TaskOK(tasks[p])
      BY DEF NetInv, NetworkTypeOK, OnionKnown
    <3>2. TaskOK([tasks[p] EXCEPT !.pc = "wait"])
      BY <3>1 DEF TaskOK, Task
    <3> QED BY <1>2, <3>2, TaskMove DEF wait_or_closed
  <2>2. <<>> \in Seq(Nat)
    OBVIOUS
  <2> QED BY <1>2, <2>1, <2>2 DEF wait_or_closed, NetInv, NetworkTypeOK
<1> QED BY <1>1, <1>2

\* The rest of a task's lines.
LEMMA LinesTail ==
  ASSUME NetInv, NEW p \in PeerId, lines[p] # <<>>,
         lines' = [lines EXCEPT ![p] = Tail(@)]
  PROVE  lines' \in [PeerId -> Seq(Nat)]
<1>1. lines \in [PeerId -> Seq(Nat)] /\ lines[p] \in Seq(Nat)
  BY DEF NetInv, NetworkTypeOK
<1>2. Tail(lines[p]) \in Seq(Nat)
  BY <1>1, HeadTail
<1> QED BY <1>1, <1>2

\* Every step of a connection's task keeps the types, and one that dials keeps
\* its address.
LEMMA ConnectionInv == Inv /\ ConnectionStep => Inv'
<1> SUFFICES ASSUME Inv, NEW p \in PeerId, Connection(p), UNCHANGED appVars
             PROVE  Inv'
  BY DEF ConnectionStep
<1> USE DEF Inv
<1>1. AppInv'
  BY DEF appVars, AppInv, AppTypeOK, RosterConsistent
<1>2. tasks[p].pc # "none" /\ TaskFrame
  BY DEF Connection, DialOk, DialFail, ConnRecv, ConnWrite, ConnStuck,
         ConnLocalClosed, ConnLost, Up, WaitDrop, WaitClosed, WaitElapsed
<1> DEFINE Moved == /\ tasks' \in [PeerId -> Task] /\ OnionKnown'
                    /\ lines' \in [PeerId -> Seq(Nat)]
                    /\ doneRx' \in Seq(PeerId)
                    /\ received' \in [PeerId -> Nat]
                    /\ toUi' \in Seq(NetEvent)
<1>3. Moved => Inv'
  <2>1. OnionKnown' => \A q \in PeerId : Up(q)' => tasks'[q].backoff = RECONNECT_BACKOFF_START
    BY DEF OnionKnown, TaskOK, Up
  <2> QED BY <1>1, <1>2, <2>1 DEF TaskFrame, ChannelTypeOK, NetInv, NetworkTypeOK
<1>4. /\ toUi \in Seq(NetEvent) /\ received \in [PeerId -> Nat]
      /\ lines \in [PeerId -> Seq(Nat)] /\ doneRx \in Seq(PeerId)
      /\ tasks \in [PeerId -> Task] /\ OnionKnown
      /\ NetInv
  BY DEF ChannelTypeOK, NetInv, NetworkTypeOK
<1>5. /\ tasks[p] \in Task /\ TaskOK(tasks[p])
      /\ ~tasks[p].inbound => tasks[p].onion \in Onion
                               /\ WithSuffix(tasks[p].onion) \in Address
  BY <1>2, <1>4 DEF OnionKnown, TaskOK, WithSuffix, Address
<1>6. [type |-> "PeerError", peer |-> p] \in NetEvent
  BY DEF NetEvent
<1>7. UNCHANGED tasks => OnionKnown'
  BY <1>4 DEF OnionKnown
<1>8. CASE DialOk(p)
  <2> DEFINE ev == [type |-> "PeerConnected", peer |-> p,
                    onion |-> WithSuffix(tasks[p].onion), inbound |-> FALSE]
  <2>1. tasks[p].pc = "dial" /\ ~tasks[p].inbound
    BY <1>5, <1>8 DEF DialOk, TaskOK
  <2>a. ev \in NetEvent
    BY <1>5, <2>1 DEF NetEvent
  <2>2. Emit(ev)
    BY <1>8 DEF DialOk
  <2> HIDE DEF ev
  <2>3. toUi' \in Seq(NetEvent)
    BY <1>4, <2>a, <2>2, EmitType
  <2>4. RECONNECT_BACKOFF_START \in RECONNECT_BACKOFF_START .. RECONNECT_BACKOFF_MAX
    BY NetworkAssumption
  <2>5. tasks' = [tasks EXCEPT ![p].pc = "conn", ![p].backoff = RECONNECT_BACKOFF_START]
    BY <1>8 DEF DialOk
  <2> DEFINE moved == [tasks[p] EXCEPT !.pc = "conn"]
             task == [moved EXCEPT !.backoff = RECONNECT_BACKOFF_START]
  <2>b. moved \in Task /\ moved.onion = tasks[p].onion /\ ~moved.inbound
    BY <1>5, <2>1 DEF Task
  <2>c. tasks' = [tasks EXCEPT ![p] = task]
    BY <1>4, <2>5
  <2>d. task \in Task /\ TaskOK(task)
    <3>1. moved.pc = "conn"
      BY <1>5 DEF Task
    <3> HIDE DEF moved
    <3>2. task \in Task /\ task.onion = moved.onion /\ ~task.inbound
          /\ task.pc = "conn" /\ task.backoff = RECONNECT_BACKOFF_START
      BY <2>4, <2>b, <3>1 DEF Task
    <3> HIDE DEF task
    <3> QED BY <1>5, <2>1, <2>b, <3>2 DEF TaskOK
  <2> HIDE DEF task
  <2>6. tasks' \in [PeerId -> Task] /\ OnionKnown'
    BY <1>4, <2>c, <2>d, TaskStep
  <2> QED BY <1>3, <1>4, <1>8, <2>3, <2>6 DEF DialOk
<1>9. CASE DialFail(p)
  <2>1. toUi' \in Seq(NetEvent)
    BY <1>4, <1>6, <1>9, EmitType DEF DialFail
  <2>2. wait_or_closed(p) /\ UNCHANGED received /\ ~tasks[p].inbound
    BY <1>5, <1>9 DEF DialFail, TaskOK
  <2> QED BY <1>2, <1>3, <1>4, <2>1, <2>2, WaitType
<1>10. CASE ConnRecv(p)
  <2>1. PICK claim \in Claim :
          /\ Emit([type |-> "Message", peer |-> p, from_onion |-> claim,
                   body |-> received[p] + 1])
          /\ tasks' = IF tasks[p].onion = NoOnion /\ claim # NoOnion
                        THEN [tasks EXCEPT ![p].onion = normalize_onion(claim)]
                        ELSE tasks
    BY <1>10 DEF ConnRecv
  <2> DEFINE ev == [type |-> "Message", peer |-> p, from_onion |-> claim,
                    body |-> received[p] + 1]
  <2>2. claim \in Address \cup {NoOnion} /\ ev \in NetEvent
    BY <1>4, NetworkAssumption DEF NetEvent
  <2> HIDE DEF ev
  <2>3. toUi' \in Seq(NetEvent)
    BY <1>4, <2>1, <2>2, EmitType DEF ev
  <2>4. received' \in [PeerId -> Nat]
    BY <1>4, <1>10 DEF ConnRecv
  <2>5. tasks' \in [PeerId -> Task] /\ OnionKnown'
    <3>1. CASE tasks[p].onion = NoOnion /\ claim # NoOnion
      <4> DEFINE onion == normalize_onion(claim)
                 task == [tasks[p] EXCEPT !.onion = onion]
      <4>1. onion \in Onion
        BY <2>2, <3>1 DEF normalize_onion, Address
      <4>2. tasks' = [tasks EXCEPT ![p] = task]
        BY <2>1, <3>1
      <4> HIDE DEF onion
      <4>3. task \in Task /\ TaskOK(task)
        BY <1>5, <4>1 DEF Task, TaskOK
      <4> HIDE DEF task
      <4> QED BY <1>4, <4>2, <4>3, TaskStep
    <3>2. CASE ~(tasks[p].onion = NoOnion /\ claim # NoOnion)
      BY <1>4, <1>7, <2>1, <3>2
    <3> QED BY <3>1, <3>2
  <2> QED BY <1>3, <1>4, <1>10, <2>3, <2>4, <2>5 DEF ConnRecv
<1>11. CASE ConnWrite(p)
  <2>1. lines' \in [PeerId -> Seq(Nat)]
    BY <1>4, <1>11, LinesTail DEF ConnWrite
  <2> QED BY <1>3, <1>4, <1>7, <1>11, <2>1 DEF ConnWrite
<1>12. CASE ConnLocalClosed(p)
  <2>1. Finish(p) /\ UNCHANGED <<toUi, received>>
    BY <1>12 DEF ConnLocalClosed
  <2> QED BY <1>2, <1>3, <1>4, <2>1, FinishType
<1>a. CASE ConnStuck(p)
  <2>1. lines' \in [PeerId -> Seq(Nat)]
    BY <1>4, <1>a, LinesTail DEF ConnStuck
  <2>2. TaskOK([tasks[p] EXCEPT !.pc = "stuck"])
    BY <1>5, <1>a DEF ConnStuck, TaskOK, Task
  <2>3. tasks' \in [PeerId -> Task] /\ OnionKnown'
    BY <1>4, <1>a, <2>2, TaskMove DEF ConnStuck
  <2> QED BY <1>3, <1>4, <1>a, <2>1, <2>3 DEF ConnStuck
<1>13. CASE ConnLost(p)
  <2>1. toUi' \in Seq(NetEvent)
    BY <1>4, <1>6, <1>13, EmitType DEF ConnLost
  <2>2. (Finish(p) \/ (wait_or_closed(p) /\ ~tasks[p].inbound)) /\ UNCHANGED received
    BY <1>13 DEF ConnLost
  <2> QED BY <1>2, <1>3, <1>4, <2>1, <2>2, FinishType, WaitType
<1>14. CASE WaitDrop(p)
  <2>1. lines' \in [PeerId -> Seq(Nat)]
    BY <1>4, <1>14, LinesTail DEF WaitDrop
  <2> QED BY <1>3, <1>4, <1>7, <1>14, <2>1 DEF WaitDrop
<1>15. CASE WaitClosed(p)
  <2>1. Finish(p) /\ UNCHANGED <<toUi, received>>
    BY <1>15 DEF WaitClosed
  <2> QED BY <1>2, <1>3, <1>4, <2>1, FinishType
<1>16. CASE WaitElapsed(p)
  <2> DEFINE doubled == 2 * tasks[p].backoff
             backoff == IF doubled < RECONNECT_BACKOFF_MAX
                          THEN doubled ELSE RECONNECT_BACKOFF_MAX
  <2>1. tasks[p].backoff \in RECONNECT_BACKOFF_START .. RECONNECT_BACKOFF_MAX
    BY <1>4 DEF Task
  <2>2. backoff \in RECONNECT_BACKOFF_START .. RECONNECT_BACKOFF_MAX
    BY <2>1, NetworkAssumption
  <2>3. tasks' = [tasks EXCEPT ![p].pc = "dial", ![p].backoff = backoff]
    BY <1>16 DEF WaitElapsed
  <2> HIDE DEF backoff
  <2> DEFINE moved == [tasks[p] EXCEPT !.pc = "dial"]
             task == [moved EXCEPT !.backoff = backoff]
  <2>a. tasks[p].pc = "wait" /\ ~tasks[p].inbound
    BY <1>5, <1>16 DEF WaitElapsed, TaskOK
  <2>b. moved \in Task /\ moved.onion = tasks[p].onion /\ ~moved.inbound /\ moved.pc = "dial"
    BY <1>5, <2>a DEF Task
  <2>c. tasks' = [tasks EXCEPT ![p] = task]
    BY <1>4, <2>3
  <2> HIDE DEF moved
  <2>d. task \in Task /\ TaskOK(task)
    <3>1. task \in Task /\ task.onion = moved.onion /\ ~task.inbound /\ task.pc = "dial"
      BY <2>2, <2>b DEF Task
    <3> HIDE DEF task
    <3> QED BY <1>5, <2>a, <2>b, <3>1 DEF TaskOK
  <2> HIDE DEF task
  <2>4. tasks' \in [PeerId -> Task] /\ OnionKnown'
    BY <1>4, <2>c, <2>d, TaskStep
  <2> QED BY <1>3, <1>4, <1>16, <2>4 DEF WaitElapsed
<1> QED BY <1>8, <1>9, <1>10, <1>11, <1>12, <1>13, <1>14, <1>15, <1>16, <1>a DEF Connection

-----------------------------------------------------------------------------
(* The theorems.                                                           *)

\* The initial state satisfies the invariant.
LEMMA InitInv == Init => Inv
<1> SUFFICES ASSUME Init PROVE Inv
  OBVIOUS
<1>1. \A T : <<>> \in Seq(T)
  OBVIOUS
<1>2. ChannelTypeOK
  BY <1>1 DEF Init, ChannelInit, ChannelTypeOK
<1>3. NetInv
  <2>1. NewTask("none", NoOnion, FALSE) \in Task
    BY FreshTask
  <2>2. NewTask("none", NoOnion, FALSE).pc = "none"
    BY DEF NewTask
  <2>3. 1 \in 1 .. MaxPeerId + 1
    BY MessageAssumption
  <2> QED BY <1>1, <2>1, <2>2, <2>3
          DEF Init, NetworkInit, NetInv, NetworkTypeOK, OnionKnown, TaskOK, Up
<1>4. AppInv
  <2>1. DOMAIN peers = {} /\ order = <<>> /\ active = None
    BY DEF Init, AppInit
  <2>2. RosterConsistent
    BY <2>1 DEF RosterConsistent, Range, IsInjective
  <2>3. AppTypeOK
    BY <1>1, <2>1, AppAssumption DEF Init, AppInit, AppTypeOK
  <2> QED BY <2>2, <2>3 DEF AppInv
<1> QED BY <1>2, <1>3, <1>4 DEF Inv

\* Every step of the system preserves the invariant.
LEMMA NextInv == Inv /\ [Next]_vars => Inv'
<1> SUFFICES ASSUME Inv, [Next]_vars PROVE Inv'
  OBVIOUS
<1>1. CASE Next
  BY <1>1, UiEventInv, UserInv, AcceptInv, ManagerInv, ConnectionInv DEF Next
<1>2. CASE UNCHANGED vars
  BY <1>2 DEF vars, channels, appVars, netVars, Inv, AppInv, NetInv, ChannelTypeOK,
              AppTypeOK, NetworkTypeOK, OnionKnown, Up, RosterConsistent
<1> QED BY <1>1, <1>2

\* In every reachable state, for any number of PeerIds, addresses, lines and
\* bounds, all state is well-typed: in particular each task redials with a
\* backoff between the first and the largest, starts over with the first once
\* it was connected, and whatever travels on the two
\* channels is an event or a command about a PeerId that was handed out.
THEOREM TypeCorrect == Spec => []TypeOK
<1>1. Inv => TypeOK
  BY DEF Inv, AppInv, NetInv, TypeOK
<1> QED BY <1>1, InitInv, NextInv, PTL DEF Spec

\* In every reachable state the roster lists each conversation of the table
\* once and nothing else, and the focus is on one of them or the system log,
\* whatever connects, is lost, is disconnected and is folded in between.
THEOREM RosterIsConsistent == Spec => []RosterConsistent
<1>1. Inv => RosterConsistent
  BY DEF Inv, AppInv
<1> QED BY <1>1, InitInv, NextInv, PTL DEF Spec

-----------------------------------------------------------------------------
(* KeysReachEveryone: the focus goes round the places 0 .. n, the system   *)
(* log's and one per entry of the roster.                                  *)

\* Who is at a place.
At(ord, i) == IF i = 0 THEN None ELSE ord[i]

\* One place on, and one back, round and round.
LEMMA RoundAndRound ==
  ASSUME NEW n \in Nat, NEW i \in 0 .. n
  PROVE  /\ (i + 1) % (n + 1) = IF i = n THEN 0 ELSE i + 1
         /\ (i + (-1)) % (n + 1) = IF i = 0 THEN n ELSE i - 1
OBVIOUS

\* A key moves the focus from place to place.
LEMMA CycledAt ==
  ASSUME NEW ord \in Seq(PeerId), IsInjective(ord), NEW i \in 0 .. Len(ord),
         NEW delta \in {1, -1}
  PROVE  Cycled(ord, At(ord, i), delta) = At(ord, (i + delta) % (Len(ord) + 1))
<1> DEFINE act == At(ord, i)
           cur == IF act \in Range(ord)
                    THEN CHOOSE k \in DOMAIN ord : ord[k] = act ELSE 0
<1>1. Len(ord) \in Nat /\ DOMAIN ord = 1 .. Len(ord) /\ \A k \in DOMAIN ord : ord[k] \in PeerId
  OBVIOUS
<1>2. None \notin Range(ord)
  BY <1>1 DEF None, PeerId, Range
<1>3. cur = i
  <2>1. CASE i = 0
    BY <1>2, <2>1 DEF At
  <2>2. CASE i # 0
    <3>1. i \in DOMAIN ord /\ act = ord[i]
      BY <1>1, <2>2 DEF At
    <3>2. act \in Range(ord) /\ \A k \in DOMAIN ord : ord[k] = act => k = i
      BY <3>1 DEF Range, IsInjective
    <3> HIDE DEF act
    <3>3. (CHOOSE k \in DOMAIN ord : ord[k] = act) = i
      BY <3>1, <3>2
    <3> QED BY <3>2, <3>3
  <2> QED BY <2>1, <2>2
<1>4. Cycled(ord, act, delta)
        = IF (cur + delta) % (Len(ord) + 1) = 0 THEN None
          ELSE ord[(cur + delta) % (Len(ord) + 1)]
  BY DEF Cycled
<1> HIDE DEF cur
<1> QED BY <1>3, <1>4 DEF At

\* Whoever goes on, place after place, gets everywhere.
LEMMA TabReachesAll ==
  ASSUME NEW ord \in Seq(PeerId), IsInjective(ord), NEW F, None \in F,
         \A p \in F : Cycled(ord, p, 1) \in F
  PROVE  Range(ord) \subseteq F
<1> DEFINE n == Len(ord)
           Missed == {i \in 0 .. n : At(ord, i) \notin F}
<1>1. n \in Nat /\ DOMAIN ord = 1 .. n
  OBVIOUS
<1>2. ASSUME Missed # {} PROVE FALSE
  <2>1. Missed \subseteq Nat
    BY <1>1
  <2> HIDE DEF Missed
  <2>2. PICK m \in Missed : \A k \in Missed : m <= k
    BY <1>2, <2>1, LeastNat
  <2>3. m \in 0 .. n /\ At(ord, m) \notin F
    BY <2>2 DEF Missed
  <2>4. m # 0
    BY <2>3 DEF At
  <2>5. m - 1 \in 0 .. n /\ ~(m <= m - 1) /\ m - 1 # n /\ (m - 1) + 1 = m
    BY <1>1, <2>3, <2>4
  <2>6. At(ord, m - 1) \in F
    BY <2>2, <2>5 DEF Missed
  <2>7. Cycled(ord, At(ord, m - 1), 1) = At(ord, ((m - 1) + 1) % (n + 1))
    BY <2>5, CycledAt
  <2>8. ((m - 1) + 1) % (n + 1) = (m - 1) + 1
    BY <1>1, <2>5, RoundAndRound
  <2>9. Cycled(ord, At(ord, m - 1), 1) = At(ord, m)
    BY <2>5, <2>7, <2>8
  <2> QED BY <2>3, <2>6, <2>9
<1>3. \A i \in 1 .. n : At(ord, i) = ord[i] /\ i \in 0 .. n
  BY <1>1 DEF At
<1> QED BY <1>1, <1>2, <1>3 DEF Range

\* One place on and one place back, around n places and the system log.
LEMMA OnAndBack ==
  ASSUME NEW n \in Nat, NEW i \in 0 .. n
  PROVE  /\ (i + 1) % (n + 1) \in 0 .. n
         /\ (((i + 1) % (n + 1)) + (-1)) % (n + 1) = i
<1>1. CASE i = n
  <2>1. (i + 1) % (n + 1) = 0
    BY <1>1, RoundAndRound
  <2>2. 0 \in 0 .. n /\ (0 + (-1)) % (n + 1) = n
    BY RoundAndRound
  <2> QED BY <1>1, <2>1, <2>2
<1>2. CASE i # n
  <2> DEFINE j == i + 1
  <2>1. (i + 1) % (n + 1) = j
    BY <1>2, RoundAndRound
  <2>2. j \in 0 .. n /\ j # 0 /\ j - 1 = i
    BY <1>2
  <2> HIDE DEF j
  <2>3. (j + (-1)) % (n + 1) = j - 1
    BY <2>2, RoundAndRound
  <2> QED BY <2>1, <2>2, <2>3
<1> QED BY <1>1, <1>2

\* Shift-Tab takes back what Tab did.
LEMMA TabAndBack ==
  ASSUME NEW ord \in Seq(PeerId), IsInjective(ord), NEW p \in Range(ord) \cup {None}
  PROVE  Cycled(ord, Cycled(ord, p, 1), -1) = p
<1> DEFINE n == Len(ord)
<1>1. n \in Nat /\ DOMAIN ord = 1 .. n
  OBVIOUS
<1>2. PICK i \in 0 .. n : p = At(ord, i)
  <2>1. CASE p = None
    BY <1>1, <2>1 DEF At
  <2>2. CASE p # None
    <3>1. PICK k \in DOMAIN ord : ord[k] = p
      BY <2>2 DEF Range
    <3> QED BY <1>1, <3>1 DEF At
  <2> QED BY <2>1, <2>2
<1> DEFINE j == (i + 1) % (n + 1)
<1>3. Cycled(ord, p, 1) = At(ord, j)
  BY <1>2, CycledAt
<1>4. j \in 0 .. n /\ (j + (-1)) % (n + 1) = i
  <2>1. i \in 0 .. n
    BY <1>2
  <2> QED BY <1>1, <2>1, OnAndBack
<1> HIDE DEF j
<1>5. Cycled(ord, At(ord, j), -1) = At(ord, (j + (-1)) % (n + 1))
  BY <1>4, CycledAt
<1> QED BY <1>2, <1>3, <1>4, <1>5

\* In every reachable state, for any number of connections and after any folds:
\* Tab goes through the system log and all conversations, and Shift-Tab back
\* (app.rs, cycle_active, on the order that order_push and merge_duplicates
\* keep).
THEOREM KeysAlwaysReachEveryone == Spec => []KeysReachEveryone
<1>1. Inv => KeysReachEveryone
  <2> SUFFICES ASSUME Inv PROVE KeysReachEveryone
    OBVIOUS
  <2>1. order \in Seq(PeerId) /\ Range(order) = DOMAIN peers /\ IsInjective(order)
    BY DEF Inv, AppInv, AppTypeOK, RosterConsistent
  <2>2. ASSUME NEW p \in Focusable
        PROVE  /\ Cycled(order, p, 1) \in Focusable
               /\ Cycled(order, Cycled(order, p, 1), -1) = p
    BY <2>1, CycledFocus, TabAndBack DEF Focusable
  <2>3. ASSUME NEW S \in SUBSET DOMAIN peers,
               \A p \in {None} \cup S : Cycled(order, p, 1) \in {None} \cup S
        PROVE  S = DOMAIN peers
    <3> DEFINE F == {None} \cup S
    <3>1. None \in F /\ \A p \in F : Cycled(order, p, 1) \in F
      BY <2>3
    <3> HIDE DEF F
    <3>2. Range(order) \subseteq F
      BY <2>1, <3>1, TabReachesAll
    <3>3. None \notin Range(order)
      BY <2>1 DEF None, PeerId, Range
    <3> QED BY <2>1, <3>2, <3>3 DEF F
  <2> QED BY <2>2, <2>3 DEF KeysReachEveryone
<1> QED BY <1>1, InitInv, NextInv, PTL DEF Spec
=============================================================================
