---------------------------- MODULE RouteProofs ----------------------------
(***************************************************************************)
(* The manager's table against the connection tasks: RoutesMatchTasks is   *)
(* inductive with two facts more.  PeerIds not handed out yet have no task *)
(* (else spawning could revive an ended one), and whoever is in doneRx     *)
(* has ended (else taking a notice could unroute a task that runs).        *)
(*                                                                         *)
(* On top of it, NoCrossTalk: a PeerId names one connection for ever,      *)
(* because the manager spawns under fresh PeerIds only, and a conversation *)
(* that was accepted is named by the first claim made on it, because the   *)
(* event that opens it is sent once and before every other (NameInv).      *)
(***************************************************************************)
EXTENDS Hop6Proofs

FreshIds == \A p \in PeerId : p >= next_id => tasks[p].pc = "none"

DoneEnded == \A p \in Range(doneRx) : tasks[p].pc = "done"

RouteInv == FreshIds /\ DoneEnded /\ RoutesMatchTasks

\* What RouteInv reads of the state.
routeVars == <<serving, routes, next_id, doneRx, hangups>>

\* What is left of a channel after its first element.
LEMMA RangeTail ==
  ASSUME NEW T, NEW s \in Seq(T), s # <<>>
  PROVE  Range(Tail(s)) \subseteq Range(s) /\ Range(s) = {Head(s)} \cup Range(Tail(s))
<1>1. \A i \in 1 .. Len(s) : i # 1 => i - 1 \in DOMAIN Tail(s) /\ Tail(s)[i - 1] = s[i]
  OBVIOUS
<1>2. \A i \in DOMAIN Tail(s) : i + 1 \in DOMAIN s /\ Tail(s)[i] = s[i + 1]
  OBVIOUS
<1>3. Head(s) = s[1] /\ 1 \in DOMAIN s /\ DOMAIN s = 1 .. Len(s)
  OBVIOUS
<1>4. Range(Tail(s)) \subseteq Range(s)
  BY <1>2 DEF Range
<1>5. Range(s) \subseteq {Head(s)} \cup Range(Tail(s))
  BY <1>1, <1>3 DEF Range
<1> QED BY <1>3, <1>4, <1>5 DEF Range

\* What is in a channel after a send.
LEMMA RangeAppend ==
  ASSUME NEW T, NEW s \in Seq(T), NEW x \in T
  PROVE  Range(Append(s, x)) = Range(s) \cup {x}
<1>1. DOMAIN Append(s, x) = 1 .. Len(s) + 1 /\ DOMAIN s = 1 .. Len(s) /\ Len(s) \in Nat
  OBVIOUS
<1>2. \A i \in 1 .. Len(s) : Append(s, x)[i] = s[i]
  OBVIOUS
<1>3. Append(s, x)[Len(s) + 1] = x
  OBVIOUS
<1> QED BY <1>1, <1>2, <1>3 DEF Range

\* A step that moves no task between life and death and leaves the table alone.
LEMMA QuietStep ==
  ASSUME RouteInv, UNCHANGED routeVars,
         \A p \in PeerId :
           \/ tasks'[p].pc = tasks[p].pc
           \/ /\ tasks[p].pc \notin {"none", "done"}
              /\ tasks'[p].pc \notin {"none", "done"},
         Range(doneRx) \subseteq PeerId
  PROVE  RouteInv'
<1>1. FreshIds'
  BY DEF RouteInv, FreshIds, routeVars
<1>2. DoneEnded'
  BY DEF RouteInv, DoneEnded, routeVars
<1>3. RoutesMatchTasks'
  BY DEF RouteInv, RoutesMatchTasks, routeVars
<1> QED BY <1>1, <1>2, <1>3 DEF RouteInv

\* A task is spawned for a PeerId that never had one.
LEMMA SpawnRoute ==
  ASSUME Inv, RouteInv, NEW task \in Task, task.pc \in {"dial", "conn"}, Spawn(task),
         UNCHANGED <<serving, doneRx, hangups>>
  PROVE  RouteInv'
<1>1. /\ tasks \in [PeerId -> Task] /\ next_id \in PeerId /\ next_id \in Nat
      /\ Range(doneRx) \subseteq PeerId
  <2>1. tasks \in [PeerId -> Task] /\ doneRx \in Seq(PeerId)
    BY DEF Inv, NetInv, NetworkTypeOK
  <2>2. Range(doneRx) \subseteq PeerId
    BY <2>1 DEF Range
  <2>3. next_id \in PeerId /\ next_id \in Nat
    BY MessageAssumption DEF Spawn, PeerId
  <2> QED BY <2>1, <2>2, <2>3
<1>2. /\ tasks' = [tasks EXCEPT ![next_id] = task]
      /\ routes' = routes \cup {next_id} /\ next_id' = next_id + 1
  BY DEF Spawn
<1>3. tasks[next_id].pc = "none"
  BY <1>1 DEF RouteInv, FreshIds
<1>4. FreshIds'
  <2> SUFFICES ASSUME NEW p \in PeerId, p >= next_id' PROVE tasks'[p].pc = "none"
    BY DEF FreshIds
  <2>1. p # next_id /\ p >= next_id
    BY <1>1, <1>2 DEF PeerId
  <2> QED BY <1>1, <1>2, <2>1 DEF RouteInv, FreshIds
<1>5. DoneEnded'
  BY <1>1, <1>2, <1>3 DEF RouteInv, DoneEnded
<1>6. RoutesMatchTasks'
  BY <1>1, <1>2, <1>3 DEF RouteInv, RoutesMatchTasks
<1> QED BY <1>4, <1>5, <1>6 DEF RouteInv

\* A task ends and leaves its notice.
LEMMA FinishRoute ==
  ASSUME Inv, RouteInv, NEW p \in PeerId, tasks[p].pc \notin {"none", "done"},
         Finish(p), UNCHANGED <<serving, routes, next_id, hangups>>
  PROVE  RouteInv'
<1>1. tasks \in [PeerId -> Task] /\ doneRx \in Seq(PeerId)
  BY DEF Inv, NetInv, NetworkTypeOK
<1>2. \A q \in PeerId : tasks'[q].pc = IF q = p THEN "done" ELSE tasks[q].pc
  BY <1>1 DEF Finish, Task
<1>3. Range(doneRx') = IF serving THEN Range(doneRx) \cup {p} ELSE Range(doneRx)
  BY <1>1, RangeAppend DEF Finish
<1>4. Range(doneRx) \subseteq PeerId
  BY <1>1 DEF Range
<1>5. FreshIds'
  BY <1>2 DEF RouteInv, FreshIds
<1>6. DoneEnded'
  BY <1>2, <1>3, <1>4 DEF RouteInv, DoneEnded
<1>7. RoutesMatchTasks'
  BY <1>2, <1>3 DEF RouteInv, RoutesMatchTasks
<1> QED BY <1>5, <1>6, <1>7 DEF RouteInv

\* The manager's steps.
LEMMA ManagerRoute == Inv /\ RouteInv /\ ManagerStep => RouteInv'
<1> SUFFICES ASSUME Inv, RouteInv, ManagerStep PROVE RouteInv'
  OBVIOUS
<1>1. /\ tasks \in [PeerId -> Task] /\ doneRx \in Seq(PeerId)
      /\ fromUi \in Seq(UiCommand)
  BY DEF Inv, NetInv, NetworkTypeOK, ChannelTypeOK
<1>2. Range(doneRx) \subseteq PeerId
  BY <1>1 DEF Range
<1>3. CASE ManagerConnect
  <2> DEFINE cmd == Head(fromUi)
             task == NewTask("dial", normalize_onion(cmd.onion), FALSE)
  <2>1. cmd \in UiCommand /\ cmd.type = "Connect"
    BY <1>1, <1>3, HeadTail DEF ManagerConnect, TakeCommand
  <2>2. normalize_onion(cmd.onion) \in Onion
    BY <2>1, CommandFields DEF Address, normalize_onion
  <2>3. task \in Task /\ task.pc = "dial"
    BY <2>2, FreshTask DEF NewTask
  <2>4. Spawn(task) /\ UNCHANGED <<serving, doneRx, hangups>>
    BY <1>3 DEF ManagerConnect
  <2> HIDE DEF task
  <2> QED BY <2>3, <2>4, SpawnRoute
<1>4. CASE ManagerSend
  BY <1>2, <1>4, QuietStep DEF ManagerSend, routeVars
<1>5. CASE ManagerDisconnect
  <2>1. PICK p : /\ IF p \in routes
                      THEN routes' = routes \ {p} /\ hangups' = hangups \cup {p}
                      ELSE UNCHANGED <<routes, hangups>>
                 /\ UNCHANGED <<serving, next_id, doneRx, tasks>>
    BY <1>5 DEF ManagerDisconnect
  <2> QED BY <2>1 DEF RouteInv, FreshIds, DoneEnded, RoutesMatchTasks
<1>6. CASE ManagerShutdown
  <2>1. ~serving' /\ doneRx' = <<>> /\ UNCHANGED <<next_id, tasks>>
    BY <1>6 DEF ManagerShutdown
  <2>2. Range(doneRx') = {}
    BY <2>1 DEF Range
  <2> QED BY <2>1, <2>2 DEF RouteInv, FreshIds, DoneEnded, RoutesMatchTasks
<1>7. CASE ManagerInbound
  <2> DEFINE task == NewTask("conn", NoOnion, TRUE)
  <2>2. task \in Task /\ task.pc = "conn"
    BY FreshTask
  <2>3. Spawn(task) /\ UNCHANGED <<serving, doneRx, hangups>>
    BY <1>7 DEF ManagerInbound
  <2> HIDE DEF task
  <2> QED BY <2>2, <2>3, SpawnRoute
<1>8. CASE ManagerDone
  <2>1. /\ serving /\ doneRx # <<>> /\ doneRx' = Tail(doneRx)
        /\ routes' = routes \ {Head(doneRx)}
        /\ UNCHANGED <<serving, next_id, tasks, hangups>>
    BY <1>8 DEF ManagerDone, channels
  <2>2. /\ Range(doneRx') \subseteq Range(doneRx)
        /\ Range(doneRx) = {Head(doneRx)} \cup Range(doneRx')
    BY <1>1, <2>1, RangeTail
  <2>3. tasks[Head(doneRx)].pc = "done"
    BY <2>2 DEF RouteInv, DoneEnded
  <2> QED BY <2>1, <2>2, <2>3 DEF RouteInv, FreshIds, DoneEnded, RoutesMatchTasks
<1> QED BY <1>3, <1>4, <1>5, <1>6, <1>7, <1>8 DEF ManagerStep, Manager

\* The steps of a connection's task.
LEMMA ConnectionRoute == Inv /\ RouteInv /\ ConnectionStep => RouteInv'
<1> SUFFICES ASSUME Inv, RouteInv, NEW p \in PeerId, Connection(p)
             PROVE  RouteInv'
  BY DEF ConnectionStep
<1>1. /\ tasks \in [PeerId -> Task] /\ tasks[p].pc \in {"dial", "conn", "stuck", "wait"}
      /\ UNCHANGED <<serving, routes, next_id, hangups>>
  BY DEF Inv, NetInv, NetworkTypeOK, TaskFrame, Connection, DialOk, DialFail, ConnRecv,
         ConnWrite, ConnStuck, ConnLocalClosed, ConnLost, Up, WaitDrop, WaitClosed,
         WaitElapsed
<1>2. Range(doneRx) \subseteq PeerId
  BY DEF Inv, NetInv, NetworkTypeOK, Range
<1>3. ASSUME Finish(p) PROVE RouteInv'
  BY <1>1, <1>3, FinishRoute
<1>4. ASSUME NEW pc \in {"dial", "conn", "stuck", "wait"}, UNCHANGED doneRx,
             \A q \in PeerId : tasks'[q].pc = IF q = p THEN pc ELSE tasks[q].pc
      PROVE  RouteInv'
  BY <1>1, <1>2, <1>4, QuietStep DEF routeVars
<1>5. ASSUME wait_or_closed(p) PROVE RouteInv'
  <2>1. CASE ~closed(p)
    <3>1. UNCHANGED doneRx /\ tasks' = [tasks EXCEPT ![p].pc = "wait"]
      BY <1>5, <2>1 DEF wait_or_closed
    <3>2. \A q \in PeerId : tasks'[q].pc = IF q = p THEN "wait" ELSE tasks[q].pc
      BY <1>1, <3>1 DEF Task
    <3> QED BY <1>4, <3>1, <3>2
  <2> QED BY <1>3, <1>5, <2>1 DEF wait_or_closed
<1>6. ASSUME UNCHANGED <<doneRx, tasks>> PROVE RouteInv'
  BY <1>1, <1>2, <1>6, QuietStep DEF routeVars
<1>7. CASE DialOk(p)
  <2>1. UNCHANGED doneRx
    BY <1>7 DEF DialOk
  <2>2. \A q \in PeerId : tasks'[q].pc = IF q = p THEN "conn" ELSE tasks[q].pc
    BY <1>1, <1>7 DEF DialOk, Task
  <2> QED BY <1>4, <2>1, <2>2
<1>8. CASE WaitElapsed(p)
  <2>1. UNCHANGED doneRx
    BY <1>8 DEF WaitElapsed
  <2>2. \A q \in PeerId : tasks'[q].pc = IF q = p THEN "dial" ELSE tasks[q].pc
    BY <1>1, <1>8 DEF WaitElapsed, Task
  <2> QED BY <1>4, <2>1, <2>2
<1>9. CASE DialFail(p) \/ ConnLost(p) \/ ConnLocalClosed(p) \/ WaitClosed(p)
  BY <1>3, <1>5, <1>9 DEF DialFail, ConnLost, ConnLocalClosed, WaitClosed
<1>10. CASE ConnWrite(p) \/ WaitDrop(p)
  BY <1>6, <1>10 DEF ConnWrite, WaitDrop
<1>11. CASE ConnRecv(p)
  <2>1. UNCHANGED doneRx
    BY <1>11 DEF ConnRecv
  <2>2. \A q \in PeerId : tasks'[q].pc = IF q = p THEN tasks[p].pc ELSE tasks[q].pc
    BY <1>1, <1>11 DEF ConnRecv, Task
  <2> QED BY <1>1, <1>4, <2>1, <2>2
<1>12. CASE ConnStuck(p)
  <2>1. UNCHANGED doneRx
    BY <1>12 DEF ConnStuck
  <2>2. \A q \in PeerId : tasks'[q].pc = IF q = p THEN "stuck" ELSE tasks[q].pc
    BY <1>1, <1>12 DEF ConnStuck, Task
  <2> QED BY <1>4, <2>1, <2>2
<1> QED BY <1>7, <1>8, <1>9, <1>10, <1>11, <1>12 DEF Connection

\* The UI loop, the user and the remotes leave the table and the tasks alone.
LEMMA OtherRoute ==
  Inv /\ RouteInv /\ (UiEvent \/ UserConnect \/ UserKey \/ RemoteDials) => RouteInv'
<1> SUFFICES ASSUME Inv, RouteInv, UiEvent \/ UserConnect \/ UserKey \/ RemoteDials
             PROVE  RouteInv'
  OBVIOUS
<1>1. Range(doneRx) \subseteq PeerId
  BY DEF Inv, NetInv, NetworkTypeOK, Range
<1>2. UNCHANGED <<serving, routes, next_id, doneRx, hangups, tasks>>
  BY DEF UiEvent, ApplyNetEvent, PeerConnected, PeerDisconnected, PeerError,
         MessageLogged, MessageDropped, Receive, UserConnect, Connect, UserKey, OnKey,
         SendToActive, Disconnect, Quit, CycleActive, PageUp, PageDown, RemoteDials,
         Accept, channels, netVars
<1> QED BY <1>1, <1>2, QuietStep DEF routeVars

\* The initial state satisfies the invariant.
LEMMA InitRoute == Init => RouteInv
<1> SUFFICES ASSUME Init PROVE RouteInv
  OBVIOUS
<1>1. /\ \A p \in PeerId : tasks[p].pc = "none"
      /\ routes = {} /\ Range(doneRx) = {}
  BY DEF Init, NetworkInit, NewTask, Range
<1> QED BY <1>1 DEF RouteInv, FreshIds, DoneEnded, RoutesMatchTasks

\* Every step of the system preserves the invariant.
LEMMA NextRoute == Inv /\ RouteInv /\ [Next]_vars => RouteInv'
<1> SUFFICES ASSUME Inv, RouteInv, [Next]_vars PROVE RouteInv'
  OBVIOUS
<1>1. CASE Next
  BY <1>1, ManagerRoute, ConnectionRoute, OtherRoute DEF Next
<1>2. CASE UNCHANGED vars
  BY <1>2 DEF vars, channels, netVars, RouteInv, FreshIds, DoneEnded, RoutesMatchTasks
<1> QED BY <1>1, <1>2

\* For any number of connections and any interleaving of dials, accepts, losses,
\* hang-ups and notices of ended tasks: while the manager serves, a task that
\* runs is routed to or was dropped by the user, and a route to a task that
\* ended has its notice on the way (network.rs, the table of run against the
\* tasks it spawns).
THEOREM RoutesAreRight == Spec => []RoutesMatchTasks
<1>1. RouteInv => RoutesMatchTasks
  BY DEF RouteInv
<1> QED BY <1>1, InitInv, NextInv, InitRoute, NextRoute, PTL DEF Spec

-----------------------------------------------------------------------------
(* Conversations and identities.  NoCrossTalk needs that what is in a log  *)
(* or on its way to one is about connections that exist, that a connection *)
(* the user dialed announces the address it dialed, and, for one that was  *)
(* accepted, that the claim the network saw first is the claim the user    *)
(* interface applies first (NameInv).                                      *)

\* Lines that may be in a conversation of PeerId p.
LinesOf(p, ts) ==
  {l \in ChatLine :
     /\ ts[l.peer].pc # "none"
     /\ l.peer = p \/ (ts[p].onion # NoOnion /\ ts[l.peer].onion = ts[p].onion)}

\* The identity onion is the one of p.
NameOf(onion, p, ts) == ts[p].onion # NoOnion /\ normalize_onion(onion) = ts[p].onion

\* A conversation of PeerId p.
EntryOk(e, p, ts) ==
  /\ ts[p].pc # "none"
  /\ e.onion # NoOnion => NameOf(e.onion, p, ts)
  /\ ~ts[p].inbound => e.onion # NoOnion
  /\ e.log \in Seq(LinesOf(p, ts))

TableOk(ps, ts) == \A p \in DOMAIN ps : EntryOk(ps[p], p, ts)

EventOk(ev, ts) ==
  /\ ts[ev.peer].pc # "none"
  /\ ev.type = "PeerConnected" =>
       IF ts[ev.peer].inbound THEN ev.onion = NoOnion
                              ELSE ev.onion # NoOnion /\ NameOf(ev.onion, ev.peer, ts)

TalkInv == TableOk(peers, tasks) /\ \A i \in DOMAIN toUi : EventOk(toUi[i], tasks)

\* The events of queue q that open the conversation of p and that may name it.
Opens(ev, p) == ev.type = "PeerConnected" /\ ev.peer = p
Names(ev, p) == ev.type = "Message" /\ ev.peer = p /\ ev.from_onion # NoOnion

\* A conversation is opened once, before anything else is said of it,
OpensOnce(p, ps, q) ==
  \A i \in DOMAIN q :
    Opens(q[i], p) => p \notin DOMAIN ps /\ \A j \in 1 .. i - 1 : q[j].peer # p

\* it is closed for ever once it was folded away,
FoldedAway(p, ps, q) == p \notin DOMAIN ps /\ \A i \in DOMAIN q : ~Opens(q[i], p)

\* and until it has a name the first claim on its way to it is the first made.
NamedFirst(p, q, ts) ==
  \/ ts[p].onion = NoOnion /\ \A i \in DOMAIN q : ~Names(q[i], p)
  \/ \E i \in DOMAIN q :
       /\ Names(q[i], p)
       /\ NameOf(q[i].from_onion, p, ts)
       /\ \A j \in 1 .. i - 1 : ~Names(q[j], p)

NamingOk(p, ps, q, ts) ==
  /\ OpensOnce(p, ps, q)
  /\ \/ p \in DOMAIN ps /\ ps[p].onion # NoOnion
     \/ FoldedAway(p, ps, q)
     \/ NamedFirst(p, q, ts)

Accepted(p, ts) == ts[p].pc # "none" /\ ts[p].inbound

NameInv ==
  running => \A p \in PeerId : Accepted(p, tasks) => NamingOk(p, peers, toUi, tasks)

\* A task that was spawned stays one, and keeps its identity once it has one.
Kept(ts, us) ==
  \A p \in PeerId :
    ts[p].pc # "none" =>
      /\ us[p].pc # "none"
      /\ us[p].inbound = ts[p].inbound
      /\ ts[p].onion # NoOnion => us[p].onion = ts[p].onion

\* A sequence over a set is one over any larger set.
LEMMA SeqGrows ==
  ASSUME NEW S, NEW T, S \subseteq T, NEW s \in Seq(S)
  PROVE  s \in Seq(T)
<1>1. Len(s) \in Nat /\ s \in [1 .. Len(s) -> S]
  OBVIOUS
<1>2. s \in [1 .. Len(s) -> T]
  BY <1>1
<1> QED BY <1>1, <1>2

\* What was right of a conversation stays right when tasks are spawned and
\* identities become known,
LEMMA EntryKept ==
  ASSUME NEW ts, NEW us, Kept(ts, us), NEW p \in PeerId, NEW e, EntryOk(e, p, ts)
  PROVE  EntryOk(e, p, us)
<1>1. /\ us[p].pc # "none" /\ us[p].inbound = ts[p].inbound
      /\ ts[p].onion # NoOnion => us[p].onion = ts[p].onion
  BY DEF Kept, EntryOk
<1>2. LinesOf(p, ts) \subseteq LinesOf(p, us)
  <2> SUFFICES ASSUME NEW l \in ChatLine, ts[l.peer].pc # "none",
                      l.peer = p \/ (ts[p].onion # NoOnion /\ ts[l.peer].onion = ts[p].onion)
               PROVE  /\ us[l.peer].pc # "none"
                      /\ l.peer = p \/ (us[p].onion # NoOnion /\ us[l.peer].onion = us[p].onion)
    BY DEF LinesOf
  <2>1. l.peer \in PeerId
    BY DEF ChatLine
  <2> QED BY <1>1, <2>1 DEF Kept
<1>3. e.log \in Seq(LinesOf(p, us))
  <2>1. e.log \in Seq(LinesOf(p, ts))
    BY DEF EntryOk
  <2> QED BY <1>2, <2>1, SeqGrows
<1> QED BY <1>1, <1>3 DEF EntryOk, NameOf

\* and so does what was right of an event.
LEMMA EventKept ==
  ASSUME NEW ts, NEW us, Kept(ts, us), NEW ev \in NetEvent, EventOk(ev, ts)
  PROVE  EventOk(ev, us)
<1>1. ev.peer \in PeerId
  BY EventFields
<1> QED BY <1>1 DEF EventOk, Kept, NameOf

\* A step of the network: conversations stay, one event may be sent.
LEMMA NetworkTalk ==
  ASSUME Inv, TalkInv, Kept(tasks, tasks'), peers' = peers,
         NEW ev \in NetEvent, EventOk(ev, tasks'),
         toUi' = toUi \/ toUi' = Append(toUi, ev)
  PROVE  TalkInv'
<1>1. TableOk(peers, tasks')
  <2> SUFFICES ASSUME NEW p \in DOMAIN peers PROVE EntryOk(peers[p], p, tasks')
    BY DEF TableOk
  <2>1. p \in PeerId
    BY DEF Inv, AppInv, AppTypeOK
  <2>2. EntryOk(peers[p], p, tasks)
    BY DEF TalkInv, TableOk
  <2> QED BY <2>1, <2>2, EntryKept
<1>2. \A i \in DOMAIN toUi : EventOk(toUi[i], tasks')
  <2> SUFFICES ASSUME NEW i \in DOMAIN toUi PROVE EventOk(toUi[i], tasks')
    OBVIOUS
  <2>1. toUi[i] \in NetEvent
    BY DEF Inv, ChannelTypeOK
  <2>2. EventOk(toUi[i], tasks)
    BY DEF TalkInv
  <2> QED BY <2>1, <2>2, EventKept
<1>3. \A i \in DOMAIN toUi' : EventOk(toUi'[i], tasks')
  <2>1. CASE toUi' = toUi
    BY <1>2, <2>1
  <2>2. CASE toUi' = Append(toUi, ev)
    <3>1. \A i \in DOMAIN toUi' : toUi'[i] = ev \/ (i \in DOMAIN toUi /\ toUi'[i] = toUi[i])
      BY <2>2 DEF Inv, ChannelTypeOK
    <3> QED BY <1>2, <3>1
  <2> QED BY <2>1, <2>2
<1> QED BY <1>1, <1>3 DEF TalkInv

\* The name of an accepted connection while the network sends an event or
\* learns a claim: the claim it learns is the one it sends.
LEMMA NamingAppended ==
  ASSUME NEW ps, NEW q \in Seq(NetEvent), NEW ts, NEW us, NEW p \in PeerId,
         NamingOk(p, ps, q, ts), ts[p].onion # NoOnion => us[p].onion = ts[p].onion,
         NEW r \in Seq(NetEvent), Len(r) = Len(q) + 1, \A i \in DOMAIN q : r[i] = q[i],
         ~Opens(r[Len(r)], p),
         Names(r[Len(r)], p) /\ ts[p].onion = NoOnion => NameOf(r[Len(r)].from_onion, p, us),
         ~Names(r[Len(r)], p) => us[p].onion = ts[p].onion
  PROVE  NamingOk(p, ps, r, us)
<1>1. /\ Len(q) \in Nat /\ DOMAIN r = 1 .. Len(q) + 1 /\ DOMAIN q = 1 .. Len(q)
      /\ Len(r) \in DOMAIN r
  OBVIOUS
<1>2. \A i \in DOMAIN r : i = Len(r) \/ (i \in DOMAIN q /\ r[i] = q[i])
  BY <1>1
<1>3. OpensOnce(p, ps, r)
  <2> SUFFICES ASSUME NEW i \in DOMAIN r, Opens(r[i], p)
               PROVE  p \notin DOMAIN ps /\ \A j \in 1 .. i - 1 : r[j].peer # p
    BY DEF OpensOnce
  <2>1. i \in DOMAIN q /\ r[i] = q[i]
    BY <1>2
  <2>2. p \notin DOMAIN ps /\ \A j \in 1 .. i - 1 : q[j].peer # p
    BY <2>1 DEF NamingOk, OpensOnce
  <2> QED BY <1>1, <2>1, <2>2
<1>4. CASE p \in DOMAIN ps /\ ps[p].onion # NoOnion
  BY <1>3, <1>4 DEF NamingOk
<1>5. CASE FoldedAway(p, ps, q)
  <2>1. \A i \in DOMAIN r : ~Opens(r[i], p)
    BY <1>2, <1>5 DEF FoldedAway
  <2> QED BY <1>3, <1>5, <2>1 DEF NamingOk, FoldedAway
<1>6. CASE ts[p].onion = NoOnion /\ \A i \in DOMAIN q : ~Names(q[i], p)
  <2>1. CASE Names(r[Len(r)], p)
    <3>1. \A j \in 1 .. Len(r) - 1 : ~Names(r[j], p)
      BY <1>1, <1>6
    <3>2. NamedFirst(p, r, us)
      BY <1>1, <1>6, <2>1, <3>1 DEF NamedFirst
    <3> QED BY <1>3, <3>2 DEF NamingOk
  <2>2. CASE ~Names(r[Len(r)], p)
    <3>1. us[p].onion = NoOnion /\ \A i \in DOMAIN r : ~Names(r[i], p)
      BY <1>2, <1>6, <2>2
    <3> QED BY <1>3, <3>1 DEF NamingOk, NamedFirst
  <2> QED BY <2>1, <2>2
<1>7. ASSUME NEW i \in DOMAIN q, Names(q[i], p), NameOf(q[i].from_onion, p, ts),
             \A j \in 1 .. i - 1 : ~Names(q[j], p)
      PROVE  NamingOk(p, ps, r, us)
  <2>1. /\ i \in DOMAIN r /\ r[i] = q[i]
        /\ \A j \in 1 .. i - 1 : r[j] = q[j]
    BY <1>1
  <2>2. NameOf(q[i].from_onion, p, us)
    BY <1>7 DEF NameOf
  <2>3. NamedFirst(p, r, us)
    BY <1>7, <2>1, <2>2 DEF NamedFirst
  <2> QED BY <1>3, <2>3 DEF NamingOk
<1> QED BY <1>4, <1>5, <1>6, <1>7 DEF NamingOk, NamedFirst

LEMMA NamingSent ==
  ASSUME NEW ps, NEW q \in Seq(NetEvent), NEW ts, NEW us, NEW p \in PeerId,
         NamingOk(p, ps, q, ts), ts[p].onion # NoOnion => us[p].onion = ts[p].onion,
         NEW ev \in NetEvent, ~Opens(ev, p),
         Names(ev, p) /\ ts[p].onion = NoOnion => NameOf(ev.from_onion, p, us),
         ~Names(ev, p) => us[p].onion = ts[p].onion
  PROVE  NamingOk(p, ps, Append(q, ev), us)
<1> DEFINE r == Append(q, ev)
<1>1. /\ r \in Seq(NetEvent) /\ Len(r) = Len(q) + 1
      /\ \A i \in DOMAIN q : r[i] = q[i]
      /\ r[Len(r)] = ev
  OBVIOUS
<1> HIDE DEF r
<1>2. NamingOk(p, ps, r, us)
  BY <1>1, NamingAppended
<1> QED BY <1>2 DEF r

\* Nothing is sent, and no claim is learned.
LEMMA NamingSame ==
  ASSUME NEW ps, NEW q, NEW ts, NEW us, NEW p \in PeerId, NamingOk(p, ps, q, ts),
         us[p].onion = ts[p].onion
  PROVE  NamingOk(p, ps, q, us)
BY DEF NamingOk, NamedFirst, NameOf

\* A connection that has just been accepted: nothing was said of it before.
LEMMA NamingNew ==
  ASSUME NEW ps, NEW q \in Seq(NetEvent), NEW ts, NEW p \in PeerId,
         p \notin DOMAIN ps, \A i \in DOMAIN q : q[i].peer # p, ts[p].onion = NoOnion,
         NEW ev \in NetEvent, ev.type = "PeerConnected"
  PROVE  NamingOk(p, ps, Append(q, ev), ts)
<1> DEFINE r == Append(q, ev)
<1>1. /\ DOMAIN r = 1 .. Len(q) + 1 /\ DOMAIN q = 1 .. Len(q) /\ Len(q) \in Nat
      /\ \A i \in DOMAIN q : r[i] = q[i]
      /\ r[Len(q) + 1] = ev
  OBVIOUS
<1> HIDE DEF r
<1>2. OpensOnce(p, ps, r)
  <2> SUFFICES ASSUME NEW i \in DOMAIN r PROVE \A j \in 1 .. i - 1 : r[j].peer # p
    BY DEF OpensOnce
  <2> QED BY <1>1
<1>3. NamedFirst(p, r, ts)
  <2>1. \A i \in DOMAIN r : ~Names(r[i], p)
    BY <1>1 DEF Names
  <2> QED BY <2>1 DEF NamedFirst
<1>4. NamingOk(p, ps, r, ts)
  BY <1>2, <1>3 DEF NamingOk
<1> QED BY <1>4 DEF r

\* The user interface takes an event: it opens a conversation only by the event
\* that does, and names it by one that names it.
LEMMA NamingTaken ==
  ASSUME NEW ps, NEW us, NEW q \in Seq(NetEvent), q # <<>>, NEW ts, NEW p \in PeerId,
         NamingOk(p, ps, q, ts),
         p \in DOMAIN us => p \in DOMAIN ps \/ Opens(Head(q), p),
         p \in DOMAIN us /\ p \in DOMAIN ps /\ ps[p].onion # NoOnion => us[p].onion # NoOnion,
         p \in DOMAIN us /\ Names(Head(q), p) => us[p].onion # NoOnion
  PROVE  NamingOk(p, us, Tail(q), ts)
<1> DEFINE r == Tail(q)
<1> SUFFICES NamingOk(p, us, r, ts)
  OBVIOUS
<1>1. /\ DOMAIN q = 1 .. Len(q) /\ Len(q) \in Nat /\ 1 \in DOMAIN q /\ Head(q) = q[1]
      /\ DOMAIN r = 1 .. Len(q) - 1
      /\ \A i \in DOMAIN r : i + 1 \in DOMAIN q /\ r[i] = q[i + 1]
  OBVIOUS
<1> HIDE DEF r
<1>2. \A i \in DOMAIN q : i # 1 => i - 1 \in DOMAIN r /\ r[i - 1] = q[i]
  BY <1>1
<1>3. OpensOnce(p, us, r)
  <2> SUFFICES ASSUME NEW i \in DOMAIN r, Opens(r[i], p)
               PROVE  p \notin DOMAIN us /\ \A j \in 1 .. i - 1 : r[j].peer # p
    BY DEF OpensOnce
  <2>1. p \notin DOMAIN ps /\ \A j \in 1 .. (i + 1) - 1 : q[j].peer # p
    BY <1>1 DEF NamingOk, OpensOnce
  <2>2. q[1].peer # p
    BY <1>1, <2>1
  <2>3. p \notin DOMAIN us
    BY <1>1, <2>1, <2>2 DEF Opens
  <2>4. \A j \in 1 .. i - 1 : r[j] = q[j + 1] /\ j + 1 \in 1 .. (i + 1) - 1
    BY <1>1
  <2> QED BY <2>1, <2>3, <2>4
\* It is gone, and stays so: nothing opens it any more.
<1>4. ASSUME p \notin DOMAIN us, \A i \in DOMAIN q : i # 1 => ~Opens(q[i], p)
      PROVE  NamingOk(p, us, r, ts)
  <2>1. \A i \in DOMAIN r : ~Opens(r[i], p)
    BY <1>1, <1>4
  <2> QED BY <1>3, <1>4, <2>1 DEF NamingOk, FoldedAway
<1>5. ASSUME p \in DOMAIN ps \/ q[1].peer = p PROVE \A i \in DOMAIN q : i # 1 => ~Opens(q[i], p)
  <2> SUFFICES ASSUME NEW i \in DOMAIN q, i # 1, Opens(q[i], p) PROVE FALSE
    OBVIOUS
  <2>1. p \notin DOMAIN ps /\ \A j \in 1 .. i - 1 : q[j].peer # p
    BY DEF NamingOk, OpensOnce
  <2>2. 1 \in 1 .. i - 1
    BY <1>1
  <2> QED BY <1>5, <2>1, <2>2
<1>6. CASE p \in DOMAIN ps /\ ps[p].onion # NoOnion
  <2>1. CASE p \in DOMAIN us
    BY <1>3, <1>6, <2>1 DEF NamingOk
  <2>2. CASE p \notin DOMAIN us
    BY <1>4, <1>5, <1>6, <2>2
  <2> QED BY <2>1, <2>2
<1>7. CASE FoldedAway(p, ps, q)
  <2>1. p \notin DOMAIN us
    BY <1>1, <1>7 DEF FoldedAway
  <2> QED BY <1>4, <1>7, <2>1 DEF FoldedAway
<1>8. CASE NamedFirst(p, q, ts)
  <2>1. CASE Names(q[1], p)
    <3>1. q[1].peer = p
      BY <2>1 DEF Names
    <3>2. CASE p \in DOMAIN us
      <4>1. us[p].onion # NoOnion
        BY <1>1, <2>1, <3>2
      <4> QED BY <1>3, <3>2, <4>1 DEF NamingOk
    <3>3. CASE p \notin DOMAIN us
      BY <1>4, <1>5, <3>1, <3>3
    <3> QED BY <3>2, <3>3
  <2>2. CASE ~Names(q[1], p)
    <3>1. CASE ts[p].onion = NoOnion /\ \A i \in DOMAIN q : ~Names(q[i], p)
      <4>1. \A i \in DOMAIN r : ~Names(r[i], p)
        BY <1>1, <3>1
      <4>2. NamedFirst(p, r, ts)
        BY <3>1, <4>1 DEF NamedFirst
      <4> QED BY <1>3, <4>2 DEF NamingOk
    <3>2. ASSUME NEW i \in DOMAIN q, Names(q[i], p), NameOf(q[i].from_onion, p, ts),
                 \A j \in 1 .. i - 1 : ~Names(q[j], p)
          PROVE  NamingOk(p, us, r, ts)
      <4>1. i # 1
        BY <2>2, <3>2
      <4>2. i - 1 \in DOMAIN r /\ r[i - 1] = q[i]
        BY <1>2, <4>1
      <4>3. \A j \in 1 .. (i - 1) - 1 : ~Names(r[j], p)
        <5> SUFFICES ASSUME NEW j \in 1 .. (i - 1) - 1 PROVE ~Names(r[j], p)
          OBVIOUS
        <5>1. r[j] = q[j + 1] /\ j + 1 \in 1 .. i - 1
          BY <1>1, <4>2
        <5> QED BY <3>2, <5>1
      <4>4. NamedFirst(p, r, ts)
        BY <3>2, <4>2, <4>3 DEF NamedFirst
      <4> QED BY <1>3, <4>4 DEF NamingOk
    <3> QED BY <1>8, <3>1, <3>2 DEF NamedFirst
  <2> QED BY <2>1, <2>2
<1> QED BY <1>6, <1>7, <1>8 DEF NamingOk

\* Events that carry no address say nothing of a remote.
LEMMA SilentOk ==
  ASSUME NEW p \in PeerId, NEW type \in {"PeerError", "PeerDisconnected"}, NEW ts,
         ts[p].pc # "none", NEW ev, ev = [type |-> type, peer |-> p]
  PROVE  /\ ev \in NetEvent /\ EventOk(ev, ts)
         /\ \A x : ~Opens(ev, x) /\ ~Names(ev, x)
BY DEF NetEvent, EventOk, Opens, Names

\* Nothing was ever said of a PeerId that was not handed out.
LEMMA NothingSaid ==
  ASSUME Inv, RouteInv, TalkInv, next_id \in PeerId
  PROVE  /\ tasks[next_id].pc = "none" /\ next_id \notin DOMAIN peers
         /\ \A i \in DOMAIN toUi : toUi[i].peer # next_id
<1>1. next_id \in Nat
  BY MessageAssumption DEF PeerId
<1>2. tasks[next_id].pc = "none"
  BY <1>1 DEF RouteInv, FreshIds
<1> QED BY <1>2 DEF TalkInv, TableOk, EntryOk, EventOk

\* The manager spawns only under a PeerId that had no task.
LEMMA ManagerTalk ==
  Inv /\ RouteInv /\ TalkInv /\ NameInv /\ ManagerStep => TalkInv' /\ NameInv'
<1> SUFFICES ASSUME Inv, RouteInv, TalkInv, NameInv, ManagerStep PROVE TalkInv' /\ NameInv'
  OBVIOUS
<1>1. peers' = peers /\ running' = running
  BY DEF ManagerStep, appVars, Manager, ManagerConnect, ManagerSend, ManagerDisconnect,
         ManagerShutdown, ManagerInbound, ManagerDone, TakeCommand, channels
<1>2. /\ tasks \in [PeerId -> Task] /\ fromUi \in Seq(UiCommand)
      /\ toUi \in Seq(NetEvent)
  BY DEF Inv, NetInv, NetworkTypeOK, ChannelTypeOK
<1>3. ASSUME NEW task \in Task, task.pc # "none", Spawn(task)
      PROVE  /\ Kept(tasks, tasks') /\ next_id \in PeerId
             /\ tasks' = [tasks EXCEPT ![next_id] = task]
  <2>1. next_id \in PeerId /\ tasks' = [tasks EXCEPT ![next_id] = task]
    BY <1>3 DEF Spawn
  <2>2. tasks[next_id].pc = "none"
    BY <2>1, NothingSaid
  <2> QED BY <1>2, <2>1, <2>2 DEF Kept
<1>4. ASSUME UNCHANGED tasks PROVE Kept(tasks, tasks')
  BY <1>4 DEF Kept
<1>5. CASE ManagerInbound
  <2> DEFINE task == NewTask("conn", NoOnion, TRUE)
             ev == [type |-> "PeerConnected", peer |-> next_id, onion |-> NoOnion,
                    inbound |-> TRUE]
  <2>1. /\ task \in Task /\ task.pc = "conn" /\ task.onion = NoOnion /\ task.inbound
    BY FreshTask
  <2>2. Spawn(task) /\ Emit(ev)
    BY <1>5 DEF ManagerInbound
  <2> HIDE DEF task
  <2>3. /\ Kept(tasks, tasks') /\ next_id \in PeerId
        /\ tasks' = [tasks EXCEPT ![next_id] = task]
    BY <1>3, <2>1, <2>2
  <2>4. tasks'[next_id] = task /\ \A p \in PeerId : p # next_id => tasks'[p] = tasks[p]
    BY <1>2, <2>3
  <2>5. ev \in NetEvent /\ EventOk(ev, tasks') /\ ev.type = "PeerConnected" /\ ev.peer = next_id
    BY <2>1, <2>3, <2>4 DEF NetEvent, EventOk
  <2> HIDE DEF ev
  <2>6. IF running THEN toUi' = Append(toUi, ev) ELSE toUi' = toUi
    BY <2>2 DEF Emit
  <2>7. TalkInv'
    BY <1>1, <2>3, <2>5, <2>6, NetworkTalk
  <2>8. NameInv'
    <3> SUFFICES ASSUME running, NEW p \in PeerId, Accepted(p, tasks')
                 PROVE  NamingOk(p, peers, Append(toUi, ev), tasks')
      BY <1>1, <2>6 DEF NameInv
    <3>1. CASE p = next_id
      BY <1>2, <2>1, <2>3, <2>4, <2>5, <3>1, NothingSaid, NamingNew
    <3>2. CASE p # next_id
      <4>1. tasks'[p] = tasks[p] /\ NamingOk(p, peers, toUi, tasks)
        BY <2>4, <3>2 DEF NameInv, Accepted
      <4>2. ~Opens(ev, p) /\ ~Names(ev, p)
        BY <2>5, <3>2 DEF Opens, Names
      <4> QED BY <1>2, <2>5, <4>1, <4>2, NamingSent
    <3> QED BY <3>1, <3>2
  <2> QED BY <2>7, <2>8
<1>6. CASE ManagerConnect
  <2> DEFINE cmd == Head(fromUi)
             task == NewTask("dial", normalize_onion(cmd.onion), FALSE)
             ev == [type |-> "PeerError", peer |-> next_id]
  <2>1. cmd \in UiCommand /\ cmd.type = "Connect"
    BY <1>2, <1>6, HeadTail DEF ManagerConnect, TakeCommand
  <2>2. normalize_onion(cmd.onion) \in Onion
    BY <2>1, CommandFields DEF Address, normalize_onion
  <2>3. task \in Task /\ task.pc # "none" /\ ~task.inbound
    BY <2>2, FreshTask
  <2>4. Spawn(task) /\ toUi' = toUi
    BY <1>6 DEF ManagerConnect
  <2> HIDE DEF task
  <2>5. /\ Kept(tasks, tasks') /\ next_id \in PeerId
        /\ tasks' = [tasks EXCEPT ![next_id] = task]
    BY <1>3, <2>3, <2>4
  <2>6. ev \in NetEvent /\ EventOk(ev, tasks')
    <3>1. tasks'[next_id].pc # "none"
      BY <1>2, <2>3, <2>5
    <3> QED BY <2>5, <3>1, SilentOk
  <2> HIDE DEF ev
  <2>7. TalkInv'
    BY <1>1, <2>4, <2>5, <2>6, NetworkTalk
  <2>8. NameInv'
    <3> SUFFICES ASSUME running, NEW p \in PeerId, Accepted(p, tasks')
                 PROVE  NamingOk(p, peers, toUi, tasks')
      BY <1>1, <2>4 DEF NameInv
    <3>1. tasks'[p] = tasks[p]
      BY <1>2, <2>3, <2>5 DEF Accepted
    <3>2. NamingOk(p, peers, toUi, tasks)
      BY <3>1 DEF NameInv, Accepted
    <3> QED BY <3>1, <3>2, NamingSame
  <2> QED BY <2>7, <2>8
<1>7. CASE ManagerDisconnect
  <2> DEFINE p == Head(fromUi).peer
             ev == [type |-> "PeerDisconnected", peer |-> p]
  <2>1. p \in PeerId /\ serving
    BY <1>2, <1>7, HeadTail, CommandFields DEF ManagerDisconnect, TakeCommand
  <2>2. UNCHANGED tasks /\ ((p \in routes /\ Emit(ev)) \/ toUi' = toUi)
    BY <1>7 DEF ManagerDisconnect
  <2>3. CASE toUi' = toUi
    BY <1>1, <2>2, <2>3 DEF TalkInv, NameInv
  <2>4. CASE p \in routes /\ Emit(ev)
    <3>1. tasks[p].pc # "none"
      BY <2>1, <2>4 DEF RouteInv, RoutesMatchTasks, DoneEnded
    <3>2. ev \in NetEvent /\ EventOk(ev, tasks) /\ \A x : ~Opens(ev, x) /\ ~Names(ev, x)
      BY <2>1, <3>1, SilentOk
    <3> HIDE DEF ev
    <3>3. IF running THEN toUi' = Append(toUi, ev) ELSE toUi' = toUi
      BY <2>4 DEF Emit
    <3>4. TalkInv'
      BY <1>1, <1>4, <2>2, <3>2, <3>3, NetworkTalk
    <3>5. NameInv'
      <4> SUFFICES ASSUME running, NEW x \in PeerId, Accepted(x, tasks)
                   PROVE  NamingOk(x, peers, Append(toUi, ev), tasks)
        BY <1>1, <2>2, <3>3 DEF NameInv
      <4>1. NamingOk(x, peers, toUi, tasks)
        BY DEF NameInv
      <4> QED BY <1>2, <3>2, <4>1, NamingSent
    <3> QED BY <3>4, <3>5
  <2> QED BY <2>2, <2>3, <2>4
<1>8. CASE ManagerSend \/ ManagerShutdown \/ ManagerDone
  <2>1. UNCHANGED <<toUi, tasks>>
    BY <1>8 DEF ManagerSend, ManagerShutdown, ManagerDone, channels
  <2> QED BY <1>1, <2>1 DEF TalkInv, NameInv
<1> QED BY <1>5, <1>6, <1>7, <1>8 DEF ManagerStep, Manager

\* What a task's own step does to the tasks: it stays the connection it is, and
\* learns an identity only if it has none, from a claim.
LEMMA ConnectionKeeps ==
  ASSUME Inv, NEW p \in PeerId, Connection(p)
  PROVE  /\ Kept(tasks, tasks')
         /\ \A q \in PeerId : q # p => tasks'[q] = tasks[q]
         /\ ConnRecv(p) \/ tasks'[p].onion = tasks[p].onion
<1> DEFINE Goal == /\ Kept(tasks, tasks')
                   /\ \A q \in PeerId : q # p => tasks'[q] = tasks[q]
                   /\ ConnRecv(p) \/ tasks'[p].onion = tasks[p].onion
<1>1. tasks \in [PeerId -> Task]
  BY DEF Inv, NetInv, NetworkTypeOK
<1>2. CASE UNCHANGED tasks
  BY <1>2 DEF Kept
<1>3. CASE \E pc \in {"stuck", "wait", "done"} : tasks' = [tasks EXCEPT ![p].pc = pc]
  <2>1. PICK pc \in {"stuck", "wait", "done"} : tasks' = [tasks EXCEPT ![p].pc = pc]
    BY <1>3
  <2> QED BY <1>1, <2>1 DEF Kept, Task
<1>4. CASE DialOk(p)
  BY <1>1, <1>4 DEF DialOk, Kept, Task
<1>5. CASE WaitElapsed(p)
  BY <1>1, <1>5 DEF WaitElapsed, Kept, Task
<1>6. CASE ConnRecv(p)
  <2>1. PICK onion : \/ tasks' = tasks
                     \/ tasks[p].onion = NoOnion /\ tasks' = [tasks EXCEPT ![p].onion = onion]
    BY <1>6 DEF ConnRecv
  <2> QED BY <1>1, <1>6, <2>1 DEF Kept, Task
<1> HIDE DEF Goal
<1> QED
  BY <1>2, <1>3, <1>4, <1>5, <1>6 DEF Goal, Connection, DialFail, ConnWrite, ConnStuck,
     ConnLost, ConnLocalClosed, WaitDrop, WaitClosed, wait_or_closed, Finish

\* A task announces the address it dialed; one that was accepted remembers the
\* first claim that it hands on.
LEMMA ConnectionTalk ==
  Inv /\ TalkInv /\ NameInv /\ ConnectionStep => TalkInv' /\ NameInv'
<1> SUFFICES ASSUME Inv, TalkInv, NameInv, NEW p \in PeerId, Connection(p), UNCHANGED appVars
             PROVE  TalkInv' /\ NameInv'
  BY DEF ConnectionStep
<1>1. /\ peers' = peers /\ running' = running
      /\ tasks \in [PeerId -> Task] /\ tasks[p].pc # "none"
      /\ toUi \in Seq(NetEvent) /\ received[p] + 1 \in Nat
  BY DEF appVars, Inv, NetInv, NetworkTypeOK, ChannelTypeOK, Connection, DialOk, DialFail,
         ConnRecv, ConnWrite, ConnStuck, ConnLocalClosed, ConnLost, Up, WaitDrop,
         WaitClosed, WaitElapsed, TaskFrame
<1>2. /\ Kept(tasks, tasks')
      /\ \A q \in PeerId : q # p => tasks'[q] = tasks[q]
      /\ ConnRecv(p) \/ tasks'[p].onion = tasks[p].onion
      /\ tasks'[p].pc # "none" /\ tasks'[p].inbound = tasks[p].inbound
  BY <1>1, ConnectionKeeps DEF Kept
<1>3. \A q \in PeerId : Accepted(q, tasks') => Accepted(q, tasks)
  BY <1>1, <1>2 DEF Accepted
\* A step that sends nothing.
<1>4. ASSUME toUi' = toUi, tasks'[p].onion = tasks[p].onion PROVE TalkInv' /\ NameInv'
  <2> DEFINE lost == [type |-> "PeerError", peer |-> p]
  <2>1. lost \in NetEvent /\ EventOk(lost, tasks')
    BY <1>2, SilentOk
  <2> HIDE DEF lost
  <2>2. TalkInv'
    BY <1>1, <1>2, <1>4, <2>1, NetworkTalk
  <2>3. NameInv'
    <3> SUFFICES ASSUME running, NEW q \in PeerId, Accepted(q, tasks')
                 PROVE  NamingOk(q, peers, toUi, tasks')
      BY <1>1, <1>4 DEF NameInv
    <3>1. NamingOk(q, peers, toUi, tasks) /\ tasks'[q].onion = tasks[q].onion
      BY <1>2, <1>3, <1>4 DEF NameInv
    <3> QED BY <3>1, NamingSame
  <2> QED BY <2>2, <2>3
\* A step that sends an event about p.
<1>5. ASSUME NEW ev \in NetEvent, EventOk(ev, tasks'), Emit(ev), ev.peer = p,
             Accepted(p, tasks) => /\ ~Opens(ev, p)
                                   /\ Names(ev, p) /\ tasks[p].onion = NoOnion
                                        => NameOf(ev.from_onion, p, tasks')
                                   /\ ~Names(ev, p) => tasks'[p].onion = tasks[p].onion
      PROVE  TalkInv' /\ NameInv'
  <2>1. IF running THEN toUi' = Append(toUi, ev) ELSE toUi' = toUi
    BY <1>5 DEF Emit
  <2>2. TalkInv'
    BY <1>1, <1>2, <1>5, <2>1, NetworkTalk
  <2>3. NameInv'
    <3> SUFFICES ASSUME running, NEW q \in PeerId, Accepted(q, tasks')
                 PROVE  NamingOk(q, peers, Append(toUi, ev), tasks')
      BY <1>1, <2>1 DEF NameInv
    <3>1. NamingOk(q, peers, toUi, tasks) /\ Accepted(q, tasks)
      BY <1>3 DEF NameInv
    <3>2. CASE q = p
      <4>1. tasks[p].onion # NoOnion => tasks'[p].onion = tasks[p].onion
        BY <1>1, <1>2 DEF Kept
      <4> QED BY <1>1, <1>5, <3>1, <3>2, <4>1, NamingSent
    <3>3. CASE q # p
      <4>1. ~Opens(ev, q) /\ ~Names(ev, q) /\ tasks'[q].onion = tasks[q].onion
        BY <1>2, <1>5, <3>3 DEF Opens, Names
      <4> QED BY <1>1, <1>5, <3>1, <4>1, NamingSent
    <3> QED BY <3>2, <3>3
  <2> QED BY <2>2, <2>3
<1>6. CASE DialOk(p)
  <2> DEFINE ev == [type |-> "PeerConnected", peer |-> p,
                    onion |-> WithSuffix(tasks[p].onion), inbound |-> FALSE]
  <2>1. /\ ~tasks[p].inbound /\ tasks[p].onion \in Onion
    BY <1>1, <1>6 DEF DialOk, Inv, NetInv, OnionKnown, TaskOK
  <2>2. WithSuffix(tasks[p].onion) \in Address
    BY <2>1 DEF WithSuffix, Address
  <2>3. tasks'[p].onion = tasks[p].onion
    BY <1>1, <1>6 DEF DialOk, Task
  <2>4. ev \in NetEvent
    BY <2>2 DEF NetEvent
  <2>5. EventOk(ev, tasks')
    <3>1. ev.onion # NoOnion
      BY <2>2, MessageAssumption
    <3>2. NameOf(ev.onion, p, tasks')
      BY <2>1, <2>3, MessageAssumption DEF NameOf, WithSuffix, normalize_onion
    <3> QED BY <1>2, <2>1, <3>1, <3>2 DEF EventOk
  <2>6. ev.peer = p /\ Emit(ev) /\ ~Accepted(p, tasks)
    BY <1>6, <2>1 DEF DialOk, Accepted
  <2> HIDE DEF ev
  <2> QED BY <1>5, <2>4, <2>5, <2>6
<1>7. CASE ConnRecv(p)
  <2>1. PICK claim \in Claim :
          /\ Emit([type |-> "Message", peer |-> p, from_onion |-> claim,
                   body |-> received[p] + 1])
          /\ tasks' = IF tasks[p].onion = NoOnion /\ claim # NoOnion
                        THEN [tasks EXCEPT ![p].onion = normalize_onion(claim)]
                        ELSE tasks
    BY <1>7 DEF ConnRecv
  <2> DEFINE ev == [type |-> "Message", peer |-> p, from_onion |-> claim,
                    body |-> received[p] + 1]
  <2>2. claim \in Address \cup {NoOnion}
    BY NetworkAssumption
  <2>3. ev \in NetEvent /\ EventOk(ev, tasks') /\ ev.peer = p /\ ~Opens(ev, p)
    BY <1>1, <1>2, <2>2 DEF NetEvent, EventOk, Opens
  <2>4. Names(ev, p) <=> claim # NoOnion
    BY DEF Names
  <2>5. claim # NoOnion /\ tasks[p].onion = NoOnion => NameOf(claim, p, tasks')
    <3> SUFFICES ASSUME claim # NoOnion, tasks[p].onion = NoOnion PROVE NameOf(claim, p, tasks')
      OBVIOUS
    <3>1. normalize_onion(claim) \in Onion
      BY <2>2 DEF normalize_onion, Address
    <3>2. tasks'[p].onion = normalize_onion(claim)
      BY <1>1, <2>1 DEF Task
    <3> QED BY <3>1, <3>2, MessageAssumption DEF NameOf
  <2>6. claim = NoOnion => tasks'[p].onion = tasks[p].onion
    BY <2>1
  <2>7. Emit(ev) /\ ev.from_onion = claim
    BY <2>1
  <2> HIDE DEF ev
  <2> QED BY <1>5, <2>3, <2>4, <2>5, <2>6, <2>7
<1>8. CASE DialFail(p) \/ ConnLost(p)
  <2> DEFINE lost == [type |-> "PeerError", peer |-> p]
  <2>1. /\ lost \in NetEvent /\ EventOk(lost, tasks') /\ lost.peer = p
        /\ ~Opens(lost, p) /\ ~Names(lost, p)
    BY <1>2, SilentOk
  <2>2. Emit(lost)
    BY <1>8 DEF DialFail, ConnLost
  <2>3. tasks'[p].onion = tasks[p].onion
    BY <1>1, <1>8 DEF DialFail, ConnLost, Finish, wait_or_closed, Task
  <2> HIDE DEF lost
  <2> QED BY <1>5, <2>1, <2>2, <2>3
<1>9. CASE \/ ConnWrite(p) \/ ConnStuck(p) \/ ConnLocalClosed(p)
           \/ WaitDrop(p) \/ WaitClosed(p) \/ WaitElapsed(p)
  <2>1. toUi' = toUi
    BY <1>9 DEF ConnWrite, ConnStuck, ConnLocalClosed, WaitDrop, WaitClosed, WaitElapsed
  <2>2. tasks'[p].onion = tasks[p].onion
    BY <1>1, <1>9 DEF ConnWrite, ConnStuck, ConnLocalClosed, WaitDrop, WaitClosed,
       WaitElapsed, Finish, Task
  <2> QED BY <1>4, <2>1, <2>2
<1> QED BY <1>6, <1>7, <1>8, <1>9 DEF Connection

\* The focus stays, or moves from a conversation that is folded away to one with
\* the same identity.
FocusFollows(act) ==
  active' # act =>
    act \notin DOMAIN peers' /\ active' \in DOMAIN peers' /\ SameIdentity(active', act)

\* Folding joins only conversations with one identity, and names none.
LEMMA MergeTalk ==
  ASSUME NEW ps, NEW ord \in Seq(PeerId), NEW act, NEW live \in DOMAIN ps,
         ps \in [DOMAIN ps -> Peer], TableOk(ps, tasks),
         merge_duplicates(ps, ord, act, live)
  PROVE  /\ TableOk(peers', tasks) /\ FocusFollows(act)
         /\ DOMAIN peers' \subseteq DOMAIN ps
         /\ \A p \in DOMAIN peers' : peers'[p].onion = ps[p].onion
<1> DEFINE stale == Stale(ps, ord, live)
           history == History(ps, ord, stale)
           merged == [ps[live] EXCEPT !.log = history \o @]
           T == LinesOf(live, tasks)
<1>1. stale \subseteq DOMAIN ps /\ live \notin stale
  BY DEF Stale
<1>2. /\ peers' = [p \in DOMAIN ps \ stale |-> IF p = live THEN merged ELSE ps[p]]
      /\ active' = IF act \in stale THEN live ELSE act
  BY DEF merge_duplicates
<1>3. \A p \in DOMAIN ps : EntryOk(ps[p], p, tasks)
  BY DEF TableOk
<1>4. ASSUME NEW q \in stale
      PROVE  tasks[live].onion # NoOnion /\ tasks[q].onion = tasks[live].onion
  <2>1. /\ ps[q].onion # NoOnion /\ ps[live].onion # NoOnion
        /\ normalize_onion(ps[q].onion) = normalize_onion(ps[live].onion)
    BY DEF Stale
  <2>2. NameOf(ps[q].onion, q, tasks) /\ NameOf(ps[live].onion, live, tasks)
    BY <1>1, <1>3, <2>1 DEF EntryOk
  <2> QED BY <2>1, <2>2 DEF NameOf
<1>5. ASSUME NEW q \in stale PROVE ps[q].log \in Seq(T)
  <2>1. ps[q].log \in Seq(LinesOf(q, tasks))
    BY <1>1, <1>3, <1>5 DEF EntryOk
  <2>2. LinesOf(q, tasks) \subseteq T
    BY <1>4, <1>5 DEF LinesOf
  <2> QED BY <2>1, <2>2, SeqGrows
<1>6. history \in Seq(T)
  <2> HIDE DEF stale, T
  <2> QED BY <1>5, HistoryType
<1>7. ps[live].log \in Seq(T) /\ ps[live] \in Peer
  BY <1>3 DEF EntryOk
<1>8. EntryOk(merged, live, tasks) /\ merged.onion = ps[live].onion
  <2>1. history \o ps[live].log \in Seq(T)
    <3> HIDE DEF history, T
    <3> QED BY <1>6, <1>7
  <2>2. merged.log = history \o ps[live].log /\ merged.onion = ps[live].onion
    <3> HIDE DEF history
    <3> QED BY <1>7 DEF Peer
  <2> HIDE DEF merged, history
  <2> QED BY <1>3, <2>1, <2>2 DEF EntryOk
<1> HIDE DEF stale, merged
<1>9. FocusFollows(act)
  BY <1>1, <1>2, <1>4 DEF FocusFollows, SameIdentity
<1>10. TableOk(peers', tasks)
  BY <1>2, <1>3, <1>8 DEF TableOk
<1> QED BY <1>2, <1>8, <1>9, <1>10

\* Logging a line of its own connection in a conversation that has its name.
LEMMA LogTalk ==
  ASSUME NEW ps, NEW p \in DOMAIN ps, ps \in [DOMAIN ps -> Peer], TableOk(ps, tasks),
         NEW line \in LinesOf(p, tasks), NEW onion,
         onion = ps[p].onion \/ (onion # NoOnion /\ NameOf(onion, p, tasks)),
         NEW qs, qs = [ps EXCEPT ![p].onion = onion, ![p].log = Append(@, line)]
  PROVE  TableOk(qs, tasks)
<1> DEFINE new == [ps[p] EXCEPT !.onion = onion, !.log = Append(@, line)]
           T == LinesOf(p, tasks)
<1>1. ps[p] \in Peer /\ EntryOk(ps[p], p, tasks) /\ ps[p].log \in Seq(T)
  BY DEF TableOk, EntryOk
<1>2. qs = [ps EXCEPT ![p] = new]
  BY <1>1 DEF Peer
<1>3. new.onion = onion /\ new.log = Append(ps[p].log, line)
  BY <1>1 DEF Peer
<1>4. Append(ps[p].log, line) \in Seq(T)
  <2> HIDE DEF T
  <2>1. line \in T
    BY DEF T
  <2> QED BY <1>1, <2>1, AppendType
<1> HIDE DEF new
<1>5. EntryOk(new, p, tasks)
  BY <1>1, <1>3, <1>4 DEF EntryOk
<1> QED BY <1>2, <1>5 DEF TableOk

\* What an event does to the domain and the names of the table.
NamesKept(ev) ==
  \A p \in DOMAIN peers' :
    /\ p \in DOMAIN peers \/ Opens(ev, p)
    /\ p \in DOMAIN peers /\ peers[p].onion # NoOnion => peers'[p].onion # NoOnion
    /\ Names(ev, p) => peers'[p].onion # NoOnion

\* Applying an event: the line it brings is of its own connection, and so is the
\* name, if the conversation had none.
LEMMA UiTable ==
  Inv /\ TalkInv /\ NameInv /\ UiEvent =>
    /\ TableOk(peers', tasks) /\ NamesKept(Head(toUi))
    /\ active = None \/ FocusFollows(active)
<1> DEFINE ev == Head(toUi)
           Goal == /\ TableOk(peers', tasks) /\ NamesKept(ev)
                   /\ active = None \/ FocusFollows(active)
<1> SUFFICES ASSUME Inv, TalkInv, NameInv, UiEvent PROVE Goal
  OBVIOUS
<1>1. /\ toUi # <<>> /\ toUi' = Tail(toUi) /\ tasks' = tasks /\ running
      /\ toUi \in Seq(NetEvent)
  BY DEF UiEvent, netVars, ApplyNetEvent, PeerConnected, PeerDisconnected, PeerError,
         MessageLogged, MessageDropped, Receive, Inv, ChannelTypeOK
<1>2. ev \in NetEvent /\ EventOk(ev, tasks) /\ ev = toUi[1] /\ 1 \in DOMAIN toUi
  <2>1. ev = toUi[1] /\ 1 \in DOMAIN toUi
    BY <1>1
  <2> QED BY <1>1, <2>1 DEF TalkInv
<1> HIDE DEF Goal
<1>3. /\ peers \in [DOMAIN peers -> Peer] /\ order \in Seq(PeerId)
      /\ TableOk(peers, tasks) /\ ev.peer \in PeerId /\ logged \in Nat
      /\ tasks[ev.peer].pc # "none"
  BY <1>2, EventFields DEF Inv, AppInv, AppTypeOK, TalkInv, EventOk
<1>4. CASE PeerConnected
  <2> DEFINE old == IF ev.peer \in DOMAIN peers
                      THEN peers[ev.peer]
                      ELSE [onion |-> NoOnion, inbound |-> ev.inbound,
                            connected |-> FALSE, log |-> <<>>]
             entry == [old EXCEPT !.connected = TRUE, !.inbound = ev.inbound,
                         !.onion = IF ev.onion # NoOnion THEN ev.onion ELSE @]
             ps == Put(peers, ev.peer, entry)
             ord == IF ev.peer \in DOMAIN peers THEN order ELSE order_push(order, ev.peer)
             act == IF active = None THEN ev.peer ELSE active
  <2>1. merge_duplicates(ps, ord, act, ev.peer) /\ ev.type = "PeerConnected"
    BY <1>4 DEF PeerConnected, Receive
  <2>2. /\ ev.onion \in Address \cup {NoOnion} /\ ev.inbound \in BOOLEAN
        /\ ev.onion # NoOnion => NameOf(ev.onion, ev.peer, tasks)
        /\ ~tasks[ev.peer].inbound => ev.onion # NoOnion
    BY <1>2, <2>1, EventFields DEF EventOk
  <2>3. CASE ev.peer \in DOMAIN peers
    <3>1. old = peers[ev.peer] /\ old \in Peer /\ EntryOk(old, ev.peer, tasks)
      BY <1>3, <2>3 DEF TableOk
    <3> QED
      <4>1. /\ entry \in Peer /\ entry.log = old.log
            /\ entry.onion = IF ev.onion # NoOnion THEN ev.onion ELSE old.onion
        <5> HIDE DEF old
        <5> QED BY <2>2, <3>1 DEF Peer
      <4> HIDE DEF entry, old
      <4>2. EntryOk(entry, ev.peer, tasks)
        BY <2>2, <3>1, <4>1 DEF EntryOk
      <4>3. /\ DOMAIN ps = DOMAIN peers /\ ps \in [DOMAIN ps -> Peer]
            /\ TableOk(ps, tasks)
            /\ \A p \in DOMAIN ps : ps[p].onion = IF p = ev.peer THEN entry.onion ELSE peers[p].onion
        BY <1>3, <2>3, <4>1, <4>2 DEF Put, TableOk
      <4>4. ord \in Seq(PeerId) /\ (act = active \/ active = None)
        BY <1>3 DEF order_push
      <4> HIDE DEF ps, ord, act
      <4>5. /\ TableOk(peers', tasks) /\ FocusFollows(act)
            /\ DOMAIN peers' \subseteq DOMAIN ps
            /\ \A p \in DOMAIN peers' : peers'[p].onion = ps[p].onion
        BY <2>1, <2>3, <4>3, <4>4, MergeTalk
      <4>6. NamesKept(ev)
        BY <2>1, <3>1, <4>1, <4>3, <4>5 DEF NamesKept, Names
      <4> QED BY <4>4, <4>5, <4>6 DEF Goal
  <2>4. CASE ev.peer \notin DOMAIN peers
    <3>1. old.onion = NoOnion /\ old.log = <<>> /\ old \in Peer
      <4>1. <<>> \in Seq(ChatLine)
        OBVIOUS
      <4> QED BY <2>2, <2>4, <4>1 DEF Peer
    <3>2. /\ entry \in Peer /\ entry.log = <<>>
          /\ entry.onion = IF ev.onion # NoOnion THEN ev.onion ELSE NoOnion
      <4> HIDE DEF old
      <4> QED BY <2>2, <3>1 DEF Peer
    <3> HIDE DEF entry, old
    <3>3. EntryOk(entry, ev.peer, tasks)
      <4>1. \A T : <<>> \in Seq(T)
        OBVIOUS
      <4> QED BY <1>3, <2>2, <3>2, <4>1 DEF EntryOk
    <3>4. /\ DOMAIN ps = DOMAIN peers \cup {ev.peer} /\ ps \in [DOMAIN ps -> Peer]
          /\ TableOk(ps, tasks)
          /\ \A p \in DOMAIN ps : ps[p].onion = IF p = ev.peer THEN entry.onion ELSE peers[p].onion
      BY <1>3, <3>2, <3>3 DEF Put, TableOk
    <3>5. ord \in Seq(PeerId) /\ (act = active \/ active = None)
      BY <1>3 DEF order_push
    <3> HIDE DEF ps, ord, act
    <3>6. /\ TableOk(peers', tasks) /\ FocusFollows(act)
          /\ DOMAIN peers' \subseteq DOMAIN ps
          /\ \A p \in DOMAIN peers' : peers'[p].onion = ps[p].onion
      BY <2>1, <3>4, <3>5, MergeTalk
    <3>7. NamesKept(ev)
      BY <2>1, <2>4, <3>4, <3>6 DEF NamesKept, Names, Opens
    <3> QED BY <3>5, <3>6, <3>7 DEF Goal
  <2> QED BY <2>3, <2>4
<1>5. CASE PeerDisconnected \/ PeerError
  <2>1. PICK p \in PeerId : GoOffline(p)
    BY <1>3, <1>5 DEF PeerDisconnected, PeerError
  <2>2. ev.type # "Message"
    BY <1>5 DEF PeerDisconnected, PeerError, Receive
  <2>3. /\ DOMAIN peers' = DOMAIN peers
        /\ \A q \in DOMAIN peers :
             peers'[q].onion = peers[q].onion /\ peers'[q].log = peers[q].log
        /\ active' = active
    BY <1>3, <2>1 DEF GoOffline, Peer
  <2>4. NamesKept(ev)
    BY <2>2, <2>3 DEF NamesKept, Names
  <2>5. TableOk(peers', tasks) /\ FocusFollows(active)
    BY <1>3, <2>3 DEF TableOk, EntryOk, FocusFollows
  <2> QED BY <2>4, <2>5 DEF Goal
<1>6. CASE MessageLogged
  <2> DEFINE learned == peers[ev.peer].onion = NoOnion /\ ev.from_onion # NoOnion
             line == Line(FALSE, ev.peer, ev.body)
             onion == IF learned THEN ev.from_onion ELSE peers[ev.peer].onion
             updated == [peers EXCEPT
                          ![ev.peer].onion = IF learned THEN ev.from_onion ELSE @,
                          ![ev.peer].log = Append(@, Line(FALSE, ev.peer, ev.body))]
  <2>1. /\ ev.peer \in DOMAIN peers /\ ev.type = "Message"
        /\ IF learned
             THEN merge_duplicates(updated, order, active, ev.peer)
             ELSE peers' = updated /\ active' = active
    BY <1>6 DEF MessageLogged, Receive
  <2>2. ev.body \in Nat /\ ev.from_onion \in Address \cup {NoOnion}
    BY <1>2, <2>1, EventFields
  <2>3. line \in ChatLine /\ line.peer = ev.peer
    BY <1>3, <2>2 DEF Line, ChatLine
  <2>4. line \in LinesOf(ev.peer, tasks)
    <3> HIDE DEF line
    <3> QED BY <1>3, <2>3 DEF LinesOf
  <2>5. peers[ev.peer] \in Peer /\ EntryOk(peers[ev.peer], ev.peer, tasks)
    BY <1>3, <2>1 DEF TableOk
\* The first claim made on a connection is the one that names it.
  <2>6. learned => NameOf(ev.from_onion, ev.peer, tasks)
    <3> SUFFICES ASSUME learned PROVE NameOf(ev.from_onion, ev.peer, tasks)
      OBVIOUS
    <3>1. Accepted(ev.peer, tasks) /\ Names(ev, ev.peer)
      BY <1>3, <2>1, <2>5 DEF EntryOk, Accepted, Names
    <3>2. NamingOk(ev.peer, peers, toUi, tasks)
      BY <1>1, <1>3, <3>1 DEF NameInv
    <3>3. NamedFirst(ev.peer, toUi, tasks)
      BY <2>1, <3>2 DEF NamingOk, FoldedAway
    <3>4. PICK i \in DOMAIN toUi :
            /\ NameOf(toUi[i].from_onion, ev.peer, tasks)
            /\ \A j \in 1 .. i - 1 : ~Names(toUi[j], ev.peer)
      BY <1>2, <3>1, <3>3 DEF NamedFirst
    <3>5. i = 1
      <4>1. i \in Nat /\ i >= 1
        BY <1>1
      <4>2. i # 1 => 1 \in 1 .. i - 1
        BY <4>1
      <4> QED BY <1>2, <3>1, <3>4, <4>2
    <3> QED BY <1>2, <3>4, <3>5
  <2>7. /\ onion \in Address \cup {NoOnion}
        /\ onion = peers[ev.peer].onion \/ (onion # NoOnion /\ NameOf(onion, ev.peer, tasks))
    BY <2>2, <2>5, <2>6 DEF Peer
  <2>8. updated = [peers EXCEPT ![ev.peer].onion = onion, ![ev.peer].log = Append(@, line)]
    BY <2>5 DEF Peer
  <2>9. DOMAIN updated = DOMAIN peers
    OBVIOUS
  <2>10. /\ updated \in [DOMAIN updated -> Peer]
         /\ \A p \in DOMAIN peers :
              updated[p].onion = IF p = ev.peer THEN onion ELSE peers[p].onion
    <3> DEFINE new == [peers[ev.peer] EXCEPT !.onion = onion, !.log = Append(@, line)]
    <3> HIDE DEF line, onion
    <3>1. Append(peers[ev.peer].log, line) \in Seq(ChatLine)
      <4>1. peers[ev.peer].log \in Seq(ChatLine)
        BY <2>5 DEF Peer
      <4> QED BY <2>3, <4>1, AppendType
    <3>2. new \in Peer /\ new.onion = onion
      BY <2>5, <2>7, <3>1 DEF Peer
    <3>3. updated = [peers EXCEPT ![ev.peer] = new]
      BY <2>5, <2>8 DEF Peer
    <3> HIDE DEF new, updated
    <3> QED BY <1>3, <2>9, <3>2, <3>3
  <2>11. onion = IF peers[ev.peer].onion = NoOnion THEN ev.from_onion ELSE peers[ev.peer].onion
    OBVIOUS
  <2> HIDE DEF updated, line, onion
  <2>12. TableOk(updated, tasks)
    BY <1>3, <2>1, <2>4, <2>7, <2>8, LogTalk
  <2>13. /\ TableOk(peers', tasks) /\ FocusFollows(active)
         /\ DOMAIN peers' \subseteq DOMAIN peers
         /\ \A p \in DOMAIN peers' : peers'[p].onion = updated[p].onion
    BY <1>3, <2>1, <2>9, <2>10, <2>12, MergeTalk DEF FocusFollows
  <2>14. NamesKept(ev)
    BY <2>10, <2>11, <2>13 DEF NamesKept, Names
  <2> QED BY <2>13, <2>14 DEF Goal
<1>7. CASE MessageDropped
  <2>1. UNCHANGED <<peers, active>> /\ ev.peer \notin DOMAIN peers
    BY <1>7 DEF MessageDropped, appVars
  <2>2. NamesKept(ev)
    BY <2>1 DEF NamesKept, Names
  <2> QED BY <1>3, <2>1, <2>2 DEF FocusFollows, Goal
<1> QED BY <1>4, <1>5, <1>6, <1>7 DEF UiEvent, ApplyNetEvent

LEMMA UiTalk == Inv /\ TalkInv /\ NameInv /\ UiEvent => TalkInv' /\ NameInv'
<1> SUFFICES ASSUME Inv, TalkInv, NameInv, UiEvent PROVE TalkInv' /\ NameInv'
  OBVIOUS
<1>1. /\ toUi # <<>> /\ toUi' = Tail(toUi) /\ tasks' = tasks /\ running
      /\ toUi \in Seq(NetEvent)
  BY DEF UiEvent, netVars, ApplyNetEvent, PeerConnected, PeerDisconnected, PeerError,
         MessageLogged, MessageDropped, Receive, Inv, ChannelTypeOK
<1>2. TableOk(peers', tasks) /\ NamesKept(Head(toUi))
  BY UiTable
<1>3. \A i \in DOMAIN toUi' : EventOk(toUi'[i], tasks')
  <2>1. \A i \in DOMAIN toUi' : i + 1 \in DOMAIN toUi /\ toUi'[i] = toUi[i + 1]
    BY <1>1
  <2> QED BY <1>1, <2>1 DEF TalkInv
<1>4. TalkInv'
  BY <1>1, <1>2, <1>3 DEF TalkInv
<1>5. NameInv'
  <2> SUFFICES ASSUME NEW p \in PeerId, Accepted(p, tasks)
               PROVE  NamingOk(p, peers', Tail(toUi), tasks)
    BY <1>1 DEF NameInv
  <2>1. NamingOk(p, peers, toUi, tasks)
    BY <1>1 DEF NameInv
  <2>2. p \in DOMAIN peers' =>
          /\ p \in DOMAIN peers \/ Opens(Head(toUi), p)
          /\ p \in DOMAIN peers /\ peers[p].onion # NoOnion => peers'[p].onion # NoOnion
          /\ Names(Head(toUi), p) => peers'[p].onion # NoOnion
    BY <1>2 DEF NamesKept
  <2> QED BY <1>1, <2>1, <2>2, NamingTaken
<1> QED BY <1>4, <1>5

\* The user and the remotes: a line typed goes to the log of the peer it is
\* sent to, and nothing else is logged, named or announced.
LEMMA UserTalk ==
  Inv /\ TalkInv /\ NameInv /\ (UserConnect \/ UserKey \/ RemoteDials) => TalkInv' /\ NameInv'
<1> SUFFICES ASSUME Inv, TalkInv, NameInv, UserConnect \/ UserKey \/ RemoteDials
             PROVE  TalkInv' /\ NameInv'
  OBVIOUS
<1>1. UNCHANGED tasks
  BY DEF UserConnect, UserKey, RemoteDials, Accept, netVars
<1>2. CASE SendToActive
  <2> DEFINE line == Line(TRUE, active, logged + 1)
  <2>1. /\ active \in DOMAIN peers /\ active \in PeerId /\ toUi' = toUi /\ running' = running
        /\ peers' = [peers EXCEPT ![active].log = Append(@, line)]
        /\ peers \in [DOMAIN peers -> Peer] /\ logged \in Nat /\ TableOk(peers, tasks)
    BY <1>2 DEF SendToActive, Inv, AppInv, AppTypeOK, TalkInv
  <2>2. peers[active] \in Peer /\ EntryOk(peers[active], active, tasks)
    BY <2>1 DEF TableOk
  <2>3. line \in ChatLine /\ line.peer = active
    BY <2>1 DEF Line, ChatLine
  <2>4. line \in LinesOf(active, tasks)
    <3> HIDE DEF line
    <3> QED BY <2>2, <2>3 DEF LinesOf, EntryOk
  <2> HIDE DEF line
  <2> DEFINE onion == peers[active].onion
  <2>5. peers' = [peers EXCEPT ![active].onion = onion, ![active].log = Append(@, line)]
    BY <2>1, <2>2 DEF Peer
  <2>6. TableOk(peers', tasks)
    BY <2>1, <2>4, <2>5, LogTalk
  <2>7. DOMAIN peers' = DOMAIN peers /\ \A p \in DOMAIN peers : peers'[p].onion = peers[p].onion
    BY <2>1, <2>2 DEF Peer
  <2>8. NameInv'
    BY <1>1, <2>1, <2>7 DEF NameInv, NamingOk, OpensOnce, FoldedAway
  <2> QED BY <1>1, <2>1, <2>6, <2>8 DEF TalkInv
<1>3. CASE Quit
  <2>1. peers' = peers /\ toUi' = <<>> /\ ~running'
    BY <1>3 DEF Quit, appVars
  <2> QED BY <1>1, <2>1 DEF TalkInv, NameInv
<1>4. CASE \/ UserConnect \/ RemoteDials \/ Disconnect \/ PageUp \/ PageDown
           \/ \E delta \in {1, -1} : CycleActive(delta)
  <2>1. UNCHANGED <<peers, toUi, running>>
    BY <1>4 DEF UserConnect, Connect, RemoteDials, Accept, Disconnect, PageUp, PageDown,
                CycleActive, appVars, channels
  <2> QED BY <1>1, <2>1 DEF TalkInv, NameInv
<1> QED BY <1>2, <1>3, <1>4 DEF UserKey, OnKey

\* The initial state satisfies the invariant.
LEMMA InitTalk == Init => TalkInv /\ NameInv
BY DEF Init, AppInit, ChannelInit, NetworkInit, NewTask, TalkInv, TableOk, NameInv, Accepted

\* Every step of the system preserves the invariant.
LEMMA NextTalk ==
  Inv /\ RouteInv /\ TalkInv /\ NameInv /\ [Next]_vars => TalkInv' /\ NameInv'
<1> SUFFICES ASSUME Inv, RouteInv, TalkInv, NameInv, [Next]_vars PROVE TalkInv' /\ NameInv'
  OBVIOUS
<1>1. CASE Next
  BY <1>1, ManagerTalk, ConnectionTalk, UiTalk, UserTalk DEF Next
<1>2. CASE UNCHANGED vars
  BY <1>2 DEF vars, channels, appVars, netVars, TalkInv, NameInv
<1> QED BY <1>1, <1>2

\* For any number of connections, lines and claims, true, false or missing: a
\* conversation is shown to be with the identity that was dialed or first claimed
\* on its connection, and holds only lines of that connection and of others with
\* the same identity, however often peers reconnect under new PeerIds, claim
\* another identity later, and are folded (app.rs, merge_duplicates and the
\* Message branch of apply_net_event; network.rs, the events of run_connection).
THEOREM NoTalkCrosses == Spec => []NoCrossTalk
<1>1. TalkInv => NoCrossTalk
  <2> SUFFICES ASSUME TalkInv, NEW p \in DOMAIN peers
               PROVE  /\ peers[p].onion # NoOnion => normalize_onion(peers[p].onion) = tasks[p].onion
                      /\ \A l \in Range(peers[p].log) : l.peer = p \/ SameIdentity(l.peer, p)
    BY DEF NoCrossTalk
  <2>1. /\ peers[p].onion # NoOnion => NameOf(peers[p].onion, p, tasks)
        /\ peers[p].log \in Seq(LinesOf(p, tasks))
    BY DEF TalkInv, TableOk, EntryOk
  <2>2. \A l \in Range(peers[p].log) : l \in LinesOf(p, tasks)
    BY <2>1 DEF Range
  <2> QED BY <2>1, <2>2 DEF LinesOf, NameOf, SameIdentity
<1> QED
  BY <1>1, InitInv, NextInv, InitRoute, NextRoute, InitTalk, NextTalk, PTL DEF Spec

\* For any number of connections and claims, an event never takes the focus off
\* a conversation, unless that is folded away: then it goes along to the one
\* with the same identity, and what is typed goes to the name it was typed to
\* (app.rs, the writes of active in merge_duplicates and apply_net_event).
THEOREM FocusNeverStrays == Spec => FocusFollowsIdentity
<1> DEFINE Follow == active # None /\ toUi # <<>> /\ toUi' = Tail(toUi) /\ active' # active =>
             /\ active \notin DOMAIN peers'
             /\ active' \in DOMAIN peers'
             /\ SameIdentity(active', active)
<1>1. Inv /\ TalkInv /\ NameInv /\ [Next]_vars => [Follow]_vars
  <2> SUFFICES ASSUME Inv, TalkInv, NameInv, Next, active' # active, active # None,
                      toUi # <<>>, toUi' = Tail(toUi)
               PROVE  FocusFollows(active)
    BY DEF vars, appVars, FocusFollows
  <2>1. CASE UiEvent
    BY <2>1, UiTable
  <2>2. CASE UserConnect \/ UserKey
    <3>1. toUi' = toUi
      BY <2>2 DEF UserConnect, Connect, UserKey, OnKey, SendToActive, Disconnect, Quit,
                  CycleActive, PageUp, PageDown, appVars, channels
    <3>2. Tail(toUi) # toUi
      <4>1. toUi \in Seq(NetEvent)
        BY DEF Inv, ChannelTypeOK
      <4>2. Len(Tail(toUi)) # Len(toUi)
        BY <4>1
      <4> QED BY <4>2
    <3> QED BY <3>1, <3>2
  <2>3. active' = active \/ UiEvent \/ UserConnect \/ UserKey
    BY DEF Next, RemoteDials, ManagerStep, ConnectionStep, appVars
  <2> QED BY <2>1, <2>2, <2>3
<1>2. FocusFollowsIdentity <=> [][Follow]_vars
  BY DEF FocusFollowsIdentity
<1> HIDE DEF Follow
<1> QED
  BY <1>1, <1>2, InitInv, NextInv, InitRoute, NextRoute, InitTalk, NextTalk, PTL DEF Spec
=============================================================================
