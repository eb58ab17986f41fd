----------------------------- MODULE ViewProofs -----------------------------
(***************************************************************************)
(* What the user sees, for every value of the constants: the logs, who is  *)
(* shown online and which messages are logged follow from the events on    *)
(* their way to the UI.                                                    *)
(*                                                                         *)
(* The invariants build on each other. HistInv: the lines of the logs are  *)
(* those that were logged, none twice. ViewInv: the events in the channel, *)
(* applied in turn to what is shown, tell which connections are up, and    *)
(* every message among them finds its connection shown online. OrderInv,   *)
(* which needs both: the messages of a connection are logged or waiting,   *)
(* in order.                                                               *)
(***************************************************************************)
EXTENDS View, RouteProofs, FiniteSetTheorems

-----------------------------------------------------------------------------
(* What an event does to the logs and to who is shown online.              *)

\* p has a conversation in ps and is shown online.
OnlineIn(ps, p) == p \in DOMAIN ps /\ ps[p].connected

On(ev, p) == ev.type = "PeerConnected" /\ ev.peer = p

Off(ev, p) == ev.type \in {"PeerDisconnected", "PeerError"} /\ ev.peer = p

\* Folding moves lines and neither loses nor copies one, and folds away only
\* conversations that are shown offline.
LEMMA MergeLogs ==
  ASSUME NEW ps, NEW ord \in Seq(PeerId), NEW act, NEW live \in DOMAIN ps,
         ps \in [DOMAIN ps -> Peer], Range(ord) = DOMAIN ps, IsInjective(ord),
         merge_duplicates(ps, ord, act, live), Apart(ps)
  PROVE  /\ LinesIn(peers') = LinesIn(ps)
         /\ Apart(peers')
         /\ \A p : OnlineIn(peers', p) <=> OnlineIn(ps, p)
         /\ live \in DOMAIN peers' /\ Range(ps[live].log) \subseteq Range(peers'[live].log)
<1> DEFINE stale == Stale(ps, ord, live)
           history == History(ps, ord, stale)
           merged == [ps[live] EXCEPT !.log = history \o @]
<1>1. /\ stale \subseteq DOMAIN ps /\ live \notin stale /\ stale \subseteq Range(ord)
      /\ \A p \in stale : ~ps[p].connected
  BY DEF Stale
<1>2. peers' = [p \in DOMAIN ps \ stale |-> IF p = live THEN merged ELSE ps[p]]
  BY DEF merge_duplicates
<1>3. ps[live] \in Peer /\ \A p \in DOMAIN ps : ps[p].log \in Seq(ChatLine)
  BY DEF Peer
<1>4. history \in Seq(ChatLine)
  <2> HIDE DEF stale
  <2> QED BY <1>1, <1>3, HistoryType
<1>5. /\ \A x : x \in Range(history) <=> \E p \in stale : x \in Range(ps[p].log)
      /\ IsInjective(history)
  <2> HIDE DEF stale
  <2> QED BY <1>1, <1>3, HistoryElements
<1> HIDE DEF history
<1>6. merged.log = history \o ps[live].log /\ merged.connected = ps[live].connected
  BY <1>3 DEF Peer
<1> HIDE DEF merged, stale
<1>7. /\ Range(merged.log) = Range(history) \cup Range(ps[live].log)
      /\ IsInjective(merged.log)
  <2>1. Range(history) \cap Range(ps[live].log) = {}
    BY <1>1, <1>5 DEF Apart
  <2>2. IsInjective(ps[live].log)
    BY DEF Apart
  <2> QED BY <1>3, <1>4, <1>5, <1>6, <2>1, <2>2, RangeConcat, InjectiveConcat
<1>8. /\ DOMAIN peers' = DOMAIN ps \ stale /\ peers'[live] = merged
      /\ \A p \in DOMAIN peers' : p # live => peers'[p] = ps[p]
  BY <1>1, <1>2
<1>9. LinesIn(peers') = LinesIn(ps)
  <2>1. ASSUME NEW x \in LinesIn(ps) PROVE x \in LinesIn(peers')
    <3>1. PICK p \in DOMAIN ps : x \in Range(ps[p].log)
      BY <2>1 DEF LinesIn
    <3>2. CASE p \in stale \/ p = live
      <4>1. x \in Range(merged.log) /\ live \in DOMAIN peers'
        BY <1>1, <1>5, <1>7, <1>8, <3>1, <3>2
      <4> QED BY <1>8, <4>1 DEF LinesIn
    <3>3. CASE p \notin stale /\ p # live
      BY <1>8, <3>1, <3>3 DEF LinesIn
    <3> QED BY <3>2, <3>3
  <2>2. ASSUME NEW x \in LinesIn(peers') PROVE x \in LinesIn(ps)
    <3>1. PICK p \in DOMAIN peers' : x \in Range(peers'[p].log)
      BY <2>2 DEF LinesIn
    <3>2. CASE p = live
      <4>1. x \in Range(history) \/ x \in Range(ps[live].log)
        BY <1>7, <1>8, <3>1, <3>2
      <4> QED BY <1>1, <1>5, <4>1 DEF LinesIn
    <3>3. CASE p # live
      BY <1>8, <3>1, <3>3 DEF LinesIn
    <3> QED BY <3>2, <3>3
  <2> QED BY <2>1, <2>2
<1>10. Apart(peers')
  <2> SUFFICES ASSUME NEW p \in DOMAIN peers'
               PROVE  /\ IsInjective(peers'[p].log)
                      /\ \A q \in DOMAIN peers' :
                           p # q => Range(peers'[p].log) \cap Range(peers'[q].log) = {}
    BY DEF Apart
  <2>1. IsInjective(peers'[p].log)
    BY <1>7, <1>8 DEF Apart
  <2>2. ASSUME NEW r \in DOMAIN peers', r # live
        PROVE  Range(merged.log) \cap Range(ps[r].log) = {}
    <3>1. r \notin stale /\ r \in DOMAIN ps
      BY <1>8
    <3>2. Range(ps[live].log) \cap Range(ps[r].log) = {}
      BY <2>2, <3>1 DEF Apart
    <3>3. Range(history) \cap Range(ps[r].log) = {}
      BY <1>1, <1>5, <3>1 DEF Apart
    <3> QED BY <1>7, <3>2, <3>3
  <2>3. ASSUME NEW q \in DOMAIN peers', p # q
        PROVE  Range(peers'[p].log) \cap Range(peers'[q].log) = {}
    <3>1. CASE p = live
      BY <1>8, <2>2, <2>3, <3>1
    <3>2. CASE q = live
      BY <1>8, <2>2, <2>3, <3>2
    <3>3. CASE p # live /\ q # live
      BY <1>8, <2>3, <3>3 DEF Apart
    <3> QED BY <3>1, <3>2, <3>3
  <2> QED BY <2>1, <2>3
<1>11. ASSUME NEW p PROVE OnlineIn(peers', p) <=> OnlineIn(ps, p)
  <2>1. CASE p = live
    BY <1>1, <1>6, <1>8, <2>1 DEF OnlineIn
  <2>2. CASE p # live
    BY <1>1, <1>8, <2>2 DEF OnlineIn
  <2> QED BY <2>1, <2>2
<1>12. live \in DOMAIN peers' /\ Range(ps[live].log) \subseteq Range(peers'[live].log)
  BY <1>1, <1>7, <1>8
<1> QED BY <1>9, <1>10, <1>11, <1>12

\* Logging a line that no log holds.
LEMMA LogLine ==
  ASSUME NEW ps, NEW qs, NEW p \in DOMAIN ps, NEW line \in ChatLine,
         ps[p].log \in Seq(ChatLine), Apart(ps), line \notin LinesIn(ps),
         DOMAIN qs = DOMAIN ps, qs[p].log = Append(ps[p].log, line),
         \A q \in DOMAIN ps : q # p => qs[q].log = ps[q].log
  PROVE  Apart(qs) /\ LinesIn(qs) = LinesIn(ps) \cup {line}
<1> DEFINE old == ps[p].log
<1>1. Range(qs[p].log) = Range(old) \cup {line}
  BY RangeAppend
<1>2. line \notin Range(old) /\ IsInjective(old)
  BY DEF LinesIn, Apart
<1>3. IsInjective(qs[p].log)
  <2>1. Append(old, line) = old \o <<line>> /\ <<line>> \in Seq(ChatLine)
    BY AppendIsConcat
  <2>2. Range(<<line>>) = {line} /\ IsInjective(<<line>>)
    BY DEF Range, IsInjective
  <2> HIDE DEF old
  <2>3. IsInjective(old \o <<line>>)
    <3>1. old \in Seq(ChatLine) /\ Range(old) \cap Range(<<line>>) = {}
      BY <1>2, <2>2 DEF old
    <3> QED BY <1>2, <2>1, <2>2, <3>1, InjectiveConcat
  <2> QED BY <2>1, <2>3 DEF old
<1>4. LinesIn(qs) = LinesIn(ps) \cup {line}
  <2>1. ASSUME NEW x \in LinesIn(qs) PROVE x \in LinesIn(ps) \cup {line}
    BY <1>1, <2>1 DEF LinesIn
  <2>2. ASSUME NEW x \in LinesIn(ps) \cup {line} PROVE x \in LinesIn(qs)
    BY <1>1, <2>2 DEF LinesIn
  <2> QED BY <2>1, <2>2
<1>5. Apart(qs)
  <2> SUFFICES ASSUME NEW q \in DOMAIN qs
               PROVE  /\ IsInjective(qs[q].log)
                      /\ \A r \in DOMAIN qs : q # r => Range(qs[q].log) \cap Range(qs[r].log) = {}
    BY DEF Apart
  <2>1. IsInjective(qs[q].log)
    BY <1>3 DEF Apart
  <2>2. ASSUME NEW r \in DOMAIN qs, r # p PROVE Range(qs[p].log) \cap Range(qs[r].log) = {}
    <3>1. line \notin Range(ps[r].log) /\ Range(old) \cap Range(ps[r].log) = {}
      BY <2>2 DEF LinesIn, Apart
    <3> QED BY <1>1, <2>2, <3>1
  <2>3. ASSUME NEW r \in DOMAIN qs, q # r PROVE Range(qs[q].log) \cap Range(qs[r].log) = {}
    <3>1. CASE q = p
      BY <2>2, <2>3, <3>1
    <3>2. CASE r = p
      BY <2>2, <2>3, <3>2
    <3>3. CASE q # p /\ r # p
      BY <2>3, <3>3 DEF Apart
    <3> QED BY <3>1, <3>2, <3>3
  <2> QED BY <2>1, <2>3
<1> QED BY <1>4, <1>5

\* What applying an event does: it shows a connection online or offline, and a
\* message to a known conversation adds one line.
UiEffect(ev) ==
  /\ Apart(peers')
  /\ \A p \in PeerId :
       OnlineIn(peers', p) <=> On(ev, p) \/ (OnlineIn(peers, p) /\ ~Off(ev, p))
  /\ IF ev.type = "Message" /\ ev.peer \in DOMAIN peers
       THEN /\ logged' = logged + 1
            /\ LinesIn(peers') = LinesIn(peers) \cup {Line(FALSE, ev.peer, ev.body)}
            /\ ev.peer \in DOMAIN peers'
            /\ Line(FALSE, ev.peer, ev.body) \in Range(peers'[ev.peer].log)
       ELSE logged' = logged /\ LinesIn(peers') = LinesIn(peers)

\* A connection announced: its entry is there, online, and keeps its log.
LEMMA ConnectedEffect ==
  ASSUME Inv, Apart(peers), PeerConnected, NEW ev \in NetEvent, ev = Head(toUi)
  PROVE  UiEffect(ev)
<1> DEFINE old == IF ev.peer \in DOMAIN peers
                    THEN peers[ev.peer]
                    ELSE [onion |-> NoOnion, inbound |-> ev.inbound,
                          connected |-> FALSE, log |-> <<>>]
           entry == [old EXCEPT !.connected = TRUE, !.inbound = ev.inbound,
                       !.onion = IF ev.onion # NoOnion THEN ev.onion ELSE @]
           ps == Put(peers, ev.peer, entry)
           ord == IF ev.peer \in DOMAIN peers THEN order ELSE order_push(order, ev.peer)
           act == IF active = None THEN ev.peer ELSE active
<1>1. /\ peers \in [DOMAIN peers -> Peer] /\ order \in Seq(PeerId)
      /\ Range(order) = DOMAIN peers /\ IsInjective(order) /\ ev.peer \in PeerId
  BY EventFields DEF Inv, AppInv, AppTypeOK, RosterConsistent
<1>2. merge_duplicates(ps, ord, act, ev.peer) /\ ev.type = "PeerConnected" /\ logged' = logged
  BY DEF PeerConnected, Receive
<1>3. ev.onion \in Address \cup {NoOnion} /\ ev.inbound \in BOOLEAN
  BY <1>2, EventFields
<1>4. old \in Peer
  <2>1. CASE ev.peer \in DOMAIN peers
    BY <1>1, <2>1
  <2>2. CASE ev.peer \notin DOMAIN peers
    BY <1>3, <2>2 DEF Peer
  <2> QED BY <2>1, <2>2
<1>5. entry \in Peer /\ entry.connected /\ entry.log = old.log
  <2> HIDE DEF old
  <2> QED BY <1>3, <1>4 DEF Peer
<1>6. old.log = IF ev.peer \in DOMAIN peers THEN peers[ev.peer].log ELSE <<>>
  OBVIOUS
<1> HIDE DEF entry, old
<1>7. /\ DOMAIN ps = DOMAIN peers \cup {ev.peer} /\ ps \in [DOMAIN ps -> Peer]
      /\ ps[ev.peer] = entry /\ \A p \in DOMAIN peers : p # ev.peer => ps[p] = peers[p]
  BY <1>1, <1>5 DEF Put
<1>8. ord \in Seq(PeerId) /\ Range(ord) = DOMAIN ps /\ IsInjective(ord)
  <2>1. CASE ev.peer \in DOMAIN peers
    BY <1>1, <1>7, <2>1
  <2>2. CASE ev.peer \notin DOMAIN peers
    <3>1. ord = Append(order, ev.peer)
      BY <1>1, <2>2 DEF order_push
    <3>2. Range(ord) = DOMAIN ps
      <4>1. Range(Append(order, ev.peer)) = Range(order) \cup {ev.peer}
        BY <1>1, RangeAppend
      <4> QED BY <1>1, <1>7, <3>1, <4>1
    <3>3. IsInjective(ord)
      BY <1>1, <2>2, <3>1 DEF IsInjective, Range
    <3> QED BY <1>1, <3>1, <3>2, <3>3
  <2> QED BY <2>1, <2>2
<1> HIDE DEF ps, ord, act
<1>9. LinesIn(ps) = LinesIn(peers) /\ Apart(ps)
  <2>1. /\ \A p \in DOMAIN peers : ps[p].log = peers[p].log
        /\ ev.peer \notin DOMAIN peers => Range(ps[ev.peer].log) = {} /\ IsInjective(ps[ev.peer].log)
    <3>1. Range(<<>>) = {} /\ IsInjective(<<>>)
      BY DEF Range, IsInjective
    <3> QED BY <1>5, <1>6, <1>7, <3>1
  <2>2. CASE ev.peer \in DOMAIN peers
    BY <1>7, <2>1, <2>2 DEF LinesIn, Apart
  <2>3. CASE ev.peer \notin DOMAIN peers
    <3>1. ASSUME NEW x PROVE x \in LinesIn(ps) <=> x \in LinesIn(peers)
      BY <1>7, <2>1, <2>3 DEF LinesIn
    <3>2. Apart(ps)
      BY <1>7, <2>1, <2>3 DEF Apart
    <3> QED BY <3>1, <3>2
  <2> QED BY <2>2, <2>3
<1>10. /\ LinesIn(peers') = LinesIn(ps) /\ Apart(peers')
       /\ \A p : OnlineIn(peers', p) <=> OnlineIn(ps, p)
  BY <1>2, <1>7, <1>8, <1>9, MergeLogs
<1>11. ASSUME NEW p \in PeerId
       PROVE  OnlineIn(peers', p) <=> On(ev, p) \/ (OnlineIn(peers, p) /\ ~Off(ev, p))
  <2>1. (On(ev, p) <=> p = ev.peer) /\ ~Off(ev, p)
    BY <1>2 DEF On, Off
  <2>2. CASE p = ev.peer
    <3>1. OnlineIn(ps, p)
      BY <1>5, <1>7, <2>2 DEF OnlineIn
    <3> QED BY <1>10, <2>1, <2>2, <3>1
  <2>3. CASE p # ev.peer
    <3>1. OnlineIn(ps, p) <=> OnlineIn(peers, p)
      BY <1>7, <2>3 DEF OnlineIn
    <3> QED BY <1>10, <2>1, <2>3, <3>1
  <2> QED BY <2>2, <2>3
<1> QED BY <1>2, <1>9, <1>10, <1>11 DEF UiEffect

\* A message to a conversation that is there.
LEMMA LoggedEffect ==
  ASSUME Inv, Apart(peers), \A l \in LinesIn(peers) : l.at # logged + 1,
         MessageLogged, NEW ev \in NetEvent, ev = Head(toUi)
  PROVE  UiEffect(ev)
<1> DEFINE learned == peers[ev.peer].onion = NoOnion /\ ev.from_onion # NoOnion
           line == Line(FALSE, ev.peer, ev.body)
           onion == IF learned THEN ev.from_onion ELSE peers[ev.peer].onion
           new == [peers[ev.peer] EXCEPT !.onion = onion, !.log = Append(@, line)]
           updated == [peers EXCEPT
                        ![ev.peer].onion = IF learned THEN ev.from_onion ELSE @,
                        ![ev.peer].log = Append(@, Line(FALSE, ev.peer, ev.body))]
<1>1. /\ peers \in [DOMAIN peers -> Peer] /\ order \in Seq(PeerId)
      /\ Range(order) = DOMAIN peers /\ IsInjective(order) /\ ev.peer \in PeerId
      /\ logged \in Nat
  BY EventFields DEF Inv, AppInv, AppTypeOK, RosterConsistent
<1>2. /\ ev.peer \in DOMAIN peers /\ ev.type = "Message" /\ logged' = logged + 1
      /\ IF learned
           THEN merge_duplicates(updated, order, active, ev.peer)
           ELSE peers' = updated
  BY DEF MessageLogged, Receive
<1>3. ev.from_onion \in Address \cup {NoOnion} /\ ev.body \in Nat
  BY <1>2, EventFields
<1>4. peers[ev.peer] \in Peer
  BY <1>1, <1>2
<1>5. line \in ChatLine /\ line.at = logged + 1
  BY <1>1, <1>3 DEF Line, ChatLine
<1>6. updated = [peers EXCEPT ![ev.peer] = new]
  BY <1>4 DEF Peer
<1>7. onion \in Address \cup {NoOnion}
  BY <1>3, <1>4 DEF Peer
<1> HIDE DEF line, onion, updated
<1>8. /\ new \in Peer /\ new.log = Append(peers[ev.peer].log, line)
      /\ new.connected = peers[ev.peer].connected
  <2>1. Append(peers[ev.peer].log, line) \in Seq(ChatLine)
    <3>1. peers[ev.peer].log \in Seq(ChatLine)
      BY <1>4 DEF Peer
    <3> QED BY <1>5, <3>1, AppendType
  <2> QED BY <1>4, <1>7, <2>1 DEF Peer
<1> HIDE DEF new
<1>9. /\ DOMAIN updated = DOMAIN peers /\ updated \in [DOMAIN updated -> Peer]
      /\ updated[ev.peer] = new
      /\ \A p \in DOMAIN peers : p # ev.peer => updated[p] = peers[p]
  BY <1>1, <1>2, <1>6, <1>8
<1>10. Apart(updated) /\ LinesIn(updated) = LinesIn(peers) \cup {line}
  <2>1. line \notin LinesIn(peers)
    BY <1>5
  <2>2. peers[ev.peer].log \in Seq(ChatLine)
    BY <1>4 DEF Peer
  <2>3. updated[ev.peer].log = Append(peers[ev.peer].log, line)
    BY <1>8, <1>9
  <2>4. \A q \in DOMAIN peers : q # ev.peer => updated[q].log = peers[q].log
    BY <1>9
  <2>5. DOMAIN updated = DOMAIN peers
    BY <1>9
  <2>6. ev.peer \in DOMAIN peers /\ line \in ChatLine /\ Apart(peers)
    BY <1>2, <1>5
  <2> HIDE DEF line, learned, updated
  <2> QED BY <2>1, <2>2, <2>3, <2>4, <2>5, <2>6, LogLine, SMTT(60)
<1>11. ASSUME NEW p PROVE OnlineIn(updated, p) <=> OnlineIn(peers, p)
  <2>1. CASE p = ev.peer
    BY <1>2, <1>8, <1>9, <2>1 DEF OnlineIn
  <2>2. CASE p # ev.peer
    BY <1>9, <2>2 DEF OnlineIn
  <2> QED BY <2>1, <2>2
<1>12. /\ LinesIn(peers') = LinesIn(updated) /\ Apart(peers')
       /\ \A p : OnlineIn(peers', p) <=> OnlineIn(updated, p)
       /\ ev.peer \in DOMAIN peers'
       /\ Range(updated[ev.peer].log) \subseteq Range(peers'[ev.peer].log)
  <2>1. CASE learned
    <3>1. merge_duplicates(updated, order, active, ev.peer)
      BY <1>2, <2>1
    <3> QED BY <1>1, <1>2, <1>9, <1>10, <3>1, MergeLogs
  <2>2. CASE ~learned
    BY <1>2, <1>9, <1>10, <2>2
  <2> QED BY <2>1, <2>2
<1>13. \A p : ~On(ev, p) /\ ~Off(ev, p)
  BY <1>2 DEF On, Off
<1>14. line \in Range(peers'[ev.peer].log)
  <2>1. peers[ev.peer].log \in Seq(ChatLine)
    BY <1>4 DEF Peer
  <2>2. line \in Range(Append(peers[ev.peer].log, line))
    <3>1. Range(Append(peers[ev.peer].log, line)) = Range(peers[ev.peer].log) \cup {line}
      BY <1>5, <2>1, RangeAppend
    <3> QED BY <3>1
  <2>3. line \in Range(updated[ev.peer].log)
    BY <1>8, <1>9, <2>2
  <2> QED BY <1>12, <2>3
<1> QED BY <1>2, <1>10, <1>11, <1>12, <1>13, <1>14 DEF UiEffect, line

\* Every event.
LEMMA EventEffect ==
  ASSUME Inv, Apart(peers), \A l \in LinesIn(peers) : l.at # logged + 1,
         UiEvent, NEW ev, ev = Head(toUi)
  PROVE  ev \in NetEvent /\ UiEffect(ev)
<1>1. ev \in NetEvent
  <2>1. toUi # <<>> /\ toUi \in Seq(NetEvent)
    BY DEF UiEvent, ApplyNetEvent, PeerConnected, PeerDisconnected, PeerError,
           MessageLogged, MessageDropped, Receive, Inv, ChannelTypeOK
  <2> QED BY <2>1, HeadTail
<1>2. CASE PeerDisconnected \/ PeerError
  <2>1. GoOffline(ev.peer) /\ ev.type \in {"PeerDisconnected", "PeerError"}
    BY <1>2 DEF PeerDisconnected, PeerError, Receive
  <2>2. peers \in [DOMAIN peers -> Peer]
    BY DEF Inv, AppInv, AppTypeOK
  <2>3. /\ DOMAIN peers' = DOMAIN peers /\ logged' = logged
        /\ \A p \in DOMAIN peers : peers'[p].log = peers[p].log
        /\ \A p \in DOMAIN peers :
             p # ev.peer => peers'[p] = peers[p]
        /\ ev.peer \in DOMAIN peers => ~peers'[ev.peer].connected
    <3>1. CASE ev.peer \in DOMAIN peers
      <4> DEFINE new == [peers[ev.peer] EXCEPT !.connected = FALSE]
      <4>1. peers' = [peers EXCEPT ![ev.peer] = new] /\ logged' = logged
        BY <2>1, <2>2, <3>1 DEF GoOffline, Peer
      <4>2. new.log = peers[ev.peer].log /\ ~new.connected
        BY <2>2, <3>1 DEF Peer
      <4> HIDE DEF new
      <4> QED BY <2>2, <3>1, <4>1, <4>2
    <3>2. CASE ev.peer \notin DOMAIN peers
      BY <2>1, <3>2 DEF GoOffline
    <3> QED BY <3>1, <3>2
  <2>4. LinesIn(peers') = LinesIn(peers) /\ Apart(peers')
    BY <2>3 DEF LinesIn, Apart
  <2>5. ASSUME NEW p \in PeerId
        PROVE  OnlineIn(peers', p) <=> On(ev, p) \/ (OnlineIn(peers, p) /\ ~Off(ev, p))
    <3>1. ~On(ev, p) /\ (Off(ev, p) <=> p = ev.peer)
      BY <2>1 DEF On, Off
    <3>2. CASE p = ev.peer
      BY <2>3, <3>1, <3>2 DEF OnlineIn
    <3>3. CASE p # ev.peer
      BY <2>3, <3>1, <3>3 DEF OnlineIn
    <3> QED BY <3>2, <3>3
  <2> QED BY <1>1, <2>1, <2>3, <2>4, <2>5 DEF UiEffect
<1>3. CASE MessageDropped
  <2>1. /\ peers' = peers /\ logged' = logged
        /\ ev.type = "Message" /\ ev.peer \notin DOMAIN peers
    BY <1>3 DEF MessageDropped, Receive, appVars
  <2>2. \A p : ~On(ev, p) /\ ~Off(ev, p)
    BY <2>1 DEF On, Off
  <2> QED BY <1>1, <2>1, <2>2 DEF UiEffect
<1> QED BY <1>1, <1>2, <1>3, ConnectedEffect, LoggedEffect DEF UiEvent, ApplyNetEvent

-----------------------------------------------------------------------------
(* HistoryConserved: the lines logged are ranked 1 .. logged, no two alike,*)
(* and no line is in the logs twice.                                       *)

HistInv ==
  /\ Apart(peers)
  /\ \A l, m \in LinesIn(peers) : l.at = m.at => l = m
  /\ \A l \in LinesIn(peers) : l.at \in 1 .. logged
  /\ \A n \in 1 .. logged : \E l \in LinesIn(peers) : l.at = n

\* One more line is ranked next.
LEMMA OneMoreLine ==
  ASSUME HistInv, logged \in Nat, Apart(peers'), logged' = logged + 1,
         NEW line, line.at = logged + 1, LinesIn(peers') = LinesIn(peers) \cup {line}
  PROVE  HistInv'
<1>1. \A l \in LinesIn(peers) : l.at \in 1 .. logged /\ l.at # logged + 1
  BY DEF HistInv
<1>2. ASSUME NEW l \in LinesIn(peers'), NEW m \in LinesIn(peers'), l.at = m.at
      PROVE  l = m
  BY <1>1, <1>2 DEF HistInv
<1>3. ASSUME NEW l \in LinesIn(peers') PROVE l.at \in 1 .. logged'
  BY <1>1
<1>4. ASSUME NEW n \in 1 .. logged' PROVE \E l \in LinesIn(peers') : l.at = n
  <2>1. CASE n = logged + 1
    BY <2>1
  <2>2. CASE n # logged + 1
    <3>1. n \in 1 .. logged
      BY <2>2
    <3> QED BY <3>1 DEF HistInv
  <2> QED BY <2>1, <2>2
<1> QED BY <1>2, <1>3, <1>4 DEF HistInv

\* The line of a user who types is new, and goes into one log.
LEMMA TypedLine ==
  ASSUME Inv, HistInv, SendToActive
  PROVE  /\ Apart(peers') /\ logged' = logged + 1
         /\ LinesIn(peers') = LinesIn(peers) \cup {Line(TRUE, active, logged + 1)}
         /\ \A p : OnlineIn(peers', p) <=> OnlineIn(peers, p)
<1> DEFINE line == Line(TRUE, active, logged + 1)
           new == [peers[active] EXCEPT !.log = Append(@, line)]
<1>1. /\ active \in DOMAIN peers /\ active \in PeerId /\ logged \in Nat
      /\ peers' = [peers EXCEPT ![active].log = Append(@, line)]
      /\ peers \in [DOMAIN peers -> Peer] /\ logged' = logged + 1
  BY DEF SendToActive, Inv, AppInv, AppTypeOK
<1>2. peers[active] \in Peer /\ line \in ChatLine /\ line.at = logged + 1
  BY <1>1 DEF Line, ChatLine
<1> HIDE DEF line
<1>3. peers' = [peers EXCEPT ![active] = new]
  BY <1>1, <1>2 DEF Peer
<1>4. new.log = Append(peers[active].log, line) /\ new.connected = peers[active].connected
  BY <1>2 DEF Peer
<1> HIDE DEF new
<1>5. /\ DOMAIN peers' = DOMAIN peers /\ peers'[active] = new
      /\ \A q \in DOMAIN peers : q # active => peers'[q] = peers[q]
  BY <1>1, <1>3
<1>6. Apart(peers') /\ LinesIn(peers') = LinesIn(peers) \cup {line}
  <2>1. line \notin LinesIn(peers) /\ Apart(peers)
    BY <1>1, <1>2 DEF HistInv
  <2>2. peers[active].log \in Seq(ChatLine)
    BY <1>2 DEF Peer
  <2>3. peers'[active].log = Append(peers[active].log, line)
    BY <1>4, <1>5
  <2>4. \A q \in DOMAIN peers : q # active => peers'[q].log = peers[q].log
    BY <1>5
  <2>5. active \in DOMAIN peers /\ line \in ChatLine /\ DOMAIN peers' = DOMAIN peers
    BY <1>1, <1>2, <1>5
  <2> DEFINE qs == peers'
             p == active
  <2> HIDE DEF qs, p
  <2>6. Apart(qs) /\ LinesIn(qs) = LinesIn(peers) \cup {line}
    <3>1. /\ p \in DOMAIN peers /\ DOMAIN qs = DOMAIN peers /\ peers[p].log \in Seq(ChatLine)
          /\ qs[p].log = Append(peers[p].log, line)
          /\ \A q \in DOMAIN peers : q # p => qs[q].log = peers[q].log
      BY <2>2, <2>3, <2>4, <2>5 DEF qs, p
    <3> QED BY <2>1, <2>5, <3>1, LogLine
  <2> QED BY <2>6 DEF qs
<1>7. ASSUME NEW p PROVE OnlineIn(peers', p) <=> OnlineIn(peers, p)
  <2>1. CASE p = active
    BY <1>1, <1>4, <1>5, <2>1 DEF OnlineIn
  <2>2. CASE p # active
    BY <1>5, <2>2 DEF OnlineIn
  <2> QED BY <2>1, <2>2
<1> QED BY <1>1, <1>6, <1>7 DEF line

\* Only an event or a line typed changes the conversations.
LEMMA OthersLeaveLogs ==
  ASSUME [Next]_vars
  PROVE  UiEvent \/ SendToActive \/ UNCHANGED <<peers, logged>>
<1>1. CASE Next
  BY <1>1 DEF Next, UserConnect, Connect, UserKey, OnKey, Disconnect, Quit, CycleActive,
     PageUp, PageDown, RemoteDials, ManagerStep, ConnectionStep, appVars
<1>2. CASE UNCHANGED vars
  BY <1>2 DEF vars, appVars
<1> QED BY <1>1, <1>2

\* The initial state satisfies the invariant.
LEMMA InitHist == Init => HistInv
<1> SUFFICES ASSUME Init PROVE HistInv
  OBVIOUS
<1>1. DOMAIN peers = {} /\ logged = 0
  BY DEF Init, AppInit
<1>2. LinesIn(peers) = {}
  BY <1>1 DEF LinesIn
<1> QED BY <1>1, <1>2 DEF HistInv, Apart

\* Every step of the system preserves the invariant.
LEMMA NextHist == Inv /\ HistInv /\ [Next]_vars => HistInv'
<1> SUFFICES ASSUME Inv, HistInv, [Next]_vars PROVE HistInv'
  OBVIOUS
<1>1. logged \in Nat
  BY DEF Inv, AppInv, AppTypeOK
<1>2. CASE UiEvent
  <2> DEFINE ev == Head(toUi)
             line == Line(FALSE, ev.peer, ev.body)
  <2>1. UiEffect(ev)
    <3>1. Apart(peers) /\ \A l \in LinesIn(peers) : l.at # logged + 1
      BY <1>1 DEF HistInv
    <3> QED BY <1>2, <3>1, EventEffect
  <2>2. line.at = logged + 1
    BY DEF Line
  <2>3. \/ logged' = logged + 1 /\ LinesIn(peers') = LinesIn(peers) \cup {line}
        \/ logged' = logged /\ LinesIn(peers') = LinesIn(peers)
    BY <2>1 DEF UiEffect
  <2>4. Apart(peers')
    BY <2>1 DEF UiEffect
  <2> HIDE DEF line, ev
  <2> QED BY <1>1, <2>2, <2>3, <2>4, OneMoreLine DEF HistInv
<1>3. CASE SendToActive
  <2> DEFINE line == Line(TRUE, active, logged + 1)
  <2>1. line.at = logged + 1
    BY DEF Line
  <2>2. /\ Apart(peers') /\ logged' = logged + 1
        /\ LinesIn(peers') = LinesIn(peers) \cup {line}
    BY <1>3, TypedLine
  <2> HIDE DEF line
  <2> QED BY <1>1, <2>1, <2>2, OneMoreLine
<1>4. CASE UNCHANGED <<peers, logged>>
  BY <1>4 DEF HistInv, LinesIn, Apart
<1> QED BY <1>2, <1>3, <1>4, OthersLeaveLogs

\* The invariant counts the lines.
LEMMA LinesCounted == Inv /\ HistInv => HistoryConserved
<1> SUFFICES ASSUME Inv, HistInv PROVE HistoryConserved
  OBVIOUS
<1> DEFINE places == UNION {{<<p, i>> : i \in DOMAIN peers[p].log} : p \in DOMAIN peers}
           rank == [x \in places |-> peers[x[1]].log[x[2]].at]
<1>1. logged \in Nat /\ \A p \in DOMAIN peers : peers[p].log \in Seq(ChatLine)
  BY DEF Inv, AppInv, AppTypeOK, Peer
<1>2. \A x \in places :
        /\ x[1] \in DOMAIN peers /\ x[2] \in DOMAIN peers[x[1]].log /\ x = <<x[1], x[2]>>
        /\ rank[x] = peers[x[1]].log[x[2]].at
        /\ peers[x[1]].log[x[2]] \in Range(peers[x[1]].log)
        /\ peers[x[1]].log[x[2]] \in LinesIn(peers)
  BY DEF Range, LinesIn
<1>3. \A l \in LinesIn(peers) : \E x \in places : peers[x[1]].log[x[2]] = l
  <2> SUFFICES ASSUME NEW l \in LinesIn(peers)
               PROVE  \E x \in places : peers[x[1]].log[x[2]] = l
    OBVIOUS
  <2>1. PICK p \in DOMAIN peers : l \in Range(peers[p].log)
    BY DEF LinesIn
  <2>2. PICK i \in DOMAIN peers[p].log : l = peers[p].log[i]
    BY <2>1 DEF Range
  <2>3. <<p, i>> \in places
    OBVIOUS
  <2> QED BY <2>2, <2>3
<1>4. DOMAIN rank = places
  OBVIOUS
<1> HIDE DEF places
<1>5. rank \in [places -> 1 .. logged]
  <2>1. \A x \in places : rank[x] \in 1 .. logged
    BY <1>2 DEF HistInv
  <2> QED BY <2>1
<1>6. \A n \in 1 .. logged : \E x \in places : rank[x] = n
  <2> SUFFICES ASSUME NEW n \in 1 .. logged PROVE \E x \in places : rank[x] = n
    OBVIOUS
  <2>1. PICK l \in LinesIn(peers) : l.at = n
    BY DEF HistInv
  <2>2. PICK x \in places : peers[x[1]].log[x[2]] = l
    BY <1>3
  <2> QED BY <1>2, <2>1, <2>2
<1>7. ASSUME NEW x \in places, NEW y \in places, rank[x] = rank[y] PROVE x = y
  <2>1. peers[x[1]].log[x[2]] = peers[y[1]].log[y[2]]
    BY <1>2, <1>7 DEF HistInv
  <2>2. x[1] = y[1]
    BY <1>2, <2>1 DEF HistInv, Apart
  <2>3. x[2] = y[2]
    BY <1>2, <2>1, <2>2 DEF HistInv, Apart, IsInjective
  <2> QED BY <1>2, <2>2, <2>3
<1>8. {peers[x[1]].log[x[2]].at : x \in places} = 1 .. logged
  <2>1. \A x \in places : peers[x[1]].log[x[2]].at = rank[x]
    BY <1>2
  <2> HIDE DEF rank
  <2> QED BY <1>5, <1>6, <2>1
<1>9. Cardinality(places) = logged
  <2>1. ExistsBijection(1 .. logged, places)
    <3> DEFINE back == [n \in 1 .. logged |-> CHOOSE x \in places : rank[x] = n]
    <3> HIDE DEF rank
    <3>1. \A n \in 1 .. logged : back[n] \in places /\ rank[back[n]] = n
      BY <1>6
    <3>2. \A x \in places : rank[x] \in 1 .. logged /\ back[rank[x]] = x
      BY <1>5, <1>7, <3>1
    <3>3. back \in [1 .. logged -> places]
      BY <3>1
    <3> HIDE DEF back
    <3>4. back \in Injection(1 .. logged, places)
      BY <3>1, <3>3 DEF Injection, IsInjective
    <3>5. back \in Surjection(1 .. logged, places)
      BY <3>2, <3>3 DEF Surjection
    <3> QED BY <3>4, <3>5 DEF ExistsBijection, Bijection
  <2> QED BY <1>1, <2>1, FS_CountingElements
<1> QED BY <1>8, <1>9 DEF HistoryConserved, places

\* For any number of connections, lines and folds, every line ever logged is in
\* exactly one conversation, exactly once (app.rs, merge_duplicates: the drained
\* logs of the removed conversations against the log of the one that stays).
THEOREM HistoryIsConserved == Spec => []HistoryConserved
<1> QED BY LinesCounted, InitInv, NextInv, InitHist, NextHist, PTL DEF Spec

-----------------------------------------------------------------------------
(* ViewConverges: the events on the way to the UI, applied one after the   *)
(* other, show a connection online exactly when it is up, unless the user  *)
(* dropped it (its task may then outlive the notice that it is gone).      *)

\* p is online once the first i events of es are applied, if it is so `now`.
OnlineAfter(now, es, p, i) ==
  \/ now /\ \A k \in 1 .. i : ~Off(es[k], p)
  \/ \E j \in 1 .. i : On(es[j], p) /\ \A k \in j + 1 .. i : ~Off(es[k], p)

OnlineNow(p) == OnlineIn(peers, p)

IsMessage(ev, p) == ev.type = "Message" /\ ev.peer = p

\* The events about p say whether it is up, and a message of p finds it online.
Announced(p) ==
  /\ OnlineAfter(OnlineNow(p), toUi, p, Len(toUi)) <=> Up(p)
  /\ \A i \in DOMAIN toUi :
       IsMessage(toUi[i], p) => OnlineAfter(OnlineNow(p), toUi, p, i)

\* The tasks that run are those of a manager that serves, until the user quits.
ServeInv ==
  /\ running /\ ~serving => \A p \in PeerId : tasks[p].pc = "none"
  /\ running => \A i \in DOMAIN fromUi : fromUi[i].type # "Shutdown"
  /\ \A p \in hangups : tasks[p].pc # "none"
  /\ routes \cap hangups = {}

ViewInv == ServeInv /\ (running => \A p \in PeerId \ hangups : Announced(p))

\* fs says of p what es says, then what ev says.
SaysMore(now, es, ev, fs, p) ==
  /\ Len(fs) = Len(es) + 1 /\ fs[Len(fs)] = ev
  /\ \A i \in 1 .. Len(es) : fs[i] = es[i]
  /\ \A i \in 0 .. Len(es) : OnlineAfter(now, fs, p, i) <=> OnlineAfter(now, es, p, i)
  /\ OnlineAfter(now, fs, p, Len(fs))
       <=> On(ev, p) \/ (OnlineAfter(now, es, p, Len(es)) /\ ~Off(ev, p))

\* Sending an event about p, or about another connection.
LEMMA OnlineAppend ==
  ASSUME NEW es \in Seq(NetEvent), NEW ev \in NetEvent, NEW p, NEW now \in BOOLEAN,
         NEW fs, fs = Append(es, ev)
  PROVE  SaysMore(now, es, ev, fs, p)
<1> DEFINE n == Len(es)
<1>1. /\ n \in Nat /\ Len(fs) = n + 1 /\ fs[n + 1] = ev
      /\ \A i \in 1 .. n : fs[i] = es[i]
  OBVIOUS
<1>2. ~(On(ev, p) /\ Off(ev, p))
  BY DEF On, Off
<1> HIDE DEF n
<1>3. ASSUME NEW i \in 0 .. n
      PROVE  OnlineAfter(now, fs, p, i) <=> OnlineAfter(now, es, p, i)
  <2>1. \A k \in 1 .. i : fs[k] = es[k]
    BY <1>1, <1>3
  <2>2. \A j \in 1 .. i : \A k \in j + 1 .. i : fs[k] = es[k]
    BY <1>1, <1>3
  <2> QED BY <2>1, <2>2 DEF OnlineAfter
<1>4. OnlineAfter(now, fs, p, n + 1)
        <=> On(ev, p) \/ (OnlineAfter(now, es, p, n) /\ ~Off(ev, p))
  <2>1. 1 .. (n + 1) = 1 .. n \cup {n + 1}
    BY <1>1
  <2>2. \A j \in 1 .. n : (j + 1) .. (n + 1) = (j + 1) .. n \cup {n + 1}
    BY <1>1
  <2>3. ((n + 1) + 1) .. (n + 1) = {}
    BY <1>1
  <2>4. (\A k \in 1 .. n + 1 : ~Off(fs[k], p))
          <=> (\A k \in 1 .. n : ~Off(es[k], p)) /\ ~Off(ev, p)
    BY <1>1, <2>1
  <2>5. ASSUME NEW j \in 1 .. n
        PROVE  (\A k \in j + 1 .. n + 1 : ~Off(fs[k], p))
                 <=> (\A k \in j + 1 .. n : ~Off(es[k], p)) /\ ~Off(ev, p)
    <3>1. \A k \in j + 1 .. n : fs[k] = es[k]
      BY <1>1, <2>5
    <3> QED BY <1>1, <2>2, <3>1
  <2>6. ASSUME OnlineAfter(now, fs, p, n + 1)
        PROVE  On(ev, p) \/ (OnlineAfter(now, es, p, n) /\ ~Off(ev, p))
    <3>1. CASE now /\ \A k \in 1 .. n + 1 : ~Off(fs[k], p)
      BY <2>4, <3>1 DEF OnlineAfter
    <3>2. ASSUME NEW j \in 1 .. n + 1, On(fs[j], p), \A k \in j + 1 .. n + 1 : ~Off(fs[k], p)
          PROVE  On(ev, p) \/ (OnlineAfter(now, es, p, n) /\ ~Off(ev, p))
      <4>1. CASE j = n + 1
        BY <1>1, <3>2, <4>1
      <4>2. CASE j \in 1 .. n
        BY <1>1, <2>5, <3>2, <4>2 DEF OnlineAfter
      <4> QED BY <2>1, <4>1, <4>2
    <3> QED BY <2>6, <3>1, <3>2 DEF OnlineAfter
  <2>7. ASSUME On(ev, p) PROVE OnlineAfter(now, fs, p, n + 1)
    <3>1. n + 1 \in 1 .. n + 1
      BY <1>1
    <3> QED BY <1>1, <2>3, <2>7, <3>1 DEF OnlineAfter
  <2>8. ASSUME OnlineAfter(now, es, p, n), ~Off(ev, p)
        PROVE  OnlineAfter(now, fs, p, n + 1)
    <3>1. CASE now /\ \A k \in 1 .. n : ~Off(es[k], p)
      BY <2>4, <2>8, <3>1 DEF OnlineAfter
    <3>2. ASSUME NEW j \in 1 .. n, On(es[j], p), \A k \in j + 1 .. n : ~Off(es[k], p)
          PROVE  OnlineAfter(now, fs, p, n + 1)
      <4>1. j \in 1 .. n + 1 /\ On(fs[j], p)
        BY <1>1, <2>1, <3>2
      <4>2. \A k \in j + 1 .. n + 1 : ~Off(fs[k], p)
        BY <2>5, <2>8, <3>2
      <4> QED BY <4>1, <4>2 DEF OnlineAfter
    <3> QED BY <2>8, <3>1, <3>2 DEF OnlineAfter
  <2> QED BY <2>6, <2>7, <2>8
<1> QED BY <1>1, <1>3, <1>4 DEF n, SaysMore

\* Applying the first event.
LEMMA OnlineTail ==
  ASSUME NEW es \in Seq(NetEvent), es # <<>>, NEW p, NEW now \in BOOLEAN,
         NEW next \in BOOLEAN, NEW ev, ev = Head(es),
         next <=> On(ev, p) \/ (now /\ ~Off(ev, p)), NEW i \in 1 .. Len(es)
  PROVE  OnlineAfter(next, Tail(es), p, i - 1) <=> OnlineAfter(now, es, p, i)
<1> DEFINE fs == Tail(es)
<1>1. /\ ev = es[1] /\ Len(es) \in Nat /\ Len(fs) = Len(es) - 1
      /\ \A k \in 1 .. Len(es) - 1 : fs[k] = es[k + 1]
  OBVIOUS
<1> HIDE DEF fs
<1>2. ~(On(ev, p) /\ Off(ev, p))
  BY DEF On, Off
<1>3. \A k \in 1 .. i - 1 : k + 1 \in 2 .. i /\ fs[k] = es[k + 1]
  BY <1>1
<1>4. \A k \in 2 .. i : k - 1 \in 1 .. i - 1 /\ fs[k - 1] = es[k]
  <2> TAKE k \in 2 .. i
  <2>1. k - 1 \in 1 .. i - 1 /\ (k - 1) + 1 = k
    OBVIOUS
  <2> QED BY <1>3, <2>1
<1>5. (\A k \in 1 .. i - 1 : ~Off(fs[k], p)) <=> \A k \in 2 .. i : ~Off(es[k], p)
  BY <1>3, <1>4
<1>6. ASSUME NEW j \in 1 .. i - 1
      PROVE  (\A k \in j + 1 .. i - 1 : ~Off(fs[k], p))
               <=> \A k \in (j + 1) + 1 .. i : ~Off(es[k], p)
  <2>1. ASSUME \A k \in j + 1 .. i - 1 : ~Off(fs[k], p), NEW k \in (j + 1) + 1 .. i
        PROVE  ~Off(es[k], p)
    <3>1. k - 1 \in j + 1 .. i - 1 /\ k \in 2 .. i
      OBVIOUS
    <3> QED BY <1>4, <2>1, <3>1
  <2>2. ASSUME \A k \in (j + 1) + 1 .. i : ~Off(es[k], p), NEW k \in j + 1 .. i - 1
        PROVE  ~Off(fs[k], p)
    <3>1. k + 1 \in (j + 1) + 1 .. i /\ k \in 1 .. i - 1
      OBVIOUS
    <3> QED BY <1>3, <2>2, <3>1
  <2> QED BY <2>1, <2>2
<1>7. ASSUME OnlineAfter(next, fs, p, i - 1) PROVE OnlineAfter(now, es, p, i)
  <2>1. CASE next /\ \A k \in 1 .. i - 1 : ~Off(fs[k], p)
    <3>1. \A k \in 2 .. i : ~Off(es[k], p)
      BY <1>5, <2>1
    <3>2. CASE On(ev, p)
      <4>1. 1 \in 1 .. i /\ 1 + 1 = 2
        OBVIOUS
      <4> QED BY <1>1, <3>1, <3>2, <4>1 DEF OnlineAfter
    <3>3. CASE now /\ ~Off(ev, p)
      <4>1. \A k \in 1 .. i : k = 1 \/ k \in 2 .. i
        OBVIOUS
      <4> QED BY <1>1, <3>1, <3>3, <4>1 DEF OnlineAfter
    <3> QED BY <2>1, <3>2, <3>3
  <2>2. ASSUME NEW j \in 1 .. i - 1, On(fs[j], p), \A k \in j + 1 .. i - 1 : ~Off(fs[k], p)
        PROVE  OnlineAfter(now, es, p, i)
    <3>1. j + 1 \in 1 .. i /\ On(es[j + 1], p)
      BY <1>3, <2>2
    <3>2. \A k \in (j + 1) + 1 .. i : ~Off(es[k], p)
      BY <1>6, <2>2
    <3> QED BY <3>1, <3>2 DEF OnlineAfter
  <2> QED BY <1>7, <2>1, <2>2 DEF OnlineAfter
<1>8. ASSUME OnlineAfter(now, es, p, i) PROVE OnlineAfter(next, fs, p, i - 1)
  <2>1. CASE now /\ \A k \in 1 .. i : ~Off(es[k], p)
    <3>1. 1 \in 1 .. i /\ \A k \in 2 .. i : k \in 1 .. i
      OBVIOUS
    <3>2. next /\ \A k \in 2 .. i : ~Off(es[k], p)
      BY <1>1, <2>1, <3>1
    <3> QED BY <1>5, <3>2 DEF OnlineAfter
  <2>2. ASSUME NEW j \in 1 .. i, On(es[j], p), \A k \in j + 1 .. i : ~Off(es[k], p)
        PROVE  OnlineAfter(next, fs, p, i - 1)
    <3>1. CASE j = 1
      <4>1. next /\ \A k \in 2 .. i : ~Off(es[k], p)
        BY <1>1, <2>2, <3>1
      <4> QED BY <1>5, <4>1 DEF OnlineAfter
    <3>2. CASE j # 1
      <4>1. j - 1 \in 1 .. i - 1 /\ (j - 1) + 1 = j /\ j \in 2 .. i
        BY <3>2
      <4>2. On(fs[j - 1], p) /\ \A k \in (j - 1) + 1 .. i - 1 : ~Off(fs[k], p)
        BY <1>4, <1>6, <2>2, <4>1
      <4> QED BY <4>1, <4>2 DEF OnlineAfter
    <3> QED BY <3>1, <3>2
  <2> QED BY <1>8, <2>1, <2>2 DEF OnlineAfter
<1> QED BY <1>7, <1>8 DEF fs

\* Nothing is sent or applied, and p is up if it was.
LEMMA NoNews ==
  ASSUME NEW p, Announced(p), toUi' = toUi, OnlineNow(p)' = OnlineNow(p),
         Up(p)' <=> Up(p)
  PROVE  Announced(p)'
BY DEF Announced

\* An event is sent, about p or about another connection.
LEMMA News ==
  ASSUME NEW p, Announced(p), peers' = peers, toUi \in Seq(NetEvent),
         NEW ev \in NetEvent, toUi' = Append(toUi, ev),
         Up(p)' <=> On(ev, p) \/ (Up(p) /\ ~Off(ev, p)),
         IsMessage(ev, p) => Up(p)'
  PROVE  Announced(p)'
<1> DEFINE now == OnlineNow(p)
           es == toUi
           fs == toUi'
<1>1. /\ OnlineAfter(now, es, p, Len(es)) <=> Up(p)
      /\ \A i \in DOMAIN es : IsMessage(es[i], p) => OnlineAfter(now, es, p, i)
  BY DEF Announced
<1>2. OnlineNow(p)' = now
  BY DEF OnlineNow
<1>3. now \in BOOLEAN
  BY DEF OnlineNow, OnlineIn
<1>4. es \in Seq(NetEvent) /\ fs = Append(es, ev)
  OBVIOUS
<1> HIDE DEF now, es, fs
<1>5. /\ Len(fs) = Len(es) + 1 /\ fs[Len(fs)] = ev
      /\ \A i \in 1 .. Len(es) : fs[i] = es[i]
      /\ \A i \in 0 .. Len(es) : OnlineAfter(now, fs, p, i) <=> OnlineAfter(now, es, p, i)
      /\ OnlineAfter(now, fs, p, Len(fs))
           <=> On(ev, p) \/ (OnlineAfter(now, es, p, Len(es)) /\ ~Off(ev, p))
  <2>1. SaysMore(now, es, ev, fs, p)
    BY <1>3, <1>4, OnlineAppend
  <2> QED BY <2>1 DEF SaysMore
<1>6. OnlineAfter(now, fs, p, Len(fs)) <=> Up(p)'
  BY <1>1, <1>5
<1>7. ASSUME NEW i \in DOMAIN fs, IsMessage(fs[i], p) PROVE OnlineAfter(now, fs, p, i)
  <2>1. /\ Len(es) \in Nat /\ DOMAIN es = 1 .. Len(es) /\ DOMAIN fs = 1 .. Len(es) + 1
    BY <1>4
  <2>2. CASE i = Len(fs)
    BY <1>5, <1>6, <1>7, <2>2
  <2>3. CASE i # Len(fs)
    <3>1. i \in 1 .. Len(es) /\ i \in 0 .. Len(es)
      BY <1>5, <2>1, <2>3
    <3> QED BY <1>1, <1>5, <1>7, <2>1, <3>1
  <2> QED BY <2>2, <2>3
<1> QED BY <1>2, <1>6, <1>7 DEF Announced, fs

\* The UI loop applies the first event.
LEMMA Applied ==
  ASSUME NEW p \in PeerId, Announced(p), toUi \in Seq(NetEvent), toUi # <<>>,
         toUi' = Tail(toUi), NEW ev, ev = Head(toUi), UiEffect(ev), tasks' = tasks
  PROVE  Announced(p)'
<1> DEFINE now == OnlineNow(p)
           next == OnlineIn(peers', p)
           es == toUi
           fs == toUi'
<1>1. /\ OnlineAfter(now, es, p, Len(es)) <=> Up(p)
      /\ \A i \in DOMAIN es : IsMessage(es[i], p) => OnlineAfter(now, es, p, i)
  BY DEF Announced
<1>2. OnlineNow(p)' = next
  BY DEF OnlineNow
<1>3. now \in BOOLEAN /\ next \in BOOLEAN
  BY DEF OnlineNow, OnlineIn
<1>4. es \in Seq(NetEvent) /\ es # <<>> /\ ev = Head(es) /\ fs = Tail(es)
  OBVIOUS
<1>5. next <=> On(ev, p) \/ (now /\ ~Off(ev, p))
  BY DEF UiEffect, OnlineNow
<1> HIDE DEF now, next, es, fs
<1>6. /\ Len(es) \in Nat \ {0} /\ DOMAIN es = 1 .. Len(es) /\ Len(fs) = Len(es) - 1
      /\ DOMAIN fs = 1 .. Len(es) - 1 /\ \A i \in DOMAIN fs : fs[i] = es[i + 1]
  BY <1>4
<1>7. ASSUME NEW i \in 1 .. Len(es)
      PROVE  OnlineAfter(next, fs, p, i - 1) <=> OnlineAfter(now, es, p, i)
  BY <1>3, <1>4, <1>5, OnlineTail
<1>8. OnlineAfter(next, fs, p, Len(fs)) <=> Up(p)
  <2>1. Len(es) \in 1 .. Len(es)
    BY <1>6
  <2> QED BY <1>1, <1>6, <1>7, <2>1
<1>9. ASSUME NEW i \in DOMAIN fs, IsMessage(fs[i], p) PROVE OnlineAfter(next, fs, p, i)
  <2>1. i + 1 \in 1 .. Len(es) /\ (i + 1) - 1 = i
    BY <1>6
  <2>2. OnlineAfter(now, es, p, i + 1)
    BY <1>1, <1>6, <1>9, <2>1
  <2>3. OnlineAfter(next, fs, p, (i + 1) - 1)
    BY <1>7, <2>1, <2>2
  <2> QED BY <2>1, <2>3
<1>10. Up(p)' <=> Up(p)
  BY DEF Up
<1> QED BY <1>2, <1>8, <1>9, <1>10 DEF Announced, fs

\* The initial state satisfies the invariant.
LEMMA InitView == Init => ViewInv
<1> SUFFICES ASSUME Init PROVE ViewInv
  OBVIOUS
<1>1. /\ \A p \in PeerId : tasks[p].pc = "none"
      /\ toUi = <<>> /\ fromUi = <<>> /\ hangups = {} /\ DOMAIN peers = {}
  BY DEF Init, NetworkInit, ChannelInit, AppInit, NewTask
<1>2. \A p \in PeerId : ~OnlineAfter(OnlineNow(p), toUi, p, Len(toUi))
  <2>1. Len(toUi) = 0 /\ 1 .. 0 = {}
    BY <1>1
  <2> QED BY <1>1, <2>1 DEF OnlineAfter, OnlineNow, OnlineIn
<1>3. DOMAIN toUi = {} /\ DOMAIN fromUi = {}
  BY <1>1
<1> QED BY <1>1, <1>2, <1>3 DEF ViewInv, ServeInv, Announced, Up

\* A command joins the queue, or the first one leaves it.
LEMMA NoShutdown ==
  ASSUME fromUi \in Seq(UiCommand), \A i \in DOMAIN fromUi : fromUi[i].type # "Shutdown",
         \/ fromUi' = fromUi
         \/ \E cmd \in UiCommand : cmd.type # "Shutdown" /\ fromUi' = Append(fromUi, cmd)
         \/ fromUi # <<>> /\ fromUi' = Tail(fromUi)
  PROVE  \A i \in DOMAIN fromUi' : fromUi'[i].type # "Shutdown"
<1>1. CASE fromUi' = fromUi
  BY <1>1
<1>2. ASSUME NEW cmd \in UiCommand, cmd.type # "Shutdown", fromUi' = Append(fromUi, cmd)
      PROVE  \A i \in DOMAIN fromUi' : fromUi'[i].type # "Shutdown"
  <2>1. \A i \in DOMAIN fromUi' :
          fromUi'[i] = cmd \/ (i \in DOMAIN fromUi /\ fromUi'[i] = fromUi[i])
    BY <1>2
  <2> QED BY <1>2, <2>1
<1>3. CASE fromUi # <<>> /\ fromUi' = Tail(fromUi)
  <2>1. \A i \in DOMAIN fromUi' : i + 1 \in DOMAIN fromUi /\ fromUi'[i] = fromUi[i + 1]
    BY <1>3
  <2> QED BY <2>1
<1> QED BY <1>1, <1>2, <1>3

\* The user asks for something, or quits.
LEMMA UserServe ==
  ASSUME Inv, ServeInv, UserConnect \/ UserKey
  PROVE  ServeInv'
<1>1. fromUi \in Seq(UiCommand) /\ UNCHANGED <<serving, tasks, hangups, routes>>
  BY DEF Inv, ChannelTypeOK, UserConnect, Connect, UserKey, OnKey, SendToActive,
         Disconnect, Quit, CycleActive, PageUp, PageDown, channels, netVars
<1>2. CASE Quit
  <2>1. running' = FALSE
    BY <1>2 DEF Quit
  <2> QED BY <1>1, <2>1 DEF ServeInv
<1>3. ASSUME NEW cmd \in UiCommand, cmd.type # "Shutdown", Command(cmd), running' = running
      PROVE  ServeInv'
  <2>1. fromUi' = fromUi \/ fromUi' = Append(fromUi, cmd)
    BY <1>3 DEF Command
  <2>2. running => \A i \in DOMAIN fromUi' : fromUi'[i].type # "Shutdown"
    BY <1>1, <1>3, <2>1, NoShutdown DEF ServeInv
  <2> QED BY <1>1, <1>3, <2>2 DEF ServeInv
<1>4. CASE SendToActive
  <2> DEFINE cmd == [type |-> "Send", peer |-> active, body |-> logged + 1]
  <2>1. active \in PeerId /\ logged + 1 \in Nat
    BY <1>4 DEF SendToActive, Inv, AppInv, AppTypeOK
  <2>2. cmd \in UiCommand /\ cmd.type # "Shutdown"
    BY <2>1 DEF UiCommand
  <2>3. Command(cmd) /\ running' = running
    BY <1>4 DEF SendToActive
  <2> HIDE DEF cmd
  <2> QED BY <1>3, <2>2, <2>3
<1>5. CASE Disconnect
  <2> DEFINE cmd == [type |-> "Disconnect", peer |-> active]
  <2>1. active \in PeerId
    BY <1>5 DEF Disconnect, Inv, AppInv, AppTypeOK
  <2>2. cmd \in UiCommand /\ cmd.type # "Shutdown"
    BY <2>1 DEF UiCommand
  <2>3. Command(cmd) /\ running' = running
    BY <1>5 DEF Disconnect
  <2> HIDE DEF cmd
  <2> QED BY <1>3, <2>2, <2>3
<1>6. CASE UserConnect
  <2>1. PICK a \in Address : Connect(a)
    BY <1>6 DEF UserConnect
  <2> DEFINE cmd == [type |-> "Connect", onion |-> a]
  <2>2. cmd \in UiCommand /\ cmd.type # "Shutdown"
    BY DEF UiCommand
  <2>3. Command(cmd) /\ running' = running
    BY <2>1 DEF Connect
  <2> HIDE DEF cmd
  <2> QED BY <1>3, <2>2, <2>3
<1>7. CASE PageUp \/ PageDown \/ \E delta \in {1, -1} : CycleActive(delta)
  <2>1. UNCHANGED <<fromUi, running>>
    BY <1>7 DEF PageUp, PageDown, CycleActive, channels
  <2> QED BY <1>1, <2>1 DEF ServeInv
<1> QED BY <1>2, <1>4, <1>5, <1>6, <1>7 DEF UserKey, OnKey

\* The manager spawns under fresh PeerIds, and drops routes that have a task.
LEMMA ManagerServe ==
  ASSUME Inv, RouteInv, ServeInv, ManagerStep
  PROVE  ServeInv'
<1>1. /\ fromUi \in Seq(UiCommand) /\ tasks \in [PeerId -> Task]
      /\ hangups \subseteq PeerId /\ routes \subseteq PeerId /\ serving
  BY DEF Inv, NetInv, NetworkTypeOK, ChannelTypeOK, ManagerStep, Manager, ManagerConnect,
         ManagerSend, ManagerDisconnect, TakeCommand, ManagerShutdown, ManagerInbound,
         ManagerDone
<1>2. CASE ManagerShutdown
  <2>1. /\ fromUi # <<>> /\ Head(fromUi).type = "Shutdown" /\ routes' = {}
        /\ UNCHANGED <<running, tasks, hangups>>
    BY <1>2 DEF ManagerShutdown
  <2>2. ~running
    <3>1. 1 \in DOMAIN fromUi /\ Head(fromUi) = fromUi[1]
      BY <1>1, <2>1
    <3> QED BY <2>1, <3>1 DEF ServeInv
  <2> QED BY <2>1, <2>2 DEF ServeInv
<1>3. CASE ~ManagerShutdown
  <2>1. /\ UNCHANGED <<running, serving>>
        /\ fromUi' = fromUi \/ (fromUi # <<>> /\ fromUi' = Tail(fromUi))
    BY <1>3 DEF ManagerStep, Manager, ManagerConnect, ManagerSend, ManagerDisconnect,
                TakeCommand, ManagerInbound, ManagerDone, channels
  <2>2. running => \A i \in DOMAIN fromUi' : fromUi'[i].type # "Shutdown"
    BY <1>1, <2>1, NoShutdown DEF ServeInv
  <2>3. (\A p \in hangups' : tasks'[p].pc # "none") /\ routes' \cap hangups' = {}
    <3>1. ASSUME NEW task \in Task, Spawn(task), hangups' = hangups
          PROVE  (\A p \in hangups' : tasks'[p].pc # "none") /\ routes' \cap hangups' = {}
      <4>1. next_id \in PeerId /\ next_id \in Nat
        BY <3>1, MessageAssumption DEF Spawn, PeerId
      <4>2. tasks[next_id].pc = "none"
        BY <4>1 DEF RouteInv, FreshIds
      <4>3. next_id \notin hangups
        BY <4>2 DEF ServeInv
      <4> QED BY <1>1, <3>1, <4>1, <4>3 DEF Spawn, ServeInv
    <3>2. CASE ManagerConnect
      <4> DEFINE cmd == Head(fromUi)
                 task == NewTask("dial", normalize_onion(cmd.onion), FALSE)
      <4>1. cmd \in UiCommand /\ cmd.type = "Connect"
        BY <1>1, <3>2, HeadTail DEF ManagerConnect, TakeCommand
      <4>2. normalize_onion(cmd.onion) \in Onion
        BY <4>1, CommandFields DEF Address, normalize_onion
      <4>3. task \in Task
        BY <4>2, FreshTask
      <4>4. Spawn(task) /\ hangups' = hangups
        BY <3>2 DEF ManagerConnect
      <4> HIDE DEF task
      <4> QED BY <3>1, <4>3, <4>4
    <3>3. CASE ManagerInbound
      <4> DEFINE task == NewTask("conn", NoOnion, TRUE)
      <4>1. task \in Task
        BY FreshTask
      <4>2. Spawn(task) /\ hangups' = hangups
        BY <3>3 DEF ManagerInbound
      <4> HIDE DEF task
      <4> QED BY <3>1, <4>1, <4>2
    <3>4. CASE ManagerDisconnect
      <4>1. PICK p : /\ IF p \in routes
                          THEN routes' = routes \ {p} /\ hangups' = hangups \cup {p}
                          ELSE UNCHANGED <<routes, hangups>>
                     /\ tasks' = tasks
        BY <3>4 DEF ManagerDisconnect
      <4>2. p \in routes => tasks[p].pc # "none"
        BY <1>1 DEF RouteInv, RoutesMatchTasks, DoneEnded
      <4> QED BY <4>1, <4>2 DEF ServeInv
    <3>5. CASE ManagerSend \/ ManagerDone
      BY <3>5 DEF ManagerSend, ManagerDone, ServeInv
    <3> QED BY <1>3, <3>2, <3>3, <3>4, <3>5 DEF ManagerStep, Manager
  <2> QED BY <1>1, <2>1, <2>2, <2>3 DEF ServeInv
<1> QED BY <1>2, <1>3

\* Every step of the system preserves what the manager and the user agree on.
LEMMA NextServe == Inv /\ RouteInv /\ ServeInv /\ [Next]_vars => ServeInv'
<1> SUFFICES ASSUME Inv, RouteInv, ServeInv, [Next]_vars PROVE ServeInv'
  OBVIOUS
<1>1. CASE UiEvent \/ RemoteDials \/ UNCHANGED vars
  <2>1. UNCHANGED <<running, serving, fromUi, tasks, hangups, routes>>
    BY <1>1 DEF UiEvent, ApplyNetEvent, PeerConnected, PeerDisconnected, PeerError,
                MessageLogged, MessageDropped, Receive, RemoteDials, Accept, channels,
                netVars, vars
  <2> QED BY <2>1 DEF ServeInv
<1>2. CASE ConnectionStep
  <2>1. PICK p \in PeerId : Connection(p)
    BY <1>2 DEF ConnectionStep
  <2>2. /\ tasks \in [PeerId -> Task] /\ hangups \subseteq PeerId
        /\ tasks[p].pc \notin {"none", "done"}
        /\ UNCHANGED <<running, serving, fromUi, hangups, routes>>
    BY <2>1 DEF Inv, NetInv, NetworkTypeOK, Up, TaskFrame, Connection, DialOk, DialFail,
                ConnRecv, ConnWrite, ConnStuck, ConnLocalClosed, ConnLost, WaitDrop,
                WaitClosed, WaitElapsed
  <2>3. Kept(tasks, tasks')
    BY <2>1, ConnectionKeeps
  <2> QED BY <2>2, <2>3 DEF ServeInv, Kept
<1> QED BY <1>1, <1>2, UserServe, ManagerServe DEF Next

\* Connection e sends an event that tells whether it is up afterwards.
LEMMA OneTells ==
  ASSUME Inv, ViewInv, running, UNCHANGED peers, hangups \subseteq hangups',
         NEW e \in PeerId, NEW ev \in NetEvent, ev.peer = e, toUi' = Append(toUi, ev),
         \A q \in PeerId : q # e => tasks'[q].pc = tasks[q].pc,
         e \notin hangups' =>
           /\ Up(e)' <=> On(ev, e) \/ (Up(e) /\ ~Off(ev, e))
           /\ IsMessage(ev, e) => Up(e)'
  PROVE  \A p \in PeerId \ hangups' : Announced(p)'
<1> SUFFICES ASSUME NEW p \in PeerId \ hangups' PROVE Announced(p)'
  OBVIOUS
<1>1. Announced(p) /\ toUi \in Seq(NetEvent)
  BY DEF ViewInv, Inv, ChannelTypeOK
<1>2. /\ Up(p)' <=> On(ev, p) \/ (Up(p) /\ ~Off(ev, p))
      /\ IsMessage(ev, p) => Up(p)'
  <2>1. CASE p = e
    BY <2>1
  <2>2. CASE p # e
    BY <2>2 DEF On, Off, IsMessage, Up
  <2> QED BY <2>1, <2>2
<1> QED BY <1>1, <1>2, News

\* Nothing is sent and who is up stays up, except what the user dropped.
LEMMA NoneTells ==
  ASSUME ViewInv, running, UNCHANGED <<peers, toUi>>, hangups \subseteq hangups',
         \A p \in PeerId \ hangups' : Up(p)' <=> Up(p)
  PROVE  \A p \in PeerId \ hangups' : Announced(p)'
<1> SUFFICES ASSUME NEW p \in PeerId \ hangups' PROVE Announced(p)'
  OBVIOUS
<1>1. Announced(p) /\ OnlineNow(p)' = OnlineNow(p)
  BY DEF ViewInv, OnlineNow
<1> QED BY <1>1, NoNews

\* A connection's task announces what becomes of its connection; one that ends
\* silently was dropped by the user.
LEMMA ConnectionView ==
  ASSUME Inv, RouteInv, ViewInv, ConnectionStep, running'
  PROVE  \A p \in PeerId \ hangups' : Announced(p)'
<1>1. PICK e \in PeerId : Connection(e)
  BY DEF ConnectionStep
<1>2. /\ running /\ UNCHANGED <<peers, hangups, routes, serving>>
      /\ tasks \in [PeerId -> Task]
  BY <1>1 DEF ConnectionStep, appVars, Inv, NetInv, NetworkTypeOK, TaskFrame, Connection,
              DialOk, DialFail, ConnRecv, ConnWrite, ConnStuck, ConnLocalClosed, ConnLost,
              WaitDrop, WaitClosed, WaitElapsed
<1>3. \A p \in PeerId : p # e => tasks'[p].pc = tasks[p].pc
  BY <1>1, <1>2 DEF Connection, DialOk, DialFail, ConnRecv, ConnWrite, ConnStuck,
     ConnLocalClosed, ConnLost, WaitDrop, WaitClosed, WaitElapsed, Finish, wait_or_closed
<1>4. ASSUME NEW pc, tasks' = [tasks EXCEPT ![e].pc = pc] PROVE tasks'[e].pc = pc
  BY <1>2, <1>4 DEF Task
<1>5. CASE DialOk(e)
  <2> DEFINE ev == [type |-> "PeerConnected", peer |-> e,
                    onion |-> WithSuffix(tasks[e].onion), inbound |-> FALSE]
  <2>1. tasks[e].onion \in Onion
    BY <1>5 DEF DialOk, Inv, NetInv, OnionKnown, TaskOK
  <2>2. ev \in NetEvent /\ ev.peer = e /\ On(ev, e) /\ ~IsMessage(ev, e)
    BY <2>1 DEF NetEvent, WithSuffix, Address, On, IsMessage
  <2>3. Emit(ev)
    BY <1>5 DEF DialOk
  <2> HIDE DEF ev
  <2>4. toUi' = Append(toUi, ev)
    BY <1>2, <2>3 DEF Emit
  <2>5. Up(e)'
    BY <1>2, <1>5 DEF DialOk, Task, Up
  <2> QED BY <1>2, <1>3, <2>2, <2>4, <2>5, OneTells
<1>6. CASE DialFail(e) \/ ConnLost(e)
  <2> DEFINE ev == [type |-> "PeerError", peer |-> e]
  <2>1. ev \in NetEvent /\ ev.peer = e /\ Off(ev, e) /\ ~On(ev, e) /\ ~IsMessage(ev, e)
    BY DEF NetEvent, Off, On, IsMessage
  <2>2. Emit(ev)
    BY <1>6 DEF DialFail, ConnLost
  <2> HIDE DEF ev
  <2>3. toUi' = Append(toUi, ev)
    BY <1>2, <2>2 DEF Emit
  <2>4. tasks'[e].pc \in {"done", "wait"}
    BY <1>4, <1>6 DEF DialFail, ConnLost, wait_or_closed, Finish
  <2>5. ~Up(e)'
    BY <2>4 DEF Up
  <2> QED BY <1>2, <1>3, <2>1, <2>3, <2>5, OneTells
<1>7. CASE ConnRecv(e)
  <2>1. PICK claim \in Claim :
          /\ Emit([type |-> "Message", peer |-> e, from_onion |-> claim,
                   body |-> received[e] + 1])
          /\ \/ tasks' = tasks
             \/ tasks' = [tasks EXCEPT ![e].onion = normalize_onion(claim)]
    BY <1>7 DEF ConnRecv
  <2> DEFINE ev == [type |-> "Message", peer |-> e, from_onion |-> claim,
                    body |-> received[e] + 1]
  <2>2. claim \in Address \cup {NoOnion} /\ received[e] + 1 \in Nat
    BY NetworkAssumption DEF Inv, NetInv, NetworkTypeOK
  <2>3. ev \in NetEvent /\ ev.peer = e /\ ~On(ev, e) /\ ~Off(ev, e)
    BY <2>2 DEF NetEvent, On, Off
  <2>4. Emit(ev)
    BY <2>1
  <2> HIDE DEF ev
  <2>5. toUi' = Append(toUi, ev)
    BY <1>2, <2>4 DEF Emit
  <2>6. tasks[e].pc = "conn" /\ tasks'[e].pc = "conn"
    BY <1>2, <1>7, <2>1 DEF ConnRecv, Task
  <2>7. Up(e) /\ Up(e)'
    BY <2>6 DEF Up
  <2> QED BY <1>2, <1>3, <2>3, <2>5, <2>7, OneTells
<1>8. CASE ConnLocalClosed(e)
  <2>1. toUi' = toUi /\ tasks[e].pc = "conn" /\ e \notin routes
    BY <1>8 DEF ConnLocalClosed, closed
  <2>2. serving
    BY <1>2, <2>1 DEF ViewInv, ServeInv
  <2>3. e \in hangups
    BY <2>1, <2>2 DEF RouteInv, RoutesMatchTasks
  <2>4. \A p \in PeerId \ hangups' : Up(p)' <=> Up(p)
    BY <1>2, <1>3, <2>3 DEF Up
  <2> QED BY <1>2, <2>1, <2>4, NoneTells
<1>9. CASE ConnWrite(e) \/ WaitDrop(e)
  <2>1. UNCHANGED <<toUi, tasks>>
    BY <1>9 DEF ConnWrite, WaitDrop
  <2>2. \A p \in PeerId \ hangups' : Up(p)' <=> Up(p)
    BY <2>1 DEF Up
  <2> QED BY <1>2, <2>1, <2>2, NoneTells
<1>10. CASE ConnStuck(e)
  <2>1. toUi' = toUi /\ tasks[e].pc = "conn" /\ tasks' = [tasks EXCEPT ![e].pc = "stuck"]
    BY <1>10 DEF ConnStuck
  <2>2. \A p \in PeerId \ hangups' : Up(p)' <=> Up(p)
    BY <1>3, <1>4, <2>1 DEF Up
  <2> QED BY <1>2, <2>1, <2>2, NoneTells
<1>11. CASE WaitClosed(e) \/ WaitElapsed(e)
  <2>1. toUi' = toUi /\ tasks[e].pc = "wait"
    BY <1>11 DEF WaitClosed, WaitElapsed
  <2>2. tasks'[e].pc \in {"done", "dial"}
    <3>1. CASE WaitClosed(e)
      BY <1>4, <3>1 DEF WaitClosed, Finish
    <3>2. CASE WaitElapsed(e)
      BY <1>2, <3>2 DEF WaitElapsed, Task
    <3> QED BY <1>11, <3>1, <3>2
  <2>3. \A p \in PeerId \ hangups' : Up(p)' <=> Up(p)
    BY <1>3, <2>1, <2>2 DEF Up
  <2> QED BY <1>2, <2>1, <2>3, NoneTells
<1> QED BY <1>1, <1>5, <1>6, <1>7, <1>8, <1>9, <1>10, <1>11 DEF Connection

\* The manager announces the connections it accepts and those it drops.
LEMMA ManagerView ==
  ASSUME Inv, RouteInv, ViewInv, ManagerStep, running'
  PROVE  \A p \in PeerId \ hangups' : Announced(p)'
<1>1. /\ running /\ peers' = peers /\ hangups \subseteq hangups'
      /\ tasks \in [PeerId -> Task] /\ fromUi \in Seq(UiCommand)
  BY DEF ManagerStep, appVars, Inv, NetInv, NetworkTypeOK, ChannelTypeOK, Manager,
         ManagerConnect, ManagerSend, ManagerDisconnect, TakeCommand, ManagerShutdown,
         ManagerInbound, ManagerDone, channels
<1>2. ASSUME NEW task, Spawn(task)
      PROVE  /\ next_id \in PeerId /\ tasks[next_id].pc = "none"
             /\ tasks'[next_id] = task
             /\ \A q \in PeerId : q # next_id => tasks'[q] = tasks[q]
  <2>1. next_id \in PeerId /\ next_id \in Nat /\ tasks' = [tasks EXCEPT ![next_id] = task]
    BY <1>2, MessageAssumption DEF Spawn, PeerId
  <2>2. tasks[next_id].pc = "none"
    BY <2>1 DEF RouteInv, FreshIds
  <2> QED BY <1>1, <2>1, <2>2
<1>3. CASE ManagerInbound
  <2> DEFINE task == NewTask("conn", NoOnion, TRUE)
             ev == [type |-> "PeerConnected", peer |-> next_id, onion |-> NoOnion,
                    inbound |-> TRUE]
  <2>1. Spawn(task) /\ Emit(ev) /\ task.pc = "conn"
    BY <1>3 DEF ManagerInbound, NewTask
  <2> HIDE DEF task
  <2>2. PICK e \in PeerId : e = next_id
    BY <1>2, <2>1
  <2>a. Up(e)' /\ \A q \in PeerId : q # e => tasks'[q].pc = tasks[q].pc
    BY <1>2, <2>1, <2>2 DEF Up
  <2>3. ev \in NetEvent /\ ev.peer = e /\ On(ev, e) /\ ~IsMessage(ev, e)
    BY <2>2 DEF NetEvent, On, IsMessage
  <2> HIDE DEF ev
  <2>4. toUi' = Append(toUi, ev)
    BY <1>1, <2>1 DEF Emit
  <2> QED BY <1>1, <2>a, <2>3, <2>4, OneTells
<1>4. CASE ManagerConnect
  <2> DEFINE task == NewTask("dial", normalize_onion(Head(fromUi).onion), FALSE)
  <2>1. Spawn(task) /\ toUi' = toUi /\ task.pc = "dial"
    BY <1>4 DEF ManagerConnect, NewTask
  <2> HIDE DEF task
  <2>2. \A q \in PeerId : Up(q)' <=> Up(q)
    BY <1>2, <2>1 DEF Up
  <2> QED BY <1>1, <2>1, <2>2, NoneTells
<1>5. CASE ManagerDisconnect
  <2> DEFINE p == Head(fromUi).peer
             ev == [type |-> "PeerDisconnected", peer |-> p]
  <2>1. p \in PeerId
    BY <1>1, <1>5, HeadTail, CommandFields DEF ManagerDisconnect, TakeCommand
  <2>2. tasks' = tasks /\ IF p \in routes
                            THEN hangups' = hangups \cup {p} /\ Emit(ev)
                            ELSE toUi' = toUi
    BY <1>5 DEF ManagerDisconnect
  <2>3. ev \in NetEvent /\ ev.peer = p
    BY <2>1 DEF NetEvent
  <2>a. \A q \in PeerId : Up(q)' <=> Up(q)
    BY <2>2 DEF Up
  <2> HIDE DEF ev, p
  <2>4. CASE p \in routes
    <3>1. toUi' = Append(toUi, ev) /\ p \in hangups'
      BY <1>1, <2>2, <2>4 DEF Emit
    <3> QED BY <1>1, <2>1, <2>2, <2>3, <3>1, OneTells
  <2>5. CASE p \notin routes
    BY <1>1, <2>2, <2>a, <2>5, NoneTells
  <2> QED BY <2>4, <2>5
<1>6. CASE ManagerSend \/ ManagerShutdown \/ ManagerDone
  <2>1. UNCHANGED <<toUi, tasks>>
    BY <1>6 DEF ManagerSend, ManagerShutdown, ManagerDone, channels
  <2>2. \A q \in PeerId : Up(q)' <=> Up(q)
    BY <2>1 DEF Up
  <2> QED BY <1>1, <2>1, <2>2, NoneTells
<1> QED BY <1>3, <1>4, <1>5, <1>6 DEF ManagerStep, Manager

\* The UI loop and the user.
LEMMA UiView ==
  ASSUME Inv, HistInv, ViewInv, running',
         UiEvent \/ UserConnect \/ UserKey \/ RemoteDials \/ UNCHANGED vars
  PROVE  \A p \in PeerId \ hangups' : Announced(p)'
<1> SUFFICES ASSUME NEW p \in PeerId \ hangups' PROVE Announced(p)'
  OBVIOUS
<1>1. UNCHANGED <<tasks, hangups>> /\ toUi \in Seq(NetEvent) /\ logged \in Nat
  BY DEF UiEvent, UserConnect, UserKey, RemoteDials, Accept, netVars, vars, Inv,
         ChannelTypeOK, AppInv, AppTypeOK
<1>2. running
  BY DEF UiEvent, ApplyNetEvent, PeerConnected, PeerDisconnected, PeerError, MessageLogged,
         MessageDropped, Receive, UserConnect, Connect, UserKey, OnKey, SendToActive,
         Disconnect, Quit, CycleActive, PageUp, PageDown, RemoteDials, Accept, channels, vars
<1>3. Announced(p) /\ (Up(p)' <=> Up(p))
  BY <1>1, <1>2 DEF ViewInv, Up
<1>4. CASE UiEvent
  <2> DEFINE ev == Head(toUi)
  <2>1. toUi # <<>> /\ toUi' = Tail(toUi)
    BY <1>4 DEF UiEvent, ApplyNetEvent, PeerConnected, PeerDisconnected, PeerError,
                MessageLogged, MessageDropped, Receive
  <2>2. UiEffect(ev)
    <3>1. Apart(peers) /\ \A l \in LinesIn(peers) : l.at # logged + 1
      BY <1>1 DEF HistInv
    <3> QED BY <1>4, <3>1, EventEffect
  <2> QED BY <1>1, <1>3, <2>1, <2>2, Applied
<1>5. CASE SendToActive
  <2>1. toUi' = toUi /\ OnlineNow(p)' = OnlineNow(p)
    <3>1. OnlineIn(peers', p) <=> OnlineIn(peers, p)
      BY <1>5, TypedLine
    <3>2. toUi' = toUi
      BY <1>5 DEF SendToActive
    <3>3. OnlineIn(peers', p) \in BOOLEAN /\ OnlineIn(peers, p) \in BOOLEAN
      BY DEF OnlineIn
    <3>4. OnlineIn(peers', p) = OnlineIn(peers, p)
      BY <3>1, <3>3
    <3> QED BY <3>2, <3>4 DEF OnlineNow
  <2> QED BY <1>1, <1>3, <2>1, NoNews
<1>6. CASE UserConnect \/ (UserKey /\ ~SendToActive) \/ RemoteDials \/ UNCHANGED vars
  <2>1. UNCHANGED <<peers, toUi>>
    BY <1>6 DEF UserConnect, Connect, UserKey, OnKey, Disconnect, Quit, CycleActive, PageUp,
                PageDown, RemoteDials, Accept, appVars, channels, vars
  <2> QED BY <1>1, <1>3, <2>1, NoNews DEF OnlineNow
<1> QED BY <1>4, <1>5, <1>6

\* Every step of the system preserves the invariant.
LEMMA NextView == Inv /\ RouteInv /\ HistInv /\ ViewInv /\ [Next]_vars => ViewInv'
<1> SUFFICES ASSUME Inv, RouteInv, HistInv, ViewInv, [Next]_vars PROVE ViewInv'
  OBVIOUS
<1>1. ServeInv'
  BY NextServe DEF ViewInv
<1>2. ASSUME running' PROVE \A p \in PeerId \ hangups' : Announced(p)'
  BY <1>2, UiView, ManagerView, ConnectionView DEF Next
<1> QED BY <1>1, <1>2 DEF ViewInv

\* For any number of connections and any order of losses, redials, merges and
\* events of other connections: once its events are applied, a connection the
\* manager routes to is shown as connected exactly while it is up (app.rs,
\* apply_net_event, against the events that network.rs sends).
THEOREM ViewAlwaysConverges == Spec => []ViewConverges
<1>1. Inv /\ ViewInv => ViewConverges
  <2> SUFFICES ASSUME Inv, ViewInv, NEW p \in routes, running, Drained(p)
               PROVE  Up(p) <=> p \in DOMAIN peers /\ peers[p].connected
    BY DEF ViewConverges
  <2>1. Announced(p) /\ toUi \in Seq(NetEvent)
    BY DEF ViewInv, ServeInv, Inv, ChannelTypeOK, NetInv, NetworkTypeOK
  <2> QED BY <2>1 DEF Announced, OnlineAfter, OnlineNow, OnlineIn, Drained, On, Off
<1> QED
  BY <1>1, InitInv, NextInv, InitRoute, NextRoute, InitHist, NextHist, InitView, NextView,
     PTL DEF Spec

-----------------------------------------------------------------------------
(* NoMessageLost: what was received over a connection and not yet logged   *)
(* waits in the channel behind what was, and the entry it will be logged   *)
(* in is there when its turn comes, for the connection is online then.     *)

Waits(es, p) == {i \in DOMAIN es : IsMessage(es[i], p)}

\* The lines H and the events es hold the first n messages of p, in order.
InOrder(H, es, p, n) ==
  /\ \A l \in H : l.body \in 1 .. n
  /\ \A i \in Waits(es, p) : es[i].body \in 1 .. n
  /\ \A k \in 1 .. n : \/ \E l \in H : l.body = k
                       \/ \E i \in Waits(es, p) : es[i].body = k
  /\ \A l, m \in H : l.body < m.body <=> l.at < m.at
  /\ \A l \in H, i \in Waits(es, p) : l.body < es[i].body
  /\ \A i, j \in Waits(es, p) : i < j => es[i].body < es[j].body

OrderInv == running => \A p \in PeerId \ hangups : InOrder(Heard(p), toUi, p, received[p])

\* The message at the head is logged after what was logged before.
LEMMA OrderLogged ==
  ASSUME NEW H, NEW es \in Seq(NetEvent), es # <<>>, NEW p, NEW n \in Nat,
         InOrder(H, es, p, n), IsMessage(es[1], p), NEW line, line.body = es[1].body,
         line.at \in Nat, \A l \in H : l.at \in Nat /\ l.at < line.at
  PROVE  InOrder(H \cup {line}, Tail(es), p, n)
<1> DEFINE fs == Tail(es)
           K == H \cup {line}
<1>1. /\ 1 \in Waits(es, p) /\ line.body \in 1 .. n
  BY DEF Waits, InOrder
<1>2. \A i \in Waits(fs, p) : i + 1 \in Waits(es, p) /\ fs[i] = es[i + 1] /\ i \in Nat \ {0}
  BY DEF Waits
<1>3. \A i \in Waits(es, p) : i = 1 \/ (i - 1 \in Waits(fs, p) /\ fs[i - 1] = es[i])
  BY DEF Waits
<1>4. \A i \in Waits(fs, p) : line.body < fs[i].body /\ fs[i].body \in 1 .. n
  <2> TAKE i \in Waits(fs, p)
  <2>1. 1 < i + 1
    BY <1>2
  <2> QED BY <1>1, <1>2, <2>1 DEF InOrder
<1>5. \A l \in H : l.body < line.body /\ l.body \in 1 .. n
  BY <1>1 DEF InOrder
<1> HIDE DEF fs
<1>6. \A k \in 1 .. n : \/ \E l \in K : l.body = k
                        \/ \E i \in Waits(fs, p) : fs[i].body = k
  <2> TAKE k \in 1 .. n
  <2>1. CASE \E l \in H : l.body = k
    BY <2>1
  <2>2. CASE \E i \in Waits(es, p) : es[i].body = k
    BY <1>3, <2>2
  <2> QED BY <2>1, <2>2 DEF InOrder
<1>7. \A l, m \in K : l.body < m.body <=> l.at < m.at
  <2> TAKE l, m \in K
  <2>1. CASE l \in H /\ m \in H
    BY <2>1 DEF InOrder
  <2>2. CASE l \in H /\ m = line
    BY <1>5, <2>2
  <2>3. CASE l = line /\ m \in H
    BY <1>1, <1>5, <2>3
  <2>4. CASE l = line /\ m = line
    BY <1>1, <2>4
  <2> QED BY <2>1, <2>2, <2>3, <2>4
<1>8. \A l \in K, i \in Waits(fs, p) : l.body < fs[i].body
  BY <1>2, <1>4 DEF InOrder
<1>9. \A i, j \in Waits(fs, p) : i < j => fs[i].body < fs[j].body
  BY <1>2 DEF InOrder
<1> QED BY <1>1, <1>4, <1>5, <1>6, <1>7, <1>8, <1>9 DEF InOrder, fs

\* Another event is applied.
LEMMA OrderPassed ==
  ASSUME NEW H, NEW es \in Seq(NetEvent), es # <<>>, NEW p, NEW n \in Nat,
         InOrder(H, es, p, n), ~IsMessage(es[1], p)
  PROVE  InOrder(H, Tail(es), p, n)
<1> DEFINE fs == Tail(es)
<1>1. \A i \in Waits(fs, p) : i + 1 \in Waits(es, p) /\ fs[i] = es[i + 1] /\ i \in Nat \ {0}
  BY DEF Waits
<1>2. \A i \in Waits(es, p) : i - 1 \in Waits(fs, p) /\ fs[i - 1] = es[i]
  BY DEF Waits
<1> HIDE DEF fs
<1>3. \A i, j \in Waits(fs, p) : i < j => fs[i].body < fs[j].body
  BY <1>1 DEF InOrder
<1>4. \A l \in H, i \in Waits(fs, p) : l.body < fs[i].body
  BY <1>1 DEF InOrder
<1>5. \A i \in Waits(fs, p) : fs[i].body \in 1 .. n
  BY <1>1 DEF InOrder
<1>6. \A k \in 1 .. n : \/ \E l \in H : l.body = k
                        \/ \E i \in Waits(fs, p) : fs[i].body = k
  BY <1>2 DEF InOrder
<1> QED BY <1>3, <1>4, <1>5, <1>6 DEF InOrder, fs

\* Another event is sent.
LEMMA OrderSent ==
  ASSUME NEW H, NEW es \in Seq(NetEvent), NEW ev \in NetEvent, NEW p, NEW n \in Nat,
         InOrder(H, es, p, n), ~IsMessage(ev, p)
  PROVE  InOrder(H, Append(es, ev), p, n)
<1> DEFINE fs == Append(es, ev)
<1>1. Waits(fs, p) = Waits(es, p)
  BY DEF Waits
<1>2. \A i \in Waits(es, p) : fs[i] = es[i]
  BY DEF Waits
<1> HIDE DEF fs
<1> QED BY <1>1, <1>2 DEF InOrder, fs

\* The next message is sent, behind the others.
LEMMA OrderReceived ==
  ASSUME NEW H, NEW es \in Seq(NetEvent), NEW ev \in NetEvent, NEW p, NEW n \in Nat,
         InOrder(H, es, p, n), IsMessage(ev, p), ev.body = n + 1
  PROVE  InOrder(H, Append(es, ev), p, n + 1)
<1> DEFINE fs == Append(es, ev)
           last == Len(es) + 1
<1>1. /\ Waits(fs, p) = Waits(es, p) \cup {last} /\ fs[last] = ev
      /\ \A i \in Waits(es, p) : fs[i] = es[i] /\ i < last /\ i \in Nat /\ i # last
      /\ last \in Nat
  BY DEF Waits
<1> HIDE DEF fs, last
<1>2. \A l \in H : l.body \in 1 .. n /\ l.body \in 1 .. n + 1
  BY DEF InOrder
<1>3. \A i \in Waits(es, p) : fs[i].body \in 1 .. n /\ fs[i].body \in 1 .. n + 1
  BY <1>1 DEF InOrder
<1>4. \A k \in 1 .. n + 1 : \/ \E l \in H : l.body = k
                            \/ \E i \in Waits(fs, p) : fs[i].body = k
  <2> TAKE k \in 1 .. n + 1
  <2>1. CASE k = n + 1
    BY <1>1, <2>1
  <2>2. CASE k \in 1 .. n
    BY <1>1, <2>2 DEF InOrder
  <2> QED BY <2>1, <2>2
<1>5. \A l \in H, i \in Waits(fs, p) : l.body < fs[i].body
  BY <1>1, <1>2 DEF InOrder
<1>6. \A i, j \in Waits(fs, p) : i < j => fs[i].body < fs[j].body
  <2> TAKE i, j \in Waits(fs, p)
  <2> HAVE i < j
  <2>1. CASE j = last
    <3>1. i \in Waits(es, p)
      BY <1>1, <2>1
    <3>2. fs[i].body \in 1 .. n /\ fs[j].body = n + 1
      BY <1>1, <1>3, <2>1, <3>1
    <3> QED BY <3>2
  <2>2. CASE j # last
    <3>1. i \in Waits(es, p) /\ j \in Waits(es, p)
      BY <1>1, <2>2
    <3> QED BY <1>1, <3>1 DEF InOrder
  <2> QED BY <2>1, <2>2
<1>7. \A i \in Waits(fs, p) : fs[i].body \in 1 .. n + 1
  BY <1>1, <1>3
<1> QED BY <1>2, <1>4, <1>5, <1>6, <1>7 DEF InOrder, fs

\* What was heard of p, by the lines of all conversations.
LEMMA HeardIn ==
  ASSUME NEW p
  PROVE  \A l : l \in Heard(p) <=> l \in LinesIn(peers) /\ l.peer = p /\ ~l.from_me
BY DEF Heard, LinesIn

\* The same, after a step.
LEMMA HeardNext ==
  ASSUME NEW p
  PROVE  \A l : l \in Heard(p)' <=> l \in LinesIn(peers') /\ l.peer = p /\ ~l.from_me
BY DEF Heard, LinesIn

\* Nothing of p is heard and no event about messages of p moves.
LEMMA OrderKept ==
  ASSUME NEW p \in PeerId, NEW n \in Nat, toUi \in Seq(NetEvent),
         InOrder(Heard(p), toUi, p, n),
         \A l : l \in LinesIn(peers') /\ l.peer = p /\ ~l.from_me
                  <=> l \in LinesIn(peers) /\ l.peer = p /\ ~l.from_me,
         \/ toUi' = toUi
         \/ toUi # <<>> /\ toUi' = Tail(toUi) /\ ~IsMessage(toUi[1], p)
         \/ \E ev \in NetEvent : toUi' = Append(toUi, ev) /\ ~IsMessage(ev, p)
  PROVE  InOrder(Heard(p)', toUi', p, n)
<1>1. Heard(p)' = Heard(p)
  <2>1. \A l : l \in Heard(p)' <=> l \in LinesIn(peers') /\ l.peer = p /\ ~l.from_me
    BY HeardNext
  <2>2. \A l : l \in Heard(p) <=> l \in LinesIn(peers) /\ l.peer = p /\ ~l.from_me
    BY HeardIn
  <2>3. \A l : l \in Heard(p)' <=> l \in Heard(p)
    BY <2>1, <2>2
  <2> QED BY <2>3 DEF Heard
<1>2. InOrder(Heard(p), toUi', p, n)
  BY OrderPassed, OrderSent
<1> QED BY <1>1, <1>2

\* The UI loop takes an event.
LEMMA UiOrder ==
  ASSUME Inv, HistInv, ViewInv, OrderInv, UiEvent, NEW p \in PeerId \ hangups
  PROVE  InOrder(Heard(p)', toUi', p, received[p])
<1> DEFINE ev == Head(toUi)
           line == Line(FALSE, ev.peer, ev.body)
           n == received[p]
<1>1. /\ running /\ toUi # <<>> /\ toUi' = Tail(toUi) /\ toUi \in Seq(NetEvent)
      /\ ev = toUi[1] /\ 1 \in DOMAIN toUi /\ logged \in Nat /\ n \in Nat
  <2>1. running /\ toUi # <<>> /\ toUi' = Tail(toUi)
    BY DEF UiEvent, ApplyNetEvent, PeerConnected, PeerDisconnected, PeerError,
           MessageLogged, MessageDropped, Receive
  <2>2. toUi \in Seq(NetEvent) /\ logged \in Nat /\ received \in [PeerId -> Nat]
    BY DEF Inv, ChannelTypeOK, AppInv, AppTypeOK, NetInv, NetworkTypeOK
  <2> QED BY <2>1, <2>2
<1>2. InOrder(Heard(p), toUi, p, n) /\ Announced(p)
  BY <1>1 DEF OrderInv, ViewInv
<1>3. UiEffect(ev)
  <2>1. Apart(peers) /\ \A l \in LinesIn(peers) : l.at # logged + 1
    BY <1>1 DEF HistInv
  <2> QED BY <2>1, EventEffect
<1>4. /\ line.peer = ev.peer /\ line.from_me = FALSE /\ line.body = ev.body
      /\ line.at = logged + 1
  BY DEF Line
<1>5. CASE IsMessage(ev, p)
  <2>1. OnlineAfter(OnlineNow(p), toUi, p, 1)
    BY <1>1, <1>2, <1>5 DEF Announced
  <2>2. p \in DOMAIN peers
    <3>1. ~On(toUi[1], p)
      BY <1>1, <1>5 DEF On, IsMessage
    <3>2. 1 .. 1 = {1}
      OBVIOUS
    <3> QED BY <2>1, <3>1, <3>2 DEF OnlineAfter, OnlineNow, OnlineIn
  <2>3. LinesIn(peers') = LinesIn(peers) \cup {line}
    BY <1>3, <1>5, <2>2 DEF UiEffect, IsMessage
  <2>4. line.peer = p
    BY <1>4, <1>5 DEF IsMessage
  <2> HIDE DEF line
  <2>5. Heard(p)' = Heard(p) \cup {line}
    BY <1>4, <2>3, <2>4, HeardIn, HeardNext
  <2>6. \A l \in Heard(p) : l.at \in Nat /\ l.at < line.at
    <3>1. \A l \in Heard(p) : l.at \in 1 .. logged
      BY HeardIn DEF HistInv
    <3> QED BY <1>1, <1>4, <3>1
  <2>7. IsMessage(toUi[1], p) /\ line.body = toUi[1].body /\ line.at \in Nat
    BY <1>1, <1>4, <1>5
  <2> HIDE DEF ev, n
  <2>8. InOrder(Heard(p) \cup {line}, Tail(toUi), p, n)
    BY <1>1, <1>2, <2>6, <2>7, OrderLogged
  <2> QED BY <1>1, <2>5, <2>8 DEF n
<1>6. CASE ~IsMessage(ev, p)
  <2>1. \/ LinesIn(peers') = LinesIn(peers)
        \/ LinesIn(peers') = LinesIn(peers) \cup {line} /\ line.peer # p
    BY <1>3, <1>4, <1>6 DEF UiEffect, IsMessage
  <2> HIDE DEF line
  <2>2. \A l : l \in LinesIn(peers') /\ l.peer = p /\ ~l.from_me
                 <=> l \in LinesIn(peers) /\ l.peer = p /\ ~l.from_me
    BY <2>1
  <2> QED BY <1>1, <1>2, <1>6, <2>2, OrderKept
<1> QED BY <1>5, <1>6

\* The other steps: a connection's task may send its next message, a user may
\* log a line of his own.
LEMMA OtherOrder ==
  ASSUME Inv, HistInv, OrderInv, Next, ~UiEvent, running', NEW p \in PeerId \ hangups
  PROVE  InOrder(Heard(p)', toUi', p, received'[p])
<1> DEFINE n == received[p]
<1>1. /\ toUi \in Seq(NetEvent) /\ n \in Nat /\ fromUi \in Seq(UiCommand)
      /\ received \in [PeerId -> Nat] /\ tasks \in [PeerId -> Task]
  BY DEF Inv, ChannelTypeOK, NetInv, NetworkTypeOK
<1>2. running
  BY DEF Next, UserConnect, Connect, UserKey, OnKey, SendToActive, Disconnect, Quit,
         CycleActive, PageUp, PageDown, RemoteDials, Accept, channels, ManagerStep, Manager,
         ManagerConnect, ManagerSend, ManagerDisconnect, TakeCommand, ManagerShutdown,
         ManagerInbound, ManagerDone, ConnectionStep, TaskFrame, Connection, DialOk,
         DialFail, ConnRecv, ConnWrite, ConnStuck, ConnLocalClosed, ConnLost, WaitDrop,
         WaitClosed, WaitElapsed
<1>3. InOrder(Heard(p), toUi, p, n)
  BY <1>2 DEF OrderInv
<1>4. ASSUME peers' = peers, received'[p] = n,
             \/ toUi' = toUi
             \/ \E ev \in NetEvent : toUi' = Append(toUi, ev) /\ ~IsMessage(ev, p)
      PROVE  InOrder(Heard(p)', toUi', p, received'[p])
  BY <1>1, <1>3, <1>4, OrderKept
<1>5. CASE SendToActive /\ UNCHANGED netVars
  <2> DEFINE line == Line(TRUE, active, logged + 1)
  <2>1. LinesIn(peers') = LinesIn(peers) \cup {line}
    BY <1>5, TypedLine
  <2>2. line.from_me = TRUE
    BY DEF Line
  <2>3. received'[p] = n /\ toUi' = toUi
    BY <1>5 DEF SendToActive, netVars
  <2> HIDE DEF line
  <2>4. \A l : l \in LinesIn(peers') /\ l.peer = p /\ ~l.from_me
                 <=> l \in LinesIn(peers) /\ l.peer = p /\ ~l.from_me
    BY <2>1, <2>2
  <2> QED BY <1>1, <1>3, <2>3, <2>4, OrderKept
<1>6. CASE UserConnect \/ (UserKey /\ ~SendToActive) \/ RemoteDials
  <2>1. UNCHANGED <<peers, toUi, received>>
    BY <1>6 DEF UserConnect, Connect, UserKey, OnKey, Disconnect, Quit, CycleActive, PageUp,
                PageDown, RemoteDials, Accept, appVars, channels, netVars
  <2> QED BY <1>4, <2>1
<1>7. CASE ManagerStep
  <2>1. peers' = peers /\ received'[p] = n
    BY <1>7 DEF ManagerStep, appVars, Manager, ManagerConnect, ManagerSend,
                ManagerDisconnect, TakeCommand, ManagerShutdown, ManagerInbound, ManagerDone
  <2>2. CASE ManagerInbound
    <3> DEFINE ev == [type |-> "PeerConnected", peer |-> next_id, onion |-> NoOnion,
                      inbound |-> TRUE]
    <3>1. Emit(ev) /\ next_id \in PeerId
      BY <2>2 DEF ManagerInbound, Spawn
    <3>2. ev \in NetEvent /\ ~IsMessage(ev, p)
      BY <3>1 DEF NetEvent, IsMessage
    <3> HIDE DEF ev
    <3>3. toUi' = Append(toUi, ev)
      BY <1>2, <3>1 DEF Emit
    <3> QED BY <1>4, <2>1, <3>2, <3>3
  <2>3. CASE ManagerDisconnect
    <3> DEFINE ev == [type |-> "PeerDisconnected", peer |-> Head(fromUi).peer]
    <3>1. Head(fromUi).peer \in PeerId
      BY <1>1, <2>3, HeadTail, CommandFields DEF ManagerDisconnect, TakeCommand
    <3>2. ev \in NetEvent /\ ~IsMessage(ev, p)
      BY <3>1 DEF NetEvent, IsMessage
    <3>3. Emit(ev) \/ toUi' = toUi
      BY <2>3 DEF ManagerDisconnect
    <3> HIDE DEF ev
    <3>4. toUi' = Append(toUi, ev) \/ toUi' = toUi
      BY <1>2, <3>3 DEF Emit
    <3> QED BY <1>4, <2>1, <3>2, <3>4
  <2>4. CASE ManagerConnect \/ ManagerSend \/ ManagerShutdown \/ ManagerDone
    <3>1. toUi' = toUi
      BY <2>4 DEF ManagerConnect, ManagerSend, ManagerShutdown, ManagerDone, channels
    <3> QED BY <1>4, <2>1, <3>1
  <2> QED BY <1>7, <2>2, <2>3, <2>4 DEF ManagerStep, Manager
<1>8. ASSUME NEW e \in PeerId, Connection(e), peers' = peers
      PROVE  InOrder(Heard(p)', toUi', p, received'[p])
  <2>1. CASE ConnRecv(e)
    <3>1. PICK claim \in Claim :
            Emit([type |-> "Message", peer |-> e, from_onion |-> claim,
                  body |-> received[e] + 1])
      BY <2>1 DEF ConnRecv
    <3> DEFINE ev == [type |-> "Message", peer |-> e, from_onion |-> claim,
                      body |-> received[e] + 1]
    <3>2. /\ ev \in NetEvent /\ ev.body = received[e] + 1
          /\ IsMessage(ev, p) <=> p = e
      <4>1. claim \in Address \cup {NoOnion} /\ received[e] + 1 \in Nat
        BY <1>1, NetworkAssumption
      <4> QED BY <4>1 DEF NetEvent, IsMessage
    <3>3. Emit(ev) /\ received' = [received EXCEPT ![e] = @ + 1]
      BY <2>1, <3>1 DEF ConnRecv
    <3> HIDE DEF ev
    <3>4. toUi' = Append(toUi, ev)
      BY <1>2, <3>3 DEF Emit
    <3>5. CASE p = e
      <4>1. received'[p] = n + 1 /\ IsMessage(ev, p) /\ ev.body = n + 1
        BY <1>1, <3>2, <3>3, <3>5
      <4>2. Heard(p)' = Heard(p)
        BY <1>8 DEF Heard
      <4>3. InOrder(Heard(p), Append(toUi, ev), p, n + 1)
        BY <1>1, <1>3, <3>2, <4>1, OrderReceived
      <4> QED BY <3>4, <4>1, <4>2, <4>3
    <3>6. CASE p # e
      <4>1. received'[p] = n
        BY <1>1, <3>3, <3>6
      <4> QED BY <1>4, <1>8, <3>2, <3>4, <3>6, <4>1
    <3> QED BY <3>5, <3>6
  <2>2. CASE DialOk(e)
    <3> DEFINE ev == [type |-> "PeerConnected", peer |-> e,
                      onion |-> WithSuffix(tasks[e].onion), inbound |-> FALSE]
    <3>1. tasks[e].onion \in Onion
      BY <2>2 DEF DialOk, Inv, NetInv, OnionKnown, TaskOK
    <3>2. ev \in NetEvent /\ ~IsMessage(ev, p)
      BY <3>1 DEF NetEvent, WithSuffix, Address, IsMessage
    <3>3. Emit(ev) /\ received' = received
      BY <2>2 DEF DialOk
    <3> HIDE DEF ev
    <3>4. toUi' = Append(toUi, ev)
      BY <1>2, <3>3 DEF Emit
    <3> QED BY <1>4, <1>8, <3>2, <3>3, <3>4
  <2>3. CASE DialFail(e) \/ ConnLost(e)
    <3> DEFINE ev == [type |-> "PeerError", peer |-> e]
    <3>1. ev \in NetEvent /\ ~IsMessage(ev, p)
      BY DEF NetEvent, IsMessage
    <3>2. Emit(ev) /\ received' = received
      BY <2>3 DEF DialFail, ConnLost
    <3> HIDE DEF ev
    <3>3. toUi' = Append(toUi, ev)
      BY <1>2, <3>2 DEF Emit
    <3> QED BY <1>4, <1>8, <3>1, <3>2, <3>3
  <2>4. CASE \/ ConnWrite(e) \/ ConnStuck(e) \/ ConnLocalClosed(e)
             \/ WaitDrop(e) \/ WaitClosed(e) \/ WaitElapsed(e)
    <3>1. UNCHANGED <<toUi, received>>
      BY <2>4 DEF ConnWrite, ConnStuck, ConnLocalClosed, WaitDrop, WaitClosed, WaitElapsed
    <3> QED BY <1>4, <1>8, <3>1
  <2> QED BY <1>8, <2>1, <2>2, <2>3, <2>4 DEF Connection
<1> QED BY <1>5, <1>6, <1>7, <1>8 DEF Next, UserKey, ConnectionStep, appVars

\* The initial state satisfies the invariant.
LEMMA InitOrder == Init => OrderInv
<1> SUFFICES ASSUME Init, NEW p \in PeerId PROVE InOrder(Heard(p), toUi, p, received[p])
  BY DEF OrderInv
<1>1. received[p] = 0 /\ toUi = <<>> /\ DOMAIN peers = {}
  BY DEF Init, NetworkInit, ChannelInit, AppInit
<1>2. Heard(p) = {} /\ Waits(toUi, p) = {} /\ 1 .. 0 = {}
  BY <1>1 DEF Heard, Waits
<1> QED BY <1>1, <1>2 DEF InOrder

\* Every step of the system preserves the invariant.
LEMMA NextOrder == Inv /\ HistInv /\ ViewInv /\ OrderInv /\ [Next]_vars => OrderInv'
<1> SUFFICES ASSUME Inv, HistInv, ViewInv, OrderInv, [Next]_vars, running',
                    NEW p \in PeerId \ hangups'
             PROVE  InOrder(Heard(p)', toUi', p, received'[p])
  BY DEF OrderInv
<1>1. CASE UiEvent
  <2>1. UNCHANGED <<received, hangups>>
    BY <1>1 DEF UiEvent, netVars
  <2> QED BY <1>1, <2>1, UiOrder
<1>2. CASE Next /\ ~UiEvent
  <2>1. hangups \subseteq hangups'
    BY <1>2 DEF Next, UserConnect, UserKey, RemoteDials, Accept, ManagerStep, Manager,
       ManagerConnect, ManagerSend, ManagerDisconnect, ManagerShutdown, ManagerInbound,
       ManagerDone, ConnectionStep, TaskFrame, Connection, DialOk, DialFail, ConnRecv,
       ConnWrite, ConnStuck, ConnLocalClosed, ConnLost, WaitDrop, WaitClosed, WaitElapsed,
       netVars
  <2> QED BY <1>2, <2>1, OtherOrder
<1>3. CASE UNCHANGED vars
  <2>1. UNCHANGED <<peers, toUi, received, hangups, running>>
    BY <1>3 DEF vars, appVars, channels, netVars
  <2>2. Heard(p)' = Heard(p)
    BY <2>1 DEF Heard
  <2> QED BY <2>1, <2>2 DEF OrderInv
<1> QED BY <1>1, <1>2, <1>3

\* For any number of connections and any interleaving of messages with losses,
\* redials and folds: the messages received over a connection the user has not
\* dropped are logged in their order or wait in the channel in their order, and
\* none is lost or repeated (network.rs, pump_connection, against app.rs,
\* apply_net_event, which drops a message to an unknown peer).
THEOREM NoMessageIsLost == Spec => []NoMessageLost
<1>1. OrderInv => NoMessageLost
  <2> SUFFICES ASSUME NEW p \in PeerId \ hangups, InOrder(Heard(p), toUi, p, received[p])
               PROVE  /\ {l.body : l \in Heard(p)} \cup {toUi[i].body : i \in Waiting(p)}
                           = 1 .. received[p]
                      /\ \A l, m \in Heard(p) : l.body < m.body <=> l.at < m.at
                      /\ \A l \in Heard(p), i \in Waiting(p) : l.body < toUi[i].body
                      /\ \A i, j \in Waiting(p) : i < j => toUi[i].body < toUi[j].body
    BY DEF NoMessageLost, OrderInv
  <2>1. Waiting(p) = Waits(toUi, p)
    BY DEF Waiting, Waits, IsMessage
  <2> DEFINE H == Heard(p)
             W == Waits(toUi, p)
             n == received[p]
  <2>2. /\ \A l \in H : l.body \in 1 .. n
        /\ \A i \in W : toUi[i].body \in 1 .. n
        /\ \A k \in 1 .. n : (\E l \in H : l.body = k) \/ \E i \in W : toUi[i].body = k
    BY DEF InOrder
  <2> HIDE DEF H, W, n
  <2>3. {l.body : l \in H} \cup {toUi[i].body : i \in W} = 1 .. n
    BY <2>2
  <2> QED BY <2>1, <2>3 DEF InOrder, H, W, n
<1> QED
  BY <1>1, InitInv, NextInv, InitRoute, NextRoute, InitHist, NextHist, InitView, NextView,
     InitOrder, NextOrder, PTL DEF Spec

-----------------------------------------------------------------------------
(* NewestIsShown: whoever logs a line in the focused conversation undoes   *)
(* the scrolling; a window at the bottom ends with the last line, and has  *)
(* no more lines than the pane has rows.                                   *)

\* A window that is not scrolled ends with the last line of its conversation.
LEMMA WindowEnds ==
  ASSUME NEW log \in Seq(ChatLine), log # <<>>, NEW viewport \in Nat \ {0}, NEW window,
         window = SubSeq(log, Minus(Minus(Len(log), 0), viewport) + 1, Minus(Len(log), 0))
  PROVE  /\ window \in Seq(ChatLine) /\ Len(window) \in 1 .. viewport
         /\ window[Len(window)] = Last(log)
<1> DEFINE n == Len(log)
           start == Minus(n, viewport)
<1>1. n \in Nat \ {0} /\ Minus(n, 0) = n
  BY DEF Minus
<1>2. start \in Nat /\ start < n /\ n - start \in 1 .. viewport
  BY <1>1 DEF Minus
<1>3. window = SubSeq(log, start + 1, n)
  BY <1>1
<1> HIDE DEF start
<1>4. window \in Seq(ChatLine) /\ Len(window) = n - start /\ window[n - start] = log[n]
  <2>1. start + 1 \in 1 .. n /\ n \in 1 .. n /\ n - start \in 1 .. n
    BY <1>1, <1>2
  <2>2. /\ SubSeq(log, start + 1, n) \in Seq(ChatLine)
        /\ Len(SubSeq(log, start + 1, n)) = n - start
    BY <1>2, <2>1
  <2>3. SubSeq(log, start + 1, n)[n - start] = log[n]
    BY <1>2, <2>1
  <2> QED BY <1>3, <2>2, <2>3
<1> QED BY <1>2, <1>4 DEF Last

\* The last line of a window is drawn if no line above it takes a second row.
LEMMA LastFits ==
  ASSUME NEW window \in Seq(ChatLine), NEW viewport \in Nat, Len(window) \in 1 .. viewport,
         Wrapped(window, Len(window)) = {}
  PROVE  RowsAbove(window, Len(window)) < viewport
<1>1. Cardinality(Wrapped(window, Len(window))) = 0
  BY FS_EmptySet
<1>2. (LongRows - 1) * 0 = 0
  BY ViewAssumption
<1> QED BY <1>1, <1>2 DEF RowsAbove

\* The last of a log is one of its lines.
LEMMA LastLine ==
  ASSUME NEW log \in Seq(ChatLine), log # <<>>
  PROVE  Last(log) \in Range(log)
BY DEF Last, Range

\* However far the user has scrolled, a line that is typed into the focused
\* conversation or arrives in it is drawn on a screen of any height, for any
\* number of lines and folds, unless a line above it in the pane is wrapped
\* (app.rs, the resets of scroll in send_to_active and apply_net_event; ui.rs,
\* the window of render_chat and the rows its lines take).
THEOREM NewestAlwaysShown == Spec => NewestIsShown
<1> DEFINE Shown ==
      /\ logged' # logged
      /\ active' = active
      /\ build_chat_lines' # <<>>
      /\ Last(build_chat_lines').at = logged'
      => \A viewport \in Viewports : NewestDrawn(viewport)'
<1>1. Inv /\ Inv' /\ HistInv /\ HistInv' /\ [Next]_vars => [Shown]_vars
  <2> SUFFICES ASSUME Inv, Inv', HistInv, HistInv', [Next]_vars,
                      logged' # logged, active' = active, build_chat_lines' # <<>>,
                      Last(build_chat_lines').at = logged', NEW viewport \in Viewports
               PROVE  NewestDrawn(viewport)'
    OBVIOUS
  <2>1. /\ active \in DOMAIN peers' /\ build_chat_lines' = peers'[active].log
        /\ build_chat_lines' \in Seq(ChatLine) /\ logged \in Nat
    <3>1. peers' \in [DOMAIN peers' -> Peer] /\ logged \in Nat
      BY DEF Inv, AppInv, AppTypeOK
    <3> QED BY <3>1 DEF build_chat_lines, Peer
  <2>2. scroll' = 0
    <3>1. CASE SendToActive
      BY <3>1 DEF SendToActive
    <3>2. CASE UiEvent
      <4> DEFINE ev == Head(toUi)
                 line == Line(FALSE, ev.peer, ev.body)
                 newest == Last(build_chat_lines')
      <4>1. UiEffect(ev)
        <5>1. Apart(peers) /\ \A l \in LinesIn(peers) : l.at # logged + 1
          BY <2>1 DEF HistInv
        <5> QED BY <3>2, <5>1, EventEffect
      <4>2. /\ ev.type = "Message" /\ ev.peer \in DOMAIN peers /\ logged' = logged + 1
            /\ ev.peer \in DOMAIN peers' /\ line \in Range(peers'[ev.peer].log)
        BY <4>1 DEF UiEffect
      <4>3. line.at = logged'
        BY <4>2 DEF Line
      <4>4. newest \in Range(peers'[active].log) /\ newest.at = logged'
        BY <2>1, LastLine
      <4> HIDE DEF line, newest
      <4>5. newest = line
        <5>1. line \in LinesIn(peers') /\ newest \in LinesIn(peers')
          BY <2>1, <4>2, <4>4 DEF LinesIn
        <5> QED BY <4>3, <4>4, <5>1 DEF HistInv
      <4>6. active = ev.peer
        <5>1. Apart(peers')
          BY DEF HistInv
        <5> HIDE DEF ev
        <5> QED BY <2>1, <4>2, <4>4, <4>5, <5>1 DEF Apart
      <4>7. MessageLogged
        BY <3>2, <4>2 DEF UiEvent, ApplyNetEvent, PeerConnected, PeerDisconnected,
                          PeerError, MessageDropped, Receive
      <4> QED BY <4>6, <4>7 DEF MessageLogged
    <3> QED BY <3>1, <3>2, OthersLeaveLogs
  <2> DEFINE log == build_chat_lines'
  <2> DEFINE window == visible(viewport)'
             n == Len(window)
             pane == render_chat(viewport)'
  <2>3. window = SubSeq(log, Minus(Minus(Len(log), 0), viewport) + 1, Minus(Len(log), 0))
    BY <2>2 DEF visible, Minus
  <2>4. pane = [i \in {i \in DOMAIN window : RowsAbove(window, i) < viewport} |-> window[i]]
    BY DEF render_chat
  <2>5. NewestDrawn(viewport)'
          <=> (Wrapped(window, n) = {} => n \in DOMAIN pane /\ pane[n] = Last(log))
    BY DEF NewestDrawn
  <2> HIDE DEF log, window, pane
  <2>6. log \in Seq(ChatLine) /\ log # <<>>
    BY <2>1 DEF log
  <2>7. window \in Seq(ChatLine) /\ n \in 1 .. viewport /\ window[n] = Last(log)
    <3>1. viewport \in Nat \ {0}
      BY ViewAssumption
    <3> QED BY <2>3, <2>6, <3>1, WindowEnds
  <2>8. ASSUME Wrapped(window, n) = {} PROVE n \in DOMAIN pane /\ pane[n] = Last(log)
    <3>1. RowsAbove(window, n) < viewport
      BY <2>7, <2>8, ViewAssumption, LastFits
    <3>2. n \in DOMAIN window
      BY <2>7
    <3> QED BY <2>4, <2>7, <3>1, <3>2
  <2> QED BY <2>5, <2>8
<1>2. NewestIsShown <=> [][Shown]_vars
  BY DEF NewestIsShown
<1> HIDE DEF Shown
<1> QED BY <1>1, <1>2, InitInv, NextInv, InitHist, NextHist, PTL DEF Spec
=============================================================================
