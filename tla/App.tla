-------------------------------- MODULE App --------------------------------
(***************************************************************************)
(* The application state and the handlers of src/src/app.rs, run by the    *)
(* UI loop of src/src/main.rs: one step of the loop is one network event   *)
(* applied or one line submitted or one key pressed.                       *)
(*                                                                         *)
(* Left out: the wording of the system log and of the status bar, the      *)
(* address book, and the characters of the input line: Enter acts on a     *)
(* whole line, in the state at the moment of Enter.  A handler that only   *)
(* writes a notice to the system log is not a step.                        *)
(***************************************************************************)
EXTENDS Message, Functions, SequencesExt

CONSTANTS
  MaxLogged,    \* bound: chat lines logged before the user stops typing
  MaxScroll     \* bound: how far the user scrolls up

ASSUME AppAssumption == MaxLogged \in Nat /\ MaxScroll \in Nat

VARIABLES
  peers,    \* PeerId -> conversation: onion, inbound, connected, log
  order,    \* display order of the roster
  active,   \* focused conversation, or None for the system log
  scroll,   \* lines scrolled up from the newest
  logged    \* history: how many chat lines were ever pushed to a log

appVars == <<peers, order, active, scroll, logged>>

None == 0

\* A line of a log: who wrote it, the connection it was exchanged on, which
\* text it is, and (history) its rank among all the lines ever logged.
ChatLine == [from_me : BOOLEAN, peer : PeerId, body : Nat, at : Nat]

Peer == [onion : Address \cup {NoOnion}, inbound : BOOLEAN,
         connected : BOOLEAN, log : Seq(ChatLine)]

AppTypeOK ==
  /\ DOMAIN peers \subseteq PeerId
  /\ peers \in [DOMAIN peers -> Peer]
  /\ order \in Seq(PeerId)
  /\ active \in PeerId \cup {None}
  /\ scroll \in Nat
  /\ logged \in Nat

AppInit ==
  /\ peers = [p \in {} |-> None]
  /\ order = <<>>
  /\ active = None
  /\ scroll = 0
  /\ logged = 0

-----------------------------------------------------------------------------
(* Folding stale conversations into a live one.                            *)

Put(ps, p, entry) ==
  [q \in DOMAIN ps \cup {p} |-> IF q = p THEN entry ELSE ps[q]]

\* The elements of s that are in S, in their order (Vec::retain).
Keep(s, S) == FlattenSeq([i \in DOMAIN s |-> IF s[i] \in S THEN <<s[i]>> ELSE <<>>])

order_push(ord, p) == IF p \in Range(ord) THEN ord ELSE Append(ord, p)

\* Faults: conversations still connected are folded too, or any remote's.
StaleEvenConnected(ps, ord, live) ==
  {p \in Range(ord) \ {live} :
     /\ p \in DOMAIN ps
     /\ ps[p].onion # NoOnion
     /\ ps[p].onion = ps[live].onion}

StaleAnyRemote(ps, ord, live) ==
  {p \in Range(ord) \ {live} :
     p \in DOMAIN ps /\ ~ps[p].connected /\ ps[p].onion # NoOnion /\ ps[live].onion # NoOnion}

\* The other conversations with live's identity that are not connected.
Stale(ps, ord, live) ==
  {p \in Range(ord) \ {live} :
     /\ p \in DOMAIN ps
     /\ ~ps[p].connected
     /\ ps[p].onion # NoOnion
     /\ ps[live].onion # NoOnion
     /\ normalize_onion(ps[p].onion) = normalize_onion(ps[live].onion)}

\* Faults: the folded logs are forgotten, or all but the first.
HistoryForgotten(ps, ord, stale) == <<>>

HistoryOfFirst(ps, ord, stale) ==
  LET dups == Keep(ord, stale)
  IN  IF dups = <<>> THEN <<>> ELSE ps[dups[1]].log

\* Their logs, oldest entry of the roster first.
History(ps, ord, stale) ==
  LET dups == Keep(ord, stale)
  IN  FlattenSeq([i \in DOMAIN dups |-> ps[dups[i]].log])

\* Faults: the focus is left on a folded conversation, or reset.
merge_leaves_focus(ps, ord, act, live) ==
  LET stale == Stale(ps, ord, live)
  IN  /\ peers' = [p \in DOMAIN ps \ stale |->
                     IF p = live
                       THEN [ps[p] EXCEPT !.log = History(ps, ord, stale) \o @]
                       ELSE ps[p]]
      /\ order' = Keep(ord, Range(ord) \ stale)
      /\ active' = act

merge_resets_focus(ps, ord, act, live) ==
  LET stale == Stale(ps, ord, live)
  IN  /\ peers' = [p \in DOMAIN ps \ stale |->
                     IF p = live
                       THEN [ps[p] EXCEPT !.log = History(ps, ord, stale) \o @]
                       ELSE ps[p]]
      /\ order' = Keep(ord, Range(ord) \ stale)
      /\ active' = IF act \in stale THEN None ELSE act

\* The stale conversations leave the roster, their logs are prepended to
\* live's and the focus moves along.
merge_duplicates(ps, ord, act, live) ==
  LET stale == Stale(ps, ord, live)
      merged == [ps[live] EXCEPT !.log = History(ps, ord, stale) \o @]
  IN  /\ peers' = [p \in DOMAIN ps \ stale |-> IF p = live THEN merged ELSE ps[p]]
      /\ order' = Keep(ord, Range(ord) \ stale)
      /\ active' = IF act \in stale THEN live ELSE act

-----------------------------------------------------------------------------
(* apply_net_event: the UI loop takes the first event off the channel.     *)

Receive(type) ==
  /\ running
  /\ toUi # <<>>
  /\ Head(toUi).type = type
  /\ toUi' = Tail(toUi)
  /\ UNCHANGED <<fromUi, running, serving>>

PeerConnected ==
  /\ Receive("PeerConnected")
  /\ LET ev == Head(toUi)
         old == IF ev.peer \in DOMAIN peers
                  THEN peers[ev.peer]
                  ELSE [onion |-> NoOnion, inbound |-> ev.inbound,
                        connected |-> FALSE, log |-> <<>>]
         entry == [old EXCEPT !.connected = TRUE, !.inbound = ev.inbound,
                     !.onion = IF ev.onion # NoOnion THEN ev.onion ELSE @]
     IN  merge_duplicates(
           Put(peers, ev.peer, entry),
           IF ev.peer \in DOMAIN peers THEN order ELSE order_push(order, ev.peer),
           IF active = None THEN ev.peer ELSE active,
           ev.peer)
  /\ UNCHANGED <<scroll, logged>>

\* PeerDisconnected and PeerError both mark the entry, if there is one, offline.
GoOffline(p) ==
  /\ peers' = IF p \in DOMAIN peers
                THEN [peers EXCEPT ![p].connected = FALSE] ELSE peers
  /\ UNCHANGED <<order, active, scroll, logged>>

PeerDisconnected == Receive("PeerDisconnected") /\ GoOffline(Head(toUi).peer)

\* Fault: an error is only reported.
PeerErrorOnlyLogged == Receive("PeerError") /\ UNCHANGED appVars

PeerError == Receive("PeerError") /\ GoOffline(Head(toUi).peer)

Line(mine, p, body) == [from_me |-> mine, peer |-> p, body |-> body, at |-> logged + 1]

\* A message to a known entry is logged, and names the entry if it had no
\* identity yet; then earlier conversations with that identity are folded in.
MessageLogged ==
  /\ Receive("Message")
  /\ LET ev == Head(toUi)
         learned == peers[ev.peer].onion = NoOnion /\ ev.from_onion # NoOnion
         updated == [peers EXCEPT
                       ![ev.peer].onion = IF learned THEN ev.from_onion ELSE @,
                       ![ev.peer].log = Append(@, Line(FALSE, ev.peer, ev.body))]
     IN  /\ ev.peer \in DOMAIN peers
         /\ scroll' = IF active = ev.peer THEN 0 ELSE scroll
         /\ IF learned
              THEN merge_duplicates(updated, order, active, ev.peer)
              ELSE peers' = updated /\ UNCHANGED <<order, active>>
  /\ logged' = logged + 1

\* "message from unknown peer dropped"
MessageDropped ==
  /\ Receive("Message")
  /\ Head(toUi).peer \notin DOMAIN peers
  /\ UNCHANGED appVars

ApplyNetEvent ==
  \/ PeerConnected
  \/ PeerDisconnected
  \/ PeerError
  \/ MessageLogged
  \/ MessageDropped

-----------------------------------------------------------------------------
(* on_key: what the user does.  Connect, which takes a PeerId in the end,  *)
(* is left out of OnKey for the composition to bound.                      *)

\* Enter on plain text: logged and sent, unless the focused peer is offline.
SendToActive ==
  /\ running
  /\ active # None
  /\ active \in DOMAIN peers
  /\ peers[active].connected
  /\ logged < MaxLogged
  /\ peers' = [peers EXCEPT ![active].log = Append(@, Line(TRUE, active, logged + 1))]
  /\ logged' = logged + 1
  /\ scroll' = 0
  /\ Command([type |-> "Send", peer |-> active, body |-> logged + 1])
  /\ UNCHANGED <<order, active, toUi, running, serving>>

\* "/connect", the argument resolved to an address
Connect(a) ==
  /\ running
  /\ Command([type |-> "Connect", onion |-> a])
  /\ UNCHANGED <<appVars, toUi, running, serving>>

\* "/disconnect"
Disconnect ==
  /\ running
  /\ active # None
  /\ Command([type |-> "Disconnect", peer |-> active])
  /\ UNCHANGED <<appVars, toUi, running, serving>>

\* Esc, Ctrl+C or "/quit": run_ui returns and drops the event receiver, main
\* asks the manager to shut down.
Quit ==
  /\ running
  /\ running' = FALSE
  /\ toUi' = <<>>
  /\ fromUi' = IF serving THEN Append(fromUi, [type |-> "Shutdown"]) ELSE fromUi
  /\ UNCHANGED <<appVars, serving>>

\* Fault: the system log is not counted.
CycledPeersOnly(ord, act, delta) ==
  LET cur == IF act \in Range(ord) THEN CHOOSE i \in DOMAIN ord : ord[i] = act ELSE 0
      next == (cur + delta) % Len(ord)
  IN  IF ord = <<>> \/ next = 0 THEN None ELSE ord[next]

\* The next or previous of [system log, peer 1, peer 2, ...], round and round.
Cycled(ord, act, delta) ==
  LET cur == IF act \in Range(ord) THEN CHOOSE i \in DOMAIN ord : ord[i] = act ELSE 0
      next == (cur + delta) % (Len(ord) + 1)
  IN  IF next = 0 THEN None ELSE ord[next]

\* Tab and arrows.
CycleActive(delta) ==
  /\ running
  /\ active' = Cycled(order, active, delta)
  /\ scroll' = 0
  /\ UNCHANGED <<peers, order, logged, channels>>

PageUp ==
  /\ running
  /\ scroll + 5 <= MaxScroll
  /\ scroll' = scroll + 5
  /\ UNCHANGED <<peers, order, active, logged, channels>>

\* saturating_sub
PageDown ==
  /\ running
  /\ scroll' = IF scroll < 5 THEN 0 ELSE scroll - 5
  /\ UNCHANGED <<peers, order, active, logged, channels>>

OnKey ==
  \/ SendToActive
  \/ Disconnect
  \/ Quit
  \/ \E delta \in {1, -1} : CycleActive(delta)
  \/ PageUp
  \/ PageDown
=============================================================================
