--------------------------- MODULE DeliveryProofs ---------------------------
(***************************************************************************)
(* The program implements Delivery for every peer, step by step and for    *)
(* every value of the constants.  The refinement mapping needs no history  *)
(* and no invariant but the types: what is pending is the peer's line      *)
(* channel followed by the commands that wait for the manager, so the      *)
(* proof is about where each step cuts that sequence.                      *)
(***************************************************************************)
EXTENDS Hop6Delivery, Hop6Proofs

-----------------------------------------------------------------------------
(* The commands that carry lines for p.                                    *)

\* The line a command carries for p.
Carried(c, p) == IF c.type = "Send" /\ c.peer = p THEN <<c.body>> ELSE <<>>

\* The lines of a channel, in two parts.
LEMMA SendsConcat ==
  ASSUME NEW p, NEW a \in Seq(UiCommand), NEW b \in Seq(UiCommand)
  PROVE  /\ Sends(a, p) \in Seq(Nat)
         /\ Sends(a \o b, p) = Sends(a, p) \o Sends(b, p)
<1> DEFINE Of(s) == [i \in DOMAIN s |->
                       IF s[i].type = "Send" /\ s[i].peer = p THEN <<s[i].body>> ELSE <<>>]
<1>1. ASSUME NEW s \in Seq(UiCommand)
      PROVE  /\ Of(s) \in Seq(Seq(Nat)) /\ Len(Of(s)) = Len(s)
             /\ \A i \in 1 .. Len(s) : Of(s)[i] = Carried(s[i], p)
             /\ Sends(s, p) = FlattenSeq(Of(s))
  <2>1. DOMAIN s = 1 .. Len(s) /\ Len(s) \in Nat /\ \A i \in 1 .. Len(s) : s[i] \in UiCommand
    OBVIOUS
  <2>2. \A i \in 1 .. Len(s) : Of(s)[i] = Carried(s[i], p) /\ Carried(s[i], p) \in Seq(Nat)
    BY <2>1, CommandFields DEF Carried
  <2>3. Of(s) \in [1 .. Len(s) -> Seq(Nat)]
    BY <2>1, <2>2
  <2>4. Sends(s, p) = FlattenSeq(Of(s))
    BY DEF Sends
  <2> HIDE DEF Of
  <2> QED BY <2>1, <2>2, <2>3, <2>4
<1>2. /\ a \o b \in Seq(UiCommand) /\ Len(a \o b) = Len(a) + Len(b)
      /\ \A i \in 1 .. Len(a) : (a \o b)[i] = a[i]
      /\ \A i \in 1 .. Len(b) : (a \o b)[Len(a) + i] = b[i]
  OBVIOUS
<1> DEFINE sa == Of(a)
           sb == Of(b)
           sc == Of(a \o b)
<1>3. /\ sa \in Seq(Seq(Nat)) /\ Len(sa) = Len(a)
      /\ \A i \in 1 .. Len(a) : sa[i] = Carried(a[i], p)
      /\ sb \in Seq(Seq(Nat)) /\ Len(sb) = Len(b)
      /\ \A i \in 1 .. Len(b) : sb[i] = Carried(b[i], p)
      /\ sc \in Seq(Seq(Nat)) /\ Len(sc) = Len(a) + Len(b)
      /\ \A i \in 1 .. Len(a) + Len(b) : sc[i] = Carried((a \o b)[i], p)
  BY <1>1, <1>2
<1>4. /\ Sends(a, p) = FlattenSeq(sa) /\ Sends(b, p) = FlattenSeq(sb)
      /\ Sends(a \o b, p) = FlattenSeq(sc)
  BY <1>1, <1>2
<1> HIDE DEF Of, sa, sb, sc
<1>5. Len(sc) = Len(sa) + Len(sb)
  BY <1>3
<1>6. \A i \in 1 .. Len(sa) : sc[i] = sa[i]
  <2> TAKE i \in 1 .. Len(sa)
  <2>1. i \in 1 .. Len(a) /\ i \in 1 .. Len(a) + Len(b)
    BY <1>3
  <2> QED BY <1>2, <1>3, <2>1
<1>7. \A i \in 1 .. Len(sb) : sc[Len(sa) + i] = sb[i]
  <2> TAKE i \in 1 .. Len(sb)
  <2>1. i \in 1 .. Len(b) /\ Len(a) + i \in 1 .. Len(a) + Len(b)
    BY <1>3
  <2> QED BY <1>2, <1>3, <2>1
<1>8. FlattenSeq(sc) = FlattenSeq(sa) \o FlattenSeq(sb)
  BY <1>3, <1>5, <1>6, <1>7, FlattenJoin
<1>9. FlattenSeq(sa) \in Seq(Nat)
  BY <1>3, FlattenType
<1> QED BY <1>4, <1>8, <1>9

\* The lines of a channel with one command and of an empty one.
LEMMA SendsOne ==
  ASSUME NEW p, NEW c \in UiCommand
  PROVE  Sends(<<c>>, p) = Carried(c, p) /\ Carried(c, p) \in Seq(Nat)
<1> DEFINE ss == [i \in DOMAIN <<c>> |->
                    IF <<c>>[i].type = "Send" /\ <<c>>[i].peer = p
                      THEN <<<<c>>[i].body>> ELSE <<>>]
<1>1. Carried(c, p) \in Seq(Nat)
  BY CommandFields DEF Carried
<1>2. ss = <<Carried(c, p)>>
  <2>1. DOMAIN <<c>> = {1} /\ <<c>>[1] = c
    OBVIOUS
  <2>2. ss = [i \in {1} |-> Carried(c, p)]
    BY <2>1 DEF Carried
  <2>3. <<Carried(c, p)>> = [i \in {1} |-> Carried(c, p)]
    OBVIOUS
  <2> QED BY <2>2, <2>3
<1>3. Sends(<<c>>, p) = FlattenSeq(ss)
  BY DEF Sends
<1> HIDE DEF ss
<1> QED BY <1>1, <1>2, <1>3, FlattenShort

\* No command carries no line.
LEMMA SendsNone == ASSUME NEW p PROVE Sends(<<>>, p) = <<>>
<1> DEFINE ss == [i \in DOMAIN <<>> |->
                    IF <<>>[i].type = "Send" /\ <<>>[i].peer = p
                      THEN <<<<>>[i].body>> ELSE <<>>]
<1>1. ss = <<>>
  OBVIOUS
<1>2. Sends(<<>>, p) = FlattenSeq(ss)
  BY DEF Sends
<1>3. FlattenSeq(<<>>) = <<>>
  BY DEF FlattenSeq
<1> HIDE DEF ss
<1> QED BY <1>1, <1>2, <1>3

\* A command is sent.
LEMMA SendsAppend ==
  ASSUME NEW p, NEW s \in Seq(UiCommand), NEW c \in UiCommand
  PROVE  Sends(Append(s, c), p) = Sends(s, p) \o Carried(c, p)
<1>1. Append(s, c) = s \o <<c>> /\ <<c>> \in Seq(UiCommand)
  BY AppendIsConcat
<1> QED BY <1>1, SendsConcat, SendsOne

\* The first command is taken.
LEMMA SendsTaken ==
  ASSUME NEW p, NEW s \in Seq(UiCommand), s # <<>>
  PROVE  /\ Sends(s, p) = Carried(Head(s), p) \o Sends(Tail(s), p)
         /\ Carried(Head(s), p) \in Seq(Nat)
<1>1. /\ Head(s) \in UiCommand /\ Tail(s) \in Seq(UiCommand)
      /\ s = <<Head(s)>> \o Tail(s) /\ <<Head(s)>> \in Seq(UiCommand)
  OBVIOUS
<1>2. Sends(<<Head(s)>> \o Tail(s), p) = Sends(<<Head(s)>>, p) \o Sends(Tail(s), p)
  BY <1>1, SendsConcat
<1> QED BY <1>1, <1>2, SendsOne

-----------------------------------------------------------------------------
(* Steps of Delivery.                                                      *)

\* What a peer's view of a step is: a step of Delivery or none at all.
Step(p) == [ToPeer(p)!Next]_<<Online(p), Queued(p), wire[p]>>

\* A run of what is queued is gone, and nothing else.
LEMMA RunLost ==
  ASSUME NEW p \in PeerId,
         NEW x \in Seq(Nat), NEW y \in Seq(Nat), NEW z \in Seq(Nat),
         Queued(p) = x \o y \o z, Queued(p)' = x \o z,
         Online(p)' = Online(p), wire'[p] = wire[p]
  PROVE  Step(p)
<1>1. ToPeer(p)!Lose
  <2> DEFINE q == Queued(p)
             r == Queued(p)'
  <2>1. WithoutRun(q, r)
    <3>1. q = x \o y \o z /\ r = x \o z
      OBVIOUS
    <3> HIDE DEF q, r
    <3> QED BY <3>1, CutRun
  <2>2. PICK k \in 0 .. Len(q), m \in 1 .. Len(q) + 1 :
          k < m /\ r = SubSeq(q, 1, k) \o SubSeq(q, m, Len(q))
    BY <2>1 DEF WithoutRun
  <2> QED BY <2>2 DEF ToPeer!Lose
<1> QED BY <1>1 DEF Step, ToPeer!Next

\* Nothing the peer sees has changed, but perhaps whether it is shown online.
LEMMA NothingMoved ==
  ASSUME NEW p \in PeerId, Queued(p)' = Queued(p), wire'[p] = wire[p]
  PROVE  Step(p)
<1>1. Online(p) \in BOOLEAN /\ Online(p)' \in BOOLEAN
  BY DEF Online
<1>2. CASE Online(p)' = Online(p)
  BY <1>2 DEF Step
<1>3. CASE Online(p)' # Online(p)
  <2>1. ToPeer(p)!ShowOrHide
    BY <1>1, <1>3 DEF ToPeer!ShowOrHide
  <2> QED BY <2>1 DEF Step, ToPeer!Next
<1> QED BY <1>2, <1>3

\* A write takes the first queued line, and no other step does.
LEMMA WriteTakes ==
  ASSUME Inv, NEW p \in PeerId, ConnWrite(p)
  PROVE  /\ lines[p] # <<>> /\ lines'[p] = Tail(lines[p]) /\ lines'[p] # lines[p]
         /\ tasks[p].pc = "conn" /\ UNCHANGED <<fromUi, tasks>>
<1>1. /\ lines \in [PeerId -> Seq(Nat)] /\ lines[p] \in Seq(Nat)
      /\ lines[p] # <<>> /\ lines' = [lines EXCEPT ![p] = Tail(@)]
      /\ tasks[p].pc = "conn" /\ UNCHANGED <<fromUi, tasks>>
  BY DEF Inv, NetInv, NetworkTypeOK, ConnWrite, TaskFrame
<1>2. lines'[p] = Tail(lines[p])
  BY <1>1
<1>3. Len(Tail(lines[p])) # Len(lines[p])
  BY <1>1
<1>4. lines'[p] # lines[p]
  BY <1>2, <1>3
<1> QED BY <1>1, <1>2, <1>4

\* A line written is the first pending one: Delivery writes it.
LEMMA WriteStep ==
  ASSUME Inv, Next, WireNext, NEW p \in PeerId, ConnWrite(p)
  PROVE  Step(p)
<1>1. /\ lines[p] # <<>> /\ lines'[p] = Tail(lines[p]) /\ lines'[p] # lines[p]
      /\ UNCHANGED fromUi
  BY WriteTakes
<1>2. UNCHANGED appVars
  BY <1>1 DEF Next, UiEvent, UserConnect, UserKey, RemoteDials, ManagerStep,
              ConnectionStep, netVars
<1>3. Online(p)' = Online(p)
  BY <1>2 DEF Online, appVars
<1>4. wire'[p] = Append(wire[p], Head(lines[p]))
  BY DEF WireNext
<1>5. lines[p] \in Seq(Nat) /\ Sends(fromUi, p) \in Seq(Nat)
  BY SendsConcat DEF Inv, NetInv, NetworkTypeOK, ChannelTypeOK
<1> DEFINE s == lines[p]
           t == Sends(fromUi, p)
<1>6. s \o t # <<>> /\ Head(s \o t) = Head(s) /\ Tail(s \o t) = Tail(s) \o t
  <2>1. s \in Seq(Nat) /\ t \in Seq(Nat) /\ s # <<>>
    BY <1>1, <1>5
  <2> HIDE DEF s, t
  <2> QED BY <2>1, ConcatTail
<1>7. /\ Queued(p) # <<>> /\ Head(Queued(p)) = Head(lines[p])
      /\ Queued(p)' = Tail(Queued(p))
  <2>1. Queued(p) = s \o t /\ Queued(p)' = Tail(s) \o t
    BY <1>1 DEF Queued
  <2> HIDE DEF s, t
  <2>2. Queued(p) # <<>> /\ Head(Queued(p)) = Head(s) /\ Queued(p)' = Tail(Queued(p))
    BY <1>6, <2>1
  <2> QED BY <2>2 DEF s
<1>8. ToPeer(p)!Write
  BY <1>3, <1>4, <1>7 DEF ToPeer!Write
<1> QED BY <1>8 DEF Step, ToPeer!Next

\* The user: a line typed joins the end of the queue of the focused peer, which
\* is shown online; anything else that is sent carries no line.
LEMMA UserStepMaps ==
  ASSUME Inv, UserKey \/ UserConnect, NEW p \in PeerId, wire'[p] = wire[p]
  PROVE  Step(p)
<1>1. /\ lines[p] \in Seq(Nat) /\ fromUi \in Seq(UiCommand)
      /\ Sends(fromUi, p) \in Seq(Nat) /\ UNCHANGED lines
  BY SendsConcat
     DEF Inv, NetInv, NetworkTypeOK, ChannelTypeOK, UserKey, UserConnect, netVars
<1>2. ASSUME UNCHANGED fromUi PROVE Step(p)
  BY <1>1, <1>2, NothingMoved DEF Queued
<1>3. ASSUME NEW c \in UiCommand, fromUi' = Append(fromUi, c)
      PROVE  Queued(p)' = Queued(p) \o Carried(c, p) /\ Carried(c, p) \in Seq(Nat)
  <2>1. /\ Sends(fromUi', p) = Sends(fromUi, p) \o Carried(c, p)
        /\ Carried(c, p) \in Seq(Nat)
    BY <1>1, <1>3, SendsAppend, SendsOne
  <2> DEFINE x == lines[p]
             y == Sends(fromUi, p)
             z == Carried(c, p)
  <2>2. x \in Seq(Nat) /\ y \in Seq(Nat) /\ z \in Seq(Nat)
    BY <1>1, <2>1
  <2>3. Queued(p) = x \o y /\ Queued(p)' = x \o (y \o z)
    BY <1>1, <2>1 DEF Queued
  <2>4. Queued(p)' = Queued(p) \o z
    <3> HIDE DEF x, y, z
    <3> QED BY <2>2, <2>3, Regroup
  <2> QED BY <2>1, <2>4
<1>4. Queued(p) \in Seq(Nat)
  BY <1>1 DEF Queued
<1>5. ASSUME NEW c \in UiCommand, fromUi' = Append(fromUi, c), Carried(c, p) = <<>>
      PROVE  Step(p)
  <2>1. Queued(p)' = Queued(p)
    BY <1>3, <1>4, <1>5, ConcatEmpty
  <2> QED BY <2>1, NothingMoved
<1>6. ASSUME NEW c \in UiCommand, Command(c), Carried(c, p) = <<>> PROVE Step(p)
  BY <1>2, <1>5, <1>6 DEF Command
<1>7. active # None => active \in PeerId
  BY DEF Inv, AppInv, AppTypeOK
<1>8. CASE SendToActive
  <2> DEFINE c == [type |-> "Send", peer |-> active, body |-> logged + 1]
  <2>1. /\ active \in PeerId /\ active \in DOMAIN peers /\ peers[active].connected
        /\ logged \in Nat /\ logged < MaxLogged /\ MaxLogged \in Nat /\ Command(c)
    BY <1>7, <1>8, AppAssumption DEF SendToActive, Inv, AppInv, AppTypeOK
  <2>2. c \in UiCommand
    BY <2>1 DEF UiCommand
  <2>3. CASE fromUi' = fromUi
    BY <1>2, <2>3
  <2>4. CASE fromUi' # fromUi
    <3>1. fromUi' = Append(fromUi, c)
      BY <2>1, <2>4 DEF Command
    <3>2. CASE active # p
      <4>1. Carried(c, p) = <<>>
        BY <3>2 DEF Carried
      <4> HIDE DEF c
      <4> QED BY <1>5, <2>2, <3>1, <4>1
    <3>3. CASE active = p
      <4>1. Carried(c, p) = <<logged + 1>> /\ logged + 1 \in 1 .. MaxLogged
        BY <2>1, <3>3 DEF Carried
      <4> HIDE DEF c
      <4>2. Queued(p)' = Queued(p) \o <<logged + 1>>
        BY <1>3, <2>2, <3>1, <4>1
      <4>3. Queued(p)' = Append(Queued(p), logged + 1)
        BY <1>4, <2>1, <4>2, AppendIsConcat
      <4>4. Online(p) /\ Online(p)'
        <5>1. peers' = [peers EXCEPT ![active].log =
                          Append(@, Line(TRUE, active, logged + 1))]
              /\ peers \in [DOMAIN peers -> Peer]
          BY <1>8 DEF SendToActive, Inv, AppInv, AppTypeOK
        <5>2. DOMAIN peers' = DOMAIN peers /\ peers'[p].connected = peers[p].connected
          BY <2>1, <3>3, <5>1 DEF Peer
        <5> QED BY <2>1, <3>3, <5>2 DEF Online
      <4>5. ToPeer(p)!Type(logged + 1)
        BY <4>3, <4>4 DEF ToPeer!Type
      <4> QED BY <4>1, <4>5 DEF Step, ToPeer!Next
    <3> QED BY <3>2, <3>3
  <2> QED BY <2>3, <2>4
<1>9. CASE UserConnect
  <2>1. PICK a \in Address : Connect(a)
    BY <1>9 DEF UserConnect
  <2> DEFINE c == [type |-> "Connect", onion |-> a]
  <2>2. c \in UiCommand /\ Command(c) /\ Carried(c, p) = <<>>
    BY <2>1 DEF UiCommand, Connect, Carried
  <2> HIDE DEF c
  <2> QED BY <1>6, <2>2
<1>10. CASE Disconnect
  <2> DEFINE c == [type |-> "Disconnect", peer |-> active]
  <2>1. c \in UiCommand /\ Command(c) /\ Carried(c, p) = <<>>
    BY <1>7, <1>10 DEF UiCommand, Disconnect, Carried
  <2> HIDE DEF c
  <2> QED BY <1>6, <2>1
<1>11. CASE Quit
  <2> DEFINE c == [type |-> "Shutdown"]
  <2>1. c \in UiCommand /\ Carried(c, p) = <<>>
    BY DEF UiCommand, Carried
  <2>2. fromUi' = fromUi \/ fromUi' = Append(fromUi, c)
    BY <1>11 DEF Quit
  <2> HIDE DEF c
  <2> QED BY <1>2, <1>5, <2>1, <2>2
<1>12. CASE PageUp \/ PageDown \/ \E delta \in {1, -1} : CycleActive(delta)
  BY <1>2, <1>12 DEF PageUp, PageDown, CycleActive, channels
<1> QED BY <1>8, <1>9, <1>10, <1>11, <1>12 DEF UserKey, OnKey

\* The manager: a line moves from the command to the peer's channel, which is no
\* step at all for the peer, or is dropped; shutting down drops what waits.
LEMMA ManagerStepMaps ==
  ASSUME Inv, ManagerStep, NEW p \in PeerId, wire'[p] = wire[p]
  PROVE  Step(p)
<1>1. /\ lines \in [PeerId -> Seq(Nat)] /\ lines[p] \in Seq(Nat)
      /\ fromUi \in Seq(UiCommand) /\ Sends(fromUi, p) \in Seq(Nat)
  BY SendsConcat DEF Inv, NetInv, NetworkTypeOK, ChannelTypeOK
<1>2. UNCHANGED appVars
  BY DEF ManagerStep
<1>3. Online(p)' = Online(p)
  BY <1>2 DEF Online, appVars
<1>4. ASSUME NEW type, TakeCommand(type)
      PROVE  /\ Head(fromUi) \in UiCommand /\ Head(fromUi).type = type
             /\ fromUi' = Tail(fromUi) /\ Sends(Tail(fromUi), p) \in Seq(Nat)
             /\ Carried(Head(fromUi), p) \in Seq(Nat)
             /\ Sends(fromUi, p) = Carried(Head(fromUi), p) \o Sends(Tail(fromUi), p)
  <2>1. /\ fromUi # <<>> /\ Head(fromUi).type = type /\ fromUi' = Tail(fromUi)
        /\ Head(fromUi) \in UiCommand /\ Tail(fromUi) \in Seq(UiCommand)
    BY <1>1, <1>4, HeadTail DEF TakeCommand
  <2> QED BY <1>1, <2>1, SendsTaken, SendsConcat
<1>5. ASSUME NEW type, type # "Send", TakeCommand(type), UNCHANGED lines PROVE Step(p)
  <2>1. Carried(Head(fromUi), p) = <<>>
    BY <1>4, <1>5 DEF Carried
  <2>2. Sends(fromUi', p) = Sends(fromUi, p)
    BY <1>4, <1>5, <2>1, ConcatEmpty
  <2>3. Queued(p)' = Queued(p)
    BY <1>5, <2>2 DEF Queued
  <2> QED BY <2>3, NothingMoved
<1>6. CASE ManagerSend
  <2> DEFINE cmd == Head(fromUi)
             rest == Sends(Tail(fromUi), p)
             s == lines[p]
             c == Carried(cmd, p)
  <2>1. TakeCommand("Send")
    BY <1>6 DEF ManagerSend
  <2>2. /\ cmd \in UiCommand /\ cmd.type = "Send" /\ fromUi' = Tail(fromUi)
        /\ rest \in Seq(Nat) /\ c \in Seq(Nat) /\ s \in Seq(Nat)
        /\ Sends(fromUi, p) = c \o rest
    BY <1>1, <1>4, <2>1
  <2>3. cmd.peer \in PeerId /\ cmd.body \in Nat
    BY <2>2, CommandFields
  <2>4. Queued(p) = s \o (c \o rest) /\ Queued(p)' = lines'[p] \o rest
    BY <2>2 DEF Queued
  <2>5. s \o (c \o rest) = (s \o c) \o rest
    <3>1. s \in Seq(Nat) /\ c \in Seq(Nat) /\ rest \in Seq(Nat)
      BY <2>2
    <3> HIDE DEF s, c, rest
    <3> QED BY <3>1, Regroup
  <2>6. CASE cmd.peer # p
    <3>1. c = <<>> /\ lines'[p] = s
      BY <1>1, <1>6, <2>3, <2>6 DEF ManagerSend, Carried
    <3>2. Queued(p)' = Queued(p)
      <4> HIDE DEF s, c, rest
      <4> QED BY <2>2, <2>4, <3>1
    <3> QED BY <3>2, NothingMoved
  <2>7. CASE cmd.peer = p /\ p \in routes /\ tasks[p].pc # "done"
    <3>1. c = <<cmd.body>> /\ lines'[p] = Append(s, cmd.body)
      BY <1>1, <1>6, <2>2, <2>3, <2>7 DEF ManagerSend, Carried
    <3>2. lines'[p] = s \o c
      <4>1. Append(s, cmd.body) = s \o <<cmd.body>>
        BY <2>2, <2>3, AppendIsConcat
      <4> QED BY <3>1, <4>1
    <3>3. Queued(p)' = Queued(p)
      <4> HIDE DEF s, c, rest
      <4> QED BY <2>4, <2>5, <3>2
    <3> QED BY <3>3, NothingMoved
  <2>8. CASE cmd.peer = p /\ ~(p \in routes /\ tasks[p].pc # "done")
    <3>1. lines'[p] = s
      BY <1>6, <2>8 DEF ManagerSend
    <3>2. Queued(p) = s \o c \o rest /\ Queued(p)' = s \o rest
      <4> HIDE DEF s, c, rest
      <4> QED BY <2>4, <2>5, <3>1
    <3> HIDE DEF s, c, rest
    <3> QED BY <1>3, <2>2, <3>2, RunLost
  <2> QED BY <2>6, <2>7, <2>8
<1>7. CASE ManagerConnect \/ ManagerDisconnect
  BY <1>5, <1>7 DEF ManagerConnect, ManagerDisconnect
<1>8. CASE ManagerShutdown
  <2> DEFINE s == lines[p]
             c == Sends(fromUi, p)
             rest == <<>>
  <2>1. fromUi' = <<>> /\ UNCHANGED lines
    BY <1>8 DEF ManagerShutdown
  <2>2. s \in Seq(Nat) /\ c \in Seq(Nat) /\ rest \in Seq(Nat)
    BY <1>1
  <2>3. Sends(fromUi', p) = rest
    BY <2>1, SendsNone
  <2>4. Queued(p) = s \o c /\ Queued(p)' = s \o rest
    BY <2>1, <2>3 DEF Queued
  <2>5. s \o c = s \o c \o rest
    <3> HIDE DEF s, c
    <3> QED BY <2>2
  <2> HIDE DEF s, c, rest
  <2> QED BY <1>3, <2>2, <2>4, <2>5, RunLost
<1>9. CASE ManagerInbound \/ ManagerDone
  <2>1. UNCHANGED <<fromUi, lines>>
    BY <1>9 DEF ManagerInbound, ManagerDone, channels
  <2> QED BY <2>1, NothingMoved DEF Queued
<1> QED BY <1>6, <1>7, <1>8, <1>9 DEF ManagerStep, Manager

\* A task: ending, or going to wait, drops what waits in its own channel; the
\* line whose write never completes is lost.
LEMMA ConnectionStepMaps ==
  ASSUME Inv, NEW q \in PeerId, Connection(q), UNCHANGED appVars,
         NEW p \in PeerId, ~ConnWrite(p), wire'[p] = wire[p]
  PROVE  Step(p)
<1>1. /\ lines \in [PeerId -> Seq(Nat)] /\ lines[p] \in Seq(Nat)
      /\ Sends(fromUi, p) \in Seq(Nat)
  BY SendsConcat DEF Inv, NetInv, NetworkTypeOK, ChannelTypeOK
<1>2. Online(p)' = Online(p)
  BY DEF Online, appVars
<1>3. UNCHANGED fromUi
  BY DEF Connection, DialOk, DialFail, ConnRecv, ConnWrite, ConnStuck, ConnLocalClosed,
         ConnLost, WaitDrop, WaitClosed, WaitElapsed, TaskFrame
<1>4. ASSUME lines'[p] = lines[p] PROVE Step(p)
  BY <1>3, <1>4, NothingMoved DEF Queued
<1> DEFINE s == lines[p]
           t == Sends(fromUi, p)
           none == <<>>
<1>5. /\ s \in Seq(Nat) /\ t \in Seq(Nat) /\ none \in Seq(Nat)
      /\ Queued(p) = s \o t /\ Queued(p)' = lines'[p] \o t
  BY <1>1, <1>3 DEF Queued
<1>6. ASSUME lines' = [lines EXCEPT ![q] = <<>>] PROVE Step(p)
  <2>1. CASE q # p
    BY <1>1, <1>4, <1>6, <2>1
  <2>2. CASE q = p
    <3>1. lines'[p] = none
      BY <1>1, <1>6, <2>2
    <3>2. Queued(p) = none \o s \o t /\ Queued(p)' = none \o t
      <4> HIDE DEF s, t
      <4> QED BY <1>5, <3>1
    <3> HIDE DEF s, t, none
    <3> QED BY <1>2, <1>5, <3>2, RunLost
  <2> QED BY <2>1, <2>2
<1>7. CASE DialFail(q) \/ ConnLost(q) \/ ConnLocalClosed(q) \/ WaitClosed(q)
  <2>1. lines' = [lines EXCEPT ![q] = <<>>]
    BY <1>7 DEF DialFail, ConnLost, ConnLocalClosed, WaitClosed, wait_or_closed, Finish
  <2> QED BY <1>6, <2>1
<1>8. CASE ConnWrite(q)
  <2>1. q # p
    BY <1>8
  <2> QED BY <1>1, <1>4, <1>8, <2>1 DEF ConnWrite
<1>9. ASSUME lines[q] # <<>>, lines' = [lines EXCEPT ![q] = Tail(@)] PROVE Step(p)
  <2>1. lines[q] # <<>> /\ lines' = [lines EXCEPT ![q] = Tail(@)]
    BY <1>9
  <2>2. CASE q # p
    BY <1>1, <1>4, <2>1, <2>2
  <2>3. CASE q = p
    <3> DEFINE first == <<Head(lines[p])>>
               rest == Tail(lines[p])
    <3>1. /\ first \in Seq(Nat) /\ rest \in Seq(Nat) /\ s = first \o rest
          /\ lines'[p] = rest
      <4>1. s \in Seq(Nat) /\ s # <<>>
        BY <1>1, <2>1, <2>3
      <4>2. Head(s) \in Nat /\ Tail(s) \in Seq(Nat) /\ s = <<Head(s)>> \o Tail(s)
        <5> HIDE DEF s
        <5> QED BY <4>1
      <4> QED BY <1>1, <2>1, <2>3, <4>2
    <3> HIDE DEF first, rest, s, t, none
    <3>2. Queued(p) = none \o first \o (rest \o t) /\ Queued(p)' = none \o (rest \o t)
      <4>1. first \o (rest \o t) = (first \o rest) \o t
        <5>1. first \in Seq(Nat) /\ rest \in Seq(Nat) /\ t \in Seq(Nat)
          BY <1>5, <3>1
        <5> QED BY <5>1, Regroup
      <4>2. none \o first = first /\ none \o (rest \o t) = rest \o t
        BY <1>5, <3>1, ConcatEmpty DEF none
      <4> QED BY <1>5, <3>1, <4>1, <4>2
    <3>3. rest \o t \in Seq(Nat)
      BY <1>5, <3>1
    <3> QED BY <1>2, <1>5, <3>1, <3>2, <3>3, RunLost
  <2> QED BY <2>2, <2>3
<1>10. CASE DialOk(q) \/ ConnRecv(q) \/ WaitElapsed(q)
  BY <1>4, <1>10 DEF DialOk, ConnRecv, WaitElapsed
<1>11. CASE WaitDrop(q) \/ ConnStuck(q)
  <2>1. \/ UNCHANGED lines
        \/ lines[q] # <<>> /\ lines' = [lines EXCEPT ![q] = Tail(@)]
    BY <1>11 DEF WaitDrop, ConnStuck
  <2> QED BY <1>4, <1>9, <2>1
<1> QED BY <1>7, <1>8, <1>10, <1>11 DEF Connection

-----------------------------------------------------------------------------
(* The theorem.                                                            *)

\* Every step of the program is a step of Delivery for every peer, or none.
LEMMA NextMaps ==
  ASSUME Inv, [Next /\ WireNext]_<<vars, wire>>, NEW p \in PeerId
  PROVE  Step(p)
<1>1. CASE UNCHANGED <<vars, wire>>
  <2>1. Queued(p)' = Queued(p) /\ wire'[p] = wire[p]
    BY <1>1 DEF vars, channels, netVars, Queued, Sends
  <2> QED BY <2>1, NothingMoved
<1>2. CASE Next /\ WireNext
  <2>1. CASE ConnWrite(p)
    BY <1>2, <2>1, WriteStep
  <2>2. CASE ~ConnWrite(p)
    <3>1. wire'[p] = wire[p]
      BY <1>2, <2>2 DEF WireNext
    <3>2. CASE UiEvent \/ RemoteDials
      <4>1. UNCHANGED <<fromUi, lines>>
        BY <3>2 DEF UiEvent, ApplyNetEvent, PeerConnected, PeerDisconnected, PeerError,
                    MessageLogged, MessageDropped, Receive, RemoteDials, Accept,
                    channels, netVars
      <4> QED BY <3>1, <4>1, NothingMoved DEF Queued
    <3>3. CASE UserConnect \/ UserKey
      BY <3>1, <3>3, UserStepMaps
    <3>4. CASE ManagerStep
      BY <3>1, <3>4, ManagerStepMaps
    <3>5. CASE ConnectionStep
      BY <2>2, <3>1, <3>5, ConnectionStepMaps DEF ConnectionStep
    <3> QED BY <1>2, <3>2, <3>3, <3>4, <3>5 DEF Next
  <2> QED BY <2>1, <2>2
<1> QED BY <1>1, <1>2

\* Nothing is queued, written or shown in the beginning.
LEMMA InitMaps ==
  ASSUME Init, WireInit, NEW p \in PeerId
  PROVE  ToPeer(p)!Init
<1>1. lines[p] = <<>> /\ fromUi = <<>> /\ wire[p] = <<>>
  BY DEF Init, NetworkInit, ChannelInit, WireInit
<1>2. Sends(fromUi, p) = <<>>
  BY <1>1, SendsNone
<1>3. Queued(p) = <<>>
  <2>1. <<>> \o <<>> = <<>>
    OBVIOUS
  <2> QED BY <1>1, <1>2, <2>1 DEF Queued
<1>4. Online(p) \in BOOLEAN
  BY DEF Online
<1> QED BY <1>1, <1>3, <1>4 DEF ToPeer!Init

\* For any number of peers, lines and bounds, and any interleaving of sends,
\* losses, redials, hang-ups and a shutdown: what is written to a peer are lines
\* typed to it while it was shown online, in the order they were typed and each
\* at most once (app.rs, send_to_active; network.rs, run and the tasks).
THEOREM ProgramDelivers == DeliverySpec => ImplementsDelivery
<1> DEFINE Steps == \A p \in PeerId :
                      \/ UNCHANGED <<Online(p), Queued(p), wire[p]>>
                      \/ ToPeer(p)!Next
           Starts == \A p \in PeerId : ToPeer(p)!Init
<1>1. Init /\ WireInit => Starts
  BY InitMaps
<1>2. Inv /\ [Next /\ WireNext]_<<vars, wire>> => [Steps]_<<vars, wire>>
  BY NextMaps DEF Step
<1>3. [Next /\ WireNext]_<<vars, wire>> => [Next]_vars
  OBVIOUS
<1>4. ImplementsDelivery <=> Starts /\ [][Steps]_<<vars, wire>>
  BY DEF ImplementsDelivery
<1> HIDE DEF Starts, Steps
<1> QED BY <1>1, <1>2, <1>3, <1>4, InitInv, NextInv, PTL DEF DeliverySpec
=============================================================================
