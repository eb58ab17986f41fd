----------------------------- MODULE LinkProofs -----------------------------
(***************************************************************************)
(* A link for every interval, timeout, buffer and number of lines: its     *)
(* types, the heartbeat's deadline, that each direction implements         *)
(* Delivery, and that a working link is never given up.                    *)
(*                                                                         *)
(* The first two are inductive. The refinement follows each line along its *)
(* row, from the line channel through the slot of the awaited write to the *)
(* stream, so that an action either moves a line within the row, reads its *)
(* first, adds a last, or cuts a run out of it. The last rests on          *)
(* PulseInv, which says how far the heartbeat of one end and the silence   *)
(* of the other can drift apart.                                           *)
(***************************************************************************)
EXTENDS Link, SeqFacts

\* There are two ends, each the other of the other.
LEMMA EndFacts ==
  /\ A \in End /\ B \in End
  /\ \A e \in End : Other(e) \in End /\ Other(e) # e
BY LinkAssumption DEF End, Other

\* The cap on a silence is a natural above every comparison the code makes.
LEMMA LimitFacts ==
  /\ MaxSilence \in Nat
  /\ LIVENESS_TIMEOUT < MaxSilence /\ 0 <= MaxSilence
  /\ LIVENESS_TIMEOUT + PING_INTERVAL \in Nat
BY LinkAssumption DEF MaxSilence

\* Pings and pongs are frames.
LEMMA HeartbeatFrames == [t |-> "ping"] \in Frame /\ [t |-> "pong"] \in Frame
BY DEF Frame

\* The part of the type invariant that a frame handed to the sink disturbs.
SlotOK(p, s) ==
  /\ p \in [End -> {"select", "sending", "unresponsive", "lost", "closed"}]
  /\ s \in [End -> Seq(Frame)]
  /\ \A e \in End : (p[e] = "sending") = (Len(s[e]) = 1)

\* Handing a frame to the sink fills the slot,
LEMMA SendSlot ==
  ASSUME SlotOK(pc, sending), NEW e \in End, NEW f \in Frame, Send(e, f)
  PROVE  SlotOK(pc', sending')
<1>1. <<f>> \in Seq(Frame) /\ Len(<<f>>) = 1
  OBVIOUS
<1>2. pc' \in [End -> {"select", "sending", "unresponsive", "lost", "closed"}]
  BY DEF Send, SlotOK
<1>3. sending' \in [End -> Seq(Frame)]
  BY <1>1 DEF Send, SlotOK
<1>4. ASSUME NEW d \in End PROVE (pc'[d] = "sending") = (Len(sending'[d]) = 1)
  <2>1. CASE d = e
    <3>1. pc'[d] = "sending" /\ sending'[d] = <<f>>
      BY <2>1 DEF Send, SlotOK
    <3> QED BY <1>1, <3>1
  <2>2. CASE d # e
    <3>1. pc'[d] = pc[d] /\ sending'[d] = sending[d]
      BY <2>2 DEF Send, SlotOK
    <3> QED BY <3>1 DEF SlotOK
  <2> QED BY <2>1, <2>2
<1> QED BY <1>2, <1>3, <1>4 DEF SlotOK

\* and leaving "sending" empties it.
LEMMA EmptySlot ==
  ASSUME SlotOK(pc, sending), NEW e \in End,
         NEW why \in {"select", "unresponsive", "lost", "closed"},
         pc' = [pc EXCEPT ![e] = why], sending' = [sending EXCEPT ![e] = <<>>]
  PROVE  SlotOK(pc', sending')
<1>1. <<>> \in Seq(Frame) /\ Len(<<>>) # 1
  OBVIOUS
<1>2. pc' \in [End -> {"select", "sending", "unresponsive", "lost", "closed"}]
  BY DEF SlotOK
<1>3. sending' \in [End -> Seq(Frame)]
  BY <1>1 DEF SlotOK
<1>4. ASSUME NEW d \in End PROVE (pc'[d] = "sending") = (Len(sending'[d]) = 1)
  <2>1. CASE d = e
    <3>1. pc'[d] = why /\ sending'[d] = <<>>
      BY <2>1 DEF SlotOK
    <3> QED BY <1>1, <3>1
  <2>2. CASE d # e
    <3>1. pc'[d] = pc[d] /\ sending'[d] = sending[d]
      BY <2>2 DEF SlotOK
    <3> QED BY <3>1 DEF SlotOK
  <2> QED BY <2>1, <2>2
<1> QED BY <1>2, <1>3, <1>4 DEF SlotOK

\* The rest of it, by what changes together.
QueuesOK ==
  /\ lines \in [End -> Seq(Line)]
  /\ handed \in [End -> 0 .. MaxLines]
  /\ open \in [End -> BOOLEAN]

ClocksOK ==
  /\ wait \in [End -> 0 .. PING_INTERVAL]
  /\ silence \in [End -> 0 .. MaxSilence]

CircuitOK ==
  /\ circuit \in {"up", "stalled", "dead", "broken"}
  /\ stall \in 0 .. MaxStall

StreamOK == stream \in [End -> Seq(Frame)]
HeardOK == heard \in [End -> Seq(Line)]

\* The type invariant is the conjunction of its parts, before and after a step.
LEMMA TypeParts ==
  /\ TypeOK = (/\ SlotOK(pc, sending) /\ QueuesOK /\ ClocksOK /\ CircuitOK
               /\ StreamOK /\ HeardOK)
  /\ TypeOK' = (/\ SlotOK(pc', sending') /\ QueuesOK' /\ ClocksOK' /\ CircuitOK'
                /\ StreamOK' /\ HeardOK')
BY DEF TypeOK, SlotOK, QueuesOK, ClocksOK, CircuitOK, StreamOK, HeardOK

\* The initial state is typed.
LEMMA TypeInit == Init => TypeOK
<1> SUFFICES ASSUME Init PROVE TypeOK
  OBVIOUS
<1>1. <<>> \in Seq(Frame) /\ <<>> \in Seq(Line) /\ Len(<<>>) # 1
  OBVIOUS
<1>2. 0 \in 0 .. PING_INTERVAL /\ 0 \in 0 .. MaxSilence /\ 0 \in 0 .. MaxLines
        /\ 0 \in 0 .. MaxStall
  BY LinkAssumption, LimitFacts
<1>3. SlotOK(pc, sending)
  BY <1>1 DEF Init, SlotOK
<1>4. QueuesOK
  BY <1>1, <1>2 DEF Init, QueuesOK
<1>5. ClocksOK /\ CircuitOK
  BY <1>2 DEF Init, ClocksOK, CircuitOK
<1>6. StreamOK /\ HeardOK
  BY <1>1 DEF Init, StreamOK, HeardOK
<1> QED BY <1>3, <1>4, <1>5, <1>6, TypeParts

\* A loop that returns leaves everything of its type.
LEMMA ReturnTyped ==
  ASSUME TypeOK, NEW e \in End, NEW why \in {"unresponsive", "lost", "closed"},
         Return(e, why)
  PROVE  TypeOK'
<1>1. <<>> \in Seq(Frame) /\ <<>> \in Seq(Line)
  OBVIOUS
<1>2. 0 \in 0 .. PING_INTERVAL /\ 0 \in 0 .. MaxSilence
  BY LinkAssumption, LimitFacts
<1>3. SlotOK(pc', sending')
  BY TypeParts, EmptySlot DEF Return
<1>4. QueuesOK'
  BY <1>1, TypeParts DEF Return, QueuesOK
<1>5. ClocksOK'
  BY <1>2, TypeParts DEF Return, ClocksOK
<1>6. CircuitOK' /\ HeardOK'
  BY TypeParts DEF Return, CircuitOK, HeardOK
<1>7. StreamOK'
  BY <1>1, EndFacts, TypeParts DEF Return, StreamOK
<1> QED BY <1>3, <1>4, <1>5, <1>6, <1>7, TypeParts

\* Every branch of a loop keeps the types,
LEMMA LoopTyped ==
  ASSUME TypeOK, NEW e \in End, run_connection(e)
  PROVE  TypeOK'
<1> USE TypeParts
<1>1. CASE ReadFrame(e)
  <2> DEFINE f == Head(Incoming(e))
  <2>1. Incoming(e) \in Seq(Frame) /\ Incoming(e) # <<>>
    BY <1>1, EndFacts DEF ReadFrame, Incoming, StreamOK
  <2>2. f \in Frame /\ Tail(Incoming(e)) \in Seq(Frame)
    BY <2>1
  <2>3. SlotOK(pc', sending')
    BY <1>1, SendSlot, HeartbeatFrames DEF ReadFrame
  <2>4. HeardOK'
    <3>1. CASE f.t = "msg" /\ heard' = [heard EXCEPT ![e] = Append(@, f.line)]
      <4>1. f.line \in Line
        BY <2>2, <3>1 DEF Frame
      <4>2. heard[e] \in Seq(Line)
        BY DEF HeardOK
      <4> HIDE DEF f
      <4>3. Append(heard[e], f.line) \in Seq(Line)
        BY <4>1, <4>2, AppendProperties
      <4> QED BY <3>1, <4>3 DEF HeardOK
    <3>2. CASE heard' = heard
      BY <3>2 DEF HeardOK
    <3> QED BY <1>1, <3>1, <3>2 DEF ReadFrame
  <2>5. StreamOK'
    BY <1>1, <2>2, EndFacts DEF ReadFrame, StreamOK, Incoming
  <2>6. ClocksOK'
    <3>1. 0 \in 0 .. MaxSilence
      BY LimitFacts
    <3>2. silence' = [silence EXCEPT ![e] = 0] /\ wait' = wait
      BY <1>1 DEF ReadFrame
    <3> QED BY <3>1, <3>2 DEF ClocksOK
  <2>7. QueuesOK' /\ CircuitOK'
    BY <1>1 DEF ReadFrame, queues, QueuesOK, CircuitOK
  <2> QED BY <2>3, <2>4, <2>5, <2>6, <2>7
<1>2. CASE ReadEnd(e)
  BY <1>2, ReturnTyped DEF ReadEnd
<1>3. CASE TakeLine(e)
  <2>1. lines[e] \in Seq(Line) /\ lines[e] # <<>>
    BY <1>3 DEF TakeLine, QueuesOK
  <2>2. Head(lines[e]) \in Line /\ Tail(lines[e]) \in Seq(Line)
    BY <2>1
  <2>3. [t |-> "msg", line |-> Head(lines[e])] \in Frame
    BY <2>2 DEF Frame
  <2>4. SlotOK(pc', sending')
    BY <1>3, <2>3, SendSlot DEF TakeLine
  <2>5. QueuesOK'
    BY <1>3, <2>2 DEF TakeLine, QueuesOK
  <2> QED BY <1>3, <2>4, <2>5 DEF TakeLine, ClocksOK, CircuitOK, StreamOK, HeardOK
<1>4. CASE LocalClosed(e)
  BY <1>4, ReturnTyped DEF LocalClosed
<1>5. CASE Tick(e)
  <2>1. CASE silence[e] > LIVENESS_TIMEOUT
    BY <1>5, <2>1, ReturnTyped DEF Tick
  <2>2. CASE ~(silence[e] > LIVENESS_TIMEOUT)
    <3>1. SlotOK(pc', sending')
      BY <1>5, <2>2, SendSlot, HeartbeatFrames DEF Tick
    <3>2. ClocksOK'
      <4>1. PING_INTERVAL \in 0 .. PING_INTERVAL
        BY LinkAssumption
      <4>2. silence' = silence /\ wait' = [wait EXCEPT ![e] = PING_INTERVAL]
        BY <1>5, <2>2 DEF Tick
      <4> QED BY <4>1, <4>2 DEF ClocksOK
    <3> QED BY <1>5, <2>2, <3>1, <3>2 DEF Tick, queues, QueuesOK, CircuitOK, StreamOK, HeardOK
  <2> QED BY <2>1, <2>2
<1>6. CASE Flush(e)
  <2>1. sending[e] \in Seq(Frame) /\ Len(sending[e]) = 1
    BY <1>6 DEF Flush, SlotOK
  <2>2. sending[e][1] \in Frame
    BY <2>1
  <2>3. Append(stream[e], sending[e][1]) \in Seq(Frame)
    <3>1. stream[e] \in Seq(Frame)
      BY DEF StreamOK
    <3> QED BY <2>2, <3>1, AppendProperties
  <2>4. StreamOK'
    BY <1>6, <2>3 DEF Flush, StreamOK
  <2>5. SlotOK(pc', sending')
    BY <1>6, EmptySlot DEF Flush
  <2> QED BY <1>6, <2>4, <2>5 DEF Flush, queues, QueuesOK, ClocksOK, CircuitOK, HeardOK
<1>7. CASE WriteError(e)
  BY <1>7, ReturnTyped DEF WriteError
<1> QED BY <1>1, <1>2, <1>3, <1>4, <1>5, <1>6, <1>7 DEF run_connection

\* and so do the clock,
LEMMA PassTyped ==
  ASSUME TypeOK, Pass
  PROVE  TypeOK'
<1>1. ASSUME NEW e \in End PROVE wait'[e] \in 0 .. PING_INTERVAL
  <2>1. wait[e] \in 0 .. PING_INTERVAL /\ PING_INTERVAL \in Nat
    BY TypeParts, LinkAssumption DEF ClocksOK
  <2>2. wait'[e] = IF wait[e] > 0 THEN wait[e] - 1 ELSE 0
    BY DEF Pass
  <2> QED BY <2>1, <2>2
<1>2. ASSUME NEW e \in End PROVE silence'[e] \in 0 .. MaxSilence
  <2>1. silence[e] \in 0 .. MaxSilence
    BY TypeParts DEF ClocksOK
  <2>2. silence'[e] = silence[e] \/ (silence[e] < MaxSilence /\ silence'[e] = silence[e] + 1)
    BY DEF Pass
  <2> QED BY <2>1, <2>2, LimitFacts
<1>3. ClocksOK'
  BY <1>1, <1>2 DEF Pass, ClocksOK
<1>4. CircuitOK'
  <2>1. stall \in 0 .. MaxStall /\ MaxStall \in Nat /\ circuit' = circuit
    BY TypeParts, LinkAssumption DEF Pass, CircuitOK
  <2>2. stall' = 0 \/ (stall < MaxStall /\ stall' = stall + 1)
    BY DEF Pass
  <2>3. stall' \in 0 .. MaxStall
    BY <2>1, <2>2
  <2> QED BY <2>1, <2>3, TypeParts DEF CircuitOK
<1>5. SlotOK(pc', sending') /\ QueuesOK' /\ StreamOK' /\ HeardOK'
  BY TypeParts DEF Pass, ends, SlotOK, QueuesOK, StreamOK, HeardOK
<1> QED BY <1>3, <1>4, <1>5, TypeParts

\* the circuit
LEMMA CircuitTyped ==
  ASSUME TypeOK, Circuit
  PROVE  TypeOK'
<1>1. SlotOK(pc', sending') /\ QueuesOK' /\ ClocksOK' /\ HeardOK'
  BY TypeParts DEF Circuit, Stall, Resume, Die, Break, ends, SlotOK, QueuesOK, ClocksOK, HeardOK
<1>2. CircuitOK'
  <2>1. 0 \in 0 .. MaxStall
    BY LinkAssumption
  <2> QED BY <2>1, TypeParts DEF Circuit, Stall, Resume, Die, Break, CircuitOK
<1>3. StreamOK'
  <2>1. CASE stream' = stream
    BY <2>1, TypeParts DEF StreamOK
  <2>2. CASE Break
    <3>1. PICK a \in 0 .. Len(stream[A]), b \in 0 .. Len(stream[B]) :
            stream' = [e \in End |-> SubSeq(stream[e], 1, IF e = A THEN a ELSE b)]
      BY <2>2 DEF Break
    <3>2. ASSUME NEW e \in End
          PROVE  SubSeq(stream[e], 1, IF e = A THEN a ELSE b) \in Seq(Frame)
      <4>1. stream[e] \in Seq(Frame) /\ stream[A] \in Seq(Frame) /\ stream[B] \in Seq(Frame)
        BY TypeParts, EndFacts DEF StreamOK
      <4>2. CASE e = A
        <5>1. SubSeq(stream[e], 1, a) \in Seq(Frame)
          BY <4>1, <4>2
        <5> QED BY <5>1, <4>2
      <4>3. CASE e # A
        <5>1. e = B
          BY <4>3 DEF End
        <5>2. SubSeq(stream[e], 1, b) \in Seq(Frame)
          BY <4>1, <5>1
        <5> QED BY <5>2, <4>3
      <4> QED BY <4>2, <4>3
    <3> QED BY <3>1, <3>2 DEF StreamOK
  <2> QED BY <2>1, <2>2 DEF Circuit, Stall, Resume, Die
<1> QED BY <1>1, <1>2, <1>3, TypeParts

\* and the manager.
LEMMA ManagerTyped ==
  ASSUME TypeOK, NEW e \in End, Manager(e)
  PROVE  TypeOK'
<1>1. SlotOK(pc', sending') /\ ClocksOK' /\ CircuitOK' /\ StreamOK' /\ HeardOK'
  BY TypeParts
     DEF Manager, HandLine, HangUp, SlotOK, ClocksOK, CircuitOK, StreamOK, HeardOK
<1>2. QueuesOK'
  <2>1. CASE HandLine(e)
    <3>1. handed[A] \in 0 .. MaxLines /\ handed[B] \in 0 .. MaxLines
            /\ handed[A] + handed[B] < MaxLines /\ MaxLines \in Nat
      BY <2>1, TypeParts, EndFacts, LinkAssumption DEF HandLine, QueuesOK
    <3>2. handed[e] + 1 \in 0 .. MaxLines /\ handed[e] + 1 \in Line
      BY <3>1 DEF End, Line
    <3>3. Append(lines[e], handed[e] + 1) \in Seq(Line)
      <4>1. lines[e] \in Seq(Line)
        BY TypeParts DEF QueuesOK
      <4> QED BY <3>2, <4>1, AppendProperties
    <3> QED BY <2>1, <3>2, <3>3, TypeParts DEF HandLine, QueuesOK
  <2>2. CASE HangUp(e)
    BY <2>2, TypeParts DEF HangUp, QueuesOK
  <2> QED BY <2>1, <2>2 DEF Manager
<1> QED BY <1>1, <1>2, TypeParts

\* The type invariant is inductive.
LEMMA TypeNext == TypeOK /\ [Next]_vars => TypeOK'
<1> SUFFICES ASSUME TypeOK, [Next]_vars PROVE TypeOK'
  OBVIOUS
<1>1. CASE Next
  BY <1>1, LoopTyped, ManagerTyped, CircuitTyped, PassTyped DEF Next
<1>2. CASE UNCHANGED vars
  BY <1>2 DEF vars, ends, TypeOK
<1> QED BY <1>1, <1>2

\* Both ends of a link and the circuit between them keep their types.
THEOREM LinkTypeCorrect == Spec => []TypeOK
BY TypeInit, TypeNext, PTL DEF Spec

\* Whatever the interval, the timeout, the buffers and the lines sent, an end
\* that still runs has its next heartbeat due, or due within the timeout and
\* one interval of the last frame it read (network.rs:258-260, 294-300).
THEOREM HeartbeatDeadline == Spec => []DeadlineKept
<1>1. Init => DeadlineKept
  BY DEF Init, DeadlineKept
<1>2. TypeOK /\ DeadlineKept /\ [Next]_vars => DeadlineKept'
  <2> SUFFICES ASSUME TypeOK, DeadlineKept, [Next]_vars, NEW e \in End, Running(e)'
               PROVE  wait'[e] = 0 \/ silence'[e] + wait'[e] <= LIVENESS_TIMEOUT + PING_INTERVAL
    BY DEF DeadlineKept
  <2>1. /\ wait \in [End -> 0 .. PING_INTERVAL] /\ silence \in [End -> 0 .. MaxSilence]
        /\ PING_INTERVAL \in Nat /\ LIVENESS_TIMEOUT \in Nat
        /\ pc \in [End -> {"select", "sending", "unresponsive", "lost", "closed"}]
    BY LinkAssumption DEF TypeOK
  <2>2. wait[e] \in Nat /\ silence[e] \in Nat /\ MaxSilence \in Nat
        /\ wait[e] <= PING_INTERVAL
    BY <2>1, LimitFacts
  <2>3. CASE wait' = wait /\ silence' = silence /\ Running(e)
    BY <2>3 DEF DeadlineKept
  <2>4. ASSUME NEW d \in End, run_connection(d)
        PROVE  wait'[e] = 0 \/ silence'[e] + wait'[e] <= LIVENESS_TIMEOUT + PING_INTERVAL
    <3>1. CASE \E why \in {"unresponsive", "lost", "closed"} : Return(d, why)
      <4>1. d # e /\ pc'[e] = pc[e] /\ wait'[e] = wait[e] /\ silence'[e] = silence[e]
        BY <2>1, <3>1 DEF Return, Running
      <4>2. Running(e)
        BY <4>1 DEF Running
      <4> QED BY <4>1, <4>2 DEF DeadlineKept
    <3>2. CASE ReadFrame(d)
      <4>1. Running(e)
        BY <2>1, <3>2 DEF ReadFrame, Send, Running
      <4>2. wait'[e] = wait[e] /\ (silence'[e] = silence[e] \/ silence'[e] = 0)
        BY <2>1, <3>2 DEF ReadFrame
      <4> QED BY <2>1, <2>2, <4>1, <4>2 DEF DeadlineKept
    <3>3. CASE Tick(d) /\ ~(silence[d] > LIVENESS_TIMEOUT)
      <4>1. Running(e)
        BY <2>1, <3>3 DEF Tick, Send, Running
      <4>2. silence' = silence /\ wait' = [wait EXCEPT ![d] = PING_INTERVAL]
        BY <3>3 DEF Tick
      <4>3. CASE d = e
        BY <2>1, <2>2, <3>3, <4>2, <4>3
      <4>4. CASE d # e
        BY <2>1, <4>1, <4>2, <4>4 DEF DeadlineKept
      <4> QED BY <4>3, <4>4
    <3>4. CASE TakeLine(d) \/ Flush(d)
      <4>1. Running(e)
        BY <2>1, <3>4 DEF TakeLine, Flush, Send, Running
      <4> QED BY <3>4, <4>1, <2>3 DEF TakeLine, Flush
    <3>5. ReadEnd(d) \/ LocalClosed(d) \/ WriteError(d) \/ (Tick(d) /\ silence[d] > LIVENESS_TIMEOUT)
            => \E why \in {"unresponsive", "lost", "closed"} : Return(d, why)
      BY DEF ReadEnd, LocalClosed, WriteError, Tick
    <3> QED BY <2>4, <3>1, <3>2, <3>3, <3>4, <3>5 DEF run_connection
  <2>5. ASSUME NEW d \in End, Manager(d)
        PROVE  wait'[e] = 0 \/ silence'[e] + wait'[e] <= LIVENESS_TIMEOUT + PING_INTERVAL
    BY <2>3, <2>5 DEF Manager, HandLine, HangUp, Running
  <2>6. CASE Circuit
    BY <2>3, <2>6 DEF Circuit, Stall, Resume, Die, Break, ends, Running
  <2>7. CASE Pass
    <3>1. Running(e)
      BY <2>7 DEF Pass, ends, Running
    <3>2. wait'[e] = IF wait[e] > 0 THEN wait[e] - 1 ELSE 0
      BY <2>7 DEF Pass
    <3>3. silence'[e] = silence[e] \/ silence'[e] = silence[e] + 1
      BY <2>7 DEF Pass
    <3> QED BY <2>1, <2>2, <3>1, <3>2, <3>3 DEF DeadlineKept
  <2>8. CASE UNCHANGED vars
    BY <2>3, <2>8 DEF vars, ends, Running
  <2> QED BY <2>4, <2>5, <2>6, <2>7, <2>8 DEF Next
<1> QED BY <1>1, <1>2, LinkTypeCorrect, PTL DEF Spec

-----------------------------------------------------------------------------
(* The link implements Delivery in each direction.  A line is pending in   *)
(* three places in a row: what is in the circuit's buffers, the frame      *)
(* whose write is awaited, the lines the loop has not taken.  The loop     *)
(* moves it from one to the next; a loop that returns loses one end of     *)
(* the row, a circuit that breaks a run inside it.                         *)

\* The line of a frame.
TextOf(f) == IF IsMsg(f) THEN <<f.line>> ELSE <<>>

\* A frame carries one line or none.
LEMMA TextOfType == ASSUME NEW f \in Frame PROVE TextOf(f) \in Seq(Line)
<1>1. CASE IsMsg(f)
  <2>1. f.line \in Line
    BY <1>1 DEF IsMsg, Frame
  <2> QED BY <1>1, <2>1 DEF TextOf
<1>2. CASE ~IsMsg(f)
  BY <1>2 DEF TextOf
<1> QED BY <1>1, <1>2

\* The lines among frames, in two parts.
LEMMA TextsConcat ==
  ASSUME NEW a \in Seq(Frame), NEW b \in Seq(Frame)
  PROVE  Texts(a) \in Seq(Line) /\ Texts(a \o b) = Texts(a) \o Texts(b)
<1> DEFINE Of(s) == [i \in DOMAIN s |-> IF IsMsg(s[i]) THEN <<s[i].line>> ELSE <<>>]
<1>1. ASSUME NEW s \in Seq(Frame)
      PROVE  /\ Of(s) \in Seq(Seq(Line)) /\ Len(Of(s)) = Len(s)
             /\ \A i \in 1 .. Len(s) : Of(s)[i] = TextOf(s[i])
             /\ Texts(s) = FlattenSeq(Of(s))
  <2>1. DOMAIN s = 1 .. Len(s) /\ Len(s) \in Nat /\ \A i \in 1 .. Len(s) : s[i] \in Frame
    OBVIOUS
  <2>2. \A i \in 1 .. Len(s) : Of(s)[i] = TextOf(s[i]) /\ TextOf(s[i]) \in Seq(Line)
    <3>1. \A i \in 1 .. Len(s) : Of(s)[i] = TextOf(s[i])
      BY <2>1 DEF TextOf
    <3> QED BY <2>1, <3>1, TextOfType
  <2>3. Of(s) = [i \in 1 .. Len(s) |-> Of(s)[i]]
    BY <2>1
  <2>4. Texts(s) = FlattenSeq(Of(s))
    BY DEF Texts
  <2> HIDE DEF Of
  <2>5. Of(s) \in [1 .. Len(s) -> Seq(Line)]
    BY <2>2, <2>3
  <2> QED BY <2>1, <2>2, <2>4, <2>5
<1>2. /\ a \o b \in Seq(Frame) /\ Len(a \o b) = Len(a) + Len(b)
      /\ \A i \in 1 .. Len(a) : (a \o b)[i] = a[i]
      /\ \A i \in 1 .. Len(b) : (a \o b)[Len(a) + i] = b[i]
  OBVIOUS
<1> DEFINE sa == Of(a)
           sb == Of(b)
           sc == Of(a \o b)
<1>3. /\ sa \in Seq(Seq(Line)) /\ Len(sa) = Len(a)
      /\ \A i \in 1 .. Len(a) : sa[i] = TextOf(a[i])
      /\ sb \in Seq(Seq(Line)) /\ Len(sb) = Len(b)
      /\ \A i \in 1 .. Len(b) : sb[i] = TextOf(b[i])
      /\ sc \in Seq(Seq(Line)) /\ Len(sc) = Len(a) + Len(b)
      /\ \A i \in 1 .. Len(a) + Len(b) : sc[i] = TextOf((a \o b)[i])
  BY <1>1, <1>2
<1>4. Texts(a) = FlattenSeq(sa) /\ Texts(b) = FlattenSeq(sb) /\ Texts(a \o b) = FlattenSeq(sc)
  BY <1>1, <1>2
<1> HIDE DEF Of, sa, sb, sc
<1>5. Len(sc) = Len(sa) + Len(sb)
  BY <1>3
<1>6. \A i \in 1 .. Len(sa) : sc[i] = sa[i]
  <2> TAKE i \in 1 .. Len(sa)
  <2>1. i \in 1 .. Len(a) /\ i \in 1 .. Len(a) + Len(b)
    BY <1>3
  <2> QED BY <1>2, <1>3, <2>1
<1>7. \A i \in 1 .. Len(sb) : sc[Len(sa) + i] = sb[i]
  <2> TAKE i \in 1 .. Len(sb)
  <2>1. i \in 1 .. Len(b) /\ Len(a) + i \in 1 .. Len(a) + Len(b)
    BY <1>3
  <2> QED BY <1>2, <1>3, <2>1
<1>8. FlattenSeq(sc) = FlattenSeq(sa) \o FlattenSeq(sb)
  BY <1>3, <1>5, <1>6, <1>7, FlattenJoin
<1>9. FlattenSeq(sa) \in Seq(Line)
  BY <1>3, FlattenType
<1> QED BY <1>4, <1>8, <1>9

\* The lines of no frame and of one.
LEMMA TextsNone == Texts(<<>>) = <<>>
<1> DEFINE ss == [i \in DOMAIN <<>> |->
                    IF IsMsg(<<>>[i]) THEN <<<<>>[i].line>> ELSE <<>>]
<1>1. ss = <<>>
  OBVIOUS
<1>2. Texts(<<>>) = FlattenSeq(ss)
  BY DEF Texts
<1>3. FlattenSeq(<<>>) = <<>>
  BY DEF FlattenSeq
<1> HIDE DEF ss
<1> QED BY <1>1, <1>2, <1>3

\* The lines of one frame.
LEMMA TextsOne == ASSUME NEW f \in Frame PROVE Texts(<<f>>) = TextOf(f)
<1> DEFINE ss == [i \in DOMAIN <<f>> |->
                    IF IsMsg(<<f>>[i]) THEN <<<<f>>[i].line>> ELSE <<>>]
<1>1. ss = <<TextOf(f)>>
  <2>1. DOMAIN <<f>> = {1} /\ <<f>>[1] = f
    OBVIOUS
  <2>2. ss = [i \in {1} |-> TextOf(f)]
    BY <2>1 DEF TextOf
  <2>3. <<TextOf(f)>> = [i \in {1} |-> TextOf(f)]
    OBVIOUS
  <2> QED BY <2>2, <2>3
<1>2. Texts(<<f>>) = FlattenSeq(ss)
  BY DEF Texts
<1> HIDE DEF ss
<1> QED BY <1>1, <1>2, TextOfType, FlattenShort

\* Frames that are read, written and cut.
LEMMA TextsRead ==
  ASSUME NEW s \in Seq(Frame), s # <<>>
  PROVE  Head(s) \in Frame /\ Tail(s) \in Seq(Frame)
         /\ Texts(s) = TextOf(Head(s)) \o Texts(Tail(s))
<1>1. /\ Head(s) \in Frame /\ Tail(s) \in Seq(Frame)
      /\ s = <<Head(s)>> \o Tail(s) /\ <<Head(s)>> \in Seq(Frame)
  OBVIOUS
<1>2. Texts(<<Head(s)>> \o Tail(s)) = Texts(<<Head(s)>>) \o Texts(Tail(s))
  BY <1>1, TextsConcat
<1> QED BY <1>1, <1>2, TextsOne

\* A frame that is written puts its line last.
LEMMA TextsWritten ==
  ASSUME NEW s \in Seq(Frame), NEW f \in Frame
  PROVE  Texts(Append(s, f)) = Texts(s) \o Texts(<<f>>)
<1>1. Append(s, f) = s \o <<f>> /\ <<f>> \in Seq(Frame)
  BY AppendIsConcat
<1> QED BY <1>1, TextsConcat

\* The lines before a cut begin the lines of the whole.
LEMMA TextsCut ==
  ASSUME NEW s \in Seq(Frame), NEW k \in 0 .. Len(s)
  PROVE  \E y \in Seq(Line) : Texts(s) = Texts(SubSeq(s, 1, k)) \o y
<1> DEFINE x == SubSeq(s, 1, k)
           z == SubSeq(s, k + 1, Len(s))
<1>1. x \in Seq(Frame) /\ z \in Seq(Frame) /\ Len(x) = k /\ Len(z) = Len(s) - k
  OBVIOUS
<1>2. /\ \A i \in 1 .. k : x[i] = s[i]
      /\ \A i \in 1 .. Len(s) - k : z[i] = s[k + i]
  OBVIOUS
<1>3. s = x \o z
  <2> HIDE DEF x, z
  <2>1. x \o z \in Seq(Frame) /\ Len(x \o z) = Len(s)
    BY <1>1
  <2>2. \A i \in 1 .. Len(s) : s[i] = (x \o z)[i]
    <3> TAKE i \in 1 .. Len(s)
    <3>1. CASE i <= k
      BY <1>1, <1>2, <3>1
    <3>2. CASE ~(i <= k)
      <4>1. i - k \in 1 .. Len(s) - k /\ k + (i - k) = i
        BY <3>2
      <4>2. z[i - k] = s[i]
        BY <1>2, <4>1
      <4> QED BY <1>1, <3>2, <4>2
    <3> QED BY <3>1, <3>2
  <2> QED BY <2>1, <2>2, SeqEqual
<1> HIDE DEF x, z
<1>4. Texts(s) = Texts(x) \o Texts(z) /\ Texts(z) \in Seq(Line)
  BY <1>1, <1>3, TextsConcat
<1> QED BY <1>4 DEF x

\* An end that selects awaits no write.
OneFrame == \A e \in End : pc[e] = "sending" \/ sending[e] = <<>>

\* No end awaits a write at first,
LEMMA OneFrameInit == Init => OneFrame
BY DEF Init, OneFrame

\* and none but those in "sending" ever does.
LEMMA OneFrameNext == TypeOK /\ OneFrame /\ [Next]_vars => OneFrame'
<1> SUFFICES ASSUME TypeOK, OneFrame, [Next]_vars, NEW d \in End
             PROVE  pc'[d] = "sending" \/ sending'[d] = <<>>
  BY DEF OneFrame
<1>1. pc[d] = "sending" \/ sending[d] = <<>>
  BY DEF OneFrame
<1>2. /\ pc \in [End -> {"select", "sending", "unresponsive", "lost", "closed"}]
      /\ sending \in [End -> Seq(Frame)]
  BY DEF TypeOK
<1>3. ASSUME NEW e \in End, run_connection(e)
      PROVE  pc'[d] = "sending" \/ sending'[d] = <<>>
  <2>1. CASE \E why : Return(e, why)
    BY <1>1, <1>2, <2>1 DEF Return
  <2>2. CASE \E f : Send(e, f)
    BY <1>1, <1>2, <2>2 DEF Send
  <2>3. CASE Flush(e)
    BY <1>1, <1>2, <2>3 DEF Flush
  <2>4. CASE UNCHANGED <<pc, sending>>
    BY <1>1, <2>4
  <2> QED
    BY <1>3, <2>1, <2>2, <2>3, <2>4
       DEF run_connection, ReadFrame, ReadEnd, TakeLine, LocalClosed, Tick, WriteError
<1>4. CASE UNCHANGED <<pc, sending>>
  BY <1>1, <1>4
<1>5. (\E e \in End : Manager(e)) \/ Circuit \/ Pass \/ UNCHANGED vars
        => UNCHANGED <<pc, sending>>
  BY DEF Manager, HandLine, HangUp, Circuit, Stall, Resume, Die, Break, Pass, ends, vars
<1> QED BY <1>3, <1>4, <1>5 DEF Next

\* What a direction sees of a step.
Direction(d) == [From(d)!Next]_<<open[d], Pending(d), heard[Other(d)]>>

\* The row of a direction, of lines everywhere.
LEMMA Row ==
  ASSUME TypeOK, NEW d \in End
  PROVE  /\ stream[d] \in Seq(Frame) /\ sending[d] \in Seq(Frame)
         /\ Texts(stream[d]) \in Seq(Line) /\ Texts(sending[d]) \in Seq(Line)
         /\ lines[d] \in Seq(Line) /\ Pending(d) \in Seq(Line)
         /\ open[d] \in BOOLEAN
<1>1. /\ stream[d] \in Seq(Frame) /\ sending[d] \in Seq(Frame) /\ lines[d] \in Seq(Line)
      /\ open[d] \in BOOLEAN
  BY DEF TypeOK
<1>2. Texts(stream[d]) \in Seq(Line) /\ Texts(sending[d]) \in Seq(Line)
  BY <1>1, TextsConcat
<1> DEFINE x == Texts(stream[d])
           y == Texts(sending[d])
           z == lines[d]
<1>3. x \o y \o z \in Seq(Line)
  <2>1. x \in Seq(Line) /\ y \in Seq(Line) /\ z \in Seq(Line)
    BY <1>1, <1>2
  <2> HIDE DEF x, y, z
  <2> QED BY <2>1
<1> QED BY <1>1, <1>2, <1>3 DEF Pending

\* A run of the row is gone, and nothing else.
LEMMA RowCut ==
  ASSUME NEW d \in End,
         NEW x \in Seq(Line), NEW y \in Seq(Line), NEW z \in Seq(Line),
         Pending(d) = x \o y \o z, Pending(d)' = x \o z,
         open'[d] = open[d], heard'[Other(d)] = heard[Other(d)]
  PROVE  Direction(d)
<1>1. From(d)!Lose
  <2> DEFINE q == Pending(d)
             r == Pending(d)'
  <2>1. WithoutRun(q, r)
    <3>1. q = x \o y \o z /\ r = x \o z
      OBVIOUS
    <3> HIDE DEF q, r
    <3> QED BY <3>1, CutRun
  <2>2. PICK k \in 0 .. Len(q), m \in 1 .. Len(q) + 1 :
          k < m /\ r = SubSeq(q, 1, k) \o SubSeq(q, m, Len(q))
    BY <2>1 DEF WithoutRun
  <2> QED BY <2>2 DEF From!Lose
<1> QED BY <1>1 DEF Direction, From!Next

\* The row is as it was, though a line may have moved along it.
LEMMA RowKept ==
  ASSUME NEW d \in End, Pending(d)' = Pending(d),
         open'[d] = open[d], heard'[Other(d)] = heard[Other(d)]
  PROVE  Direction(d)
BY DEF Direction

\* Nothing of the row changed.
LEMMA RowUntouched ==
  ASSUME NEW d \in End,
         stream'[d] = stream[d], sending'[d] = sending[d], lines'[d] = lines[d],
         open'[d] = open[d], heard'[Other(d)] = heard[Other(d)]
  PROVE  Direction(d)
BY RowKept DEF Pending

\* A loop that returns drops the last two places of its own row and the first
\* of the other.
LEMMA ReturnCuts ==
  ASSUME TypeOK, NEW d \in End, NEW e \in End, NEW why, Return(e, why)
  PROVE  Direction(d)
<1> DEFINE x == Texts(stream[d])
           y == Texts(sending[d])
           z == lines[d]
           none == <<>>
<1>1. /\ x \in Seq(Line) /\ y \in Seq(Line) /\ z \in Seq(Line) /\ none \in Seq(Line)
      /\ Pending(d) = x \o y \o z
  BY Row DEF Pending
<1>2. /\ Other(e) \in End /\ Other(e) # e /\ (d = e \/ d = Other(e))
  BY EndFacts DEF End, Other
<1>3. UNCHANGED <<open, heard>>
  BY DEF Return
<1>4. /\ stream \in [End -> Seq(Frame)] /\ sending \in [End -> Seq(Frame)]
      /\ lines \in [End -> Seq(Line)]
  BY DEF TypeOK
<1>5. CASE d = e
  <2>1. stream'[d] = stream[d] /\ sending'[d] = <<>> /\ lines'[d] = <<>>
    BY <1>2, <1>4, <1>5 DEF Return
  <2>2. Pending(d)' = x \o none \o none
    BY <2>1, TextsNone DEF Pending
  <2> HIDE DEF x, y, z
  <2>3. /\ x \o none \o none = x \o none
        /\ y \o z \in Seq(Line) /\ x \o (y \o z) = (x \o y) \o z
        /\ (x \o (y \o z)) \o none = x \o (y \o z)
    <3>1. y \o z \in Seq(Line) /\ x \o (y \o z) = (x \o y) \o z
      BY <1>1, ConcatEmpty, Regroup
    <3>2. x \o (y \o z) \in Seq(Line) /\ x \o none = x
      BY <1>1, <3>1, ConcatEmpty DEF none
    <3> QED BY <3>1, <3>2, ConcatEmpty DEF none
  <2> HIDE DEF none
  <2> DEFINE w == y \o z
  <2>4. /\ w \in Seq(Line)
        /\ Pending(d) = x \o w \o none /\ Pending(d)' = x \o none
    BY <1>1, <2>2, <2>3
  <2> HIDE DEF w
  <2> QED BY <1>1, <1>3, <2>4, RowCut
<1>6. CASE d = Other(e)
  <2>1. stream'[d] = <<>> /\ sending'[d] = sending[d] /\ lines'[d] = lines[d]
    BY <1>2, <1>4, <1>6 DEF Return
  <2>2. Pending(d)' = none \o y \o z
    BY <2>1, TextsNone DEF Pending
  <2> HIDE DEF x, y, z
  <2> DEFINE w == y \o z
  <2>3. /\ w \in Seq(Line)
        /\ Pending(d) = none \o x \o w /\ Pending(d)' = none \o w
    <3>1. y \o z \in Seq(Line) /\ x \o (y \o z) = (x \o y) \o z
      BY <1>1, ConcatEmpty, Regroup
    <3>2. none \o x = x /\ none \o y = y /\ none \o w = w
      BY <1>1, <3>1, ConcatEmpty DEF none
    <3> QED BY <1>1, <2>2, <3>1, <3>2
  <2> HIDE DEF w, none
  <2> QED BY <1>1, <1>3, <2>3, RowCut
<1> QED BY <1>2, <1>5, <1>6

\* A frame that is read: its line, if it has one, leaves the row at the front
\* and is heard; an answer to a ping adds no line to the other row.
LEMMA ReadDelivers ==
  ASSUME TypeOK, OneFrame, NEW d \in End, NEW e \in End, ReadFrame(e)
  PROVE  Direction(d)
<1> DEFINE x == Texts(stream[d])
           y == Texts(sending[d])
           z == lines[d]
<1>1. /\ x \in Seq(Line) /\ y \in Seq(Line) /\ z \in Seq(Line)
      /\ Pending(d) = x \o y \o z
  BY Row DEF Pending
<1>2. /\ Other(e) \in End /\ Other(e) # e /\ (d = e \/ d = Other(e))
      /\ Other(Other(e)) = e
  BY EndFacts DEF End, Other
<1>3. /\ stream \in [End -> Seq(Frame)] /\ sending \in [End -> Seq(Frame)]
      /\ lines \in [End -> Seq(Line)] /\ heard \in [End -> Seq(Line)]
  BY DEF TypeOK
<1>4. UNCHANGED <<open, lines>>
  BY DEF ReadFrame, queues
<1>5. CASE d = e
  <2>1. stream'[d] = stream[d] /\ heard'[Other(d)] = heard[Other(d)]
    BY <1>2, <1>3, <1>5 DEF ReadFrame
  <2>2. Texts(sending'[d]) = Texts(sending[d])
    <3>1. CASE Send(e, [t |-> "pong"])
      <4>1. sending[d] = <<>>
        BY <1>5 DEF ReadFrame, OneFrame
      <4>2. sending'[d] = <<[t |-> "pong"]>>
        BY <1>3, <1>5, <3>1 DEF Send
      <4>3. Texts(<<[t |-> "pong"]>>) = <<>>
        BY HeartbeatFrames, TextsOne DEF TextOf, IsMsg
      <4> QED BY <4>1, <4>2, <4>3, TextsNone
    <3>2. CASE UNCHANGED sending
      BY <3>2
    <3> QED BY <3>1, <3>2 DEF ReadFrame
  <2> QED BY <1>4, <2>1, <2>2, RowKept DEF Pending
<1>6. CASE d = Other(e)
  <2> DEFINE f == Head(stream[d])
             rest == Texts(Tail(stream[d]))
  <2>1. /\ stream[d] # <<>> /\ stream'[d] = Tail(stream[d])
        /\ sending'[d] = sending[d]
    BY <1>2, <1>3, <1>6 DEF ReadFrame, Incoming, Send
  <2>2. /\ f \in Frame /\ Tail(stream[d]) \in Seq(Frame) /\ x = TextOf(f) \o rest
        /\ rest \in Seq(Line)
    BY <1>3, <2>1, TextsRead, TextsConcat
  <2>3. Pending(d)' = rest \o y \o z
    BY <1>4, <2>1 DEF Pending
  <2>4. CASE f.t = "msg"
    <3> DEFINE w == rest \o y \o z
               l == f.line
    <3>1. heard'[Other(d)] = Append(heard[Other(d)], l)
      BY <1>2, <1>3, <1>6, <2>4 DEF ReadFrame, Incoming
    <3>2. x = <<l>> \o rest /\ l \in Line
      BY <2>2, <2>4 DEF TextOf, IsMsg, Frame
    <3>3. <<l>> \in Seq(Line)
      BY <3>2
    <3> HIDE DEF x, y, z, f, rest, l
    <3>4. Pending(d) = <<l>> \o w /\ w \in Seq(Line)
      <4>1. rest \o y \in Seq(Line)
        BY <1>1, <2>2, ConcatEmpty
      <4>2. w \in Seq(Line)
        BY <1>1, <4>1, ConcatEmpty
      <4>3. <<l>> \o (rest \o y) = (<<l>> \o rest) \o y
        BY <1>1, <2>2, <3>3, Regroup
      <4>4. <<l>> \o w = (<<l>> \o (rest \o y)) \o z
        BY <1>1, <3>3, <4>1, Regroup
      <4> QED BY <1>1, <3>2, <4>2, <4>3, <4>4
    <3> HIDE DEF w
    <3>5. /\ <<l>> \o w # <<>> /\ Head(<<l>> \o w) = l /\ Tail(<<l>> \o w) = w
      BY <3>2, <3>4
    <3>6. From(d)!Write
      BY <1>4, <2>3, <3>1, <3>4, <3>5 DEF From!Write, w
    <3> QED BY <3>6 DEF Direction, From!Next
  <2>5. CASE f.t # "msg"
    <3>1. TextOf(f) = <<>> /\ heard'[Other(d)] = heard[Other(d)]
      BY <1>2, <1>6, <2>5 DEF ReadFrame, Incoming, TextOf, IsMsg
    <3>2. x = rest
      <4> HIDE DEF x, rest
      <4> QED BY <2>2, <3>1, ConcatEmpty
    <3>3. Pending(d)' = Pending(d)
      BY <1>1, <2>3, <3>2
    <3> QED BY <1>4, <3>1, <3>3, RowKept
  <2> QED BY <2>4, <2>5
<1> QED BY <1>2, <1>5, <1>6

\* A line that is taken, and a frame that is written, move along the row.
LEMMA TakeKeeps ==
  ASSUME TypeOK, OneFrame, NEW e \in End, TakeLine(e)
  PROVE  Pending(e)' = Pending(e)
<1> DEFINE x == Texts(stream[e])
           l == Head(lines[e])
           rest == Tail(lines[e])
           f == [t |-> "msg", line |-> l]
           none == <<>>
<1>1. /\ x \in Seq(Line) /\ none \in Seq(Line) /\ sending[e] = none
      /\ lines[e] \in Seq(Line) /\ lines[e] # <<>>
      /\ stream'[e] = stream[e] /\ sending'[e] = <<f>> /\ lines'[e] = rest
  BY Row DEF TakeLine, OneFrame, Send, TypeOK
<1>2. /\ l \in Line /\ rest \in Seq(Line) /\ lines[e] = <<l>> \o rest
      /\ <<l>> \in Seq(Line)
  BY <1>1
<1>3. Texts(<<f>>) = <<l>>
  <2>1. f \in Frame /\ TextOf(f) = <<l>>
    BY <1>2 DEF Frame, TextOf, IsMsg
  <2> HIDE DEF f, l
  <2> QED BY <2>1, TextsOne
<1>4. Pending(e) = x \o none \o (<<l>> \o rest) /\ Pending(e)' = x \o <<l>> \o rest
  <2> HIDE DEF f, l, rest
  <2> QED BY <1>1, <1>2, <1>3, TextsNone DEF Pending
<1> HIDE DEF x, l, rest
<1>5. x \o none = x /\ x \o (<<l>> \o rest) = (x \o <<l>>) \o rest
  BY <1>1, <1>2, ConcatEmpty, Regroup DEF none
<1> HIDE DEF none
<1> QED BY <1>4, <1>5

\* So does the frame that leaves the slot for the stream.
LEMMA FlushKeeps ==
  ASSUME TypeOK, NEW e \in End, Flush(e)
  PROVE  Pending(e)' = Pending(e)
<1> DEFINE x == Texts(stream[e])
           y == Texts(sending[e])
           z == lines[e]
           f == sending[e][1]
           none == <<>>
<1>1. /\ x \in Seq(Line) /\ y \in Seq(Line) /\ z \in Seq(Line) /\ none \in Seq(Line)
      /\ Pending(e) = x \o y \o z
  BY Row DEF Pending
<1>2. /\ stream[e] \in Seq(Frame) /\ sending[e] \in Seq(Frame) /\ Len(sending[e]) = 1
      /\ stream'[e] = Append(stream[e], f) /\ sending'[e] = none /\ lines'[e] = z
  BY DEF Flush, TypeOK, queues
<1>3. f \in Frame /\ sending[e] = <<f>>
  BY <1>2
<1>4. Texts(stream'[e]) = x \o y
  <2> HIDE DEF f
  <2> QED BY <1>2, <1>3, TextsWritten
<1>5. Pending(e)' = (x \o y) \o none \o z
  BY <1>2, <1>4, TextsNone DEF Pending
<1> HIDE DEF x, y, z
<1>6. x \o y \in Seq(Line) /\ (x \o y) \o none = x \o y
  <2> DEFINE w == x \o y
  <2>1. w \in Seq(Line)
    BY <1>1, ConcatEmpty
  <2>2. w \o none = w
    <3> HIDE DEF w
    <3> QED BY <2>1, ConcatEmpty DEF none
  <2> QED BY <2>1, <2>2
<1> QED BY <1>1, <1>5, <1>6

\* The steps of a loop.
LEMMA LoopMaps ==
  ASSUME TypeOK, OneFrame, NEW d \in End, NEW e \in End, run_connection(e)
  PROVE  Direction(d)
<1>1. /\ stream \in [End -> Seq(Frame)] /\ sending \in [End -> Seq(Frame)]
      /\ lines \in [End -> Seq(Line)]
  BY DEF TypeOK
<1>2. CASE \E why : Return(e, why)
  BY <1>2, ReturnCuts
<1>3. CASE ReadFrame(e)
  BY <1>3, ReadDelivers
<1>4. CASE TakeLine(e)
  <2>1. UNCHANGED <<open, heard>>
    BY <1>4 DEF TakeLine
  <2>2. CASE d = e
    BY <1>4, <2>1, <2>2, TakeKeeps, RowKept
  <2>3. CASE d # e
    BY <1>1, <1>4, <2>1, <2>3, RowUntouched DEF TakeLine, Send
  <2> QED BY <2>2, <2>3
<1>5. CASE Flush(e)
  <2>1. UNCHANGED <<open, heard>>
    BY <1>5 DEF Flush, queues
  <2>2. CASE d = e
    BY <1>5, <2>1, <2>2, FlushKeeps, RowKept
  <2>3. CASE d # e
    BY <1>1, <1>5, <2>1, <2>3, RowUntouched DEF Flush, queues
  <2> QED BY <2>2, <2>3
<1>6. CASE Tick(e) /\ ~(silence[e] > LIVENESS_TIMEOUT)
  <2>1. UNCHANGED <<open, heard, stream, lines>> /\ Send(e, [t |-> "ping"])
    BY <1>6 DEF Tick, queues
  <2>2. Texts(sending'[d]) = Texts(sending[d])
    <3>1. CASE d = e
      <4>1. sending[d] = <<>> /\ sending'[d] = <<[t |-> "ping"]>>
        BY <1>1, <1>6, <2>1, <3>1 DEF Tick, OneFrame, Send
      <4>2. Texts(<<[t |-> "ping"]>>) = <<>>
        BY HeartbeatFrames, TextsOne DEF TextOf, IsMsg
      <4> QED BY <4>1, <4>2, TextsNone
    <3>2. CASE d # e
      BY <1>1, <2>1, <3>2 DEF Send
    <3> QED BY <3>1, <3>2
  <2> QED BY <2>1, <2>2, RowKept DEF Pending
<1> QED
  BY <1>2, <1>3, <1>4, <1>5, <1>6
     DEF run_connection, ReadEnd, LocalClosed, Tick, WriteError

\* A line handed to an end is typed there, while the channel is open; closing
\* it is what hides the peer from whoever types.
LEMMA ManagerMaps ==
  ASSUME TypeOK, NEW d \in End, NEW e \in End, Manager(e)
  PROVE  Direction(d)
<1>1. /\ stream \in [End -> Seq(Frame)] /\ sending \in [End -> Seq(Frame)]
      /\ lines \in [End -> Seq(Line)] /\ open \in [End -> BOOLEAN]
      /\ handed \in [End -> 0 .. MaxLines]
  BY DEF TypeOK
<1>2. CASE HandLine(e) /\ d = e
  <2> DEFINE x == Texts(stream[d])
             y == Texts(sending[d])
             z == lines[d]
             b == handed[d] + 1
  <2>1. /\ x \in Seq(Line) /\ y \in Seq(Line) /\ z \in Seq(Line)
        /\ Pending(d) = x \o y \o z
    BY Row DEF Pending
  <2>2. /\ lines'[d] = Append(z, b) /\ open[d] /\ open'[d] = open[d]
        /\ heard' = heard /\ stream'[d] = stream[d] /\ sending'[d] = sending[d]
    BY <1>1, <1>2 DEF HandLine
  <2>3. b \in Line
    <3>1. /\ handed[A] \in 0 .. MaxLines /\ handed[B] \in 0 .. MaxLines
          /\ handed[A] + handed[B] < MaxLines /\ MaxLines \in Nat
      BY <1>1, <1>2, EndFacts, LinkAssumption DEF HandLine
    <3>2. d = A \/ d = B
      BY DEF End
    <3> QED BY <3>1, <3>2 DEF Line
  <2>4. Pending(d)' = x \o y \o Append(z, b)
    BY <2>2 DEF Pending
  <2> HIDE DEF x, y, z, b
  <2> DEFINE w == x \o y
  <2>5. w \in Seq(Line) /\ Pending(d) = w \o z /\ Pending(d)' = w \o Append(z, b)
    BY <2>1, <2>4, ConcatEmpty
  <2> HIDE DEF w
  <2>6. w \o Append(z, b) = Append(w \o z, b)
    <3>1. /\ Append(z, b) = z \o <<b>> /\ <<b>> \in Seq(Line)
          /\ w \o (z \o <<b>>) = (w \o z) \o <<b>>
      BY <2>1, <2>3, <2>5, AppendIsConcat, Regroup
    <3>2. w \o z \in Seq(Line)
      BY <2>1, <2>5, ConcatEmpty
    <3>3. Append(w \o z, b) = (w \o z) \o <<b>>
      <4> DEFINE v == w \o z
      <4>1. v \in Seq(Line)
        BY <3>2
      <4> HIDE DEF v
      <4>2. Append(v, b) = v \o <<b>>
        BY <2>3, <4>1, AppendIsConcat
      <4> QED BY <4>2 DEF v
    <3> QED BY <3>1, <3>3
  <2>7. From(d)!Type(b)
    BY <2>2, <2>5, <2>6 DEF From!Type
  <2> QED BY <2>3, <2>7 DEF Direction, From!Next
<1>3. CASE HangUp(e) /\ d = e
  <2>1. /\ open[d] = TRUE /\ open'[d] = FALSE
        /\ UNCHANGED <<stream, sending, lines, heard>>
    BY <1>1, <1>3 DEF HangUp
  <2>2. From(d)!ShowOrHide
    BY <2>1 DEF From!ShowOrHide, Pending
  <2> QED BY <2>2 DEF Direction, From!Next
<1>4. CASE d # e
  <2>1. /\ stream'[d] = stream[d] /\ sending'[d] = sending[d] /\ lines'[d] = lines[d]
        /\ open'[d] = open[d] /\ heard' = heard
    BY <1>1, <1>4 DEF Manager, HandLine, HangUp
  <2> QED BY <2>1, RowUntouched
<1> QED BY <1>2, <1>3, <1>4 DEF Manager

\* A circuit that breaks loses the rest of what travels.
LEMMA BreakMaps ==
  ASSUME TypeOK, NEW d \in End, Break
  PROVE  Direction(d)
<1>1. stream[A] \in Seq(Frame) /\ stream[B] \in Seq(Frame) /\ (d = A \/ d = B)
  BY EndFacts DEF TypeOK, End
<1>2. UNCHANGED <<open, heard, sending, lines>>
  BY DEF Break, ends
<1>3. PICK k \in 0 .. Len(stream[d]) : stream'[d] = SubSeq(stream[d], 1, k)
  BY <1>1 DEF Break, End
<1> DEFINE x == Texts(SubSeq(stream[d], 1, k))
           w == Texts(sending[d]) \o lines[d]
<1>4. PICK y \in Seq(Line) : Texts(stream[d]) = x \o y
  BY <1>1, TextsCut
<1>5. x \in Seq(Line) /\ w \in Seq(Line) /\ Texts(sending[d]) \in Seq(Line)
      /\ lines[d] \in Seq(Line) /\ Texts(stream[d]) \in Seq(Line)
  <2>1. SubSeq(stream[d], 1, k) \in Seq(Frame)
    BY <1>1, <1>3
  <2>2. x \in Seq(Line)
    BY <2>1, TextsConcat
  <2> HIDE DEF x
  <2> DEFINE v == Texts(sending[d])
             t == lines[d]
             u == Texts(stream[d])
  <2>3. u \in Seq(Line) /\ v \in Seq(Line) /\ t \in Seq(Line)
    BY Row
  <2>4. w \in Seq(Line)
    <3>1. w = v \o t
      OBVIOUS
    <3> HIDE DEF u, v, t, w
    <3> QED BY <2>3, <3>1, ConcatEmpty
  <2> QED BY <2>2, <2>3, <2>4
<1>6. Pending(d) = Texts(stream[d]) \o w /\ Pending(d)' = x \o w
  <2>1. Pending(d)' = x \o Texts(sending[d]) \o lines[d]
    BY <1>2, <1>3 DEF Pending
  <2> DEFINE u == Texts(stream[d])
             v == Texts(sending[d])
             t == lines[d]
  <2>2. /\ u \in Seq(Line) /\ v \in Seq(Line) /\ t \in Seq(Line)
        /\ Pending(d) = u \o v \o t /\ Pending(d)' = x \o v \o t /\ w = v \o t
    BY <1>5, <2>1 DEF Pending
  <2> HIDE DEF u, v, t, x, w
  <2>3. u \o (v \o t) = (u \o v) \o t /\ x \o (v \o t) = (x \o v) \o t
    <3>1. u \in Seq(Line) /\ v \in Seq(Line) /\ t \in Seq(Line) /\ x \in Seq(Line)
      BY <1>5, <2>2
    <3>2. u \o (v \o t) = (u \o v) \o t
      BY <3>1, Regroup
    <3>3. x \o (v \o t) = (x \o v) \o t
      BY <3>1, Regroup
    <3> QED BY <3>2, <3>3
  <2>4. Pending(d) = u \o w /\ Pending(d)' = x \o w
    BY <2>2, <2>3
  <2> QED BY <2>4 DEF u
<1> HIDE DEF x, w
<1>7. Pending(d) = x \o y \o w
  BY <1>4, <1>6
<1> QED BY <1>2, <1>5, <1>6, <1>7, RowCut

\* Every step of the link is a step of Delivery, or none, in each direction.
LEMMA LinkMaps ==
  ASSUME TypeOK, OneFrame, [Next]_vars, NEW d \in End
  PROVE  Direction(d)
<1>1. (Stall \/ Resume \/ Die \/ Pass \/ UNCHANGED vars)
        => UNCHANGED <<stream, sending, lines, open, heard>>
  BY DEF Stall, Resume, Die, Pass, ends, vars
<1>2. UNCHANGED <<stream, sending, lines, open, heard>> => Direction(d)
  BY RowUntouched
<1> QED BY <1>1, <1>2, LoopMaps, ManagerMaps, BreakMaps DEF Next, Circuit

\* At first nothing is pending in either.
LEMMA LinkStarts ==
  ASSUME Init, NEW d \in End
  PROVE  From(d)!Init
<1>1. /\ stream[d] = <<>> /\ sending[d] = <<>> /\ lines[d] = <<>> /\ open[d] = TRUE
      /\ heard[Other(d)] = <<>>
  BY EndFacts DEF Init
<1>2. Pending(d) = <<>>
  <2>1. <<>> \o <<>> \o <<>> = <<>>
    OBVIOUS
  <2> QED BY <1>1, <2>1, TextsNone DEF Pending
<1> QED BY <1>1, <1>2 DEF From!Init

\* For any number of lines, buffers of any size and any timing of pings, losses
\* and hang-ups at either end: what is read at one end of a connection are lines
\* handed to the other, in that order and each at most once (network.rs,
\* run_connection).
THEOREM LinkDelivers == Spec => ImplementsDelivery
<1> DEFINE Steps == \A e \in End :
                      [From(e)!Next]_<<open[e], Pending(e), heard[Other(e)]>>
           Starts == \A e \in End : From(e)!Init
<1>1. Init => Starts
  BY LinkStarts
<1>2. TypeOK /\ OneFrame /\ [Next]_vars => [Steps]_vars
  BY LinkMaps DEF Direction
<1>3. ImplementsDelivery <=> Starts /\ [][Steps]_vars
  BY DEF ImplementsDelivery
<1> HIDE DEF Starts, Steps
<1> QED
  BY <1>1, <1>2, <1>3, TypeInit, TypeNext, OneFrameInit, OneFrameNext, PTL DEF Spec

-----------------------------------------------------------------------------
(* A link whose circuit works, or only stalls, is never given up.          *)

\* Both ends wait for a write that the other end would have to make room for.
\* Nothing is read from then on, and no heartbeat is due to anyone.
Jammed == \A e \in End : pc[e] = "sending" /\ ~Room(e)

\* Nothing that e wrote, or is writing, is still to be read.
Silent(e) == Running(e) /\ stream[e] = <<>> /\ sending[e] = <<>>

\* Units that the circuit itself may have added to a silence.
Slack == IF circuit = "stalled" THEN stall ELSE MaxStall

\* The other end of e pings within an interval of what e last heard, or has
\* written something since, which only the circuit holds up.
Alive(e) ==
  \/ /\ Silent(Other(e))
     /\ silence[e] + wait[Other(e)] <= PING_INTERVAL
  \/ /\ ~Silent(Other(e))
     /\ silence[e] <= PING_INTERVAL + Slack

PulseInv ==
  /\ circuit # "stalled" => stall = 0
  /\ circuit \in {"up", "stalled"} => Jammed \/ \A e \in End : Running(e) => Alive(e)

\* What a step of e's loop does to the pulse of either end: whatever is silent
\* after it was silent before with its tick as near, and a silence grew by
\* nothing.
Beats(e, d) ==
  /\ pc'[d] = pc[d] /\ sending'[d] = sending[d] /\ wait'[d] = wait[d] /\ silence'[d] = silence[d]
  /\ circuit' = circuit /\ stall' = stall
  /\ Running(e)
  /\ Silent(e)' => Silent(e) /\ wait'[e] = wait[e]
  /\ Running(e)' => silence'[e] = 0 \/ (silence'[e] = silence[e] /\ stream'[d] = stream[d])

\* An end whose loop returned is silent no more: it does not run.
LEMMA ReturnBeats ==
  ASSUME TypeOK, NEW e \in End, NEW d \in End, d # e, Running(e),
         NEW why \in {"unresponsive", "lost", "closed"}, Return(e, why)
  PROVE  Beats(e, d)
<1>1. pc' = [pc EXCEPT ![e] = why] /\ pc \in [End -> {"select", "sending", "unresponsive", "lost", "closed"}]
  BY DEF Return, TypeOK
<1>2. ~Running(e)' /\ ~Silent(e)'
  BY <1>1 DEF Running, Silent
<1> QED BY <1>1, <1>2 DEF Return, Beats, TypeOK

\* Every branch of a loop.
LEMMA LoopBeats ==
  ASSUME TypeOK, NEW e \in End, NEW d \in End, d = Other(e), run_connection(e)
  PROVE  Beats(e, d)
<1>1. d # e /\ Other(d) = e
  BY EndFacts DEF Other, End
<1>2. /\ pc \in [End -> {"select", "sending", "unresponsive", "lost", "closed"}]
      /\ sending \in [End -> Seq(Frame)] /\ stream \in [End -> Seq(Frame)]
      /\ wait \in [End -> 0 .. PING_INTERVAL] /\ silence \in [End -> 0 .. MaxSilence]
  BY DEF TypeOK
<1>3. Running(e)
  BY DEF run_connection, ReadFrame, ReadEnd, TakeLine, LocalClosed, Tick, Flush, WriteError, Running
<1>4. CASE \E why \in {"unresponsive", "lost", "closed"} : Return(e, why)
  BY <1>1, <1>3, <1>4, ReturnBeats
<1>5. ASSUME NEW f, Send(e, f) PROVE ~Silent(e)' /\ pc'[d] = pc[d] /\ sending'[d] = sending[d]
  BY <1>1, <1>2, <1>5 DEF Send, Silent
<1>6. CASE ReadFrame(e)
  <2>1. /\ wait' = wait /\ circuit' = circuit /\ stall' = stall
        /\ silence' = [silence EXCEPT ![e] = 0]
        /\ stream' = [stream EXCEPT ![d] = Tail(stream[d])]
        /\ UNCHANGED <<pc, sending>> \/ \E f : Send(e, f)
    BY <1>6 DEF ReadFrame
  <2>2. stream'[e] = stream[e] /\ silence'[e] = 0 /\ silence'[d] = silence[d]
    BY <1>1, <1>2, <2>1
  <2>3. CASE UNCHANGED <<pc, sending>>
    BY <1>3, <2>1, <2>2, <2>3 DEF Beats, Silent, Running
  <2>4. CASE \E f : Send(e, f)
    BY <1>3, <1>5, <2>1, <2>2, <2>4 DEF Beats
  <2> QED BY <2>1, <2>3, <2>4
<1>7. CASE TakeLine(e)
  <2>1. /\ \E f : Send(e, f)
        /\ UNCHANGED <<stream, wait, silence, circuit, stall>>
    BY <1>7 DEF TakeLine
  <2> QED BY <1>3, <1>5, <2>1 DEF Beats
<1>8. CASE Tick(e) /\ ~(silence[e] > LIVENESS_TIMEOUT)
  <2>1. /\ \E f : Send(e, f)
        /\ wait' = [wait EXCEPT ![e] = PING_INTERVAL]
        /\ UNCHANGED <<stream, silence, circuit, stall>>
    BY <1>8 DEF Tick
  <2>2. wait'[d] = wait[d]
    BY <1>1, <1>2, <2>1
  <2> QED BY <1>3, <1>5, <2>1, <2>2 DEF Beats
<1>9. CASE Flush(e)
  <2>1. /\ stream' = [stream EXCEPT ![e] = Append(stream[e], sending[e][1])]
        /\ sending' = [sending EXCEPT ![e] = <<>>]
        /\ pc' = [pc EXCEPT ![e] = "select"]
        /\ UNCHANGED <<wait, silence, circuit, stall>>
    BY <1>9 DEF Flush
  <2>2. stream'[e] # <<>>
    <3>1. stream'[e] = Append(stream[e], sending[e][1]) /\ stream[e] \in Seq(Frame)
      BY <1>2, <2>1
    <3>2. sending[e] \in Seq(Frame) /\ Len(sending[e]) = 1
      BY <1>9 DEF Flush, TypeOK
    <3>3. sending[e][1] \in Frame
      BY <3>2
    <3> QED BY <3>1, <3>3, AppendProperties
  <2>3. stream'[d] = stream[d] /\ sending'[d] = sending[d] /\ pc'[d] = pc[d]
    BY <1>1, <1>2, <2>1
  <2> QED BY <1>3, <2>1, <2>2, <2>3 DEF Beats, Silent
<1> QED
  BY <1>4, <1>6, <1>7, <1>8, <1>9
     DEF run_connection, ReadEnd, LocalClosed, Tick, WriteError

\* Nothing happens in the loops of a link that is jammed while its circuit is.
LEMMA JamHolds ==
  ASSUME TypeOK, circuit \in {"up", "stalled"}, Jammed, NEW e \in End
  PROVE  ~run_connection(e)
<1>1. pc[e] = "sending" /\ ~Room(e) /\ pc[Other(e)] = "sending"
  BY EndFacts DEF Jammed
<1>2. ~HungUp(e)
  BY <1>1 DEF HungUp, Running
<1> QED BY <1>1, <1>2
           DEF run_connection, ReadFrame, ReadEnd, TakeLine, LocalClosed, Tick, Flush, WriteError

\* The clocks and the slack are naturals within their bounds.
LEMMA PulseTypes ==
  ASSUME TypeOK
  PROVE  /\ \A e \in End : wait[e] \in Nat /\ wait[e] <= PING_INTERVAL /\ silence[e] \in Nat
         /\ stall \in Nat /\ stall <= MaxStall
         /\ Slack \in Nat /\ Slack <= MaxStall
         /\ PING_INTERVAL \in Nat /\ MaxStall \in Nat
BY LinkAssumption DEF TypeOK, Slack

\* The pulse of both ends outlives a step of either loop.
LEMMA LoopPulse ==
  ASSUME TypeOK, TypeOK', PulseInv, NEW e \in End, run_connection(e)
  PROVE  PulseInv'
<1> DEFINE d == Other(e)
<1>1. d \in End /\ Other(d) = e /\ d # e /\ \A x \in End : x = e \/ x = d
  BY EndFacts DEF Other, End
<1> HIDE DEF d
<1>2. Beats(e, d)
  BY <1>1, LoopBeats DEF d
<1>3. circuit' = circuit /\ stall' = stall /\ Slack' = Slack
  BY <1>2 DEF Beats, Slack
<1>4. ASSUME circuit \in {"up", "stalled"} PROVE \A x \in End : Running(x)' => Alive(x)'
  <2>1. \A x \in End : Running(x) => Alive(x)
    BY <1>4, JamHolds DEF PulseInv
  <2> DEFINE n == Slack
  <2>2. /\ silence[e] \in Nat /\ silence[d] \in Nat /\ wait[e] \in Nat /\ wait[d] \in Nat
        /\ silence'[e] \in Nat /\ wait'[d] \in Nat /\ wait'[d] <= PING_INTERVAL
        /\ n \in Nat /\ PING_INTERVAL \in Nat
    <3>1. silence' \in [End -> 0 .. MaxSilence] /\ wait' \in [End -> 0 .. PING_INTERVAL]
      BY DEF TypeOK
    <3>2. silence'[e] \in Nat /\ wait'[d] \in Nat /\ wait'[d] <= PING_INTERVAL
      BY <1>1, <3>1, LinkAssumption, LimitFacts
    <3> QED BY <1>1, <3>2, PulseTypes
  <2>3. Slack' = n /\ Slack = n
    BY <1>3
  <2> HIDE DEF n
  <2>4. ASSUME Running(e)' PROVE Alive(e)'
    <3>1. Running(e) /\ Alive(e)
      BY <1>2, <2>1 DEF Beats
    <3>2. Alive(e)' = (\/ Silent(d)' /\ silence'[e] + wait'[d] <= PING_INTERVAL
                       \/ ~Silent(d)' /\ silence'[e] <= PING_INTERVAL + n)
      BY <2>3 DEF Alive, d
    <3>3. CASE silence'[e] = 0
      BY <2>2, <3>2, <3>3
    <3>4. CASE silence'[e] = silence[e] /\ stream'[d] = stream[d]
      <4>1. Silent(d)' = Silent(d) /\ wait'[d] = wait[d]
        BY <1>2, <3>4 DEF Beats, Silent, Running
      <4>2. \/ Silent(d) /\ silence[e] + wait[d] <= PING_INTERVAL
            \/ ~Silent(d) /\ silence[e] <= PING_INTERVAL + n
        BY <2>3, <3>1 DEF Alive, d
      <4> QED BY <3>2, <3>4, <4>1, <4>2
    <3> QED BY <1>2, <2>4, <3>3, <3>4 DEF Beats
  <2>5. ASSUME Running(d)' PROVE Alive(d)'
    <3>1. Running(d) /\ Alive(d)
      BY <1>1, <1>2, <2>1, <2>5 DEF Beats, Running
    <3>2. Alive(d)' = (\/ Silent(e)' /\ silence'[d] + wait'[e] <= PING_INTERVAL
                       \/ ~Silent(e)' /\ silence'[d] <= PING_INTERVAL + n)
      BY <1>1, <2>3 DEF Alive
    <3>3. \/ Silent(e) /\ silence[d] + wait[e] <= PING_INTERVAL
          \/ ~Silent(e) /\ silence[d] <= PING_INTERVAL + n
      BY <1>1, <2>3, <3>1 DEF Alive
    <3>4. silence'[d] = silence[d] /\ (Silent(e)' => Silent(e) /\ wait'[e] = wait[e])
      BY <1>2 DEF Beats
    <3>5. CASE Silent(e)'
      BY <3>2, <3>3, <3>4, <3>5
    <3>6. CASE ~Silent(e)'
      BY <2>2, <3>2, <3>3, <3>4, <3>6
    <3> QED BY <3>5, <3>6
  <2> QED BY <1>1, <2>4, <2>5
<1> QED BY <1>3, <1>4 DEF PulseInv

\* Nor do the manager's commands disturb it,
LEMMA ManagerPulse ==
  ASSUME PulseInv, UNCHANGED <<pc, sending, stream, wait, silence, circuit, stall>>
  PROVE  PulseInv'
BY DEF PulseInv, Jammed, Room, Alive, Silent, Slack, Running

\* or the circuit: it can only stall when both ends had nothing left to read.
LEMMA IdlePulse ==
  ASSUME TypeOK, OneFrame, Idle, circuit = "up", ~Jammed, NEW e \in End, Running(e)
  PROVE  Silent(Other(e)) /\ wait[Other(e)] > 0
<1> DEFINE d == Other(e)
<1>1. d \in End /\ Other(d) = e /\ \A x \in End : x = e \/ x = d
  BY EndFacts DEF Other, End
<1>2. ~Ready(e) /\ ~Ready(d)
  BY <1>1 DEF Idle
<1>3. ASSUME NEW x \in End, ~Room(x) PROVE stream[x] # <<>>
  BY <1>3, TextsNone, LinkAssumption DEF Room
<1> HIDE DEF d
<1>4. Running(d)
  BY <1>1, <1>2 DEF Ready, HungUp, Running, d
<1>5. pc[d] = "sending" => stream[d] # <<>> /\ ~Room(d)
  BY <1>1, <1>2, <1>3 DEF Ready
<1>6. pc[e] = "sending" => stream[e] # <<>> /\ ~Room(e)
  BY <1>2, <1>3 DEF Ready
<1>7. pc[d] = "select" => stream[e] = <<>>
  BY <1>1, <1>2 DEF Ready, Incoming
<1>8. pc[e] = "select" => stream[d] = <<>>
  BY <1>1, <1>2 DEF Ready, Incoming, d
<1>9. pc[e] = "select"
  BY <1>1, <1>4, <1>5, <1>6, <1>7 DEF Running, Jammed
<1>10. pc[d] = "select"
  BY <1>4, <1>5, <1>8, <1>9 DEF Running
<1>11. sending[d] = <<>>
  BY <1>1, <1>10 DEF OneFrame
<1>12. wait[d] \in Nat /\ wait[d] # 0
  BY <1>1, <1>2, <1>10, PulseTypes DEF Ready
<1> QED BY <1>4, <1>8, <1>9, <1>11, <1>12 DEF Silent, d

\* The circuit: it stalls when both ends are silent, and what it held up before it
\* resumes was at most the longest stall.
LEMMA CircuitPulse ==
  ASSUME TypeOK, OneFrame, PulseInv, Circuit
  PROVE  PulseInv'
<1>1. CASE Stall
  <2>1. /\ circuit = "up" /\ circuit' = "stalled" /\ stall = 0 /\ stall' = 0 /\ Idle
        /\ UNCHANGED <<pc, sending, stream, wait, silence>>
    BY <1>1 DEF Stall, ends, PulseInv
  <2>2. CASE Jammed
    BY <2>1, <2>2 DEF PulseInv, Jammed, Room
  <2>3. CASE ~Jammed
    <3>1. ASSUME NEW e \in End, Running(e) PROVE Alive(e)'
      <4>1. Silent(Other(e)) /\ Alive(e)
        BY <2>1, <2>3, <3>1, IdlePulse DEF PulseInv
      <4> QED BY <2>1, <4>1 DEF Alive, Silent, Running
    <3> QED BY <2>1, <3>1 DEF PulseInv, Running
  <2> QED BY <2>2, <2>3
<1>2. CASE Resume
  <2>1. /\ circuit = "stalled" /\ circuit' = "up" /\ stall' = 0
        /\ UNCHANGED <<pc, sending, stream, wait, silence>>
    BY <1>2 DEF Resume, ends
  <2>2. CASE Jammed
    BY <2>1, <2>2 DEF PulseInv, Jammed, Room
  <2>3. CASE ~Jammed
    <3>1. ASSUME NEW e \in End, Running(e) PROVE Alive(e)'
      <4>1. Alive(e)
        BY <2>1, <2>3, <3>1 DEF PulseInv
      <4>2. silence[e] \in Nat /\ Slack <= Slack' /\ Slack \in Nat /\ Slack' \in Nat
              /\ PING_INTERVAL \in Nat
        BY <2>1, PulseTypes DEF Slack
      <4>3. Silent(Other(e))' = Silent(Other(e)) /\ silence' = silence /\ wait' = wait
        BY <2>1 DEF Silent, Running
      <4> QED BY <4>1, <4>2, <4>3 DEF Alive
    <3> QED BY <2>1, <3>1 DEF PulseInv, Running
  <2> QED BY <2>2, <2>3
<1>3. CASE Die \/ Break
  BY <1>3 DEF Die, Break, PulseInv
<1> QED BY <1>1, <1>2, <1>3 DEF Circuit

\* Time adds to a silence what it takes from the wait for the next ping, or
\* passes because the circuit is stalled.
LEMMA PassPulse ==
  ASSUME TypeOK, OneFrame, PulseInv, Pass
  PROVE  PulseInv'
<1>1. /\ UNCHANGED <<pc, sending, stream, circuit>> /\ Idle
      /\ circuit = "stalled" => stall' = stall + 1
      /\ circuit # "stalled" => stall' = 0
  BY DEF Pass, ends
<1>2. ASSUME circuit \in {"up", "stalled"}, ~Jammed, NEW e \in End, Running(e)
      PROVE  Alive(e)'
  <2> DEFINE d == Other(e)
  <2>1. d \in End
    BY EndFacts
  <2>2. Alive(e)
    BY <1>2 DEF PulseInv
  <2>3. /\ silence'[e] = silence[e] \/ silence'[e] = silence[e] + 1
        /\ wait'[d] = IF wait[d] > 0 THEN wait[d] - 1 ELSE 0
    BY <2>1 DEF Pass
  <2>4. Silent(d)' = Silent(d)
    BY <1>1 DEF Silent, Running
  <2>5. silence[e] \in Nat /\ wait[d] \in Nat /\ Slack \in Nat /\ PING_INTERVAL \in Nat
          /\ stall \in Nat
    BY <2>1, PulseTypes
  <2>6. CASE Silent(d)
    <3>1. wait[d] > 0
      <4>1. CASE circuit = "up"
        BY <1>1, <1>2, <4>1, IdlePulse
      <4>2. CASE circuit = "stalled"
        <5>1. pc[d] = "select"
          <6>1. ~(Len(sending[d]) = 1)
            BY <2>6 DEF Silent
          <6> QED BY <2>1, <2>6, <6>1 DEF Silent, Running, TypeOK
        <5>2. wait[d] # 0
          BY <1>1, <2>1, <5>1 DEF Idle, Ready
        <5> QED BY <2>5, <5>2
      <4> QED BY <1>2, <4>1, <4>2
    <3>2. silence[e] + wait[d] <= PING_INTERVAL
      BY <2>2, <2>6 DEF Alive
    <3>3. silence'[e] + wait'[d] <= PING_INTERVAL
      BY <2>3, <2>5, <3>1, <3>2
    <3> QED BY <2>4, <2>6, <3>3 DEF Alive
  <2>7. CASE ~Silent(d)
    <3>1. circuit = "stalled"
      BY <1>1, <1>2, <2>7, IdlePulse
    <3>2. Slack = stall /\ Slack' = stall + 1
      BY <1>1, <3>1 DEF Slack
    <3>3. silence[e] <= PING_INTERVAL + stall
      BY <2>2, <2>7, <3>2 DEF Alive
    <3>4. silence'[e] <= PING_INTERVAL + (stall + 1)
      BY <2>3, <2>5, <3>3
    <3> QED BY <2>4, <2>7, <3>2, <3>4 DEF Alive
  <2> QED BY <2>6, <2>7
<1>3. Jammed' = Jammed /\ \A e \in End : Running(e)' = Running(e)
  BY <1>1 DEF Jammed, Room, Running
<1> QED BY <1>1, <1>2, <1>3 DEF PulseInv

\* Both ends have just heard each other.
LEMMA PulseInit == Init => PulseInv
<1> SUFFICES ASSUME Init PROVE PulseInv
  OBVIOUS
<1>1. ASSUME NEW e \in End PROVE Alive(e)
  <2>1. Silent(Other(e)) /\ silence[e] = 0 /\ wait[Other(e)] = 0
    BY EndFacts DEF Init, Silent, Running
  <2> QED BY <2>1, LinkAssumption DEF Alive
<1> QED BY <1>1 DEF PulseInv, Init

\* The pulse is inductive on top of the types and the slots.
LEMMA PulseNext == TypeOK /\ OneFrame /\ PulseInv /\ [Next]_vars => PulseInv'
<1> SUFFICES ASSUME TypeOK, OneFrame, PulseInv, [Next]_vars PROVE PulseInv'
  OBVIOUS
<1>1. TypeOK'
  BY TypeNext
<1>2. CASE \E e \in End : run_connection(e)
  BY <1>1, <1>2, LoopPulse
<1>3. CASE (\E e \in End : Manager(e)) \/ UNCHANGED vars
  BY <1>3, ManagerPulse DEF Manager, HandLine, HangUp, vars, ends
<1>4. CASE Circuit
  BY <1>4, CircuitPulse
<1>5. CASE Pass
  BY <1>5, PassPulse
<1> QED BY <1>2, <1>3, <1>4, <1>5 DEF Next

\* An end gives its link up only when its silence is beyond the timeout.
LEMMA GivenUp ==
  ASSUME TypeOK, [Next]_vars, NEW e \in End, pc'[e] = "unresponsive", pc[e] # "unresponsive"
  PROVE  pc[e] = "select" /\ silence[e] > LIVENESS_TIMEOUT
<1>1. pc \in [End -> {"select", "sending", "unresponsive", "lost", "closed"}]
  BY DEF TypeOK
<1>2. PICK d \in End : run_connection(d)
  BY DEF Next, vars, ends, Manager, HandLine, HangUp, Circuit, Stall, Resume, Die, Break, Pass
<1>3. \/ \E f : Send(d, f)
      \/ \E why \in {"lost", "closed"} : Return(d, why)
      \/ pc' = pc
      \/ pc' = [pc EXCEPT ![d] = "select"]
      \/ pc[d] = "select" /\ silence[d] > LIVENESS_TIMEOUT /\ Return(d, "unresponsive")
  BY <1>2
     DEF run_connection, ReadFrame, ReadEnd, TakeLine, LocalClosed, Tick, Flush, WriteError
<1>4. CASE \/ \E f : Send(d, f)
           \/ \E why \in {"lost", "closed"} : Return(d, why)
           \/ pc' = pc
           \/ pc' = [pc EXCEPT ![d] = "select"]
  BY <1>1, <1>4 DEF Send, Return
<1>5. CASE pc[d] = "select" /\ silence[d] > LIVENESS_TIMEOUT /\ Return(d, "unresponsive")
  BY <1>1, <1>5 DEF Return
<1> QED BY <1>3, <1>4, <1>5

\* As long as the timeout outlasts one interval and the longest stall of a
\* circuit that is not lost, neither end of a working link ever gives it up:
\* not while one of them waits to write, not while the other's ticks are late,
\* and not just after a stall (network.rs:258-300).
THEOREM NoFalseAlarms == Spec => NoFalseAlarm
<1> DEFINE Step == \A e \in End : pc'[e] = "unresponsive" /\ pc[e] # "unresponsive"
                     => circuit \in {"dead", "broken"}
<1>1. TypeOK /\ PulseInv /\ [Next]_vars => [Step]_vars
  <2> SUFFICES ASSUME TypeOK, PulseInv, [Next]_vars, NEW e \in End,
                      pc'[e] = "unresponsive", pc[e] # "unresponsive",
                      circuit \notin {"dead", "broken"}
               PROVE  FALSE
    OBVIOUS
  <2>1. pc[e] = "select" /\ silence[e] > LIVENESS_TIMEOUT
    BY GivenUp
  <2>2. circuit \in {"up", "stalled"}
    BY DEF TypeOK
  <2>3. Alive(e)
    BY <2>1, <2>2 DEF PulseInv, Jammed, Running
  <2>4. /\ silence[e] \in Nat /\ wait[Other(e)] \in Nat /\ Slack \in Nat /\ Slack <= MaxStall
        /\ PING_INTERVAL \in Nat /\ MaxStall \in Nat
    BY PulseTypes, EndFacts
  <2>5. silence[e] <= PING_INTERVAL + MaxStall
    BY <2>3, <2>4 DEF Alive
  <2> QED BY <2>1, <2>4, <2>5, LinkAssumption
<1>2. NoFalseAlarm <=> [][Step]_vars
  BY DEF NoFalseAlarm
<1> HIDE DEF Step
<1> QED
  BY <1>1, <1>2, TypeInit, TypeNext, OneFrameInit, OneFrameNext, PulseInit, PulseNext, PTL DEF Spec
=============================================================================
