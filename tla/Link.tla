-------------------------------- MODULE Link --------------------------------
(***************************************************************************)
(* One connection in detail: run_connection of src/src/network.rs at both  *)
(* of its ends, and the Tor circuit between them.                          *)
(*                                                                         *)
(* Each end is a loop that waits for the first of: a frame from the        *)
(* circuit, a line from the manager, a tick of the heartbeat.  Whichever   *)
(* branch wins runs to its end before the loop waits again, and the write  *)
(* in it is awaited: while an end is "sending" it reads nothing, ticks     *)
(* nothing and does not notice that the manager dropped it.                *)
(*                                                                         *)
(* Time is counted in units that PING_INTERVAL and LIVENESS_TIMEOUT are    *)
(* multiples of, and passes only when no end has anything to do.  A line   *)
(* is an amount of text that fills a share of the circuit's buffers; the   *)
(* pings and pongs, a few bytes each, do not count.                        *)
(***************************************************************************)
EXTENDS Integers, Sequences, SequencesExt

CONSTANTS
  A, B,                \* the two ends
  PING_INTERVAL,       \* units between heartbeats
  LIVENESS_TIMEOUT,    \* units without a frame that declare a link dead
  Capacity,            \* lines the buffers of one direction hold
  MaxStall,            \* bound: units a circuit that is not lost delivers nothing
  MaxLines             \* bound: lines handed to the two ends together

ASSUME LinkAssumption ==
  /\ A # B
  /\ PING_INTERVAL \in Nat \ {0}
  /\ LIVENESS_TIMEOUT \in Nat
  /\ Capacity \in Nat \ {0}
  /\ MaxStall \in Nat
  /\ MaxStall + PING_INTERVAL <= LIVENESS_TIMEOUT
  /\ MaxLines \in Nat

End == {A, B}
Other(e) == IF e = A THEN B ELSE A

Line == 1 .. MaxLines
Frame == [t : {"msg"}, line : Line] \cup [t : {"ping", "pong"}]

VARIABLES
  pc,       \* end -> what its loop is doing, or why it ended
  sending,  \* end -> the frame whose write is awaited, if any
  lines,    \* end -> lines queued by the manager (line_rx)
  handed,   \* end -> history: how many lines were ever queued
  open,     \* end -> the manager still holds the sender of line_rx
  stream,   \* end -> frames it wrote that the other end has not read
  heard,    \* end -> history: lines it read
  wait,     \* end -> units to the next tick of the heartbeat
  silence,  \* end -> units since last_seen, up to MaxSilence
  circuit,  \* what the network does with the streams
  stall     \* units the circuit has delivered nothing

queues == <<lines, handed, open>>
ends == <<pc, sending, lines, handed, open, heard>>
vars == <<ends, stream, wait, silence, circuit, stall>>

MaxSilence == LIVENESS_TIMEOUT + PING_INTERVAL + 1

TypeOK ==
  /\ pc \in [End -> {"select", "sending", "unresponsive", "lost", "closed"}]
  /\ sending \in [End -> Seq(Frame)]
  /\ \A e \in End : (pc[e] = "sending") = (Len(sending[e]) = 1)
  /\ lines \in [End -> Seq(Line)]
  /\ handed \in [End -> 0 .. MaxLines]
  /\ open \in [End -> BOOLEAN]
  /\ stream \in [End -> Seq(Frame)]
  /\ heard \in [End -> Seq(Line)]
  /\ wait \in [End -> 0 .. PING_INTERVAL]
  /\ silence \in [End -> 0 .. MaxSilence]
  /\ circuit \in {"up", "stalled", "dead", "broken"}
  /\ stall \in 0 .. MaxStall

\* The first tick of tokio's interval is due at once.
Init ==
  /\ pc = [e \in End |-> "select"]
  /\ sending = [e \in End |-> <<>>]
  /\ lines = [e \in End |-> <<>>]
  /\ handed = [e \in End |-> 0]
  /\ open = [e \in End |-> TRUE]
  /\ stream = [e \in End |-> <<>>]
  /\ heard = [e \in End |-> <<>>]
  /\ wait = [e \in End |-> 0]
  /\ silence = [e \in End |-> 0]
  /\ circuit = "up"
  /\ stall = 0

Running(e) == pc[e] \in {"select", "sending"}

Incoming(e) == stream[Other(e)]

\* Lines among the frames of s, in their order.
IsMsg(f) == f.t = "msg"
Texts(s) == FlattenSeq([i \in DOMAIN s |-> IF IsMsg(s[i]) THEN <<s[i].line>> ELSE <<>>])

\* The buffers toward the other end take another frame.
Room(e) == Len(Texts(stream[e])) < Capacity

\* The streams of an end learn that the other is gone: Tor closed the stream,
\* or the other end did and the circuit carries the news.
HungUp(e) == circuit = "broken" \/ (circuit = "up" /\ ~Running(Other(e)))

-----------------------------------------------------------------------------
(* The branches of the select loop of end e.                               *)

\* sink.send(...).await: the frame is handed over; Flush or WriteError end it.
Send(e, f) ==
  /\ pc' = [pc EXCEPT ![e] = "sending"]
  /\ sending' = [sending EXCEPT ![e] = <<f>>]

\* The loop returns: both halves of the stream are dropped with what was not
\* read or written; what was not taken from line_rx is left to the task.
Return(e, why) ==
  /\ pc' = [pc EXCEPT ![e] = why]
  /\ sending' = [sending EXCEPT ![e] = <<>>]
  /\ lines' = [lines EXCEPT ![e] = <<>>]
  /\ stream' = [stream EXCEPT ![Other(e)] = <<>>]
  /\ wait' = [wait EXCEPT ![e] = 0]
  /\ silence' = [silence EXCEPT ![e] = 0]
  /\ UNCHANGED <<handed, open, heard, circuit, stall>>

\* Fault: only a chat line is a sign of life.
ReadFrameChatOnly(e) ==
  /\ pc[e] = "select"
  /\ circuit \in {"up", "broken"}
  /\ Incoming(e) # <<>>
  /\ stream' = [stream EXCEPT ![Other(e)] = Tail(@)]
  /\ LET f == Head(Incoming(e))
     IN  \/ /\ f.t = "msg"
            /\ heard' = [heard EXCEPT ![e] = Append(@, f.line)]
            /\ silence' = [silence EXCEPT ![e] = 0]
            /\ UNCHANGED <<pc, sending>>
         \/ f.t = "ping" /\ Send(e, [t |-> "pong"]) /\ UNCHANGED <<heard, silence>>
         \/ f.t = "pong" /\ UNCHANGED <<pc, sending, heard, silence>>
  /\ UNCHANGED <<queues, wait, circuit, stall>>

\* A line or a heartbeat arrives.  Any frame is a sign of life.
ReadFrame(e) ==
  /\ pc[e] = "select"
  /\ circuit \in {"up", "broken"}
  /\ Incoming(e) # <<>>
  /\ stream' = [stream EXCEPT ![Other(e)] = Tail(@)]
  /\ silence' = [silence EXCEPT ![e] = 0]
  /\ LET f == Head(Incoming(e))
     IN  \/ /\ f.t = "msg"
            /\ heard' = [heard EXCEPT ![e] = Append(@, f.line)]
            /\ UNCHANGED <<pc, sending>>
         \/ f.t = "ping" /\ Send(e, [t |-> "pong"]) /\ UNCHANGED heard
         \/ f.t = "pong" /\ UNCHANGED <<pc, sending, heard>>
  /\ UNCHANGED <<queues, wait, circuit, stall>>

\* None, or an error, once what had arrived is read.
ReadEnd(e) ==
  /\ pc[e] = "select"
  /\ HungUp(e)
  /\ Incoming(e) = <<>>
  /\ Return(e, "lost")

\* Fault: the newest line is taken first.
TakeNewestLine(e) ==
  /\ pc[e] = "select"
  /\ lines[e] # <<>>
  /\ Send(e, [t |-> "msg", line |-> lines[e][Len(lines[e])]])
  /\ lines' = [lines EXCEPT ![e] = SubSeq(@, 1, Len(@) - 1)]
  /\ UNCHANGED <<handed, open, heard, stream, wait, silence, circuit, stall>>

TakeLine(e) ==
  /\ pc[e] = "select"
  /\ lines[e] # <<>>
  /\ Send(e, [t |-> "msg", line |-> Head(lines[e])])
  /\ lines' = [lines EXCEPT ![e] = Tail(@)]
  /\ UNCHANGED <<handed, open, heard, stream, wait, silence, circuit, stall>>

\* Fault: a closed channel only disables its branch.
LocalClosedUnnoticed(e) == FALSE

\* The channel is closed and drained: a deliberate hang-up.
LocalClosed(e) ==
  /\ pc[e] = "select"
  /\ lines[e] = <<>>
  /\ ~open[e]
  /\ Return(e, "closed")

\* Fault: the deadline allows one interval more.
TickTooPatient(e) ==
  /\ pc[e] = "select"
  /\ wait[e] = 0
  /\ IF silence[e] > LIVENESS_TIMEOUT + PING_INTERVAL
       THEN Return(e, "unresponsive")
       ELSE /\ Send(e, [t |-> "ping"])
            /\ wait' = [wait EXCEPT ![e] = PING_INTERVAL]
            /\ UNCHANGED <<queues, heard, stream, silence, circuit, stall>>

\* The heartbeat is due: give the link up, or ping.  With Delay, a tick that
\* came late puts the next one a whole interval after itself.
Tick(e) ==
  /\ pc[e] = "select"
  /\ wait[e] = 0
  /\ IF silence[e] > LIVENESS_TIMEOUT
       THEN Return(e, "unresponsive")
       ELSE /\ Send(e, [t |-> "ping"])
            /\ wait' = [wait EXCEPT ![e] = PING_INTERVAL]
            /\ UNCHANGED <<queues, heard, stream, silence, circuit, stall>>

\* Fault: the slot of the frame is not emptied.
FlushLeavesFrame(e) ==
  /\ pc[e] = "sending"
  /\ circuit # "broken"
  /\ Room(e)
  /\ stream' = [stream EXCEPT ![e] = Append(@, sending[e][1])]
  /\ pc' = [pc EXCEPT ![e] = "select"]
  /\ UNCHANGED <<sending, queues, heard, wait, silence, circuit, stall>>

\* The awaited write completes as soon as the buffers take the frame.
Flush(e) ==
  /\ pc[e] = "sending"
  /\ circuit # "broken"
  /\ Room(e)
  /\ stream' = [stream EXCEPT ![e] = Append(@, sending[e][1])]
  /\ sending' = [sending EXCEPT ![e] = <<>>]
  /\ pc' = [pc EXCEPT ![e] = "select"]
  /\ UNCHANGED <<queues, heard, wait, silence, circuit, stall>>

WriteError(e) ==
  /\ pc[e] = "sending"
  /\ HungUp(e)
  /\ Return(e, "lost")

run_connection(e) ==
  \/ ReadFrame(e)
  \/ ReadEnd(e)
  \/ TakeLine(e)
  \/ LocalClosed(e)
  \/ Tick(e)
  \/ Flush(e)
  \/ WriteError(e)

\* Some branch of e's loop, or its awaited write, can proceed.
Ready(e) ==
  \/ /\ pc[e] = "select"
     /\ \/ circuit \in {"up", "broken"} /\ Incoming(e) # <<>>
        \/ HungUp(e)
        \/ lines[e] # <<>>
        \/ ~open[e]
        \/ wait[e] = 0
  \/ pc[e] = "sending" /\ (HungUp(e) \/ (circuit # "broken" /\ Room(e)))

Idle == \A e \in End : ~Ready(e)

-----------------------------------------------------------------------------
(* The manager, the circuit and the clock.                                 *)

\* A UiCommand::Send routed to this connection.
HandLine(e) ==
  /\ Running(e)
  /\ open[e]
  /\ handed[A] + handed[B] < MaxLines
  /\ handed' = [handed EXCEPT ![e] = @ + 1]
  /\ lines' = [lines EXCEPT ![e] = Append(@, handed[e] + 1)]
  /\ UNCHANGED <<pc, sending, open, heard, stream, wait, silence, circuit, stall>>

\* A UiCommand::Disconnect or a shutdown: the sender is dropped.
HangUp(e) ==
  /\ Running(e)
  /\ open[e]
  /\ open' = [open EXCEPT ![e] = FALSE]
  /\ UNCHANGED <<pc, sending, lines, handed, heard, stream, wait, silence, circuit, stall>>

\* A circuit may deliver nothing for a while,
Stall ==
  /\ circuit = "up"
  /\ Idle
  /\ circuit' = "stalled"
  /\ UNCHANGED <<ends, stream, wait, silence, stall>>

Resume ==
  /\ circuit = "stalled"
  /\ circuit' = "up"
  /\ stall' = 0
  /\ UNCHANGED <<ends, stream, wait, silence>>

\* or never again, without a word to either end,
Die ==
  /\ circuit \in {"up", "stalled"}
  /\ circuit' = "dead"
  /\ stall' = 0
  /\ UNCHANGED <<ends, stream, wait, silence>>

\* or Tor closes it, and what had not yet arrived is lost.
Break ==
  /\ circuit # "broken"
  /\ circuit' = "broken"
  /\ stall' = 0
  /\ \E a \in 0 .. Len(stream[A]), b \in 0 .. Len(stream[B]) :
       stream' = [e \in End |-> SubSeq(stream[e], 1, IF e = A THEN a ELSE b)]
  /\ UNCHANGED <<ends, wait, silence>>

\* A unit of time.  The clocks of an end that is gone no longer matter.
Pass ==
  /\ Idle
  /\ circuit = "stalled" => stall < MaxStall
  /\ stall' = IF circuit = "stalled" THEN stall + 1 ELSE 0
  /\ wait' = [e \in End |-> IF wait[e] > 0 THEN wait[e] - 1 ELSE 0]
  /\ silence' = [e \in End |-> IF Running(e) /\ silence[e] < MaxSilence
                                 THEN silence[e] + 1 ELSE silence[e]]
  /\ UNCHANGED <<ends, stream, circuit>>

Manager(e) == HandLine(e) \/ HangUp(e)

Circuit == Stall \/ Resume \/ Die \/ Break

Next ==
  \/ \E e \in End : run_connection(e)
  \/ \E e \in End : Manager(e)
  \/ Circuit
  \/ Pass

\* The runtime polls a task that can proceed, time passes, and a circuit that
\* only stalled delivers again.
Fairness ==
  /\ \A e \in End : WF_vars(run_connection(e))
  /\ WF_vars(Pass)
  /\ WF_vars(Resume)

Spec == Init /\ [][Next]_vars /\ Fairness

-----------------------------------------------------------------------------
(* Properties.                                                             *)

\* The next tick of an end, unless it is due already, comes no later than the
\* timeout and one interval after the last frame: however reads, writes and
\* late ticks interleave, the heartbeat gives a silent link no longer.
DeadlineKept ==
  \A e \in End :
    Running(e) => wait[e] = 0 \/ silence[e] + wait[e] <= LIVENESS_TIMEOUT + PING_INTERVAL

\* A link whose circuit works, or stalls for at most the timeout less one
\* interval, is never declared unresponsive: pings, answers and resets of last_seen on
\* both ends are frequent enough.
NoFalseAlarm ==
  [][\A e \in End : pc'[e] = "unresponsive" /\ pc[e] # "unresponsive"
       => circuit \in {"dead", "broken"}]_vars

\* An end that is not stuck for ever in one write ends once it is told to, the
\* other end is gone, or the circuit is, with or without a word.  (Told stays
\* true, and so does having ended: this is Told(e) ~> ~Running(e).)
Told(e) == ~open[e] \/ ~Running(Other(e)) \/ circuit \in {"dead", "broken"}

EndsWhenItShould ==
  \A e \in End : <>[](pc[e] = "sending") \/ []<>(~Told(e) \/ ~Running(e))

\* What is typed at one end is read at the other in order, at most once: the
\* link implements Delivery in each direction.  A line is pending while it
\* waits for the loop, while its write is awaited and while it travels.
Pending(e) == Texts(stream[e]) \o Texts(sending[e]) \o lines[e]

From(e) == INSTANCE Delivery WITH
  Body <- Line,
  online <- open[e],
  pending <- Pending(e),
  written <- heard[Other(e)]

\* (Pointwise, \A e \in End : From(e)!Spec.)
ImplementsDelivery ==
  /\ \A e \in End : From(e)!Init
  /\ [][\A e \in End :
           [From(e)!Next]_<<open[e], Pending(e), heard[Other(e)]>>]_vars

\* What the documentation says of a silent link: it is declared dead at the
\* first tick after the timeout, so no running end has heard nothing for
\* longer than that.
SilentLinkDeclaredDead ==
  \A e \in End : Running(e) => silence[e] <= LIVENESS_TIMEOUT + PING_INTERVAL
=============================================================================
