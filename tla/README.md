# hop6, formally

A verification project for hop6, the terminal messenger over Tor onion
services: TLA+ modules translated from `src/src/*.rs`, TLC configurations that
check them on small instances, and theorems that TLAPS checks for every value
of the constants.

## 1. Inventory

hop6 is one process: a UI loop, a network manager, an accept task, one task per
connection and a Tor supervisor, all on one tokio runtime. They share no memory
except a read-only own onion address; everything else is a channel.

| Component | Source | State | Operations | Talks to |
|---|---|---|---|---|
| Channels | `message.rs` | two unbounded mpsc queues: `NetEvent` (network to UI), `UiCommand` (UI to manager) | send, whose error is ignored, and receive | everyone |
| UI loop | `main.rs` | owner of `App`; receiver of the events | `select!` over terminal events, network events and a timer; quits on Esc, Ctrl+C, `/quit` | manager, contacts file |
| Application state | `app.rs` | `peers`, `order`, `active`, `scroll`, `log`, `input`, contacts | `on_key`, `handle_command`, `send_to_active`, `cycle_active`, `apply_net_event`, `merge_duplicates` | UI loop calls it |
| Network manager | `network.rs` `run` | routing table `peers: PeerId -> line sender`, `next_id`, `inbound_rx`, `done_rx` | `Connect`, `Send`, `Disconnect`, `Shutdown`, an accepted stream, a finished task | connection tasks, UI |
| Accept task | `network.rs` `run` | the listener | accept, hand the stream to the manager; ends at the first error | manager |
| Connection task | `network.rs` `spawn_inbound`, `spawn_outbound`, `wait_or_closed`, `run_connection` | program counter, backoff, line receiver, stream, last-seen instant | dial, pump, answer pings, time out, wait, redial, end | Tor, UI, manager |
| Wire format | `wire.rs` | none | encode and decode a frame per line | connection task |
| Tor control | `tor.rs` | onion key, control connection | publish the service, watch, republish | Tor |
| Contacts, files | `contacts.rs`, `fsutil.rs` | a file | load, save, write private | UI loop, Tor |
| Rendering | `ui.rs` | none | draws `App` | UI loop |

What is hard here:

- **Interleaving.** The UI sees a connection through events; what the user does
  about it goes back through commands. Both lag. Events about one connection come
  from two senders, its task and the manager.
- **Identity.** An accepted stream is anonymous until its first message that carries an
  address. Only then can its conversation be recognised as the continuation of an older
  one, and the two are folded into one: history, roster entry and focus move. Nobody
  verifies the address: it is whatever the peer claims, and the next message may claim
  another (`src/README.md:196-199`).
- **Failure.** A connection breaks at any moment; an outbound task redials with
  backoff, dropping what was queued; an inbound one ends. There is no
  acknowledgement and no store-and-forward.
- **Ends.** A task is told to stop by dropping the sender of its line channel. It
  must notice this wherever it is.
- **Time.** Heartbeats and a deadline detect silent links; a write that blocks
  blocks them too, and a `/disconnect` with them.
- **Crashes.** Files are truncated and then written.

What makes each component correct:

- Channels: first in, first out; a vanished receiver stops nobody.
- Application state: roster and table agree; the focus never dangles and never
  slips to another identity, and the keys bring it everywhere; no line of history is
  lost, copied or moved to a conversation with another identity; what is shown catches
  up with the connections.
- Manager: a task that runs is reachable or was dropped by the user; a task that
  ended is forgotten; a line goes to the peer it was typed to.
- Connection tasks: a dropped one ends, unless a write holds it; a lost one comes back if
  its remote does; a loss is always shown; the backoff stays in its range and starts over
  with every connection.
- Whole program: lines typed to a peer reach its stream in order, at most once, and
  only that peer's.
- One connection, end to end: a silent link is given up, a living one is not, both
  ends of a link that is over end, lines arrive in order and at most once.
- Tor supervisor: the onion is published again after every loss of the control
  connection.
- Files and address book: the address outlives restarts and crashes; every change of the
  book is saved, or the user told that it was not; a name dials the onion it was given, however that was
  spelled.
- Rendering: a new line of the focused conversation is on the screen.

`PROJECT.json` lists the hazards at their lines.

## 2. Plan

In the order in which they were written:

1. `Message`, `App`, `Network`, `Hop6`: the messaging core, its invariants, action
   properties and liveness.
2. `Delivery` and `Hop6Delivery`: what the user is promised about typed lines, and
   that the core implements it. `DeliveryProofs`.
3. `SeqFacts`, `AppFacts`, `Hop6Proofs`, `RouteProofs`: type correctness, the roster,
   the routing table, the separation of conversations, the focus and the keys for every
   value of the constants.
4. `Link`: both ends of a connection, bounded buffers and a clock; it implements
   `Delivery` from end to end. `LinkProofs`.
5. `Files`, `Onion`, `Contacts`, composed in `Session`: what survives from one run of
   the program to the next. `SessionProofs`.
6. `View` over `Hop6`: what the chat pane shows. `ViewProofs`.

Left: a run in which two instances share the default files; the composition of `Link`
with `Network`, whose state space is out of TLC's reach at the bounds that matter.

## 3. The modules

### Message

`toUi` and `fromUi` are the channels of `main.rs:52-54`. `running` says that the UI
loop has not returned (its receiver exists), `serving` that the manager runs.
`Emit` and `Command` are the `let _ = tx.send(..)` of the code: to a dropped
receiver they do nothing. `serving` may be false from the start, because
`network::run` returns when it cannot bind its port, while the UI goes on.

Addresses are model values: `Onion` the services, `Address` their spellings with
or without `.onion`, `NoOnion` the empty string. `normalize_onion` forgets the
suffix. Status texts and `OwnOnionReady` change nothing modelled and are left out.

### App

One action per arm of `apply_net_event`, split where the code returns early
(`MessageLogged`, `MessageDropped`), and one per key or command that changes
state or sends a command. `merge_duplicates` is the whole method: `Stale` the filter,
`History` the concatenated logs, `Keep` the `retain` of the roster. Handlers
that only write a notice ("usage: ...", "is offline") are not actions. A log line
carries, besides its author, the connection it was exchanged on and its rank
among all lines logged (`at`, with the counter `logged`): history variables that
the properties read and no action does.

The Enter key acts on a complete line. The address book is in `Contacts`: the
application's handlers read it for labels only, and `/connect` resolves its argument
before the command is sent, so here `Connect` takes any address.

### Network

`tasks[p]` is the task of connection `p`: `dial` is inside `Socks5Stream::connect`,
`conn` in the `select!` of `run_connection`, `stuck` in a write of it that does not
complete, `wait` inside `wait_or_closed`. `lines[p]` is its line channel. The table `peers` of the manager owns the only sender of that channel, so
`p \notin routes` is both "not in the table" and "the channel is closed".
`inboundRx` and `doneRx` are the manager's other two inputs; of the first, only how many
streams wait in it, because a stream tells nothing about who dialed. `received` and
`hangups` are histories.

`tasks[p].onion` is the address an outbound task dials. Of an inbound task, which has none,
it is a history: the first identity its peer claimed. The program keeps that in the
conversation's entry only, which a fold takes away.

A step is what a task does between two awaits. Where the code takes several
such steps of which only the last has an effect another task can see, or whose
order nobody can observe, they are one action: a lost connection sends
`PeerError`, then enters `wait_or_closed`, which first drains the line channel without
awaiting (a `recv` on a ready channel), so `ConnLost` does both. `ConnWrite` takes a
line and writes it. `ConnStuck` begins a write that does not complete, of a line, a ping or
a pong: each is awaited inside its branch (`network.rs:272, 286, 297`), so the task does
nothing more, and in particular does not see its channel close, until the stream fails
(`ConnLost`), which nothing guarantees. A line taken but lost with the connection is
`ConnWrite` followed by `ConnLost`: `wire` is what was handed to the stream, not what the
remote read.

`select!` without `biased` picks any ready branch, so `WaitElapsed` is enabled next
to `WaitDrop` and `WaitClosed`, and `ConnRecv` next to `ConnWrite` and
`ConnLocalClosed`. Consequently a line queued during the wait may survive into
the next connection when the sleep ends first, and the comment at
`network.rs:230-232` describes the usual case only.

External: a dial may succeed or fail, a connection may break at any time, a remote may
dial in (`RemoteDials`), a write may hang, and each message carries any address out of
`Claim`: the sender's, another's, in either spelling, or none (`ConnRecv`). This holds for
dialed peers as well; theirs the program does not look at, because the entry has an
address already.

### Hop6

The composition, with the UI loop's steps leaving the network alone and
conversely: they meet only in the channels. It states the properties, because
each relates the two sides.

### View

`render_chat` is the chat pane of `ui.rs` as an operator on the state of `Hop6`: `visible` is
the slice of the log between `start` and `end`, both of them `saturating_sub`s, in lines;
the paragraph is then wrapped and drawn from its top row, so a line whose text is in
`LongBodies` takes `LongRows` rows, and what does not fit is cut off at the bottom. The
pane of the roster is left out: it lists the entries of `order` and marks the focused one, as
far down as the pane reaches.

### Delivery and Hop6Delivery

`Delivery` is the promise for one peer: an ordered, lossy, at-most-once queue that
accepts lines only while the peer is shown as connected. `Hop6Delivery` adds the
history `wire` and the mapping, for every PeerId: `pending` is the peer's `Send`
commands still in `fromUi` after the lines in its channel, `written` is `wire[p]`. What one
step of the program loses lies together in `pending` (the channel's lines when its task
ends or waits, the commands when the manager stops, one line that meets no route), so `Lose`
cuts one run out of it, not any subset.

### Link

`run_connection` at both ends of one connection. An end is in its `select` or in one
awaited write (`sending`, with the frame whose write it is). Each branch is an action:
`ReadFrame` (a chat line, a ping, which is answered, or a pong; each resets
`last_seen`), `ReadEnd`, `TakeLine`, `LocalClosed`, `Tick`; `Flush` and `WriteError` end
the awaited write. The essential point of the code is kept: the write is awaited *inside*
the branch, so while it is pending no other branch is polled.

`stream[e]` holds the frames `e` wrote that the other end has not read. Chat lines fill
it up to `Capacity`, heartbeats (a few bytes) do not, but their writes, too, wait
while it is full. The circuit may stall, die silently, or be broken by Tor with what is
in flight lost; a read then ends, a write fails. `wait[e]` is the time to the next tick of
the interval, with `MissedTickBehavior::Delay`; `silence[e]` is
`last_seen.elapsed()`, up to a cap above every comparison. Time passes only when no
loop has anything to do (`Idle`): a runtime polls in microseconds, intervals are seconds.

The connection is seen from the moment it is up. What precedes and follows it is
`Network`'s: there `ConnRecv`, `ConnWrite`, `ConnLocalClosed` and `ConnLost` are
what is left of these actions when frames in flight and time are forgotten.

### Files, Onion, Contacts, Session

`Files` is `write_private`: open with truncation, then write. Between the two the file is
`Torn`, and the process may fail or be killed there. The machine does not crash: nothing
is synced, so after a power loss nothing is promised and nothing is modelled.

`Onion` is `tor.rs`: the key file, `load_or_generate_key` (`LoadKey`, `GenerateKey`,
`OpenKeyFile`, `WriteKeyFile`), `connect_and_publish`, the supervisor (`Probe` that finds the
connection dead, `Republish`), Tor starting and dying, and the user deleting the key file,
which the documentation gives as the way to a new address. An attempt to publish that
fails is no step: it changes nothing. So is a start with a torn key file, which
the code refuses.

`Contacts` is the address book: the map in memory, its file, `/add`, `/remove`,
`contacts::load` with `main`'s fallback to an empty book, `/connect <name>`,
`display_name`. An address that a user types is a sequence of words (an id, the suffix, a
colon, a port, spaces), and `normalize_onion` is what the code does to it: trim, cut at the
first colon, strip the suffix. `display_name` is a set: two names for one address are in a
`HashMap`, and any of them may come first.

`Session` is `main` over many runs: `phase` is where it is between start and exit.
`Exit` is an error, quitting, a crash or a kill in any phase; it takes what was in memory, and
Tor tears the service down with the connection (`detach = false`). The supervisor
interleaves with everything after publication.

Histories that no action of the program reads: `announced` (addresses ever published since
the key was deleted), `meant` (which onion the user gave to a name, from what he typed;
after a save that was not completed or a load that warned of an unreadable file, what is
left) and `failed` (the last save failed or was cut off, or the file could not be read, and
nothing was saved since). No change of the book touches `failed`: a change that is not
saved violates `BookMatchesFile`.

## 4. What the runs check

| Run | Instance | Checks |
|---|---|---|
| `conversation` | 1 PeerId, 1 onion, 2 events and 2 commands queued, 2 lines typed, backoff 2..7, quitting and scrolling explored | `TypeOK`, `RoutesMatchTasks`, `DisconnectStops`, `Reconnects`, `NothingStuck`, `LossIsShown`, `NewestIsShown` |
| `reconnect` | 2 PeerIds, 1 onion claimed or none, 2 events queued, 1 message received on each | `ViewConverges`, `NoMessageLost`, `KeysReachEveryone` |
| `two_remotes` | 2 PeerIds, 2 onions dialed and claimed in 2 spellings, or none claimed, 1 typed line and 1 message received on each | `NoCrossTalk`, `HistoryConserved`, `FocusFollowsIdentity` |
| `inbound` | 3 accepted PeerIds, 1 onion claimed or none, 1 event queued, 2 messages each | `RosterConsistent`, `HistoryConserved`, `NoMessageLost` |
| `delivery` | 2 PeerIds, 2 lines typed | `ImplementsDelivery` |
| `ghost_online` | 1 PeerId | `OnlineIsBacked` is violated |
| `duplicate_stays` | 2 PeerIds of 1 onion | `DuplicateEnds` is violated |
| `chronology` | 2 PeerIds of 1 onion, 1 typed line | `Chronological` is violated |
| `redial_unstoppable` | 1 PeerId | `RedialCanBeStopped` is violated |
| `link` | 2 ends, 2 lines in all, buffers of 1 line, interval 1, timeout 2, stalls of 1 | `TypeOK`, `DeadlineKept`, `NoFalseAlarm`, `EndsWhenItShould`, `ImplementsDelivery` |
| `link_blocked` | the same, safety only | `SilentLinkDeclaredDead` is violated |
| `session` | 2 keys, 2 names, 2 onions with 8 spellings each | `TypeOK`, `AddressIsStable`, `BookMatchesFile`, `NamesAreRight`, `OnionComesBack` |

**Bounds.** `MaxPeerId` bounds the connections ever made; `IdLeft` guards the two
actions that ask for one, so the manager never runs out of ids. One is enough
for what concerns a single task; two for a fold (a live and a stale
conversation); three for a fold of several at once and for a fold after a fold.
`MaxEvents` and `MaxCommands` bound the unbounded channels by delaying the sender:
two events are enough for a hang-up's event to overtake or follow that of the
task. `inbound` queues one at a time: without commands, each connection's events come from
one task in order, and how those of several connections interleave is open all the same.
`Claim` is every onion of the instance in one spelling, and no identity; dialed onions
carry the suffix, so in `two_remotes` one identity comes in both spellings. The first text
of each author is a long one that takes two rows of the pane (`LongBodies`, `LongRows`),
the second is not, and panes of one to three rows (`Viewports`) are looked at. `MaxLogged`
bounds what the user types (not what is received), `MaxFrames` the messages received on
each connection, `MaxScroll` paging up. The backoff 2..7 makes doubling miss the cap
exactly, as 2..30 does in the code (2, 4, 8, 16, 30).

In `link` one line fills a direction, so two lines (both at one end, or one at each)
reach the cases of a blocked chat line, a blocked ping or pong behind it, and both ends
blocked at once. The timeout is two intervals, not the code's three: the
arguments below need that a stall and one interval fit in the timeout
(`LinkAssumption`), which is the weakest case. A stall longer than that is
indistinguishable from a dead circuit for the code, and is one (`Die`). `session` needs no
bound: its state is finite, any number of runs of the program follow one another. Two
keys show a key that is replaced, two names and two onions an address with two names and
a name given to another address.

Constraints prune the states after `/quit` in all runs of the messaging core but
`conversation` (their properties speak of the running UI). In `reconnect`, `two_remotes`,
`inbound` and `delivery` they also stop at a task that is stuck (`NoneStuck`): all a
stuck task ever does is `ConnLost`, which one in `conn` may do as well, and a line it took
for the write that hangs is lost, as `ConnLost` loses those in the channel; the properties
of these runs do not tell the two apart (`Up`), so no behaviour they could reject is missed.
What it means to be stuck is `conversation`'s subject. `two_remotes` is symmetric in the
remotes and checks no liveness; with one message on each connection, a second claim that
differs from the first is left to the theorem. `CHECK_DEADLOCK FALSE`: after `/quit` and the
end of the tasks nothing is left to do.

**Fairness** (`Hop6!Fairness`). Every task of the runtime is scheduled while the
process runs; `select!` picks among ready branches at random, so none is passed over
for ever; a dial ends, one way or the other, because Tor's proxy answers or times out; the
backoff sleep ends. A write is not assumed to end: `ConnStuck` may happen to any
connection that is up, and a stuck task need never leave that state. `DisconnectStops` and
`NothingStuck` name the exception, which is what the code does: a task that is stuck
neither ends nor drops what is queued behind the frame it writes. Branches that send an
event are given strong fairness, because the model's bound on the channel, which the code
does not have, may disable them now and then. The user and the remotes are owed nothing:
no fairness on keys, dials from outside, messages or losses. `Reconnects` has the premise
`ComesBack(p)`: dials tried for ever do not fail for ever. It is a premise of that property,
not part of the specification.

In `Link` a loop that can proceed is polled, time passes, and a stalled circuit delivers
again (one that does not is dead). `EndsWhenItShould` excepts an end that is for ever in
one write: that exception is real and is what `link_blocked` shows. In `Session` the
supervisor's probe is weakly fair (a timer) and its attempt strongly fair: while Tor is up
again and again, of attempts made every few seconds one meets it. Neither the
user nor Tor owes anything; `OnionComesBack` has Tor's being up for good and the
program's running on as its premise.

**What TLC found.** The passing runs show that the core keeps its promises in
the instances above. Five statements of the documentation are not what the code does:

- `OnlineIsBacked`: a `/disconnect` while the task dials; the dial then succeeds, the
  task announces the peer as connected and ends silently. The entry stays online and
  lines typed to it are dropped.
- `DuplicateEnds`: the fold runs once, when the identity is learned; if the old link is
  then still shown online, the duplicate remains.
- `Chronological`: the fold prepends, so lines of connections that were up together end up
  out of order.
- `RedialCanBeStopped`: a peer that never answered has no roster entry and cannot be selected to
  be disconnected.
- `SilentLinkDeclaredDead`: a line is taken and written, the next ping waits for room
  behind it, and the circuit dies silently. The loop is inside the write and never looks at
  its deadline again: the link looks connected until the operating system or Tor ends the
  stream. The task does not see a `/disconnect` either. The same happens on a
  working circuit when both ends wait in a write for the other to read: neither does.

Also noticed, without a run: a fold that moves the focus does not reset the
scrolling, so a view scrolled up on the old conversation does not follow the message
that caused the fold (`app.rs:415`, before `app.rs:423`). A crash while the contacts are
saved leaves a torn file, the next start warns and goes on with an empty book, and the
next `/add` writes that; the model has these steps and `meant` follows them, because the
program promises no more.

The chat pane counts lines and draws rows: a wrapped line pushes as many of the newest
lines off its bottom as it takes extra rows (`ui.rs:98-104`), which `NewestIsShown` excepts by
its premise. Paging up goes on past the top of the log, where the pane is empty and as many
pages down lead back; only typing, a message or a change of focus resets it. The roster is
drawn without an offset, so items below the pane's height, the focused one included, are
not on the screen (`ui.rs:75-76`). The program states nothing about any of these.

And: `message.rs:29-32` documents an end of file as
`PeerDisconnected`; the code sends `PeerError` for every loss.

## 5. What is proved

Every invariant, every action property and both refinements that the passing runs check
are proved for all values of the constants that satisfy the named assumptions.

**The messaging core.** `Hop6Proofs`, `RouteProofs`, `ViewProofs` and `DeliveryProofs`, over
`AppFacts` and `SeqFacts`, from `MessageAssumption`, `AppAssumption` and
`NetworkAssumption` (bounds are naturals, the empty string is no address, 0 < first
backoff <= largest):

- `TypeCorrect`: `Spec => []TypeOK`.
- `RosterIsConsistent`: `Spec => []RosterConsistent`.
- `RoutesAreRight`: `Spec => []RoutesMatchTasks`.
- `NoTalkCrosses`: `Spec => []NoCrossTalk`.
- `FocusNeverStrays`: `Spec => FocusFollowsIdentity`, an action property.
- `KeysAlwaysReachEveryone`: `Spec => []KeysReachEveryone`.
- `HistoryIsConserved`: `Spec => []HistoryConserved`.
- `ViewAlwaysConverges`: `Spec => []ViewConverges`.
- `NoMessageIsLost`: `Spec => []NoMessageLost`.
- `NewestAlwaysShown`: `Spec => NewestIsShown`, an action property, for panes of any
  height and long lines of any number of rows: with no wrapped line above it, the last line
  of the window stands in the row of its number, which is in the pane.
- `ProgramDelivers`: `DeliverySpec => ImplementsDelivery`, the refinement.
- `KeepFacts`: what `Vec::retain` on the roster returns: the kept entries, all of them, each once.

Neither of the first two is inductive alone. A fold concatenates the logs of the roster's
entries, so the type of a log needs the roster to name conversations; an event
of a task that dials carries `tasks[p].onion`, so the type of the events needs every such
task to have an address (`OnionKnown`, task by task `TaskOK`, which also says that an
accepted task never dials and that a connection that is up has its backoff reset). `Inv` is the conjunction, by parts of the state
(`ChannelTypeOK`, `AppInv`, `NetInv`); `UiEventInv`, `UserInv`, `AcceptInv`, `ManagerInv`
and `ConnectionInv` are the steps, one case per action.

`RoutesMatchTasks` needs two facts more (`RouteInv`): PeerIds not handed out have no
task, and whatever is in `doneRx` is a task that ended. Without the second, taking a
notice could unroute a task that runs; without the first, spawning could revive one
whose notice is on the way.

`NoCrossTalk` is about identities: the one that was dialed, or of an accepted connection the
first that its peer claimed, kept in `tasks[p].onion`. It adds two invariants. `TalkInv`:
every conversation carries the identity of its connection, or none; a `PeerConnected` on its
way carries it for a dialed one and none for an accepted one; and every line of a log was
exchanged over a connection with that identity, or over the log's own. It is preserved
because a PeerId keeps its identity once it has one (`Kept`): the manager spawns under fresh
PeerIds only (`FreshIds` of `RouteInv`), and no task changes its address. `NameInv` is needed
because messages claim what they like: an accepted connection's conversation is opened
once and before anything else is said of it, and until it has a name, the first claim still
on its way to it is the first its peer made. So the entry takes that one, although others
wait behind it. A fold then joins conversations whose addresses normalize to one identity
(`MergeTalk`); the same lemma says where the focus goes, which is
`FocusFollowsIdentity`. Neither theorem says who is behind an identity: a peer that claims
another's takes over its offline conversation, as the documentation warns.

`KeysReachEveryone` follows from the roster's consistency. `CycledAt` says what
`(cur + delta) % (len + 1)` does to a place in the list with the system log in front; a set that
holds the log and is closed under going on then holds every place, by the least one missed
(`TabReachesAll`), and one place on and one back is none (`OnAndBack`).

`HistInv` says of the lines in the logs that their ranks are exactly 1 .. `logged`, that two
of one rank are one line, and that no line stands in two places (`Apart`). A line logged
takes the next rank; a fold moves lines between logs without adding or dropping any
(`MergeLogs`, from `HistoryElements`). `HistoryConserved` counts places in the logs and
follows because ranks and places are in bijection.

`ViewConverges` speaks of a channel that holds nothing more about a connection. Its invariant
`ViewInv` says what the channel holds: the events about a connection, applied one after
the other to what is shown (`OnlineAfter`), end with "online" exactly if its task is up
(in "conn" or "stuck"), and every message among them is applied while its connection is shown online
(`Announced`). It excepts connections the user dropped, whose tasks end without a word,
and needs `ServeInv`: while the UI runs, a manager that does not serve never spawned
anything, and no command on its way asks it to stop. A fold may remove an entry, but only
one that is offline, so it changes nobody's "online".

`OrderInv` then follows the messages of a connection from `received` through the channel into
the logs. `ViewInv` is why none is dropped: `apply_net_event` ignores a message to
an entry that is not there, but a message finds its entry online, so there. `HistInv` is why
their ranks are in order.

`ProgramDelivers` takes each action to the run of `pending` it appends to, takes the
first of, or cuts (`SeqFacts` has the algebra: `FlattenConcat`, `Regroup`, `CutRun`).
`Inv` is all it needs: lines keep their order whether or not table, tasks and queues
agree, because each PeerId has one channel for good.

The library defines flattening a sequence by recursion over its length. `SeqFacts`
proves, from the least counterexample (`SegmentInduction`), that whatever holds of
the first segment and survives appending the next holds of the flattened sequence
(`FlattenInvariant`); `AppFacts` applies this to `Keep` (`Vec::retain`) and `History`.

**One connection.** `LinkProofs`, for every interval, timeout, capacity and number of lines
that satisfy `LinkAssumption` (a stall that is not a loss and one interval fit in the
timeout):

- `LinkTypeCorrect`: `Spec => []TypeOK`. `TypeOK` is inductive: that an end is in
  "sending" exactly while its slot holds one frame is what lets `Flush` take it.
- `HeartbeatDeadline`: `Spec => []DeadlineKept`, inductive with `TypeOK`: a tick that is not
  taken for silence is at most a timeout after the last frame, and puts the next one an
  interval later; time takes from `wait` what it adds to `silence`, and stops doing so
  only when the tick is due.
- `LinkDelivers`: `Spec => ImplementsDelivery`, the refinement from end to end, in both
  directions. `OneFrame` (an end that does not write has an empty slot) is all it needs
  besides the types.
- `NoFalseAlarms`: `Spec => NoFalseAlarm`, an action property. Its invariant `PulseInv`
  holds while the circuit works or stalls. An end either has nothing of the other to
  read, and then what it has been silent and what the other still waits for its next
  ping add up to at most an interval, or something is on its way to it, and its silence
  is at most an interval plus what the circuit has stalled. The exception is part of the
  invariant: both ends may be `Jammed`, each in a write that the other would have to
  read to make room. Then silences grow without bound, but neither loop gets to a tick,
  so neither raises an alarm.

**Runs and files.** `SessionProofs`, for any sets of keys, names and onions
(`KeyAssumption`, `ContactsAssumption`: the file markers are no keys and no books, the words of an
address are no names):

- `NormalizesToId`: each spelling of an onion normalizes to its id, by the sequence
  lemmas for trimming, cutting and stripping.
- `SessionTypeCorrect`, `AddressStable`, `BookSurvives`, `NamesStayRight`: the four
  invariants of `session`. The inductive invariant `SessionInv` adds: a key that is about to be
  published is on file, and one that is being saved is the first (`announced` is empty);
  a service exists only after publication; the running book is exactly what the user
  means, by ids, and the file is the same unless it is being saved or `failed` (`BookInv`). `NamesAreRight`
  follows from `BookInv` and `NormalizesToId`.

**Only model-checked.** The liveness properties, which rest on fairness and are out of this
prover's reach: `DisconnectStops`, `Reconnects`, `NothingStuck`, `LossIsShown`,
`EndsWhenItShould`, `OnionComesBack`. The five violated properties are counterexamples, for
which one instance is enough.

## 6. Not modelled

- The JSON of `wire.rs` and of the contacts file, the messages of Tor's control protocol,
  SOCKS: libraries do them. A malformed frame has the effect of a pong, and a notice.
- Texts: the system log, the status bar, `/help`, `/peers`, `/contacts`, `short_onion` (which
  cuts at a byte), titles and styles, the cursor.
- The roster pane and its height. (Wrapping in the chat pane is modelled, by rows.)
- Editing and splitting the input line: it is local, and Enter takes the whole line.
- Command-line parsing, environment variables, paths, directories and permission bits.
- The accept task's ending at an error: it may stop accepting at any time in `Hop6`, where
  remotes owe nothing; the program states no promise about it.
- Two instances on one machine that share the default files, and power loss.
- What of Tor is not its circuits, its control connection and its being up.
