# A TLA+ model of the substation automation system

This directory holds a verification project for the two halves of this
repository. The Lua daemons: an IED daemon (`sas/ied/engine.lua`) that measures,
protects and operates one bay, and a SCADA daemon (`sas/scada/engine.lua`) that
collects the points of all IEDs, keeps the alarms and serves the HMI. And the
Python tools that make their configurations: a generator that asks an engineer
about a station and writes it as an SCL document and a one-line diagram, and a
compiler from such documents to the files the daemons read. The project consists
of TLA+ modules translated from the code, TLC configurations that check them on
small instances, and TLAPS proofs of the main safety properties for every value
of the constants.

Paths below are relative to the repository; `ied`, `scada`, `sbo`, ... abbreviate
`sas/ied/engine.lua`, `sas/scada/engine.lua`, `sas/sbo.lua`, ..., and
`generator/` and `scl/` the directories of that name below `tools/scl-generator`
and `tools/scl-compiler`.

## 1. The system

### How it runs

Each daemon is one Lua coroutine world: an `event.timer` calls `engine.tick`
every `tickSec`, and everything happens inside that call, in a fixed order. There
is no preemption, but there is a clock that runs on during the tick
(`computer.uptime()` is read again and again, while some steps use the value read
at its start), there are blocking calls inside the tick (`Client:connect`), there
is a `pcall` around the whole body, so that an error skips the rest of the tick,
and there are other machines: IEDs talk to each other in unacknowledged GOOSE
datagrams, and the SCADA daemon to IEDs, and the HMI to the SCADA daemon, over
TCP connections that can be lost at any time. Nothing but the event history is
persistent; stopping and starting a daemon gives it new, empty tables and leaves
the outputs as they are.

The tools are programs that run once, on the engineer's machine, and end. What
is hard about them is not concurrency but the number of stations that can be
described: four layouts of a switchyard, taps of three kinds, names that nobody
compares, numbers that nobody relates, and derived data (who interlocks with
whom, who trips for whom, who has which address) that five different functions
must agree on, in a document that another program reads. And they leave files
behind, which outlive a run that died, a run for another station, and an edit
by hand.

### Inventory

| component | source | state | operations | behaviour that is hard | what makes it correct |
|---|---|---|---|---|---|
| select-before-operate | `sbo`, `ied` 213-226, 321-352 | reservation table: client, token, deadline per point | select, operate, cancel, sweep | delayed, repeated and out-of-date messages; two clock readings in one tick; a reservation used up by a command that then fails; a sweep that may be skipped | one command per selection, never on an expired or foreign one; nobody is pushed out; a selection always ends |
| output coils | `sas/io/redstone.lua`, `ied` 228-235, 696 | the coils, the table of pulses to clear | pulseStart, pulseTick, operateDouble, writeLevel | overlapping pulses, late ticks, failing components, restart | a pulse is neither cut short nor left on |
| GOOSE | `sas/proto/goose.lua`, `ied` 525-580 | publisher: burst step, next send; subscriber: last record per peer | markDirty, dueSend, receive, isStale | loss, repetition, reordering of datagrams; a sequence number nobody looks at; a change that is stored by a tick which then fails, a send that fails; contacts that show neither end, or both | a peer's change is sent at once and is learned in the end; silence is noticed, health is not mistaken for silence |
| interlocks | `ied` 237-287 | none of its own: reads points and the peers' records | interlockBlocks | a check against a remote state that may be out of date | bounded exposure to an outdated position |
| protection and remote trips | `ied` 289-319, 590-673, `sas/protection/*` | accumulators, latches, previous quantities | evaluateProtection, remoteTripCheck | a latch set although the trip was refused or failed; the time of a late tick; loss of good quality in the middle of a fault; two currents that are read one after the other | a fault that lasts trips; a latch trips once |
| reporting | `ied` 95-120, 434-523 | per subscription: pending refs, buffer timers; per point: last value, quality, time | pollPoints, deliverReports, deliverReportControlBlocks | dead band, recovered quality, buffer time, integrity refresh | a subscriber's copy converges |
| request/reply link | `sas/proto/mmsclient.lua`, `ied` 358-423 | request numbers, reply table, receive buffer, per client | connect, sendRequest, poll, popReply, popPush | ids that start again on every connection; replies that come after their time-out | a reply goes to its request |
| communication supervision | `scada` 59-92, 150-248 | per IED: client, modelId, subId, resyncId, connOk, lastAttemptAt, quality of points | connectIed, disconnectIed, pollIedClient, tickGoose, maybeResync | two ways to lose a connection, of which one skips disconnectIed; TCP and GOOSE lost separately; blocking reconnects | losses are alarmed within a bound, nothing lost is shown as good, recovery needs no operator |
| alarm list | `sas/alarms.lua`, `scada` 252-254, 360-363 | entries: active, acked | raise, clear, ack, evaluate | clearing and acknowledging in every order, occurrences that repeat | nothing vanishes unseen, nothing lingers for nothing |
| control relay | `scada` 330-354, 472-491 | pendingRelays | forwardControl, relayControlReplies | connection replaced while a call waits; time-out against late reply | every caller gets one answer, its own |
| HMI server | `scada` 360-470 | subscriptions, lists last sent | value reports, alarm push, history queries | a change that is stamped in another tick than the one that reports it | the HMI's copy converges |
| historian | `sas/historian.lua` | the current and the rotated files | append, rotate, query | a crash between two renames | no event is lost but by age |
| HMI application | `mineos/SAS-HMI.app/Main.lua` | its copy of the points, the control dialog | pollTick, select and operate dialog | an answer that comes when the dialog is gone; a connection that is never made again | no command but the confirmed one |
| data model, configuration, wire format | `sas/model.lua`, `sas/config.lua`, `sas/proto/framing.lua`, `sas/proto/messages.lua` | receive buffers | pure | partial frames | round trip |
| dialogue | `generator/wizard.py`, `prompts.py`, `naming.py` | the levels, transformers and two counters so far | one function per section, prompts that ask again | names and numbers that are valid one by one and not together | what is accepted can be written, and compiled |
| topology and derived rules | `generator/layouts/*`, `derive.py` | none | build, breakers_bounding, illustrative_interlocks, remote_trips_for | breaker-and-a-half and ring stations; disconnects put in afterwards | a trip isolates what it protects, and no more; interlocks are mutual and exist |
| SCL document | `generator/scl_writer.py`, the vendored schema | none | write, validate | things looked up by name | one address, MAC, APPID and adapter for each |
| one-line diagram | `generator/diagram/*` | none | render | places and sizes computed apart | every switch is shown once, visibly |
| SCL compiler | `scl/mapping.py`, `scl/private_ext.py`, `scl_compile.py` | none | map_ied, map_scada, compile | joins over IEDs, access points and templates | what a rule refers to exists |
| files of the tools | `generator/output.py`, `scl_compile.py` | the .scd, .svg and .cfg files | write, compile, `--check` | death between two files; stale files; edits | nothing lost unasked; `--check` tells the truth |

Who talks to whom: the HMI sends requests to the HMI server, which forwards
controls over the link of the IED concerned; the IED's `dispatch` runs the
reservation table, the interlocks and the coils; `pollPoints` feeds reports (over
TCP) and GOOSE (multicast); GOOSE feeds the interlocks of other IEDs, their remote
trips and the supervision of the SCADA daemon; the supervision and the readings
feed the alarm list. The dialogue feeds the topology, which feeds the document and
the diagram; the compiler reads the document back from disk; the configurations it
writes are the constants of the daemons' modules: rules of `interlocks` are what
`PeerInterlock` obeys, those of `remoteTrips` what `TransferTrip` does, the
retransmission ladder is its `Burst`.

## 2. The modules

Abstract specifications are marked with (A), modules with proofs with (P).

| module | models | composed of |
|---|---|---|
| `Sbo` | `sbo` as operators on a table | |
| `SelectBeforeOperate` | ticks, handlers and clock of the IED daemon around it | `Sbo` |
| `ControlReservation` (A) | what a control point promises to its clients | implemented by `SelectBeforeOperate` |
| `CoilPulses` | coils and pulses | |
| `PeerInterlock` | poll, publisher, network, subscriber and interlock for one point of one peer | |
| `CommandGuards_proof` (P) | | proofs about `SelectBeforeOperate` and `PeerInterlock` |
| `Alarms` | `sas/alarms.lua` as operators on a list | |
| `AlarmList` | the list under tickAlarms, built-in alarms and operators | `Alarms` |
| `AlarmLifecycle` (A) | the life cycle the header of `sas/alarms.lua` draws | implemented by `AlarmList` |
| `CommSupervision`, `CommSupervision_proof` (P) | one IED as the SCADA daemon supervises it | `Alarms` |
| `Overcurrent`, `Overcurrent_proof` (P) | one overcurrent scheme: accumulator, latch, interlock, output, Op point | |
| `TransferTrip` | a differential scheme and the breaker IEDs that hear its Op point | |
| `BreakerTrips_proof` (P) | | proofs about `CoilPulses` and `TransferTrip` |
| `IedLink` | request ids, replies, full reads and relayed controls across reconnections | |
| `ScadaDaemon_proof` (P) | | proofs about `AlarmList` and `IedLink` |
| `Switchyard` | the builders of the four layouts and of the LV side, and the derived interlocks and trips, as operators | |
| `Wizard` | the dialogue, one action per function or turn of its loop | `Switchyard` |
| `SclDocument` | the document of a station, and the constraints of the schema it can break | `Switchyard` |
| `SclMapping` | the compiler, from a document to configurations | `SclDocument` |
| `OneLineDiagram` | where the symbols go, and the size of the canvas | `Switchyard` |
| `Toolchain`, `Toolchain_proof` (P) | dialogue, document, schema, compiler and diagram in a row, and what must be true of the result | `Wizard`, `SclMapping`, `OneLineDiagram` |
| `Station_proof` (P) | | a station of usual answers compiles, and the diagram of a station fits on its canvas; continues `Toolchain_proof` |
| `OutputFiles`, `OutputFiles_proof` (P) | the files, under runs of both tools that may die, and edits | |
| `MC...` | the values of structured constants | |

Definitions whose comment begins with "Variant:" are not part of the system. Each
is a plausible mistake in the definition of the same name, kept to show that the
properties tell the code from it. Where one module has the proofs about two components,
the definitions of the second carry its name (`PeerInit`, `LinkNext`, `CoilTypeOK`).

### Correspondence with the code

* *Ticks.* Where the time within a tick matters (`SelectBeforeOperate`,
  `CoilPulses`) a tick is a StartTick, any number of handler steps and an EndTick,
  with the clock free to advance between any two; `tickNow` is the local `now`.
  AbortTick is the `pcall` that catches an error before the end. In `IedLink` the
  variable `phase` says whether a tick is at `tickIeds` or at the HMI clients, and
  `RelayReplies` closes it. Elsewhere a tick is one action.
* *Requests.* `SelectBeforeOperate` does not model connections: in any tick a
  client may present any token it was ever given, to any handler. That covers
  delay, repetition and reordering of requests. The client identity is the one in
  the request, as in the code.
* *Time* is the clock value where deadlines are stored (`expiresAt`, `resetAt`),
  and an age or a countdown where the code compares a difference with a limit
  (`isStale`, `nextSendAt`, `lastAttemptAt`). Ages stop one past the largest limit
  they are compared with, which no decision can tell from going on.
* *Positions.* `readDouble` has four answers, "open", "closed", "intermediate" (neither
  contact is on) and "bad" (both are), all of them values of good quality to
  `pollPoints`, and it fails only when the component does. It asks for one contact
  after the other, so that a breaker that moves meanwhile is read as what `ReadDouble`
  makes of the contacts before and after. Who closes a breaker on another asks whether
  that one is "closed", nothing else.
* *A tick of IED B* polls and publishes in one action of `PeerInterlock`, unless an
  error ends it (TickAborted): then nothing is published, and what the poll stored, if
  it came to that, is no change any more for the next tick. A send the network refuses
  (`sent` is FALSE) moves the schedule on all the same, as `publishGoose` only logs it.
* *GOOSE.* A datagram is what a subscriber makes of it: the value of the position,
  or "unknown" when its quality is not good. `stNum` and `sqNum` are left out
  because no code reads them after they are recorded. Every datagram carries the
  whole data set, so that of all that is drained in one call the last decides.
* *Lost connections.* A connection dies "broken" (the receive in `Client:poll`
  reports it, `tickIeds` calls `disconnectIed`) or "dead" (`isConnected` is false
  already when the tick begins, or a send has failed, and `tickIeds` goes straight
  to `connectIed`). The code treats them differently, and so do `CommSupervision`
  and `IedLink`.
* *The control command itself.* `SelectBeforeOperate` follows it to `sbo:operate`, which
  accepts or refuses it. An accepted one may still be blocked by an interlock or fail at
  the redstone component; the reservation has been used up by then and nothing gives it
  back, so that all of these are one action (OperateAccepted) and count alike. What
  drives the coil is `CoilPulses`, what blocks is `PeerInterlock`.
* *Protection.* `Overcurrent.Evaluate` is one pass of `evaluateProtection` over one
  scheme: the reading fails or not, the interlock blocks or not, the output works or
  not. The curves are the constant `TripTime`, and the accumulator counts in parts of
  `Full`, chosen so that every share is whole: the rounding of floating-point
  numbers is abstracted. `Share` is 0 when the trip time is, as in `if total and
  total > 0`. In `TransferTrip` a tick of the transformer IED reads the two currents in two
  actions, in either order (`pairs` has none), and they may change in between; then it
  evaluates the scheme and publishes, or an error ends it before either. A drain leaves the last of the datagrams that
  arrived, or what was there before; the datagrams under way are a set of values
  that only shrinks by itself, so that any of them may come twice, late or never.
* *The tools.* A run of the dialogue is a behaviour of `Wizard`: a prompt is the set
  of answers it lets through, with the answer an engineer usually gives and, up to
  `MaxOdd` times in a station, another one. What the pure functions of the tools
  compute is in operators that have the names of those functions, and the invariants
  of `Toolchain` are about what they return for every station the dialogue can reach.
  A name is `<<stem, number, suffixes>>` with a sequence of suffixes, so that "CB3" with
  "DA" appended is `<<"CB", 3, <<"DA">>>>`, a name too, and names that collide after a
  suffix can be told; the elements of a list that pass a test are those at the places
  where it passes (`Chosen`, `At`), and a walk is `Reached`, the least set of nodes that
  the links do not lead out of; lengths are in sixtieths of a pixel and times
  in milliseconds, so that both are whole. `SchemaValid` has the
  constraints of the vendored SCL schema that a generated document is able to break:
  names that must be unique, the decimal voltage, and the 32 characters of a control
  block's name, which a name of 30 (a stem in `WideStems`) exceeds with its prefix. A MAC
  address is a prefix and a number; the two prefixes that matter are that of GOOSE, which
  is typed, and that of sampled values, which is not.
* *Files.* In `OutputFiles` a document is an opaque record with the outcomes that
  `Toolchain` computes (writing raises, the schema takes it, the mapping takes it) and
  its IEDs. A file is none, torn, edited or the text of a document; every write is a
  step, and `Crash` may come before or in the middle of it. People edit and delete
  files at any moment, between two steps of a tool too.
* *History variables* (named so where they are declared) record what the
  properties speak about and are read by no guard, except for the bounds.

## 3. What is checked

Every run ends in a few seconds to about two minutes, the one of `Toolchain` in about
three. Deadlock is not checked in any
run: all specifications may stop, if only at the bound of the clock or of the runs.
The type invariants are not part of the runs: where a module has a proof module, its
TypeOK is a theorem there. `ToolInv` is the one of `Toolchain` (see section 4).

| run | constants | shows |
|---|---|---|
| `sbo` | 2 clients, 1 point, 2 salts, time-out 2, clock to 3, 2 selections each | one command per selection, also when the command fails afterwards; no command on an expired selection; `ControlReservation` is implemented; every selection ends |
| `coil` | pulse 2, clock to 6 | only a failed write or a restart leaves a coil energised with nothing to clear it; no release before a pulse is over; every pulse ends unless its clearing was lost |
| `interlock` | burst <<1>>, heartbeat 3, limit 2, ticks up to 2 apart, delay up to 1, everything may be lost, repeated, reordered, restarted, and every reading, send and tick may fail | a close command meets contacts that have shown "closed" for at most limit + delay; a change is sent in the tick that stores it, if that tick comes to its end; a resting position is learned |
| `alarm` | 2 condition alarms, 1 built-in alarm | nothing vanishes unseen, nothing lingers; `AlarmLifecycle` is implemented |
| `comm` | reconnect interval 3, limit 2, ticks up to 2 apart | the COMM alarm is true, and late by an interval and a tick at most; a good point was heard; recovery |
| `link` | 2 calls, 3 connections, full read every tick, one read per connection, relay time-out 1 | no caller gets another call's answer; every call is answered |
| `overcurrent` | trip times 6, 4 and 3, rest 3, `Full` 12, ticks up to 2 apart | decided neither too late nor too early; one pulse, and Op says so; a lasting fault is decided on |
| `transfer` | 2 breaker IEDs, 2 values of each current, minimum pickup 1, slope 80 % | a remote trip comes from a fault, or from currents that changed between two reads of one tick; it happens once; a fault that lasts reaches every breaker |
| `wizard` | 4 taps, 2 levels, all layouts, lines and transformers, one unusual answer: a name already used, one of 63 characters, one that is no IED name, one of 30, a voltage of 3 or NaN, the number 12, the MAC prefix of sampled values | the derived interlocks are the documented ones and the trips isolate; usual answers compile; rules and alarms are about what exists; bursts slow down; identities are distinct where the answers leave them apart; the diagram shows everything |
| `files` | 5 stations (good, changed, refused by the schema, raising, another stem), 2 edited documents, 4 runs, 1 edit | nothing is overwritten unasked; drawing and document agree; `--check` and compilation say what is so |
| `link_timeout`, `overcurrent_zero` | as above | see Findings |

### The bounds, and why they are enough

* `sbo`: time-out 2 and clock 3 let a reservation be granted, renewed one step
  later, contested, outlived by one step and swept with an old `tickNow`. Two
  selections per client are the least for an old token to meet a new reservation of
  the same client, two salts the least for tokens to differ within one clock step,
  and the single salt drawn twice makes them equal. `MaxTime` guards Select
  (`now + Timeout <= MaxTime`) so that every reservation that is granted is also
  seen to expire. The theorems need none of these bounds.
* `coil`: clock 6 holds three pulses of length 2 in a row, or pulses that overlap in
  every possible way. Commands stop one pulse before the bound, so that each pulse
  can be seen to end.
* `interlock`: the smallest instance in which a burst ends before a heartbeat is
  due, a tick is late, a datagram arrives after a later one or is repeated after a
  restart, and an age can pass the limit. A limit below the heartbeat makes a healthy
  peer stale now and then, which PeerLearns has to live with.
* `comm`: an interval longer than a tick, so that attempts are skipped, and a limit
  shorter than the interval, so that GOOSE is missed before the next attempt.
* `overcurrent`: three trip times that all divide `Full`, as the module assumes, let
  the current wander between levels; the quickest is longer than the longest tick and
  the slowest three times as long; the rest is longer than the longest tick, so that the
  accumulator is caught half empty.
* `transfer`: with two values the currents are equal or they are an internal fault, at
  one moment or between two reads; two breakers hear different things at different times.
  The properties speak of the outcome of the comparison alone, so that a difference that
  the slope restrains would only be one more way of not being a fault; the theorems
  cover all currents.
* `link`: three connections let the ids of one repeat on the next while relays of
  both wait; one read per connection is enough to leave an id behind. Two calls
  are needed for one to get the other's answer.
* `wizard`: four taps give two diameters, rings of three and of four, a transformer
  beside a line in every layout, and two levels of which either is the higher; one
  unusual answer at a time is enough for a name to meet each other name, and for a
  number to be out of order with its default. The breaker "CB1" and the line "Tap1" are
  typed where another name was expected. The number 12
  makes the ranges of breakers and transformers meet as a host, cuts the burst down to the
  one interval of a MinTime that is longer as MaxTime, and lets the ladder run up to its
  cut as MinTime. The prefix of sampled values makes the two kinds of publishers share
  MAC addresses. No APPID base in the run reaches the APPIDs of sampled values; the
  property excepts that case, and the theorem covers all bases. Feeders are like lines to every function
  modelled but for the symbol they are drawn with. No layout treats the fifth tap
  differently from the third, but the sizes in the diagram are another matter: see
  Divergences.
* `files`: with four runs one can generate, die, generate another station of the same
  name and compile or check; one edit comes at every moment of these. The theorems
  need no bound.

### Fairness

Safety runs use the specification with fairness attached, which changes nothing
for invariants and action properties; each liveness property uses only this:

* `SelectionsEnd`: the clock does not stop. Not even ticks are needed.
* `PulsesEnd`: the clock does not stop, ticks start, and of the ticks that end
  infinitely many end with all their writes done. `event.timer` repeats for ever
  and the `pcall` keeps an error from ending it. Strong fairness is needed because
  a tick may always end in an error instead: an error that comes with every tick
  for good does stop `pulseTick`.
* `PeerLearns`: time passes and IED B goes on ticking, however its ticks end (a weak
  fairness: `event.timer`). If a datagram is due again and again, infinitely many of the
  ticks that find it due read the contacts, come to their end and get it out; and IED A
  receives infinitely often if there is something to receive. A tick that fails for good
  and a network that loses everything deliver nothing; ticks and a network that succeed
  now and then are the least one can ask. The premise of the property says that the
  position rests and that the daemons run on.
* `Recovers`: time passes and ticks come; the reply to get-model is found by some
  tick. A tick is followed by a tick at most MaxTick later (the bound on the sum of
  `tickSec` and the time blocking connects take).
* `EveryCallAnswered`: both parts of a tick are reached again and again. The IED and
  the network may do nothing at all: then the relay's time-out is the answer.
* `LastingFaultTrips`: time passes, and infinitely many evaluations find a reading; the
  premise says that the current stays above pickup and the daemon is not restarted.
* `FaultReachesBreakers`: the transformer IED goes on ticking. Infinitely many first reads
  of a tick succeed, of the second reads that follow one infinitely many do, and of the
  ticks that have both infinitely many publish; infinitely many drains of each breaker IED
  end with the latest value and without an error. Between them everything may be lost. The
  premise says that the currents rest in a fault and that no daemon is restarted.

## 4. What is proved

TLAPS checks, for all values of the constants that satisfy the named assumptions:

* `CommandGuards_proof`, about `SelectBeforeOperate`: TypeOK, OneCommandPerSelection and
  CommandsFresh are inductive together with ReadingsPast (no token comes from the
  future, and the tick's time is not ahead of the clock) and ReservationsGenuine (a
  reservation has the point, the client and the deadline its token stands for), which is
  what CommandsFresh rests on: a reservation that is live was made less than one
  time-out ago.
  OneCommandPerSelection counts an unused reservation as unspent, which makes it
  inductive; lemmas on `Sbo` show that everything but select only removes entries.
  On top, NeverHandedOver and the refinement of `ControlReservation`, step by step.
  About `PeerInterlock`: the window. The argument follows a piece of news: whatever
  is not "closed", and is false now, was read when the contacts did not show "closed" or
  came to show it in that very tick, so that they have shown it for no longer than the
  datagram is old (NewsInNet), and then for no longer than the delay and the silence
  together (NewsHeard). A repeated or reordered datagram is covered because it keeps its
  age, an aborted tick and a failed send because they put no datagram under way.
  BoundedExposure assumes a rule without failOpen, and PromptChange holds for every
  schedule.
* `ScadaDaemon_proof`, about `AlarmList`: the history of unseen alarms is a function of the list, and no
  entry is acknowledged and inactive at once (that is what makes "Raise hands on
  the acknowledgement" harmless). Every call moves every entry along one of five
  edges (EntryMove), which gives the refinement of `AlarmLifecycle`.
  About `IedLink`: a client object uses an id once (IdsFresh), a relay is of the client
  object it was sent with (RelaysMatch), and what waits in a reply queue answers the
  request of that id (RepliesServed). From these AnswersTrue follows for any number of
  calls and connections: a caller never gets the answer to another one's command.
* `CommSupervision_proof`: AlarmInv bounds the time of a loss by the case the entry
  is in: with no connection object or one that is noticed at the next receive, by
  the time since the last tick; with a dead one, by the time since the last attempt.
  GooseInv does the same for the age of the last datagram.

* `Overcurrent_proof`: the two bounds multiply the accumulator by a trip time. NeverLate
  says that for every q no smaller than any trip time, accum * q is at least `Full` times
  the time above pickup up to the last evaluation; NeverAhead that for every q no larger
  than any trip time, accum * q is at most `Full` times the longest interval times the
  readings above pickup since the last full rest (Rested connects the rest with what is
  left). The quantifier over q spares naming a slowest and a quickest level, so that
  there may be infinitely many. TimelyTrip needs every trip time to be positive, which
  is what `overcurrent_zero` is about.
* `BreakerTrips_proof`, about `CoilPulses`: StuckOnlyByFault is inductive with the type;
  the release property needs in addition that `tickNow` is not ahead of the clock.
  About `TransferTrip`: wherever "operated" is, in the scheme, under way or in a record,
  there has been a fault, or the scheme has operated in a tick in which the currents
  changed between the reads (NewsGenuine). What makes this inductive is ReadingsAgree:
  in any other tick the first reading is still what flows when the second is taken, so
  that the two are of one moment. A rule that is not latched has not pulsed.
* `OutputFiles_proof`: the three invariants together with the type and three facts about
  the tool under way: which files it can have spoilt by now (Busy), what the generator
  has agreed to and written (Making), and that of the document that is being compiled
  every IED before the next one has its text already (Compiling). The last is what makes
  CompiledIsUpToDate inductive: files torn by earlier runs are written over one by one,
  and under the proviso that no two IEDs share a file none that is done is written again.

* `Toolchain_proof`: what the dialogue builds, for any number of taps, levels and
  transformers and any answers. The inductive invariant `ToolInv` says that every level
  is one of the four layouts built from taps its builder does not refuse, with breakers
  numbered from somewhere on; that a transformer hangs on a tap of a level that exists; that
  the document is the one the station makes, and the configurations those the document
  makes. On top of it:
  * BurstsSlowDown: every ladder that reaches a configuration starts at MinTime and rises
    (a function of MinTime and MaxTime alone). Where MinTime is below MaxTime no interval
    outlasts the heartbeat, which is MaxTime; where it is not, the ladder is the one
    interval MinTime, which may;
  * NoSharedIdentity: the schema has looked at names, and MAC addresses and APPIDs are
    functions of the place in the document, of GOOSE counted over breakers and
    transformers, of sampled values over transformers. Two publishers of one kind always
    differ. One of each kind differ in MAC address if the prefix that was typed is not
    that of sampled values, and in APPID if the two ranges do not meet (AppidsApart);
  * ScadaSeesStation: the points, alarms and connections of the SCADA daemon, part by part
    of the document (breakers, transformers, substation);
  * RulesFindTheirEnds: both ends of an interlock or a remote trip are IEDs of the document,
    because `derive` chose them from the breakers of a level, and each breaker has one;
  * TripsReachTheirBreakers: the surroundings of a tap, walked through disconnects, are the
    tap, its exit and one isolating point of each breaker built beside it, and the least
    closed set is exactly that; the breakers with an end in it are the ones OpenedFor
    names; with these open no node but these is reached from the tap. This is argued
    layout by layout (RingBusYard, BreakerAndHalfYard and their two companions);
  * PairsAreDocumented: a level takes its breakers in a known order, so that the numbers
    OpenedFor names are those of the breakers built beside the tap; layout by layout
    these are the ones the table of the documentation gives. Taps are added one by one
    or two by two, and the pairs of a breaker-and-a-half are those of the odd taps;
  * DocumentsCompile: no document the schema has taken is refused by the mapping,
    whatever the names in it: each device that publishes is a plain one, its access point
    is found, and its peers are IEDs of the document. This is the first half of
    UsualAnswersCompile;
  * UsualAnswers, in `Station_proof`: the other half, that a station of usual answers is
    never refused. It needs two invariants more. NumberInv bounds the numbers of the breakers level by level,
    so that no two levels share one. UsualInv says what was built while every answer was
    the usual one: levels and taps named after their places, transformers after a number
    that was free. From these follow all the uniqueness constraints of `SchemaValid`: the
    names of IEDs and access points, of levels and transformers, of the bays of each layout,
    and in a bay those of the breakers, of their disconnects, and of the nodes; and the
    names of control blocks are short, being made of "XFMR" or of nothing. The theorem
    assumes that the voltages usually typed are numbers (UsualNumbers): "nan" is the answer
    the schema does refuse, and counts as an unusual one in the run;
  * DiagramDrawn, in `Station_proof`: DiagramFits for any number of levels and
    transformers, of any layout and number of taps, whenever the drawers have room
    (SmallDrawing: at most seven taps in a ring, at most eight outputs of a transformer;
    beyond these the code draws diagrams that do not fit, see Divergences). Each device of a level has a key, which is a breaker's
    number or a tap's with what it is of it; the list of devices and the symbols a
    drawer makes are both shown to be in one-to-one correspondence with the keys, so that
    each device is shown as often as it is listed and nothing else is (KeyedLevel,
    ShownWhenPlaced). Places of different keys differ by more than the symbols'
    sizes in x or in y: columns and diameters are a pitch apart, the disconnects of a
    breaker are above and below it, and along a ring the symbols have distances of
    tenths of a segment. The sizes of strips, band and canvas are then arithmetic, and
    the ranks of the levels are a permutation, so that strips are apart. Symbols are
    compared within a level and within a transformer. Transformers share one band, and
    of two of them the theorem says that their switches are apart if their taps are (not
    in a ring) as far apart in x as their outputs stand out to the sides, and one switch
    more (FansApart, FansClear). Nothing in the drawer keeps closer ones apart: see
    Divergences.

  The lemmas are on the operators these rest on: `FlattenSeq` and `At` (what is in the list,
  where, and how long it is), `Reached` (closed and least, by well-founded induction on the
  finite subsets of the nodes), the builders, the document and the mapping. TripsIsolate
  and RulesResolve leave out names the compiler takes for a boolean, and IdentitiesDistinct
  names that differ in case only, in its part about adapters: see Divergences.

Assumptions: the constants have their types (naturals, sets, a bound that is not
zero; voltages are whole numbers or `NaN`; MAC prefixes are strings), model values for
"nothing" are not members of the sets they extend, and neither the empty stem nor "XFMR",
the stem of the names the dialogue offers, is one of 30 characters (WideAssumption). Nothing else is assumed, but for what a theorem names
as its hypothesis: UsualNumbers, SmallDrawing. Every invariant and every action property
of the passing runs has its theorem; what is only model-checked is liveness (fairness is
beyond the prover).

## 5. Findings

Where a comment or the README of the repository says something the code does not do:

* `link_timeout`: `disconnectIed` and `connectIed` leave `resyncId` in place although
  the ids of the new client start at 1. When a control request of the new connection
  gets that id, `maybeResync` takes its reply, and the operator is told of a time-out
  of a command that was carried out. (As long as no request gets it, `maybeResync`
  waits for it and no full read follows the reconnection.)
* `overcurrent_zero`: `ptoc.validate` accepts `definiteTimeSec = 0`, and `ptoc.tick` takes a
  trip time of zero for none, so that an instantaneous scheme never trips.

### Divergences

Seen in the models, and not the subject of a run:

* The GOOSE alarm, and the marking of points as stale, depend on `connOk`
  (`scada` 239), which the loss of TCP has reset (`scada` 89). The runbook (`README.md`
  433-434) expects the GOOSE alarm after the COMM alarm, and
  `etc/sas-scada.cfg.example` 26-27 announces it without condition; it comes only when
  TCP stays up.
* `scl_compile.py --check` asks to run the compiler without `--check` when output is
  out of date (line 88). A stale file of an IED that has gone makes it fail, and
  compiling again does not remove that file.
* Two IEDs whose names differ in case only have one file between them (`scl_compile.py`
  36), where `tools/scl-compiler/README.md` 31 promises one for each.
  CheckTellsTruth and CompiledIsUpToDate exclude such documents.
* The same README says of the SCADA IED that there must be exactly one; `map_document`
  refuses a second one and takes none.
* The prompts promise to ask again "rather than crashing" (`generator/prompts.py` 1-2).
  A transformer name of 63 or 64 characters is taken, and raises when "LV" has been
  appended; "nan" passes as a voltage, and raises when the alarm limit is rounded, if
  there is one, or else is refused by the schema.
* The default hosts of breakers (from 11) and transformers (from 20) meet in a station
  with ten breakers and a transformer; then two IEDs get one address. ScadaSeesAll
  excludes this.
* A transformer named "true" or "false": `_coerce_bool_or_str` (`scl/private_ext.py` 35-39)
  turns the name in `peerIed` into a boolean, and no breaker ever hears its trip.
  TripsIsolate and RulesResolve exclude such names (`Readable`).
* A rule that blocks on "closed" blocks neither on "intermediate" nor on "bad": `readDouble`
  calls the second "an inconsistent/faulted state" (`sas/io/redstone.lua` 31-32) and
  `pollPoints` stores it as a value of good quality. Close may be accepted for as long as
  the contacts of the peer show either; ExposureBounded counts the time in which they
  have shown "closed".
* The news of a change lives for one tick. An error between the poll and `publishGoose`
  (`ied` 445-692) loses it, and the peers hear of it by the next heartbeat only;
  `publishGoose` counts a send that failed as one that was made (`ied` 547-550).
  ChangeSentAtOnce is about the ticks in which neither happens.
* The differential scheme compares currents that were read one after the other
  (`ied` 440-456, `sas/io/meter.lua` 44). A load step between the two reads is a
  difference, and the scheme has no delay: it operates and trips the breakers, although
  the transformer has no fault. RemoteTripJustified names this as the one other cause.
* With MinTime at or above MaxTime, both of which the dialogue takes without comparing
  them, `_map_goose` makes a burst of one interval, MinTime (`scl/mapping.py` 216), and the
  first repetition after a change comes no sooner than a heartbeat would, and later if
  MinTime is the greater.
* The sampled values of transformers have fixed MAC addresses 01-0C-CD-04-00-.. and APPIDs
  from 4001 (`generator/scl_writer.py` 260-265). Whoever types this prefix, or an APPID base
  whose range meets theirs, gives two publishers one address or one APPID, and nothing
  complains. IdentitiesDistinct excludes both. (A typed prefix that continues this one by
  digits, "01-0C-CD-04-00-1", can meet it as well, with more than a hundred transformers; in
  the model it is another prefix.)
* A transformer name of 30 characters or more is taken by the prompt and makes names of
  control blocks, "rcb..." and "svc...", that the schema refuses (32 characters, vendored
  `SCL_BaseSimpleTypes.xsd` 140-144): the document is written and reported as invalid.
* Transformers are placed sixty pixels right of their taps, in one band, and are not kept
  apart (`generator/diagram/draw_transformer.py` 12-16 says so): two on the two taps of one
  diameter are drawn exactly on top of each other, and neighbours in a single bus overlap
  once their outputs reach as far. DiagramFits compares two transformers only where
  FansApart.
* A ring of eight taps or more is higher than its strip in the diagram, and nine LV
  outputs of the leftmost transformer reach beyond the left edge. DiagramFits is checked
  and proved for less.

Some more limits of the code are visible in what the properties do not say.
ReleasedWhenDue speaks of *a* pulse that is over: `pulseTick` clears a coil with the
first entry that is due, so that two commands on one coil within `pulseMs` end with the
first pulse. StuckOnlyByFault lists the faults: a clearing write that fails is dropped
all the same, and a daemon that is restarted during a pulse forgets it; the coil then
stays energised until the next command on it. And OpTellsTheTrip does not say that a
latched scheme has tripped: a trip that was blocked or whose output failed is not tried
again.

## 6. What is not modelled

Reporting, the historian and the HMI (next section). Distance protection
(`pdis`) is inert in the code: it logs its configuration and keeps no state. Not
planned: meters (they keep no state a property could be about), command
line and start scripts (start and stop are the Restart actions), validation of the
configuration by the daemons (its refusals are the assumptions on the constants). Left
out of the modules there are: times and texts of alarms; several peers and several IEDs
(they do not influence each other except through the length of a tick, which is a
constant); the byte level of connections (messages arrive whole and in order, or not
at all). Of the tools: descriptions, labels and lines of the diagram, the text of SVG,
XML and Lua (`svg_primitives.py`, `codegen.py`), settings that are only handed on, what
the schema demands beyond `SchemaValid` (the forms of names and numbers, which the
prompts ask for, and of values that are handed on as they were typed), and of
hand-edited documents everything but the three outcomes in `OutputFiles`.

## 7. Plan

The order was: what can operate a breaker wrongly first (reservation, coils,
interlock, protection), then what tells the operator the truth (alarms, supervision,
link), then where the configurations come from (topology, document, compiler, files).
What could follow:

1. `Reporting`: pollPoints with dead band and integrity refresh, subscriptions and
   report control blocks with trigger options and buffer time, the order in which
   pollIedClient applies replies and reports. Abstract specification: a subscriber's
   copy that converges to the point.
2. `HmiControl`: the control dialog and the HMI side of the relay on top of
   `IedLink` and `Sbo`: an operator's confirmation leads to at most one command.
3. `Historian`: append and rotation as steps on a set of numbered files, a crash
   between any two of them.
4. `Framing`: the receive buffer of `sas/proto/framing.lua` against the sequence of
   frames that were sent, however the stream is cut.
