# Specifications of mtr-rs

mtr-rs traces a network path: it sends probes with growing TTLs and shows, per
hop, who answered, how fast and how often nobody did. The program is two
processes. `mtr` (the client) decides what to probe, keeps the figures and shows
them; `mtr-rs-packet` (the helper) owns the raw sockets, sends what it is told
and reports what comes back, one line per probe. This directory holds TLA+
modules of both, TLC configurations that check them on small instances, and
proofs that TLAPS checks for every instance.

## The system

| component | state | operations | hard behaviour |
|---|---|---|---|
| `mtr-core/engine.rs` | hops, token slots, token counter, cursor of the current cycle, completed cycles, grace timer, paused, configuration | tick, helper responses, user actions, end of transit | answers late, repeated, out of order; tokens that wrap; edits in the middle of a cycle |
| `mtr-core/hop.rs`, `history.rs`, `stats.rs` | counters, recurrences, responders, ring of recent probes | send, reply, timeout, send failure, reset | the ring evicts while older probes are open; Loss and Drop leave out a probe in flight; every figure rounds on each reply |
| `mtr-packet/lib.rs`, `probe_table.rs` | outstanding probes, sequence numbers, stream sockets | receive, read, expire, dispatch, flush | a reply racing its timeout; sequence numbers that wrap; errors of several syscalls |
| `mtr-packet/command.rs` | the 4096-byte command window | push, take_lines | lines split over reads, overflow |
| `mtr-packet/backend/unix/`, `privs.rs`, `mtr-proto` | shared sockets with their options, error queues, privileges | construct, send, match, report | an answer names no probe; a socket keeps what the probe before needed; errors of one probe surface at another |
| `mtr/helper.rs`, `driver.rs` | two bounded channels, two pipes, the next deadline | writer and reader task, select loop | everyone waiting for everyone; helper exit |
| `mtr/resolver.rs`, `names.rs`, `asn.rs` | bounded channels, eight permits, pending marks, answers | request, look up, deliver, drain | back-pressure; the drain's deadline; toggles while lookups run |
| `mtr/lib.rs`, `target.rs` | targets, exit status, JSON documents | preflight, one run per target | one target of several failing |
| `mtr/cli.rs`, `config_file.rs`, `options.rs` | option layers | merge, validate, save | precedence of defaults, file, environment, command line |
| `mtr/tui/` | selection, scroll, tab, zoom, prompt, frame throttle | keys, events, drawing | selection while hops appear and vanish; frames that must catch up |
| `mtr/tui/render/`, `mtr/emit/` | none | what a frame and a report show | several views of the same hop that are computed from different positions |
| release tooling, man pages, completions, fuzz targets | none | | none that a model would show |

The engine is a pure state machine. The driver feeds it ticks when its deadline
passes, responses that arrive on the event channel, and, in the TUI, the user's
actions; it sends the probes the engine asks for to the helper and forwards new
addresses to the resolver. The helper answers each probe request with one response
that carries the request's token. Reports and frames only read the engine.

## Modules

| module | models |
|---|---|
| `Hop` | operators on one hop: counters, responder, ring of recent probes (`hop.rs`, `history.rs`, the counters of `stats.rs`) |
| `Engine` | `engine.rs`: one action per tick outcome, per kind of response, per user action, and the timers |
| `ProbeLedger`, `EngineLedger` | what the engine promises about probes, without tokens, slots or history; the refinement mapping from `Engine` |
| `MCEngine`, `EngineProofs` | instances for TLC, theorems |
| `PacketHelper`, `MCPacketHelper`, `PacketHelperProofs` | the helper's loop (`serve`) over the table of outstanding probes; theorems |
| `CommandBuffer` | the byte window in front of it; its theorems are in `PacketHelperProofs` too |
| `Wire` | the lines between the two processes, both directions |
| `ProbePath`, `MCProbePath`, `ProbePathProofs` | extends `Wire`: sockets, privileges, construction of probes, matching of answers; theorems about both |
| `Pipeline`, `PipelineProofs` | driver loop, request channel, writer, pipes, helper, reader, event channel; theorems |
| `Lookups`, `MCLookups`, `LookupsProofs` | the driver's side of lookups, the cache, the resolver and its tasks; theorems |
| `Options` | option layers, checks, conversions, what `--init-config` saves; operators only |
| `Session`, `MCSession`, `SessionProofs` | extends `Options`: a process from its words to its exit status; theorems about both |
| `Bounds` | max and min, for the two screen modules |
| `Tui` | view state, keys, prompts, event loop, rows of a frame |
| `RttStats` | the recurrences of `stats.rs`; operators only |
| `Report`, `MCReport`, `ReportProofs` | extends `RttStats`: the hops a report is computed from, the three formats, the rows and tabs of the TUI about the same hops |
| `HopViews` | the ring of one hop with sparkline, chart, loss marks, log and column widths |
| `MCScreen`, `ScreenProofs` | instances of `Tui` and `HopViews` for TLC in one run, theorems about both |

`Engine` has the history of which probe was answered by what, and no figures;
`Report` has the figures and responders, and takes any open probe for answered;
`HopViews` has one hop over time. The three share `hop.rs` and each keeps the part
of it its questions are about, because their product would be out of TLC's reach
and no property spans them. `PacketHelper`, `ProbePath` and `Pipeline` divide the
helper in the same way: the turns of its loop, what a packet is about, and the flow
through its pipes.

### Engine

State corresponds field by field: `hops`, `seqs` (slot table), `nextSeq`
(`next_sequence`), `batchAt` (`batch_at`), `numhosts`, `numPing` (`num_ping`),
`paused`, and `cfg`, the options that steer the machine. Clock values become
timers: `sendDue` says that `next_send` has passed, `grace` says where the grace
period stands, and a hop's `seen` is `recent` while it is within the cache
timeout. `status` is `finished` when the engine has emitted `Finished` and
`interrupted` when the user left first (the report then ends the transit of every
hop, as `finish` does).

`Tick` is `SendBatch` (one probe, or a hop skipped by `--cache`, then the end of
cycle decision), `StartGrace` or `Finish`; a tick that does nothing is a
stuttering step. `Response` is `ReplyFrom`, `TimedOut` or `SendFailed` with any
token, valid or not, at any time: the model's helper may answer late, twice, or
for probes that were never sent. `UserAction` holds the actions that change
modelled state; those that only change what is displayed or what a probe looks
like (DNS, MPLS, ASN, interval, packet size, bit pattern, type of service,
fields) are left out. RTT values, MPLS labels, packet parameters and wake times
are data and left out too.

### The ledger

`ProbeLedger` has three variables per hop: probes sent, the send numbers that may
still be answered, and answers counted. A probe is answered or failed at most
once, only while it is open, and is never opened again; taking a token that was
still in use closes the older probe. `EngineLedger` maps the engine to it: the
open probes of a hop are the send numbers its live slots name.

### Helper

`PacketHelper` goes through a turn of `serve` one system call or table operation
at a time: `Poll` (or `Interrupted`), `Receive` for each packet until the sockets
are empty (`Drained`), `CheckStream` for each connecting socket, `Read`, `Expire`
for each table position, `Dispatch` for each line, `Flush`. The table is a
sequence, so that `swap_remove` moves entries as it does in the code. What the
client, the network and the kernel do comes in between: lines, the end of input,
a client that dies, answers (also to probes long answered or expired), connects
that settle, source ports in use, sends that fail. After the read a turn looks at
none of them, so they are placed up to the read; only the clock moves at any time.

The process ends in one of three ways: `done` (end of input with an empty table,
or a client that is gone), `fatal` (an unexpected receive error, after the
responses of the turn are written) and `aborted` (an error of `poll` or of
reading commands; the responses of the turn are then not written).

Packets are modelled by the request they answer. An answer matches the first entry with
its sequence number, and an answer to a UDP probe only an entry of a UDP probe; which
number a packet carries is the subject of `ProbePath`. Command lines are whole here.
`CommandBuffer` models the bytes: a byte is its position in the input, the window is an
interval of positions, and a line taken out is a pair of positions. A read of nothing
(`EAGAIN`) changes nothing and is a stuttering step.

### Lookups

`Lookups` has the driver's steps that concern names: an address that is new at a
hop, a key that switches a kind of lookup, a reset, results, the end of the
session and the wait for the last results. `request_lookups` runs address by
address and lookup by lookup, since it awaits room in the request channel after
each mark in the cache. On the other side, the resolver takes a request, waits
for a permit and starts a task; the task gives the permit back when its lookup has
ended and then awaits room for the result. What was found does not matter:
negative answers are remembered like positive ones.

### Pipeline

Every stage between the engine and the helper waits for room in the next one:
`send` on the request channel (256), the writer on the stdin pipe, the helper on its
stdout, the reader on the event channel (1024). The driver empties the last one, but
not while a step of it awaits room in the first. Requests are counted, lines differ
only in what the client does with them (`reply`, `fatal`, `garbage`). The driver's
steps are the branches of its `select!`; `deadline` is `Driver::deadline`, and what
the engine would answer (`engine`) is nondeterministic within its rules. The helper
may die at any time; the reader then reads what is left, then reports the exit.

A tick may send whatever is unanswered. `Gridlock` is the state in which all of them
wait: the driver for room in the request channel, the writer for the helper, the
helper for the reader, the reader for the driver. TLC reaches it (`pipeline_fills`).
`FullPathIsOwed` says what it takes: `Capacity` probes sent and not disposed of, as
many as the path holds when every part of it is full; no stage is ever taken by
anything else. `owed` is a history variable, which no action reads; it is finite
since the stages are. In a gridlock Ctrl-C is not looked at, hence the exception in
`SessionEnds`; the end of the helper resolves it. The real path holds 256 requests,
1024 events and two pipes of 64 KiB.

### Probe path

One action per step of a helper's turn (drain the sockets, expire, dispatch) and one
per event of the network. A datagram has the fields that are compared later:
protocol, addresses, ports, ICMP id and sequence, checksum, and the settings it left
with (TTL, type of service, device, pattern, size). Answers quote such a header, of a
probe of this session or of another program on this host. The shared sockets keep
the options that were set last; unprivileged ones queue errors and report a pending
one at the next `sendto()`. `Wire` says what becomes of a request or response on its
way through a line, with the defaults the helper fills in.

Of its capabilities the helper keeps `CAP_NET_ADMIN` only, if it was granted,
whatever the handshake asks for (`Kept`); `SentAsAsked` states that nothing it needs
later is among what it drops. Whether the kernel has SCTP is asked when it starts
(`CheckSctpSupport`); an SCTP probe then goes the way of a TCP one.

### Options and sessions

`Options` takes words as occurrences `[id, val]`: `BuildArgv` puts those of
`$MTR_OPTIONS` in front, `ParseArgv` lets the last one win, `Apply` puts the file
beneath what was given, `Accepted` and `EngineConfig` check and convert, `Settings`
is what `--init-config` saves. `Session` uses them in the order of `run` and
`run_target`: read the words, load the file, save and exit, collect the targets,
preflight (`ResolveAll`, one target per step), and for each target address, local
address, helper, handshake, run and report. Each stage may fail. A second process
follows one that saved a file.

`AreWords` and `IsFile` say what the two parsers, `clap` and `toml`, hand over: a
switch is on, a whole number is a number, a key has a value. `SessionAssumption`
says that the words and files of all worlds are such; a path has no file, one that
cannot be read or parsed (`Broken`), or one with keys (`Toml`).

### Terminal and reports

`Tui` is the loop of `run.rs`: draw when something changed and the frame gap has
passed, else wait for a key, a tick, a response, a resize. `ui` is `UiState`, `Apply`
its reducer, `Clamped` what drawing does to it. A frame is the record `Picture`:
message, overlay, table rows in view, marked hop, pane and footer.

`Report` prints at the end of a session: `TextReport`, `CsvRows` and `Hubs` (JSON)
are sequences of rows computed from the hops, `Screen`, `TitleLine` and `AddressTab`
what the terminal shows of them. `heard` and `total` are histories of what the
answers really were.

`HopViews` recomputes in every state the columns, the sparkline, the chart and the
log from `hop` (counters, `base` and `samples` of the ring), and compares them with
`truth`, a history of all outcomes that no eviction touches.


## Runs

| run | checks | bounds |
|---|---|---|
| `engine_report` | report modes, every order of answers: `HistoryAgreesWithStats`, `CoverageEven`, `Termination` | up to three hops, up to three cycles, four tokens, ring of two |
| `engine_tui` | TTL edits, pause, reset, interrupt between any two steps: `CursorInRange`, `Accounting`, `TokensIdentifyProbes`, `ImplementsLedger`, `AnsweredStays`, `QuietAfterLastCycle` | two hops, two cycles, two tokens, ring of one |
| `helper` | every order of events around the loop: `ReplyIsOwn`, `InTimeIsAnswered`, `OneResponse`, `NothingLost`, `Exits` | three loads of two or three requests, table of two, two or three sequence numbers, clock up to two |
| `command_buffer` | `EndIsReal`, `LinesKept` | every input of nine bytes in every split, window of three |
| `lookups` | `OnItsWay`, `AllAsked`, `ReportComplete`, `StepProceeds` | three addresses, both kinds, channels of one, one permit, four events |
| `pipeline` | `FullPathIsOwed`, `DeadlineFollowsEngine`, `ExitComesLast`, `SessionEnds` | every capacity one, no bound on the probes sent |
| `pipeline_fills` | expected violation of `NeverGridlocked` | the same |
| `session` | `LayersInOrder`, `SavedReproduces`, `EngineGetsValid`, `EveryTargetCounts`, `FamiliesAgree` | one or two options in each layer, six files, up to three targets in nine modes, a second process after `--init-config` |
| `screen` | the loop: `FrameShowsSelection`, `ScrollingMoves`, `ChangesAreMarked`, `FrameCatchesUp`; the views: `ViewsTellTruth`, `EverythingFits` | no hop or three, one of up to five rows; heights 3, 5 and 8; 14 keys; rings of 2 to 6, up to six probes, 12 widths |
| `probe_path` | `AnswersBelong`, `HeardIsAnswered`, `SentAsAsked` | 15 sessions, raw or unprivileged or no sockets, a kernel with or without SCTP; three probes, table of two, one foreign message |
| `probe_errors` | expected violation of `ErrorStaysWithItsProbe` | the same |
| `report` | `FiguresBounded`, `ReportShowsAll` | one to three hops, up to five replies per hop, three responders, four times |

The bounds are small so that the rare cases happen often.

* Engine: with two tokens every third probe takes the slot of an older one that may
  be unanswered; with a ring of one or two every probe evicts; with one remembered
  address the second responder of a hop is already one too many. `CycleBound` stops
  sending after a number of cycles, for the TUI only: in report modes the
  configured number is reached first.
* `helper`: the load `Turns` has two requests of any protocol and three sequence
  numbers, so that a busy source port is skipped and an answer moves an entry whose
  position has been collected; in `Deadlines` the two expire apart; in `Reuse` three
  requests meet two entries and two numbers, so that the table is full and two
  outstanding probes share a number. `ReplyIsOwn` and `InTimeIsAnswered` are stated
  for numbers that differ: with a shared one the code does credit the first entry.
* `lookups`: six lookups can be asked for at once, one more than the channels, the
  permit, the resolver and the driver hold together, so that everything fills up.
* `pipeline`: with every capacity one, `Capacity` is eight, and the path fills. The
  probes owed need no bound: a driver that awaits room sends no more of them.
* `session`: `IntMax` and `MarkMax` stand for 2^31 - 1 and 2^32 - 1 and are one less
  than what TLC can count to, so that values one above them are tried.
* `screen`, the loop: 3 is below `MinHeight` (4 for 12), 5 shows the table without and 8
  with the pane (`PaneMinHeight` 7 for 20). The tall hop has more rows than the table
  has next to the pane or in the lower terminal, so that its end is reached by scrolling
  only.
* `probe_path`: 33434 to 33439 are the first of the real sequence numbers. They are
  not used up, so no two outstanding probes share one (that is in `helper`), and the
  source ports of other programs lie outside the range. `MaxLabels` 2 cuts the
  router's three labels. `MaxProbes` 2 leaves the third probe without a place.
* `report`: `MaxPath` 2 with three responders, `maxDisplayPath` 1 and 2; the times
  0, 2, 3 and 40 make the divisions round in both directions.
* `screen`, the views: the widths of columns are scaled (`NumWidth` 1 for 6, `HostMin` 3 for
  20, `SparkMin` 2 for 8, `FixedColumns` 5 for 39, `MinTextWidth` 2 for 4), the
  terminals with them, so that each threshold is met from both sides. Times of 900
  and 150000 microseconds have labels of different widths. A frame changes nothing of
  a ring and no ring decides where the loop goes, so in a behaviour of `MCScreen`
  either the loop runs or the ring of a hop grows, and the other stays as it begins.

Type invariants are proved for `Engine`, `PacketHelper`, `CommandBuffer`, `Pipeline`,
`Lookups`, `Report`, `Tui` and `HopViews`, and for `Session` and `ProbePath` as far as
their proofs need one (`Types`, `Fits` with `Counts`). They are not part of the runs,
which ask deeper questions.

**Fairness.** Engine (`FairSpec`, for `Termination`): the driver sleeps until the
engine's next wake and then delivers a tick, so ticks are weakly fair, and time
passes; nothing is assumed of the helper or the user. Helper (`Exits`): its process
is scheduled, `poll` returns once something it waits for is there, and time passes;
no answer is assumed, and interrupted system calls are not relied upon. Lookups
(`ScheduledSpec`): a task that can go on is polled, and the drain's timer fires;
that lookups end is a premise of `StepProceeds`, since the resolver is configured
with two attempts of two seconds each. Pipeline: tasks and helper are weakly fair;
the branches of `select!` that take an event and Ctrl-C are strongly fair, since
`select!` polls its branches in random order and one that is ready again and again
is eventually first. Tui: drawing, waiting and the two timers are weakly fair, keys
and engine are not assumed to pause.

`CHECK_DEADLOCK FALSE` stands where a system stops: the end of the input of
`CommandBuffer`, the end of a session or process in `Lookups`, `Session`, `Tui`,
`ProbePath` and `Report`, the last probe of `HopViews`.

### What the violations show

`probe_errors`: on an unprivileged socket an ICMP unreachable for an earlier probe is
reported by the next `sendto()`. `datagram.rs:83-91` repeats the call for
`ECONNREFUSED` and `EHOSTUNREACH`, "That errno belongs to an earlier probe, not this
one, so retry once"; other codes reach the caller as another errno (`ENETUNREACH`),
and then the new probe is reported as failed and never sent, or, when `recvfrom` meets
it, the helper ends. The condition is the model's choice of errno
(`UnreachableErrors`), as the kernel maps ICMP codes.

`pipeline_fills`: `helper.rs:64-68` says that the driver "drains `rx` on every
`select!` iteration, so under the current driver neither side can fill up". An
iteration takes one branch, at random among those that are ready (`driver.rs:81-85`);
one that takes a due tick drains nothing, and its step awaits room in the request
channel (`driver.rs:133-141`) while nobody reads the events. Ticks taken ahead of
responses fill both sides, after which nothing moves until the helper is killed; the
comment itself names this as what must not happen. The trace is an order of steps, not
a rate: well over a thousand probes must be under way while ticks are taken and
responses are not. Users other than root, whose interval is at least a second, have
at most one tick per hop in a second; for root, who may ask for any interval, the
code sets no limit.

### Observations without a run

Found while the modules were written; none is a run of its own.

* The maximum TTL is compared with the cursor only after a probe was sent
  (`engine.rs:299`), and `SetMaxTtl` (`engine.rs:456`) moves no cursor: lowered in the
  middle of a cycle it lets one probe beyond it, and below the due TTL, which the
  command line refuses (`cli.rs:545`), cycles end before the due TTL.
* `--color` wins over `--no-color` wherever the two stand (`cli.rs:674`), also from
  `$MTR_OPTIONS` over the command line, against the order stated in
  `config_file.rs:27`. `LayersInOrder` excepts this case.
* Packet sizes from 9001 to 65535 are accepted (`cli.rs:71`, `tui/input.rs:363`), and
  the helper refuses them, which ends the session.
* With both UDP ports fixed and one of them equal to a live sequence number every
  answer goes to that probe; a quoted TCP header is matched by its source port only.
  `AnswersBelong` excepts both (`Mistaken`).
* When a window of the chart has narrower labels than the worst time, the columns
  this frees can bring back an older time that needs the wider label; `render_rtt`
  looks twice only (`detail.rs:160-168`), and the newest column and its loss mark are
  cut off, against the comment at `detail.rs:156`. `LabelSettles` excepts this case.
* The mean on display may be up to (n - 1) / 2 microseconds below the mean of n
  replies, since each update truncates (`stats.rs:63`); `MeanBounded` states it.
  The interarrival jitter is kept times 16 in an `i32`, which round trips above
  134 s, possible with `-Z`, overflow.
* The table shows at most `max_display_path` addresses of a hop with its own, the
  report may show one more; labels below a hop are the first ones of its address on
  the screen and the latest ones in the report. A target hidden by the due TTL is
  still listed as a further address.
* `lib.rs:282` says that nothing partial has been printed at a point where the start
  line of a report may have been (`lib.rs:341`).

## Proofs

`EngineProofs` begins with what each operator of `Hop` does to the ring, the counters
and the other fields. It proves, from `HopAssumption` and `EngineAssumption` alone (any
table size, token range, ring length and set of accepted configurations):

* `Invariant`: `IInv` holds in every reachable state;
* `TypeCorrect`, `CursorSafe`, `RingSafe`, `TokensSafe`, `AccountingSafe`: the type
  invariant, the alignment of the ring and three invariants of the runs follow;
* `AnswersAreFinal`, `GraceSafe`: the action properties `AnsweredStays` and
  `QuietAfterLastCycle`;
* `LedgerKept`: `Engine` implements `ProbeLedger` under `EngineLedger`'s mapping;
* `HistorySafe`: the ring agrees with the counters (`HistoryAgreesWithStats`);
* `CoverageSafe`: in report modes every hop gets its share (`CoverageEven`).

None of the invariants is inductive alone. `Accounting` says that the answers of
a hop plus its live tokens never exceed its probes; keeping it over a reply needs
that the slot was live and counted (one fewer live token, one more answer), over
a send that the overwritten slot may have belonged to another hop, and the part
about the in-flight flag needs that a hop whose latest probe is in flight has an
answer to spare. Keeping `TokensIdentifyProbes` over a send needs that the new
send number is larger than every number a live slot names, and over a reply that
no second slot names the probe just answered, so that a `Rtt` sample is never
reached again. The ring's alignment is what turns a send number into a position.
`IInv` is the conjunction of these parts. The action properties then follow from
the invariant and one case per action.

The refinement rests on what an action does to hops and slots, whatever else it
does (`StepKind`): it sends a probe, answers one, fails one, lets one expire, settles
the flags, resets, or does none of these. Each kind is one step of the ledger or none;
that a send number is open exactly when a live slot names it makes the two agree.

`HistoryAgreesWithStats` counts positions of the ring, which move when it evicts. The
proof counts send numbers instead, which do not: those answered and still in the ring
never outnumber the answers, and are as many while nothing has been evicted
(`RingTruthful`). A bijection maps them to positions at the end.

`CoverageEven` compares the hops in every state, also in the middle of a cycle.
`Even` adds where the cursor stands: the hops before it are one sweep ahead of those
at and after it, sweeps never grow along the path, and once the last cycle is done
the cursor is back at the first hop.

`PacketHelperProofs` proves all four safety properties of `PacketHelper` for any table size,
range of sequence numbers, number of requests and deadlines, from
`PacketHelperAssumption`. The invariant says that lines are handled in order
(`InOrder`); what each stage of a turn leaves empty (`Phases`); that a request that was
handled is in the table or answered, once and never both (`Accounted`); that an entry is
what was sent, and only what was sent can be answered (`SentOnce`); that an answer to an
outstanding probe waits in a socket and, once these are drained, that none of it came
before the time of this turn (`Waiting`); and that a response reports what happened to
its own probe (`Truthful`). The last two except sequence numbers in use twice
(`Collides`), as the properties do. `OneResponse` and `NothingLost` follow from
`Accounted` and `Phases`, `ReplyIsOwn` and `InTimeIsAnswered` from the last two.

The same module proves the invariants of `CommandBuffer` for every
buffer size and every input, from `CommandBufferAssumption`. The invariant says
where a window may begin: after a newline, at the beginning of the input, or
where a full window was discarded inside a line of which at least `Size - 1`
bytes had gone by (`WindowAligned`). The last case is why a line that fits is never
damaged by the one before: if it began before the window, it would have to be
longer than the window.

`ReportProofs` proves `FiguresBounded` for every number of hops, replies and
addresses and every time up to `MaxRtt`, from `ReportAssumption` (which bounds
`MaxRtt` so that the jitter fits its `i32`). The invariant is the conjunction of
`TypeOK`, `FiguresBounded` and `OpenCounted`, that the open probes of a hop plus its
answers never exceed its sends. Without the last, a reply could bring the answers
above the sends, and Loss and Drop below zero. Each recurrence has a lemma of its
own: truncated division keeps the mean between best and worst and below the true
mean, each deviation term is at most the square of the spread, and a term of the
interarrival jitter decays at least as fast as its bound.

Of `ReportShowsAll` the same module proves what its rows are made of. `RespondersSafe`: a
hop's list has each responder once and no other, all of them while they are no more than
`MaxPath`, and labels are those the address sent (`RespondersKept`); inductive is that all
are listed as long as there is room, from which a count of two finite sets gives the rest.
`HopsSafe`: `HopsShown` holds, since the end of the range is the first hop that ends the
route or lies behind the last one that is known.

`PipelineProofs` proves `FullPathIsOwed`, `ExitComesLast` and `DeadlineFollowsEngine`
for every capacity of the channels, the buffers of the pipes and the helper's table and
any number of probes sent, from `PipelineAssumption`. The invariant has three parts
besides `TypeOK` and `DeadlineFollowsEngine`. `Balance`: what all stages hold together,
from the driver's hand to the event channel, is at most what the engine is owed, the
exit line being no probe; stages that all wait are full stages, whose sum is `Capacity`,
so that as much is owed (`GridlockNeedsFullPath`). Keeping it needs that an answer or an
exit taken off the event channel is one that is owed. `ReaderHolds`: the reader has a
line in hand exactly while it delivers one. `ExitBehind`: the exit line is the last
entry wherever it stands, with nothing left in the pipe once the reader took it;
`ExitComesLast` follows.

`LookupsProofs` proves `OnItsWay`, `AllAsked` and `ReportComplete` for any finite set of
addresses and any capacities, from `LookupsAssumption`. `OnItsWay` counts, and a count is
not inductive by itself: that a permit taken or a result delivered keeps it needs that no
lookup is at two places (`Apart`); the count follows from that for any state. `AllAsked`
speaks of states between steps only; within a step an address may still be in the list
passed to `request_lookups`, or its lookups in the list for that address (`Asked`).
`ReportComplete` adds that a lookup is only pending when there is a resolver to wait for,
and that a report that was not cut short has none pending (`Control`).

`SessionProofs` proves the five properties of `Session` for all words, files, hosts
and answers of the system that `SessionAssumption` admits, and any number of targets.

* `TargetsCount`: the status that is due is a function of the outcomes so far
  (`Standing`), and what has been printed, followed by the documents that wait, is one
  report per target traced (`Reported`). The wording of the property counts lines;
  `Covers` says the same with a bijection, which an `Append` keeps.
* `OneFamily`: the family asked for now is the user's or that of all addresses so far
  (`Related`).
* `LayersKeepOrder`: pure reasoning about `Options` (`FromLayers`: where a field gets its
  value; `AllRanked`: the conversions of each key keep it), and an invariant that
  remembers where `argv` and `read` came from (`Layers`).
* `ConfigurationFits`: numbers are numbers after every layer (`ArgsType`), and what has
  been accepted is in order (`AcceptedFits`).
* `SavedComesBack`: nothing overwrites what has been saved, and what is read is what is
  there (`Stored`). A key that was left out of the file was at its default, and gets it
  again. That the next run is accepted needs each check in turn (`AcceptedStill`), and the
  rule about the interval that `CanSave` adds to those of a file.

`ScreenProofs` proves the three safety properties of `Tui` for every path the engine may
show, every height of the terminal and any keys and prompts, from `TuiAssumption`, and both
properties of `HopViews` for every size of the ring, number of probes, set of round-trip
times and width of the terminal.

* `TypeCorrect` is all the invariant of `Tui` there is, since a frame is computed anew; the
  work is in the rows. `FlattenSeq` is a recursive function: its values are shown to be
  sequences of rows by the least position where they would not be. From there the rows of a
  hop stand together in the order of the hops, so `FirstRow` and `EndRow` tell which rows are
  a hop's own.
* `FrameSafe`, `ScrollingSafe`: the clamp is arithmetic on these bounds, with a case for a
  hop with more rows than the screen. `MarksKept` has a case per branch of the loop.

* `ViewsAreTrue`: the ring is at all times the tail of the truth (`Tails`): as long as it
  can be, without a gap, each sample with the number, time and outcome of its probe. From
  there a view is arithmetic on positions (`NewestIsNewest`): whatever number of columns the
  chart settles on, a probe's column is a matter of its age alone. The age of the window
  needs that probes leave an interval apart (`Spaced`).
* `AllFits`: the least and the greatest of a set of times exist, a time has the first bar
  it is within, division keeps the order; the rest is arithmetic on widths.
  `CeilingsAssumption` says that the ceilings of the chart go as far as the times do.

`ProbePathProofs` proves the three safety properties of `ProbePath` for every session,
range of sequence numbers, size of the table and number of probes and of messages about
other programs' datagrams.

* First the lines. What a line says is a function from keys to values (`Said`), which each
  argument written extends; what is read for a key is what was said for it. So a request is
  decoded to the parameters it was made of (`DecodeIs`), a result and an error likewise
  (`ResultReads`, `ErrorReads`), with at most `MaxLabels` labels.
* A probe is known by its token, protocol and number. The invariant (`IInv`) is that there is
  a log of such, one to a token and one to a number, that all entries, datagrams and waiting
  errors are about (`Fits`); the log is not a variable but a witness, which a new probe
  extends. `MatchSound` and `MatchComplete` say what `match_reply` finds for a quoted header
  of one of the log, `ForeignMatch` for one of another program.
* `AnswersBelongAlways`, `HeardIsAnsweredAlways` and `SentAsAskedAlways` follow. Besides
  `ProbePathAssumption` they rest on `SettingsAssumption` and `NoneAssumption`: what the
  command line admits, and that `None` is no value. The range of ports is longer than what
  a session draws, the bound under which a number identifies a probe; another program's
  port and address are not the helper's own, as otherwise its datagrams are the helper's by
  every field that is compared; and the network's errors are not one of a privilege.

TLC only: liveness (`Termination`, `Exits`, `StepProceeds`, `SessionEnds`,
`FrameCatchesUp`), which is out of the prover's reach, and

* `ReportShowsAll` as a whole: it compares rows filtered with `SelectSeq`, which the prover
  knows no definition of. Its parts that need no filter are proved, see above.

## Plan

Theorems worth proving next: the rest of `ReportShowsAll`, with the rows picked by their
positions in place of `SelectSeq`.

Models worth composing: `Engine` with the promise of `PacketHelper`, so that tokens
of the client meet entries of the table.

## Not modelled

* `gmean` needs real roots, and no figure depends on it.
* Widths inside a cell, quoting, rounding to milliseconds, wording and colours of
  reports and frames; the header line, the help overlay's text and the chart as
  `ratatui` draws it (the ASCII chart shows the same data).
* How words are spelt and parsed into numbers, host names resolved, TXT records
  split: functions on text, tested as such.
* The byte layout of packets and the fuzzed parsers: `ProbePath` has the fields that
  are compared.
* BSD and macOS variants of the sockets. What the kernel decides is nondeterministic
  where the code asks it; that it may announce a queued error twice is left out.
* The random generator is a nondeterministic choice wherever it is used.
* Release tooling, manual pages, completions and fuzz targets have no state.
