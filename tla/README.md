# TLA+ verification of DUTchMate

DUTchMate records what a device under test (DUT) says on its UART, keeps that
evidence on disk, and lets developers and coding agents act on the device while
it is being recorded. Its promise is about *evidence*: what was received is in
the journal or is reported as lost; what was acknowledged survives a crash; the
journal says truthfully who owned the port and when it was gone. The modules in
this directory state those promises and check them against the code.

Contents: [inventory](#inventory), [hard behaviours](#what-is-hard-here),
[architecture](#architecture-of-the-models), [modules](#modules), [runs](#runs), [fairness](#fairness),
[proofs](#proofs), [observations](#where-code-and-documentation-disagree),
[limits](#not-modelled).

## Inventory

### Components

| Component | State it keeps | Operations |
| --- | --- | --- |
| Evidence transactions (`session_store/transactions.py`, `persistence.py`) | session directory: append files, `metadata.json`, `detected_patterns.json`, marker, hard-linked preimages | begin, append, replace patterns, prepare and publish metadata, commit, roll back, clean up, recover |
| Session journal (`session_store/store.py`) | active session, segments, active operations, pending attempts, evidence sequence | admit records of each stream, segment append, operation start and end, rollover, terminalize, recover stale sessions |
| Retention, baseline (`retention.py`, `baseline.py`) | set of session directories, baseline pointer | delete oldest eligible session, set and clear the baseline |
| Readers (`tail.py`, `retrieval.py`, `log_replay.py`, `comparison.py`) | none, or a cursor | read a page, replay, compare |
| Evidence recorder (`evidence/recorder.py`) | ownership state, current source, fault, integrity counters, durable tail | ingest, release, reacquire, replace the source, shut down |
| Reconnect coordinator (`backend_reconnect.py`) | attempt owner, suspension, deadline | supervise, retry, publish a replacement, hand over to a manual reacquire |
| Device Core runtime (`runtime.py`) | lifecycle flags, mutation lock, active monitors | device actions, Monitor and Interact, ownership changes, shutdown |
| Backends (`backends/`) | serial port, bounded queue, pending command, segment clock | read, dispatch, send, close and drain |
| Async host (`enhanced_async.py`) | owner loop, in-flight submissions | submit, close |
| Line processing and matching (`uart_capture/`, `operations/monitor.py`) | unterminated line, oversize accounting | feed, flush, match |
| GPIO configuration and profiles | per-pin mode | validate, configure |
| Service, CLI, MCP server, debug agent | nothing between requests | HTTP and tool front ends, report building |
| Firmware: receive ring and drain (`uart_rx_ring.c`, `uart_rx.c`, `usb_connection.c`, `telemetry.c`) | byte ring, descriptors, overflow episode, status schedule, epoch | interrupt push, take, claim overflow, stage status, start and end epochs |
| Firmware: commands (`command_runtime.c`, `command_executor.c`) | one-place queue, executor state, response handshake | receive, execute, respond, cancel an epoch |
| Firmware: transmitters (`cdc_tx*.c`, `uart_tx*.c`) and pins (`control_state.c`) | state and deadline of one write; drive of each pin | start, interrupt, poll, cancel; configure, set, pulse, end epoch |

`PROJECT.json` lists all of them with what is modelled of each and why the rest
is not.

### How they interact

```
DUT --UART--> ring (interrupt) --> USB thread --CDC--> serial adapter (asyncio)
                                                         |  bounded queue
HTTP/MCP/CLI --> runtime --+-- actions --> sender/control |
                           |                              v
                           +-- release / reacquire --> recorder (ingest thread)
                                      ^                   |  admission lock
              reconnect coordinator --+ (worker thread)   v
                                               session store --> transaction --> files
```

- The interrupt and the USB thread share the ring under an interrupt lock; the
  USB thread is the only writer of the CDC endpoint.
- The ingest thread takes events from the current source and admits them to the
  store. The recorder's condition variable guards its state; its admission lock
  serialises admissions with changes of source; the runtime's mutation lock
  serialises device actions, ownership changes and control initialisation.
- The coordinator's worker is woken by a disconnect and replaces the source; a
  release or reacquire suspends it first.
- The store admits each unit in one transaction over several files and recovers
  an interrupted one at the next start.

## What is hard here

- **Crashes between file operations.** One unit is up to a dozen directory
  operations. A power loss may bring back any directory state since the last
  fsync, and recovery itself can be interrupted.
- **I/O errors in the middle of a transaction**, in particular a rename that took
  effect and then reported an error, and failures of the rollback itself.
- **Five threads changing ownership**: ingest, reconnect worker, a release or
  reacquire request, a device action, shutdown. Each checks a state, lets go of
  the lock, closes or opens a port, and checks again.
- **An interrupt against a draining thread**: bytes, an open overflow episode and
  a status leave through one writer in the order they were observed, while the
  ring drops its oldest bytes.
- **Boundaries**: the wrap of the ring, its full descriptor table, an interrupt
  larger than the ring, a frame cut off by a disconnect, a line of exactly the
  limit whose newline is in the next chunk.
- **A rollover is a dozen durable writes** in two sessions. It can be cut short
  after each, by a failure or a crash, and operations, attempts, cursors and
  readers go through it.
- **Readers beside the writer**: a Monitor that takes no lock, a client that comes
  back with an old cursor, another process that reads the files one by one.
- **Calls that wait for each other**: a bounded operation, a request with a
  deadline, a reader blocked on a full queue and the close that joins it.

The properties that make each component correct:

| Component | Correct when |
| --- | --- |
| Transactions | a unit is durable in all its files or in none; an acknowledged one survives; a terminal session stays terminal; recovery always finishes |
| Ownership | one physical owner; what a source has read is stored before it is detached; every request, reconnect and shutdown ends; the journal is a path of the life cycle |
| Helper evidence | the ring holds the newest bytes; every byte is delivered or counted; observation order is kept; the host's loss figure is exact; evidence drains |
| Session journal | an operation is active in exactly one session; its ranges join without a gap across rollovers; results find their attempts; a restart resolves every half-finished rollover |
| Retention, baseline | nothing an operation, a reader or the baseline needs is deleted, and everything else over the limit is |
| Readers | each record is handed over once and in order across rollovers; a cursor expires only when evidence is lost |
| Lines and queries | what is derived event by event equals what the stored bytes say; a detail is one committed state; paging misses no session |
| Bounded operations | every call ends; the match is the first eligible line; the result is what the journal holds; Interact is exclusive |
| Backends and host | a caller gets its own answer and a true one; a close ends, and nothing received is lost by it |
| Helper commands | each line is answered once, in order and truthfully; outputs are safe during a change, after a failure and at the end of a connection |

`PROJECT.json`, "hazards", gives the line at which each of these can go wrong.

## Architecture of the models

Modules are written so that they can be both checked and proved about: sizes
are constants with named assumptions, one action per operation or critical
section, invariants as conjunctions of named parts, no `RECURSIVE` operators.

| Module | Subject | Built on |
| --- | --- | --- |
| `EvidenceTransaction` | durability of one unit | refines `EvidenceLog` |
| `ConnectionOwnership` | who owns the port, what the journal says of it | the store as its abstract result |
| `HelperEvidence` | from the UART interrupt to the host's loss figure | firmware and host in one module |
| `SessionJournal` | sessions, rollover, operations, retention, baseline, recovery | a unit is one step, as `EvidenceTransaction` shows |
| `EvidenceReaders` | Monitor reader, tail cursors | extends `SessionJournal` and steps with it |
| `UartLines` | line buffer, processor, pattern detector, as functions | used by the next two |
| `LogQuery` | recording of lines beside log replay, session list and detail | extends `UartLines` |
| `BoundedOperation` | Monitor, Interact, send, lifecycle and shutdown | extends `UartLines`; the recorder as `ConnectionOwnership` shows it |
| `EnhancedLink`, `BasicSource` | the two backends | share `BackendParameters` |
| `BackendLink` | the service with the backend it selected | composes the two |
| `HelperCommands` | command threads, pins, transmitters | the epochs of `HelperEvidence` |

Where one module takes another's result as an atomic step, that result is a
property of the other: all-or-nothing units (`UnitsAreWhole`,
`ImplementsEvidenceLog`), records handed to a reader between two positions
(`ReaderIsExact`), drained sources (`EvidenceKept`).

A theorem still worth proving: `JournalIsAPath` with release requests but no
disconnects.

## Modules

### `EvidenceTransaction`

`dir` is the session directory as the process sees it; `images` is the set of
directories that a power loss may bring back: every state since the last
successful directory fsync. A digest is the document itself. Append files are
fsynced by every append and truncation, so `size` survives a power loss; a
failed append may leave any part of its record.

One action per step of the code, in program order, most with a twin for its
failure: `Admit` (the store reads metadata), `Link`, `LinkPatterns`,
`BeginSync`, `MarkPrepared`, `Append`, `WritePatterns`, `PrepareMetadata`,
`PublishMetadata`, `Commit`; `Truncate`, `RestorePatterns`, `RestoreMetadata`,
`RollbackSync`; the unlinks of `_cleanup`; `Recover*` and `Orphan*` for
`recover_evidence_transaction`; `EndSession`, `FailSession`, `AbandonSession`
for the writes that bypass the transaction. `Crash` may follow any step and
chooses an image. Which I/O calls may fail is the constant `FaultPoints`.

`EvidenceLog` is the promise: units become durable one at a time and whole, an
acknowledged one is never withdrawn, a confirmed end is final. The refinement
maps `admitted` and `life` to what recovery *would* find in the current
directory, and the property `ImplementsEvidenceLog` checks it.

### `ConnectionOwnership`

Five threads. An action is one critical section of the recorder's condition or
one call into a backend source. The admission and mutation locks are variables
since threads keep them across several such steps. `rec`, `co` and `rt` are the
attributes of recorder, coordinator and runtime that decide anything; `ses` is
the session's life, the sequence of its connection events and whether its
segment is open; `phys` is what is really the case with each transport: a source
whose close raised is `stuck`, and nobody knows whether the port is free. Event
payloads, device identities, back-off and time are left out: a deadline passes
whenever it may. The store appears as what the recorder sees of it: an append,
or an error for which the store has failed the session.

### `HelperEvidence`

A received byte is its position in the stream, so the ring's content can be
compared with what it should hold. The byte array keeps its circular layout, its
read index and the two-part copies; a descriptor is an interval of positions;
`nextSeq` is the observation sequence that chunks, overflow episodes and
statuses draw from. The USB thread is a program counter over the loop of
`dutchmate_usb_connection_run`: DTR and epoch, `hello`, status sampling (the
timer is read in one step, the snapshot taken in the next, as in the code), then
a batch of frames. Taking a frame from the ring and completing its write are
separate steps, with interrupts, DTR changes and stalls in between. `host` holds
the per-connection and per-session loss state of adapter and recorder; a frame
is dispatched when it is complete, since USB and the host's queues keep order.

An open overflow episode with an empty ring does not occur: `record_drop`
precedes `append_descriptor` in the same push. So `OverflowIsNext` needs no case
of its own for it.

### `SessionJournal` and `EvidenceReaders`

`ses` is the sequence of sessions ever created. A session has its log of records
(type, what it refers to, and whether the source was connected), its links to
predecessor and successor, the evidence ranges of its active operations (`ops`),
those interrupted with it (`cut`) and the origins of pending attempts (`pend`).
`job` is the store call in progress: append, or one of the steps of a rollover
(create, announce, continue each operation, link), or the retention pass. Each is
one durable write; `AppendFails`, `RolloverFails` and `SweepFails` are its failures
and `Restart` may take the process away after any of them. A pass may stop at any
session it takes: the older ones are deleted, and that one is left whole, in part or
gone, as the failing call was its first, a later one or the last directory fsync.
`RecoverSession` is the recovery of one stale session at startup.

`EvidenceReaders` adds, per operation, the lock-free reader of
`_V2MonitorEvidenceReader` (one turn of its loop is one step) and a tail client:
poll, snapshot one session under the lock, read it without the lock, hand over a
prefix. A cursor survives the restart of the service. The operation's thread reads no
more once it offers its terminal record (`Completes`); only a recorder that is
failing completes an operation while its thread may still be reading.

### `UartLines` and `LogQuery`

A byte is a newline, the pattern, or anything else. `FeedResult` and `FlushResult`
are the line buffer, `ProcessEvent` the processor. In `LogQuery` the recorder
frames an event, ends the open lines when the event will roll the session over, and
admits it file by file (`stage`); a failing transaction restores `before`. The
queries: `get_logs` replays and keeps the newest lines, `list_sessions` pages with
a cursor, `get_session` reads metadata, streams and patterns in separate steps with
the marker checks before and after and its retries. `LogsAreTheBytes` compares them
with `LinesOf`, which defines lines by positions in the byte stream, without a
buffer.

### `BoundedOperation`

Threads: one per operation, a standalone send, a lifecycle request, shutdown. A
step is one critical section or one call into the recorder. The loop of
`_run_bounded_operation` is spread over `loop`, `clock` and `wait`, because evidence,
ownership and time can change between them; `Complete` is
`complete_monitor_operation` with its case that the recorder already wrote another
terminal record. A send looks at the recorder twice, before it takes the mutation
lock and under it (`EnterSend`, `SendRefused`). The recorder is a state that may be
lost, come back, time out, fault or roll over.

### `EnhancedLink`, `BasicSource`, `BackendLink`

`EnhancedLink` has the reader task, the bounded queue, the single pending request,
the callers' futures, the owner loop, two threads that may close, and the opener
with its cleanup. A step of the loop is what runs between two awaits. `BasicSource`
has the reader thread, its queue, the recorder's thread, senders with partial
writes, and two closing threads. `BackendLink` selects one of them, as startup
does, and states the properties of the service's source.

### `HelperCommands`

The host's bytes go through the CDC FIFO and the receive queue to the receive
thread, which frames and decodes; the command thread runs the command; the USB
thread starts and ends epochs and writes responses and evidence. Semaphores and
atomics are fields of `rt`. A pin change is its driver calls, each of which may
fail (`DriveApply`). Deadlines may pass at any poll. The transmitters advance in
interrupts (`UartTxOnInterrupt`, `CdcTxOnWritable`) and are given up by their
deadlines or by the end of the epoch, which waits a bounded time for each thread.

## Runs

Each run is one cfg and finishes within its time on two cores. A property that
joins several names is their conjunction; the parts are defined and explained where
they stand in the module.

| Run | Bounds | Shows |
| --- | --- | --- |
| `evidence_safe` | 2 units, 2 append files, 2 tolerable faults, 2 power losses | whole units, terminal is final, startup is never blocked, every interrupted session is resolved, and `EvidenceLog` is implemented |
| `evidence_faults` | 2 units, 3 faults of any kind, 1 power loss | acknowledged units survive and nothing unacknowledged appears even when the rollback fails |
| `ownership_release` | 3 sources, 2 UART events, 3 requests, 1 failure of any kind but a disconnect; 62,956 states | `EvidenceKept` (drained before detached, stored in an open segment), `ReacquireSettles`, `RequestsReturn` |
| `ownership_reconnect` | 3 sources, 1 event, 2 requests, 2 failures; 95,758 states | the journal is a path, every reconnect resolves, shutdown completes, a failed session ends the ownership |
| `ownership_faults` | 3 sources, 1 event, 2 requests, 2 failures of all kinds; 79,854 states | `OwnershipIsSound` (types, nothing leaked by shutdown, "connected" is usable), one owner at a time |
| `helper_evidence` | ring 3, table 2, interrupt up to 4, staging 2, batch 2, 4 bytes, 2 connections, 1 rollover; 999,341 states | ring content, accounting, order, `LossIsReported` (exact, and never understated after a rollover), drain |
| `journal` | 1 operation, 1 attempt, budget 3, 2 segments, keep 2, 4 sessions, 2 gaps, 1 baseline marked, 1 failure, 1 crash; 1,346,203 states | `JournalIsWhole` (contiguous ranges, one owner, mutual links, results resolve), `RetentionIsSound` (needed sessions kept, eligible baseline was connected, the pass is complete), startup ends |
| `readers` | 1 operation, budget 3, 3 sessions, keep 1, 2 UART units, pages of 3, 1 failure, 1 restart; 655,656 states | `ReaderIsExact`, `TailIsExact`, and a client that keeps asking catches up |
| `helper_commands` | 1 channel, frame limit 1, receive queue 3, chunk 2, 2 connections, 1 evidence frame, 1 failure; 537,000 states | `AnswersAreTrue`, `OutputsAreSafe`, every line is answered |
| `backend_link` | 2 callers, queue of 1, 2 events or 3 chunks, 2 calls or faults, payload of 2; 756,000 states | `ReportsAreTrue`, `NothingReceivedLost`, every close settles |
| `log_query` | 2 channels, line limit 2, budget 7, 1 line, pages of 1, 3 units or queries, 4 sessions; 722,568 states | `LinesAreExact`, `ReadsAreConsistent` |
| `bounded_operation` | a Monitor by duration, a conditional Interact and a send, 2 sessions, 1 fault, 3 calls or disturbances; 261,612 states | first match, results are the records, exclusion, every call returns |

Why the bounds are enough:

- *Transactions.* The second unit meets whatever the first left behind (a stale
  marker, preimages, advanced files). Two append files have an order of
  truncation and can be left in different states. The second crash interrupts
  the recovery of the first, the second fault the handling of the first. The
  proofs remove the bounds for tolerable faults.
- *Ownership.* Each thread runs its loop at least twice; with three sources the
  port is lost, replaced and replaced again; the last request always meets the
  state another one left. A second failure can hit the handling of the first.
- *Helper evidence.* A ring of 3 bytes, a table of 2 and interrupts of up to 4 make
  every case of one push happen: room, byte drop, descriptor drop, both, an
  interrupt larger than the ring, and a wrap in each. Staging of 2 splits a chunk.
  Two connections let an old epoch's evidence meet a new one. The proofs hold for
  every size.
- *Journal.* A budget of 3 makes the third record roll over, so that the operation,
  its attempt and their end lie in different sessions; four sessions with a limit of
  2 make retention choose while an operation reaches back two sessions; the crash
  can interrupt the rollover and the failure its aftermath.
- *Readers.* A session fits into one page and a page spans two sessions; with a
  limit of 1 the sessions a cursor names are deleted under it.
- *Commands.* A frame limit of 1 has lines at, below and beyond it; the second
  connection meets what the first left in every queue and thread.
- *Backends.* A queue of 1 is full with the first event while the second waits; two
  callers make a late answer meet the next request; two closing threads race.
- *Queries and operations.* A line is below, at and beyond the limit and cut by
  events and rollovers; a page of one session is followed by creation and deletion;
  each disturbance (fault, disconnect, rollover, cancellation, release, shutdown)
  meets every step of an operation.

`CHECK_DEADLOCK FALSE` stands where the system really may stop: all units written
and the session ended, the service down with its restarts used up, the helper
halted, the backend closed. Shutdown in `ConnectionOwnership`, the halted thread in
`HelperEvidence` and `Finished` in `BoundedOperation` are explicit stuttering
actions, so a deadlock there is reported.

A release together with an unplugged device is not in a run, because the two can
block each other (observation 3); `ownership_reconnect` therefore has no release
and `ownership_release` no disconnect. `late` and `refail` are only in runs without
a liveness property for the same reason (observation 4, and `recorder.py:818`).

## Fairness

- `EvidenceTransaction`: weak fairness of the whole process: straight-line code
  keeps executing, and a stopped service is started again. Nothing makes an
  admission, a fault or a crash happen (crashes and faults are bounded).
- `ConnectionOwnership`: weak fairness for each thread: the operating system runs
  a thread that is not waiting. There is none for requests, input, failures or
  for shutdown to begin.
- `HelperEvidence`: weak fairness of the USB thread, whose writes complete while
  DTR is high (the host reads the endpoint) and are abandoned otherwise. None for
  interrupts, time or the host. A stall is a separate action without fairness.
- `SessionJournal`: weak fairness of the store's steps during startup: a call that
  holds the store lock goes on. `EvidenceReaders` has it at all times, and adds that
  a read that has begun goes on, that an attached client keeps asking, and strong
  fairness for its turn at the store lock, which the recorder takes again and again.
- `BackendLink`: weak fairness of the recorder's thread, and of whatever goes on by
  itself: ready tasks, expiring timeouts, a port that is being closed. None for the
  helper, for new calls or for a write in progress.
- `HelperCommands`: weak fairness of the three threads and of the receive
  interrupt. None for the host, the progress of a transmitter, or failures.
- `BoundedOperation`: weak fairness of each client's thread, of the clock, of the
  recorder (the reconnect coordinator ends every loss, `ReconnectResolves`), of the
  lifecycle request and of shutdown once begun.

## Proofs

| Theorem | Module | Says |
| --- | --- | --- |
| `TypeCorrect` | `EvidenceTransactionProofs` | documents, markers and bookkeeping keep their types |
| `UnitsStayWhole` | | every directory a power loss may leave resolves to a whole unit or none |
| `AcknowledgedUnitsSurvive` | | no rollback, recovery or power loss withdraws an acknowledged unit |
| `NoPhantoms` | | between admissions the durable evidence is what was acknowledged |
| `TerminalStaysFinal` | | recovery neither revives a terminal session nor changes its end |
| `StartupNeverBlocked` | | recovery always finds the preimages its rollback needs |
| `DirectoryImplementsLog` | | the directory implements `EvidenceLog`, every step of it |
| `TypeCorrect` | `HelperEvidenceProofs` | indices, fill and tables stay in range; no frame outlives its write |
| `RingKeepsNewest` | | the ring holds the newest bytes, in order, without a gap |
| `NoByteUnaccounted` | | every received byte is retained, in flight, delivered, reported or discarded with its epoch |
| `EvidenceInOrder` | | chunks, overflows and statuses leave in observation order, no byte twice |
| `LossStaysReported` | | a connection or session that lost bytes says so once a status has arrived, exactly before a rollover |
| `TypeCorrect` | `ConnectionOwnershipProofs` | the variables of recorder, coordinator, runtime and session keep their types |
| `OwnershipStaysSound` | | a confirmed owner has a usable transport, a closed backend none |
| `OneOwner` | | a source is opened only when no other one may hold the port |
| `EvidenceStaysKept` | | what a detached source had received was read; nothing is stored outside a segment |
| `ReacquiresSettle` | | no request returns while the state says reacquiring |
| `JournalStaysAPath` | | the connection journal is a path of the life cycle |
| `OutputsStaySafe` | `HelperCommandsProofs` | outputs never reach a level nobody asked for, nor outlive their connection |
| `OkAnswersStayTrue` | | an "ok" is true of the bytes sent and of the level a pulse left |
| `StreamStaysWhole` | | no frame follows an incomplete one |
| `AnswersStayTrue` | | the answers on a connection are those of its lines, one each and in order, and true |
| `ReportsStayTrue` | `BackendLinkProofs` | callers are told what happened at the port; one outcome of a close; payloads unmixed |
| `NothingIsLost` | | what was received is handed over once and in order, all of it after a close that succeeds |
| `JournalWhole` | `SessionJournalProofs` | operations keep their whole evidence and have one owner, links are mutual, results find their attempts |
| `RetentionSound` | | retention takes nothing that is needed and all that may go; an eligible baseline was connected throughout |
| `ReaderStaysExact` | `EvidenceReadersProofs` | the Monitor reader sees exactly the records of its operation, across rollovers, and is refused them only after a failure |
| `TailStaysExact` | `EvidenceReadersProofs` | a tail client reads on without a hole and its cursor expires only for cause |
| `ResultsStayTrue` | `BoundedOperationProofs` | a call that returned an outcome returned the journal's; an Interact reports on what it sent |
| `OperationsStayExclusive` | | nobody acts while an Interact owns the device; a change of ownership and shutdown wait for every operation |

**`EvidenceTransactionProofs`** holds for any set of append files, record size and
number of units, faults and crashes, under the assumption `Tolerable`: the I/O
calls that fail are not the fsync after the metadata rename, not a step of a
rollback, and not the cleanup that follows an earlier failure. Without it the
theorems are false: observations 1 and 2 below are the counterexamples. The safety
properties say what recovery would do with each *image*, so they are not
inductive: they do not know why an image resolves as it does. `IInv` adds
`ControlInv` (which bookkeeping files exist at which step) and `PhaseInv` (what
the marker in memory says of the disk in each phase: offsets recorded before
anything was appended, preimages equal to what the marker names, expected
metadata equal to what publishing will write). There is one lemma per action.

The refinement maps the log's state to what recovery would find in the current
directory. `LogInv` says what makes this a function of the directory although a
power loss has several outcomes: all its images resolve to the same metadata,
except that a terminal state whose publishing was not confirmed may be in some of
them only. Then each step is shown to be one step of the log or a stutter:
publishing the metadata admits the unit, a rollback or recovery leaves what it
finds, the end of the session ends the log, and a power loss at most decides
whether an unconfirmed end stands.

**`HelperEvidenceProofs`** holds for every capacity, table size, interrupt size,
staging size and batch budget that is positive, and for any number of bytes,
epochs and failures; the model's bounds on bytes and time are arbitrary
naturals. The four properties are not inductive either. `IInv` adds

- `WithinReceived`: descriptors are intervals in increasing order that end within
  what was received. `RingHoldsNewest` relates only neighbours, and a push may
  remove any number of descriptors at once;
- `SequenceInv`: the observation numbers of descriptors, episode and pending
  status are distinct, increasing, and later than what was sent, and the host has
  nothing beyond the oldest byte of the ring;
- `FrameInv`: the frame being written is earlier than all that is still in the
  ring, and its bytes lie between what the host has and what the ring holds.

The argument for a push: `DropBounds` (never more is dropped than there is,
always enough), `DropOldestKeeps` (what the shortened descriptor table is),
`PushKeepsRing` (the two-part copy puts position `first + i` behind the kept
bytes, by cases on where the array wraps). A take is the mirror image.

`LossIsReported` needs `LossInv`, which follows a lost byte from the interrupt to
the host. A drop is *settled* when it is neither in the open overflow episode nor
in an overflow frame on its way. A host that has accepted the hello of the running
epoch has received everything the epoch settled since (`ConnectionInv`); a pending
status counts only what was settled when it was sampled (`StatusInv`, since
`drain_one_evidence` sends it after the evidence before it); so the difference to
a session's baseline is at most what its explicit records add up to (`SampleInv`),
and the host's maximum of both is exact (`ReportInv`).

**`ConnectionOwnershipProofs`** holds for any number of sources, any sets of
requests and hazards, and any bound on events. None of the properties is inductive:
each is about one thread, and its truth depends on where the other four are.
The inductive invariant has these parts, one per question:

- `StepsOK`, `ThreadsOK`: at which steps a thread may be, given what it set before,
  and that threads that wait for each other agree on it;
- `LocksOK`: who holds admission and mutation lock, so that two critical sections
  are never open;
- `ShutdownOK`, `FaultOK`: what has stopped by each step of shutdown, and that a
  fault, once recorded, ends the ownership;
- `BetweenOK`, `ReleaseOK`, `ReacquireOK`, `CandidateOK`: what recorder,
  coordinator and the worker's candidate source agree on during a hand-over;
- `OwnersOK`: of the sources that may hold the port, exactly one is known, and to
  whom (recorder, coordinator, candidate, shutdown);
- `IngestOK`, `SegmentOK`: where ingest stands while its source is attached and the
  segment open;
- `JournalOK`: how the connection journal ends, given the ownership state.

Two theorems have an assumption on the constants, because the code does not do
what they say without it. `ReacquiresSettle` assumes that the write of
`reacquire_failed` does not fail: if it does, `recorder.py:818` leaves the state at
reacquiring (observation 12). `JournalStaysAPath` assumes no release requests: a
release that meets a disconnect writes its event after the disconnect (observation
3). The runs check both properties under the same conditions.

**`HelperCommandsProofs`** holds for any number of channels, all sizes, and any
number of connections, evidence frames, driver failures and starved threads, with
the model's scripts. `OutputsAreSafe` speaks of the end of a connection and of the
halted firmware, where the truth depends on what each thread did before it
stopped. The invariant follows that:

- `WaitOK`: a command thread that waits has cancelled everything, so whatever is
  still driven did not obey a driver call;
- `ThreadsOK`: which semaphore is given at which step of which thread, so that a
  wait that ended without a timeout means that the thread is at rest, and a wait
  that timed out leads to the halt only;
- `BusyOK`, `RequestsOK`, `LinesOK`: what the executor is doing is what a decoded
  line asked for, and every byte under way belongs to a line the host sent. Decoding
  is why a pulse has a configured channel to return to its idle level;
- `EndedOK`, `StreamOK`: between connections nothing is driven and no frame is
  under way; a stream is partial only while its frame is being written or after the
  write that ends the epoch.

`DriveApplied` is the lemma about the driver calls: whichever of them fails, no
output changes level while it is enabled, and what is reported as done is done.

`AnswersInOrder` is about the other end of the same threads: the answers that were
written say nothing of the lines that are still on their way, in bytes and then in
requests. `PipeInv` counts along that way. Each stage holds the line that follows
what the later stages hold:

- `NextTaken`, `NextPut` and `NextFramed` number the lines that the executor, the
  command queue and the framer turn to next; `TurnOK` says that the request in each
  of them is that line, of this epoch, and that the response being written is the
  executor's own;
- `BytesOK`: unless input was lost, the framer holds the first m bytes of line
  `NextFramed`, and the chunk, the receive queue and the CDC FIFO together hold the
  rest of it and the lines after it, byte by byte (`Position`);
- `ExactOK`: a request says what its whole line says, also when the line was cut up
  into any chunks or went beyond the frame limit; only such a line is executed;
- `ConnectionOK`, `StoreOK`: lines are sent between the hello and the loss of DTR
  only, and the queues keep to their sizes.

That no byte is missing holds only up to the first lost one, and the loss is what
`BytesOK` excuses: the queue that does not take a byte sets the fault, the receive
thread stops at the next look, and what it read before is still whole. The lemmas
carry this through a sequence of bytes without induction: `RestShifts` and
`PositionOn` move bytes before a newline into the framer, `PositionEnds` ends a line,
`PositionSent` puts a line behind the others, and `MovedUp` moves bytes between the
queues. `FrameBytes` is therefore written in closed form, for all the bytes up to a
newline, not byte by byte.

**`BackendLinkProofs`** holds for any callers, any queue capacity and payload size,
and any number of events, chunks, calls and faults. It assumes of the constants only
that Python's `None` and the waiter named "reader" are not also names of callers,
and that `None` is no answer of the helper. Each property joins what several tasks
and threads did, so none is inductive; `SourceIInv` says of the Basic source

- `HoldingOK`, `ChunksOK`: what the reader thread holds is about to be put, and what
  is kept, queued and held are the chunks 1 to n, each in one place;
- `CloseOK`: the close lock names the one thread that closes, what that thread has
  done by each step, and that nobody reports more than it left;
- `DrainOK`: the recorder's thread finishes only after the close, so an empty queue
  then is a drained queue;
- `SendsOK`: the holder's bytes are the last on the line.

`LinkIInv` says of the Enhanced link

- `ReaderOK`, `OpenOK`: what the reader may hold and which port it reads, and that
  nobody uses a host that is not installed or whose opening failed;
- `HostOK`: one thread performs the close, and whoever was on the loop when it began
  is waited for;
- `DrainedOK`: events taken, drained, queued and awaiting admission are what was
  normalized, in this order, and the drain happens once, with the reader gone;
- `RequestsOK`, `AnswersOK`: one request holds the lock, the first error answers it,
  and a response is to a command that was executed;
- `TransitOK`: while the connection lasts, at most one command is under way - in the
  write, in the helper, on the wire or in the batch - and it is the pending one,
  unanswered. It is why a late answer never reaches the next caller: a request that
  gave up has ended the connection.

**`SessionJournalProofs`** holds for any number of operations, attempts, sessions,
segments, failures and crashes. It assumes that a session's budget admits the
bookkeeping of a rollover - the announcement and one continuation per operation -
and one record more (`BudgetAssumption`: the code's smallest budget is 1 MiB,
`metadata.py:36`, a bookkeeping record a few hundred bytes), and that Python's
`None` is not also a name. The five parts of `JournalIsWhole` speak of single
moments; that they hold depends on what an earlier step of the same rollover wrote
and on what a failure left behind. `JInv` adds

- `SessionsIn`: only an active session owns operations, and it is whole on disk;
- `RangesIn`: a range but the last lies in a session that is *frozen*: ended, filled
  to its budget, or the predecessor of a rollover under way. It is why "closed at
  the predecessor's end", computed when the operation is carried over, is still
  the end after any further step (a failing link leaves both sessions active);
- `PendsIn`: a pending attempt names its record, and the record is not deleted while
  it may be resolved;
- `JobOK`: what each durable write of a rollover may rely on - the successor's log
  holds the announcement and the continuations so far and nothing else, so the next
  record of an operation is contiguous;
- `Owners`: the recorder appends to the only active session, except after a start
  whose failure was let through (observation 7), and what was started is owned,
  ended or interrupted.

A step changes the list of sessions in one of six ways: not at all, by ending
sessions, creating one, linking one, deleting some, or appending one record. For each
there is a lemma about the list alone (`SameKept`, `TerminatedKept`, `CreatedKept`,
`LinkedKept`, `DeletedKept`, `GrownKept`), and one lemma per action shows which one
it is. `AdmittedEnters` does so for the ten units an append may admit.

Retention is proved in the second half of the module, under the same two
assumptions. That a needed session is whole says nothing of why the pass spared it earlier, so the inductive invariant is
`JInv` with

- `Needed`: the sessions of every range an owner claims, the sessions leased by a
  reader or by a tail snapshot and the baseline are whole, and the reader of an
  operation that ended - which can not have been interrupted as well while its
  reader is open - holds every session its terminal record names. The step that
  matters is the append of a terminal record: the owner gives the ranges up in the
  same transaction that extends the reader's lease to them;
- `Watched`: a completed session without a gap on record had the source connected
  for all its records, and the session the recorder appends to next is in the same
  case or has the gap, or its gap record is on the way. Across a rollover made while
  the source is away the successor carries the gap from its first record on.

`SweepIsComplete` needs an argument about numbers: a pass takes the oldest eligible
sessions, as many as the count exceeds the limit by, so either the rest is within the
limit or no eligible session is left. `OldestSuffice` shows, from the oldest eligible
session that is not taken, that the sessions with fewer than *n* older eligible ones
are *n*, or all of them; `SweepEnough` and `StepEnough` lift it to the action.

**`EvidenceReadersProofs`** is about the composition with the two readers, under the
same assumptions and any positive page limit. The readers follow links from session
to session without the lock, so what they see depends on the order in which the
recorder's durable writes, also those of a rollover that failed half-way, left the
links. The invariant is that of the retention proof without `Watched`, and

- `ChainInv`: a link leads forward, to a session that has a record, and every session
  it passes over is an *orphan*, one its predecessor does not link; an orphan holds
  no UART record (it got the bookkeeping of a rollover and no more). The session the
  recorder appends to is the last that is no orphan. So the links lead past every
  UART record;
- `TailInv`: what a tail client was handed, and what its current page has read, are
  records each following the one before it, the client's cursor is behind the last,
  a snapshot is a prefix of its session (all of it, if the session had ended), and an
  expired cursor leads to a session that is gone or was read to its last end;
- `PlaceInv`: the Monitor reader stands at a place of the chain between its start and
  the published tail, under a lease, and has seen exactly the UART records between
  its start and that place;
- `ReachInv`: while the recorder runs, the sessions from the reader's start on are
  linked up to the one the recorder appends to; they belong to the operation as long
  as it is active, and to the lease afterwards, so that retention takes none of them;
  and a reader that was refused belongs to an operation that was interrupted, or that
  a failing recorder completed with evidence short of the published tail.

The step that matters is again the terminal record, where the sessions pass from
the owner's claim to the lease: the reader may stand in any of them, and neither
`PlaceInv` nor `Needed` alone says that they all pass.

**`BoundedOperationProofs`** holds for any sets of Monitors and Interacts, any
inputs, and any bound on faults, disturbances and sessions. It assumes that an
operation is an Interact or not, and has another name than the standalone send
(`OpsAssumption`); that the inputs are sequences of reads (`InputsAssumption`); and
that Python's `None` and the two other threads are names of their own
(`NamesAssumption`). What a call returns depends on who else acted between its steps,
so `ResultIsRecord` is strengthened with

- `LockOK`: a thread inside `_mutation` is the one that holds the lock, and an
  Interact is the owner exactly from its claim to its return;
- `WaitsOK`: an operation that is registered is in `_active_monitors`; lifecycle and
  shutdown hold a set of operations to wait for that no new one can join;
- `RecorderOK`, `EndedOK`: a session that is no longer live has no operation. One
  that is no longer active and has not completed itself was ended by the recorder,
  and its terminal record is in the session that ended, unless a fault or a split
  session kept it from that;
- `DecidedOK`, `ReturnedOK`: an outcome is chosen once, before the completion, and a
  call returns it after the operation has left `active_operations`;
- `AnsweredOK`: an Interact watches for an answer only to what it has sent.

The two parts of `OperationsExclude` are about single steps: given the invariant,
`ExclusiveStep` and `WaitedStep` go through the actions that start an attempt,
release the connection or close the recorder. `ResultStep` has the step that
matters, the completion: `_run_bounded_operation` takes over the record of another
writer only when there is one, and `EndedOK` says that there is.

**Only model-checked.**

- Liveness: the prover here does not reason about fairness or `ENABLED`. That startup
  ends, sessions resolve, requests, reconnects and closes end, evidence drains and
  lines are answered is checked on the runs' instances.
- What a recursive function computes over a whole sequence: the line functions of
  `UartLines`, and with them the properties of `LogQuery` and `MatchIsFirstEligible`
  of `BoundedOperation`.
  The library's induction rules take an operator, which no installed prover can
  instantiate.
- The theorems that name an assumption on what fails or is asked for (`Tolerable`,
  `ReacquiresSettle`, `JournalStaysAPath`) outside of it, where they are false.

## Where code and documentation disagree

Seen while modelling. Where a change of a cfg is given, TLC shows the trace with it.

1. `transactions.py:212`: the metadata rename takes effect, its directory fsync
   fails, and the process dies inside the rollback after truncating. The marker
   still matches the new metadata, so recovery commits a unit whose records are
   gone. `docs/software_architecture.md:352-354`: "metadata-last digest matching
   commits a complete unit, while any earlier interruption restores all append
   offsets and complete-document preimages". (`FaultPoints = {"publish_sync"}`,
   `UnitsAreWhole`.)
2. `store.py:2177`: after a failed rollback the store terminalizes over the pending
   marker (`terminalization_safe` is never read), and the next start restores the
   active preimage of a session that ended. `docs/phase1_implementation_spec.md:1034`:
   "A terminal session never becomes active again." (`FaultPoints = {"append",
   "truncate"}`, `TerminalIsFinal`.)
3. `recorder.py:1354`: a disconnect seen before a release is admitted is journalled
   after `release_requested`, and the release then waits for a drain that nobody
   performs. `docs/phase1_implementation_spec.md:862`: "`release` is an intentional
   ownership transfer, not an unexpected disconnect." (`"disconnect"` among the
   `Hazards` of `ownership_release`: a deadlock.)
4. `backend_reconnect.py:491`: the deadline passes while the candidate is being
   published; the worker gives up without recording the timeout, and the state
   stays `reconnecting`. `docs/phase1_implementation_spec.md:841-844`: "the active
   evidence session terminalizes failed with `reconnect_timeout`, and the service
   becomes `disconnected`". (`"late"` among the `Hazards` of `ownership_reconnect`:
   `ReconnectResolves`.)
5. `backend_reconnect.py:299`: a reacquire finds another device and closes it
   cleanly, and is treated as if the close were unknown.
   `docs/software_architecture.md:488-489`: "confirmed cleanup permits retry; unknown
   cleanup retains a blocking fault and never reports the port free."
6. `usb_connection.c:105`: the timer of a status is read before its place in the
   observation order is taken. A chunk received in between is sent first with the
   later timestamp; if it is the first timestamped message of the connection, the
   host refuses the status (`enhanced.py:321-323`) and the session ends.
7. `recorder.py:527-595`: the start of a Monitor writes its first record outside the
   handler that records a fault, so a failing write leaves the recorder going on
   over a failed session (`OneOwner` excepts it, `spent.swallowed`).
   `docs/reconnect_session_semantics.md:127`: "Persistence failure faults ownership and
   closes physical input". When that start rolls the session over and the failing
   write is the link (`store.py:1106-1113`), both sessions stay active and both own
   the operation that was running; the recorder goes on with the predecessor, the
   operation completes there or in another successor, and the next startup
   interrupts it once more: it has a terminal record and is interrupted. It takes two
   operations (`Ops = {o1, o2}`, `Budget = 4`) and `OneOwner` without its two
   exceptions (`swallowed # 1`, `swallowed = 0`) to see it.
8. `recorder.py:1207-1234`: the recorder flushes the open lines because an event
   would roll over; after the flush the event may fit the old session. The line is
   then cut in the recorder's count but not in a replay: `get_logs` refuses the
   session, and a pattern across the cut is not detected (`split` in `LogQuery`).
9. `retrieval.py:318-340`: a transaction that begins and is rolled back between the
   two marker checks of `get_session` in another process is not noticed: a pattern
   that was withdrawn may be shown, or sound evidence called invalid (`undone`).
10. `runtime.py:1404-1448`: a match found while `reconnect_timed_out` completes the
    operation gives a result "disconnected" with a match, which the journal's record
    does not have. When a rollover falls between the terminal records of two
    operations, `load_v2_operation_terminal` (`store.py:1547-1565`) looks in the
    current session only, and the first caller gets an error (`spent.split`).
    A line that becomes durable between the last wait and the deadline check is
    reported as a timeout.
11. `enhanced_serial.py:453-464`: when the close of the port fails, it raises before
    the queued events are drained (`closeError` in `NoEventLost`).
    `startup.py:169-177`: when `wait_for_segment` raises, the host is not closed and
    its loop keeps the process alive (`abandoned`). `basic.py`: after a persistence
    fault with a full queue the daemon reader stays blocked; after an unconfirmed
    close `has_pending_events` can miss a chunk.
12. A failing write of `reacquire_failed` leaves the state `reacquiring`
    (`recorder.py:818`); a failing first write of a bounded operation fails the
    session while the recorder stays connected (`recorder.py:554`); when the
    admission of a status itself causes a rollover, the loss it carries is counted in
    the new session as well, which is why after a rollover `LossNotUnderstated` and
    not `LossIsExact` is claimed.

## Not modelled

Left out for good: parsing, validation and formatting of single values
(configuration files, profiles, NDJSON messages, metadata fields, response
encoding), the HTTP, CLI and MCP front ends (no state between calls), port
discovery, session comparison (formatting of two details), the projections of the
first format version, the debug agent (text around an external language model), the
stack probe, the DUT fixture, board files, CI and packaging.

Within the modelled parts: record contents, device identity, back-off delays and
clock values other than the helper's timestamps are abstract; regular expressions
are one abstract pattern; sequence numbers and counters are unbounded naturals (the
code's are 64-bit); directories whose creation was cut short are ignored by every
reader and are not represented; device actions in `BoundedOperation` are one send,
since control actions take the same path; the USB thread's evidence frames are in
`HelperCommands` only the writes they cost.
