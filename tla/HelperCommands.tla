--------------------------- MODULE HelperCommands ---------------------------
(***************************************************************************)
(* Host commands inside the Enhanced Debug Helper firmware: the CDC        *)
(* interrupt, the receive thread that frames and decodes host lines, the   *)
(* command thread that runs them on the control pins and the DUT UART, and *)
(* the USB thread that starts and ends epochs and writes the responses     *)
(* (command_runtime.c, command_executor.c, command_ingress.c,              *)
(* command_decode.c, ndjson_framer.c, control_state.c, platform_io.c,      *)
(* uart_tx*.c, cdc_tx*.c and the command side of usb_connection.c).        *)
(*                                                                         *)
(* The i-th line the host sends in a connection is tokens <<i, "b">>, one  *)
(* per body byte, and <<i, "nl">>; what the bytes say is a record of       *)
(* fields.  Evidence frames are only the writes they cost here; the epoch  *)
(* debounce and the evidence itself are in HelperEvidence.  A deadline may *)
(* have passed at any poll.  One service of the executor is one step: the  *)
(* other threads touch nothing it uses but through atomics and semaphores. *)
(***************************************************************************)
EXTENDS Integers, Sequences, FiniteSets, SequencesExt

CONSTANTS
    None,
    Channels,       \* control channels (DMH_CONTROL_CHANNEL_COUNT)
    MaxPending,     \* DMH_HOST_FRAME_MAX_PENDING_BYTES
    RxCapacity,     \* capacity of cdc_rx_queue (DMH_HOST_FRAME_MAX_BYTES)
    Chunk,          \* DUTCHMATE_CDC_RX_CHUNK_BYTES
    PulseMax,       \* DMH_CONTROL_PULSE_MAX_MS
    BatchBudget,    \* OUTPUT_DRAIN_BATCH_BUDGET
    MaxOpens,       \* bound on connections
    MaxEvidence,    \* bound on evidence frames
    MaxFaults       \* bound on driver failures and starved threads

ASSUME CommandSizes ==
    /\ {MaxPending, RxCapacity, Chunk, PulseMax, BatchBudget} \subseteq Nat \ {0}
    /\ {MaxOpens, MaxEvidence, MaxFaults} \subseteq Nat

VARIABLES
    host,      \* the host, its lines (first: of this connection) and the CDC FIFO
    rt,        \* atomics and semaphores of command_runtime.c
    queue,     \* command_queue, at most one entry
    rx,        \* the receive thread with its framer and chunk
    cmd,       \* the command thread and the executor
    ctl,       \* dmh_control: channels and the pulse in progress
    pins,      \* the enable and data output of every channel
    uart,      \* dmh_uart_tx and its interrupt
    cdc,       \* dmh_cdc_tx and its interrupt
    main,      \* the USB thread
    answers,   \* ghost: responses completely written in this connection
    dutBytes,  \* ghost: bytes of the current send that reached the DUT
    stream,    \* ghost: "whole", "partial" frame sent, or "torn": begun after one
    spent      \* driver failures and starved threads so far

vars == <<host, rt, queue, rx, cmd, ctl, pins, uart, cdc, main, answers,
          dutBytes, stream, spent>>

(***************************************************************************)
(* Host lines and their decoding                                           *)
(***************************************************************************)
Blank == [len |-> 1, parse |-> "ok", cmd |-> None, channel |-> None,
          mode |-> None, active |-> None, idle |-> None, pulse |-> None,
          state |-> None, data |-> None]

OptionalFields == {"channel", "mode", "active", "idle", "pulse", "state", "data"}
Present(b) == {f \in OptionalFields : b[f] # None}
Levels == {"low", "high"}

ConfigureLine(c, m, a, i) ==
    [Blank EXCEPT !.cmd = "configure_gpio_mode", !.channel = c, !.mode = m,
                  !.active = a, !.idle = i]

PulseLine(c, ms) ==
    [Blank EXCEPT !.cmd = "pulse_control", !.channel = c, !.pulse = ms]
StateLine(c, state) ==
    [Blank EXCEPT !.cmd = "set_control_state", !.channel = c, !.state = state]
UartLine(n, len) == [Blank EXCEPT !.cmd = "uart_send", !.data = n, !.len = len]
BrokenLine == [Blank EXCEPT !.parse = "invalid_command"]

\* What the host sends: every command, and lines the helper must refuse.
Scripts ==
    (UNION {{<<ConfigureLine(c, "push_pull", "high", "low"), PulseLine(c, PulseMax)>>,
             <<ConfigureLine(c, "open_drain", "low", None), StateLine(c, "active")>>,
             <<PulseLine(c, PulseMax), BrokenLine>>} : c \in Channels})
    \union {<<UartLine(1, MaxPending + 1), UartLine(2, MaxPending)>>}

ScriptLength == 2

KnownChannel(b) == b.channel \in Channels
EncodedData(b) == b.data > 0

DecodeConfigure(b) ==
    /\ KnownChannel(b)
    /\ b.active \in Levels
    /\ \/ /\ b.mode = "open_drain"
          /\ Present(b) = {"channel", "mode", "active"}
          /\ b.active = "low"
       \/ /\ b.mode = "push_pull"
          /\ Present(b) = {"channel", "mode", "active", "idle"}
          /\ b.idle \in Levels
          /\ b.active # b.idle

DecodePulse(b) ==
    /\ Present(b) = {"channel", "pulse"}
    /\ b.pulse \in 1 .. PulseMax
    /\ KnownChannel(b)

DecodeState(b) ==
    /\ Present(b) = {"channel", "state"}
    /\ KnownChannel(b)
    /\ b.state \in {"active", "idle"}

DecodeUartSend(b) == Present(b) = {"data"} /\ EncodedData(b)

\* parse_object: the fields of one flat object, or why it is none.
Parsed(b) == b.parse = "ok"

\* The request kinds: a decoded command, or which refusal it gets.
CommandDecode(b) ==
    LET valid(ok) == IF ok THEN "command" ELSE "invalid_argument" IN
    IF ~Parsed(b) THEN b.parse ELSE
    CASE b.cmd = "configure_gpio_mode"   -> valid(DecodeConfigure(b))
      [] b.cmd = "pulse_control"         -> valid(DecodePulse(b))
      [] b.cmd = "set_control_state"     -> valid(DecodeState(b))
      [] b.cmd = "uart_send"             -> valid(DecodeUartSend(b))
      [] OTHER                           -> "invalid_command"

Body(i) == [k \in 1 .. host.lines[i].len |-> <<i, "b">>]
Line(i, b) == [k \in 1 .. b.len |-> <<i, "b">>] \o << <<i, "nl">> >>

\* A complete frame is decoded; bytes that are not one whole line are not JSON.
Request(frame, i) ==
    [id |-> i,
     kind |-> IF frame = Body(i) THEN CommandDecode(host.lines[i])
              ELSE "invalid_command"]

(***************************************************************************)
(* Framing: dmh_ndjson_framer_feed over bytes before a newline, and at one *)
(***************************************************************************)
Framer == [pending |-> << >>, discarding |-> FALSE]

\* Mutant: what follows the limit is taken for the next frame.
FrameBytesNoDiscard(f, bytes) ==
    IF Len(f.pending) + Len(bytes) > MaxPending
    THEN [f EXCEPT !.pending = << >>]
    ELSE [f EXCEPT !.pending = @ \o bytes]

\* Bytes are appended until one exceeds the limit; then nothing is kept.
FrameBytes(f, bytes) ==
    IF f.discarding THEN f
    ELSE IF Len(f.pending) + Len(bytes) > MaxPending
    THEN [pending |-> << >>, discarding |-> TRUE]
    ELSE [pending |-> f.pending \o bytes, discarding |-> FALSE]

FrameEnd(f, i) ==
    IF f.discarding THEN [id |-> i, kind |-> "invalid_argument"]
    ELSE Request(f.pending, i)

(***************************************************************************)
(* Control pins                                                            *)
(***************************************************************************)
NoFail == [k \in 1 .. 4 |-> FALSE]
\* The driver calls of one drive change that can fail together.
FailPatterns == {[k \in 1 .. 4 |-> k \in S] : S \in {{1}, {2}, {3}, {1, 2}, {3, 4}}}

SetEnable(p, on, fails) == IF fails THEN p ELSE [p EXCEPT !.enable = on]
SetData(p, level, fails) ==
    IF fails THEN p
    ELSE [p EXCEPT !.data = level, !.glitch = @ \/ (p.enable /\ p.data # level)]

DriveLevel(drive) == IF drive = "high" THEN "high" ELSE "low"

DriveApply(p, drive, f) ==
    LET off == SetEnable(p, FALSE, f[1])
        set == SetData(off, DriveLevel(drive), f[2])
        on  == SetEnable(set, TRUE, f[3]) IN
    IF f[1] THEN [pin |-> SetEnable(p, FALSE, f[2]), ok |-> FALSE]
    ELSE IF f[2] \/ drive = "high_z" THEN [pin |-> set, ok |-> ~f[2]]
    ELSE IF f[3] THEN [pin |-> SetEnable(on, FALSE, f[4]), ok |-> FALSE]
    ELSE [pin |-> on, ok |-> TRUE]

Unconfigured == [configured |-> FALSE, mode |-> "open_drain", active |-> "low",
                 idle |-> "low", drive |-> "high_z"]

ConfiguredDrive(channel, state) ==
    IF channel.mode = "open_drain" /\ state = "idle" THEN "high_z"
    ELSE IF state = "active" THEN channel.active ELSE channel.idle

\* A driver call may fail while the budget lasts.
Outcomes == IF spent < MaxFaults THEN {NoFail} \union FailPatterns ELSE {NoFail}
Spend(f) == spent' = IF f = NoFail THEN spent ELSE spent + 1

\* Drive channel c, whose record becomes ch if that succeeds; old otherwise.
Drive(c, ch, drive, f) ==
    LET r == DriveApply(pins[c], drive, f) IN
    /\ pins' = [pins EXCEPT ![c] = [r.pin EXCEPT !.failed = @ \/ ~r.ok]]
    /\ ctl' = [ctl EXCEPT !.channels[c] =
                  IF r.ok THEN [ch EXCEPT !.drive = drive]
                  ELSE [ctl.channels[c] EXCEPT !.drive = "high_z"]]
    /\ Spend(f)

DriveOk(c, drive, f) == DriveApply(pins[c], drive, f).ok

\* Mutant: the pulse is forgotten, the outputs keep their level.
ControlEndEpochPulseOnly(fs) ==
    /\ ctl' = [ctl EXCEPT !.pulse = None,
                          !.channels = [c \in Channels |-> Unconfigured]]
    /\ UNCHANGED pins

ControlEndEpoch(fs) ==
    /\ ctl' = [ctl EXCEPT !.pulse = None,
                          !.channels = [c \in Channels |->
                              [ctl.channels[c] EXCEPT !.configured = FALSE, !.drive = "high_z"]]]
    /\ pins' = [c \in Channels |->
                  LET r == DriveApply(pins[c], "high_z", fs[c]) IN
                  [r.pin EXCEPT !.failed = @ \/ ~r.ok]]

ControlEndOk(fs) == \A c \in Channels : DriveApply(pins[c], "high_z", fs[c]).ok

\* dutchmate_platform_io_force_safe: the enable outputs in bad do not obey.
ForceSafe(bad) ==
    pins' = [c \in Channels |->
                [pins[c] EXCEPT !.enable = @ /\ c \in bad, !.data = "low",
                                !.failed = @ \/ c \in bad]]
BadSets == IF spent < MaxFaults THEN {{}, Channels} ELSE {{}}
SpendIf(b) == spent' = IF b THEN spent + 1 ELSE spent

(***************************************************************************)
(* Initial state: main() has made the pins safe and the threads wait       *)
(***************************************************************************)
SafePin == [enable |-> FALSE, data |-> "low", glitch |-> FALSE, failed |-> FALSE]
UartTxInit == [state |-> "idle", length |-> 0, queued |-> 0, irq |-> FALSE, kick |-> FALSE]
CdcTxIdle == [state |-> "idle", frame |-> None, left |-> 0]

Init ==
    /\ \E script \in Scripts :
       host = [script |-> script, dtr |-> FALSE, wire |-> << >>, lines |-> << >>, first |-> 1,
               opens |-> 0, greeted |-> FALSE]
    /\ rt = [active |-> FALSE, number |-> 0, fault |-> FALSE, outstanding |-> FALSE,
             endOk |-> TRUE, ready |-> FALSE, consumed |-> FALSE, rxStart |-> FALSE,
             cmdStart |-> FALSE, rxStopped |-> FALSE, cmdStopped |-> FALSE,
             input |-> << >>]
    /\ queue = << >>
    /\ rx = [pc |-> "wait", epoch |-> 0, chunk |-> << >>, framer |-> Framer,
             request |-> None]
    /\ cmd = [pc |-> "wait", epoch |-> 0, state |-> "idle", id |-> 0, result |-> None]
    /\ ctl = [channels |-> [c \in Channels |-> Unconfigured], pulse |-> None]
    /\ pins = [c \in Channels |-> SafePin]
    /\ uart = UartTxInit
    /\ cdc = CdcTxIdle
    /\ main = [pc |-> "off", drained |-> 0, evidence |-> 0, next |-> "off", ok |-> TRUE]
    /\ answers = << >>
    /\ dutBytes = 0
    /\ stream = "whole"
    /\ spent = 0

MarkRuntimeFault == rt' = [rt EXCEPT !.fault = TRUE]
EpochMatches(e) == rt.active /\ rt.number = e

(***************************************************************************)
(* The host: opens and closes the port, and sends lines once it was greeted *)
(***************************************************************************)
HostSend ==
    /\ host.dtr /\ host.greeted /\ main.pc # "dead"
    /\ Len(host.lines) < Len(host.script)
    /\ LET i == Len(host.lines) + 1 IN
       host' = [host EXCEPT !.lines = Append(@, host.script[i]),
                            !.wire = @ \o Line(i, host.script[i])]
    /\ UNCHANGED <<rt, queue, rx, cmd, ctl, pins, uart, cdc, main, answers, dutBytes,
                   stream, spent>>

HostDtr ==
    /\ main.pc # "dead"
    /\ \/ ~host.dtr /\ host.opens < MaxOpens
          /\ host' = [host EXCEPT !.dtr = TRUE, !.opens = @ + 1]
       \/ host.dtr /\ host' = [host EXCEPT !.dtr = FALSE, !.greeted = FALSE]
    /\ UNCHANGED <<rt, queue, rx, cmd, ctl, pins, uart, cdc, main, answers, dutBytes,
                   stream, spent>>

(***************************************************************************)
(* CDC interrupt, receive side: a chunk is read and put byte by byte       *)
(***************************************************************************)
OnCdcRxReady ==
    /\ rt.active /\ host.wire # << >>
    /\ LET n == IF Len(host.wire) < Chunk THEN Len(host.wire) ELSE Chunk
           fits == IF n <= RxCapacity - Len(rt.input) THEN n
                   ELSE RxCapacity - Len(rt.input) IN
       /\ rt' = [rt EXCEPT !.input = @ \o SubSeq(host.wire, 1, fits),
                           !.fault = @ \/ fits < n]
       /\ host' = [host EXCEPT !.wire = SubSeq(@, n + 1, Len(@))]
    /\ UNCHANGED <<queue, rx, cmd, ctl, pins, uart, cdc, main, answers, dutBytes,
                   stream, spent>>

\* The driver reports readable input and then returns none.
OnCdcRxFails ==
    /\ rt.active /\ spent < MaxFaults
    /\ MarkRuntimeFault
    /\ SpendIf(TRUE)
    /\ UNCHANGED <<host, queue, rx, cmd, ctl, pins, uart, cdc, main, answers, dutBytes,
                   stream>>

(***************************************************************************)
(* The receive thread                                                      *)
(***************************************************************************)
RxElsewhere == UNCHANGED <<host, cmd, ctl, pins, uart, cdc, main, answers, dutBytes,
                           stream, spent>>
RxRuns == EpochMatches(rx.epoch) /\ ~rt.fault

RxBegins ==
    /\ rx.pc = "wait" /\ rt.rxStart
    /\ rt' = [rt EXCEPT !.rxStart = FALSE]
    /\ rx' = [rx EXCEPT !.pc = "run", !.epoch = rt.number, !.framer = Framer,
                        !.chunk = << >>]
    /\ UNCHANGED queue
    /\ RxElsewhere

\* A chunk is read when the last one is used up, and dmh_command_ingress_feed
\* takes it up to its first newline, or all of it.
RxFeeds ==
    /\ rx.pc = "run" /\ RxRuns /\ rx.chunk \o rt.input # << >>
    /\ LET reads == IF rx.chunk # << >> THEN 0
                    ELSE IF Len(rt.input) < Chunk THEN Len(rt.input) ELSE Chunk
           chunk == rx.chunk \o SubSeq(rt.input, 1, reads)
           ends == {k \in DOMAIN chunk : chunk[k][2] = "nl"}
           n == IF ends = {} THEN Len(chunk) + 1 ELSE Min(ends)
           framer == FrameBytes(rx.framer, SubSeq(chunk, 1, n - 1)) IN
       /\ rx' = IF ends = {}
                THEN [rx EXCEPT !.chunk = << >>, !.framer = framer]
                ELSE [rx EXCEPT !.chunk = SubSeq(chunk, n + 1, Len(chunk)),
                                !.framer = Framer, !.pc = "queue",
                                !.request = FrameEnd(framer, chunk[n][1])]
       /\ rt' = [rt EXCEPT !.input = SubSeq(@, reads + 1, Len(@))]
    /\ UNCHANGED queue
    /\ RxElsewhere

\* queue_request: the epoch is looked at, then the put waits up to 1 ms for
\* the single slot, in which time the epoch may end.
RxChecksEpoch ==
    /\ rx.pc = "queue" /\ RxRuns
    /\ rx' = [rx EXCEPT !.pc = "put"]
    /\ UNCHANGED <<rt, queue>>
    /\ RxElsewhere

QueueRequest ==
    /\ rx.pc = "put"
    /\ \/ /\ queue = << >>
          /\ queue' = <<[epoch |-> rx.epoch, request |-> rx.request]>>
          /\ rx' = [rx EXCEPT !.pc = "run", !.request = None]
       \/ /\ queue # << >>
          /\ rx' = [rx EXCEPT !.pc = "queue"]
          /\ UNCHANGED queue
    /\ UNCHANGED rt
    /\ RxElsewhere

RxStops ==
    /\ rx.pc \in {"run", "queue"} /\ ~RxRuns
    /\ rx' = [rx EXCEPT !.pc = "wait", !.framer = Framer, !.chunk = << >>,
                        !.request = None]
    /\ rt' = [rt EXCEPT !.rxStopped = TRUE]
    /\ UNCHANGED queue
    /\ RxElsewhere

(***************************************************************************)
(* The command thread: service_executor and the executor it drives         *)
(***************************************************************************)
CmdElsewhere == UNCHANGED <<host, rx, cdc, main, answers, stream>>
\* run_command_epoch has looked at the epoch and at the fault; both may change
\* before service_executor acts.
Serving == cmd.pc = "serve"

\* A response is staged and published in one service.
Publish(result) ==
    /\ cmd' = [cmd EXCEPT !.pc = "run", !.state = "response", !.result = result]
    /\ rt' = [rt EXCEPT !.outstanding = TRUE, !.ready = TRUE]

CmdBegins ==
    /\ cmd.pc = "wait" /\ rt.cmdStart
    /\ rt' = [rt EXCEPT !.cmdStart = FALSE]
    /\ cmd' = [cmd EXCEPT !.pc = "run", !.epoch = rt.number]
    /\ UNCHANGED <<queue, ctl, pins, uart, dutBytes, spent>>
    /\ CmdElsewhere

ResponseConsumed ==
    /\ rt' = [rt EXCEPT !.consumed = FALSE, !.outstanding = FALSE]
    /\ cmd' = [cmd EXCEPT !.pc = "run", !.state = "idle"]

CmdConsumes ==
    /\ Serving /\ rt.outstanding /\ rt.consumed
    /\ ResponseConsumed
    /\ UNCHANGED <<queue, ctl, pins, uart, dutBytes, spent>>
    /\ CmdElsewhere

CmdChecks ==
    /\ cmd.pc = "run" /\ EpochMatches(cmd.epoch) /\ ~rt.fault
    /\ cmd' = [cmd EXCEPT !.pc = "serve"]
    /\ UNCHANGED <<rt, queue, ctl, pins, uart, dutBytes, spent>>
    /\ CmdElsewhere

\* Nothing to do: no consumed response, no request.  A pulse or a transmission
\* whose deadline has not passed is polled again, unless the epoch ended.
CmdIdles ==
    /\ Serving
    /\ IF rt.outstanding THEN ~rt.consumed ELSE cmd.state = "idle" => queue = << >>
    /\ ~rt.outstanding => cmd.state = "idle" \/ ~rt.active
    /\ cmd' = [cmd EXCEPT !.pc = "run"]
    /\ UNCHANGED <<rt, queue, ctl, pins, uart, dutBytes, spent>>
    /\ CmdElsewhere

\* The request leaves the queue; one of another epoch is dropped.
Taken == /\ Serving /\ ~rt.outstanding /\ cmd.state = "idle" /\ queue # << >>
         /\ queue' = << >>
Submitted == Taken /\ queue[1].epoch = cmd.epoch
Theirs == queue[1].request.id
What == host.lines[Theirs]

ForId(state, result) ==
    cmd' = [cmd EXCEPT !.pc = "run", !.id = Theirs, !.state = state, !.result = result]
Answer(result) ==
    /\ ForId("response", result)
    /\ rt' = [rt EXCEPT !.outstanding = TRUE, !.ready = TRUE]

\* map_control_result
ControlAnswer(ok) == Answer(IF ok THEN "ok" ELSE "hardware_fault")

Rejects ==
    /\ Taken /\ (queue[1].epoch # cmd.epoch \/ queue[1].request.kind # "command")
    /\ IF queue[1].epoch # cmd.epoch
       THEN cmd' = [cmd EXCEPT !.pc = "run"] /\ UNCHANGED rt
       ELSE Answer(queue[1].request.kind)
    /\ UNCHANGED <<ctl, pins, uart, dutBytes, spent>>
    /\ CmdElsewhere

CommandIs(name) == Submitted /\ queue[1].request.kind = "command" /\ What.cmd = name

\* The channel's record as it is requested; its idle drive is applied first.
ControlConfigure(line) ==
    LET requested == [configured |-> TRUE, mode |-> line.mode, active |-> line.active,
                      idle |-> IF line.idle = None THEN "low" ELSE line.idle,
                      drive |-> "high_z"]
        drive == ConfiguredDrive(requested, "idle") IN
    \E f \in Outcomes :
        /\ Drive(line.channel, requested, drive, f)
        /\ ControlAnswer(DriveOk(line.channel, drive, f))

SubmitConfigure ==
    /\ CommandIs("configure_gpio_mode")
    /\ ControlConfigure(What)
    /\ UNCHANGED <<uart, dutBytes>>
    /\ CmdElsewhere

NotConfigured ==
    /\ \/ CommandIs("set_control_state")
       \/ CommandIs("pulse_control")
    /\ ~ctl.channels[What.channel].configured
    /\ Answer("not_configured")
    /\ UNCHANGED <<ctl, pins, uart, dutBytes, spent>>
    /\ CmdElsewhere

\* apply_configured_state
ControlSetState(c, state) ==
    LET drive == ConfiguredDrive(ctl.channels[c], state) IN
    \E f \in Outcomes :
        /\ Drive(c, ctl.channels[c], drive, f)
        /\ ControlAnswer(DriveOk(c, drive, f))

SubmitControlState ==
    /\ CommandIs("set_control_state") /\ ctl.channels[What.channel].configured
    /\ ControlSetState(What.channel, What.state)
    /\ UNCHANGED <<uart, dutBytes>>
    /\ CmdElsewhere

ControlPulseStart(c) ==
    LET drive == ConfiguredDrive(ctl.channels[c], "active") IN
    \E f \in Outcomes :
        LET r == DriveApply(pins[c], drive, f) IN
        /\ pins' = [pins EXCEPT ![c] = [r.pin EXCEPT !.failed = @ \/ ~r.ok]]
        /\ Spend(f)
        /\ ctl' = [ctl EXCEPT !.channels[c].drive = IF r.ok THEN drive ELSE "high_z",
                              !.pulse = IF r.ok THEN c ELSE @]
        /\ IF r.ok THEN ForId("pulse", None) /\ UNCHANGED rt
           ELSE ControlAnswer(FALSE)

SubmitPulse ==
    /\ CommandIs("pulse_control") /\ ctl.channels[What.channel].configured
    /\ ControlPulseStart(What.channel)
    /\ UNCHANGED <<uart, dutBytes>>
    /\ CmdElsewhere

PulseEnds(f) ==
    LET c == ctl.pulse
        drive == ConfiguredDrive(ctl.channels[c], "idle")
        r == DriveApply(pins[c], drive, f) IN
    /\ pins' = [pins EXCEPT ![c] = [r.pin EXCEPT !.failed = @ \/ ~r.ok]]
    /\ ctl' = [ctl EXCEPT !.pulse = None,
                          !.channels[c].drive = IF r.ok THEN drive ELSE "high_z"]
    /\ Spend(f)
    /\ Publish(IF r.ok THEN "ok" ELSE "hardware_fault")

PollPulse ==
    /\ Serving /\ ~rt.outstanding /\ cmd.state = "pulse"
    /\ \E f \in Outcomes : PulseEnds(f)
    /\ UNCHANGED <<queue, uart, dutBytes>>
    /\ CmdElsewhere

UartTxPending(n) == [uart EXCEPT !.state = "pending", !.length = n, !.queued = 0]

\* dutchmate_uart_tx_start: pending, and a work item to enable the interrupt,
\* unless the work queue refuses it.
UartTxStart(n, started) ==
    \/ /\ started
       /\ uart' = [UartTxPending(n) EXCEPT !.kick = TRUE]
       /\ dutBytes' = 0
       /\ UNCHANGED spent
    \/ /\ ~started /\ spent < MaxFaults
       /\ SpendIf(TRUE)
       /\ UNCHANGED <<uart, dutBytes>>

SubmitUart ==
    /\ CommandIs("uart_send")
    /\ \/ UartTxStart(What.data, TRUE) /\ ForId("uart", None) /\ UNCHANGED rt
       \/ UartTxStart(What.data, FALSE) /\ Answer("hardware_fault")
    /\ UNCHANGED <<ctl, pins>>
    /\ CmdElsewhere

\* A terminal state, or the deadline has passed.
UartEnded == uart.state \in {"pending", "completed", "fault"}

UartTxIdle == [uart EXCEPT !.state = "idle", !.length = 0, !.queued = 0,
                           !.irq = @ /\ uart.state # "pending"]

\* dmh_uart_tx_poll: a terminal state is reported once and becomes idle; a
\* pending transmission is stopped by its deadline.
UartTxPolled ==
    CASE uart.state = "completed" -> "ok"
      [] uart.state = "fault"     -> "hardware_fault"
      [] OTHER                    -> "timeout"

PollUart ==
    /\ Serving /\ ~rt.outstanding /\ cmd.state = "uart" /\ UartEnded
    /\ uart' = UartTxIdle
    /\ Publish(UartTxPolled)
    /\ UNCHANGED <<queue, ctl, pins, dutBytes, spent>>
    /\ CmdElsewhere

CancelEpoch(fs) ==
    /\ uart' = UartTxIdle
    /\ cmd' = [cmd EXCEPT !.pc = "wait", !.state = "idle", !.result = None]
    /\ ControlEndEpoch(fs)

CmdStops ==
    /\ cmd.pc = "run" /\ ~EpochMatches(cmd.epoch)
    /\ \E f \in Outcomes :
         \E fs \in {[c \in Channels |-> f]} :
           /\ CancelEpoch(fs)
           /\ Spend(f)
           /\ rt' = [rt EXCEPT !.outstanding = FALSE, !.ready = FALSE,
                               !.consumed = FALSE, !.cmdStopped = TRUE,
                               !.endOk = ControlEndOk(fs)]
    /\ queue' = << >>
    /\ UNCHANGED dutBytes
    /\ CmdElsewhere

(***************************************************************************)
(* DUT UART transmit interrupt and its work item                           *)
(***************************************************************************)
UartElsewhere == UNCHANGED <<host, rt, queue, rx, cmd, ctl, pins, cdc, main, answers,
                             stream>>

KickTransmission ==
    /\ uart.kick
    /\ uart' = [uart EXCEPT !.kick = FALSE, !.irq = TRUE]
    /\ UNCHANGED <<dutBytes, spent>>
    /\ UartElsewhere

UartAllQueued(n) == uart.queued + n = uart.length

\* dmh_uart_tx_on_interrupt: n more bytes fit; the last may still be shifting.
UartTxOnInterrupt(n) ==
    /\ uart.irq
    /\ \/ /\ uart.state # "pending"
          /\ uart' = [uart EXCEPT !.irq = FALSE]
          /\ UNCHANGED dutBytes
       \/ /\ uart.state = "pending" /\ n <= uart.length - uart.queued
          /\ n = 0 => uart.queued = uart.length
          /\ dutBytes' = dutBytes + n
          /\ \E shifted \in BOOLEAN :
               uart' = IF shifted /\ UartAllQueued(n)
                       THEN [uart EXCEPT !.queued = @ + n, !.state = "completed",
                                         !.irq = FALSE]
                       ELSE [uart EXCEPT !.queued = @ + n]
    /\ UNCHANGED spent
    /\ UartElsewhere

UartTxDriverFault ==
    /\ uart.state = "pending" /\ spent < MaxFaults
    /\ uart' = [uart EXCEPT !.state = "fault", !.irq = FALSE]
    /\ SpendIf(TRUE)
    /\ UNCHANGED dutBytes
    /\ UartElsewhere

(***************************************************************************)
(* CDC transmitter                                                         *)
(***************************************************************************)
FrameUnits == 2   \* a frame takes more than one write of the CDC FIFO

CdcTxStart(frame) ==
    [state |-> "pending", frame |-> frame, left |-> FrameUnits]

CdcElsewhere == UNCHANGED <<host, rt, queue, rx, cmd, ctl, pins, uart, main, answers,
                            dutBytes>>

\* dmh_cdc_tx_on_writable: the interrupt is enabled while a frame is pending.
CdcTxOnWritable ==
    /\ cdc.state = "pending"
    /\ stream' = IF stream = "torn" THEN stream
                 ELSE IF cdc.left = 1 THEN "whole" ELSE "partial"
    /\ cdc' = [cdc EXCEPT !.left = @ - 1,
                          !.state = IF cdc.left = 1 THEN "completed" ELSE @]
    /\ UNCHANGED spent
    /\ CdcElsewhere

CdcTxDriverFault ==
    /\ cdc.state = "pending" /\ spent < MaxFaults
    /\ cdc' = [cdc EXCEPT !.state = "fault"]
    /\ SpendIf(TRUE)
    /\ UNCHANGED stream
    /\ CdcElsewhere

(***************************************************************************)
(* The USB thread: dutchmate_usb_connection_run                            *)
(***************************************************************************)
MainElsewhere == UNCHANGED <<queue, rx, cmd, ctl, uart, dutBytes>>

\* dutchmate_command_runtime_discard_input; the connection's lines come after it.
DiscardInput ==
    /\ rt' = [rt EXCEPT !.input = << >>]
    /\ host' = [host EXCEPT !.wire = << >>]

Dead(bad) == main' = [main EXCEPT !.pc = "dead"] /\ ForceSafe(bad)

\* The epoch begins: old input goes, the host is told, the hello is written.
MainOpens ==
    /\ main.pc = "off" /\ host.dtr
    /\ DiscardInput
    /\ \/ /\ cdc' = CdcTxStart("hello")
          /\ stream' = IF stream = "torn" THEN stream ELSE "whole"
          /\ main' = [main EXCEPT !.pc = "hello"]
          /\ UNCHANGED <<pins, spent>>
       \/ /\ spent < MaxFaults
          /\ SpendIf(TRUE)
          /\ Dead({})
          /\ UNCHANGED <<cdc, stream>>
    /\ answers' = << >>
    /\ MainElsewhere

\* Mutant: the receive thread is not started.
StartCommandsOnly ==
    /\ rt' = [rt EXCEPT !.active = TRUE, !.number = @ + 1, !.fault = FALSE,
                        !.endOk = TRUE, !.outstanding = FALSE, !.input = << >>,
                        !.rxStopped = FALSE, !.cmdStopped = FALSE, !.ready = FALSE,
                        !.consumed = FALSE, !.cmdStart = TRUE]
    /\ queue' = << >>

\* dutchmate_command_runtime_start_epoch
StartEpoch ==
    /\ rt' = [rt EXCEPT !.active = TRUE, !.number = @ + 1, !.fault = FALSE,
                        !.endOk = TRUE, !.outstanding = FALSE, !.input = << >>,
                        !.rxStopped = FALSE, !.cmdStopped = FALSE, !.ready = FALSE,
                        !.consumed = FALSE, !.rxStart = TRUE, !.cmdStart = TRUE]
    /\ queue' = << >>

\* write_complete_frame finds the frame completely accepted.
Written == main.pc \in {"hello", "response", "evidence"} /\ host.dtr
           /\ cdc.state = "completed" /\ cdc' = CdcTxIdle

HelloWritten ==
    /\ Written /\ main.pc = "hello"
    /\ \/ /\ StartEpoch
          /\ host' = [host EXCEPT !.greeted = TRUE, !.first = Len(host.lines) + 1,
                                  !.lines = [k \in DOMAIN @ |-> Blank]]
          /\ main' = [main EXCEPT !.pc = "loop", !.drained = 0]
          /\ UNCHANGED <<pins, spent>>
       \/ /\ spent < MaxFaults            \* dutchmate_uart_rx_start fails
          /\ SpendIf(TRUE)
          /\ Dead({})
          /\ UNCHANGED <<rt, queue, host>>
    /\ UNCHANGED <<rx, cmd, ctl, uart, dutBytes, answers, stream>>

\* dutchmate_command_runtime_response_sent
ResponseSent == rt' = [rt EXCEPT !.consumed = rt.outstanding]

FrameWritten ==
    /\ Written /\ main.pc # "hello"
    /\ IF main.pc = "response"
       THEN ResponseSent /\ answers' = Append(answers, cdc.frame)
       ELSE UNCHANGED <<rt, answers>>
    /\ main' = IF main.drained + 1 < BatchBudget
               THEN [main EXCEPT !.pc = "drain", !.drained = @ + 1]
               ELSE [main EXCEPT !.pc = "loop"]
    /\ UNCHANGED <<host, pins, stream, spent>>
    /\ MainElsewhere

\* The top of the loop finds the epoch still alive and starts a batch.
MainDrains ==
    /\ main.pc = "loop" /\ host.dtr /\ ~rt.fault
    /\ main' = [main EXCEPT !.pc = "drain", !.drained = 0]
    /\ UNCHANGED <<host, rt, pins, cdc, answers, stream, spent>>
    /\ MainElsewhere

\* A new frame behind one that was not completely accepted tears the stream.
Follows == IF stream = "partial" THEN "torn" ELSE stream

TakeResponse ==
    /\ main.pc = "drain" /\ rt.ready
    /\ rt' = [rt EXCEPT !.ready = FALSE]
    /\ cdc' = CdcTxStart([id |-> cmd.id, result |-> cmd.result])
    /\ stream' = Follows
    /\ main' = [main EXCEPT !.pc = "response"]
    /\ UNCHANGED <<host, pins, answers, spent>>
    /\ MainElsewhere

\* drain_one_evidence: there is a frame, or there is none.
DrainEvidence ==
    /\ main.pc = "drain" /\ ~rt.ready
    /\ \/ /\ main.evidence < MaxEvidence
          /\ cdc' = CdcTxStart("evidence")
          /\ stream' = Follows
          /\ main' = [main EXCEPT !.pc = "evidence", !.evidence = @ + 1]
       \/ main' = [main EXCEPT !.pc = "loop"] /\ UNCHANGED <<cdc, stream>>
    /\ UNCHANGED <<host, rt, pins, answers, spent>>
    /\ MainElsewhere

\* end_active_epoch up to the wait for the receive thread.
EndEpoch(next) ==
    /\ cdc' = CdcTxIdle
    /\ rt' = [rt EXCEPT !.active = FALSE]
    /\ main' = [main EXCEPT !.pc = "end_rx", !.next = next, !.ok = TRUE]

\* The write ends with -EIO: before the epoch this is final at once.
WriteFails ==
    IF main.pc = "hello" THEN cdc' = CdcTxIdle /\ UNCHANGED rt /\ Dead({})
    ELSE EndEpoch("dead") /\ UNCHANGED pins

WriteAborts ==
    /\ main.pc \in {"hello", "response", "evidence"} /\ host.dtr
    /\ cdc.state \in {"fault", "pending"}
    /\ WriteFails
    /\ UNCHANGED <<host, answers, stream, spent>>
    /\ MainElsewhere

\* DTR is gone during a write, or at the top of the loop.
Disconnected ==
    /\ ~host.dtr
    /\ \/ /\ main.pc = "hello"
          /\ cdc' = CdcTxIdle /\ UNCHANGED rt
          /\ \E bad \in BadSets :
               /\ ForceSafe(bad)
               /\ SpendIf(bad # {})
               /\ main' = [main EXCEPT !.pc = IF bad = {} THEN "off" ELSE "dead"]
       \/ /\ main.pc \in {"response", "evidence", "loop"}
          /\ EndEpoch("off")
          /\ UNCHANGED <<pins, spent>>
    /\ UNCHANGED <<host, answers, stream>>
    /\ MainElsewhere

RuntimeFaulted ==
    /\ main.pc = "loop" /\ host.dtr /\ rt.fault
    /\ EndEpoch("dead")
    /\ UNCHANGED <<host, pins, answers, stream, spent>>
    /\ MainElsewhere

\* k_sem_take with DUTCHMATE_EPOCH_STOP_TIMEOUT
StoppedOrTimeout(sem) ==
    \/ sem /\ main'.ok = main.ok /\ UNCHANGED spent
    \/ /\ ~sem /\ spent < MaxFaults /\ main'.ok = FALSE
       /\ spent' = spent + 1

WaitRxStopped ==
    /\ main.pc = "end_rx"
    /\ \E ok \in BOOLEAN : main' = [main EXCEPT !.pc = "end_cmd", !.ok = ok]
    /\ StoppedOrTimeout(rt.rxStopped)
    /\ rt' = [rt EXCEPT !.rxStopped = FALSE]
    /\ UNCHANGED <<host, pins, cdc, answers, stream>>
    /\ MainElsewhere

WaitCmdStopped ==
    /\ main.pc = "end_cmd"
    /\ \E ok \in BOOLEAN : main' = [main EXCEPT !.pc = "end_io", !.ok = ok]
    /\ StoppedOrTimeout(rt.cmdStopped)
    /\ rt' = [rt EXCEPT !.cmdStopped = FALSE, !.input = << >>]
    /\ UNCHANGED <<host, pins, cdc, answers, stream>>
    /\ MainElsewhere

\* The results of the threads, the control end and force_safe decide.
EndedIo ==
    /\ main.pc = "end_io"
    /\ \E bad \in BadSets :
         /\ ForceSafe(bad)
         /\ SpendIf(bad # {})
         /\ main' = [main EXCEPT !.pc = IF main.ok /\ rt.endOk /\ bad = {}
                                        THEN main.next ELSE "dead"]
    /\ UNCHANGED <<host, rt, cdc, answers, stream>>
    /\ MainElsewhere

(***************************************************************************)
(* Specification                                                           *)
(***************************************************************************)
RxNext == RxBegins \/ RxFeeds \/ RxChecksEpoch \/ QueueRequest \/ RxStops
CmdNext == \/ CmdBegins \/ CmdChecks \/ CmdIdles \/ CmdConsumes \/ Rejects
           \/ SubmitConfigure \/ NotConfigured \/ SubmitControlState \/ SubmitPulse
           \/ PollPulse \/ SubmitUart \/ PollUart \/ CmdStops
MainNext == \/ MainOpens \/ HelloWritten \/ FrameWritten \/ MainDrains \/ TakeResponse
            \/ DrainEvidence \/ WriteAborts \/ Disconnected \/ RuntimeFaulted
            \/ WaitRxStopped \/ WaitCmdStopped \/ EndedIo
InterruptNext == \/ OnCdcRxReady
                 \/ KickTransmission
                 \/ \E n \in 0 .. 1 : UartTxOnInterrupt(n)
                 \/ CdcTxOnWritable
Next == \/ HostSend \/ HostDtr \/ OnCdcRxFails \/ UartTxDriverFault \/ CdcTxDriverFault
        \/ RxNext \/ CmdNext \/ MainNext \/ InterruptNext

\* The scheduler runs every thread that is ready, receive interrupts are taken
\* and deadlines pass: nothing is assumed of the host, of the transmitters'
\* progress or of failures.
Fairness ==
    /\ WF_vars(RxNext) /\ WF_vars(CmdNext) /\ WF_vars(MainNext)
    /\ WF_vars(OnCdcRxReady)

Spec == Init /\ [][Next]_vars /\ Fairness

(***************************************************************************)
(* Properties                                                              *)
(***************************************************************************)
Results == {"ok", "timeout", "hardware_fault", "not_configured", "invalid_argument",
            "invalid_command"}

\* The state of the threads, the semaphores and the transmitters is well
\* formed: the receive queue and the framer stay within their capacity, and
\* the executor holds a response exactly while one is outstanding.
TypeOK ==
    /\ Len(rt.input) <= RxCapacity /\ Len(queue) <= 1 /\ Len(rx.chunk) <= Chunk
    /\ Len(rx.framer.pending) <= MaxPending
    /\ rx.pc \in {"wait", "run", "queue", "put"} /\ cmd.pc \in {"wait", "run", "serve"}
    /\ cmd.state \in {"idle", "pulse", "uart", "response"}
    /\ cmd.result \in Results \union {None}
    /\ rt.outstanding <=> cmd.state = "response"
    /\ main.pc \in {"off", "hello", "loop", "drain", "response", "evidence", "end_rx",
                    "end_cmd", "end_io", "dead"}
    /\ uart.state \in {"idle", "pending", "completed", "fault"}
    /\ cdc.state \in {"idle", "pending", "completed", "fault"}
    /\ uart.queued \in 0 .. uart.length /\ cdc.left \in 0 .. FrameUnits

\* The responses of a connection answer its lines one by one and in order,
\* never a line of an earlier connection, and a line beyond the frame limit
\* is refused as one invalid argument (ndjson_framer.c, queue_request,
\* service_executor, take_response).
AnswersInOrder ==
    \A k \in DOMAIN answers :
        LET line == host.lines[answers[k].id] IN
        /\ answers[k].id = host.first + k - 1
        /\ line.len > MaxPending => answers[k].result = "invalid_argument"
        /\ line.parse # "ok" => answers[k].result = "invalid_command"

\* drive_apply never changes the level of an output that is enabled, even
\* when driver calls fail.
NoLevelChangeWhileDriven == \A c \in Channels : ~pins[c].glitch

\* Unless a driver call failed, an output is driven exactly as the channel
\* table says, so an epoch that is not active drives nothing once its
\* command thread has stopped, and only a configured channel is driven.
PinsFollowChannels ==
    \A c \in Channels : ~pins[c].failed /\ main.ok =>
        /\ pins[c].enable <=> ctl.channels[c].drive # "high_z"
        /\ pins[c].enable => /\ pins[c].data = ctl.channels[c].drive
                             /\ ctl.channels[c].configured

\* Between connections, an epoch whose end reported no error has left every
\* output disabled, no pulse running and no transmission under way, whatever
\* failed before (end_active_epoch, cancel_epoch, dmh_control_end_epoch).
CleanEndIsSafe ==
    main.pc = "off" =>
        /\ \A c \in Channels : ~pins[c].enable /\ ~ctl.channels[c].configured
        /\ ctl.pulse = None /\ uart.state = "idle" /\ cdc.state = "idle"
        /\ cmd.state = "idle" /\ cmd.pc = "wait" /\ rx.pc = "wait"

\* An "ok" is true: for a uart_send exactly its bytes were handed to the UART
\* since it started, and for a pulse the channel is back at its idle level.
OkAnswersTrue ==
    cmd.state = "response" /\ cmd.result = "ok" =>
        LET line == host.lines[cmd.id] IN
        /\ line.cmd = "uart_send" => dutBytes = line.data
        /\ line.cmd = "pulse_control" =>
               LET channel == ctl.channels[line.channel] IN
               channel.drive = ConfiguredDrive(channel, "idle")

\* No frame follows an incomplete one within a connection: a write that was
\* cut short ends the epoch (write_complete_frame, end_active_epoch).
StreamNotTorn == stream # "torn"

\* A complete line is answered unless the connection or the helper stops:
\* pulses and sends end by their deadlines, and the responses drain.
LinesAnswered ==
    \A i \in 1 .. ScriptLength :
        (Len(host.lines) >= i /\ main.pc = "loop" /\ host.first <= i)
            ~> (Len(answers) > i - host.first \/ main.pc \in {"off", "dead"})

\* Once the firmware has stopped, even without having waited for the command
\* thread, an output is still driven only until that thread has seen the end
\* of its epoch, or because a pin did not obey.
StopsSafely ==
    main.pc = "dead" /\ cmd.pc = "wait" /\ ~rt.cmdStart
        => \A c \in Channels : pins[c].enable => pins[c].failed

\* What the host reads on a connection is a sequence of whole frames in which
\* each line has its own answer, and an "ok" among them is true.
AnswersAreTrue == TypeOK /\ AnswersInOrder /\ OkAnswersTrue /\ StreamNotTorn

\* Outputs are never driven to a level nobody asked for: not during a change,
\* not after a failed driver call, not beyond the end of the connection and
\* not after the firmware has stopped.
OutputsAreSafe ==
    NoLevelChangeWhileDriven /\ PinsFollowChannels /\ CleanEndIsSafe /\ StopsSafely
=============================================================================
