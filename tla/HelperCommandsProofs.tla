------------------------ MODULE HelperCommandsProofs ------------------------
(***************************************************************************)
(* What the firmware's outputs and answers promise, proved for any number  *)
(* of channels, any sizes of queue, framer and chunk, each script of the   *)
(* model, and any number of connections, driver failures and starved       *)
(* threads: outputs are never driven to a level nobody asked for, an "ok"  *)
(* is true, no frame follows an incomplete one, and every line of a        *)
(* connection has its own answer in the order of the lines.                *)
(***************************************************************************)
EXTENDS HelperCommands, WellFoundedInduction, SequenceTheorems, TLAPS

(***************************************************************************)
(* The inductive invariant                                                 *)
(***************************************************************************)
Drives == Levels \union {"high_z"}

ChannelRecord ==
    [configured : BOOLEAN, mode : {"open_drain", "push_pull"}, active : Levels,
     idle : Levels, drive : Drives]

PinRecord == [enable : BOOLEAN, data : Levels, glitch : BOOLEAN, failed : BOOLEAN]

\* The lines a host may have sent, and one it sent in an earlier connection.
ScriptLines == {Blank} \union UNION {{s[1], s[2]} : s \in Scripts}

Tokens == (1 .. Len(host.lines)) \X {"b", "nl"}

RuntimeFields ==
    {"active", "number", "fault", "outstanding", "endOk", "ready", "consumed", "rxStart",
     "cmdStart", "rxStopped", "cmdStopped", "input"}

\* The records have their fields, and the tables their values.
ShapesOK ==
    /\ DOMAIN host = {"script", "dtr", "wire", "lines", "first", "opens", "greeted"}
    /\ DOMAIN rt = RuntimeFields
    /\ DOMAIN rx = {"pc", "epoch", "chunk", "framer", "request"}
    /\ DOMAIN cmd = {"pc", "epoch", "state", "id", "result"}
    /\ DOMAIN uart = {"state", "length", "queued", "irq", "kick"}
    /\ DOMAIN cdc = {"state", "frame", "left"}
    /\ DOMAIN main = {"pc", "drained", "evidence", "next", "ok"}
    /\ ctl \in [channels : [Channels -> ChannelRecord], pulse : Channels \union {None}]
    /\ pins \in [Channels -> PinRecord]

\* Every byte under way belongs to a line the host sent.
LinesOK ==
    /\ host.script \in Scripts
    /\ host.lines \in Seq(ScriptLines)
    /\ host.wire \in Seq(Tokens) /\ rt.input \in Seq(Tokens) /\ rx.chunk \in Seq(Tokens)

Refusals == {"invalid_command", "invalid_argument"}

\* A request is about a line, and what is to be executed was decoded from it.
Sound(r) ==
    /\ r.id \in 1 .. Len(host.lines)
    /\ r.kind \in {"command"} \union Refusals
    /\ r.kind = "command" => CommandDecode(host.lines[r.id]) = "command"

RequestsOK ==
    /\ rx.pc \in {"queue", "put"} => Sound(rx.request)
    /\ queue # << >> => Sound(queue[1].request)

\* A thread that has stopped, and whose end the USB thread has seen.
RxQuiet == rx.pc = "wait" /\ ~rt.rxStart /\ ~rt.rxStopped
CmdQuiet == cmd.pc = "wait" /\ ~rt.cmdStart /\ ~rt.cmdStopped

\* Semaphores agree with the threads they start and wait for.
ThreadsOK ==
    /\ rx.pc \in {"wait", "run", "queue", "put"} /\ cmd.pc \in {"wait", "run", "serve"}
    /\ main.pc \in {"off", "hello", "loop", "drain", "response", "evidence", "end_rx",
                    "end_cmd", "end_io", "dead"}
    /\ main.next \in {"off", "dead"}
    /\ rt.rxStart \/ rt.rxStopped => rx.pc = "wait"
    /\ rt.cmdStart \/ rt.cmdStopped => cmd.pc = "wait"
    /\ ~(rt.rxStart /\ rt.rxStopped)
    /\ ~(rt.cmdStart /\ rt.cmdStopped)
    /\ main.pc \in {"off", "hello"} => RxQuiet /\ CmdQuiet
    /\ main.pc = "end_cmd" /\ main.ok => RxQuiet
    /\ main.pc = "end_io" /\ main.ok => RxQuiet /\ CmdQuiet
    /\ ~main.ok => main.pc \in {"end_cmd", "end_io", "dead"}

\* A command thread that waits has cancelled what it was doing.
WaitOK ==
    cmd.pc = "wait" =>
        /\ \A c \in Channels : /\ pins[c].enable => pins[c].failed
                               /\ ctl.channels[c].drive = "high_z"
                               /\ ~ctl.channels[c].configured
        /\ ctl.pulse = None /\ uart.state = "idle" /\ cmd.state = "idle"

\* What the executor is doing is what the line it is busy with asked for.
BusyOK ==
    /\ cmd.state \in {"idle", "pulse", "uart", "response"}
    /\ rt.outstanding <=> cmd.state = "response"
    /\ cmd.state # "idle" => cmd.id \in 1 .. Len(host.lines)
    /\ cmd.state = "pulse" =>
         LET line == host.lines[cmd.id] IN
         /\ ctl.pulse = line.channel /\ line.cmd = "pulse_control"
         /\ ctl.pulse \in Channels /\ ctl.channels[ctl.pulse].configured
    /\ cmd.state = "uart" =>
         LET line == host.lines[cmd.id] IN
         /\ line.cmd = "uart_send" /\ uart.length = line.data
         /\ dutBytes = uart.queued
    /\ cmd.state # "uart" => uart.state = "idle"
    /\ cmd.state # "pulse" => ctl.pulse = None
    /\ uart.state = "completed" => uart.queued = uart.length

\* Between connections nothing is driven and nothing is written, and a frame is
\* under way only while the USB thread waits for it.
EndedOK ==
    /\ main.pc \in {"off", "hello"} => \A c \in Channels : ~pins[c].enable
    /\ main.pc \notin {"hello", "response", "evidence"} => cdc.state = "idle"

\* A stream is partial only while its frame is still being written, or the
\* write has failed and the connection ends.
StreamOK ==
    /\ stream \in {"whole", "partial"}
    /\ main.pc \in {"loop", "drain"} \/ cdc.state = "completed" => stream = "whole"

IInv ==
    /\ ShapesOK /\ LinesOK /\ RequestsOK /\ ThreadsOK /\ WaitOK /\ BusyOK /\ EndedOK
    /\ NoLevelChangeWhileDriven /\ PinsFollowChannels
    /\ StreamOK /\ OkAnswersTrue

(***************************************************************************)
(* Facts about the operators                                               *)
(***************************************************************************)
\* How a line may parse, and what a script is made of.
Good(b) ==
    /\ b.parse \in {"ok", "invalid_command"} /\ b.len \in Nat
    /\ b.parse # "ok" => b.len = 1
    /\ b.data \in {None, 1, 2}
TwoLines(s) == \E a, b : s = <<a, b>> /\ Good(a) /\ Good(b)

\* Every script has two lines, and every line parses or is refused as JSON.
LEMMA ScriptFacts ==
  /\ \A s \in Scripts : Len(s) = 2 /\ s[1] \in ScriptLines /\ s[2] \in ScriptLines
  /\ \A b \in ScriptLines : /\ b.parse \in {"ok", "invalid_command"} /\ b.len \in Nat
                            /\ b.parse # "ok" => b.len = 1
                            /\ b.data \in {None, 1, 2}
  /\ Blank \in ScriptLines
<1>1. Good(Blank) /\ Good(BrokenLine)
  BY DEF Blank, BrokenLine, Good
<1>2. \A c, m, a, i : Good(ConfigureLine(c, m, a, i))
  BY DEF ConfigureLine, Blank, Good
<1>3. /\ \A c, ms : Good(PulseLine(c, ms)) /\ Good(StateLine(c, ms))
      /\ Good(UartLine(1, MaxPending + 1)) /\ Good(UartLine(2, MaxPending))
  BY CommandSizes DEF PulseLine, StateLine, UartLine, Blank, Good
<1>4. ASSUME NEW s \in Scripts
      PROVE  TwoLines(s)
  <2>1. CASE s = <<UartLine(1, MaxPending + 1), UartLine(2, MaxPending)>>
    BY <1>3, <2>1 DEF TwoLines
  <2>2. ASSUME NEW c \in Channels,
               s \in {<<ConfigureLine(c, "push_pull", "high", "low"), PulseLine(c, PulseMax)>>,
                      <<ConfigureLine(c, "open_drain", "low", None), StateLine(c, "active")>>,
                      <<PulseLine(c, PulseMax), BrokenLine>>}
        PROVE  TwoLines(s)
    BY <1>1, <1>2, <1>3, <2>2 DEF TwoLines
  <2> DEFINE Three(c) ==
        {<<ConfigureLine(c, "push_pull", "high", "low"), PulseLine(c, PulseMax)>>,
         <<ConfigureLine(c, "open_drain", "low", None), StateLine(c, "active")>>,
         <<PulseLine(c, PulseMax), BrokenLine>>}
  <2>3. Scripts = (UNION {Three(c) : c \in Channels})
                    \union {<<UartLine(1, MaxPending + 1), UartLine(2, MaxPending)>>}
    BY Zenon DEF Scripts
  <2>4. ASSUME NEW c \in Channels, s \in Three(c)
        PROVE  TwoLines(s)
    BY <2>2, <2>4
  <2>5. CASE s \in UNION {Three(c) : c \in Channels}
    <3>1. PICK c \in Channels : s \in Three(c)
      BY <2>5
    <3> QED
      BY <2>4, <3>1
  <2>6. \/ s \in UNION {Three(c) : c \in Channels}
        \/ s = <<UartLine(1, MaxPending + 1), UartLine(2, MaxPending)>>
    BY <1>4, <2>3
  <2> QED
    BY <2>1, <2>5, <2>6, Zenon
<1>5. ASSUME NEW s \in Scripts
      PROVE  /\ Len(s) = 2 /\ Good(s[1]) /\ Good(s[2])
             /\ s[1] \in ScriptLines /\ s[2] \in ScriptLines
  <2>1. s[1] \in ScriptLines /\ s[2] \in ScriptLines
    BY DEF ScriptLines
  <2> QED
    BY <1>4, <2>1 DEF TwoLines
<1>6. ASSUME NEW b \in ScriptLines PROVE Good(b)
  BY <1>1, <1>5 DEF ScriptLines
<1>7. Blank \in ScriptLines
  BY DEF ScriptLines
<1> QED
  BY <1>5, <1>6, <1>7 DEF Good

\* A line is a command or refused in one of two ways, and what is decoded as a
\* command has what the command needs.
LEMMA Decoded ==
  ASSUME NEW b \in ScriptLines
  PROVE  /\ CommandDecode(b) \in {"command"} \union Refusals
         /\ CommandDecode(b) = "command" =>
              /\ b.cmd = "configure_gpio_mode" => DecodeConfigure(b)
              /\ b.cmd = "pulse_control" => DecodePulse(b)
              /\ b.cmd = "set_control_state" => DecodeState(b)
              /\ b.cmd = "uart_send" => DecodeUartSend(b)
<1>1. b.parse \in {"ok", "invalid_command"}
  BY ScriptFacts
<1>2. "command" \notin Refusals /\ {"invalid_command", "invalid_argument"} = Refusals
  BY DEF Refusals
<1> DEFINE valid(ok) == IF ok THEN "command" ELSE "invalid_argument"
<1>3. CASE ~Parsed(b)
  BY <1>1, <1>2, <1>3 DEF CommandDecode, Parsed
<1>4. CASE Parsed(b) /\ b.cmd = "configure_gpio_mode"
  <2>1. CommandDecode(b) = valid(DecodeConfigure(b))
    BY <1>4 DEF CommandDecode
  <2> QED
    BY <1>2, <1>4, <2>1
<1>5. CASE Parsed(b) /\ b.cmd = "pulse_control"
  <2>1. CommandDecode(b) = valid(DecodePulse(b))
    BY <1>5 DEF CommandDecode
  <2> QED
    BY <1>2, <1>5, <2>1
<1>6. CASE Parsed(b) /\ b.cmd = "set_control_state"
  <2>1. CommandDecode(b) = valid(DecodeState(b))
    BY <1>6 DEF CommandDecode
  <2> QED
    BY <1>2, <1>6, <2>1
<1>7. CASE Parsed(b) /\ b.cmd = "uart_send"
  <2>1. CommandDecode(b) = valid(DecodeUartSend(b))
    BY <1>7 DEF CommandDecode
  <2> QED
    BY <1>2, <1>7, <2>1
<1>8. CASE Parsed(b) /\ b.cmd \notin {"configure_gpio_mode", "pulse_control",
                                      "set_control_state", "uart_send"}
  BY <1>2, <1>8 DEF CommandDecode
<1> QED
  BY <1>3, <1>4, <1>5, <1>6, <1>7, <1>8

\* Whatever the framer collected, the request that ends line i is sound.
LEMMA FrameEndSound ==
  ASSUME LinesOK, NEW f, NEW i \in 1 .. Len(host.lines)
  PROVE  Sound(FrameEnd(f, i))
<1>1. host.lines[i] \in ScriptLines
  BY DEF LinesOK
<1>2. CommandDecode(host.lines[i]) \in {"command"} \union Refusals
  BY <1>1, Decoded
<1> DEFINE r == FrameEnd(f, i)
<1>3. r.id = i /\ (r.kind = CommandDecode(host.lines[i]) \/ r.kind \in Refusals)
  BY DEF FrameEnd, Request, Refusals
<1>4. "command" \notin Refusals
  BY DEF Refusals
<1> QED
  BY <1>2, <1>3, <1>4 DEF Sound

\* Driver calls fail in combinations; that is all an outcome says.
LEMMA OutcomeType ==
  ASSUME NEW f \in Outcomes
  PROVE  f[1] \in BOOLEAN /\ f[2] \in BOOLEAN /\ f[3] \in BOOLEAN /\ f[4] \in BOOLEAN
<1>1. CASE f = NoFail
  BY <1>1 DEF NoFail
<1>2. ASSUME NEW S, f = [k \in 1 .. 4 |-> k \in S]
      PROVE  f[1] \in BOOLEAN /\ f[2] \in BOOLEAN /\ f[3] \in BOOLEAN /\ f[4] \in BOOLEAN
  BY <1>2
<1>3. f = NoFail \/ \E S : f = [k \in 1 .. 4 |-> k \in S]
  BY DEF Outcomes, FailPatterns
<1> QED
  BY <1>1, <1>2, <1>3

\* Disabling an output changes nothing else, and works unless the driver fails.
LEMMA Disabled ==
  ASSUME NEW p \in PinRecord, NEW fails \in BOOLEAN
  PROVE  /\ SetEnable(p, FALSE, fails) \in PinRecord
         /\ SetEnable(p, FALSE, fails).glitch <=> p.glitch
         /\ SetEnable(p, FALSE, fails).failed <=> p.failed
         /\ SetEnable(p, FALSE, fails).data = p.data
         /\ ~fails => ~SetEnable(p, FALSE, fails).enable
BY DEF SetEnable, PinRecord

\* And so does enabling it.
LEMMA Enabled ==
  ASSUME NEW p \in PinRecord, NEW fails \in BOOLEAN
  PROVE  /\ SetEnable(p, TRUE, fails) \in PinRecord
         /\ SetEnable(p, TRUE, fails).glitch <=> p.glitch
         /\ SetEnable(p, TRUE, fails).failed <=> p.failed
         /\ SetEnable(p, TRUE, fails).data = p.data
         /\ ~fails => SetEnable(p, TRUE, fails).enable
BY DEF SetEnable, PinRecord

\* The data output of a pin that is not enabled changes without a glitch.
LEMMA DataSet ==
  ASSUME NEW p \in PinRecord, NEW level \in Levels, NEW fails \in BOOLEAN, ~p.enable
  PROVE  /\ SetData(p, level, fails) \in PinRecord
         /\ SetData(p, level, fails).glitch <=> p.glitch
         /\ SetData(p, level, fails).failed <=> p.failed
         /\ ~SetData(p, level, fails).enable
         /\ ~fails => SetData(p, level, fails).data = level
BY DEF SetData, PinRecord

\* What drive_apply makes of a pin, and what its success means.
Applied(r, p, drive) ==
    /\ r.pin \in PinRecord
    /\ r.pin.glitch <=> p.glitch
    /\ r.pin.failed <=> p.failed
    /\ r.ok => /\ r.pin.enable <=> drive # "high_z"
               /\ drive # "high_z" => r.pin.data = drive

\* drive_apply: the level never changes while the output is enabled, and what
\* it reports as done is done.
LEMMA DriveApplied ==
  ASSUME NEW p \in PinRecord, NEW drive \in Drives, NEW f \in Outcomes
  PROVE  Applied(DriveApply(p, drive, f), p, drive)
<1>1. f[1] \in BOOLEAN /\ f[2] \in BOOLEAN /\ f[3] \in BOOLEAN /\ f[4] \in BOOLEAN
  BY OutcomeType
<1> DEFINE level == DriveLevel(drive)
           keep == SetEnable(p, FALSE, f[2])
           off == SetEnable(p, FALSE, f[1])
           set == SetData(off, level, f[2])
           on  == SetEnable(set, TRUE, f[3])
           back == SetEnable(on, FALSE, f[4])
<1>2. level \in Levels /\ (drive # "high_z" => level = drive)
  BY DEF Drives, Levels, DriveLevel
<1>3. DriveApply(p, drive, f) =
        IF f[1] THEN [pin |-> keep, ok |-> FALSE]
        ELSE IF f[2] \/ drive = "high_z" THEN [pin |-> set, ok |-> ~f[2]]
        ELSE IF f[3] THEN [pin |-> back, ok |-> FALSE]
        ELSE [pin |-> on, ok |-> TRUE]
  BY Zenon DEF DriveApply
<1>4. keep \in PinRecord /\ (keep.glitch <=> p.glitch) /\ (keep.failed <=> p.failed)
  BY <1>1, Disabled
<1>5. /\ off \in PinRecord /\ (off.glitch <=> p.glitch) /\ (off.failed <=> p.failed)
      /\ ~f[1] => ~off.enable
  BY <1>1, Disabled
<1> HIDE DEF level, keep, off
<1>6. ~f[1] => /\ set \in PinRecord /\ ~set.enable
               /\ (set.glitch <=> p.glitch) /\ (set.failed <=> p.failed)
               /\ ~f[2] => set.data = level
  BY <1>1, <1>2, <1>5, DataSet
<1> HIDE DEF set
<1>7. ~f[1] => /\ on \in PinRecord
               /\ (on.glitch <=> p.glitch) /\ (on.failed <=> p.failed)
               /\ on.data = set.data /\ (~f[3] => on.enable)
  BY <1>1, <1>6, Enabled
<1> HIDE DEF on
<1>8. ~f[1] => /\ back \in PinRecord
               /\ (back.glitch <=> p.glitch) /\ (back.failed <=> p.failed)
  BY <1>1, <1>7, Disabled
<1> HIDE DEF back
<1>9. CASE f[1]
  <2>1. DriveApply(p, drive, f) = [pin |-> keep, ok |-> FALSE]
    BY <1>3, <1>9
  <2> QED
    BY <1>4, <2>1 DEF Applied
<1>10. CASE ~f[1] /\ (f[2] \/ drive = "high_z")
  <2>1. DriveApply(p, drive, f) = [pin |-> set, ok |-> ~f[2]]
    BY <1>3, <1>10
  <2>2. CASE f[2] = TRUE
    <3>1. DriveApply(p, drive, f) = [pin |-> set, ok |-> FALSE]
      BY <2>1, <2>2
    <3> QED
      BY <1>6, <1>10, <3>1 DEF Applied
  <2>3. CASE f[2] = FALSE
    <3>1. DriveApply(p, drive, f) = [pin |-> set, ok |-> TRUE]
      BY <2>1, <2>3
    <3> QED
      BY <1>6, <1>10, <2>3, <3>1 DEF Applied
  <2> QED
    BY <1>1, <2>2, <2>3
<1>11. CASE ~f[1] /\ ~(f[2] \/ drive = "high_z") /\ f[3]
  <2>1. DriveApply(p, drive, f) = [pin |-> back, ok |-> FALSE]
    BY <1>3, <1>11
  <2> QED
    BY <1>8, <1>11, <2>1 DEF Applied
<1>12. CASE ~f[1] /\ ~(f[2] \/ drive = "high_z") /\ ~f[3]
  <2>1. DriveApply(p, drive, f) = [pin |-> on, ok |-> TRUE]
    BY <1>3, <1>12
  <2> QED
    BY <1>2, <1>6, <1>7, <1>12, <2>1 DEF Applied
<1> QED
  BY <1>1, <1>9, <1>10, <1>11, <1>12

\* What a configured channel drives is a level or nothing.
LEMMA ConfiguredDrives ==
  ASSUME NEW channel \in ChannelRecord, NEW state
  PROVE  ConfiguredDrive(channel, state) \in Drives
BY DEF ChannelRecord, ConfiguredDrive, Drives

\* A sequence of one value.
LEMMA Repeated ==
  ASSUME NEW T, NEW x \in T, NEW n \in Nat
  PROVE  [k \in 1 .. n |-> x] \in Seq(T)
OBVIOUS

\* The first newline of a chunk is one of its bytes.
LEMMA EarliestEnd ==
  ASSUME NEW len \in Nat, NEW S \in SUBSET (1 .. len), S # {}
  PROVE  Min(S) \in 1 .. len /\ Min(S) \in S /\ \A y \in S : Min(S) <= y
<1>1. IsWellFoundedOn(OpToRel(<, Nat), Nat)
  BY NatLessThanWellFounded, Zenon
<1>2. S \subseteq Nat
  OBVIOUS
<1>3. PICK x \in S : \A y \in S : ~(<<y, x>> \in OpToRel(<, Nat))
  BY <1>1, <1>2, WFMin, Zenon
<1>4. \A y \in S : <<y, x>> \in Nat \X Nat
  BY <1>2
<1>5. \A y \in S : ~(y < x)
  BY <1>3, <1>4 DEF OpToRel
<1>6. \A y \in S : x <= y
  BY <1>2, <1>5
<1>7. Min(S) \in S /\ \A y \in S : Min(S) <= y
  BY <1>3, <1>6 DEF Min
<1> QED
  BY <1>7

-----------------------------------------------------------------------------
(***************************************************************************)
(* The host and the receive side                                           *)
(***************************************************************************)
\* A step of the receive side disturbs nothing that the executor relies on.
LEMMA ReceiveSide ==
  ASSUME IInv,
         UNCHANGED <<cmd, ctl, pins, uart, cdc, main, dutBytes, stream>>,
         host'.lines = host.lines,
         rt'.outstanding <=> rt.outstanding,
         ShapesOK', LinesOK', RequestsOK', ThreadsOK'
  PROVE  IInv'
<1>1. WaitOK'
  BY DEF IInv, WaitOK
<1>2. BusyOK'
  BY DEF IInv, BusyOK
<1>3. EndedOK'
  BY DEF IInv, EndedOK
<1>4. NoLevelChangeWhileDriven'
  BY DEF IInv, NoLevelChangeWhileDriven
<1>5. PinsFollowChannels'
  BY DEF IInv, PinsFollowChannels
<1>6. StreamOK'
  BY DEF IInv, StreamOK
<1>7. OkAnswersTrue'
  BY DEF IInv, OkAnswersTrue
<1> QED
  BY <1>1, <1>2, <1>3, <1>4, <1>5, <1>6, <1>7 DEF IInv

\* The receive thread starts with an empty chunk.
LEMMA RxBeginsKeeps ==
  ASSUME IInv, RxBegins
  PROVE  IInv'
<1>1. /\ UNCHANGED <<host, queue, cmd, ctl, pins, uart, cdc, main, dutBytes, stream>>
      /\ DOMAIN rt' = DOMAIN rt /\ (rt'.outstanding <=> rt.outstanding)
      /\ rx'.pc = "run" /\ rx'.chunk = << >> /\ DOMAIN rx' = DOMAIN rx
      /\ ~rt'.rxStart /\ ~rt'.rxStopped /\ rx.pc = "wait" /\ rt.rxStart
      /\ rt'.input = rt.input
      /\ (rt'.cmdStart <=> rt.cmdStart) /\ (rt'.cmdStopped <=> rt.cmdStopped)
  BY DEF IInv, ShapesOK, ThreadsOK, RuntimeFields, RxBegins, RxElsewhere
<1>2. ShapesOK'
  BY <1>1 DEF IInv, ShapesOK
<1>3. LinesOK'
  BY <1>1 DEF IInv, LinesOK, Tokens
<1>4. RequestsOK'
  BY <1>1 DEF IInv, RequestsOK, Sound
<1>5. ThreadsOK'
  BY <1>1 DEF IInv, ThreadsOK, RxQuiet, CmdQuiet
<1> QED
  BY <1>1, <1>2, <1>3, <1>4, <1>5, ReceiveSide

\* Looking at the epoch changes nothing.
LEMMA RxChecksEpochKeeps ==
  ASSUME IInv, RxChecksEpoch
  PROVE  IInv'
<1>1. /\ UNCHANGED <<host, rt, queue, cmd, ctl, pins, uart, cdc, main, dutBytes, stream>>
      /\ rx.pc = "queue" /\ rx'.pc = "put" /\ DOMAIN rx' = DOMAIN rx
      /\ rx'.chunk = rx.chunk /\ rx'.request = rx.request
  BY DEF IInv, ShapesOK, RxChecksEpoch, RxElsewhere
<1>2. ShapesOK'
  BY <1>1 DEF IInv, ShapesOK
<1>3. LinesOK'
  BY <1>1 DEF IInv, LinesOK, Tokens
<1>4. RequestsOK'
  BY <1>1 DEF IInv, RequestsOK, Sound
<1>5. ThreadsOK'
  BY <1>1 DEF IInv, ThreadsOK, RxQuiet, CmdQuiet
<1> QED
  BY <1>1, <1>2, <1>3, <1>4, <1>5, ReceiveSide

\* A sound request stays sound on its way into the queue.
LEMMA QueueRequestKeeps ==
  ASSUME IInv, QueueRequest
  PROVE  IInv'
<1>1. /\ UNCHANGED <<host, rt, cmd, ctl, pins, uart, cdc, main, dutBytes, stream>>
      /\ rx.pc = "put" /\ DOMAIN rx' = DOMAIN rx /\ rx'.chunk = rx.chunk
      /\ \/ rx'.pc = "run" /\ queue' # << >> /\ queue'[1].request = rx.request
         \/ rx'.pc = "queue" /\ queue' = queue /\ rx'.request = rx.request
  <2>1. DOMAIN rx = {"pc", "epoch", "chunk", "framer", "request"}
    BY DEF IInv, ShapesOK
  <2>2. CASE queue = << >>
    <3>1. /\ rx.pc = "put" /\ queue' = <<[epoch |-> rx.epoch, request |-> rx.request]>>
          /\ rx' = [rx EXCEPT !.pc = "run", !.request = None]
          /\ UNCHANGED <<host, rt, cmd, ctl, pins, uart, cdc, main, dutBytes, stream>>
      BY <2>2 DEF QueueRequest, RxElsewhere
    <3>2. queue' # << >> /\ queue'[1].request = rx.request
      BY <3>1
    <3> QED
      BY <2>1, <3>1, <3>2
  <2>3. CASE queue # << >>
    BY <2>1, <2>3 DEF QueueRequest, RxElsewhere
  <2> QED
    BY <2>2, <2>3
<1>2. ShapesOK'
  BY <1>1 DEF IInv, ShapesOK
<1>3. LinesOK'
  BY <1>1 DEF IInv, LinesOK, Tokens
<1>4. RequestsOK'
  BY <1>1 DEF IInv, RequestsOK, Sound
<1>5. ThreadsOK'
  BY <1>1 DEF IInv, ThreadsOK, RxQuiet, CmdQuiet
<1> QED
  BY <1>1, <1>2, <1>3, <1>4, <1>5, ReceiveSide

\* The receive thread gives its semaphore once.
LEMMA RxStopsKeeps ==
  ASSUME IInv, RxStops
  PROVE  IInv'
<1>1. /\ UNCHANGED <<host, queue, cmd, ctl, pins, uart, cdc, main, dutBytes, stream>>
      /\ DOMAIN rt' = DOMAIN rt /\ (rt'.outstanding <=> rt.outstanding)
      /\ rx'.pc = "wait" /\ rx'.chunk = << >> /\ DOMAIN rx' = DOMAIN rx
      /\ rx.pc \in {"run", "queue"} /\ rt'.rxStopped /\ (rt'.rxStart <=> rt.rxStart)
      /\ rt'.input = rt.input
      /\ (rt'.cmdStart <=> rt.cmdStart) /\ (rt'.cmdStopped <=> rt.cmdStopped)
  BY DEF IInv, ShapesOK, RuntimeFields, RxStops, RxElsewhere
<1>2. ShapesOK'
  BY <1>1 DEF IInv, ShapesOK
<1>3. LinesOK'
  BY <1>1 DEF IInv, LinesOK, Tokens
<1>4. RequestsOK'
  BY <1>1 DEF IInv, RequestsOK, Sound
<1>5. ThreadsOK'
  BY <1>1 DEF IInv, ThreadsOK, RxQuiet, CmdQuiet
<1> QED
  BY <1>1, <1>2, <1>3, <1>4, <1>5, ReceiveSide

\* Framing: the request that ends a line is about that line.
LEMMA RxFeedsKeeps ==
  ASSUME IInv, RxFeeds
  PROVE  IInv'
<1> DEFINE reads == IF rx.chunk # << >> THEN 0
                    ELSE IF Len(rt.input) < Chunk THEN Len(rt.input) ELSE Chunk
           chunk == rx.chunk \o SubSeq(rt.input, 1, reads)
           ends == {k \in DOMAIN chunk : chunk[k][2] = "nl"}
           n == IF ends = {} THEN Len(chunk) + 1 ELSE Min(ends)
           framer == FrameBytes(rx.framer, SubSeq(chunk, 1, n - 1))
<1>1. rx.chunk \in Seq(Tokens) /\ rt.input \in Seq(Tokens)
  BY DEF IInv, LinesOK
<1>2. reads \in 0 .. Len(rt.input)
  BY <1>1, CommandSizes
<1>3. SubSeq(rt.input, 1, reads) \in Seq(Tokens)
  BY <1>1, <1>2
<1>4. chunk \in Seq(Tokens) /\ DOMAIN chunk = 1 .. Len(chunk)
  BY <1>1, <1>3
<1>5. SubSeq(rt.input, reads + 1, Len(rt.input)) \in Seq(Tokens)
  BY <1>1, <1>2
<1>6. /\ rx' = IF ends = {}
               THEN [rx EXCEPT !.chunk = << >>, !.framer = framer]
               ELSE [rx EXCEPT !.chunk = SubSeq(chunk, n + 1, Len(chunk)),
                               !.framer = Framer, !.pc = "queue",
                               !.request = FrameEnd(framer, chunk[n][1])]
      /\ rt' = [rt EXCEPT !.input = SubSeq(@, reads + 1, Len(@))]
      /\ UNCHANGED <<host, queue, cmd, ctl, pins, uart, cdc, main, dutBytes, stream>>
      /\ rx.pc = "run"
  BY Zenon DEF RxFeeds, RxElsewhere
<1>7. ends # {} => n \in 1 .. Len(chunk)
  <2>1. ends \in SUBSET (1 .. Len(chunk)) /\ Len(chunk) \in Nat
    BY <1>4
  <2> HIDE DEF ends, chunk
  <2> QED
    BY <2>1, EarliestEnd
<1> HIDE DEF reads, chunk, framer
<1>8. ends # {} => /\ SubSeq(chunk, n + 1, Len(chunk)) \in Seq(Tokens)
                   /\ chunk[n][1] \in 1 .. Len(host.lines)
  <2> SUFFICES ASSUME ends # {}
               PROVE  /\ SubSeq(chunk, n + 1, Len(chunk)) \in Seq(Tokens)
                      /\ chunk[n][1] \in 1 .. Len(host.lines)
    OBVIOUS
  <2> HIDE DEF ends, n
  <2>1. n \in 1 .. Len(chunk)
    BY <1>7
  <2>2. chunk[n] \in Tokens
    BY <1>4, <2>1
  <2>3. chunk[n][1] \in 1 .. Len(host.lines)
    BY <2>2 DEF Tokens
  <2>4. SubSeq(chunk, n + 1, Len(chunk)) \in Seq(Tokens)
    BY <1>4, <2>1
  <2> QED
    BY <2>3, <2>4
<1> HIDE DEF ends, n
<1>9. ends # {} => Sound(FrameEnd(framer, chunk[n][1]))
  BY <1>8, FrameEndSound DEF IInv
<1>10. /\ DOMAIN rt' = DOMAIN rt /\ (rt'.outstanding <=> rt.outstanding)
       /\ rt'.input = SubSeq(rt.input, reads + 1, Len(rt.input))
       /\ (rt'.cmdStart <=> rt.cmdStart) /\ (rt'.cmdStopped <=> rt.cmdStopped)
       /\ (rt'.rxStart <=> rt.rxStart) /\ (rt'.rxStopped <=> rt.rxStopped)
  BY <1>6 DEF IInv, ShapesOK, RuntimeFields
<1>11. /\ DOMAIN rx' = DOMAIN rx
       /\ ends = {} => rx'.pc = "run" /\ rx'.chunk = << >>
       /\ ends # {} => /\ rx'.pc = "queue"
                       /\ rx'.chunk = SubSeq(chunk, n + 1, Len(chunk))
                       /\ rx'.request = FrameEnd(framer, chunk[n][1])
  BY <1>6 DEF IInv, ShapesOK
<1>12. ShapesOK'
  BY <1>6, <1>10, <1>11 DEF IInv, ShapesOK
<1>13. LinesOK'
  <2>1. rx'.chunk \in Seq(Tokens)
    <3>1. CASE ends = {}
      <4>1. << >> \in Seq(Tokens)
        OBVIOUS
      <4> QED
        BY <1>11, <3>1, <4>1, Zenon
    <3>2. CASE ends # {}
      BY <1>8, <1>11, <3>2, Zenon
    <3> QED
      BY <3>1, <3>2
  <2>2. rt'.input \in Seq(Tokens)
    BY <1>5, <1>10
  <2>3. UNCHANGED host /\ Tokens' = Tokens
    BY <1>6 DEF Tokens
  <2> QED
    BY <2>1, <2>2, <2>3 DEF IInv, LinesOK
<1>14. RequestsOK'
  BY <1>6, <1>9, <1>11 DEF IInv, RequestsOK, Sound
<1>15. ThreadsOK'
  BY <1>6, <1>10, <1>11 DEF IInv, ThreadsOK, RxQuiet, CmdQuiet
<1> QED
  BY <1>6, <1>10, <1>12, <1>13, <1>14, <1>15, ReceiveSide

\* A chunk of the CDC FIFO goes to the receive queue, what does not fit is lost.
LEMMA OnCdcRxReadyKeeps ==
  ASSUME IInv, OnCdcRxReady
  PROVE  IInv'
<1> DEFINE n == IF Len(host.wire) < Chunk THEN Len(host.wire) ELSE Chunk
           fits == IF n <= RxCapacity - Len(rt.input) THEN n
                   ELSE RxCapacity - Len(rt.input)
           taken == SubSeq(host.wire, 1, fits)
<1>1. host.wire \in Seq(Tokens) /\ rt.input \in Seq(Tokens)
  BY DEF IInv, LinesOK
<1>2. n \in 0 .. Len(host.wire) /\ fits \in Int /\ fits <= Len(host.wire)
  <2>1. Len(host.wire) \in Nat /\ Len(rt.input) \in Nat
    BY <1>1
  <2>2. Chunk \in Nat /\ RxCapacity \in Nat
    BY CommandSizes
  <2>3. n \in 0 .. Len(host.wire) /\ n \in Int
    BY <2>1, <2>2
  <2> HIDE DEF n
  <2> QED
    BY <2>1, <2>2, <2>3
<1>3. /\ taken \in Seq(Tokens)
      /\ SubSeq(host.wire, n + 1, Len(host.wire)) \in Seq(Tokens)
  BY <1>1, <1>2
<1>4. rt.input \o taken \in Seq(Tokens)
  BY <1>1, <1>3
<1>5. /\ rt' = [rt EXCEPT !.input = @ \o taken, !.fault = @ \/ fits < n]
      /\ host' = [host EXCEPT !.wire = SubSeq(@, n + 1, Len(@))]
      /\ UNCHANGED <<queue, rx, cmd, ctl, pins, uart, cdc, main, dutBytes, stream>>
  BY Zenon DEF OnCdcRxReady
<1> HIDE DEF n, fits, taken
<1>6. /\ DOMAIN rt' = DOMAIN rt /\ (rt'.outstanding <=> rt.outstanding)
      /\ rt'.input = rt.input \o taken
      /\ (rt'.cmdStart <=> rt.cmdStart) /\ (rt'.cmdStopped <=> rt.cmdStopped)
      /\ (rt'.rxStart <=> rt.rxStart) /\ (rt'.rxStopped <=> rt.rxStopped)
  BY <1>5 DEF IInv, ShapesOK, RuntimeFields
<1>7. /\ DOMAIN host' = DOMAIN host
      /\ host'.script = host.script /\ host'.lines = host.lines
      /\ host'.wire = SubSeq(host.wire, n + 1, Len(host.wire))
  BY <1>5 DEF IInv, ShapesOK
<1>8. ShapesOK'
  BY <1>5, <1>6, <1>7 DEF IInv, ShapesOK
<1>9. LinesOK'
  BY <1>3, <1>4, <1>5, <1>6, <1>7 DEF IInv, LinesOK, Tokens
<1>10. RequestsOK'
  BY <1>5, <1>7 DEF IInv, RequestsOK, Sound
<1>11. ThreadsOK'
  BY <1>5, <1>6 DEF IInv, ThreadsOK, RxQuiet, CmdQuiet
<1> QED
  BY <1>5, <1>6, <1>7, <1>8, <1>9, <1>10, <1>11, ReceiveSide

\* A failing read of the CDC device records a fault.
LEMMA OnCdcRxFailsKeeps ==
  ASSUME IInv, OnCdcRxFails
  PROVE  IInv'
<1>1. /\ UNCHANGED <<host, queue, rx, cmd, ctl, pins, uart, cdc, main, dutBytes, stream>>
      /\ DOMAIN rt' = DOMAIN rt /\ (rt'.outstanding <=> rt.outstanding)
      /\ rt'.input = rt.input
      /\ (rt'.cmdStart <=> rt.cmdStart) /\ (rt'.cmdStopped <=> rt.cmdStopped)
      /\ (rt'.rxStart <=> rt.rxStart) /\ (rt'.rxStopped <=> rt.rxStopped)
  BY DEF IInv, ShapesOK, RuntimeFields, OnCdcRxFails, MarkRuntimeFault
<1>2. ShapesOK'
  BY <1>1 DEF IInv, ShapesOK
<1>3. LinesOK'
  BY <1>1 DEF IInv, LinesOK, Tokens
<1>4. RequestsOK'
  BY <1>1 DEF IInv, RequestsOK, Sound
<1>5. ThreadsOK'
  BY <1>1 DEF IInv, ThreadsOK, RxQuiet, CmdQuiet
<1> QED
  BY <1>1, <1>2, <1>3, <1>4, <1>5, ReceiveSide

\* The host opens or closes its port.
LEMMA HostDtrKeeps ==
  ASSUME IInv, HostDtr
  PROVE  IInv'
<1>1. /\ UNCHANGED <<rt, queue, rx, cmd, ctl, pins, uart, cdc, main, dutBytes, stream>>
      /\ DOMAIN host' = DOMAIN host /\ host'.script = host.script
      /\ host'.lines = host.lines /\ host'.wire = host.wire
  BY DEF IInv, ShapesOK, HostDtr
<1>2. ShapesOK'
  BY <1>1 DEF IInv, ShapesOK
<1>3. LinesOK'
  BY <1>1 DEF IInv, LinesOK, Tokens
<1>4. RequestsOK'
  BY <1>1 DEF IInv, RequestsOK, Sound
<1>5. ThreadsOK'
  BY <1>1 DEF IInv, ThreadsOK, RxQuiet, CmdQuiet
<1> QED
  BY <1>1, <1>2, <1>3, <1>4, <1>5, ReceiveSide

\* The host sends a line: what was known of the earlier ones stays true.
LEMMA HostSendKeeps ==
  ASSUME IInv, HostSend
  PROVE  IInv'
<1> DEFINE i == Len(host.lines) + 1
           b == host.script[i]
<1>1. /\ host.script \in Scripts /\ host.lines \in Seq(ScriptLines)
      /\ host.wire \in Seq(Tokens)
  BY DEF IInv, LinesOK
<1>2. i \in 1 .. 2 /\ Len(host.lines) \in Nat
  <2>1. Len(host.lines) < Len(host.script)
    BY Zenon DEF HostSend
  <2>2. Len(host.script) = 2 /\ Len(host.lines) \in Nat
    BY <1>1, ScriptFacts
  <2> QED
    BY <2>1, <2>2
<1>3. b \in ScriptLines /\ b.len \in Nat
  BY <1>1, <1>2, ScriptFacts
<1>4. /\ host' = [host EXCEPT !.lines = Append(@, b), !.wire = @ \o Line(i, b)]
      /\ UNCHANGED <<rt, queue, rx, cmd, ctl, pins, uart, cdc, main, dutBytes, stream>>
  BY Zenon DEF HostSend
<1> HIDE DEF b
<1>5. /\ DOMAIN host' = DOMAIN host
      /\ host'.script = host.script /\ host'.lines = Append(host.lines, b)
      /\ host'.wire = host.wire \o Line(i, b)
  BY <1>4 DEF IInv, ShapesOK
<1>6. /\ host'.lines \in Seq(ScriptLines) /\ Len(host'.lines) = i
      /\ \A k \in 1 .. Len(host.lines) : host'.lines[k] = host.lines[k]
  BY <1>1, <1>3, <1>5
<1>7. Tokens \subseteq Tokens' /\ <<i, "b">> \in Tokens' /\ <<i, "nl">> \in Tokens'
  BY <1>2, <1>6 DEF Tokens
<1>8. Line(i, b) \in Seq(Tokens')
  <2>1. [k \in 1 .. b.len |-> <<i, "b">>] \in Seq(Tokens')
    BY <1>3, <1>7, Repeated
  <2>2. << <<i, "nl">> >> \in Seq(Tokens')
    BY <1>7
  <2> QED
    BY <2>1, <2>2 DEF Line
<1>9. host.wire \in Seq(Tokens') /\ rt.input \in Seq(Tokens') /\ rx.chunk \in Seq(Tokens')
  BY <1>7 DEF IInv, LinesOK
<1>10. host'.wire \in Seq(Tokens')
  BY <1>5, <1>8, <1>9
<1>11. ShapesOK'
  BY <1>4, <1>5 DEF IInv, ShapesOK
<1>12. LinesOK'
  BY <1>1, <1>4, <1>5, <1>6, <1>9, <1>10 DEF LinesOK
<1>13. RequestsOK'
  BY <1>2, <1>4, <1>6 DEF IInv, RequestsOK, Sound
<1>14. ThreadsOK' /\ WaitOK' /\ EndedOK' /\ StreamOK'
  BY <1>4 DEF IInv, ThreadsOK, RxQuiet, CmdQuiet, WaitOK, EndedOK, StreamOK
<1>15. BusyOK'
  BY <1>2, <1>4, <1>6 DEF IInv, BusyOK
<1>16. NoLevelChangeWhileDriven' /\ PinsFollowChannels'
  BY <1>4 DEF IInv, NoLevelChangeWhileDriven, PinsFollowChannels
<1>17. OkAnswersTrue'
  <2>1. CASE cmd.state = "response"
    <3>1. host'.lines[cmd.id] = host.lines[cmd.id]
      BY <1>6, <2>1 DEF IInv, BusyOK
    <3> QED
      BY <1>4, <3>1 DEF IInv, OkAnswersTrue
  <2>2. CASE cmd.state # "response"
    BY <1>4, <2>2 DEF OkAnswersTrue
  <2> QED
    BY <2>1, <2>2
<1> QED
  BY <1>11, <1>12, <1>13, <1>14, <1>15, <1>16, <1>17 DEF IInv

-----------------------------------------------------------------------------
(***************************************************************************)
(* The transmitters                                                        *)
(***************************************************************************)
\* A step of the UART transmitter concerns only the executor that waits for it.
LEMMA UartSide ==
  ASSUME IInv,
         UNCHANGED <<host, rt, queue, rx, cmd, ctl, pins, cdc, main, stream>>,
         ShapesOK', WaitOK', BusyOK', OkAnswersTrue'
  PROVE  IInv'
<1>1. LinesOK'
  BY DEF IInv, LinesOK, Tokens
<1>2. RequestsOK'
  BY DEF IInv, RequestsOK, Sound
<1>3. ThreadsOK'
  BY DEF IInv, ThreadsOK, RxQuiet, CmdQuiet
<1>4. EndedOK'
  BY DEF IInv, EndedOK
<1>5. NoLevelChangeWhileDriven'
  BY DEF IInv, NoLevelChangeWhileDriven
<1>6. PinsFollowChannels'
  BY DEF IInv, PinsFollowChannels
<1>7. StreamOK'
  BY DEF IInv, StreamOK
<1> QED
  BY <1>1, <1>2, <1>3, <1>4, <1>5, <1>6, <1>7 DEF IInv

\* A step of the CDC transmitter concerns only the USB thread.
LEMMA CdcSide ==
  ASSUME IInv,
         UNCHANGED <<host, rt, queue, rx, cmd, ctl, pins, uart, main, dutBytes>>,
         ShapesOK', EndedOK', StreamOK'
  PROVE  IInv'
<1>1. LinesOK'
  BY DEF IInv, LinesOK, Tokens
<1>2. RequestsOK'
  BY DEF IInv, RequestsOK, Sound
<1>3. ThreadsOK'
  BY DEF IInv, ThreadsOK, RxQuiet, CmdQuiet
<1>4. WaitOK'
  BY DEF IInv, WaitOK
<1>5. BusyOK'
  BY DEF IInv, BusyOK
<1>6. NoLevelChangeWhileDriven'
  BY DEF IInv, NoLevelChangeWhileDriven
<1>7. PinsFollowChannels'
  BY DEF IInv, PinsFollowChannels
<1>8. OkAnswersTrue'
  BY DEF IInv, OkAnswersTrue
<1> QED
  BY <1>1, <1>2, <1>3, <1>4, <1>5, <1>6, <1>7, <1>8 DEF IInv

\* The work item enables the interrupt.
LEMMA KickTransmissionKeeps ==
  ASSUME IInv, KickTransmission
  PROVE  IInv'
<1>1. /\ UNCHANGED <<host, rt, queue, rx, cmd, ctl, pins, cdc, main, stream>>
      /\ dutBytes' = dutBytes /\ DOMAIN uart' = DOMAIN uart
      /\ uart'.state = uart.state /\ uart'.queued = uart.queued
      /\ uart'.length = uart.length
  BY DEF IInv, ShapesOK, KickTransmission, UartElsewhere
<1>2. ShapesOK'
  BY <1>1 DEF IInv, ShapesOK
<1>3. WaitOK'
  BY <1>1 DEF IInv, WaitOK
<1>4. BusyOK'
  BY <1>1 DEF IInv, BusyOK
<1>5. OkAnswersTrue'
  BY <1>1 DEF IInv, BusyOK, OkAnswersTrue
<1> QED
  BY <1>1, <1>2, <1>3, <1>4, <1>5, UartSide

\* Bytes queued are bytes that reached the DUT, and only all of them complete.
LEMMA UartTxOnInterruptKeeps ==
  ASSUME IInv, NEW n \in 0 .. 1, UartTxOnInterrupt(n)
  PROVE  IInv'
<1>1. /\ UNCHANGED <<host, rt, queue, rx, cmd, ctl, pins, cdc, main, stream>>
      /\ DOMAIN uart' = DOMAIN uart /\ uart'.length = uart.length
      /\ \/ dutBytes' = dutBytes /\ uart'.state = uart.state /\ uart'.queued = uart.queued
         \/ /\ uart.state = "pending"
            /\ dutBytes' = dutBytes + n /\ uart'.queued = uart.queued + n
            /\ \/ uart'.state = "pending"
               \/ uart'.state = "completed" /\ uart'.queued = uart'.length
  <2>1. DOMAIN uart = {"state", "length", "queued", "irq", "kick"}
    BY DEF IInv, ShapesOK
  <2>2. UNCHANGED <<host, rt, queue, rx, cmd, ctl, pins, cdc, main, stream>>
    BY DEF UartTxOnInterrupt, UartElsewhere
  <2>3. CASE uart.state # "pending"
    <3>1. uart' = [uart EXCEPT !.irq = FALSE] /\ dutBytes' = dutBytes
      BY <2>3 DEF UartTxOnInterrupt
    <3> QED
      BY <2>1, <2>2, <3>1
  <2>4. CASE uart.state = "pending"
    <3>1. /\ dutBytes' = dutBytes + n
          /\ \/ /\ uart.queued + n = uart.length
                /\ uart' = [uart EXCEPT !.queued = uart.queued + n, !.state = "completed",
                                       !.irq = FALSE]
             \/ uart' = [uart EXCEPT !.queued = uart.queued + n]
      BY <2>4 DEF UartTxOnInterrupt, UartAllQueued
    <3>2. CASE uart' = [uart EXCEPT !.queued = uart.queued + n]
      BY <2>1, <2>2, <2>4, <3>1, <3>2
    <3>3. CASE /\ uart.queued + n = uart.length
               /\ uart' = [uart EXCEPT !.queued = uart.queued + n, !.state = "completed",
                                      !.irq = FALSE]
      BY <2>1, <2>2, <2>4, <3>1, <3>3
    <3> QED
      BY <3>1, <3>2, <3>3
  <2> QED
    BY <2>3, <2>4
<1>2. ShapesOK'
  BY <1>1 DEF IInv, ShapesOK
<1>3. WaitOK'
  BY <1>1 DEF IInv, WaitOK
<1>4. BusyOK'
  BY <1>1 DEF IInv, BusyOK
<1>5. OkAnswersTrue'
  BY <1>1 DEF IInv, BusyOK, OkAnswersTrue
<1> QED
  BY <1>1, <1>2, <1>3, <1>4, <1>5, UartSide

\* A failing driver ends a transmission, not the wait for it.
LEMMA UartTxDriverFaultKeeps ==
  ASSUME IInv, UartTxDriverFault
  PROVE  IInv'
<1>1. /\ UNCHANGED <<host, rt, queue, rx, cmd, ctl, pins, cdc, main, stream>>
      /\ dutBytes' = dutBytes /\ DOMAIN uart' = DOMAIN uart
      /\ uart.state = "pending" /\ uart'.state = "fault" /\ uart'.queued = uart.queued
      /\ uart'.length = uart.length
  BY DEF IInv, ShapesOK, UartTxDriverFault, UartElsewhere
<1>2. ShapesOK'
  BY <1>1 DEF IInv, ShapesOK
<1>3. WaitOK'
  BY <1>1 DEF IInv, WaitOK
<1>4. BusyOK'
  BY <1>1 DEF IInv, BusyOK
<1>5. OkAnswersTrue'
  BY <1>1 DEF IInv, BusyOK, OkAnswersTrue
<1> QED
  BY <1>1, <1>2, <1>3, <1>4, <1>5, UartSide

\* A frame is partial until its last write.
LEMMA CdcTxOnWritableKeeps ==
  ASSUME IInv, CdcTxOnWritable
  PROVE  IInv'
<1>1. /\ UNCHANGED <<host, rt, queue, rx, cmd, ctl, pins, uart, main, dutBytes>>
      /\ cdc.state = "pending" /\ DOMAIN cdc' = DOMAIN cdc
      /\ \/ cdc'.state = "pending" /\ stream' = "partial"
         \/ cdc'.state = "completed" /\ stream' = "whole"
  <2>1. /\ DOMAIN cdc = {"state", "frame", "left"} /\ stream # "torn"
        /\ UNCHANGED <<host, rt, queue, rx, cmd, ctl, pins, uart, main, dutBytes>>
        /\ cdc.state = "pending"
    BY DEF IInv, ShapesOK, StreamOK, CdcTxOnWritable, CdcElsewhere
  <2>2. CASE cdc.left = 1
    <3>1. /\ cdc' = [cdc EXCEPT !.left = cdc.left - 1, !.state = "completed"]
          /\ stream' = "whole"
      BY <2>1, <2>2 DEF CdcTxOnWritable
    <3> QED
      BY <2>1, <3>1
  <2>3. CASE cdc.left # 1
    <3>1. /\ cdc' = [cdc EXCEPT !.left = cdc.left - 1, !.state = "pending"]
          /\ stream' = "partial"
      BY <2>1, <2>3 DEF CdcTxOnWritable
    <3> QED
      BY <2>1, <3>1
  <2> QED
    BY <2>2, <2>3
<1>2. ShapesOK'
  BY <1>1 DEF IInv, ShapesOK
<1>3. EndedOK'
  BY <1>1 DEF IInv, EndedOK
<1>4. StreamOK'
  BY <1>1 DEF IInv, EndedOK, StreamOK
<1> QED
  BY <1>1, <1>2, <1>3, <1>4, CdcSide

\* A failing driver leaves the stream as it is.
LEMMA CdcTxDriverFaultKeeps ==
  ASSUME IInv, CdcTxDriverFault
  PROVE  IInv'
<1>1. /\ UNCHANGED <<host, rt, queue, rx, cmd, ctl, pins, uart, main, dutBytes>>
      /\ cdc.state = "pending" /\ cdc'.state = "fault" /\ DOMAIN cdc' = DOMAIN cdc
      /\ stream' = stream
  BY DEF IInv, ShapesOK, CdcTxDriverFault, CdcElsewhere
<1>2. ShapesOK'
  BY <1>1 DEF IInv, ShapesOK
<1>3. EndedOK'
  BY <1>1 DEF IInv, EndedOK
<1>4. StreamOK'
  BY <1>1 DEF IInv, EndedOK, StreamOK
<1> QED
  BY <1>1, <1>2, <1>3, <1>4, CdcSide

-----------------------------------------------------------------------------
(***************************************************************************)
(* The command thread                                                      *)
(***************************************************************************)
\* While the command thread serves its epoch, it disturbs no other thread.
LEMMA ServeSide ==
  ASSUME IInv,
         cmd.pc \in {"run", "serve"},
         cmd'.pc \in {"run", "serve"},
         UNCHANGED <<host, rx, cdc, main, stream>>,
         queue' = queue \/ queue' = << >>,
         rt'.input = rt.input,
         rt'.rxStart <=> rt.rxStart,
         rt'.rxStopped <=> rt.rxStopped,
         rt'.cmdStart <=> rt.cmdStart,
         rt'.cmdStopped <=> rt.cmdStopped,
         ShapesOK', BusyOK', NoLevelChangeWhileDriven', PinsFollowChannels', OkAnswersTrue'
  PROVE  IInv'
<1>1. LinesOK'
  BY DEF IInv, LinesOK, Tokens
<1>2. RequestsOK'
  BY DEF IInv, RequestsOK, Sound
<1>3. ThreadsOK'
  BY DEF IInv, ThreadsOK, RxQuiet, CmdQuiet
<1>4. WaitOK'
  BY DEF IInv, WaitOK
<1>5. EndedOK'
  BY DEF IInv, EndedOK, ThreadsOK, RxQuiet, CmdQuiet
<1>6. StreamOK'
  BY DEF IInv, StreamOK
<1> QED
  BY <1>1, <1>2, <1>3, <1>4, <1>5, <1>6 DEF IInv

\* What is known of a request that is taken from the queue.
LEMMA TakenFacts ==
  ASSUME IInv, Taken
  PROVE  /\ cmd.pc = "serve" /\ cmd.state = "idle" /\ ~rt.outstanding
         /\ uart.state = "idle" /\ ctl.pulse = None /\ queue' = << >>
         /\ Theirs \in 1 .. Len(host.lines) /\ What \in ScriptLines
         /\ queue[1].request.kind \in {"command"} \union Refusals
         /\ queue[1].request.kind = "command" => CommandDecode(What) = "command"
<1>1. queue # << >> /\ cmd.pc = "serve" /\ cmd.state = "idle" /\ ~rt.outstanding
      /\ queue' = << >>
  BY DEF Taken, Serving
<1>2. Sound(queue[1].request)
  BY <1>1 DEF IInv, RequestsOK
<1>3. host.lines \in Seq(ScriptLines)
  BY DEF IInv, LinesOK
<1>4. Theirs \in 1 .. Len(host.lines) /\ What \in ScriptLines
  BY <1>2, <1>3 DEF Sound, Theirs, What
<1>5. uart.state = "idle" /\ ctl.pulse = None
  BY <1>1 DEF IInv, BusyOK
<1> QED
  BY <1>1, <1>2, <1>4, <1>5 DEF Sound, Theirs, What

\* The executor turns to a request.
LEMMA ForIdFacts ==
  ASSUME IInv, NEW state, NEW result, ForId(state, result)
  PROVE  /\ DOMAIN cmd' = DOMAIN cmd /\ cmd'.pc = "run" /\ cmd'.id = Theirs
         /\ cmd'.state = state /\ cmd'.result = result
BY DEF IInv, ShapesOK, ForId

\* A response makes the request outstanding.
LEMMA OutstandingFacts ==
  ASSUME IInv, rt' = [rt EXCEPT !.outstanding = TRUE, !.ready = TRUE]
  PROVE  /\ DOMAIN rt' = DOMAIN rt /\ rt'.outstanding /\ rt'.input = rt.input
         /\ (rt'.rxStart <=> rt.rxStart) /\ (rt'.rxStopped <=> rt.rxStopped)
         /\ (rt'.cmdStart <=> rt.cmdStart) /\ (rt'.cmdStopped <=> rt.cmdStopped)
BY DEF IInv, ShapesOK, RuntimeFields

\* A drive change keeps the promises about the pins: the pin is as its record
\* says, or the driver has failed.
LEMMA Driven ==
  ASSUME IInv, main' = main,
         NEW c \in Channels, NEW drive \in Drives, NEW f \in Outcomes,
         NEW now \in ChannelRecord,
         DriveApply(pins[c], drive, f).ok => now.drive = drive /\ now.configured,
         pins' = [pins EXCEPT ![c] =
                    [DriveApply(pins[c], drive, f).pin EXCEPT
                        !.failed = @ \/ ~DriveApply(pins[c], drive, f).ok]],
         ctl'.channels = [ctl.channels EXCEPT ![c] = now]
  PROVE  pins' \in [Channels -> PinRecord] /\ NoLevelChangeWhileDriven' /\ PinsFollowChannels'
<1> DEFINE r == DriveApply(pins[c], drive, f)
           q == [r.pin EXCEPT !.failed = @ \/ ~r.ok]
<1>1. pins \in [Channels -> PinRecord] /\ ctl.channels \in [Channels -> ChannelRecord]
  BY DEF IInv, ShapesOK
<1>2. Applied(r, pins[c], drive)
  BY <1>1, DriveApplied
<1>3. pins' = [pins EXCEPT ![c] = q]
  OBVIOUS
<1>4. r.ok => now.drive = drive /\ now.configured
  OBVIOUS
<1> HIDE DEF r
<1>5. /\ q \in PinRecord /\ (q.glitch <=> pins[c].glitch)
      /\ ~q.failed => /\ r.ok /\ (q.enable <=> drive # "high_z")
                      /\ drive # "high_z" => q.data = drive
  BY <1>1, <1>2 DEF Applied, PinRecord
<1> HIDE DEF q
<1>6. pins' \in [Channels -> PinRecord]
  BY <1>1, <1>3, <1>5
<1>7. /\ pins'[c] = q /\ ctl'.channels[c] = now
      /\ \A d \in Channels \ {c} : pins'[d] = pins[d] /\ ctl'.channels[d] = ctl.channels[d]
  BY <1>1, <1>3
<1>8. NoLevelChangeWhileDriven'
  BY <1>5, <1>7 DEF IInv, NoLevelChangeWhileDriven
<1>9. ASSUME NEW d \in Channels, ~pins'[d].failed, main'.ok
      PROVE  /\ pins'[d].enable <=> ctl'.channels[d].drive # "high_z"
             /\ pins'[d].enable => /\ pins'[d].data = ctl'.channels[d].drive
                                   /\ ctl'.channels[d].configured
  <2>1. CASE d = c
    BY <1>4, <1>5, <1>7, <1>9, <2>1
  <2>2. CASE d # c
    <3>1. pins'[d] = pins[d] /\ ctl'.channels[d] = ctl.channels[d] /\ main.ok
      BY <1>7, <1>9, <2>2
    <3>2. /\ pins[d].enable <=> ctl.channels[d].drive # "high_z"
          /\ pins[d].enable => /\ pins[d].data = ctl.channels[d].drive
                               /\ ctl.channels[d].configured
      BY <1>9, <3>1 DEF IInv, PinsFollowChannels
    <3> QED
      BY <3>1, <3>2
  <2> QED
    BY <2>1, <2>2
<1>10. PinsFollowChannels'
  BY <1>9 DEF PinsFollowChannels
<1> QED
  BY <1>6, <1>8, <1>10

\* The command thread starts with everything cancelled.
LEMMA CmdBeginsKeeps ==
  ASSUME IInv, CmdBegins
  PROVE  IInv'
<1>1. /\ UNCHANGED <<host, queue, rx, ctl, pins, uart, cdc, main, dutBytes, stream>>
      /\ DOMAIN rt' = DOMAIN rt /\ rt'.input = rt.input
      /\ (rt'.outstanding <=> rt.outstanding) /\ ~rt'.cmdStart /\ rt.cmdStart
      /\ (rt'.rxStart <=> rt.rxStart) /\ (rt'.rxStopped <=> rt.rxStopped)
      /\ (rt'.cmdStopped <=> rt.cmdStopped) /\ cmd.pc = "wait"
      /\ DOMAIN cmd' = DOMAIN cmd /\ cmd'.pc = "run" /\ cmd'.state = cmd.state
      /\ cmd'.id = cmd.id /\ cmd'.result = cmd.result
  BY DEF IInv, ShapesOK, RuntimeFields, CmdBegins, CmdElsewhere
<1>2. ShapesOK'
  BY <1>1 DEF IInv, ShapesOK
<1>3. LinesOK'
  BY <1>1 DEF IInv, LinesOK, Tokens
<1>4. RequestsOK'
  BY <1>1 DEF IInv, RequestsOK, Sound
<1>5. ThreadsOK'
  BY <1>1 DEF IInv, ThreadsOK, RxQuiet, CmdQuiet
<1>6. WaitOK'
  BY <1>1 DEF IInv, WaitOK
<1>7. BusyOK'
  BY <1>1 DEF IInv, BusyOK
<1>8. EndedOK'
  BY <1>1 DEF IInv, EndedOK
<1>9. NoLevelChangeWhileDriven'
  BY <1>1 DEF IInv, NoLevelChangeWhileDriven
<1>10. PinsFollowChannels'
  BY <1>1 DEF IInv, PinsFollowChannels
<1>11. StreamOK'
  BY <1>1 DEF IInv, StreamOK
<1>12. OkAnswersTrue'
  BY <1>1 DEF IInv, OkAnswersTrue
<1> QED
  BY <1>1, <1>2, <1>3, <1>4, <1>5, <1>6, <1>7, <1>8, <1>9, <1>10, <1>11, <1>12 DEF IInv

\* Looking at the epoch changes nothing.
LEMMA CmdChecksKeeps ==
  ASSUME IInv, CmdChecks
  PROVE  IInv'
<1>1. /\ UNCHANGED <<host, rt, queue, rx, ctl, pins, uart, cdc, main, dutBytes, stream>>
      /\ cmd.pc = "run" /\ cmd'.pc = "serve" /\ cmd'.state = cmd.state
      /\ DOMAIN cmd' = DOMAIN cmd /\ cmd'.id = cmd.id /\ cmd'.result = cmd.result
  BY DEF IInv, ShapesOK, CmdChecks, CmdElsewhere
<1>2. ShapesOK'
  BY <1>1 DEF IInv, ShapesOK
<1>3. BusyOK'
  BY <1>1 DEF IInv, BusyOK
<1>4. NoLevelChangeWhileDriven'
  BY <1>1 DEF IInv, NoLevelChangeWhileDriven
<1>5. PinsFollowChannels'
  BY <1>1 DEF IInv, PinsFollowChannels
<1>6. OkAnswersTrue'
  BY <1>1 DEF IInv, OkAnswersTrue
<1> QED
  BY <1>1, <1>2, <1>3, <1>4, <1>5, <1>6, ServeSide

\* A service that finds nothing to do changes nothing.
LEMMA CmdIdlesKeeps ==
  ASSUME IInv, CmdIdles
  PROVE  IInv'
<1>1. /\ UNCHANGED <<host, rt, queue, rx, ctl, pins, uart, cdc, main, dutBytes, stream>>
      /\ cmd.pc = "serve" /\ cmd'.pc = "run" /\ cmd'.state = cmd.state
      /\ DOMAIN cmd' = DOMAIN cmd /\ cmd'.id = cmd.id /\ cmd'.result = cmd.result
  BY DEF IInv, ShapesOK, CmdIdles, Serving, CmdElsewhere
<1>2. ShapesOK'
  BY <1>1 DEF IInv, ShapesOK
<1>3. BusyOK'
  BY <1>1 DEF IInv, BusyOK
<1>4. NoLevelChangeWhileDriven'
  BY <1>1 DEF IInv, NoLevelChangeWhileDriven
<1>5. PinsFollowChannels'
  BY <1>1 DEF IInv, PinsFollowChannels
<1>6. OkAnswersTrue'
  BY <1>1 DEF IInv, OkAnswersTrue
<1> QED
  BY <1>1, <1>2, <1>3, <1>4, <1>5, <1>6, ServeSide

\* A consumed response leaves the executor idle.
LEMMA CmdConsumesKeeps ==
  ASSUME IInv, CmdConsumes
  PROVE  IInv'
<1>1. /\ UNCHANGED <<host, queue, rx, ctl, pins, uart, cdc, main, dutBytes, stream>>
      /\ cmd.pc = "serve" /\ cmd'.pc = "run" /\ cmd'.state = "idle" /\ DOMAIN cmd' = DOMAIN cmd
      /\ rt.outstanding /\ ~rt'.outstanding /\ DOMAIN rt' = DOMAIN rt /\ rt'.input = rt.input
      /\ (rt'.rxStart <=> rt.rxStart) /\ (rt'.rxStopped <=> rt.rxStopped)
      /\ (rt'.cmdStart <=> rt.cmdStart) /\ (rt'.cmdStopped <=> rt.cmdStopped)
  BY DEF IInv, ShapesOK, RuntimeFields, CmdConsumes, ResponseConsumed, Serving,
         CmdElsewhere
<1>2. ShapesOK'
  BY <1>1 DEF IInv, ShapesOK
<1>3. BusyOK'
  BY <1>1 DEF IInv, BusyOK
<1>4. NoLevelChangeWhileDriven'
  BY <1>1 DEF IInv, NoLevelChangeWhileDriven
<1>5. PinsFollowChannels'
  BY <1>1 DEF IInv, PinsFollowChannels
<1>6. OkAnswersTrue'
  BY <1>1 DEF IInv, OkAnswersTrue
<1> QED
  BY <1>1, <1>2, <1>3, <1>4, <1>5, <1>6, ServeSide

\* An answer given without the pins, the UART or a pulse, and that is not "ok".
LEMMA RefusalKeeps ==
  ASSUME IInv, Taken, NEW result, result # "ok", Answer(result),
         UNCHANGED <<host, rx, cdc, main, stream, ctl, pins, uart, dutBytes>>
  PROVE  IInv'
<1>1. /\ cmd.pc = "serve" /\ cmd.state = "idle" /\ ~rt.outstanding
      /\ uart.state = "idle" /\ ctl.pulse = None /\ queue' = << >>
      /\ Theirs \in 1 .. Len(host.lines)
  BY TakenFacts
<1>2. /\ DOMAIN cmd' = DOMAIN cmd /\ cmd'.pc = "run" /\ cmd'.id = Theirs
      /\ cmd'.state = "response" /\ cmd'.result = result
  BY ForIdFacts DEF Answer
<1>3. /\ DOMAIN rt' = DOMAIN rt /\ rt'.outstanding /\ rt'.input = rt.input
      /\ (rt'.rxStart <=> rt.rxStart) /\ (rt'.rxStopped <=> rt.rxStopped)
      /\ (rt'.cmdStart <=> rt.cmdStart) /\ (rt'.cmdStopped <=> rt.cmdStopped)
  BY OutstandingFacts DEF Answer
<1>4. ShapesOK'
  BY <1>2, <1>3 DEF IInv, ShapesOK
<1>5. BusyOK'
  BY <1>1, <1>2, <1>3 DEF IInv, BusyOK
<1>6. NoLevelChangeWhileDriven' /\ PinsFollowChannels'
  BY DEF IInv, NoLevelChangeWhileDriven, PinsFollowChannels
<1>7. OkAnswersTrue'
  BY <1>2 DEF OkAnswersTrue
<1> QED
  BY <1>1, <1>2, <1>3, <1>4, <1>5, <1>6, <1>7, ServeSide

\* A line that is no command is refused; a request of another epoch is dropped.
LEMMA RejectsKeeps ==
  ASSUME IInv, Rejects
  PROVE  IInv'
<1>1. Taken /\ UNCHANGED <<host, rx, cdc, main, stream, ctl, pins, uart, dutBytes>>
  BY DEF Rejects, CmdElsewhere
<1>2. CASE queue[1].epoch # cmd.epoch
  <2>1. /\ cmd.pc = "serve" /\ queue' = << >>
    BY <1>1, TakenFacts
  <2>2. /\ DOMAIN cmd' = DOMAIN cmd /\ cmd'.pc = "run" /\ cmd'.id = cmd.id
        /\ cmd'.state = cmd.state /\ cmd'.result = cmd.result /\ rt' = rt
    BY <1>2 DEF IInv, ShapesOK, Rejects
  <2>3. ShapesOK'
    BY <1>1, <2>2 DEF IInv, ShapesOK
  <2>4. BusyOK'
    BY <1>1, <2>2 DEF IInv, BusyOK
  <2>5. NoLevelChangeWhileDriven' /\ PinsFollowChannels'
    BY <1>1 DEF IInv, NoLevelChangeWhileDriven, PinsFollowChannels
  <2>6. OkAnswersTrue'
    BY <1>1, <2>2 DEF IInv, OkAnswersTrue
  <2> QED
    BY <1>1, <2>1, <2>2, <2>3, <2>4, <2>5, <2>6, ServeSide
<1>3. CASE ~(queue[1].epoch # cmd.epoch)
  <2>1. Answer(queue[1].request.kind) /\ queue[1].request.kind # "command"
    BY <1>3 DEF Rejects
  <2>2. queue[1].request.kind # "ok"
    BY <1>1, TakenFacts DEF Refusals
  <2> QED
    BY <1>1, <2>1, <2>2, RefusalKeeps
<1> QED
  BY <1>2, <1>3

\* A channel that was not configured is left alone.
LEMMA NotConfiguredKeeps ==
  ASSUME IInv, NotConfigured
  PROVE  IInv'
<1>1. /\ Taken /\ Answer("not_configured")
      /\ UNCHANGED <<host, rx, cdc, main, stream, ctl, pins, uart, dutBytes>>
  BY DEF NotConfigured, CommandIs, Submitted, CmdElsewhere
<1> QED
  BY <1>1, RefusalKeeps

\* What a command that is carried out was decoded as.
LEMMA CommandFacts ==
  ASSUME IInv, NEW name, CommandIs(name)
  PROVE  /\ Taken /\ What.cmd = name /\ What \in ScriptLines
         /\ name = "configure_gpio_mode" => DecodeConfigure(What)
         /\ name = "pulse_control" => DecodePulse(What)
         /\ name = "set_control_state" => DecodeState(What)
         /\ name = "uart_send" => DecodeUartSend(What)
<1>1. Taken /\ queue[1].request.kind = "command" /\ What.cmd = name
  BY DEF CommandIs, Submitted
<1>2. What \in ScriptLines /\ CommandDecode(What) = "command"
  BY <1>1, TakenFacts
<1> QED
  BY <1>1, <1>2, Decoded

\* A control command drives one channel and answers, whatever the driver does.
\* now is the record of the channel afterwards.
LEMMA ControlKeeps ==
  ASSUME IInv, Taken, NEW c \in Channels, NEW drive \in Drives, NEW f \in Outcomes,
         NEW result, Answer(result),
         NEW now \in ChannelRecord,
         DriveApply(pins[c], drive, f).ok => now.drive = drive /\ now.configured,
         pins' = [pins EXCEPT ![c] =
                    [DriveApply(pins[c], drive, f).pin EXCEPT
                        !.failed = @ \/ ~DriveApply(pins[c], drive, f).ok]],
         ctl' = [ctl EXCEPT !.channels[c] = now],
         What.cmd \notin {"uart_send", "pulse_control"} \/ result # "ok",
         UNCHANGED <<host, rx, cdc, main, stream, uart, dutBytes>>
  PROVE  IInv'
<1>1. /\ cmd.pc = "serve" /\ cmd.state = "idle" /\ ~rt.outstanding
      /\ uart.state = "idle" /\ ctl.pulse = None /\ queue' = << >>
      /\ Theirs \in 1 .. Len(host.lines)
  BY TakenFacts
<1>2. /\ DOMAIN cmd' = DOMAIN cmd /\ cmd'.pc = "run" /\ cmd'.id = Theirs
      /\ cmd'.state = "response" /\ cmd'.result = result
  BY ForIdFacts DEF Answer
<1>3. /\ DOMAIN rt' = DOMAIN rt /\ rt'.outstanding /\ rt'.input = rt.input
      /\ (rt'.rxStart <=> rt.rxStart) /\ (rt'.rxStopped <=> rt.rxStopped)
      /\ (rt'.cmdStart <=> rt.cmdStart) /\ (rt'.cmdStopped <=> rt.cmdStopped)
  BY OutstandingFacts DEF Answer
<1>4. /\ ctl'.channels = [ctl.channels EXCEPT ![c] = now] /\ ctl'.pulse = ctl.pulse
      /\ ctl' \in [channels : [Channels -> ChannelRecord], pulse : Channels \union {None}]
  BY DEF IInv, ShapesOK
<1>5. pins' \in [Channels -> PinRecord] /\ NoLevelChangeWhileDriven' /\ PinsFollowChannels'
  BY <1>4, Driven
<1>6. ShapesOK'
  BY <1>2, <1>3, <1>4, <1>5 DEF IInv, ShapesOK
<1>7. BusyOK'
  BY <1>1, <1>2, <1>3, <1>4 DEF IInv, BusyOK
<1>8. OkAnswersTrue'
  BY <1>2 DEF OkAnswersTrue, What
<1> QED
  BY <1>1, <1>2, <1>3, <1>5, <1>6, <1>7, <1>8, ServeSide

\* dmh_control_configure: the idle drive of the channel as requested.
LEMMA SubmitConfigureKeeps ==
  ASSUME IInv, SubmitConfigure
  PROVE  IInv'
<1> DEFINE line == What
           c == line.channel
           requested == [configured |-> TRUE, mode |-> line.mode, active |-> line.active,
                         idle |-> IF line.idle = None THEN "low" ELSE line.idle,
                         drive |-> "high_z"]
           drive == ConfiguredDrive(requested, "idle")
<1>1. /\ Taken /\ line.cmd = "configure_gpio_mode" /\ DecodeConfigure(line)
      /\ UNCHANGED <<host, rx, cdc, main, stream, uart, dutBytes>>
  BY CommandFacts DEF SubmitConfigure, CmdElsewhere
<1>2. PICK f \in Outcomes : Drive(c, requested, drive, f)
                            /\ ControlAnswer(DriveOk(c, drive, f))
  BY DEF SubmitConfigure, ControlConfigure
<1>3. c \in Channels /\ line.active \in Levels
      /\ line.mode \in {"open_drain", "push_pull"}
  BY <1>1 DEF DecodeConfigure, KnownChannel
<1>4. line.idle = None \/ line.idle \in Levels
  <2>1. CASE line.mode = "push_pull"
    BY <1>1, <2>1 DEF DecodeConfigure
  <2>2. CASE line.mode # "push_pull"
    <3>1. Present(line) = {"channel", "mode", "active"}
      BY <1>1, <2>2 DEF DecodeConfigure
    <3>2. "idle" \in OptionalFields /\ "idle" \notin Present(line)
      BY <3>1 DEF OptionalFields
    <3> QED
      BY <3>2 DEF Present
  <2> QED
    BY <2>1, <2>2
<1> HIDE DEF line, c
<1>5. requested \in ChannelRecord /\ requested.configured
  BY <1>3, <1>4 DEF ChannelRecord, Levels, Drives
<1> HIDE DEF requested
<1>6. drive \in Drives
  BY <1>5, ConfiguredDrives
<1> HIDE DEF drive
<1> DEFINE ok == DriveApply(pins[c], drive, f).ok
           now == IF ok THEN [requested EXCEPT !.drive = drive]
                  ELSE [ctl.channels[c] EXCEPT !.drive = "high_z"]
<1>7. ctl.channels[c] \in ChannelRecord
  BY <1>3 DEF IInv, ShapesOK
<1>8. now \in ChannelRecord /\ (ok => now.drive = drive /\ now.configured)
  BY <1>5, <1>6, <1>7 DEF ChannelRecord, Drives
<1>9. /\ pins' = [pins EXCEPT ![c] =
                    [DriveApply(pins[c], drive, f).pin EXCEPT
                        !.failed = @ \/ ~DriveApply(pins[c], drive, f).ok]]
      /\ ctl' = [ctl EXCEPT !.channels[c] = now]
  BY <1>2, Zenon DEF Drive
<1>10. \E result : Answer(result)
  BY <1>2 DEF ControlAnswer
<1> HIDE DEF now
<1>11. What.cmd \notin {"uart_send", "pulse_control"}
  BY <1>1 DEF line
<1> QED
  BY <1>1, <1>3, <1>6, <1>8, <1>9, <1>10, <1>11, ControlKeeps

\* apply_configured_state: the channel as it was configured.
LEMMA SubmitControlStateKeeps ==
  ASSUME IInv, SubmitControlState
  PROVE  IInv'
<1> DEFINE c == What.channel
           drive == ConfiguredDrive(ctl.channels[c], What.state)
<1>1. /\ Taken /\ What.cmd = "set_control_state" /\ DecodeState(What)
      /\ UNCHANGED <<host, rx, cdc, main, stream, uart, dutBytes>>
      /\ ctl.channels[c].configured
  BY CommandFacts DEF SubmitControlState, CmdElsewhere
<1>2. PICK f \in Outcomes : Drive(c, ctl.channels[c], drive, f)
                            /\ ControlAnswer(DriveOk(c, drive, f))
  BY DEF SubmitControlState, ControlSetState
<1>3. c \in Channels
  BY <1>1 DEF DecodeState, KnownChannel
<1> HIDE DEF c
<1>4. ctl.channels[c] \in ChannelRecord
  BY <1>3 DEF IInv, ShapesOK
<1>5. drive \in Drives
  BY <1>4, ConfiguredDrives
<1> HIDE DEF drive
<1> DEFINE ok == DriveApply(pins[c], drive, f).ok
           now == IF ok THEN [ctl.channels[c] EXCEPT !.drive = drive]
                  ELSE [ctl.channels[c] EXCEPT !.drive = "high_z"]
<1>6. now \in ChannelRecord /\ (ok => now.drive = drive /\ now.configured)
  BY <1>1, <1>4, <1>5 DEF ChannelRecord, Drives
<1>7. /\ pins' = [pins EXCEPT ![c] =
                    [DriveApply(pins[c], drive, f).pin EXCEPT
                        !.failed = @ \/ ~DriveApply(pins[c], drive, f).ok]]
      /\ ctl' = [ctl EXCEPT !.channels[c] = now]
  BY <1>2, Zenon DEF Drive
<1>8. \E result : Answer(result)
  BY <1>2 DEF ControlAnswer
<1> HIDE DEF now
<1>9. What.cmd \notin {"uart_send", "pulse_control"}
  BY <1>1
<1> QED
  BY <1>1, <1>3, <1>5, <1>6, <1>7, <1>8, <1>9, ControlKeeps

\* A pulse begins with the active level, or with a fault.
LEMMA SubmitPulseKeeps ==
  ASSUME IInv, SubmitPulse
  PROVE  IInv'
<1> DEFINE c == What.channel
           drive == ConfiguredDrive(ctl.channels[c], "active")
<1>1. /\ Taken /\ What.cmd = "pulse_control" /\ DecodePulse(What)
      /\ UNCHANGED <<host, rx, cdc, main, stream, uart, dutBytes>>
      /\ ctl.channels[c].configured
  BY CommandFacts DEF SubmitPulse, CmdElsewhere
<1>2. PICK f \in Outcomes :
        LET r == DriveApply(pins[c], drive, f) IN
        /\ pins' = [pins EXCEPT ![c] = [r.pin EXCEPT !.failed = @ \/ ~r.ok]]
        /\ ctl' = [ctl EXCEPT !.channels[c].drive = IF r.ok THEN drive ELSE "high_z",
                              !.pulse = IF r.ok THEN c ELSE @]
        /\ IF r.ok THEN ForId("pulse", None) /\ UNCHANGED rt
           ELSE ControlAnswer(FALSE)
  BY DEF SubmitPulse, ControlPulseStart
<1>3. c \in Channels
  BY <1>1 DEF DecodePulse, KnownChannel
<1>4. c = What.channel
  OBVIOUS
<1> HIDE DEF c
<1>5. ctl.channels[c] \in ChannelRecord
  BY <1>3 DEF IInv, ShapesOK
<1>6. drive \in Drives
  BY <1>5, ConfiguredDrives
<1> HIDE DEF drive
<1> DEFINE ok == DriveApply(pins[c], drive, f).ok
           now == [ctl.channels[c] EXCEPT !.drive = IF ok THEN drive ELSE "high_z"]
<1>7. now \in ChannelRecord /\ now.configured /\ (ok => now.drive = drive)
  BY <1>1, <1>5, <1>6 DEF ChannelRecord, Drives
<1>8. /\ ctl'.channels = [ctl.channels EXCEPT ![c] = now]
      /\ ctl'.pulse = IF ok THEN c ELSE ctl.pulse
      /\ ctl' \in [channels : [Channels -> ChannelRecord], pulse : Channels \union {None}]
  <2>1. ctl \in [channels : [Channels -> ChannelRecord], pulse : Channels \union {None}]
    BY DEF IInv, ShapesOK
  <2>2. ctl' = [ctl EXCEPT !.channels = [ctl.channels EXCEPT ![c] = now],
                           !.pulse = IF ok THEN c ELSE ctl.pulse]
    BY <1>2
  <2> HIDE DEF now, ok
  <2>3. [ctl.channels EXCEPT ![c] = now] \in [Channels -> ChannelRecord]
    BY <1>7, <2>1
  <2> QED
    BY <1>3, <2>1, <2>2, <2>3
<1>9. pins' = [pins EXCEPT ![c] =
                 [DriveApply(pins[c], drive, f).pin EXCEPT
                     !.failed = @ \/ ~DriveApply(pins[c], drive, f).ok]]
  BY <1>2, Zenon
<1> HIDE DEF now
<1>10. pins' \in [Channels -> PinRecord] /\ NoLevelChangeWhileDriven' /\ PinsFollowChannels'
  BY <1>1, <1>3, <1>6, <1>7, <1>8, <1>9, Driven
<1>11. /\ cmd.pc = "serve" /\ cmd.state = "idle" /\ ~rt.outstanding
       /\ uart.state = "idle" /\ ctl.pulse = None /\ queue' = << >>
       /\ Theirs \in 1 .. Len(host.lines)
  BY <1>1, TakenFacts
<1>12. /\ ctl'.channels[c] = now
  BY <1>3, <1>8 DEF IInv, ShapesOK
<1>13. CASE ok
  <2>1. ForId("pulse", None) /\ rt' = rt
    BY <1>2, <1>13
  <2>2. /\ DOMAIN cmd' = DOMAIN cmd /\ cmd'.pc = "run" /\ cmd'.id = Theirs
        /\ cmd'.state = "pulse" /\ cmd'.result = None
    BY <2>1, ForIdFacts
  <2>3. ShapesOK'
    BY <1>1, <1>8, <1>10, <2>1, <2>2 DEF IInv, ShapesOK
  <2>4. BusyOK'
    BY <1>1, <1>3, <1>4, <1>7, <1>8, <1>11, <1>12, <1>13, <2>1, <2>2 DEF IInv, BusyOK, What
  <2>5. OkAnswersTrue'
    BY <2>2 DEF OkAnswersTrue
  <2> QED
    BY <1>1, <1>10, <1>11, <2>1, <2>2, <2>3, <2>4, <2>5, ServeSide
<1>14. CASE ~ok
  <2>1. Answer("hardware_fault")
    BY <1>2, <1>14 DEF ControlAnswer
  <2>2. /\ DOMAIN cmd' = DOMAIN cmd /\ cmd'.pc = "run" /\ cmd'.id = Theirs
        /\ cmd'.state = "response" /\ cmd'.result = "hardware_fault"
    BY <2>1, ForIdFacts DEF Answer
  <2>3. /\ DOMAIN rt' = DOMAIN rt /\ rt'.outstanding /\ rt'.input = rt.input
        /\ (rt'.rxStart <=> rt.rxStart) /\ (rt'.rxStopped <=> rt.rxStopped)
        /\ (rt'.cmdStart <=> rt.cmdStart) /\ (rt'.cmdStopped <=> rt.cmdStopped)
    BY <2>1, OutstandingFacts DEF Answer
  <2>4. ShapesOK'
    BY <1>1, <1>8, <1>10, <2>2, <2>3 DEF IInv, ShapesOK
  <2>5. BusyOK'
    BY <1>1, <1>8, <1>11, <1>14, <2>2, <2>3 DEF IInv, BusyOK
  <2>6. OkAnswersTrue'
    BY <2>2 DEF OkAnswersTrue
  <2> QED
    BY <1>1, <1>10, <1>11, <2>2, <2>3, <2>4, <2>5, <2>6, ServeSide
<1> QED
  BY <1>13, <1>14

\* A response that is published without a request being taken.
LEMMA PublishFacts ==
  ASSUME IInv, NEW result, Publish(result)
  PROVE  /\ DOMAIN cmd' = DOMAIN cmd /\ cmd'.pc = "run" /\ cmd'.id = cmd.id
         /\ cmd'.state = "response" /\ cmd'.result = result
         /\ DOMAIN rt' = DOMAIN rt /\ rt'.outstanding /\ rt'.input = rt.input
         /\ (rt'.rxStart <=> rt.rxStart) /\ (rt'.rxStopped <=> rt.rxStopped)
         /\ (rt'.cmdStart <=> rt.cmdStart) /\ (rt'.cmdStopped <=> rt.cmdStopped)
<1>1. rt' = [rt EXCEPT !.outstanding = TRUE, !.ready = TRUE]
  BY DEF Publish
<1>2. /\ DOMAIN cmd' = DOMAIN cmd /\ cmd'.pc = "run" /\ cmd'.id = cmd.id
      /\ cmd'.state = "response" /\ cmd'.result = result
  BY DEF IInv, ShapesOK, Publish
<1> QED
  BY <1>1, <1>2, OutstandingFacts

\* A pulse that ends reports "ok" only when the idle level was driven.
LEMMA PollPulseKeeps ==
  ASSUME IInv, PollPulse
  PROVE  IInv'
<1> DEFINE c == ctl.pulse
           drive == ConfiguredDrive(ctl.channels[c], "idle")
<1>1. /\ cmd.pc = "serve" /\ cmd.state = "pulse"
      /\ UNCHANGED <<host, queue, rx, cdc, main, stream, uart, dutBytes>>
  BY DEF PollPulse, Serving, CmdElsewhere
<1>2. PICK f \in Outcomes :
        LET r == DriveApply(pins[c], drive, f) IN
        /\ pins' = [pins EXCEPT ![c] = [r.pin EXCEPT !.failed = @ \/ ~r.ok]]
        /\ ctl' = [ctl EXCEPT !.pulse = None,
                              !.channels[c].drive = IF r.ok THEN drive ELSE "high_z"]
        /\ Publish(IF r.ok THEN "ok" ELSE "hardware_fault")
  BY DEF PollPulse, PulseEnds
<1>3. /\ c \in Channels /\ ctl.channels[c].configured /\ uart.state = "idle"
      /\ cmd.id \in 1 .. Len(host.lines)
      /\ c = host.lines[cmd.id].channel /\ host.lines[cmd.id].cmd = "pulse_control"
  BY <1>1 DEF IInv, BusyOK
<1> HIDE DEF c
<1>4. ctl.channels[c] \in ChannelRecord
  BY <1>3 DEF IInv, ShapesOK
<1>5. drive \in Drives
  BY <1>4, ConfiguredDrives
<1> DEFINE ok == DriveApply(pins[c], drive, f).ok
           level == IF ok THEN drive ELSE "high_z"
           now == [ctl.channels[c] EXCEPT !.drive = level]
<1>6. level \in Drives
  BY <1>5 DEF Drives
<1>7. ok => level = ConfiguredDrive(ctl.channels[c], "idle")
  OBVIOUS
<1>8. /\ pins' = [pins EXCEPT ![c] =
                    [DriveApply(pins[c], drive, f).pin EXCEPT
                        !.failed = @ \/ ~DriveApply(pins[c], drive, f).ok]]
      /\ ctl' = [ctl EXCEPT !.pulse = None, !.channels[c].drive = level]
      /\ Publish(IF ok THEN "ok" ELSE "hardware_fault")
  BY <1>2, Zenon
<1>9. ok => level = drive
  OBVIOUS
<1> HIDE DEF drive, level
<1>10. /\ now \in ChannelRecord /\ now.configured /\ now.drive = level
       /\ now.mode = ctl.channels[c].mode /\ now.active = ctl.channels[c].active
       /\ now.idle = ctl.channels[c].idle
  BY <1>3, <1>4, <1>6 DEF ChannelRecord
<1>11. ConfiguredDrive(now, "idle") = ConfiguredDrive(ctl.channels[c], "idle")
  BY <1>10 DEF ConfiguredDrive
<1>12. /\ ctl'.channels = [ctl.channels EXCEPT ![c] = now]
       /\ ctl'.pulse = None
       /\ ctl' \in [channels : [Channels -> ChannelRecord], pulse : Channels \union {None}]
  <2>1. ctl \in [channels : [Channels -> ChannelRecord], pulse : Channels \union {None}]
    BY DEF IInv, ShapesOK
  <2>2. ctl' = [ctl EXCEPT !.channels = [ctl.channels EXCEPT ![c] = now], !.pulse = None]
    BY <1>8
  <2> HIDE DEF now, ok
  <2>3. [ctl.channels EXCEPT ![c] = now] \in [Channels -> ChannelRecord]
    BY <1>10, <2>1
  <2> QED
    BY <2>1, <2>2, <2>3
<1> HIDE DEF now, ok
<1>13. pins' \in [Channels -> PinRecord] /\ NoLevelChangeWhileDriven' /\ PinsFollowChannels'
  <2>1. DriveApply(pins[c], drive, f).ok => now.drive = drive /\ now.configured
    BY <1>9, <1>10 DEF ok
  <2>2. /\ now \in ChannelRecord /\ main' = main
        /\ ctl'.channels = [ctl.channels EXCEPT ![c] = now]
        /\ pins' = [pins EXCEPT ![c] =
                      [DriveApply(pins[c], drive, f).pin EXCEPT
                          !.failed = @ \/ ~DriveApply(pins[c], drive, f).ok]]
    BY <1>1, <1>8, <1>10, <1>12
  <2> QED
    BY <1>3, <1>5, <2>1, <2>2, Driven
<1>14. /\ DOMAIN cmd' = DOMAIN cmd /\ cmd'.pc = "run" /\ cmd'.id = cmd.id
       /\ cmd'.state = "response" /\ cmd'.result = IF ok THEN "ok" ELSE "hardware_fault"
       /\ DOMAIN rt' = DOMAIN rt /\ rt'.outstanding /\ rt'.input = rt.input
       /\ (rt'.rxStart <=> rt.rxStart) /\ (rt'.rxStopped <=> rt.rxStopped)
       /\ (rt'.cmdStart <=> rt.cmdStart) /\ (rt'.cmdStopped <=> rt.cmdStopped)
  BY <1>8, PublishFacts
<1>15. ctl'.channels[c] = now
  BY <1>3, <1>12 DEF IInv, ShapesOK
<1>16. ShapesOK'
  BY <1>1, <1>12, <1>13, <1>14 DEF IInv, ShapesOK
<1>17. BusyOK'
  BY <1>1, <1>3, <1>12, <1>14 DEF IInv, BusyOK
<1>18. OkAnswersTrue'
  <2>1. SUFFICES ASSUME cmd'.result = "ok"
                 PROVE  now.drive = ConfiguredDrive(now, "idle")
    BY <1>1, <1>3, <1>14, <1>15 DEF OkAnswersTrue
  <2>2. ok
    BY <1>14, <2>1
  <2> QED
    BY <1>7, <1>10, <1>11, <2>2
<1> QED
  BY <1>1, <1>13, <1>14, <1>16, <1>17, <1>18, ServeSide

\* A send starts with nothing handed to the UART, or is refused.
LEMMA SubmitUartKeeps ==
  ASSUME IInv, SubmitUart
  PROVE  IInv'
<1>1. /\ Taken /\ What.cmd = "uart_send"
      /\ UNCHANGED <<host, rx, cdc, main, stream, ctl, pins>>
  BY CommandFacts DEF SubmitUart, CmdElsewhere
<1>2. /\ cmd.pc = "serve" /\ cmd.state = "idle" /\ ~rt.outstanding
      /\ uart.state = "idle" /\ ctl.pulse = None /\ queue' = << >>
      /\ Theirs \in 1 .. Len(host.lines)
  BY <1>1, TakenFacts
<1>3. CASE UartTxStart(What.data, TRUE) /\ ForId("uart", None) /\ UNCHANGED rt
  <2>1. uart' = [UartTxPending(What.data) EXCEPT !.kick = TRUE] /\ dutBytes' = 0
    BY <1>3 DEF UartTxStart
  <2>2. /\ DOMAIN uart' = DOMAIN uart /\ uart'.state = "pending"
        /\ uart'.length = What.data /\ uart'.queued = 0
    BY <2>1 DEF IInv, ShapesOK, UartTxPending
  <2>3. /\ DOMAIN cmd' = DOMAIN cmd /\ cmd'.pc = "run" /\ cmd'.id = Theirs
        /\ cmd'.state = "uart" /\ cmd'.result = None
    BY <1>3, ForIdFacts
  <2>4. ShapesOK'
    BY <1>1, <1>3, <2>2, <2>3 DEF IInv, ShapesOK
  <2>5. BusyOK'
    BY <1>1, <1>2, <1>3, <2>1, <2>2, <2>3 DEF IInv, BusyOK, What
  <2>6. NoLevelChangeWhileDriven' /\ PinsFollowChannels'
    BY <1>1 DEF IInv, NoLevelChangeWhileDriven, PinsFollowChannels
  <2>7. OkAnswersTrue'
    BY <2>3 DEF OkAnswersTrue
  <2> QED
    BY <1>1, <1>2, <1>3, <2>3, <2>4, <2>5, <2>6, <2>7, ServeSide
<1>4. CASE UartTxStart(What.data, FALSE) /\ Answer("hardware_fault")
  BY <1>1, <1>4, RefusalKeeps DEF UartTxStart
<1> QED
  BY <1>3, <1>4 DEF SubmitUart

\* A send is "ok" when all its bytes were queued and nothing else.
LEMMA PollUartKeeps ==
  ASSUME IInv, PollUart
  PROVE  IInv'
<1>1. /\ cmd.pc = "serve" /\ cmd.state = "uart" /\ uart' = UartTxIdle
      /\ UNCHANGED <<host, queue, rx, cdc, main, stream, ctl, pins, dutBytes>>
      /\ Publish(UartTxPolled)
  BY DEF PollUart, Serving, CmdElsewhere
<1>2. DOMAIN uart' = DOMAIN uart /\ uart'.state = "idle"
  BY <1>1 DEF IInv, ShapesOK, UartTxIdle
<1>3. /\ DOMAIN cmd' = DOMAIN cmd /\ cmd'.pc = "run" /\ cmd'.id = cmd.id
      /\ cmd'.state = "response" /\ cmd'.result = UartTxPolled
      /\ DOMAIN rt' = DOMAIN rt /\ rt'.outstanding /\ rt'.input = rt.input
      /\ (rt'.rxStart <=> rt.rxStart) /\ (rt'.rxStopped <=> rt.rxStopped)
      /\ (rt'.cmdStart <=> rt.cmdStart) /\ (rt'.cmdStopped <=> rt.cmdStopped)
  BY <1>1, PublishFacts
<1>4. UartTxPolled = "ok" => uart.state = "completed"
  BY DEF UartTxPolled
<1>5. /\ cmd.id \in 1 .. Len(host.lines) /\ host.lines[cmd.id].cmd = "uart_send"
      /\ uart.length = host.lines[cmd.id].data /\ dutBytes = uart.queued
      /\ uart.state = "completed" => uart.queued = uart.length
      /\ ctl.pulse = None
  BY <1>1 DEF IInv, BusyOK
<1>6. ShapesOK'
  BY <1>1, <1>2, <1>3 DEF IInv, ShapesOK
<1>7. BusyOK'
  BY <1>1, <1>2, <1>3, <1>5 DEF IInv, BusyOK
<1>8. NoLevelChangeWhileDriven' /\ PinsFollowChannels'
  BY <1>1 DEF IInv, NoLevelChangeWhileDriven, PinsFollowChannels
<1>9. OkAnswersTrue'
  BY <1>1, <1>3, <1>4, <1>5 DEF OkAnswersTrue
<1> QED
  BY <1>1, <1>3, <1>6, <1>7, <1>8, <1>9, ServeSide

\* cancel_epoch: nothing is driven any more, or a pin has not obeyed.
LEMMA CmdStopsKeeps ==
  ASSUME IInv, CmdStops
  PROVE  IInv'
<1>1. PICK f \in Outcomes : CancelEpoch([c \in Channels |-> f])
                            /\ rt' = [rt EXCEPT !.outstanding = FALSE, !.ready = FALSE,
                                                !.consumed = FALSE, !.cmdStopped = TRUE,
                                                !.endOk = ControlEndOk([c \in Channels |-> f])]
  BY DEF CmdStops
<1>2. /\ cmd.pc = "run" /\ queue' = << >>
      /\ UNCHANGED <<host, rx, cdc, main, stream, dutBytes>>
  BY DEF CmdStops, CmdElsewhere
<1>3. /\ DOMAIN rt' = DOMAIN rt /\ rt'.input = rt.input
      /\ ~rt'.outstanding /\ rt'.cmdStopped /\ (rt'.cmdStart <=> rt.cmdStart)
      /\ (rt'.rxStart <=> rt.rxStart) /\ (rt'.rxStopped <=> rt.rxStopped)
  BY <1>1 DEF IInv, ShapesOK, RuntimeFields
<1>4. /\ DOMAIN cmd' = DOMAIN cmd /\ cmd'.pc = "wait" /\ cmd'.state = "idle"
      /\ DOMAIN uart' = DOMAIN uart /\ uart'.state = "idle"
  BY <1>1 DEF IInv, ShapesOK, CancelEpoch, UartTxIdle
<1>5. /\ pins \in [Channels -> PinRecord] /\ ctl.channels \in [Channels -> ChannelRecord]
      /\ DOMAIN ctl = {"channels", "pulse"}
  BY DEF IInv, ShapesOK
<1>6. /\ ctl' = [ctl EXCEPT !.pulse = None,
                            !.channels = [c \in Channels |->
                                [ctl.channels[c] EXCEPT !.configured = FALSE,
                                                        !.drive = "high_z"]]]
      /\ pins' = [c \in Channels |->
                    [DriveApply(pins[c], "high_z", f).pin EXCEPT
                        !.failed = @ \/ ~DriveApply(pins[c], "high_z", f).ok]]
  <2>1. \A c \in Channels : [d \in Channels |-> f][c] = f
    OBVIOUS
  <2> QED
    BY <1>1, <2>1 DEF CancelEpoch, ControlEndEpoch
<1>7. /\ ctl'.pulse = None
      /\ ctl' \in [channels : [Channels -> ChannelRecord], pulse : Channels \union {None}]
      /\ \A c \in Channels : ctl'.channels[c].drive = "high_z" /\ ~ctl'.channels[c].configured
  <2> DEFINE table == [c \in Channels |->
                          [ctl.channels[c] EXCEPT !.configured = FALSE, !.drive = "high_z"]]
  <2>1. \A c \in Channels : /\ table[c] \in ChannelRecord
                            /\ table[c].drive = "high_z" /\ ~table[c].configured
    BY <1>5 DEF ChannelRecord, Drives
  <2>2. table \in [Channels -> ChannelRecord]
    BY <2>1
  <2>3. ctl' = [ctl EXCEPT !.pulse = None, !.channels = table]
    BY <1>6
  <2>4. ctl \in [channels : [Channels -> ChannelRecord], pulse : Channels \union {None}]
    BY DEF IInv, ShapesOK
  <2> HIDE DEF table
  <2> QED
    BY <2>1, <2>2, <2>3, <2>4
<1>8. ASSUME NEW c \in Channels
      PROVE  /\ pins'[c] \in PinRecord /\ ~pins'[c].glitch
             /\ pins'[c].enable => pins'[c].failed
  <2> DEFINE r == DriveApply(pins[c], "high_z", f)
             q == [r.pin EXCEPT !.failed = @ \/ ~r.ok]
  <2>1. pins[c] \in PinRecord /\ "high_z" \in Drives
    BY <1>5 DEF Drives
  <2>2. Applied(r, pins[c], "high_z")
    BY <2>1, DriveApplied
  <2>3. pins'[c] = q
    BY <1>6
  <2>4. ~pins[c].glitch
    BY DEF IInv, NoLevelChangeWhileDriven
  <2> HIDE DEF r
  <2>5. q \in PinRecord /\ (q.glitch <=> pins[c].glitch) /\ (q.enable => q.failed)
    BY <2>1, <2>2 DEF Applied, PinRecord
  <2> QED
    BY <2>3, <2>4, <2>5
<1>9. pins' \in [Channels -> PinRecord]
  BY <1>6, <1>8
<1>10. ShapesOK'
  BY <1>2, <1>3, <1>4, <1>7, <1>9 DEF IInv, ShapesOK
<1>11. LinesOK' /\ RequestsOK' /\ StreamOK'
  BY <1>2, <1>3 DEF IInv, LinesOK, Tokens, RequestsOK, Sound, StreamOK
<1>12. ThreadsOK'
  BY <1>2, <1>3, <1>4 DEF IInv, ThreadsOK, RxQuiet, CmdQuiet
<1>13. WaitOK'
  BY <1>4, <1>7, <1>8 DEF WaitOK
<1>14. BusyOK'
  BY <1>3, <1>4, <1>7 DEF BusyOK
<1>15. EndedOK'
  BY <1>2 DEF IInv, EndedOK, ThreadsOK, CmdQuiet
<1>16. NoLevelChangeWhileDriven' /\ PinsFollowChannels'
  BY <1>7, <1>8 DEF NoLevelChangeWhileDriven, PinsFollowChannels
<1>17. OkAnswersTrue'
  BY <1>4 DEF OkAnswersTrue
<1> QED
  BY <1>10, <1>11, <1>12, <1>13, <1>14, <1>15, <1>16, <1>17 DEF IInv

-----------------------------------------------------------------------------
(***************************************************************************)
(* The USB thread                                                          *)
(***************************************************************************)
\* dutchmate_platform_io_force_safe: where it works nothing is driven, and where
\* it does not the pin is known not to obey.
LEMMA ForcedSafe ==
  ASSUME IInv, NEW bad, ForceSafe(bad), UNCHANGED <<ctl, cmd, uart>>,
         main'.ok => cmd.pc = "wait"
  PROVE  /\ pins' \in [Channels -> PinRecord]
         /\ bad = {} => \A c \in Channels : ~pins'[c].enable
         /\ WaitOK' /\ NoLevelChangeWhileDriven' /\ PinsFollowChannels'
<1>1. pins \in [Channels -> PinRecord] /\ ctl.channels \in [Channels -> ChannelRecord]
  BY DEF IInv, ShapesOK
<1>2. pins' = [c \in Channels |->
                 [pins[c] EXCEPT !.enable = @ /\ c \in bad, !.data = "low",
                                 !.failed = @ \/ c \in bad]]
  BY DEF ForceSafe
<1>3. ASSUME NEW c \in Channels
      PROVE  /\ pins'[c] \in PinRecord /\ (pins'[c].glitch <=> pins[c].glitch)
             /\ pins'[c].enable <=> pins[c].enable /\ c \in bad
             /\ pins'[c].failed <=> pins[c].failed \/ c \in bad
  <2>1. pins[c] \in PinRecord
    BY <1>1
  <2>2. pins'[c] = [pins[c] EXCEPT !.enable = @ /\ c \in bad, !.data = "low",
                                   !.failed = @ \/ c \in bad]
    BY <1>2
  <2> QED
    BY <2>1, <2>2 DEF PinRecord, Levels
<1>4. pins' \in [Channels -> PinRecord]
  BY <1>2, <1>3
<1>5. bad = {} => \A c \in Channels : ~pins'[c].enable
  BY <1>3
<1>6. WaitOK'
  BY <1>3 DEF IInv, WaitOK
<1>7. NoLevelChangeWhileDriven'
  BY <1>3 DEF IInv, NoLevelChangeWhileDriven
<1>8. PinsFollowChannels'
  <2>1. ASSUME NEW c \in Channels, ~pins'[c].failed, main'.ok
        PROVE  ~pins'[c].enable /\ ctl'.channels[c].drive = "high_z"
    BY <1>3, <2>1 DEF IInv, WaitOK
  <2> QED
    BY <2>1 DEF PinsFollowChannels
<1> QED
  BY <1>4, <1>5, <1>6, <1>7, <1>8

\* A step of the USB thread that leaves the pins alone.
LEMMA MainSide ==
  ASSUME IInv,
         UNCHANGED <<queue, rx, cmd, ctl, uart, dutBytes, pins>>,
         host'.lines = host.lines,
         rt'.outstanding <=> rt.outstanding,
         main'.ok => main.ok,
         ShapesOK', LinesOK', ThreadsOK', EndedOK', StreamOK'
  PROVE  IInv'
<1>1. RequestsOK'
  BY DEF IInv, RequestsOK, Sound
<1>2. WaitOK'
  BY DEF IInv, WaitOK
<1>3. BusyOK'
  BY DEF IInv, BusyOK
<1>4. NoLevelChangeWhileDriven'
  BY DEF IInv, NoLevelChangeWhileDriven
<1>5. PinsFollowChannels'
  BY DEF IInv, PinsFollowChannels
<1>6. OkAnswersTrue'
  BY DEF IInv, OkAnswersTrue
<1> QED
  BY <1>1, <1>2, <1>3, <1>4, <1>5, <1>6 DEF IInv

\* A step of the USB thread that makes the pins safe.
LEMMA MainForces ==
  ASSUME IInv,
         UNCHANGED <<queue, rx, cmd, ctl, uart, dutBytes>>,
         host'.lines = host.lines,
         rt'.outstanding <=> rt.outstanding,
         ShapesOK', LinesOK', ThreadsOK', WaitOK', EndedOK', StreamOK', NoLevelChangeWhileDriven', PinsFollowChannels'
  PROVE  IInv'
<1>1. RequestsOK'
  BY DEF IInv, RequestsOK, Sound
<1>2. BusyOK'
  BY DEF IInv, BusyOK
<1>3. OkAnswersTrue'
  BY DEF IInv, OkAnswersTrue
<1> QED
  BY <1>1, <1>2, <1>3 DEF IInv

\* The connection opens: the hello is written, or the helper stops.
LEMMA MainOpensKeeps ==
  ASSUME IInv, MainOpens
  PROVE  IInv'
<1>1. /\ UNCHANGED <<queue, rx, cmd, ctl, uart, dutBytes>> /\ main.pc = "off"
      /\ rt' = [rt EXCEPT !.input = << >>] /\ host' = [host EXCEPT !.wire = << >>]
  BY DEF MainOpens, MainElsewhere, DiscardInput
<1>2. /\ DOMAIN rt' = DOMAIN rt /\ (rt'.outstanding <=> rt.outstanding)
      /\ rt'.input = << >>
      /\ (rt'.cmdStart <=> rt.cmdStart) /\ (rt'.cmdStopped <=> rt.cmdStopped)
      /\ (rt'.rxStart <=> rt.rxStart) /\ (rt'.rxStopped <=> rt.rxStopped)
  BY <1>1 DEF IInv, ShapesOK, RuntimeFields
<1>3. /\ DOMAIN host' = DOMAIN host /\ host'.script = host.script
      /\ host'.lines = host.lines /\ host'.wire = << >>
  BY <1>1 DEF IInv, ShapesOK
<1>4. LinesOK'
  BY <1>1, <1>2, <1>3 DEF IInv, LinesOK, Tokens
<1>5. cdc.state = "idle" /\ cmd.pc = "wait" /\ RxQuiet /\ CmdQuiet /\ main.ok
      /\ DOMAIN main = {"pc", "drained", "evidence", "next", "ok"}
      /\ \A c \in Channels : ~pins[c].enable
  BY <1>1 DEF IInv, ShapesOK, EndedOK, ThreadsOK, CmdQuiet
<1>6. CASE /\ cdc' = CdcTxStart("hello")
           /\ stream' = IF stream = "torn" THEN stream ELSE "whole"
           /\ main' = [main EXCEPT !.pc = "hello"]
           /\ UNCHANGED <<pins, spent>>
  <2>1. /\ DOMAIN cdc' = {"state", "frame", "left"} /\ cdc'.state = "pending"
        /\ stream' = "whole"
    BY <1>6 DEF CdcTxStart, IInv, StreamOK
  <2>2. /\ DOMAIN main' = DOMAIN main /\ main'.pc = "hello" /\ main'.ok = main.ok
        /\ main'.next = main.next
    BY <1>5, <1>6
  <2>3. ShapesOK'
    BY <1>1, <1>2, <1>3, <1>6, <2>1, <2>2 DEF IInv, ShapesOK
  <2>4. ThreadsOK'
    BY <1>1, <1>2, <1>5, <2>2 DEF IInv, ThreadsOK, RxQuiet, CmdQuiet
  <2>5. EndedOK' /\ StreamOK'
    BY <1>5, <1>6, <2>1, <2>2 DEF EndedOK, StreamOK
  <2> QED
    BY <1>1, <1>2, <1>3, <1>4, <1>6, <2>2, <2>3, <2>4, <2>5, MainSide
<1>7. CASE Dead({}) /\ UNCHANGED <<cdc, stream>>
  <2>1. main' = [main EXCEPT !.pc = "dead"] /\ ForceSafe({})
    BY <1>7 DEF Dead
  <2>2. /\ DOMAIN main' = DOMAIN main /\ main'.pc = "dead" /\ main'.ok = main.ok
        /\ main'.next = main.next
    BY <1>5, <2>1
  <2>3. /\ pins' \in [Channels -> PinRecord]
        /\ WaitOK' /\ NoLevelChangeWhileDriven' /\ PinsFollowChannels'
    BY <1>1, <1>5, <2>1, ForcedSafe
  <2>4. ShapesOK'
    BY <1>1, <1>2, <1>3, <1>7, <2>2, <2>3 DEF IInv, ShapesOK
  <2>5. ThreadsOK'
    BY <1>1, <1>2, <1>5, <2>2 DEF IInv, ThreadsOK, RxQuiet, CmdQuiet
  <2>6. EndedOK' /\ StreamOK'
    BY <1>5, <1>7, <2>2 DEF IInv, EndedOK, StreamOK
  <2> QED
    BY <1>1, <1>2, <1>3, <1>4, <2>3, <2>4, <2>5, <2>6, MainForces
<1> QED
  BY <1>6, <1>7 DEF MainOpens

\* The epoch starts: nothing of an earlier connection is under way.
LEMMA HelloWrittenKeeps ==
  ASSUME IInv, HelloWritten
  PROVE  IInv'
<1>1. /\ UNCHANGED <<rx, cmd, ctl, uart, dutBytes, stream>> /\ main.pc = "hello"
      /\ cdc.state = "completed" /\ cdc' = CdcTxIdle
  BY DEF HelloWritten, Written
<1>2. /\ RxQuiet /\ CmdQuiet /\ main.ok /\ stream = "whole" /\ cmd.state = "idle"
      /\ ~rt.outstanding
      /\ DOMAIN main = {"pc", "drained", "evidence", "next", "ok"}
      /\ \A c \in Channels : ~pins[c].enable
  BY <1>1 DEF IInv, ShapesOK, EndedOK, ThreadsOK, CmdQuiet, StreamOK, WaitOK, BusyOK
<1>3. DOMAIN cdc' = {"state", "frame", "left"} /\ cdc'.state = "idle"
  BY <1>1 DEF CdcTxIdle
<1>4. CASE /\ StartEpoch
           /\ host' = [host EXCEPT !.greeted = TRUE, !.first = Len(host.lines) + 1,
                                   !.lines = [k \in DOMAIN @ |-> Blank]]
           /\ main' = [main EXCEPT !.pc = "loop", !.drained = 0]
           /\ UNCHANGED <<pins, spent>>
  <2>1. /\ DOMAIN main' = DOMAIN main /\ main'.pc = "loop" /\ main'.ok = main.ok
        /\ main'.next = main.next
    BY <1>2, <1>4
  <2>2. /\ DOMAIN host' = DOMAIN host /\ host'.script = host.script
        /\ host'.wire = host.wire /\ host'.lines = [k \in DOMAIN host.lines |-> Blank]
    BY <1>4 DEF IInv, ShapesOK
  <2>3. host'.lines \in Seq(ScriptLines) /\ Len(host'.lines) = Len(host.lines)
    <3>1. host.lines \in Seq(ScriptLines) /\ Len(host.lines) \in Nat
          /\ DOMAIN host.lines = 1 .. Len(host.lines)
      BY DEF IInv, LinesOK
    <3>2. host'.lines = [k \in 1 .. Len(host.lines) |-> Blank]
      BY <2>2, <3>1
    <3>3. host'.lines \in Seq(ScriptLines)
      BY <3>1, <3>2, ScriptFacts, Repeated
    <3> QED
      BY <3>1, <3>2, <3>3
  <2>4. queue' = << >>
    BY <1>4 DEF StartEpoch
  <2>5. /\ DOMAIN rt' = DOMAIN rt /\ ~rt'.outstanding /\ rt'.input = << >>
        /\ rt'.cmdStart /\ ~rt'.cmdStopped /\ rt'.rxStart /\ ~rt'.rxStopped
    BY <1>4 DEF IInv, ShapesOK, RuntimeFields, StartEpoch
  <2>6. ShapesOK'
    BY <1>1, <1>3, <1>4, <2>1, <2>2, <2>5 DEF IInv, ShapesOK
  <2>7. LinesOK'
    BY <1>1, <2>2, <2>3, <2>5 DEF IInv, LinesOK, Tokens
  <2>8. RequestsOK'
    BY <1>1, <1>2, <2>4 DEF RequestsOK, RxQuiet
  <2>9. ThreadsOK'
    BY <1>1, <1>2, <2>1, <2>5 DEF IInv, ThreadsOK, RxQuiet, CmdQuiet
  <2>10. WaitOK' /\ NoLevelChangeWhileDriven' /\ PinsFollowChannels'
    BY <1>1, <1>2, <1>4, <2>1 DEF IInv, WaitOK, NoLevelChangeWhileDriven, PinsFollowChannels
  <2>11. BusyOK' /\ OkAnswersTrue'
    BY <1>1, <1>2, <2>5 DEF IInv, BusyOK, OkAnswersTrue
  <2>12. EndedOK' /\ StreamOK'
    BY <1>1, <1>2, <1>3, <2>1 DEF EndedOK, StreamOK
  <2> QED
    BY <2>6, <2>7, <2>8, <2>9, <2>10, <2>11, <2>12 DEF IInv
<1>5. CASE Dead({}) /\ UNCHANGED <<rt, queue, host>>
  <2>1. main' = [main EXCEPT !.pc = "dead"] /\ ForceSafe({})
    BY <1>5 DEF Dead
  <2>2. /\ DOMAIN main' = DOMAIN main /\ main'.pc = "dead" /\ main'.ok = main.ok
        /\ main'.next = main.next
    BY <1>2, <2>1
  <2>3. /\ pins' \in [Channels -> PinRecord]
        /\ WaitOK' /\ NoLevelChangeWhileDriven' /\ PinsFollowChannels'
    BY <1>1, <1>2, <2>1, ForcedSafe DEF CmdQuiet
  <2>4. ShapesOK'
    BY <1>1, <1>3, <1>5, <2>2, <2>3 DEF IInv, ShapesOK
  <2>5. LinesOK'
    BY <1>1, <1>5 DEF IInv, LinesOK, Tokens
  <2>6. ThreadsOK'
    BY <1>1, <1>2, <1>5, <2>2 DEF IInv, ThreadsOK, RxQuiet, CmdQuiet
  <2>7. EndedOK' /\ StreamOK'
    BY <1>1, <1>2, <1>3, <2>2 DEF IInv, EndedOK, StreamOK
  <2> QED
    BY <1>1, <1>5, <2>3, <2>4, <2>5, <2>6, <2>7, MainForces
<1> QED
  BY <1>4, <1>5 DEF HelloWritten

\* A frame is completely written.
LEMMA FrameWrittenKeeps ==
  ASSUME IInv, FrameWritten
  PROVE  IInv'
<1>1. main.pc \in {"response", "evidence"} /\ cdc.state = "completed" /\ cdc' = CdcTxIdle
  BY DEF FrameWritten, Written
<1>2. /\ UNCHANGED <<host, queue, rx, cmd, ctl, uart, dutBytes, pins, stream>>
      /\ DOMAIN rt' = DOMAIN rt /\ (rt'.outstanding <=> rt.outstanding)
      /\ rt'.input = rt.input
      /\ (rt'.cmdStart <=> rt.cmdStart) /\ (rt'.cmdStopped <=> rt.cmdStopped)
      /\ (rt'.rxStart <=> rt.rxStart) /\ (rt'.rxStopped <=> rt.rxStopped)
  BY DEF IInv, ShapesOK, RuntimeFields, FrameWritten, ResponseSent, MainElsewhere
<1>3. DOMAIN cdc' = DOMAIN cdc /\ cdc'.state = "idle"
  BY <1>1 DEF IInv, ShapesOK, CdcTxIdle
<1>4. /\ DOMAIN main' = DOMAIN main /\ main'.pc \in {"drain", "loop"}
      /\ main'.ok = main.ok /\ main'.next = main.next
  BY DEF IInv, ShapesOK, FrameWritten
<1>5. ShapesOK'
  BY <1>1, <1>2, <1>3, <1>4 DEF IInv, ShapesOK
<1>6. LinesOK'
  BY <1>1, <1>2, <1>3, <1>4 DEF IInv, LinesOK, Tokens
<1>7. ThreadsOK'
  BY <1>1, <1>2, <1>3, <1>4 DEF IInv, ThreadsOK, RxQuiet, CmdQuiet
<1>8. EndedOK'
  BY <1>1, <1>2, <1>3, <1>4 DEF IInv, EndedOK
<1>9. StreamOK'
  BY <1>1, <1>2, <1>3, <1>4 DEF IInv, StreamOK
<1> QED
  BY <1>1, <1>2, <1>3, <1>4, <1>5, <1>6, <1>7, <1>8, <1>9, MainSide

\* A batch begins.
LEMMA MainDrainsKeeps ==
  ASSUME IInv, MainDrains
  PROVE  IInv'
<1>1. /\ UNCHANGED <<host, rt, queue, rx, cmd, ctl, uart, dutBytes, pins, cdc, stream>>
      /\ main.pc = "loop" /\ main'.pc = "drain" /\ DOMAIN main' = DOMAIN main
      /\ main'.ok = main.ok /\ main'.next = main.next
  BY DEF IInv, ShapesOK, MainDrains, MainElsewhere
<1>2. ShapesOK'
  BY <1>1 DEF IInv, ShapesOK
<1>3. LinesOK'
  BY <1>1 DEF IInv, LinesOK, Tokens
<1>4. ThreadsOK'
  BY <1>1 DEF IInv, ThreadsOK, RxQuiet, CmdQuiet
<1>5. EndedOK'
  BY <1>1 DEF IInv, EndedOK
<1>6. StreamOK'
  BY <1>1 DEF IInv, StreamOK
<1> QED
  BY <1>1, <1>2, <1>3, <1>4, <1>5, <1>6, MainSide

\* A response follows a whole frame.
LEMMA TakeResponseKeeps ==
  ASSUME IInv, TakeResponse
  PROVE  IInv'
<1>1. /\ UNCHANGED <<host, queue, rx, cmd, ctl, uart, dutBytes, pins>>
      /\ main.pc = "drain" /\ main'.pc = "response" /\ DOMAIN main' = DOMAIN main
      /\ main'.ok = main.ok /\ main'.next = main.next
  BY DEF IInv, ShapesOK, TakeResponse, MainElsewhere
<1>2. /\ DOMAIN rt' = DOMAIN rt /\ (rt'.outstanding <=> rt.outstanding)
      /\ rt'.input = rt.input
      /\ (rt'.cmdStart <=> rt.cmdStart) /\ (rt'.cmdStopped <=> rt.cmdStopped)
      /\ (rt'.rxStart <=> rt.rxStart) /\ (rt'.rxStopped <=> rt.rxStopped)
  BY DEF IInv, ShapesOK, RuntimeFields, TakeResponse
<1>3. DOMAIN cdc' = DOMAIN cdc /\ cdc'.state = "pending" /\ stream' = "whole"
  BY <1>1 DEF IInv, ShapesOK, StreamOK, TakeResponse, CdcTxStart, Follows
<1>4. ShapesOK'
  BY <1>1, <1>2, <1>3 DEF IInv, ShapesOK
<1>5. LinesOK'
  BY <1>1, <1>2, <1>3 DEF IInv, LinesOK, Tokens
<1>6. ThreadsOK'
  BY <1>1, <1>2, <1>3 DEF IInv, ThreadsOK, RxQuiet, CmdQuiet
<1>7. EndedOK'
  BY <1>1, <1>2, <1>3 DEF IInv, EndedOK
<1>8. StreamOK'
  BY <1>1, <1>2, <1>3 DEF IInv, StreamOK
<1> QED
  BY <1>1, <1>2, <1>3, <1>4, <1>5, <1>6, <1>7, <1>8, MainSide

\* An evidence frame follows a whole frame.
LEMMA DrainEvidenceKeeps ==
  ASSUME IInv, DrainEvidence
  PROVE  IInv'
<1>1. UNCHANGED <<host, rt, queue, rx, cmd, ctl, uart, dutBytes, pins>>
  BY DEF DrainEvidence, MainElsewhere
<1>2. /\ main.pc = "drain" /\ stream = "whole" /\ cdc.state = "idle"
      /\ DOMAIN main = {"pc", "drained", "evidence", "next", "ok"}
      /\ DOMAIN cdc = {"state", "frame", "left"}
  BY DEF IInv, ShapesOK, StreamOK, EndedOK, DrainEvidence
<1>3. \/ /\ cdc' = CdcTxStart("evidence") /\ stream' = Follows
         /\ main' = [main EXCEPT !.pc = "evidence", !.evidence = @ + 1]
      \/ main' = [main EXCEPT !.pc = "loop"] /\ cdc' = cdc /\ stream' = stream
  BY DEF DrainEvidence
<1>4. DOMAIN main' = DOMAIN main /\ main'.ok = main.ok /\ main'.next = main.next
  BY <1>2, <1>3
<1>5. \/ /\ main'.pc = "evidence" /\ cdc'.state = "pending"
         /\ DOMAIN cdc' = DOMAIN cdc /\ stream' = "whole"
      \/ main'.pc = "loop" /\ cdc' = cdc /\ stream' = stream
  <2>1. CASE /\ cdc' = CdcTxStart("evidence") /\ stream' = Follows
             /\ main' = [main EXCEPT !.pc = "evidence", !.evidence = @ + 1]
    BY <1>2, <2>1 DEF CdcTxStart, Follows
  <2>2. CASE main' = [main EXCEPT !.pc = "loop"] /\ cdc' = cdc /\ stream' = stream
    BY <1>2, <2>2
  <2> QED
    BY <1>3, <2>1, <2>2
<1>6. ShapesOK'
  BY <1>1, <1>2, <1>4, <1>5 DEF IInv, ShapesOK
<1>7. LinesOK'
  BY <1>1, <1>2, <1>4, <1>5 DEF IInv, LinesOK, Tokens
<1>8. ThreadsOK'
  BY <1>1, <1>2, <1>4, <1>5 DEF IInv, ThreadsOK, RxQuiet, CmdQuiet
<1>9. EndedOK'
  BY <1>1, <1>2, <1>4, <1>5 DEF IInv, EndedOK
<1>10. StreamOK'
  BY <1>1, <1>2, <1>4, <1>5 DEF IInv, StreamOK
<1> QED
  BY <1>1, <1>4, <1>6, <1>7, <1>8, <1>9, <1>10, MainSide

\* The epoch ends: the USB thread will wait for the threads.
LEMMA EndEpochKeeps ==
  ASSUME IInv, NEW next \in {"off", "dead"}, EndEpoch(next),
         main.pc \in {"loop", "response", "evidence"},
         UNCHANGED <<host, queue, rx, cmd, ctl, uart, dutBytes, pins, stream>>
  PROVE  IInv'
<1>1. /\ DOMAIN rt' = DOMAIN rt /\ (rt'.outstanding <=> rt.outstanding)
      /\ rt'.input = rt.input
      /\ (rt'.cmdStart <=> rt.cmdStart) /\ (rt'.cmdStopped <=> rt.cmdStopped)
      /\ (rt'.rxStart <=> rt.rxStart) /\ (rt'.rxStopped <=> rt.rxStopped)
  BY DEF IInv, ShapesOK, RuntimeFields, EndEpoch
<1>2. /\ DOMAIN main' = DOMAIN main /\ main'.pc = "end_rx" /\ main'.ok /\ main.ok
      /\ main'.next = next
  BY DEF IInv, ShapesOK, ThreadsOK, EndEpoch
<1>3. DOMAIN cdc' = DOMAIN cdc /\ cdc'.state = "idle"
  BY DEF IInv, ShapesOK, EndEpoch, CdcTxIdle
<1>4. ShapesOK'
  BY <1>1, <1>2, <1>3 DEF IInv, ShapesOK
<1>5. LinesOK'
  BY <1>1 DEF IInv, LinesOK, Tokens
<1>6. ThreadsOK'
  BY <1>1, <1>2 DEF IInv, ThreadsOK
<1>7. EndedOK' /\ StreamOK'
  BY <1>2, <1>3 DEF IInv, EndedOK, StreamOK
<1> QED
  BY <1>1, <1>2, <1>4, <1>5, <1>6, <1>7, MainSide

\* The hello was not written: the pins are made safe and no thread was started.
LEMMA HelloFailsKeeps ==
  ASSUME IInv, NEW bad, main.pc = "hello", ForceSafe(bad), cdc' = CdcTxIdle,
         NEW pc \in {"off", "dead"}, main' = [main EXCEPT !.pc = pc],
         pc = "off" => bad = {},
         UNCHANGED <<host, rt, queue, rx, cmd, ctl, uart, dutBytes, stream>>
  PROVE  IInv'
<1>1. /\ RxQuiet /\ CmdQuiet /\ main.ok
      /\ DOMAIN main = {"pc", "drained", "evidence", "next", "ok"}
  BY DEF IInv, ShapesOK, ThreadsOK
<1>2. /\ DOMAIN main' = DOMAIN main /\ main'.pc = pc /\ main'.ok = main.ok
      /\ main'.next = main.next
  BY <1>1
<1>3. /\ pins' \in [Channels -> PinRecord]
      /\ bad = {} => \A c \in Channels : ~pins'[c].enable
      /\ WaitOK' /\ NoLevelChangeWhileDriven' /\ PinsFollowChannels'
  BY <1>1, ForcedSafe DEF CmdQuiet
<1>4. DOMAIN cdc' = DOMAIN cdc /\ cdc'.state = "idle"
  BY DEF IInv, ShapesOK, CdcTxIdle
<1>5. ShapesOK'
  BY <1>2, <1>3, <1>4 DEF IInv, ShapesOK
<1>6. LinesOK'
  BY DEF IInv, LinesOK, Tokens
<1>7. ThreadsOK'
  BY <1>1, <1>2 DEF IInv, ThreadsOK, RxQuiet, CmdQuiet
<1>8. EndedOK' /\ StreamOK'
  BY <1>2, <1>3, <1>4 DEF IInv, EndedOK, StreamOK
<1> QED
  BY <1>3, <1>5, <1>6, <1>7, <1>8, MainForces

\* write_complete_frame fails.
LEMMA WriteAbortsKeeps ==
  ASSUME IInv, WriteAborts
  PROVE  IInv'
<1>1. /\ main.pc \in {"hello", "response", "evidence"} /\ WriteFails
      /\ UNCHANGED <<host, queue, rx, cmd, ctl, uart, dutBytes, stream>>
  BY DEF WriteAborts, MainElsewhere
<1>2. CASE main.pc = "hello"
  BY <1>1, <1>2, HelloFailsKeeps DEF WriteFails, Dead
<1>3. CASE main.pc # "hello"
  BY <1>1, <1>3, EndEpochKeeps DEF WriteFails
<1> QED
  BY <1>2, <1>3

\* DTR is gone.
LEMMA DisconnectedKeeps ==
  ASSUME IInv, Disconnected
  PROVE  IInv'
<1>1. UNCHANGED <<host, queue, rx, cmd, ctl, uart, dutBytes, stream>>
  BY DEF Disconnected, MainElsewhere
<1>2. CASE /\ main.pc = "hello" /\ cdc' = CdcTxIdle /\ UNCHANGED rt
           /\ \E bad \in BadSets :
                /\ ForceSafe(bad)
                /\ SpendIf(bad # {})
                /\ main' = [main EXCEPT !.pc = IF bad = {} THEN "off" ELSE "dead"]
  <2>1. PICK bad : /\ ForceSafe(bad)
                   /\ main' = [main EXCEPT !.pc = IF bad = {} THEN "off" ELSE "dead"]
    BY <1>2
  <2>2. CASE bad = {}
    <3>1. main' = [main EXCEPT !.pc = "off"]
      BY <2>1, <2>2
    <3> QED
      BY <1>1, <1>2, <2>1, <2>2, <3>1, HelloFailsKeeps
  <2>3. CASE bad # {}
    <3>1. main' = [main EXCEPT !.pc = "dead"]
      BY <2>1, <2>3
    <3> QED
      BY <1>1, <1>2, <2>1, <3>1, HelloFailsKeeps
  <2> QED
    BY <2>2, <2>3
<1>3. CASE /\ main.pc \in {"response", "evidence", "loop"}
           /\ EndEpoch("off")
           /\ UNCHANGED <<pins, spent>>
  BY <1>1, <1>3, EndEpochKeeps
<1> QED
  BY <1>2, <1>3 DEF Disconnected

\* The epoch is given up for a fault of the command side.
LEMMA RuntimeFaultedKeeps ==
  ASSUME IInv, RuntimeFaulted
  PROVE  IInv'
BY EndEpochKeeps DEF RuntimeFaulted, MainElsewhere

\* The receive thread has stopped, or the wait for it has timed out.
LEMMA WaitRxStoppedKeeps ==
  ASSUME IInv, WaitRxStopped
  PROVE  IInv'
<1>1. /\ UNCHANGED <<host, queue, rx, cmd, ctl, uart, dutBytes, pins, cdc, stream>>
      /\ main.pc = "end_rx" /\ main'.pc = "end_cmd" /\ DOMAIN main' = DOMAIN main
      /\ main'.next = main.next
      /\ \/ rt.rxStopped /\ main'.ok = main.ok
         \/ ~main'.ok
  BY DEF IInv, ShapesOK, WaitRxStopped, StoppedOrTimeout, MainElsewhere
<1>2. /\ DOMAIN rt' = DOMAIN rt /\ (rt'.outstanding <=> rt.outstanding)
      /\ rt'.input = rt.input /\ ~rt'.rxStopped
      /\ (rt'.rxStart <=> rt.rxStart) /\ (rt'.cmdStart <=> rt.cmdStart)
      /\ rt'.cmdStopped <=> rt.cmdStopped
  BY DEF IInv, ShapesOK, RuntimeFields, WaitRxStopped
<1>3. ShapesOK'
  BY <1>1, <1>2 DEF IInv, ShapesOK
<1>4. LinesOK'
  BY <1>1, <1>2 DEF IInv, LinesOK, Tokens
<1>5. ThreadsOK'
  BY <1>1, <1>2 DEF IInv, ThreadsOK, RxQuiet, CmdQuiet
<1>6. EndedOK'
  BY <1>1, <1>2 DEF IInv, EndedOK
<1>7. StreamOK'
  BY <1>1, <1>2 DEF IInv, StreamOK
<1> QED
  BY <1>1, <1>2, <1>3, <1>4, <1>5, <1>6, <1>7, MainSide

\* The command thread has stopped, or the wait for it has timed out.
LEMMA WaitCmdStoppedKeeps ==
  ASSUME IInv, WaitCmdStopped
  PROVE  IInv'
<1>1. /\ UNCHANGED <<host, queue, rx, cmd, ctl, uart, dutBytes, pins, cdc, stream>>
      /\ main.pc = "end_cmd" /\ main'.pc = "end_io" /\ DOMAIN main' = DOMAIN main
      /\ main'.next = main.next
      /\ \/ rt.cmdStopped /\ main'.ok = main.ok
         \/ ~main'.ok
  BY DEF IInv, ShapesOK, WaitCmdStopped, StoppedOrTimeout, MainElsewhere
<1>2. /\ DOMAIN rt' = DOMAIN rt /\ (rt'.outstanding <=> rt.outstanding)
      /\ rt'.input = << >> /\ ~rt'.cmdStopped
      /\ (rt'.rxStart <=> rt.rxStart) /\ (rt'.cmdStart <=> rt.cmdStart)
      /\ rt'.rxStopped <=> rt.rxStopped
  BY DEF IInv, ShapesOK, RuntimeFields, WaitCmdStopped
<1>3. ShapesOK'
  BY <1>1, <1>2 DEF IInv, ShapesOK
<1>4. LinesOK'
  BY <1>1, <1>2 DEF IInv, LinesOK, Tokens
<1>5. ThreadsOK'
  BY <1>1, <1>2 DEF IInv, ThreadsOK, RxQuiet, CmdQuiet
<1>6. EndedOK'
  BY <1>1, <1>2 DEF IInv, EndedOK
<1>7. StreamOK'
  BY <1>1, <1>2 DEF IInv, StreamOK
<1> QED
  BY <1>1, <1>2, <1>3, <1>4, <1>5, <1>6, <1>7, MainSide

\* The end of the epoch: pins safe, and a new connection only if all went well.
LEMMA EndedIoKeeps ==
  ASSUME IInv, EndedIo
  PROVE  IInv'
<1>1. PICK bad : /\ ForceSafe(bad)
                 /\ main' = [main EXCEPT !.pc = IF main.ok /\ rt.endOk /\ bad = {}
                                                THEN main.next ELSE "dead"]
  BY DEF EndedIo
<1>2. /\ UNCHANGED <<host, rt, queue, rx, cmd, ctl, uart, cdc, dutBytes, stream>>
      /\ main.pc = "end_io"
  BY DEF EndedIo, MainElsewhere
<1>3. main.ok => RxQuiet /\ CmdQuiet
  BY <1>2 DEF IInv, ThreadsOK
<1>4. /\ DOMAIN main' = DOMAIN main /\ main'.ok = main.ok /\ main'.next = main.next
      /\ main'.pc \in {"off", "dead"}
      /\ main'.pc = "off" => main.ok /\ bad = {}
  BY <1>1 DEF IInv, ShapesOK, ThreadsOK
<1>5. /\ pins' \in [Channels -> PinRecord]
      /\ bad = {} => \A c \in Channels : ~pins'[c].enable
      /\ WaitOK' /\ NoLevelChangeWhileDriven' /\ PinsFollowChannels'
  BY <1>1, <1>2, <1>3, <1>4, ForcedSafe DEF CmdQuiet
<1>6. ShapesOK'
  BY <1>2, <1>4, <1>5 DEF IInv, ShapesOK
<1>7. LinesOK'
  BY <1>2 DEF IInv, LinesOK, Tokens
<1>8. ThreadsOK'
  BY <1>2, <1>3, <1>4 DEF IInv, ThreadsOK, RxQuiet, CmdQuiet
<1>9. EndedOK' /\ StreamOK'
  BY <1>2, <1>4, <1>5 DEF IInv, EndedOK, StreamOK
<1> QED
  BY <1>2, <1>5, <1>6, <1>7, <1>8, <1>9, MainForces

(***************************************************************************)
(* The specification                                                       *)
(***************************************************************************)
\* The helper starts with nothing configured, nothing driven and no thread
\* running.
LEMMA InitIInv == Init => IInv
<1> SUFFICES ASSUME Init PROVE IInv
  OBVIOUS
<1>1. ShapesOK
  <2>1. ctl \in [channels : [Channels -> ChannelRecord], pulse : Channels \union {None}]
    <3>1. Unconfigured \in ChannelRecord
      BY Zenon DEF Unconfigured, ChannelRecord, Levels, Drives
    <3> QED
      BY <3>1 DEF Init
  <2>2. pins \in [Channels -> PinRecord]
    <3>1. SafePin \in PinRecord
      BY DEF SafePin, PinRecord, Levels
    <3> QED
      BY <3>1 DEF Init
  <2> QED
    BY <2>1, <2>2 DEF Init, ShapesOK, RuntimeFields, UartTxInit, CdcTxIdle
<1>2. LinesOK
  BY DEF Init, LinesOK
<1>3. RequestsOK
  BY DEF Init, RequestsOK
<1>4. ThreadsOK
  BY DEF Init, ThreadsOK, RxQuiet, CmdQuiet
<1>5. WaitOK
  BY DEF Init, WaitOK, SafePin, Unconfigured, UartTxInit
<1>6. BusyOK
  BY DEF Init, BusyOK, UartTxInit
<1>7. EndedOK
  BY DEF Init, EndedOK, SafePin, CdcTxIdle
<1>8. NoLevelChangeWhileDriven /\ PinsFollowChannels
  BY DEF Init, NoLevelChangeWhileDriven, PinsFollowChannels, SafePin, Unconfigured
<1>9. StreamOK
  BY DEF Init, StreamOK
<1>10. OkAnswersTrue
  BY DEF Init, OkAnswersTrue
<1> QED
  BY <1>1, <1>2, <1>3, <1>4, <1>5, <1>6, <1>7, <1>8, <1>9, <1>10 DEF IInv

\* Every step of the threads, the interrupts and the host keeps the invariant.
LEMMA NextIInv == IInv /\ [Next]_vars => IInv'
<1> SUFFICES ASSUME IInv, [Next]_vars PROVE IInv'
  OBVIOUS
<1>1. CASE UNCHANGED vars
  <2>1. /\ ShapesOK' /\ LinesOK' /\ RequestsOK' /\ ThreadsOK' /\ WaitOK' /\ BusyOK'
        /\ EndedOK' /\ StreamOK'
    BY <1>1 DEF vars, IInv, ShapesOK, LinesOK, Tokens, RequestsOK, Sound, ThreadsOK,
                RxQuiet, CmdQuiet, WaitOK, BusyOK, EndedOK, StreamOK
  <2>2. NoLevelChangeWhileDriven' /\ PinsFollowChannels' /\ OkAnswersTrue'
    BY <1>1 DEF vars, IInv, NoLevelChangeWhileDriven, PinsFollowChannels, OkAnswersTrue
  <2> QED
    BY <2>1, <2>2 DEF IInv
<1>2. CASE HostSend \/ HostDtr \/ OnCdcRxFails \/ UartTxDriverFault \/ CdcTxDriverFault
  BY <1>2, HostSendKeeps, HostDtrKeeps, OnCdcRxFailsKeeps, UartTxDriverFaultKeeps,
     CdcTxDriverFaultKeeps
<1>3. CASE RxNext
  BY <1>3, RxBeginsKeeps, RxFeedsKeeps, RxChecksEpochKeeps, QueueRequestKeeps,
     RxStopsKeeps DEF RxNext
<1>4. CASE CmdNext
  BY <1>4, CmdBeginsKeeps, CmdChecksKeeps, CmdIdlesKeeps, CmdConsumesKeeps, RejectsKeeps,
     SubmitConfigureKeeps, NotConfiguredKeeps, SubmitControlStateKeeps, SubmitPulseKeeps,
     PollPulseKeeps, SubmitUartKeeps, PollUartKeeps, CmdStopsKeeps DEF CmdNext
<1>5. CASE MainNext
  BY <1>5, MainOpensKeeps, HelloWrittenKeeps, FrameWrittenKeeps, MainDrainsKeeps,
     TakeResponseKeeps, DrainEvidenceKeeps, WriteAbortsKeeps, DisconnectedKeeps,
     RuntimeFaultedKeeps, WaitRxStoppedKeeps, WaitCmdStoppedKeeps, EndedIoKeeps
     DEF MainNext
<1>6. CASE InterruptNext
  BY <1>6, OnCdcRxReadyKeeps, KickTransmissionKeeps, UartTxOnInterruptKeeps,
     CdcTxOnWritableKeeps DEF InterruptNext
<1> QED
  BY <1>1, <1>2, <1>3, <1>4, <1>5, <1>6 DEF Next

\* The invariant holds in every state of the helper.
LEMMA IInvHolds == Spec => []IInv
<1> QED
  BY InitIInv, NextIInv, PTL DEF Spec

\* Outputs are never driven to a level nobody asked for: drive_apply changes no
\* level of an enabled output even when driver calls fail, outputs follow the
\* channel table, a connection that ended without an error left everything
\* disabled (end_active_epoch, cancel_epoch), and a firmware that has stopped
\* drives an output only until its command thread has seen the end of the
\* epoch, or because a pin did not obey.
THEOREM OutputsStaySafe == Spec => []OutputsAreSafe
<1>1. IInv => CleanEndIsSafe
  <2> SUFFICES ASSUME IInv, main.pc = "off" PROVE CleanEndIsSafe
    BY DEF CleanEndIsSafe
  <2>1. RxQuiet /\ CmdQuiet
    BY DEF IInv, ThreadsOK
  <2>2. \A c \in Channels : ~pins[c].enable
    BY DEF IInv, EndedOK
  <2>3. /\ \A c \in Channels : ~ctl.channels[c].configured
        /\ ctl.pulse = None /\ uart.state = "idle" /\ cmd.state = "idle"
    BY <2>1 DEF IInv, WaitOK, CmdQuiet
  <2>4. cdc.state = "idle"
    BY DEF IInv, EndedOK
  <2> QED
    BY <2>1, <2>2, <2>3, <2>4 DEF CleanEndIsSafe, RxQuiet, CmdQuiet
<1>2. IInv => StopsSafely
  BY DEF IInv, WaitOK, StopsSafely
<1>3. IInv => OutputsAreSafe
  BY <1>1, <1>2 DEF IInv, OutputsAreSafe
<1> QED
  BY <1>3, IInvHolds, PTL

\* An "ok" in the response slot is true: the bytes of a uart_send were handed
\* to the UART, and the channel of a pulse is back at its idle level
\* (poll_uart, poll_pulse, dmh_control_poll).
THEOREM OkAnswersStayTrue == Spec => []OkAnswersTrue
<1>1. IInv => OkAnswersTrue
  BY DEF IInv
<1> QED
  BY <1>1, IInvHolds, PTL

\* No frame follows an incomplete one within a connection
\* (write_complete_frame, end_active_epoch).
THEOREM StreamStaysWhole == Spec => []StreamNotTorn
<1>1. IInv => StreamNotTorn
  BY DEF IInv, StreamOK, StreamNotTorn
<1> QED
  BY <1>1, IInvHolds, PTL

-----------------------------------------------------------------------------
(***************************************************************************)
(* One answer per line, in order.  A line goes from the host's FIFO        *)
(* through the receive queue, the framer, the command queue and the        *)
(* executor into the CDC transmitter.  The invariant counts along that     *)
(* way: each stage holds the line that follows what the later stages hold, *)
(* and the bytes before the framer are the rest of the line it collects    *)
(* and the lines after it.  A lost byte or a failed read breaks this only  *)
(* together with the fault that stops the receive thread.                  *)
(***************************************************************************)
Writing == main.pc \in {"loop", "drain", "response", "evidence"}
Reading == rx.pc \in {"queue", "put"}

\* A connection's lines start with the hello and end with the DTR line, and
\* none of an earlier one is left when the next hello is written.
ConnectionOK ==
    /\ rt.active <=> Writing
    /\ host.greeted => host.dtr
    /\ main.pc \in {"off", "hello"} => ~host.greeted
    /\ main.pc \in {"end_rx", "end_cmd", "end_io"} /\ main.next = "off" => ~host.greeted
    /\ main.pc = "hello" => host.wire = << >> /\ answers = << >>
    /\ rx.pc = "wait" => rx.chunk = << >>
    /\ rx.pc \in {"wait", "queue", "put"} => rx.framer = Framer
    /\ host.first \in Nat \ {0} /\ Len(host.lines) <= 2
    /\ host.first + Len(answers) <= Len(host.lines) + 1

\* The capacities, and what the transmitters hold.
StoreOK ==
    /\ Len(rt.input) <= RxCapacity /\ Len(rx.chunk) <= Chunk
    /\ queue = << >> \/ \E q : queue = <<q>>
    /\ rx.framer.pending \in Seq(Nat \X {"b"}) /\ Len(rx.framer.pending) <= MaxPending
    /\ cmd.result \in Results \union {None}
    /\ uart.state \in {"idle", "pending", "completed", "fault"}
    /\ uart.length \in Nat /\ uart.queued \in 0 .. uart.length
    /\ cdc.state \in {"idle", "pending", "completed", "fault"}
    /\ cdc.left \in 0 .. FrameUnits /\ (cdc.state = "pending" => cdc.left # 0)
    /\ answers \in Seq([id : Nat, result : Results \union {None}])

\* What the framer and the decoder must make of line b.
Kind(b) == IF b.len > MaxPending THEN "invalid_argument" ELSE CommandDecode(b)
Exact(L, r) == r.id \in 1 .. Len(L) /\ r.kind = Kind(L[r.id])
Executable(b) == b.len <= MaxPending /\ b.parse = "ok"
Verdict(b, result) ==
    /\ b.len > MaxPending => result = "invalid_argument"
    /\ b.parse # "ok" => result = "invalid_command"

\* Requests are what their lines say, and only a whole command is executed.
ExactOK ==
    /\ Reading => Exact(host.lines, rx.request)
    /\ queue # << >> => Exact(host.lines, queue[1].request)
    /\ cmd.state \in {"pulse", "uart"} => Executable(host.lines[cmd.id])
    /\ cmd.state = "response" => Verdict(host.lines[cmd.id], cmd.result)

\* The executor holds a line that is not answered yet.
Awaited == cmd.state # "idle" /\ ~rt.consumed

\* The line that the executor takes next, and the one that is queued next.
NextTaken == host.first + Len(answers) + (IF Awaited THEN 1 ELSE 0)
NextPut == NextTaken + (IF queue = << >> THEN 0 ELSE 1)
\* The line whose bytes the framer collects.
NextFramed == NextPut + (IF Reading THEN 1 ELSE 0)

\* The executor's turn: its line is the first without an answer, and the
\* response that is written is its own.
ExecutorTurn ==
    /\ cmd.pc # "wait" => cmd.epoch = rt.number
    /\ Awaited => cmd.id = host.first + Len(answers)
    /\ rt.ready \/ rt.consumed => cmd.state = "response"
    /\ ~(rt.ready /\ rt.consumed)
    /\ main.pc = "response" =>
         /\ cmd.state = "response" /\ ~rt.ready /\ ~rt.consumed
         /\ cdc.frame = [id |-> cmd.id, result |-> cmd.result]

\* The requests before it belong to this epoch and follow one another.
RequestTurn ==
    /\ rx.pc # "wait" => rx.epoch = rt.number
    /\ queue # << >> => queue[1].epoch = rt.number /\ queue[1].request.id = NextTaken
    /\ Reading => rx.request.id = NextPut

TurnOK == rt.active => ExecutorTurn /\ RequestTurn

\* The framer after m bytes of line i.
Framed(f, i, m) ==
    IF m > MaxPending THEN f = [pending |-> << >>, discarding |-> TRUE]
    ELSE f = [pending |-> [k \in 1 .. m |-> <<i, "b">>], discarding |-> FALSE]

\* The bytes of line i with its newline, and what is left of the lines L of the
\* connection after m bytes of line i; no more than two lines are under way.
Size(L, i) == IF i \in 1 .. Len(L) THEN L[i].len + 1 ELSE 0
RestSize(L, i, m) == Size(L, i) - m + Size(L, i + 1)
RestAt(L, i, m, k) ==
    IF k < Size(L, i) - m THEN <<i, "b">>
    ELSE IF k = Size(L, i) - m THEN <<i, "nl">>
    ELSE IF k < RestSize(L, i, m) THEN <<i + 1, "b">> ELSE <<i + 1, "nl">>
Continues(L, rest, i, m) ==
    /\ Len(rest) = RestSize(L, i, m)
    /\ \A k \in 1 .. Len(rest) : rest[k] = RestAt(L, i, m, k)

\* m bytes of line i are in the framer, and rest follows them.
Position(L, f, rest, i, m) ==
    /\ m \in Nat /\ (m = 0 \/ m < Size(L, i))
    /\ Framed(f, i, m) /\ Continues(L, rest, i, m)

Rest == (rx.chunk \o rt.input) \o host.wire

BytesOK ==
    rt.active /\ ~rt.fault =>
        /\ NextFramed \in Len(host.lines) - 1 .. Len(host.lines) + 1
        /\ \E m : Position(host.lines, rx.framer, Rest, NextFramed, m)

PipeInv == ConnectionOK /\ StoreOK /\ ExactOK /\ TurnOK /\ BytesOK /\ AnswersInOrder

(***************************************************************************)
(* Bytes                                                                   *)
(***************************************************************************)
\* Cutting a sequence in two loses nothing.
LEMMA CutInTwo ==
  ASSUME NEW S, NEW s \in Seq(S), NEW n \in 0 .. Len(s)
  PROVE  /\ SubSeq(s, 1, n) \in Seq(S) /\ Len(SubSeq(s, 1, n)) = n
         /\ \A k \in 1 .. n : SubSeq(s, 1, n)[k] = s[k]
         /\ SubSeq(s, n + 1, Len(s)) \in Seq(S)
         /\ Len(SubSeq(s, n + 1, Len(s))) = Len(s) - n
         /\ \A k \in 1 .. Len(s) - n : SubSeq(s, n + 1, Len(s))[k] = s[n + k]
         /\ SubSeq(s, 1, n) \o SubSeq(s, n + 1, Len(s)) = s
<1>1. Len(s) \in Nat /\ n \in Nat /\ n <= Len(s)
  BY LenProperties
<1>2. \A i \in 1 .. Len(s) : s[i] \in S
  BY ElementOfSeq
<1>3. /\ SubSeq(s, 1, n) \in Seq(S) /\ Len(SubSeq(s, 1, n)) = n
      /\ \A k \in 1 .. n : SubSeq(s, 1, n)[k] = s[k]
  BY <1>1, <1>2
<1>4. /\ SubSeq(s, n + 1, Len(s)) \in Seq(S)
      /\ Len(SubSeq(s, n + 1, Len(s))) = Len(s) - n
      /\ \A k \in 1 .. Len(s) - n : SubSeq(s, n + 1, Len(s))[k] = s[n + k]
  BY <1>1, <1>2
<1>5. SubSeq(s, 1, n) \o SubSeq(s, n + 1, Len(s)) = SubSeq(s, 1, Len(s))
  <2>1. 1 \in 1 .. Len(s) + 1 /\ n \in 1 - 1 .. Len(s) /\ Len(s) \in n .. Len(s)
    BY <1>1
  <2> QED
    BY <2>1, ConcatAdjacentSubSeq, Zenon
<1>6. SubSeq(s, 1, Len(s)) = s
  BY SubSeqFull
<1> QED
  BY <1>3, <1>4, <1>5, <1>6

\* Concatenation is associative.
Regroups(s, t, u) == (s \o t) \o u = s \o (t \o u)
LEMMA Regrouped ==
  ASSUME NEW T, NEW s \in Seq(T), NEW t \in Seq(T), NEW u \in Seq(T)
  PROVE  Regroups(s, t, u)
<1> DEFINE a == s \o t
           b == t \o u
<1>1. Len(s) \in Nat /\ Len(t) \in Nat /\ Len(u) \in Nat
  OBVIOUS
<1>2. /\ a \in Seq(T) /\ Len(a) = Len(s) + Len(t)
      /\ \A i \in 1 .. Len(s) + Len(t) : a[i] = IF i <= Len(s) THEN s[i] ELSE t[i - Len(s)]
  BY ConcatProperties
<1>3. /\ b \in Seq(T) /\ Len(b) = Len(t) + Len(u)
      /\ \A i \in 1 .. Len(t) + Len(u) : b[i] = IF i <= Len(t) THEN t[i] ELSE u[i - Len(t)]
  BY ConcatProperties
<1> HIDE DEF a, b
<1>4. /\ a \o u \in Seq(T) /\ Len(a \o u) = Len(s) + Len(t) + Len(u)
      /\ \A i \in 1 .. Len(a) + Len(u) : (a \o u)[i] = IF i <= Len(a) THEN a[i] ELSE u[i - Len(a)]
  <2>1. a \in Seq(T)
    BY <1>2
  <2>2. /\ a \o u \in Seq(T) /\ Len(a \o u) = Len(a) + Len(u)
        /\ \A i \in 1 .. Len(a) + Len(u) : (a \o u)[i] = IF i <= Len(a) THEN a[i] ELSE u[i - Len(a)]
    BY <2>1, ConcatProperties, Zenon
  <2>3. Len(a) = Len(s) + Len(t)
    BY <1>2
  <2> QED
    BY <2>2, <2>3, Zenon
<1>5. /\ s \o b \in Seq(T) /\ Len(s \o b) = Len(s) + (Len(t) + Len(u))
      /\ \A i \in 1 .. Len(s) + Len(b) : (s \o b)[i] = IF i <= Len(s) THEN s[i] ELSE b[i - Len(s)]
  <2>1. b \in Seq(T)
    BY <1>3
  <2>2. /\ s \o b \in Seq(T) /\ Len(s \o b) = Len(s) + Len(b)
        /\ \A i \in 1 .. Len(s) + Len(b) : (s \o b)[i] = IF i <= Len(s) THEN s[i] ELSE b[i - Len(s)]
    BY <2>1, ConcatProperties, Zenon
  <2>3. Len(b) = Len(t) + Len(u)
    BY <1>3
  <2> QED
    BY <2>2, <2>3, Zenon
<1>6. Len(a \o u) = Len(s \o b)
  BY <1>1, <1>4, <1>5
<1>7. ASSUME NEW i \in 1 .. Len(a \o u) PROVE (a \o u)[i] = (s \o b)[i]
  <2>1. i \in 1 .. Len(a) + Len(u) /\ i \in 1 .. Len(s) + Len(b) /\ i \in Nat
    BY <1>1, <1>2, <1>3, <1>4
  <2>2. CASE i <= Len(s)
    <3>1. i <= Len(a) /\ i \in 1 .. Len(s) + Len(t)
      BY <1>1, <1>2, <2>1, <2>2
    <3> QED
      BY <1>2, <1>4, <1>5, <2>1, <2>2, <3>1
  <2>3. CASE ~(i <= Len(s)) /\ i <= Len(a)
    <3>1. /\ i \in 1 .. Len(s) + Len(t) /\ i - Len(s) <= Len(t)
          /\ i - Len(s) \in 1 .. Len(t) + Len(u)
      BY <1>1, <1>2, <2>1, <2>3
    <3>2. (a \o u)[i] = t[i - Len(s)]
      BY <1>2, <1>4, <2>1, <2>3, <3>1
    <3>3. (s \o b)[i] = t[i - Len(s)]
      BY <1>3, <1>5, <2>1, <2>3, <3>1
    <3> QED
      BY <3>2, <3>3
  <2>4. CASE ~(i <= Len(a))
    <3>1. /\ ~(i <= Len(s)) /\ i - Len(s) \in 1 .. Len(t) + Len(u)
          /\ ~(i - Len(s) <= Len(t)) /\ i - Len(s) - Len(t) = i - Len(a)
      BY <1>1, <1>2, <1>3, <2>1, <2>4
    <3>2. (a \o u)[i] = u[i - Len(a)]
      BY <1>4, <2>1, <2>4
    <3>3. (s \o b)[i] = b[i - Len(s)]
      BY <1>5, <2>1, <3>1
    <3>4. b[i - Len(s)] = u[i - Len(s) - Len(t)]
      BY <1>3, <3>1
    <3> QED
      BY <3>1, <3>2, <3>3, <3>4
  <2> QED
    BY <2>2, <2>3, <2>4
<1>8. a \o u = s \o b
  BY <1>4, <1>5, <1>6, <1>7, SeqEqual
<1> QED
  BY <1>8 DEF a, b, Regroups

\* The first n elements of b may go to the end of a, which follows c.
MovesUp(c, a, b, n) ==
    (c \o (a \o SubSeq(b, 1, n))) \o SubSeq(b, n + 1, Len(b)) = (c \o a) \o b
LEMMA MovedUp ==
  ASSUME NEW T, NEW a \in Seq(T), NEW b \in Seq(T), NEW c \in Seq(T), NEW n \in 0 .. Len(b)
  PROVE  MovesUp(c, a, b, n)
<1> DEFINE p == SubSeq(b, 1, n)
           q == SubSeq(b, n + 1, Len(b))
<1>1. p \in Seq(T) /\ q \in Seq(T) /\ p \o q = b
  BY CutInTwo
<1> HIDE DEF p, q
<1>2. c \o a \in Seq(T)
  OBVIOUS
<1>3. c \o (a \o p) = (c \o a) \o p
  <2>1. Regroups(c, a, p)
    BY <1>1, Regrouped
  <2> QED
    BY <2>1, Zenon DEF Regroups
<1>4. ((c \o a) \o p) \o q = (c \o a) \o (p \o q)
  <2>1. Regroups(c \o a, p, q)
    BY <1>1, <1>2, Regrouped
  <2> QED
    BY <2>1, Zenon DEF Regroups
<1> QED
  BY <1>1, <1>3, <1>4, Zenon DEF p, q, MovesUp

\* rest from its n-th byte on.
RestFrom(rest, n, after) ==
    /\ n \in 0 .. Len(rest) /\ Len(after) = Len(rest) - n
    /\ \A k \in 1 .. Len(after) : after[k] = rest[n + k]
\* s is what comes before the first newline of rest.
FirstLine(rest, n, s) ==
    /\ n <= Len(rest) /\ Len(s) = n
    /\ \A k \in 1 .. n : s[k] = rest[k] /\ rest[k][2] # "nl"

\* What follows the first n elements of c followed by d.
LEMMA Beyond ==
  ASSUME NEW S, NEW c \in Seq(S), NEW d \in Seq(S), NEW n \in 0 .. Len(c)
  PROVE  /\ RestFrom(c \o d, n, SubSeq(c, n + 1, Len(c)) \o d)
         /\ n <= Len(c \o d) /\ \A k \in 1 .. n : c[k] = (c \o d)[k]
<1> DEFINE q == SubSeq(c, n + 1, Len(c))
<1>1. /\ q \in Seq(S) /\ Len(q) = Len(c) - n
      /\ \A k \in 1 .. Len(c) - n : q[k] = c[n + k]
  BY CutInTwo
<1>2. Len(c) \in Nat /\ Len(d) \in Nat /\ n \in Nat /\ n <= Len(c)
  BY LenProperties
<1> HIDE DEF q
<1>3. Len(q \o d) = Len(c) - n + Len(d) /\ Len(c \o d) = Len(c) + Len(d)
  BY <1>1, ConcatProperties
<1>4. \A k \in 1 .. Len(c) - n + Len(d) :
        (q \o d)[k] = IF k <= Len(c) - n THEN q[k] ELSE d[k - (Len(c) - n)]
  BY <1>1, ConcatProperties
<1>5. \A k \in 1 .. Len(c) + Len(d) :
        (c \o d)[k] = IF k <= Len(c) THEN c[k] ELSE d[k - Len(c)]
  BY ConcatProperties
<1>6. ASSUME NEW k \in 1 .. Len(c) - n + Len(d)
      PROVE  (q \o d)[k] = (c \o d)[n + k]
  <2>1. n + k \in 1 .. Len(c) + Len(d) /\ k \in Nat /\ k > 0
    BY <1>2
  <2>2. CASE k <= Len(c) - n
    <3>1. k \in 1 .. Len(c) - n /\ n + k <= Len(c)
      BY <1>2, <2>1, <2>2
    <3> QED
      BY <1>1, <1>4, <1>5, <2>1, <2>2, <3>1
  <2>3. CASE ~(k <= Len(c) - n)
    <3>1. ~(n + k <= Len(c)) /\ k - (Len(c) - n) = n + k - Len(c)
      BY <1>2, <2>1, <2>3
    <3>2. (q \o d)[k] = d[k - (Len(c) - n)]
      BY <1>4, <2>3
    <3>3. (c \o d)[n + k] = d[n + k - Len(c)]
      BY <1>5, <2>1, <3>1
    <3> QED
      BY <3>1, <3>2, <3>3
  <2> QED
    BY <2>2, <2>3
<1>7. \A k \in 1 .. n : c[k] = (c \o d)[k]
  BY <1>2, <1>5
<1>8. /\ n <= Len(c \o d) /\ n \in 0 .. Len(c \o d)
      /\ Len(q \o d) = Len(c \o d) - n
  BY <1>2, <1>3
<1>9. RestFrom(c \o d, n, q \o d)
  BY <1>3, <1>6, <1>8 DEF RestFrom
<1> QED
  BY <1>7, <1>8, <1>9 DEF q

\* A line has a size exactly when the host has sent it.
LEMMA Sizes ==
  ASSUME LinesOK
  PROVE  /\ Len(host.lines) \in Nat
         /\ \A i \in Int : /\ Size(host.lines, i) \in Nat
                           /\ Size(host.lines, i) > 0 <=> i \in 1 .. Len(host.lines)
         /\ \A i \in 1 .. Len(host.lines) : /\ host.lines[i] \in ScriptLines
                                            /\ host.lines[i].len \in Nat
                                            /\ Size(host.lines, i) = host.lines[i].len + 1
<1>1. host.lines \in Seq(ScriptLines) /\ Len(host.lines) \in Nat
  BY DEF LinesOK
<1>2. ASSUME NEW i \in 1 .. Len(host.lines)
      PROVE  host.lines[i] \in ScriptLines /\ host.lines[i].len \in Nat
  <2>1. host.lines[i] \in ScriptLines
    BY <1>1
  <2> QED
    BY <2>1, ScriptFacts
<1> QED
  BY <1>1, <1>2 DEF Size

\* A run of m bytes of line i.
LEMMA Bytes ==
  ASSUME NEW i \in Nat, NEW m \in Nat
  PROVE  LET run == [k \in 1 .. m |-> <<i, "b">>] IN
         /\ run \in Seq(Nat \X {"b"}) /\ Len(run) = m
         /\ \A k \in 1 .. m : run[k] = <<i, "b">>
<1>1. <<i, "b">> \in Nat \X {"b"}
  OBVIOUS
<1> QED
  BY <1>1, Repeated

\* The framer keeps no more than it may.
LEMMA FramedType ==
  ASSUME NEW f, NEW i \in Nat, NEW m \in Nat, Framed(f, i, m)
  PROVE  f.pending \in Seq(Nat \X {"b"}) /\ Len(f.pending) <= MaxPending
<1>1. MaxPending \in Nat
  BY CommandSizes
<1>2. CASE m > MaxPending
  <2>1. f.pending = << >>
    BY <1>2 DEF Framed
  <2>2. << >> \in Seq(Nat \X {"b"}) /\ Len(<< >>) = 0
    OBVIOUS
  <2> QED
    BY <1>1, <2>1, <2>2
<1>3. CASE ~(m > MaxPending)
  <2>1. f.pending = [k \in 1 .. m |-> <<i, "b">>]
    BY <1>3 DEF Framed
  <2> QED
    BY <1>1, <1>3, <2>1, Bytes
<1> QED
  BY <1>2, <1>3

\* More bytes of the line go into the framer.
LEMMA FramedOn ==
  ASSUME NEW f, NEW i \in Nat, NEW m \in Nat, Framed(f, i, m),
         NEW s \in Seq(Nat \X {"b"}), \A k \in 1 .. Len(s) : s[k] = <<i, "b">>
  PROVE  Framed(FrameBytes(f, s), i, m + Len(s))
<1>1. MaxPending \in Nat /\ Len(s) \in Nat
  BY CommandSizes
<1>2. CASE m > MaxPending
  <2>1. f = [pending |-> << >>, discarding |-> TRUE]
    BY <1>2 DEF Framed
  <2>2. FrameBytes(f, s) = f
    BY <2>1 DEF FrameBytes
  <2>3. m + Len(s) > MaxPending
    BY <1>1, <1>2
  <2> QED
    BY <2>1, <2>2, <2>3 DEF Framed
<1>3. CASE ~(m > MaxPending)
  <2> DEFINE run == [k \in 1 .. m |-> <<i, "b">>]
             more == [k \in 1 .. m + Len(s) |-> <<i, "b">>]
  <2>1. f = [pending |-> run, discarding |-> FALSE]
    BY <1>3 DEF Framed
  <2>2. /\ run \in Seq(Nat \X {"b"}) /\ Len(run) = m
        /\ \A k \in 1 .. m : run[k] = <<i, "b">>
    BY Bytes
  <2>3. /\ more \in Seq(Nat \X {"b"}) /\ Len(more) = m + Len(s)
        /\ \A k \in 1 .. m + Len(s) : more[k] = <<i, "b">>
    BY <1>1, Bytes
  <2> HIDE DEF run
  <2>4. FrameBytes(f, s) = IF m + Len(s) > MaxPending
                           THEN [pending |-> << >>, discarding |-> TRUE]
                           ELSE [pending |-> run \o s, discarding |-> FALSE]
    <3>1. f.pending = run /\ ~f.discarding /\ Len(run) = m
      BY <2>1, <2>2
    <3> QED
      BY <3>1, Zenon DEF FrameBytes
  <2>5. run \o s = more
    <3> HIDE DEF more
    <3>1. /\ run \o s \in Seq(Nat \X {"b"}) /\ Len(run \o s) = m + Len(s)
          /\ \A k \in 1 .. m + Len(s) :
               (run \o s)[k] = IF k <= m THEN run[k] ELSE s[k - m]
      BY <2>2, ConcatProperties
    <3>2. ASSUME NEW k \in 1 .. m + Len(s) PROVE (run \o s)[k] = more[k]
      <4>1. CASE k <= m
        <5>1. k \in 1 .. m
          BY <4>1
        <5> QED
          BY <2>2, <2>3, <3>1, <4>1, <5>1
      <4>2. CASE ~(k <= m)
        <5>1. k - m \in 1 .. Len(s)
          BY <1>1, <4>2
        <5> QED
          BY <2>3, <3>1, <4>2, <5>1
      <4> QED
        BY <4>1, <4>2
    <3> QED
      BY <2>3, <3>1, <3>2, SeqEqual
  <2> QED
    BY <2>4, <2>5 DEF Framed
<1> QED
  BY <1>2, <1>3

\* A newline ends a line: the request is what the whole line says.
LEMMA FrameEndExact ==
  ASSUME LinesOK, NEW i \in 1 .. Len(host.lines), NEW f, Framed(f, i, Size(host.lines, i) - 1)
  PROVE  Exact(host.lines, FrameEnd(f, i)) /\ FrameEnd(f, i).id = i
<1>1. host.lines[i].len \in Nat /\ Size(host.lines, i) = host.lines[i].len + 1
  BY Sizes
<1>9. Size(host.lines, i) - 1 = host.lines[i].len /\ MaxPending \in Nat
  BY <1>1, CommandSizes
<1>2. CASE host.lines[i].len > MaxPending
  <2>1. f = [pending |-> << >>, discarding |-> TRUE]
    BY <1>2, <1>9 DEF Framed
  <2>2. FrameEnd(f, i) = [id |-> i, kind |-> "invalid_argument"]
    BY <2>1 DEF FrameEnd
  <2> QED
    BY <1>2, <2>2 DEF Exact, Kind
<1>3. CASE ~(host.lines[i].len > MaxPending)
  <2>1. f = [pending |-> Body(i), discarding |-> FALSE]
    BY <1>3, <1>9 DEF Framed, Body
  <2>2. FrameEnd(f, i) = [id |-> i, kind |-> CommandDecode(host.lines[i])]
    BY <2>1 DEF FrameEnd, Request
  <2> QED
    BY <1>3, <2>2 DEF Exact, Kind
<1> QED
  BY <1>2, <1>3

\* What follows n more bytes of a line.
LEMMA RestShifts ==
  ASSUME NEW L, NEW i \in Nat, Size(L, i) \in Nat, Size(L, i + 1) \in Nat,
         NEW m \in Nat, NEW n \in Nat, NEW k \in Nat
  PROVE  /\ RestAt(L, i, m, n + k) = RestAt(L, i, m + n, k)
         /\ RestSize(L, i, m + n) = RestSize(L, i, m) - n
<1> DEFINE p == Size(L, i)
           q == Size(L, i + 1)
<1>1. p \in Nat /\ q \in Nat
  OBVIOUS
<1> HIDE DEF p, q
<1>2. /\ n + k < p - m <=> k < p - (m + n)
      /\ n + k = p - m <=> k = p - (m + n)
  BY <1>1
<1>3. /\ RestAt(L, i, m, n + k) = IF n + k < p - m THEN <<i, "b">>
                               ELSE IF n + k = p - m THEN <<i, "nl">>
                               ELSE IF n + k < p - m + q THEN <<i + 1, "b">> ELSE <<i + 1, "nl">>
      /\ RestAt(L, i, m + n, k) = IF k < p - (m + n) THEN <<i, "b">>
                               ELSE IF k = p - (m + n) THEN <<i, "nl">>
                               ELSE IF k < p - (m + n) + q THEN <<i + 1, "b">> ELSE <<i + 1, "nl">>
      /\ RestSize(L, i, m + n) = p - (m + n) + q /\ RestSize(L, i, m) = p - m + q
  BY Zenon DEF RestAt, RestSize, p, q
<1>4. RestAt(L, i, m, n + k) = RestAt(L, i, m + n, k)
  <2>1. CASE n + k < p - m
    BY <1>2, <1>3, <2>1, Zenon
  <2>2. CASE ~(n + k < p - m) /\ n + k = p - m
    BY <1>2, <1>3, <2>2, Zenon
  <2>3. CASE ~(n + k < p - m) /\ ~(n + k = p - m)
    <3>1. ~(k < p - (m + n)) /\ ~(k = p - (m + n))
      BY <1>2, <2>3, Zenon
    <3>2. RestAt(L, i, m, n + k) = IF n + k < p - m + q THEN <<i + 1, "b">> ELSE <<i + 1, "nl">>
      BY <1>3, <2>3, Zenon
    <3>3. RestAt(L, i, m + n, k) = IF k < p - (m + n) + q THEN <<i + 1, "b">> ELSE <<i + 1, "nl">>
      BY <1>3, <3>1, Zenon
    <3>4. n + k < p - m + q <=> k < p - (m + n) + q
      BY <1>1
    <3> QED
      BY <3>2, <3>3, <3>4
  <2> QED
    BY <2>1, <2>2, <2>3
<1>5. RestSize(L, i, m + n) = RestSize(L, i, m) - n
  <2>1. RestSize(L, i, m + n) = p - (m + n) + q /\ RestSize(L, i, m) = p - m + q
    BY <1>3
  <2>2. p - (m + n) + q = (p - m + q) - n
    BY <1>1
  <2> QED
    BY <2>1, <2>2
<1> QED
  BY <1>4, <1>5

\* Before the newline of line i there are only its bytes.
LEMMA HeadOfLine ==
  ASSUME NEW L, NEW i \in Nat, Size(L, i) \in Nat, Size(L, i + 1) \in Nat,
         Size(L, i) = 0 => Size(L, i + 1) = 0,
         NEW f, NEW rest, NEW m, Position(L, f, rest, i, m),
         NEW n \in Nat, NEW T, NEW s \in Seq(T), FirstLine(rest, n, s)
  PROVE  /\ m \in Nat /\ \A k \in 1 .. n : s[k] = <<i, "b">>
         /\ n = 0 \/ m + n < Size(L, i)
         /\ s \in Seq(Nat \X {"b"})
<1> DEFINE p == Size(L, i)
           q == Size(L, i + 1)
<1>1. p \in Nat /\ q \in Nat /\ (p = 0 => q = 0)
  OBVIOUS
<1>2. /\ m \in Nat /\ (m = 0 \/ m < p)
      /\ Len(rest) = p - m + q
      /\ \A k \in 1 .. Len(rest) : rest[k] = RestAt(L, i, m, k)
  BY DEF Position, Continues, RestSize
<1>3. \A k : RestAt(L, i, m, k) = IF k < p - m THEN <<i, "b">>
                               ELSE IF k = p - m THEN <<i, "nl">>
                               ELSE IF k < p - m + q THEN <<i + 1, "b">> ELSE <<i + 1, "nl">>
  BY Zenon DEF RestAt, RestSize
<1> HIDE DEF p, q
<1>4. n = 0 \/ n < p - m
  <2>1. SUFFICES ASSUME n # 0, ~(n < p - m) PROVE FALSE
    OBVIOUS
  <2>2. n <= p - m + q /\ n <= Len(rest) /\ \A k \in 1 .. n : rest[k][2] # "nl"
    BY <1>2 DEF FirstLine
  <2>3. p # 0 /\ m < p
    BY <1>1, <1>2, <2>1, <2>2
  <2>4. p - m \in 1 .. n /\ p - m \in 1 .. Len(rest) /\ ~(p - m < p - m)
    BY <1>1, <1>2, <2>1, <2>2, <2>3
  <2>5. rest[p - m] = <<i, "nl">>
    BY <1>2, <1>3, <2>4
  <2> QED
    BY <2>2, <2>4, <2>5
<1>5. ASSUME NEW k \in 1 .. n PROVE s[k] = <<i, "b">>
  <2>1. k < p - m /\ k \in 1 .. Len(rest)
    BY <1>1, <1>2, <1>4 DEF FirstLine
  <2>2. rest[k] = <<i, "b">>
    BY <1>2, <1>3, <2>1
  <2> QED
    BY <2>2 DEF FirstLine
<1>6. n = 0 \/ m + n < p
  BY <1>1, <1>2, <1>4
<1>7. s \in Seq(Nat \X {"b"})
  <2>1. Len(s) = n /\ \A k \in 1 .. Len(s) : s[k] \in Nat \X {"b"}
    <3>1. <<i, "b">> \in Nat \X {"b"} /\ Len(s) = n
      BY DEF FirstLine
    <3> QED
      BY <1>5, <3>1
  <2> QED
    BY <2>1
<1> QED
  BY <1>2, <1>5, <1>6, <1>7 DEF p

\* Bytes before a newline move from the rest into the framer.
LEMMA PositionOn ==
  ASSUME NEW L, NEW i \in Nat, Size(L, i) \in Nat, Size(L, i + 1) \in Nat,
         Size(L, i) = 0 => Size(L, i + 1) = 0,
         NEW f, NEW rest, NEW m, Position(L, f, rest, i, m),
         NEW n \in Nat, NEW T, NEW s \in Seq(T), FirstLine(rest, n, s),
         NEW after, RestFrom(rest, n, after)
  PROVE  Position(L, FrameBytes(f, s), after, i, m + n)
<1>1. /\ m \in Nat /\ \A k \in 1 .. n : s[k] = <<i, "b">>
      /\ n = 0 \/ m + n < Size(L, i)
      /\ s \in Seq(Nat \X {"b"}) /\ Len(s) = n
  BY HeadOfLine DEF FirstLine
<1>2. Framed(FrameBytes(f, s), i, m + n)
  <2>1. Framed(f, i, m)
    BY DEF Position
  <2> QED
    BY <1>1, <2>1, FramedOn
<1>3. Continues(L, after, i, m + n)
  <2>1. /\ Len(rest) = RestSize(L, i, m) /\ \A k \in 1 .. Len(rest) : rest[k] = RestAt(L, i, m, k)
        /\ Len(rest) \in Nat \/ Len(rest) \in Int
    <3>1. Len(rest) = RestSize(L, i, m) /\ \A k \in 1 .. Len(rest) : rest[k] = RestAt(L, i, m, k)
      BY DEF Position, Continues
    <3>2. RestSize(L, i, m) \in Int
      BY <1>1 DEF RestSize
    <3> QED
      BY <3>1, <3>2
  <2>2. Len(after) = Len(rest) - n /\ \A k \in 1 .. Len(after) : after[k] = rest[n + k]
    BY DEF RestFrom
  <2>3. RestSize(L, i, m + n) = RestSize(L, i, m) - n
    BY <1>1, RestShifts
  <2>4. ASSUME NEW k \in 1 .. Len(after) PROVE after[k] = RestAt(L, i, m + n, k)
    <3>1. n + k \in 1 .. Len(rest) /\ k \in Nat
      BY <2>1, <2>2
    <3>2. RestAt(L, i, m, n + k) = RestAt(L, i, m + n, k)
      BY <1>1, <3>1, RestShifts
    <3> QED
      BY <2>1, <2>2, <3>1, <3>2
  <2> QED
    BY <2>1, <2>2, <2>3, <2>4 DEF Continues
<1>4. m + n \in Nat /\ (m + n = 0 \/ m + n < Size(L, i))
  BY <1>1 DEF Position
<1> QED
  BY <1>2, <1>3, <1>4 DEF Position

\* The newline of a line ends it, and the next line begins.
LEMMA PositionEnds ==
  ASSUME NEW L, NEW i \in Nat, Size(L, i) \in Nat, Size(L, i + 1) \in Nat, Size(L, i + 2) = 0,
         Size(L, i) = 0 => Size(L, i + 1) = 0,
         NEW f, NEW rest, NEW m, Position(L, f, rest, i, m),
         NEW n \in Nat \ {0}, NEW T, NEW s \in Seq(T), FirstLine(rest, n - 1, s),
         NEW after, RestFrom(rest, n, after), rest[n][2] = "nl"
  PROVE  /\ Size(L, i) # 0 /\ rest[n] = <<i, "nl">>
         /\ Framed(FrameBytes(f, s), i, Size(L, i) - 1)
         /\ Position(L, Framer, after, i + 1, 0)
<1> DEFINE p == Size(L, i)
           q == Size(L, i + 1)
<1>1. p \in Nat /\ q \in Nat /\ (p = 0 => q = 0)
  OBVIOUS
<1>2. /\ m \in Nat /\ (m = 0 \/ m < p)
      /\ Len(rest) = p - m + q
      /\ \A k \in 1 .. Len(rest) : rest[k] = RestAt(L, i, m, k)
  BY DEF Position, Continues, RestSize
<1>3. \A k : RestAt(L, i, m, k) = IF k < p - m THEN <<i, "b">>
                               ELSE IF k = p - m THEN <<i, "nl">>
                               ELSE IF k < p - m + q THEN <<i + 1, "b">> ELSE <<i + 1, "nl">>
  BY Zenon DEF RestAt, RestSize
<1>4. /\ \A k \in 1 .. n - 1 : s[k] = <<i, "b">>
      /\ n - 1 = 0 \/ m + (n - 1) < p
      /\ s \in Seq(Nat \X {"b"}) /\ Len(s) = n - 1
  <2>1. n - 1 \in Nat
    OBVIOUS
  <2>2. Len(s) = n - 1
    BY DEF FirstLine
  <2>3. /\ \A k \in 1 .. n - 1 : s[k] = <<i, "b">>
        /\ n - 1 = 0 \/ m + (n - 1) < Size(L, i)
        /\ s \in Seq(Nat \X {"b"})
    BY <2>1, HeadOfLine
  <2> QED
    BY <2>2, <2>3
<1>5. n <= Len(rest) /\ Len(after) = Len(rest) - n /\ n \in 1 .. Len(rest)
  BY <1>1, <1>2 DEF RestFrom
<1>6. Framed(f, i, m)
  BY DEF Position
<1> HIDE DEF p, q
<1>7. p # 0 /\ m < p
  <2>1. Len(rest) = (p - m) + q /\ 1 <= Len(rest)
    BY <1>2, <1>5
  <2>2. p # 0
    <3> SUFFICES ASSUME p = 0 PROVE FALSE
      OBVIOUS
    <3>1. q = 0 /\ m = 0
      BY <1>1, <1>2
    <3> QED
      BY <2>1, <3>1
  <2> QED
    BY <1>1, <1>2, <2>2
<1>8. n = p - m
  <2>1. n <= p - m
    BY <1>1, <1>2, <1>4, <1>7
  <2>2. ~(n < p - m)
    <3>1. rest[n] = RestAt(L, i, m, n)
      BY <1>2, <1>5
    <3>2. n < p - m => rest[n] = <<i, "b">>
      BY <1>3, <3>1
    <3>3. <<i, "b">>[2] = "b"
      OBVIOUS
    <3> QED
      BY <3>2, <3>3
  <2> QED
    BY <1>1, <1>2, <2>1, <2>2
<1>9. rest[n] = <<i, "nl">>
  <2>1. rest[n] = RestAt(L, i, m, n) /\ ~(n < p - m)
    BY <1>1, <1>2, <1>5, <1>8
  <2> QED
    BY <1>3, <1>8, <2>1, Zenon
<1>10. Framed(FrameBytes(f, s), i, p - 1)
  <2>1. Framed(FrameBytes(f, s), i, m + Len(s))
    BY <1>2, <1>4, <1>6, FramedOn
  <2>2. m + Len(s) = p - 1
    BY <1>1, <1>2, <1>4, <1>8
  <2> QED
    BY <2>1, <2>2
<1>11. Position(L, Framer, after, i + 1, 0)
  <2>1. Framed(Framer, i + 1, 0)
    <3>1. ~(0 > MaxPending)
      BY CommandSizes
    <3>2. [k \in 1 .. 0 |-> <<i + 1, "b">>] = << >>
      OBVIOUS
    <3> QED
      BY <3>1, <3>2 DEF Framed, Framer
  <2>2. Len(after) = RestSize(L, i + 1, 0) /\ Len(after) = q
    <3>1. Len(after) = q
      BY <1>1, <1>2, <1>5, <1>8
    <3>2. (i + 1) + 1 = i + 2
      OBVIOUS
    <3>3. RestSize(L, i + 1, 0) = q - 0 + 0
      BY <3>2 DEF RestSize, q
    <3> QED
      BY <1>1, <3>1, <3>3
  <2>3. ASSUME NEW k \in 1 .. Len(after) PROVE after[k] = RestAt(L, i + 1, 0, k)
    <3>1. k \in 1 .. q
      BY <2>2
    <3>2. after[k] = rest[n + k]
      BY DEF RestFrom
    <3>3. n + k \in 1 .. Len(rest) /\ ~(n + k < p - m) /\ ~(n + k = p - m)
      BY <1>1, <1>2, <1>8, <3>1
    <3>4. n + k < p - m + q <=> k < q
      BY <1>1, <1>2, <1>8, <3>1
    <3>5. after[k] = IF k < q THEN <<i + 1, "b">> ELSE <<i + 1, "nl">>
      <4>1. rest[n + k] = RestAt(L, i, m, n + k)
        BY <1>2, <3>3
      <4> QED
        BY <1>3, <3>2, <3>3, <3>4, <4>1, Zenon
    <3>6. RestAt(L, i + 1, 0, k) = IF k < q - 0 THEN <<i + 1, "b">>
                                ELSE IF k = q - 0 THEN <<i + 1, "nl">>
                                ELSE IF k < RestSize(L, i + 1, 0) THEN <<(i + 1) + 1, "b">>
                                ELSE <<(i + 1) + 1, "nl">>
      BY Zenon DEF RestAt, q
    <3>7. q - 0 = q /\ (k < q \/ k = q)
      BY <1>1, <3>1
    <3> QED
      BY <3>5, <3>6, <3>7, Zenon
  <2> QED
    BY <2>1, <2>2, <2>3 DEF Position, Continues
<1> QED
  BY <1>7, <1>9, <1>10, <1>11 DEF p

\* Only a whole command is executed, and a line that is none is refused in the
\* way that fits it.
LEMMA KindFacts ==
  ASSUME NEW b \in ScriptLines
  PROVE  /\ Kind(b) = "command" => /\ Executable(b) /\ CommandDecode(b) = "command"
                                   /\ b.cmd = "uart_send" => b.data \in {1, 2}
         /\ Kind(b) # "command" => Kind(b) \in Refusals /\ Verdict(b, Kind(b))
<1>1. /\ b.parse \in {"ok", "invalid_command"} /\ b.len \in Nat
      /\ b.parse # "ok" => b.len = 1
      /\ b.data \in {None, 1, 2}
  BY ScriptFacts
<1>2. MaxPending \in Nat /\ MaxPending >= 1
  BY CommandSizes
<1>3. b.parse # "ok" => CommandDecode(b) = "invalid_command"
  <2>1. SUFFICES ASSUME b.parse # "ok" PROVE CommandDecode(b) = "invalid_command"
    OBVIOUS
  <2>2. ~Parsed(b) /\ b.parse = "invalid_command"
    BY <1>1, <2>1 DEF Parsed
  <2> QED
    BY <2>2, Zenon DEF CommandDecode
<1>4. b.parse # "ok" => ~(b.len > MaxPending)
  BY <1>1, <1>2
<1>5. CommandDecode(b) \in {"command"} \union Refusals
  BY Decoded
<1>6. Kind(b) = "command" => Executable(b) /\ CommandDecode(b) = "command"
  <2>1. CASE b.len > MaxPending
    BY <2>1 DEF Kind
  <2>2. CASE ~(b.len > MaxPending)
    <3>1. b.len <= MaxPending
      BY <1>1, <1>2, <2>2
    <3> QED
      BY <1>3, <2>2, <3>1 DEF Kind, Executable
  <2> QED
    BY <2>1, <2>2
<1>7. Kind(b) = "command" /\ b.cmd = "uart_send" => b.data \in {1, 2}
  <2>1. SUFFICES ASSUME Kind(b) = "command", b.cmd = "uart_send" PROVE b.data # None
    BY <1>1
  <2>2. DecodeUartSend(b)
    BY <1>6, <2>1, Decoded
  <2>3. "data" \in Present(b)
    BY <2>2 DEF DecodeUartSend
  <2> QED
    BY <2>3 DEF Present
<1>8. Kind(b) # "command" => Kind(b) \in Refusals /\ Verdict(b, Kind(b))
  <2>1. CASE b.len > MaxPending
    BY <1>4, <2>1 DEF Kind, Verdict, Refusals
  <2>2. CASE ~(b.len > MaxPending)
    BY <1>3, <1>5, <2>2 DEF Kind, Verdict, Refusals
  <2> QED
    BY <2>1, <2>2
<1> QED
  BY <1>6, <1>7, <1>8

-----------------------------------------------------------------------------
(***************************************************************************)
(* The receive thread and the answers.                                     *)
(***************************************************************************)
\* A step of the receive thread leaves the executor's turn and the answers
\* alone.
LEMMA ReceivePipe ==
  ASSUME PipeInv, UNCHANGED <<host, cmd, uart, cdc, main, answers>>,
         UNCHANGED <<rt.active, rt.number, rt.fault, rt.ready, rt.consumed>>,
         rx'.pc = "wait" => rx'.chunk = << >>,
         rx'.pc \in {"wait", "queue", "put"} => rx'.framer = Framer,
         Len(rt'.input) <= RxCapacity, Len(rx'.chunk) <= Chunk,
         queue' = << >> \/ \E q : queue' = <<q>>,
         rx'.framer.pending \in Seq(Nat \X {"b"}), Len(rx'.framer.pending) <= MaxPending,
         Reading' => Exact(host.lines, rx'.request),
         queue' # << >> => Exact(host.lines, queue'[1].request),
         rt.active => RequestTurn',
         BytesOK'
  PROVE  PipeInv'
<1>1. ConnectionOK'
  BY DEF PipeInv, ConnectionOK, Writing
<1>2. StoreOK'
  BY DEF PipeInv, StoreOK
<1>3. ExactOK'
  BY DEF PipeInv, ExactOK
<1>4. TurnOK'
  BY DEF PipeInv, TurnOK, ExecutorTurn, Awaited
<1>5. AnswersInOrder'
  BY DEF PipeInv, AnswersInOrder
<1> QED
  BY <1>1, <1>2, <1>3, <1>4, <1>5 DEF PipeInv

\* The receive thread starts with nothing in its hands.
LEMMA RxBeginsPipe ==
  ASSUME IInv, PipeInv, RxBegins
  PROVE  PipeInv'
<1>1. /\ UNCHANGED <<host, queue, cmd, uart, cdc, main, answers>>
      /\ UNCHANGED <<rt.active, rt.number, rt.fault, rt.ready, rt.consumed, rt.input>>
      /\ rx.pc = "wait" /\ rx'.pc = "run" /\ rx'.chunk = << >> /\ rx'.framer = Framer
      /\ rx'.epoch = rt.number
  BY DEF IInv, ShapesOK, RuntimeFields, RxBegins, RxElsewhere
<1>2. rx.chunk = << >> /\ rx.framer = Framer
  BY <1>1 DEF PipeInv, ConnectionOK
<1>3. ~Reading /\ ~Reading'
  BY <1>1 DEF Reading
<1>4. rt.active => RequestTurn'
  BY <1>1, <1>3 DEF PipeInv, TurnOK, RequestTurn, NextTaken, Awaited
<1>5. NextFramed' = NextFramed /\ Rest' = Rest
  BY <1>1, <1>2, <1>3 DEF NextFramed, NextPut, NextTaken, Awaited, Rest
<1>6. BytesOK'
  BY <1>1, <1>2, <1>5 DEF PipeInv, BytesOK
<1> QED
  BY <1>1, <1>2, <1>3, <1>4, <1>6, ReceivePipe DEF PipeInv, StoreOK, ExactOK

\* Looking at the epoch changes nothing.
LEMMA RxChecksEpochPipe ==
  ASSUME IInv, PipeInv, RxChecksEpoch
  PROVE  PipeInv'
<1>1. /\ UNCHANGED <<host, rt, queue, cmd, uart, cdc, main, answers>>
      /\ UNCHANGED <<rx.epoch, rx.chunk, rx.framer, rx.request>>
      /\ rx.pc = "queue" /\ rx'.pc = "put"
  BY DEF IInv, ShapesOK, RxChecksEpoch, RxElsewhere
<1>2. Reading /\ Reading'
  BY <1>1 DEF Reading
<1>3. rt.active => RequestTurn'
  BY <1>1, <1>2 DEF PipeInv, TurnOK, RequestTurn, NextPut, NextTaken, Awaited
<1>4. NextFramed' = NextFramed /\ Rest' = Rest
  BY <1>1, <1>2 DEF NextFramed, NextPut, NextTaken, Awaited, Rest
<1>5. BytesOK'
  BY <1>1, <1>4 DEF PipeInv, BytesOK
<1>6. rx.framer = Framer /\ Exact(host.lines, rx.request)
  BY <1>1, <1>2 DEF PipeInv, ConnectionOK, ExactOK
<1> QED
  BY <1>1, <1>2, <1>3, <1>5, <1>6, ReceivePipe DEF PipeInv, StoreOK, ExactOK

\* The request moves into the queue.
LEMMA QueueRequestPipe ==
  ASSUME IInv, PipeInv, QueueRequest
  PROVE  PipeInv'
<1>1. /\ UNCHANGED <<host, rt, cmd, uart, cdc, main, answers>>
      /\ UNCHANGED <<rx.epoch, rx.chunk, rx.framer>>
      /\ rx.pc = "put"
      /\ \/ /\ queue = << >> /\ rx'.pc = "run"
            /\ queue' = <<[epoch |-> rx.epoch, request |-> rx.request]>>
         \/ queue' = queue /\ queue # << >> /\ rx'.pc = "queue" /\ rx'.request = rx.request
  BY DEF IInv, ShapesOK, QueueRequest, RxElsewhere
<1>2. rx.framer = Framer /\ Exact(host.lines, rx.request) /\ Reading
  BY <1>1 DEF PipeInv, ConnectionOK, ExactOK, Reading
<1>3. CASE queue' = queue /\ queue # << >> /\ rx'.pc = "queue" /\ rx'.request = rx.request
  <2>1. Reading'
    BY <1>3 DEF Reading
  <2>2. rt.active => RequestTurn'
    BY <1>1, <1>2, <1>3, <2>1 DEF PipeInv, TurnOK, RequestTurn, NextPut, NextTaken, Awaited
  <2>3. NextFramed' = NextFramed /\ Rest' = Rest
    BY <1>1, <1>2, <1>3, <2>1 DEF NextFramed, NextPut, NextTaken, Awaited, Rest
  <2>4. BytesOK'
    BY <1>1, <2>3 DEF PipeInv, BytesOK
  <2> QED
    BY <1>1, <1>2, <1>3, <2>1, <2>2, <2>4, ReceivePipe DEF PipeInv, StoreOK, ExactOK
<1>4. CASE /\ queue = << >> /\ rx'.pc = "run"
           /\ queue' = <<[epoch |-> rx.epoch, request |-> rx.request]>>
  <2>1. ~Reading' /\ queue' # << >>
    BY <1>4 DEF Reading
  <2>2. queue'[1].epoch = rx.epoch /\ queue'[1].request = rx.request
    BY <1>4
  <2>3. NextTaken' = NextTaken /\ NextPut = NextTaken + 0 /\ NextPut' = NextTaken + 1
    BY <1>1, <1>4, <2>1 DEF NextPut, NextTaken, Awaited
  <2>4. NextTaken \in Int
    BY DEF PipeInv, ConnectionOK, StoreOK, NextTaken
  <2>5. rt.active => RequestTurn'
    <3>1. rt.active => rx.epoch = rt.number /\ rx.request.id = NextPut
      BY <1>1, <1>2 DEF PipeInv, TurnOK, RequestTurn
    <3> QED
      BY <1>1, <1>4, <2>1, <2>2, <2>3, <2>4, <3>1 DEF RequestTurn
  <2>6. NextFramed' = NextFramed /\ Rest' = Rest
    <3>1. Rest' = Rest
      BY <1>1 DEF Rest
    <3> QED
      BY <1>2, <2>1, <2>3, <2>4, <3>1 DEF NextFramed
  <2>7. BytesOK'
    BY <1>1, <2>6 DEF PipeInv, BytesOK
  <2>8. \E q : queue' = <<q>>
    BY <1>4
  <2> QED
    BY <1>1, <1>2, <1>4, <2>1, <2>2, <2>5, <2>7, <2>8, ReceivePipe DEF PipeInv, StoreOK
<1> QED
  BY <1>1, <1>3, <1>4

\* The receive thread stops only when its epoch has ended, or at a fault.
LEMMA RxStopsPipe ==
  ASSUME IInv, PipeInv, RxStops
  PROVE  PipeInv'
<1>1. /\ UNCHANGED <<host, queue, cmd, uart, cdc, main, answers>>
      /\ UNCHANGED <<rt.active, rt.number, rt.fault, rt.ready, rt.consumed, rt.input>>
      /\ rx.pc # "wait" /\ ~RxRuns
      /\ rx'.pc = "wait" /\ rx'.chunk = << >> /\ rx'.framer = Framer
  BY DEF IInv, ShapesOK, RuntimeFields, RxStops, RxElsewhere
<1>2. ~Reading'
  BY <1>1 DEF Reading
<1>3. rt.active => RequestTurn'
  BY <1>1, <1>2 DEF PipeInv, TurnOK, RequestTurn, NextTaken, Awaited
<1>4. ~rt.active \/ rt.fault
  BY <1>1 DEF PipeInv, TurnOK, RequestTurn, RxRuns, EpochMatches
<1>5. BytesOK'
  BY <1>1, <1>4 DEF BytesOK
<1>6. /\ rx'.framer.pending \in Seq(Nat \X {"b"}) /\ Len(rx'.framer.pending) <= MaxPending
      /\ Len(rx'.chunk) <= Chunk
  BY <1>1, CommandSizes DEF Framer
<1> QED
  BY <1>1, <1>2, <1>3, <1>5, <1>6, ReceivePipe DEF PipeInv, StoreOK, ExactOK

\* The line that is framed next is one of the last two, or comes after them.
LEMMA FramedLine ==
  ASSUME IInv, PipeInv, rt.active, ~rt.fault
  PROVE  /\ NextTaken \in Nat /\ NextPut \in Nat /\ NextFramed \in Nat
         /\ Size(host.lines, NextFramed) \in Nat /\ Size(host.lines, NextFramed + 1) \in Nat
         /\ Size(host.lines, NextFramed + 2) = 0
         /\ Size(host.lines, NextFramed) = 0 => Size(host.lines, NextFramed + 1) = 0
         /\ Size(host.lines, NextFramed) # 0 => NextFramed \in 1 .. Len(host.lines)
         /\ NextFramed \in 1 .. Len(host.lines) + 1 /\ NextFramed >= Len(host.lines) - 1
<1>1. host.first \in Nat \ {0} /\ Len(answers) \in Nat
  BY DEF PipeInv, ConnectionOK, StoreOK
<1>2. /\ NextTaken \in Nat \ {0} /\ NextPut \in Nat \ {0} /\ NextFramed \in Nat \ {0}
  BY <1>1 DEF NextTaken, NextPut, NextFramed
<1>3. NextFramed \in Len(host.lines) - 1 .. Len(host.lines) + 1
  BY DEF PipeInv, BytesOK
<1> DEFINE i == NextFramed
           N == Len(host.lines)
<1>4. /\ N \in Nat
      /\ \A j \in Int : /\ Size(host.lines, j) \in Nat
                        /\ Size(host.lines, j) > 0 <=> j \in 1 .. N
  BY Sizes DEF IInv
<1>5. i \in Nat \ {0} /\ i >= N - 1 /\ i <= N + 1
  BY <1>2, <1>3, <1>4
<1> HIDE DEF i, N
<1>6. Size(host.lines, i) \in Nat /\ (Size(host.lines, i) > 0 <=> i \in 1 .. N)
  BY <1>4, <1>5
<1>7. i + 1 \in Int /\ i + 2 \in Int
  BY <1>5
<1>8. Size(host.lines, i + 1) \in Nat /\ (Size(host.lines, i + 1) > 0 <=> i + 1 \in 1 .. N)
  BY <1>4, <1>7
<1>9. Size(host.lines, i + 2) \in Nat /\ (Size(host.lines, i + 2) > 0 <=> i + 2 \in 1 .. N)
  BY <1>4, <1>7
<1>10. /\ i + 2 \notin 1 .. N /\ (i \notin 1 .. N => i + 1 \notin 1 .. N)
       /\ i \in 1 .. N + 1
  BY <1>4, <1>5
<1>11. \A x \in Nat : ~(x > 0) <=> x = 0
  OBVIOUS
<1> QED
  BY <1>2, <1>5, <1>6, <1>8, <1>9, <1>10, <1>11 DEF i, N

\* A chunk that is cut before its first newline.
LEMMA CutHead ==
  ASSUME NEW T, NEW chunk \in Seq(T), NEW d \in Seq(T), NEW n \in 0 .. Len(chunk),
         \A k \in 1 .. n : chunk[k][2] # "nl"
  PROVE  SubSeq(chunk, 1, n) \in Seq(T) /\ FirstLine(chunk \o d, n, SubSeq(chunk, 1, n))
<1> DEFINE s == SubSeq(chunk, 1, n)
           rest == chunk \o d
<1>1. s \in Seq(T) /\ Len(s) = n /\ \A k \in 1 .. n : s[k] = chunk[k]
  BY CutInTwo
<1>2. n <= Len(rest) /\ \A k \in 1 .. n : chunk[k] = rest[k]
  BY Beyond
<1> HIDE DEF s, rest
<1>4. \A k \in 1 .. n : s[k] = rest[k] /\ rest[k][2] # "nl"
  BY <1>1, <1>2
<1> QED
  BY <1>1, <1>2, <1>4 DEF FirstLine, s, rest

\* The bytes of a chunk up to its first newline go into the framer, and the
\* newline makes a request of them.
LEMMA RxFeedsPipe ==
  ASSUME IInv, PipeInv, RxFeeds
  PROVE  PipeInv'
<1> DEFINE reads == IF rx.chunk # << >> THEN 0
                    ELSE IF Len(rt.input) < Chunk THEN Len(rt.input) ELSE Chunk
           chunk == rx.chunk \o SubSeq(rt.input, 1, reads)
           ends == {k \in DOMAIN chunk : chunk[k][2] = "nl"}
           n == IF ends = {} THEN Len(chunk) + 1 ELSE Min(ends)
           head == SubSeq(chunk, 1, n - 1)
           framer == FrameBytes(rx.framer, head)
           input == SubSeq(rt.input, reads + 1, Len(rt.input))
           d == input \o host.wire
           i == NextFramed
           L == host.lines
<1>1. /\ rx.chunk \in Seq(Tokens) /\ rt.input \in Seq(Tokens) /\ host.wire \in Seq(Tokens)
      /\ Len(rx.chunk) \in Nat /\ Len(rt.input) \in Nat /\ Chunk \in Nat /\ MaxPending \in Nat
  BY CommandSizes DEF IInv, LinesOK
<1>2. /\ reads \in 0 .. Len(rt.input) /\ reads <= Chunk
      /\ rx.chunk # << >> => reads = 0
  BY <1>1
<1>3. /\ rx' = IF ends = {}
               THEN [rx EXCEPT !.chunk = << >>, !.framer = framer]
               ELSE [rx EXCEPT !.chunk = SubSeq(chunk, n + 1, Len(chunk)),
                               !.framer = Framer, !.pc = "queue",
                               !.request = FrameEnd(framer, chunk[n][1])]
      /\ rt' = [rt EXCEPT !.input = SubSeq(@, reads + 1, Len(@))]
      /\ UNCHANGED <<host, queue, cmd, uart, cdc, main, answers>>
      /\ rx.pc = "run" /\ RxRuns
  BY Zenon DEF RxFeeds, RxElsewhere
<1> HIDE DEF reads
<1>4. /\ SubSeq(rt.input, 1, reads) \in Seq(Tokens) /\ Len(SubSeq(rt.input, 1, reads)) = reads
      /\ input \in Seq(Tokens) /\ Len(input) = Len(rt.input) - reads
  BY <1>1, <1>2, CutInTwo
<1>5. chunk \in Seq(Tokens) /\ Len(chunk) = Len(rx.chunk) + reads
  BY <1>1, <1>4, ConcatProperties
<1>6. Len(chunk) <= Chunk /\ Len(chunk) \in Nat /\ DOMAIN chunk = 1 .. Len(chunk)
  <2>1. Len(rx.chunk) <= Chunk
    BY DEF PipeInv, StoreOK
  <2>2. rx.chunk = << >> => Len(rx.chunk) = 0
    OBVIOUS
  <2>3. DOMAIN chunk = 1 .. Len(chunk)
    BY <1>5
  <2>4. Len(chunk) <= Chunk /\ Len(chunk) \in Nat
    <3> HIDE DEF chunk
    <3> QED
      BY <1>1, <1>2, <1>5, <2>1, <2>2
  <2> QED
    BY <2>3, <2>4
<1>7. chunk \o d = Rest /\ d \in Seq(Tokens)
  <2>1. (chunk \o input) \o host.wire = Rest
    <3> DEFINE p == SubSeq(rt.input, 1, reads)
    <3>1. p \o input = rt.input
      BY <1>1, <1>2, CutInTwo
    <3>2. p \in Seq(Tokens)
      BY <1>4
    <3> HIDE DEF p, input
    <3>3. Regroups(rx.chunk, p, input)
      BY <1>1, <1>4, <3>2, Regrouped
    <3>4. chunk = rx.chunk \o p
      BY DEF p
    <3> HIDE DEF chunk
    <3> QED
      BY <3>1, <3>3, <3>4, Zenon DEF Regroups, Rest
  <2> HIDE DEF chunk, input
  <2>2. Regroups(chunk, input, host.wire)
    BY <1>1, <1>4, <1>5, Regrouped
  <2>3. d \in Seq(Tokens)
    BY <1>1, <1>4
  <2> QED
    BY <2>1, <2>2, <2>3, Zenon DEF Regroups
<1> HIDE DEF chunk
<1>8. /\ ends # {} => n \in 1 .. Len(chunk) /\ chunk[n][2] = "nl"
      /\ \A k \in 1 .. n - 1 : chunk[k][2] # "nl"
      /\ n - 1 \in 0 .. Len(chunk) /\ n \in Nat \ {0}
      /\ ends = {} => n - 1 = Len(chunk)
  <2>1. CASE ends = {}
    <3>1. n = Len(chunk) + 1 /\ n - 1 = Len(chunk)
      BY <1>6, <2>1
    <3>2. \A k \in 1 .. Len(chunk) : chunk[k][2] # "nl"
      BY <1>6, <2>1
    <3> HIDE DEF n
    <3> QED
      BY <1>6, <2>1, <3>1, <3>2
  <2>2. CASE ends # {}
    <3>1. ends \in SUBSET (1 .. Len(chunk)) /\ \A k \in 1 .. Len(chunk) :
                                                 chunk[k][2] = "nl" <=> k \in ends
      BY <1>6
    <3>2. n = Min(ends)
      BY <2>2
    <3> HIDE DEF ends, n
    <3>3. n \in 1 .. Len(chunk) /\ n \in ends /\ \A y \in ends : n <= y
      BY <1>6, <2>2, <3>1, <3>2, EarliestEnd
    <3>4. ASSUME NEW k \in 1 .. n - 1 PROVE chunk[k][2] # "nl"
      <4>1. k \in 1 .. Len(chunk) /\ ~(n <= k)
        BY <1>6, <3>3
      <4> QED
        BY <3>1, <3>3, <4>1
    <3> QED
      BY <1>6, <2>2, <3>1, <3>3, <3>4
  <2> QED
    BY <2>1, <2>2
<1>9. UNCHANGED <<rt.active, rt.number, rt.fault, rt.ready, rt.consumed>> /\ rt'.input = input
  BY <1>3 DEF IInv, ShapesOK, RuntimeFields
<1>10. /\ rx'.epoch = rx.epoch
       /\ ends = {} => rx'.pc = "run" /\ rx'.chunk = << >> /\ rx'.framer = framer
       /\ ends # {} => /\ rx'.pc = "queue" /\ rx'.framer = Framer
                       /\ rx'.chunk = SubSeq(chunk, n + 1, Len(chunk))
                       /\ rx'.request = FrameEnd(framer, chunk[n][1])
  BY <1>3 DEF IInv, ShapesOK
<1>11. rt.active /\ ~rt.fault /\ ~Reading
  BY <1>3 DEF RxRuns, EpochMatches, Reading
<1>12. /\ NextTaken \in Nat /\ NextPut \in Nat /\ i \in Nat
       /\ Size(L, i) \in Nat /\ Size(L, i + 1) \in Nat /\ Size(L, i + 2) = 0
       /\ Size(L, i) = 0 => Size(L, i + 1) = 0
       /\ Size(L, i) # 0 => i \in 1 .. Len(L)
       /\ i \in 1 .. Len(L) + 1 /\ i >= Len(L) - 1
  BY <1>11, FramedLine
<1>13. NextFramed = NextPut
  BY <1>11, <1>12 DEF NextFramed
<1>14. PICK m : Position(L, rx.framer, Rest, i, m)
  BY <1>11 DEF PipeInv, BytesOK
<1>15. head \in Seq(Tokens) /\ FirstLine(Rest, n - 1, head)
  <2> HIDE DEF n, ends, d
  <2> QED
    BY <1>5, <1>7, <1>8, CutHead
<1>16. NextTaken' = NextTaken /\ NextPut' = NextPut
  BY <1>3, <1>9 DEF NextPut, NextTaken, Awaited
<1>17. Rest' = rx'.chunk \o d
  <2>1. rx'.chunk \in Seq(Tokens)
    <3>1. CASE ends = {}
      <4>1. << >> \in Seq(Tokens)
        OBVIOUS
      <4> QED
        BY <1>10, <3>1, <4>1, Zenon
    <3>2. CASE ends # {}
      <4> HIDE DEF n, ends
      <4>1. n \in 0 .. Len(chunk)
        BY <1>6, <1>8, <3>2
      <4>2. SubSeq(chunk, n + 1, Len(chunk)) \in Seq(Tokens)
        BY <1>5, <4>1, CutInTwo
      <4> QED
        BY <1>10, <3>2, <4>2
    <3> QED
      BY <3>1, <3>2
  <2> HIDE DEF input
  <2>2. Regroups(rx'.chunk, input, host.wire)
    BY <1>1, <1>4, <2>1, Regrouped
  <2>3. host'.wire = host.wire
    BY <1>3
  <2> QED
    BY <1>9, <2>2, <2>3, Zenon DEF Regroups, Rest
<1>18. Len(rt'.input) <= RxCapacity
  <2>1. Len(rt.input) <= RxCapacity /\ RxCapacity \in Nat
    BY CommandSizes DEF PipeInv, StoreOK
  <2> HIDE DEF input
  <2> QED
    BY <1>1, <1>2, <1>4, <1>9, <2>1
<1>19. /\ rx.epoch = rt.number
       /\ queue # << >> => queue[1].epoch = rt.number /\ queue[1].request.id = NextTaken
  BY <1>3, <1>11 DEF PipeInv, TurnOK, RequestTurn
<1>20. CASE ends = {}
  <2>1. ~Reading' /\ NextFramed' = NextFramed
    BY <1>10, <1>12, <1>13, <1>16, <1>20 DEF Reading, NextFramed
  <2>2. Position(L, framer, d, i, m + (n - 1))
    <3>1. RestFrom(Rest, n - 1, SubSeq(chunk, (n - 1) + 1, Len(chunk)) \o d)
      <4> HIDE DEF n, ends, d
      <4> QED
        BY <1>5, <1>7, <1>8, Beyond
    <3>2. SubSeq(chunk, (n - 1) + 1, Len(chunk)) = << >>
      <4>1. (n - 1) + 1 = Len(chunk) + 1
        BY <1>8, <1>20
      <4>2. SubSeq(chunk, Len(chunk) + 1, Len(chunk)) = << >>
        BY <1>5, <1>6
      <4> QED
        BY <4>1, <4>2
    <3>3. << >> \o d = d
      BY <1>7
    <3>4. RestFrom(Rest, n - 1, d)
      BY <3>1, <3>2, <3>3, Zenon
    <3> HIDE DEF n, ends, d, head, i, L
    <3>5. n - 1 \in Nat
      BY <1>8
    <3> QED
      BY <1>12, <1>14, <1>15, <3>4, <3>5, PositionOn
  <2>3. Framed(framer, i, m + (n - 1)) /\ m + (n - 1) \in Nat
    BY <2>2 DEF Position
  <2>4. framer.pending \in Seq(Nat \X {"b"}) /\ Len(framer.pending) <= MaxPending
    BY <1>12, <2>3, FramedType
  <2>5. BytesOK'
    <3>1. << >> \o d = d
      BY <1>7
    <3>2. Rest' = d
      BY <1>10, <1>17, <1>20, <3>1
    <3>3. NextFramed' \in Len(host'.lines) - 1 .. Len(host'.lines) + 1
      BY <1>3, <1>11, <2>1 DEF PipeInv, BytesOK
    <3> HIDE DEF n, ends, d, framer, i
    <3>4. Position(host'.lines, rx'.framer, Rest', NextFramed', m + (n - 1))
      BY <1>3, <1>10, <1>20, <2>1, <2>2, <3>2 DEF i, L
    <3> QED
      BY <3>3, <3>4 DEF BytesOK
  <2>6. rt.active => RequestTurn'
    BY <1>3, <1>9, <1>10, <1>11, <1>16, <1>19, <2>1 DEF RequestTurn
  <2>7. Len(rx'.chunk) <= Chunk /\ rx'.framer = framer /\ rx'.pc = "run"
    BY <1>1, <1>10, <1>20
  <2> HIDE DEF n, ends, d, framer, i, L, head
  <2> QED
    BY <1>3, <1>9, <1>18, <2>1, <2>4, <2>5, <2>6, <2>7, ReceivePipe DEF PipeInv, StoreOK, ExactOK
<1>21. CASE ends # {}
  <2>1. Reading' /\ NextFramed' = i + 1
    BY <1>10, <1>12, <1>13, <1>16, <1>21 DEF Reading, NextFramed
  <2>2. n \in 0 .. Len(chunk) /\ n \in 1 .. Len(chunk)
    <3> HIDE DEF n, ends
    <3> QED
      BY <1>6, <1>8, <1>21
  <2>3. RestFrom(Rest, n, SubSeq(chunk, n + 1, Len(chunk)) \o d)
    <3> HIDE DEF n, ends, d
    <3> QED
      BY <1>5, <1>7, <2>2, Beyond
  <2>4. Rest[n] = chunk[n]
    <3>1. n <= Len(chunk)
      <4> HIDE DEF n
      <4> QED
        BY <1>6, <2>2
    <3> HIDE DEF n, ends, d
    <3>2. n \in 1 .. Len(chunk) + Len(d)
      BY <1>6, <1>7, <2>2
    <3> QED
      BY <1>5, <1>7, <3>1, <3>2, ConcatProperties
  <2>5. /\ Size(L, i) # 0 /\ Rest[n] = <<i, "nl">>
        /\ Framed(framer, i, Size(L, i) - 1)
        /\ Position(L, Framer, SubSeq(chunk, n + 1, Len(chunk)) \o d, i + 1, 0)
    <3> HIDE DEF n, ends, d, head, i, L
    <3>1. Rest[n][2] = "nl" /\ n \in Nat \ {0}
      BY <1>8, <1>21, <2>4
    <3> QED
      BY <1>12, <1>14, <1>15, <2>3, <3>1, PositionEnds
  <2>6. i \in 1 .. Len(L) /\ chunk[n][1] = i
    BY <1>12, <2>4, <2>5
  <2>7. Exact(L, FrameEnd(framer, i)) /\ FrameEnd(framer, i).id = i
    <3>1. LinesOK
      BY DEF IInv
    <3> HIDE DEF framer, i, n
    <3> QED
      BY <2>5, <2>6, <3>1, FrameEndExact
  <2>8. rx'.request = FrameEnd(framer, i)
    <3> HIDE DEF framer, i, n, ends
    <3> QED
      BY <1>10, <1>21, <2>6
  <2>9. BytesOK'
    <3>1. Len(L) \in Nat
      BY Sizes DEF IInv
    <3>2. NextFramed' \in Len(host'.lines) - 1 .. Len(host'.lines) + 1
      <4> HIDE DEF i
      <4>1. NextFramed' = i + 1 /\ Len(host'.lines) = Len(L) /\ i \in 1 .. Len(L)
        BY <1>3, <2>1, <2>6
      <4>3. i >= Len(L) - 1
        BY <1>12
      <4> HIDE DEF L
      <4>4. i + 1 \in Len(L) - 1 .. Len(L) + 1
        BY <3>1, <4>1, <4>3
      <4> QED
        BY <4>1, <4>4
    <3> HIDE DEF n, ends, d, framer, i
    <3>3. Position(host'.lines, rx'.framer, Rest', NextFramed', 0)
      BY <1>3, <1>10, <1>17, <1>21, <2>1, <2>5 DEF L
    <3> QED
      BY <3>2, <3>3 DEF BytesOK
  <2>10. Len(rx'.chunk) <= Chunk
    <3> HIDE DEF n, ends
    <3>1. Len(SubSeq(chunk, n + 1, Len(chunk))) = Len(chunk) - n
      BY <1>5, <2>2, CutInTwo
    <3>2. Len(rx'.chunk) = Len(chunk) - n
      BY <1>10, <1>21, <3>1
    <3>3. Len(chunk) - n <= Chunk
      BY <1>1, <1>6, <2>2
    <3> QED
      BY <3>2, <3>3
  <2>11. rt.active => RequestTurn'
    <3>1. rx'.request.id = NextPut'
      <4> HIDE DEF framer
      <4> QED
        BY <1>13, <1>16, <2>7, <2>8
    <3> HIDE DEF n, ends, d, framer, i
    <3> QED
      BY <1>3, <1>9, <1>10, <1>11, <1>16, <1>19, <2>1, <3>1 DEF RequestTurn
  <2>12. /\ rx'.framer = Framer /\ Framer.pending = << >> /\ rx'.pc = "queue"
    BY <1>10, <1>21 DEF Framer
  <2>13. rx'.framer.pending \in Seq(Nat \X {"b"}) /\ Len(rx'.framer.pending) <= MaxPending
    BY <1>1, <2>12
  <2>14. Exact(host.lines, rx'.request)
    BY <2>7, <2>8, Zenon
  <2> HIDE DEF n, ends, d, framer, i, L, head
  <2> QED
    BY <1>3, <1>9, <1>18, <2>1, <2>9, <2>10, <2>11, <2>12, <2>13, <2>14, ReceivePipe
       DEF PipeInv, StoreOK, ExactOK
<1> QED
  BY <1>20, <1>21

-----------------------------------------------------------------------------
(***************************************************************************)
(* The host, the interrupts and the answers.                               *)
(***************************************************************************)
\* A step of the interrupts and of the host's port leaves the turns alone.
LEMMA PortPipe ==
  ASSUME PipeInv, UNCHANGED <<queue, rx, cmd, uart, cdc, main, answers>>,
         UNCHANGED <<host.lines, host.first>>,
         UNCHANGED <<rt.active, rt.number, rt.ready, rt.consumed>>,
         host'.greeted => host'.dtr,
         main.pc \in {"off", "hello"} => ~host'.greeted,
         main.pc \in {"end_rx", "end_cmd", "end_io"} /\ main.next = "off" => ~host'.greeted,
         main.pc = "hello" => host'.wire = << >>,
         Len(rt'.input) <= RxCapacity,
         rt.active /\ ~rt'.fault => ~rt.fault /\ Rest' = Rest
  PROVE  PipeInv'
<1>1. ConnectionOK'
  BY DEF PipeInv, ConnectionOK, Writing
<1>2. StoreOK'
  BY DEF PipeInv, StoreOK
<1>3. ExactOK'
  BY DEF PipeInv, ExactOK, Reading
<1>4. TurnOK'
  BY DEF PipeInv, TurnOK, ExecutorTurn, RequestTurn, Reading, NextPut, NextTaken, Awaited
<1>5. NextFramed' = NextFramed
  BY DEF NextFramed, NextPut, NextTaken, Awaited, Reading
<1>6. BytesOK'
  BY <1>5 DEF PipeInv, BytesOK
<1>7. AnswersInOrder'
  BY DEF PipeInv, AnswersInOrder
<1> QED
  BY <1>1, <1>2, <1>3, <1>4, <1>6, <1>7 DEF PipeInv

\* A chunk moves into the receive queue, or what does not fit is a fault.
LEMMA OnCdcRxReadyPipe ==
  ASSUME IInv, PipeInv, OnCdcRxReady
  PROVE  PipeInv'
<1> DEFINE n == IF Len(host.wire) < Chunk THEN Len(host.wire) ELSE Chunk
           fits == IF n <= RxCapacity - Len(rt.input) THEN n
                   ELSE RxCapacity - Len(rt.input)
           taken == SubSeq(host.wire, 1, fits)
<1>1. host.wire \in Seq(Tokens) /\ rt.input \in Seq(Tokens) /\ rx.chunk \in Seq(Tokens)
  BY DEF IInv, LinesOK
<1>2. /\ Len(host.wire) \in Nat /\ Len(rt.input) \in Nat /\ Len(rt.input) <= RxCapacity
      /\ Chunk \in Nat /\ RxCapacity \in Nat
  <2>1. Len(host.wire) \in Nat /\ Len(rt.input) \in Nat
    BY <1>1
  <2>2. Chunk \in Nat /\ RxCapacity \in Nat
    BY CommandSizes
  <2>3. Len(rt.input) <= RxCapacity
    BY DEF PipeInv, StoreOK
  <2> QED
    BY <2>1, <2>2, <2>3
<1>3. n \in 0 .. Len(host.wire)
  BY <1>2
<1>4. /\ rt' = [rt EXCEPT !.input = @ \o taken, !.fault = @ \/ fits < n]
      /\ host' = [host EXCEPT !.wire = SubSeq(@, n + 1, Len(@))]
      /\ UNCHANGED <<queue, rx, cmd, uart, cdc, main, answers>>
      /\ rt.active
  BY Zenon DEF OnCdcRxReady
<1> HIDE DEF n
<1>5. /\ fits \in 0 .. Len(host.wire) /\ fits <= n
      /\ fits <= RxCapacity - Len(rt.input)
  <2>1. PICK w, l \in Nat : w = Len(host.wire) /\ l = Len(rt.input)
    BY <1>2
  <2>2. l <= RxCapacity /\ RxCapacity \in Nat /\ n \in 0 .. w
    BY <1>2, <1>3, <2>1
  <2>3. fits = IF n <= RxCapacity - l THEN n ELSE RxCapacity - l
    BY <2>1, Zenon
  <2> HIDE DEF fits
  <2>4. fits \in 0 .. w /\ fits <= n /\ fits <= RxCapacity - l
    BY <2>2, <2>3
  <2> QED
    BY <2>1, <2>4
<1> HIDE DEF fits
<1>6. taken \in Seq(Tokens) /\ Len(taken) = fits
  BY <1>1, <1>5, CutInTwo
<1>7. Len(rt.input \o taken) <= RxCapacity
  <2>1. Len(rt.input \o taken) = Len(rt.input) + Len(taken)
    BY <1>1, <1>6, ConcatProperties
  <2>2. Len(rt.input) + fits <= RxCapacity
    BY <1>2, <1>5
  <2> QED
    BY <1>6, <2>1, <2>2
<1> HIDE DEF taken
<1>8. /\ UNCHANGED <<rt.active, rt.number, rt.ready, rt.consumed>>
      /\ rt'.input = rt.input \o taken /\ (rt'.fault <=> rt.fault \/ fits < n)
  BY <1>4 DEF IInv, ShapesOK, RuntimeFields
<1>9. /\ UNCHANGED <<host.lines, host.first, host.greeted, host.dtr>>
      /\ host'.wire = SubSeq(host.wire, n + 1, Len(host.wire))
  BY <1>4 DEF IInv, ShapesOK
<1>10. ASSUME ~rt'.fault PROVE ~rt.fault /\ Rest' = Rest
  <2>1. ~rt.fault /\ ~(fits < n)
    BY <1>8, <1>10
  <2>2. fits = n
    BY <1>3, <1>5, <2>1
  <2>3. MovesUp(rx.chunk, rt.input, host.wire, n)
    BY <1>1, <1>3, MovedUp
  <2>4. rx'.chunk = rx.chunk
    BY <1>4
  <2>5. Rest' = (rx.chunk \o (rt.input \o SubSeq(host.wire, 1, n)))
                  \o SubSeq(host.wire, n + 1, Len(host.wire))
    BY <1>8, <1>9, <2>2, <2>4, Zenon DEF Rest, taken
  <2>6. Rest' = Rest
    BY <2>3, <2>5, Zenon DEF MovesUp, Rest
  <2> QED
    BY <2>1, <2>6
<1>11. main.pc # "hello"
  BY <1>4 DEF PipeInv, ConnectionOK, Writing
<1> QED
  BY <1>4, <1>7, <1>8, <1>9, <1>10, <1>11, PortPipe DEF PipeInv, ConnectionOK

LEMMA OnCdcRxFailsPipe ==
  ASSUME IInv, PipeInv, OnCdcRxFails
  PROVE  PipeInv'
<1>1. /\ UNCHANGED <<host, queue, rx, cmd, uart, cdc, main, answers>>
      /\ UNCHANGED <<rt.active, rt.number, rt.ready, rt.consumed, rt.input>>
      /\ rt'.fault
  BY DEF IInv, ShapesOK, RuntimeFields, OnCdcRxFails, MarkRuntimeFault
<1> QED
  BY <1>1, PortPipe DEF PipeInv, ConnectionOK, StoreOK

LEMMA HostDtrPipe ==
  ASSUME IInv, PipeInv, HostDtr
  PROVE  PipeInv'
<1>1. /\ UNCHANGED <<rt, queue, rx, cmd, uart, cdc, main, answers>>
      /\ UNCHANGED <<host.lines, host.first, host.wire>>
      /\ \/ ~host.dtr /\ host'.dtr /\ (host'.greeted <=> host.greeted)
         \/ ~host'.greeted
  BY DEF IInv, ShapesOK, HostDtr
<1>2. host'.greeted => host'.dtr /\ host.greeted
  BY <1>1 DEF PipeInv, ConnectionOK
<1>3. Rest' = Rest
  BY <1>1 DEF Rest
<1> QED
  BY <1>1, <1>2, <1>3, PortPipe DEF PipeInv, ConnectionOK, StoreOK

\* A step of the UART or the CDC transmitter leaves everything else alone.
LEMMA TransmitterPipe ==
  ASSUME PipeInv, UNCHANGED <<host, rt, queue, rx, cmd, main, answers, cdc.frame>>,
         StoreOK'
  PROVE  PipeInv'
<1>1. ConnectionOK'
  BY DEF PipeInv, ConnectionOK, Writing
<1>3. ExactOK'
  BY DEF PipeInv, ExactOK, Reading
<1>4. TurnOK'
  BY DEF PipeInv, TurnOK, ExecutorTurn, RequestTurn, Reading, NextPut, NextTaken, Awaited
<1>5. NextFramed' = NextFramed /\ Rest' = Rest
  BY DEF NextFramed, NextPut, NextTaken, Awaited, Reading, Rest
<1>6. BytesOK'
  BY <1>5 DEF PipeInv, BytesOK
<1>7. AnswersInOrder'
  BY DEF PipeInv, AnswersInOrder
<1> QED
  BY <1>1, <1>3, <1>4, <1>6, <1>7 DEF PipeInv

LEMMA KickTransmissionPipe ==
  ASSUME IInv, PipeInv, KickTransmission
  PROVE  PipeInv'
<1>1. /\ UNCHANGED <<host, rt, queue, rx, cmd, main, answers, cdc>>
      /\ UNCHANGED <<uart.state, uart.length, uart.queued>>
  BY DEF IInv, ShapesOK, KickTransmission, UartElsewhere
<1> QED
  BY <1>1, TransmitterPipe DEF PipeInv, StoreOK

LEMMA UartTxOnInterruptPipe ==
  ASSUME IInv, PipeInv, NEW n \in 0 .. 1, UartTxOnInterrupt(n)
  PROVE  PipeInv'
<1>1. UNCHANGED <<host, rt, queue, rx, cmd, main, answers, cdc>>
  BY DEF UartTxOnInterrupt, UartElsewhere
<1>2. uart.length \in Nat /\ uart.queued \in 0 .. uart.length
  BY DEF PipeInv, StoreOK
<1>3. CASE uart.state # "pending" /\ uart' = [uart EXCEPT !.irq = FALSE]
  <2>1. UNCHANGED <<uart.state, uart.length, uart.queued>>
    BY <1>3 DEF IInv, ShapesOK
  <2> QED
    BY <1>1, <2>1, TransmitterPipe DEF PipeInv, StoreOK
<1>4. CASE /\ n <= uart.length - uart.queued
           /\ \E shifted \in BOOLEAN :
                uart' = IF shifted /\ UartAllQueued(n)
                        THEN [uart EXCEPT !.queued = @ + n, !.state = "completed", !.irq = FALSE]
                        ELSE [uart EXCEPT !.queued = @ + n]
  <2>1. /\ uart'.length = uart.length /\ uart'.queued = uart.queued + n
        /\ uart'.state \in {uart.state, "completed"}
    BY <1>4 DEF IInv, ShapesOK
  <2>2. uart.queued + n \in 0 .. uart.length
    BY <1>2, <1>4
  <2> QED
    BY <1>1, <1>2, <2>1, <2>2, TransmitterPipe DEF PipeInv, StoreOK
<1> QED
  BY <1>3, <1>4 DEF UartTxOnInterrupt

LEMMA UartTxDriverFaultPipe ==
  ASSUME IInv, PipeInv, UartTxDriverFault
  PROVE  PipeInv'
<1>1. /\ UNCHANGED <<host, rt, queue, rx, cmd, main, answers, cdc>>
      /\ UNCHANGED <<uart.length, uart.queued>> /\ uart'.state = "fault"
  BY DEF IInv, ShapesOK, UartTxDriverFault, UartElsewhere
<1> QED
  BY <1>1, TransmitterPipe DEF PipeInv, StoreOK

LEMMA CdcTxOnWritablePipe ==
  ASSUME IInv, PipeInv, CdcTxOnWritable
  PROVE  PipeInv'
<1>1. /\ UNCHANGED <<host, rt, queue, rx, cmd, main, answers, uart, cdc.frame>>
      /\ cdc.state = "pending" /\ cdc'.left = cdc.left - 1
      /\ cdc'.state = IF cdc.left = 1 THEN "completed" ELSE cdc.state
  BY DEF IInv, ShapesOK, CdcTxOnWritable, CdcElsewhere
<1>2. cdc.left \in 1 .. 2 /\ FrameUnits = 2
  BY <1>1 DEF PipeInv, StoreOK, FrameUnits
<1>3. /\ cdc'.left \in 0 .. FrameUnits /\ (cdc'.state = "pending" => cdc'.left # 0)
      /\ cdc'.state \in {"pending", "completed"}
  BY <1>1, <1>2
<1> QED
  BY <1>1, <1>3, TransmitterPipe DEF PipeInv, StoreOK

LEMMA CdcTxDriverFaultPipe ==
  ASSUME IInv, PipeInv, CdcTxDriverFault
  PROVE  PipeInv'
<1>1. /\ UNCHANGED <<host, rt, queue, rx, cmd, main, answers, uart, cdc.frame, cdc.left>>
      /\ cdc'.state = "fault"
  BY DEF IInv, ShapesOK, CdcTxDriverFault, CdcElsewhere
<1> QED
  BY <1>1, TransmitterPipe DEF PipeInv, StoreOK

-----------------------------------------------------------------------------
(***************************************************************************)
(* The command thread and the answers.                                     *)
(***************************************************************************)
\* A step of the command thread either leaves its line and the queue, or turns
\* from the line it has answered to the one in the queue.
LEMMA CommandPipe ==
  ASSUME PipeInv, UNCHANGED <<host, rx, cdc, main, answers>>,
         UNCHANGED <<rt.active, rt.number, rt.fault, rt.input>>,
         queue' = queue \/ queue' = << >>,
         cmd'.result \in Results \union {None},
         uart'.state \in {"idle", "pending", "completed", "fault"},
         uart'.length \in Nat, uart'.queued \in 0 .. uart'.length,
         cmd'.state \in {"pulse", "uart"} => Executable(host.lines[cmd'.id]),
         cmd'.state = "response" => Verdict(host.lines[cmd'.id], cmd'.result),
         rt.active => /\ ExecutorTurn'
                      /\ \/ queue' = queue /\ (Awaited' <=> Awaited)
                         \/ queue # << >> /\ queue' = << >> /\ ~Awaited /\ Awaited'
  PROVE  PipeInv'
<1>1. ConnectionOK'
  BY DEF PipeInv, ConnectionOK, Writing
<1>2. StoreOK'
  <2>1. queue' = << >> \/ \E q : queue' = <<q>>
    BY DEF PipeInv, StoreOK
  <2> QED
    BY <2>1 DEF PipeInv, StoreOK
<1>3. ExactOK'
  BY DEF PipeInv, ExactOK, Reading
<1>4. /\ host.first + Len(answers) \in Int
      /\ Reading' <=> Reading
  BY DEF PipeInv, ConnectionOK, StoreOK, Reading
<1>5. ASSUME rt.active
      PROVE  /\ NextPut' = NextPut
             /\ queue' # << >> => queue' = queue /\ NextTaken' = NextTaken
  <2>1. /\ NextTaken = host.first + Len(answers) + (IF Awaited THEN 1 ELSE 0)
        /\ NextTaken' = host.first + Len(answers) + (IF Awaited' THEN 1 ELSE 0)
        /\ NextPut = NextTaken + (IF queue = << >> THEN 0 ELSE 1)
        /\ NextPut' = NextTaken' + (IF queue' = << >> THEN 0 ELSE 1)
    BY DEF NextPut, NextTaken
  <2>2. CASE queue' = queue /\ (Awaited' <=> Awaited)
    BY <2>1, <2>2
  <2>3. CASE queue # << >> /\ queue' = << >> /\ ~Awaited /\ Awaited'
    BY <1>4, <2>1, <2>3
  <2> QED
    BY <1>5, <2>2, <2>3
<1>6. TurnOK'
  <2>1. rt.active => RequestTurn'
    BY <1>4, <1>5 DEF PipeInv, TurnOK, RequestTurn
  <2> QED
    BY <2>1 DEF TurnOK
<1>7. BytesOK'
  <2>1. rt.active => NextFramed' = NextFramed
    BY <1>4, <1>5 DEF NextFramed
  <2>2. Rest' = Rest
    BY DEF Rest
  <2> QED
    BY <2>1, <2>2 DEF PipeInv, BytesOK
<1>8. AnswersInOrder'
  BY DEF PipeInv, AnswersInOrder
<1> QED
  BY <1>1, <1>2, <1>3, <1>6, <1>7, <1>8 DEF PipeInv

\* The command thread starts with an executor that holds nothing.
LEMMA CmdBeginsPipe ==
  ASSUME IInv, PipeInv, CmdBegins
  PROVE  PipeInv'
<1>1. /\ UNCHANGED <<host, queue, rx, uart, cdc, main, answers>>
      /\ UNCHANGED <<rt.active, rt.number, rt.fault, rt.ready, rt.consumed, rt.input>>
      /\ UNCHANGED <<cmd.state, cmd.id, cmd.result>>
      /\ cmd'.epoch = rt.number
  BY DEF IInv, ShapesOK, RuntimeFields, CmdBegins, CmdElsewhere
<1>2. Awaited' <=> Awaited
  BY <1>1 DEF Awaited
<1>3. rt.active => ExecutorTurn'
  BY <1>1, <1>2 DEF PipeInv, TurnOK, ExecutorTurn
<1> QED
  BY <1>1, <1>2, <1>3, CommandPipe DEF PipeInv, StoreOK, ExactOK

\* A service that looks at the epoch, or finds nothing to do.
LEMMA CmdLooksPipe ==
  ASSUME IInv, PipeInv, CmdChecks \/ CmdIdles
  PROVE  PipeInv'
<1>1. /\ UNCHANGED <<host, rt, queue, rx, uart, cdc, main, answers>>
      /\ UNCHANGED <<cmd.state, cmd.id, cmd.result, cmd.epoch>>
      /\ cmd.pc # "wait"
  BY DEF IInv, ShapesOK, CmdChecks, CmdIdles, Serving, CmdElsewhere
<1>2. Awaited' <=> Awaited
  BY <1>1 DEF Awaited
<1>3. rt.active => ExecutorTurn'
  BY <1>1, <1>2 DEF PipeInv, TurnOK, ExecutorTurn
<1> QED
  BY <1>1, <1>2, <1>3, CommandPipe DEF PipeInv, StoreOK, ExactOK

\* The line whose response was written is no longer awaited.
LEMMA CmdConsumesPipe ==
  ASSUME IInv, PipeInv, CmdConsumes
  PROVE  PipeInv'
<1>1. /\ UNCHANGED <<host, queue, rx, uart, cdc, main, answers>>
      /\ UNCHANGED <<rt.active, rt.number, rt.fault, rt.ready, rt.input>>
      /\ UNCHANGED <<cmd.id, cmd.result, cmd.epoch>>
      /\ rt.consumed /\ ~rt'.consumed /\ cmd.pc # "wait" /\ cmd'.state = "idle"
  BY DEF IInv, ShapesOK, RuntimeFields, CmdConsumes, ResponseConsumed, Serving, CmdElsewhere
<1>2. ~Awaited /\ ~Awaited'
  BY <1>1 DEF Awaited
<1>3. rt.active => ExecutorTurn'
  BY <1>1, <1>2 DEF PipeInv, TurnOK, ExecutorTurn
<1> QED
  BY <1>1, <1>2, <1>3, CommandPipe DEF PipeInv, StoreOK

\* What is done is answered: the response becomes ready.
LEMMA PublishPipe ==
  ASSUME IInv, PipeInv, UNCHANGED <<host, queue, rx, cdc, main, answers>>,
         cmd.state \in {"pulse", "uart"}, cmd.pc = "serve",
         NEW result \in Results, Publish(result),
         uart'.state \in {"idle", "pending", "completed", "fault"},
         uart'.length \in Nat, uart'.queued \in 0 .. uart'.length
  PROVE  PipeInv'
<1>1. /\ UNCHANGED <<rt.active, rt.number, rt.fault, rt.consumed, rt.input>>
      /\ UNCHANGED <<cmd.id, cmd.epoch>> /\ rt'.ready
      /\ cmd'.state = "response" /\ cmd'.result = result
  BY DEF IInv, ShapesOK, RuntimeFields, Publish
<1>2. Awaited' <=> Awaited
  BY <1>1 DEF Awaited
<1>3. rt.active => ExecutorTurn'
  BY <1>1, <1>2 DEF PipeInv, TurnOK, ExecutorTurn
<1>4. Verdict(host.lines[cmd.id], result)
  <2>1. Executable(host.lines[cmd.id])
    BY DEF PipeInv, ExactOK
  <2>2. host.lines[cmd.id].len \in Nat /\ MaxPending \in Nat
    BY Sizes, CommandSizes DEF IInv, BusyOK
  <2> QED
    BY <2>1, <2>2 DEF Executable, Verdict
<1> QED
  BY <1>1, <1>2, <1>3, <1>4, CommandPipe

LEMMA PollPulsePipe ==
  ASSUME IInv, PipeInv, PollPulse
  PROVE  PipeInv'
<1>1. /\ UNCHANGED <<host, queue, rx, uart, cdc, main, answers>>
      /\ cmd.state = "pulse" /\ cmd.pc = "serve"
  BY DEF PollPulse, Serving, CmdElsewhere
<1>2. PICK f \in Outcomes : PulseEnds(f)
  BY DEF PollPulse
<1>3. Publish("ok") \/ Publish("hardware_fault")
  BY <1>2 DEF PulseEnds
<1> QED
  BY <1>1, <1>3, PublishPipe DEF PipeInv, StoreOK, Results

LEMMA PollUartPipe ==
  ASSUME IInv, PipeInv, PollUart
  PROVE  PipeInv'
<1>1. /\ UNCHANGED <<host, queue, rx, cdc, main, answers>>
      /\ cmd.state = "uart" /\ cmd.pc = "serve" /\ uart' = UartTxIdle
      /\ Publish(UartTxPolled)
  BY DEF PollUart, Serving, CmdElsewhere
<1>2. uart'.state = "idle" /\ uart'.length = 0 /\ uart'.queued = 0
  BY <1>1 DEF IInv, ShapesOK, UartTxIdle
<1>3. UartTxPolled \in Results
  BY DEF UartTxPolled, Results
<1> QED
  BY <1>1, <1>2, <1>3, PublishPipe
\* The executor turns to the request in the queue, which is the next line's.
LEMMA TakenPipe ==
  ASSUME IInv, PipeInv, Submitted, UNCHANGED <<host, rx, cdc, main, answers>>,
         NEW state \in {"pulse", "uart", "response"},
         NEW result \in Results \union {None}, ForId(state, result),
         \/ rt' = [rt EXCEPT !.outstanding = TRUE, !.ready = TRUE] /\ state = "response"
         \/ rt' = rt,
         state \in {"pulse", "uart"} => Executable(What),
         state = "response" => Verdict(What, result),
         uart'.state \in {"idle", "pending", "completed", "fault"},
         uart'.length \in Nat, uart'.queued \in 0 .. uart'.length
  PROVE  PipeInv'
<1>1. /\ UNCHANGED <<rt.active, rt.number, rt.fault, rt.consumed, rt.input>>
      /\ rt'.ready => rt.ready \/ state = "response"
      /\ cmd'.state = state /\ cmd'.id = Theirs /\ cmd'.result = result
      /\ cmd'.epoch = cmd.epoch
  BY DEF IInv, ShapesOK, RuntimeFields, ForId
<1>2. /\ cmd.state = "idle" /\ queue # << >> /\ queue' = << >> /\ cmd.pc = "serve"
      /\ host.lines[Theirs] = What
  BY DEF Submitted, Taken, Serving, What
<1>3. ~Awaited
  BY <1>2 DEF Awaited
<1>4. ASSUME rt.active PROVE ExecutorTurn' /\ Awaited'
  <2>1. Theirs = NextTaken /\ ~rt.ready /\ ~rt.consumed /\ cmd.epoch = rt.number
        /\ main.pc # "response"
    BY <1>2, <1>4 DEF PipeInv, TurnOK, ExecutorTurn, RequestTurn, Theirs
  <2>2. NextTaken = host.first + Len(answers)
    BY <1>3 DEF NextTaken, PipeInv, ConnectionOK, StoreOK
  <2> QED
    BY <1>1, <2>1, <2>2 DEF ExecutorTurn, Awaited
<1> QED
  BY <1>1, <1>2, <1>3, <1>4, CommandPipe

\* What is executed may be answered with any result.
LEMMA SubmittedCommand ==
  ASSUME IInv, PipeInv, NEW name, CommandIs(name)
  PROVE  /\ Submitted /\ Executable(What) /\ \A result : Verdict(What, result)
         /\ name = "uart_send" => What.data \in {1, 2}
<1>1. Submitted /\ Taken /\ queue[1].request.kind = "command" /\ What.cmd = name
  BY DEF CommandIs, Submitted
<1>2. queue # << >>
  BY <1>1 DEF Taken
<1>3. Kind(What) = "command" /\ What \in ScriptLines
  BY <1>1, <1>2, TakenFacts DEF PipeInv, ExactOK, Exact, What, Theirs
<1>4. Executable(What) /\ (name = "uart_send" => What.data \in {1, 2})
  BY <1>1, <1>3, KindFacts
<1>5. What.len \in Nat /\ MaxPending \in Nat
  BY <1>3, ScriptFacts, CommandSizes
<1> QED
  BY <1>1, <1>4, <1>5 DEF Executable, Verdict

\* A command that is answered at once.
LEMMA AnswerPipe ==
  ASSUME IInv, PipeInv, NEW name, CommandIs(name), NEW result \in Results, Answer(result),
         UNCHANGED <<host, rx, cdc, main, answers, uart>>
  PROVE  PipeInv'
<1>1. Submitted /\ Verdict(What, result)
  BY SubmittedCommand
<1>2. /\ ForId("response", result)
      /\ rt' = [rt EXCEPT !.outstanding = TRUE, !.ready = TRUE]
  BY DEF Answer
<1> QED
  BY <1>1, <1>2, TakenPipe DEF PipeInv, StoreOK

\* A line that is no command is refused as what it is.
LEMMA RejectsPipe ==
  ASSUME IInv, PipeInv, Rejects
  PROVE  PipeInv'
<1>1. /\ UNCHANGED <<host, rx, uart, cdc, main, answers>> /\ Taken
      /\ queue # << >> /\ queue' = << >> /\ cmd.state = "idle"
  BY DEF Rejects, CmdElsewhere, Taken
<1>2. CASE queue[1].epoch # cmd.epoch
  <2>1. rt' = rt /\ cmd'.state = cmd.state /\ cmd'.result = cmd.result
    BY <1>2 DEF Rejects, IInv, ShapesOK
  <2>2. ~rt.active
    BY <1>1, <1>2 DEF PipeInv, TurnOK, ExecutorTurn, RequestTurn, Taken, Serving
  <2> QED
    BY <1>1, <2>1, <2>2, CommandPipe DEF PipeInv, StoreOK
<1>3. CASE ~(queue[1].epoch # cmd.epoch)
  <2>1. Submitted /\ Answer(queue[1].request.kind) /\ queue[1].request.kind # "command"
    BY <1>1, <1>3 DEF Rejects, Submitted
  <2>2. queue[1].request.kind = Kind(What) /\ What \in ScriptLines
    BY <1>1, TakenFacts DEF PipeInv, ExactOK, Exact, What, Theirs
  <2>3. queue[1].request.kind \in Results /\ Verdict(What, queue[1].request.kind)
    BY <2>1, <2>2, KindFacts DEF Refusals, Results
  <2>4. PICK kind \in Results : kind = queue[1].request.kind
    BY <2>3
  <2>5. /\ ForId("response", kind) /\ Verdict(What, kind)
        /\ rt' = [rt EXCEPT !.outstanding = TRUE, !.ready = TRUE]
    BY <2>1, <2>3, <2>4 DEF Answer
  <2> QED
    BY <1>1, <2>1, <2>5, TakenPipe DEF PipeInv, StoreOK
<1> QED
  BY <1>2, <1>3

\* The control commands that are answered at once.
LEMMA ControlPipe ==
  ASSUME IInv, PipeInv, SubmitConfigure \/ NotConfigured \/ SubmitControlState
  PROVE  PipeInv'
<1>1. UNCHANGED <<host, rx, cdc, main, answers, uart>>
  BY DEF SubmitConfigure, NotConfigured, SubmitControlState, CmdElsewhere
<1>2. \A ok : ControlAnswer(ok) => Answer("ok") \/ Answer("hardware_fault")
  BY Zenon DEF ControlAnswer
<1>3. \E name : CommandIs(name)
  BY DEF SubmitConfigure, NotConfigured, SubmitControlState
<1>4. CASE SubmitConfigure
  <2>1. Answer("ok") \/ Answer("hardware_fault")
    BY <1>2, <1>4 DEF SubmitConfigure, ControlConfigure
  <2> QED
    BY <1>1, <1>3, <2>1, AnswerPipe DEF Results
<1>5. CASE NotConfigured
  <2>1. Answer("not_configured")
    BY <1>5 DEF NotConfigured
  <2> QED
    BY <1>1, <1>3, <2>1, AnswerPipe DEF Results
<1>6. CASE SubmitControlState
  <2>1. Answer("ok") \/ Answer("hardware_fault")
    BY <1>2, <1>6 DEF SubmitControlState, ControlSetState
  <2> QED
    BY <1>1, <1>3, <2>1, AnswerPipe DEF Results
<1> QED
  BY <1>4, <1>5, <1>6

\* A pulse is awaited, or refused when the pin does not obey.
LEMMA SubmitPulsePipe ==
  ASSUME IInv, PipeInv, SubmitPulse
  PROVE  PipeInv'
<1>1. UNCHANGED <<host, rx, cdc, main, answers, uart>> /\ CommandIs("pulse_control")
  BY DEF SubmitPulse, CmdElsewhere
<1>2. Submitted /\ Executable(What)
  BY <1>1, SubmittedCommand
<1>3. (ForId("pulse", None) /\ rt' = rt) \/ ControlAnswer(FALSE)
  BY DEF SubmitPulse, ControlPulseStart
<1>4. CASE ControlAnswer(FALSE)
  <2>1. Answer("hardware_fault")
    BY <1>4, Zenon DEF ControlAnswer
  <2> QED
    BY <1>1, <2>1, AnswerPipe DEF Results
<1>5. CASE ForId("pulse", None) /\ rt' = rt
  BY <1>1, <1>2, <1>5, TakenPipe DEF PipeInv, StoreOK
<1> QED
  BY <1>3, <1>4, <1>5, Zenon

\* A transmission is awaited, or refused when it was not started.
LEMMA SubmitUartPipe ==
  ASSUME IInv, PipeInv, SubmitUart
  PROVE  PipeInv'
<1>1. UNCHANGED <<host, rx, cdc, main, answers>> /\ CommandIs("uart_send")
  BY DEF SubmitUart, CmdElsewhere
<1>2. Submitted /\ Executable(What) /\ What.data \in {1, 2}
  BY <1>1, SubmittedCommand
<1>3. CASE UartTxStart(What.data, TRUE) /\ ForId("uart", None) /\ rt' = rt
  <2>1. uart' = [UartTxPending(What.data) EXCEPT !.kick = TRUE]
    BY <1>3, Zenon DEF UartTxStart
  <2>2. uart'.state = "pending" /\ uart'.length = What.data /\ uart'.queued = 0
    BY <2>1 DEF IInv, ShapesOK, UartTxPending
  <2> QED
    BY <1>1, <1>2, <1>3, <2>2, TakenPipe
<1>4. CASE UartTxStart(What.data, FALSE) /\ Answer("hardware_fault")
  <2>1. uart' = uart
    BY <1>4 DEF UartTxStart
  <2> QED
    BY <1>1, <1>4, <2>1, AnswerPipe DEF Results
<1> QED
  BY <1>3, <1>4 DEF SubmitUart

\* The command thread stops when its epoch has ended; nothing counts any more.
LEMMA CmdStopsPipe ==
  ASSUME IInv, PipeInv, CmdStops
  PROVE  PipeInv'
<1>1. /\ UNCHANGED <<host, rx, cdc, main, answers>> /\ queue' = << >>
      /\ cmd.pc = "run" /\ ~EpochMatches(cmd.epoch)
  BY DEF CmdStops, CmdElsewhere
<1>2. PICK f \in Outcomes : \E fs \in {[c \in Channels |-> f]} :
           /\ CancelEpoch(fs)
           /\ Spend(f)
           /\ rt' = [rt EXCEPT !.outstanding = FALSE, !.ready = FALSE,
                               !.consumed = FALSE, !.cmdStopped = TRUE,
                               !.endOk = ControlEndOk(fs)]
  BY Zenon DEF CmdStops
<1>3. PICK fs :
           /\ CancelEpoch(fs)
           /\ rt' = [rt EXCEPT !.outstanding = FALSE, !.ready = FALSE,
                               !.consumed = FALSE, !.cmdStopped = TRUE,
                               !.endOk = ControlEndOk(fs)]
  BY <1>2, Zenon
<1>4. UNCHANGED <<rt.active, rt.number, rt.fault, rt.input>>
  BY <1>3 DEF IInv, ShapesOK, RuntimeFields
<1>5. /\ cmd'.state = "idle" /\ cmd'.result = None
      /\ uart'.state = "idle" /\ uart'.length = 0 /\ uart'.queued = 0
  BY <1>3 DEF IInv, ShapesOK, CancelEpoch, UartTxIdle
<1>6. ~rt.active
  BY <1>1 DEF PipeInv, TurnOK, ExecutorTurn, EpochMatches
<1> QED
  BY <1>1, <1>4, <1>5, <1>6, CommandPipe

-----------------------------------------------------------------------------
\* The bytes of a line that is sent.
LEMMA LineBytes ==
  ASSUME NEW n \in Nat, NEW b, b.len \in Nat
  PROVE  /\ Line(n, b) \in Seq(Nat \X {"b", "nl"}) /\ Len(Line(n, b)) = b.len + 1
         /\ \A k \in 1 .. b.len + 1 :
              Line(n, b)[k] = IF k <= b.len THEN <<n, "b">> ELSE <<n, "nl">>
<1> DEFINE run == [k \in 1 .. b.len |-> <<n, "b">>]
           last == << <<n, "nl">> >>
<1>1. <<n, "b">> \in Nat \X {"b", "nl"} /\ <<n, "nl">> \in Nat \X {"b", "nl"}
  OBVIOUS
<1>2. /\ run \in Seq(Nat \X {"b", "nl"}) /\ Len(run) = b.len
      /\ \A k \in 1 .. b.len : run[k] = <<n, "b">>
  BY <1>1, Repeated
<1>3. last \in Seq(Nat \X {"b", "nl"}) /\ Len(last) = 1 /\ last[1] = <<n, "nl">>
  BY <1>1
<1> HIDE DEF run, last
<1>4. /\ run \o last \in Seq(Nat \X {"b", "nl"}) /\ Len(run \o last) = b.len + 1
      /\ \A k \in 1 .. b.len + 1 :
           (run \o last)[k] = IF k <= b.len THEN run[k] ELSE last[k - b.len]
  <2>1. /\ run \o last \in Seq(Nat \X {"b", "nl"}) /\ Len(run \o last) = Len(run) + Len(last)
        /\ \A k \in 1 .. Len(run) + Len(last) :
             (run \o last)[k] = IF k <= Len(run) THEN run[k] ELSE last[k - Len(run)]
    BY <1>2, <1>3, ConcatProperties, Zenon
  <2>2. Len(run) = b.len /\ Len(last) = 1
    BY <1>2, <1>3
  <2> QED
    BY <2>1, <2>2, Zenon
<1>5. ASSUME NEW k \in 1 .. b.len + 1
      PROVE  (run \o last)[k] = IF k <= b.len THEN <<n, "b">> ELSE <<n, "nl">>
  <2>1. CASE k <= b.len
    <3>1. k \in 1 .. b.len
      BY <2>1
    <3> QED
      BY <1>2, <1>4, <2>1, <3>1
  <2>2. CASE ~(k <= b.len)
    <3>1. k - b.len = 1
      BY <2>2
    <3> QED
      BY <1>3, <1>4, <2>2, <3>1
  <2> QED
    BY <2>1, <2>2
<1>6. Line(n, b) = run \o last
  BY Zenon DEF Line, run, last
<1> QED
  BY <1>4, <1>5, <1>6

\* A line that is sent goes behind what is under way.
LEMMA PositionSent ==
  ASSUME NEW L, NEW M, Len(L) \in Nat, Len(M) = Len(L) + 1,
         \A k \in 1 .. Len(L) : Size(M, k) = Size(L, k) /\ Size(L, k) \in Nat,
         NEW len \in Nat, Size(M, Len(L) + 1) = len + 1,
         NEW i \in {Len(L), Len(L) + 1}, i # 0,
         NEW f, NEW rest, NEW m, Position(L, f, rest, i, m),
         NEW after, Len(after) = Len(rest) + len + 1,
         \A k \in 1 .. Len(rest) : after[k] = rest[k],
         \A k \in 1 .. len + 1 : after[Len(rest) + k] =
           IF k <= len THEN <<Len(L) + 1, "b">> ELSE <<Len(L) + 1, "nl">>
  PROVE  Position(M, f, after, i, m)
<1>1. PICK N \in Nat : N = Len(L)
  OBVIOUS
<1>2. Size(L, N + 1) = 0 /\ Size(L, (N + 1) + 1) = 0 /\ Size(M, (N + 1) + 1) = 0
  BY <1>1 DEF Size
<1>3. /\ m \in Nat /\ (m = 0 \/ m < Size(L, i)) /\ Framed(f, i, m)
      /\ Len(rest) = RestSize(L, i, m)
      /\ \A k \in 1 .. Len(rest) : rest[k] = RestAt(L, i, m, k)
  BY DEF Position, Continues
<1>4. CASE i = N
  <2>1. PICK p \in Nat : p = Size(L, N) /\ p = Size(M, N) /\ Size(M, N + 1) = len + 1
    <3>1. N \in 1 .. Len(L)
      BY <1>1, <1>4
    <3> QED
      BY <1>1, <3>1
  <2>2. RestSize(L, i, m) = p - m + 0 /\ RestSize(M, i, m) = p - m + (len + 1)
    BY <1>2, <1>4, <2>1, Zenon DEF RestSize
  <2>3. Len(rest) = p - m /\ p - m >= 0 /\ Len(after) = RestSize(M, i, m)
    <3>1. Len(rest) = p - m + 0
      BY <1>3, <2>2
    <3>2. m \in Nat /\ (m = 0 \/ m < p)
      BY <1>1, <1>3, <1>4, <2>1
    <3>3. Len(after) = Len(rest) + len + 1
      OBVIOUS
    <3> QED
      BY <2>2, <3>1, <3>2, <3>3
  <2>4. \A k : RestAt(L, i, m, k) = IF k < p - m THEN <<N, "b">>
               ELSE IF k = p - m THEN <<N, "nl">>
               ELSE IF k < p - m + 0 THEN <<N + 1, "b">> ELSE <<N + 1, "nl">>
    BY <1>4, <2>1, <2>2, Zenon DEF RestAt
  <2>5. \A k : RestAt(M, i, m, k) = IF k < p - m THEN <<N, "b">>
               ELSE IF k = p - m THEN <<N, "nl">>
               ELSE IF k < p - m + (len + 1) THEN <<N + 1, "b">> ELSE <<N + 1, "nl">>
    BY <1>4, <2>1, <2>2, Zenon DEF RestAt
  <2>6. ASSUME NEW k \in 1 .. Len(after) PROVE after[k] = RestAt(M, i, m, k)
    <3>1. CASE k <= p - m
      <4>1. k \in 1 .. Len(rest) /\ (k < p - m \/ k = p - m)
        BY <1>3, <2>3, <3>1
      <4>2. after[k] = RestAt(L, i, m, k)
        BY <1>3, <4>1
      <4> QED
        BY <2>4, <2>5, <4>1, <4>2
    <3>2. CASE ~(k <= p - m)
      <4> DEFINE j == k - (p - m)
      <4>1. j \in 1 .. len + 1 /\ Len(rest) + j = k
        BY <1>3, <2>2, <2>3, <3>2
      <4>2. after[k] = IF j <= len THEN <<N + 1, "b">> ELSE <<N + 1, "nl">>
        BY <1>1, <4>1
      <4>3. ~(k < p - m) /\ k # p - m /\ (j <= len <=> k < p - m + (len + 1))
        BY <1>3, <2>2, <2>3, <3>2
      <4> QED
        BY <2>5, <4>2, <4>3
    <3> QED
      BY <3>1, <3>2
  <2> QED
    BY <1>3, <1>4, <2>1, <2>3, <2>6 DEF Position, Continues
<1>5. CASE i = N + 1
  <2>1. m = 0 /\ Size(M, i) = len + 1
    BY <1>1, <1>2, <1>3, <1>5
  <2>7. Size(L, i) = 0 /\ Size(L, i + 1) = 0 /\ Size(M, i + 1) = 0
    BY <1>2, <1>5
  <2>2. RestSize(L, i, m) = 0 - 0 + 0 /\ RestSize(M, i, m) = (len + 1) - 0 + 0
    BY <2>1, <2>7, Zenon DEF RestSize
  <2>3. Len(rest) = 0 /\ Len(after) = RestSize(M, i, m) /\ Len(after) = len + 1
    BY <1>3, <2>2
  <2>4. \A k : RestAt(M, i, m, k) = IF k < (len + 1) - 0 THEN <<i, "b">>
               ELSE IF k = (len + 1) - 0 THEN <<i, "nl">>
               ELSE IF k < (len + 1) - 0 + 0 THEN <<i + 1, "b">> ELSE <<i + 1, "nl">>
    <3>1. /\ Size(M, i) = len + 1 /\ RestSize(M, i, 0) = (len + 1) - 0 + 0
          /\ \A k : RestAt(M, i, m, k) = RestAt(M, i, 0, k)
      BY <2>1, <2>2, Zenon
    <3> QED
      BY <3>1, Zenon DEF RestAt
  <2>5. ASSUME NEW k \in 1 .. Len(after) PROVE after[k] = RestAt(M, i, m, k)
    <3>1. k \in 1 .. len + 1 /\ Len(rest) + k = k
      BY <2>3
    <3>2. after[k] = IF k <= len THEN <<i, "b">> ELSE <<i, "nl">>
      BY <1>1, <1>5, <3>1
    <3>3. (k <= len <=> k < (len + 1) - 0) /\ (k < (len + 1) - 0 \/ k = (len + 1) - 0)
      BY <3>1
    <3> QED
      BY <2>4, <3>2, <3>3
  <2> QED
    BY <1>3, <2>1, <2>3, <2>5 DEF Position, Continues
<1> QED
  BY <1>1, <1>4, <1>5

\* The answers are those of lines the host has sent.
LEMMA AnsweredLines ==
  ASSUME PipeInv, NEW k \in DOMAIN answers
  PROVE  answers[k].id \in 1 .. Len(host.lines) /\ k \in 1 .. Len(answers)
<1>1. answers \in Seq([id : Nat, result : Results \union {None}])
  BY DEF PipeInv, StoreOK
<1>2. k \in 1 .. Len(answers) /\ Len(answers) \in Nat
  BY <1>1
<1>3. answers[k].id = host.first + k - 1
  BY DEF PipeInv, AnswersInOrder
<1>4. /\ host.first \in Nat \ {0} /\ Len(host.lines) <= 2
      /\ host.first + Len(answers) <= Len(host.lines) + 1
  BY DEF PipeInv, ConnectionOK
<1> QED
  BY <1>2, <1>3, <1>4

\* The host sends the next line of the connection.
LEMMA HostSendPipe ==
  ASSUME IInv, PipeInv, HostSend
  PROVE  PipeInv'
<1> DEFINE i == Len(host.lines) + 1
           b == host.script[i]
           Bits == Nat \X {"b", "nl"}
<1>1. /\ host.script \in Scripts /\ host.lines \in Seq(ScriptLines)
      /\ host.wire \in Seq(Tokens) /\ rt.input \in Seq(Tokens) /\ rx.chunk \in Seq(Tokens)
  BY DEF IInv, LinesOK
<1>2. i \in 1 .. 2 /\ Len(host.lines) \in Nat
  <2>1. Len(host.lines) < Len(host.script)
    BY Zenon DEF HostSend
  <2>2. Len(host.script) = 2 /\ Len(host.lines) \in Nat
    BY <1>1, ScriptFacts
  <2> QED
    BY <2>1, <2>2
<1>3. b \in ScriptLines /\ b.len \in Nat
  BY <1>1, <1>2, ScriptFacts
<1>4. /\ host' = [host EXCEPT !.lines = Append(@, b), !.wire = @ \o Line(i, b)]
      /\ UNCHANGED <<rt, queue, rx, cmd, uart, cdc, main, answers>>
      /\ host.greeted
  BY Zenon DEF HostSend
<1> HIDE DEF b
<1>5. /\ UNCHANGED <<host.first, host.greeted, host.dtr>>
      /\ host'.lines = Append(host.lines, b) /\ host'.wire = host.wire \o Line(i, b)
  BY <1>4 DEF IInv, ShapesOK
<1>6. /\ Len(host'.lines) = Len(host.lines) + 1 /\ host'.lines[Len(host.lines) + 1] = b
      /\ \A k \in 1 .. Len(host.lines) : host'.lines[k] = host.lines[k]
  BY <1>1, <1>3, <1>5
<1>7. main.pc # "hello"
  BY <1>4 DEF PipeInv, ConnectionOK
<1>8. ConnectionOK'
  <2>1. Len(host'.lines) <= 2 /\ host.first + Len(answers) <= Len(host'.lines) + 1
    <3>1. /\ host.first \in Nat /\ Len(answers) \in Nat
          /\ host.first + Len(answers) <= Len(host.lines) + 1
      BY DEF PipeInv, ConnectionOK, StoreOK
    <3> QED
      BY <1>2, <1>6, <3>1
  <2> QED
    BY <1>4, <1>5, <1>7, <2>1 DEF PipeInv, ConnectionOK, Writing
<1>9. StoreOK'
  BY <1>4 DEF PipeInv, StoreOK
<1>10. ExactOK'
  <2>1. \A r : Exact(host.lines, r) => Exact(host'.lines, r)
    BY <1>2, <1>6 DEF Exact
  <2>2. cmd.state # "idle" => host'.lines[cmd.id] = host.lines[cmd.id]
    BY <1>6 DEF IInv, BusyOK
  <2> QED
    BY <1>4, <2>1, <2>2 DEF PipeInv, ExactOK, Reading
<1>11. TurnOK'
  BY <1>4, <1>5 DEF PipeInv, TurnOK, ExecutorTurn, RequestTurn, Reading, NextPut,
                    NextTaken, Awaited
<1>12. AnswersInOrder'
  <2>1. ASSUME NEW k \in DOMAIN answers
        PROVE  host'.lines[answers[k].id] = host.lines[answers[k].id]
    BY <1>6, AnsweredLines
  <2>2. answers' = answers /\ host'.first = host.first
    BY <1>4, <1>5
  <2>3. ASSUME NEW k \in DOMAIN answers
        PROVE  LET line == host'.lines[answers[k].id] IN
               /\ answers[k].id = host.first + k - 1
               /\ line.len > MaxPending => answers[k].result = "invalid_argument"
               /\ line.parse # "ok" => answers[k].result = "invalid_command"
    BY <2>1 DEF PipeInv, AnswersInOrder
  <2> QED
    BY <2>2, <2>3 DEF AnswersInOrder
<1>13. Rest \in Seq(Bits) /\ Rest' = Rest \o Line(i, b)
  <2>1. Tokens \subseteq Bits
    BY <1>2 DEF Tokens
  <2>2. /\ host.wire \in Seq(Bits) /\ rt.input \in Seq(Bits) /\ rx.chunk \in Seq(Bits)
        /\ Line(i, b) \in Seq(Bits)
    <3>1. Line(i, b) \in Seq(Bits)
      <4>1. i \in Nat
        BY <1>2
      <4> HIDE DEF i
      <4> QED
        BY <1>3, <4>1, LineBytes
    <3> QED
      BY <1>1, <2>1, <3>1
  <2>3. rx.chunk \o rt.input \in Seq(Bits)
    BY <2>2
  <2>4. Regroups(rx.chunk \o rt.input, host.wire, Line(i, b))
    BY <2>2, <2>3, Regrouped
  <2>5. Rest \in Seq(Bits)
    BY <2>2, <2>3 DEF Rest
  <2>6. Rest' = (rx.chunk \o rt.input) \o (host.wire \o Line(i, b))
    BY <1>4, <1>5, Zenon DEF Rest
  <2> QED
    BY <2>4, <2>5, <2>6, Zenon DEF Regroups, Rest
<1>14. ASSUME rt.active, ~rt.fault
       PROVE  /\ NextFramed \in Len(host'.lines) - 1 .. Len(host'.lines) + 1
              /\ \E m : Position(host'.lines, rx.framer, Rest', NextFramed, m)
  <2>1. NextFramed \in {Len(host.lines), Len(host.lines) + 1} /\ NextFramed # 0
    <3>1. NextFramed \in Len(host.lines) - 1 .. Len(host.lines) + 1
      BY <1>14 DEF PipeInv, BytesOK
    <3>2. NextFramed >= 1
      BY DEF PipeInv, ConnectionOK, StoreOK, NextFramed, NextPut, NextTaken
    <3> QED
      BY <1>2, <3>1, <3>2
  <2>2. PICK m : Position(host.lines, rx.framer, Rest, NextFramed, m)
    BY <1>14 DEF PipeInv, BytesOK
  <2>3. /\ Size(host'.lines, Len(host.lines) + 1) = b.len + 1
        /\ \A k \in 1 .. Len(host.lines) : /\ Size(host'.lines, k) = Size(host.lines, k)
                                           /\ Size(host.lines, k) \in Nat
    <3>1. \A k \in 1 .. Len(host.lines) : Size(host.lines, k) \in Nat
      BY <1>2, Sizes DEF IInv
    <3> QED
      BY <1>2, <1>6, <3>1 DEF Size
  <2>4. /\ Len(Rest') = Len(Rest) + b.len + 1
        /\ \A k \in 1 .. Len(Rest) : (Rest')[k] = Rest[k]
        /\ \A k \in 1 .. b.len + 1 : (Rest')[Len(Rest) + k] =
             IF k <= b.len THEN <<Len(host.lines) + 1, "b">> ELSE <<Len(host.lines) + 1, "nl">>
    <3> DEFINE s == Line(i, b)
    <3>1. /\ s \in Seq(Bits) /\ Len(s) = b.len + 1
          /\ \A k \in 1 .. b.len + 1 : s[k] = IF k <= b.len THEN <<i, "b">> ELSE <<i, "nl">>
      BY <1>2, <1>3, LineBytes
    <3> HIDE DEF s
    <3>2. PICK r, t : r = Rest /\ t = Rest'
      OBVIOUS
    <3>3. t = r \o s /\ r \in Seq(Bits)
      BY <1>13, <3>2 DEF s
    <3>4. /\ Len(t) = Len(r) + Len(s)
          /\ \A k \in 1 .. Len(r) + Len(s) : t[k] = IF k <= Len(r) THEN r[k] ELSE s[k - Len(r)]
      BY <3>1, <3>3, ConcatProperties
    <3>5. Len(r) \in Nat /\ b.len \in Nat
      BY <1>3, <3>3
    <3>6. ASSUME NEW k \in 1 .. Len(r) PROVE t[k] = r[k]
      <4>1. k \in 1 .. Len(r) + Len(s) /\ k <= Len(r)
        BY <3>1, <3>5
      <4> QED
        BY <3>4, <4>1
    <3>7. ASSUME NEW k \in 1 .. b.len + 1 PROVE t[Len(r) + k] = s[k]
      <4>1. /\ Len(r) + k \in 1 .. Len(r) + Len(s) /\ ~(Len(r) + k <= Len(r))
            /\ Len(r) + k - Len(r) = k
        BY <3>1, <3>5
      <4> QED
        BY <3>4, <4>1
    <3>8. Len(t) = Len(r) + b.len + 1
      BY <3>1, <3>4, <3>5
    <3>9. \A k \in 1 .. b.len + 1 : t[Len(r) + k] =
            IF k <= b.len THEN <<i, "b">> ELSE <<i, "nl">>
      BY <3>1, <3>7
    <3> QED
      BY <3>2, <3>6, <3>8, <3>9, Zenon
  <2>5. Position(host'.lines, rx.framer, Rest', NextFramed, m)
    <3>1. PICK L, M, n, f, r, t :
            /\ L = host.lines /\ M = host'.lines /\ n = NextFramed /\ f = rx.framer
            /\ r = Rest /\ t = Rest'
      OBVIOUS
    <3>2. /\ Len(L) \in Nat /\ Len(M) = Len(L) + 1
          /\ \A k \in 1 .. Len(L) : Size(M, k) = Size(L, k) /\ Size(L, k) \in Nat
          /\ b.len \in Nat /\ Size(M, Len(L) + 1) = b.len + 1
          /\ n \in {Len(L), Len(L) + 1} /\ n # 0 /\ Position(L, f, r, n, m)
      BY <1>2, <1>3, <1>6, <2>1, <2>2, <2>3, <3>1, Zenon
    <3>3. /\ Len(t) = Len(r) + b.len + 1
          /\ \A k \in 1 .. Len(r) : t[k] = r[k]
          /\ \A k \in 1 .. b.len + 1 : t[Len(r) + k] =
               IF k <= b.len THEN <<Len(L) + 1, "b">> ELSE <<Len(L) + 1, "nl">>
      BY <2>4, <3>1, Zenon
    <3>4. Position(M, f, t, n, m)
      BY <3>2, <3>3, PositionSent
    <3> QED
      BY <3>1, <3>4, Zenon
  <2> QED
    BY <1>2, <1>6, <2>1, <2>5
<1>15. BytesOK'
  <2>1. NextFramed' = NextFramed
    BY <1>4, <1>5 DEF NextFramed, NextPut, NextTaken, Awaited, Reading
  <2> QED
    BY <1>4, <1>14, <2>1 DEF BytesOK
<1> QED
  BY <1>8, <1>9, <1>10, <1>11, <1>12, <1>15 DEF PipeInv

-----------------------------------------------------------------------------
(***************************************************************************)
(* The USB thread and the answers.                                         *)
(***************************************************************************)
\* A step that leaves no epoch active has no turn to keep.
LEMMA EndedPipe ==
  ASSUME PipeInv, UNCHANGED <<queue, rx, cmd, uart, host.lines>>, ~rt'.active,
         ConnectionOK', AnswersInOrder', Len(rt'.input) <= RxCapacity,
         answers' \in Seq([id : Nat, result : Results \union {None}]),
         cdc'.state \in {"idle", "pending", "completed", "fault"},
         cdc'.left \in 0 .. FrameUnits, cdc'.state = "pending" => cdc'.left # 0
  PROVE  PipeInv'
<1>1. StoreOK'
  BY DEF PipeInv, StoreOK
<1>2. ExactOK'
  BY DEF PipeInv, ExactOK, Reading
<1>3. TurnOK' /\ BytesOK'
  BY DEF TurnOK, BytesOK
<1> QED
  BY <1>1, <1>2, <1>3 DEF PipeInv

\* A step of the epoch's loop that only writes.
LEMMA WritingPipe ==
  ASSUME PipeInv, UNCHANGED <<host, queue, rx, cmd, uart>>,
         UNCHANGED <<rt.active, rt.number, rt.fault, rt.input>>,
         main.pc \in {"loop", "drain", "response", "evidence"},
         main'.pc \in {"loop", "drain", "response", "evidence"},
         cdc'.state \in {"idle", "pending", "completed", "fault"},
         cdc'.left \in 0 .. FrameUnits, cdc'.state = "pending" => cdc'.left # 0,
         AnswersInOrder', answers' \in Seq([id : Nat, result : Results \union {None}]),
         host.first + Len(answers') <= Len(host.lines) + 1,
         ExecutorTurn', NextTaken' = NextTaken
  PROVE  PipeInv'
<1>1. ConnectionOK'
  BY DEF PipeInv, ConnectionOK, Writing
<1>2. StoreOK'
  BY DEF PipeInv, StoreOK
<1>3. ExactOK'
  BY DEF PipeInv, ExactOK, Reading
<1>4. TurnOK'
  BY DEF PipeInv, TurnOK, RequestTurn, NextPut, Reading
<1>5. NextFramed' = NextFramed /\ Rest' = Rest
  BY DEF NextFramed, NextPut, Reading, Rest
<1>6. BytesOK'
  BY <1>5 DEF PipeInv, BytesOK
<1> QED
  BY <1>1, <1>2, <1>3, <1>4, <1>6 DEF PipeInv

\* What is known while the epoch's loop runs.
LEMMA WritingFacts ==
  ASSUME PipeInv, main.pc \in {"loop", "drain", "response", "evidence"}
  PROVE  /\ rt.active /\ ExecutorTurn
         /\ answers \in Seq([id : Nat, result : Results \union {None}])
         /\ host.first + Len(answers) <= Len(host.lines) + 1
BY DEF PipeInv, ConnectionOK, StoreOK, TurnOK, Writing

LEMMA MainDrainsPipe ==
  ASSUME IInv, PipeInv, MainDrains
  PROVE  PipeInv'
<1>1. /\ UNCHANGED <<host, rt, queue, rx, cmd, uart, cdc, answers>>
      /\ main.pc = "loop" /\ main'.pc = "drain"
  BY DEF IInv, ShapesOK, MainDrains, MainElsewhere
<1>2. ExecutorTurn' /\ NextTaken' = NextTaken
  BY <1>1, WritingFacts DEF ExecutorTurn, NextTaken, Awaited
<1>3. AnswersInOrder'
  BY <1>1 DEF PipeInv, AnswersInOrder
<1> QED
  BY <1>1, <1>2, <1>3, WritingPipe, WritingFacts DEF PipeInv, StoreOK

\* The response that is written is the executor's.
LEMMA TakeResponsePipe ==
  ASSUME IInv, PipeInv, TakeResponse
  PROVE  PipeInv'
<1>1. /\ UNCHANGED <<host, queue, rx, cmd, uart, answers>>
      /\ UNCHANGED <<rt.active, rt.number, rt.fault, rt.input, rt.consumed>>
      /\ rt.ready /\ ~rt'.ready
      /\ main.pc = "drain" /\ main'.pc = "response"
      /\ cdc' = CdcTxStart([id |-> cmd.id, result |-> cmd.result])
  BY DEF IInv, ShapesOK, RuntimeFields, TakeResponse, MainElsewhere
<1>2. /\ cdc'.state = "pending" /\ cdc'.left = FrameUnits /\ FrameUnits = 2
      /\ cdc'.frame = [id |-> cmd.id, result |-> cmd.result]
  BY <1>1 DEF CdcTxStart, FrameUnits
<1>3. ExecutorTurn' /\ NextTaken' = NextTaken
  BY <1>1, <1>2, WritingFacts DEF ExecutorTurn, NextTaken, Awaited
<1>4. AnswersInOrder'
  BY <1>1 DEF PipeInv, AnswersInOrder
<1> QED
  BY <1>1, <1>2, <1>3, <1>4, WritingPipe, WritingFacts

LEMMA DrainEvidencePipe ==
  ASSUME IInv, PipeInv, DrainEvidence
  PROVE  PipeInv'
<1>1. /\ UNCHANGED <<host, rt, queue, rx, cmd, uart, answers>>
      /\ main.pc = "drain" /\ main'.pc \in {"evidence", "loop"}
      /\ cdc' = cdc \/ cdc' = CdcTxStart("evidence")
  BY DEF IInv, ShapesOK, DrainEvidence, MainElsewhere
<1>2. /\ cdc'.state \in {"idle", "pending", "completed", "fault"}
      /\ cdc'.left \in 0 .. FrameUnits /\ (cdc'.state = "pending" => cdc'.left # 0)
  BY <1>1 DEF CdcTxStart, FrameUnits, PipeInv, StoreOK
<1>3. ExecutorTurn' /\ NextTaken' = NextTaken
  BY <1>1, WritingFacts DEF ExecutorTurn, NextTaken, Awaited
<1>4. AnswersInOrder'
  BY <1>1 DEF PipeInv, AnswersInOrder
<1> QED
  BY <1>1, <1>2, <1>3, <1>4, WritingPipe, WritingFacts

\* A response that is completely written answers the first line without one.
LEMMA FrameWrittenPipe ==
  ASSUME IInv, PipeInv, FrameWritten
  PROVE  PipeInv'
<1>1. /\ UNCHANGED <<host, queue, rx, cmd, uart>>
      /\ main.pc \in {"response", "evidence"} /\ main'.pc \in {"drain", "loop"}
      /\ cdc' = CdcTxIdle
  BY DEF IInv, ShapesOK, FrameWritten, Written, MainElsewhere
<1>2. /\ cdc'.state = "idle" /\ cdc'.left = 0 /\ FrameUnits = 2
  BY <1>1 DEF CdcTxIdle, FrameUnits
<1>3. CASE main.pc = "evidence"
  <2>1. UNCHANGED <<rt, answers>>
    BY <1>3 DEF FrameWritten
  <2>2. ExecutorTurn' /\ NextTaken' = NextTaken
    BY <1>1, <2>1, WritingFacts DEF ExecutorTurn, NextTaken, Awaited
  <2>3. AnswersInOrder'
    BY <1>1, <2>1 DEF PipeInv, AnswersInOrder
  <2> QED
    BY <1>1, <1>2, <2>1, <2>2, <2>3, WritingPipe, WritingFacts
<1>4. CASE main.pc = "response"
  <2>1. /\ UNCHANGED <<rt.active, rt.number, rt.fault, rt.input, rt.ready>>
        /\ rt'.consumed = rt.outstanding /\ answers' = Append(answers, cdc.frame)
    BY <1>4 DEF FrameWritten, ResponseSent, IInv, ShapesOK, RuntimeFields
  <2>2. /\ cmd.state = "response" /\ ~rt.ready /\ ~rt.consumed /\ rt.outstanding
        /\ cdc.frame = [id |-> cmd.id, result |-> cmd.result]
        /\ cmd.id = host.first + Len(answers)
    BY <1>4, WritingFacts DEF ExecutorTurn, Awaited, IInv, BusyOK
  <2>3. /\ cmd.id \in 1 .. Len(host.lines) /\ Len(host.lines) \in Nat
        /\ cmd.result \in Results \union {None}
        /\ Verdict(host.lines[cmd.id], cmd.result)
    BY <2>2, Sizes DEF IInv, BusyOK, PipeInv, StoreOK, ExactOK
  <2>4. /\ answers \in Seq([id : Nat, result : Results \union {None}])
        /\ cdc.frame \in [id : Nat, result : Results \union {None}]
        /\ host.first \in Nat
    BY <2>2, <2>3 DEF PipeInv, StoreOK, ConnectionOK
  <2>5. /\ answers' \in Seq([id : Nat, result : Results \union {None}])
        /\ Len(answers') = Len(answers) + 1 /\ answers'[Len(answers) + 1] = cdc.frame
        /\ \A k \in 1 .. Len(answers) : answers'[k] = answers[k]
        /\ DOMAIN answers = 1 .. Len(answers) /\ DOMAIN answers' = 1 .. Len(answers) + 1
        /\ Len(answers) \in Nat
    BY <2>1, <2>4
  <2>6. host.first + Len(answers') <= Len(host.lines) + 1
    BY <2>2, <2>3, <2>4, <2>5
  <2>7. Awaited /\ ~Awaited' /\ rt'.consumed
    BY <1>1, <2>1, <2>2 DEF Awaited
  <2>8. NextTaken' = NextTaken
    <3>1. NextTaken = host.first + Len(answers) + 1
      BY <2>7 DEF NextTaken
    <3>2. NextTaken' = host.first + Len(answers') + 0
      BY <1>1, <2>7 DEF NextTaken
    <3> QED
      BY <2>4, <2>5, <3>1, <3>2
  <2>9. ExecutorTurn'
    BY <1>1, <1>4, <2>1, <2>2, <2>7, WritingFacts DEF ExecutorTurn
  <2>10. ASSUME NEW k \in DOMAIN answers'
         PROVE  LET line == host.lines[answers'[k].id] IN
                /\ answers'[k].id = host.first + k - 1
                /\ line.len > MaxPending => answers'[k].result = "invalid_argument"
                /\ line.parse # "ok" => answers'[k].result = "invalid_command"
    <3>1. CASE k \in 1 .. Len(answers)
      BY <2>5, <3>1 DEF PipeInv, AnswersInOrder
    <3>2. CASE k = Len(answers) + 1
      <4>1. answers'[k].id = cmd.id /\ answers'[k].result = cmd.result
        BY <2>2, <2>5, <3>2
      <4>2. cmd.id = host.first + k - 1
        BY <2>2, <2>4, <2>5, <3>2
      <4> QED
        BY <2>3, <4>1, <4>2 DEF Verdict
    <3> QED
      BY <2>5, <3>1, <3>2
  <2>11. AnswersInOrder'
    BY <1>1, <2>10 DEF AnswersInOrder
  <2> QED
    BY <1>1, <1>2, <2>1, <2>5, <2>6, <2>8, <2>9, <2>11, WritingPipe
<1> QED
  BY <1>1, <1>3, <1>4

\* A connection begins with nothing from before it under way.
LEMMA MainOpensPipe ==
  ASSUME IInv, PipeInv, MainOpens
  PROVE  PipeInv'
<1>1. /\ UNCHANGED <<queue, rx, cmd, uart>>
      /\ UNCHANGED <<host.lines, host.first, host.greeted, host.dtr, rt.active>>
      /\ host'.wire = << >> /\ rt'.input = << >> /\ answers' = << >>
      /\ main.pc = "off"
  BY DEF IInv, ShapesOK, RuntimeFields, MainOpens, MainElsewhere, DiscardInput
<1>2. /\ main'.pc \in {"hello", "dead"}
      /\ cdc' = cdc \/ cdc' = CdcTxStart("hello")
  BY DEF IInv, ShapesOK, MainOpens, Dead
<1>3. ~rt.active /\ ~host.greeted
  BY <1>1 DEF PipeInv, ConnectionOK, Writing
<1>4. /\ Len(answers') = 0 /\ DOMAIN answers' = {} /\ Len(rt'.input) <= RxCapacity
      /\ answers' \in Seq([id : Nat, result : Results \union {None}])
  BY <1>1, CommandSizes
<1>5. host.first \in Nat \ {0} /\ host.first + Len(answers') <= Len(host.lines) + 1
  <2>1. /\ host.first \in Nat \ {0} /\ Len(answers) \in Nat
        /\ host.first + Len(answers) <= Len(host.lines) + 1
    BY DEF PipeInv, ConnectionOK, StoreOK
  <2>2. Len(host.lines) \in Nat
    BY Sizes DEF IInv
  <2> QED
    BY <1>4, <2>1, <2>2
<1>6. ConnectionOK'
  BY <1>1, <1>2, <1>3, <1>5 DEF PipeInv, ConnectionOK, Writing
<1>7. AnswersInOrder'
  BY <1>4 DEF AnswersInOrder
<1>8. /\ cdc'.state \in {"idle", "pending", "completed", "fault"}
      /\ cdc'.left \in 0 .. FrameUnits /\ (cdc'.state = "pending" => cdc'.left # 0)
  BY <1>2 DEF CdcTxStart, FrameUnits, PipeInv, StoreOK
<1> QED
  BY <1>1, <1>3, <1>4, <1>6, <1>7, <1>8, EndedPipe

\* The lines of a connection are those after the hello.
LEMMA HelloWrittenPipe ==
  ASSUME IInv, PipeInv, HelloWritten
  PROVE  PipeInv'
<1>1. /\ UNCHANGED <<rx, cmd, uart, answers>> /\ main.pc = "hello" /\ host.dtr
      /\ cdc' = CdcTxIdle
  BY DEF HelloWritten, Written
<1>2. cdc'.state = "idle" /\ cdc'.left = 0 /\ FrameUnits = 2
  BY <1>1 DEF CdcTxIdle, FrameUnits
<1>3. /\ RxQuiet /\ CmdQuiet /\ cmd.state = "idle"
      /\ rx.chunk = << >> /\ rx.framer = Framer /\ ~rt.active
      /\ host.wire = << >> /\ answers = << >>
  BY <1>1 DEF IInv, ThreadsOK, WaitOK, CmdQuiet, RxQuiet, PipeInv, ConnectionOK, Writing
<1>4. AnswersInOrder'
  BY <1>1, <1>3 DEF AnswersInOrder
<1>5. Len(answers) = 0
  BY <1>3
<1>6. CASE /\ StartEpoch
           /\ host' = [host EXCEPT !.greeted = TRUE, !.first = Len(host.lines) + 1,
                                   !.lines = [k \in DOMAIN @ |-> Blank]]
           /\ main' = [main EXCEPT !.pc = "loop", !.drained = 0]
           /\ UNCHANGED <<pins, spent>>
  <2>1. /\ host'.dtr = host.dtr /\ host'.wire = << >>
        /\ host'.first = Len(host.lines) + 1
        /\ host'.lines = [k \in DOMAIN host.lines |-> Blank]
    BY <1>3, <1>6 DEF IInv, ShapesOK
  <2>2. Len(host'.lines) = Len(host.lines) /\ Len(host.lines) \in Nat
    <3>1. host.lines \in Seq(ScriptLines) /\ Len(host.lines) \in Nat
      BY DEF IInv, LinesOK
    <3>2. host'.lines = [k \in 1 .. Len(host.lines) |-> Blank]
      BY <2>1, <3>1
    <3> QED
      BY <3>1, <3>2, ScriptFacts, Repeated
  <2>3. /\ rt'.active /\ ~rt'.fault /\ rt'.input = << >> /\ ~rt'.ready /\ ~rt'.consumed
        /\ queue' = << >>
    BY <1>6 DEF IInv, ShapesOK, RuntimeFields, StartEpoch
  <2>4. main'.pc = "loop" /\ main'.next = main.next
    BY <1>6 DEF IInv, ShapesOK
  <2>5. ConnectionOK'
    BY <1>1, <1>3, <1>5, <2>1, <2>2, <2>3, <2>4
       DEF PipeInv, ConnectionOK, Writing
  <2>6. StoreOK'
    BY <1>1, <1>2, <2>3, CommandSizes DEF PipeInv, StoreOK
  <2>7. ~Reading' /\ ~Awaited'
    BY <1>1, <1>3 DEF Reading, Awaited, RxQuiet
  <2>8. ExactOK'
    BY <1>1, <1>3, <2>3, <2>7 DEF ExactOK
  <2>9. TurnOK'
    BY <1>1, <1>3, <2>3, <2>4, <2>7
       DEF TurnOK, ExecutorTurn, RequestTurn, RxQuiet, CmdQuiet
  <2>10. NextFramed' = Len(host.lines) + 1
    <3>1. NextTaken' = Len(host.lines) + 1 + 0 + 0
      BY <1>1, <1>5, <2>1, <2>7 DEF NextTaken
    <3>2. NextPut' = NextTaken' + 0 /\ NextFramed' = NextPut' + 0
      BY <2>3, <2>7, Zenon DEF NextPut, NextFramed
    <3> QED
      BY <2>2, <3>1, <3>2
  <2>11. Rest' = << >>
    <3>1. Rest' = (<< >> \o << >>) \o << >>
      BY <1>1, <1>3, <2>1, <2>3, Zenon DEF Rest
    <3> QED
      BY <3>1
  <2>12. Position(host'.lines, rx.framer, << >>, Len(host.lines) + 1, 0)
    <3> DEFINE i == Len(host.lines) + 1
    <3>1. Size(host'.lines, i) = 0 /\ Size(host'.lines, i + 1) = 0
      BY <2>2 DEF Size
    <3>2. RestSize(host'.lines, i, 0) = 0
      BY <3>1 DEF RestSize
    <3>3. Framed(Framer, i, 0)
      <4>1. ~(0 > MaxPending)
        BY CommandSizes
      <4>2. [k \in 1 .. 0 |-> <<i, "b">>] = << >>
        OBVIOUS
      <4> QED
        BY <4>1, <4>2 DEF Framed, Framer
    <3>4. Len(<< >>) = 0 /\ 1 .. Len(<< >>) = {}
      OBVIOUS
    <3> QED
      BY <1>3, <3>2, <3>3, <3>4 DEF Position, Continues
  <2>13. BytesOK'
    <3>1. Position(host'.lines, rx'.framer, Rest', NextFramed', 0)
      BY <1>1, <2>10, <2>11, <2>12
    <3>2. NextFramed' \in Len(host'.lines) - 1 .. Len(host'.lines) + 1
      BY <2>2, <2>10
    <3> QED
      BY <3>1, <3>2 DEF BytesOK
  <2> QED
    BY <1>4, <2>5, <2>6, <2>8, <2>9, <2>13 DEF PipeInv
<1>7. CASE Dead({}) /\ UNCHANGED <<rt, queue, host>>
  <2>1. main'.pc = "dead"
    BY <1>7 DEF Dead, IInv, ShapesOK
  <2>2. ConnectionOK'
    BY <1>1, <1>7, <2>1 DEF PipeInv, ConnectionOK, Writing
  <2> QED
    BY <1>1, <1>2, <1>3, <1>4, <1>7, <2>2, EndedPipe DEF PipeInv, StoreOK
<1> QED
  BY <1>6, <1>7 DEF HelloWritten

\* The end of an epoch: a new connection follows only when the host has left.
LEMMA EndEpochPipe ==
  ASSUME IInv, PipeInv, NEW next, EndEpoch(next), next = "off" => ~host.dtr,
         UNCHANGED <<host, queue, rx, cmd, uart, answers>>
  PROVE  PipeInv'
<1>1. /\ ~rt'.active /\ rt'.input = rt.input
      /\ main'.pc = "end_rx" /\ main'.next = next
      /\ cdc'.state = "idle" /\ cdc'.left = 0 /\ FrameUnits = 2
  BY DEF IInv, ShapesOK, RuntimeFields, EndEpoch, CdcTxIdle, FrameUnits
<1>2. ConnectionOK'
  BY <1>1 DEF PipeInv, ConnectionOK, Writing
<1>3. AnswersInOrder'
  BY DEF PipeInv, AnswersInOrder
<1> QED
  BY <1>1, <1>2, <1>3, EndedPipe DEF PipeInv, StoreOK

\* The hello was not written.
LEMMA HelloFailsPipe ==
  ASSUME IInv, PipeInv, main.pc = "hello", cdc' = CdcTxIdle,
         main'.pc \in {"off", "dead"},
         UNCHANGED <<host, rt, queue, rx, cmd, uart, answers>>
  PROVE  PipeInv'
<1>1. cdc'.state = "idle" /\ cdc'.left = 0 /\ FrameUnits = 2
  BY DEF CdcTxIdle, FrameUnits
<1>2. ConnectionOK' /\ ~rt.active
  BY DEF PipeInv, ConnectionOK, Writing
<1>3. AnswersInOrder'
  BY DEF PipeInv, AnswersInOrder
<1> QED
  BY <1>1, <1>2, <1>3, EndedPipe DEF PipeInv, StoreOK

LEMMA WriteAbortsPipe ==
  ASSUME IInv, PipeInv, WriteAborts
  PROVE  PipeInv'
<1>1. WriteFails /\ UNCHANGED <<host, queue, rx, cmd, uart, answers>>
  BY DEF WriteAborts, MainElsewhere
<1>2. CASE main.pc = "hello"
  <2>1. main'.pc = "dead" /\ cdc' = CdcTxIdle /\ rt' = rt
    BY <1>1, <1>2 DEF WriteFails, Dead, IInv, ShapesOK
  <2> QED
    BY <1>1, <1>2, <2>1, HelloFailsPipe
<1>3. CASE main.pc # "hello"
  BY <1>1, <1>3, EndEpochPipe DEF WriteFails
<1> QED
  BY <1>2, <1>3

LEMMA DisconnectedPipe ==
  ASSUME IInv, PipeInv, Disconnected
  PROVE  PipeInv'
<1>1. ~host.dtr /\ UNCHANGED <<host, queue, rx, cmd, uart, answers>>
  BY DEF Disconnected, MainElsewhere
<1>2. CASE /\ main.pc = "hello" /\ cdc' = CdcTxIdle /\ UNCHANGED rt
           /\ \E bad \in BadSets :
                /\ ForceSafe(bad)
                /\ SpendIf(bad # {})
                /\ main' = [main EXCEPT !.pc = IF bad = {} THEN "off" ELSE "dead"]
  <2>1. main'.pc \in {"off", "dead"}
    BY <1>2 DEF IInv, ShapesOK
  <2> QED
    BY <1>1, <1>2, <2>1, HelloFailsPipe
<1>3. CASE EndEpoch("off")
  BY <1>1, <1>3, EndEpochPipe
<1> QED
  BY <1>2, <1>3 DEF Disconnected

LEMMA RuntimeFaultedPipe ==
  ASSUME IInv, PipeInv, RuntimeFaulted
  PROVE  PipeInv'
<1>1. EndEpoch("dead") /\ UNCHANGED <<host, queue, rx, cmd, uart, answers>>
  BY DEF RuntimeFaulted, MainElsewhere
<1> QED
  BY <1>1, EndEpochPipe

\* The rest of the end: the threads are waited for and the pins made safe.
LEMMA WaitsPipe ==
  ASSUME IInv, PipeInv, WaitRxStopped \/ WaitCmdStopped \/ EndedIo
  PROVE  PipeInv'
<1>1. UNCHANGED <<host, queue, rx, cmd, uart, cdc, answers>>
  BY DEF WaitRxStopped, WaitCmdStopped, EndedIo, MainElsewhere
<1>2. /\ main.pc \in {"end_rx", "end_cmd", "end_io"} /\ main'.next = main.next
      /\ \/ main'.pc \in {"end_cmd", "end_io"}
         \/ main'.pc \in {"dead", main.next}
  BY DEF WaitRxStopped, WaitCmdStopped, EndedIo, IInv, ShapesOK
<1>3. rt'.active = rt.active /\ (rt'.input = rt.input \/ rt'.input = << >>)
  BY DEF WaitRxStopped, WaitCmdStopped, EndedIo, IInv, ShapesOK, RuntimeFields
<1>4. ~rt.active /\ main.next \in {"off", "dead"}
  BY <1>2 DEF PipeInv, ConnectionOK, Writing, IInv, ThreadsOK
<1>5. ConnectionOK'
  BY <1>1, <1>2, <1>3, <1>4 DEF PipeInv, ConnectionOK, Writing
<1>6. AnswersInOrder'
  BY <1>1 DEF PipeInv, AnswersInOrder
<1>7. Len(rt'.input) <= RxCapacity
  <2>1. Len(<< >>) = 0 /\ RxCapacity \in Nat
    BY CommandSizes
  <2> QED
    BY <1>3, <2>1 DEF PipeInv, StoreOK
<1> QED
  BY <1>1, <1>3, <1>4, <1>5, <1>6, <1>7, EndedPipe DEF PipeInv, StoreOK

-----------------------------------------------------------------------------
\* Nothing is under way before the first connection.
LEMMA InitPipe == Init => PipeInv
<1> SUFFICES ASSUME Init PROVE PipeInv
  OBVIOUS
<1>1. /\ ~rt.active /\ rt.input = << >> /\ queue = << >> /\ answers = << >>
      /\ ~host.greeted /\ host.lines = << >> /\ host.first = 1
      /\ main.pc = "off"
      /\ rx.pc = "wait" /\ rx.chunk = << >> /\ rx.framer = Framer
      /\ cmd.state = "idle" /\ cmd.result = None
      /\ uart.state = "idle" /\ uart.length = 0 /\ uart.queued = 0
      /\ cdc.state = "idle" /\ cdc.left = 0
  BY DEF Init, UartTxInit, CdcTxIdle
<1>2. /\ Len(<< >>) = 0 /\ << >> \in Seq(Nat \X {"b"})
      /\ << >> \in Seq([id : Nat, result : Results \union {None}])
      /\ DOMAIN << >> = {}
  OBVIOUS
<1>3. ConnectionOK
  BY <1>1, <1>2 DEF ConnectionOK, Writing
<1>4. StoreOK
  BY <1>1, <1>2, CommandSizes DEF StoreOK, Framer, FrameUnits
<1>5. ExactOK
  BY <1>1 DEF ExactOK, Reading
<1>6. TurnOK /\ BytesOK
  BY <1>1 DEF TurnOK, BytesOK
<1>7. AnswersInOrder
  BY <1>1, <1>2 DEF AnswersInOrder
<1> QED
  BY <1>3, <1>4, <1>5, <1>6, <1>7 DEF PipeInv

\* Every step keeps the lines in order.
LEMMA NextPipe == IInv /\ PipeInv /\ [Next]_vars => PipeInv'
<1> SUFFICES ASSUME IInv, PipeInv, [Next]_vars PROVE PipeInv'
  OBVIOUS
<1>1. CASE UNCHANGED vars
  <2>1. UNCHANGED <<host, rt, queue, rx, cmd, main, answers, cdc.frame>> /\ StoreOK'
    BY <1>1 DEF vars, PipeInv, StoreOK
  <2> QED
    BY <2>1, TransmitterPipe
<1>2. CASE HostSend \/ HostDtr \/ OnCdcRxFails \/ UartTxDriverFault \/ CdcTxDriverFault
  BY <1>2, HostSendPipe, HostDtrPipe, OnCdcRxFailsPipe, UartTxDriverFaultPipe,
     CdcTxDriverFaultPipe
<1>3. CASE RxNext
  BY <1>3, RxBeginsPipe, RxFeedsPipe, RxChecksEpochPipe, QueueRequestPipe, RxStopsPipe
     DEF RxNext
<1>4. CASE CmdNext
  BY <1>4, CmdBeginsPipe, CmdLooksPipe, CmdConsumesPipe, RejectsPipe, ControlPipe,
     SubmitPulsePipe, PollPulsePipe, SubmitUartPipe, PollUartPipe, CmdStopsPipe
     DEF CmdNext
<1>5. CASE MainNext
  BY <1>5, MainOpensPipe, HelloWrittenPipe, FrameWrittenPipe, MainDrainsPipe,
     TakeResponsePipe, DrainEvidencePipe, WriteAbortsPipe, DisconnectedPipe,
     RuntimeFaultedPipe, WaitsPipe DEF MainNext
<1>6. CASE InterruptNext
  BY <1>6, OnCdcRxReadyPipe, KickTransmissionPipe, UartTxOnInterruptPipe,
     CdcTxOnWritablePipe DEF InterruptNext
<1> QED
  BY <1>1, <1>2, <1>3, <1>4, <1>5, <1>6 DEF Next

\* What the host reads on a connection is a sequence of whole frames in which
\* each line has its own answer, in the order of the lines: none is skipped,
\* none is answered twice or for an earlier connection, a line beyond the frame
\* limit or that is no command is refused as such, and an "ok" is true
\* (dmh_ndjson_framer_feed, queue_request, service_executor,
\* dutchmate_command_runtime_take_response, write_complete_frame).
THEOREM AnswersStayTrue == Spec => []AnswersAreTrue
<1>1. Init => IInv /\ PipeInv
  BY InitIInv, InitPipe
<1>2. (IInv /\ PipeInv) /\ [Next]_vars => (IInv /\ PipeInv)'
  BY NextIInv, NextPipe
<1>3. IInv /\ PipeInv => AnswersAreTrue
  <2> SUFFICES ASSUME IInv, PipeInv PROVE AnswersAreTrue
    OBVIOUS
  <2>1. Len(queue) <= 1
    <3>1. queue = << >> \/ \E q : queue = <<q>>
      BY DEF PipeInv, StoreOK
    <3>2. CASE queue = << >>
      BY <3>2
    <3>3. ASSUME NEW q, queue = <<q>> PROVE Len(queue) <= 1
      BY <3>3
    <3> QED
      BY <3>1, <3>2, <3>3
  <2>2. TypeOK
    BY <2>1 DEF IInv, ThreadsOK, BusyOK, PipeInv, StoreOK, TypeOK
  <2>3. StreamNotTorn
    BY DEF IInv, StreamOK, StreamNotTorn
  <2> QED
    BY <2>2, <2>3 DEF IInv, PipeInv, AnswersAreTrue
<1> QED
  BY <1>1, <1>2, <1>3, PTL DEF Spec

=============================================================================
