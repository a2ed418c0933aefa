---------------------------- MODULE EnhancedLink ----------------------------
(***************************************************************************)
(* The host's end of a connection to the Enhanced Debug Helper.  Service   *)
(* threads call EnhancedAsyncHost (enhanced_async.py), which runs their    *)
(* operations on an event loop it owns.  On that loop the serial adapter   *)
(* (enhanced_serial.py) has one reader task, which routes each message to  *)
(* the hello waiter, to the bounded event queue or to the one pending      *)
(* request, and the requests, which take turns behind a lock.  The first   *)
(* error is terminal: it ends the reader, wakes whoever waits and closes   *)
(* the port (enhanced_serial_io.py).                                       *)
(*                                                                         *)
(* A step of the loop runs from one await to the next; while the reader is *)
(* dispatching a batch no other task of the loop runs.  Threads interleave *)
(* with the loop freely.  The helper, the port and the operating system    *)
(* are external.  Timeouts may expire whenever what they wait for has not  *)
(* happened.                                                               *)
(***************************************************************************)
EXTENDS BackendParameters, Sequences, FiniteSets, SequencesExt

CONSTANT MaxEvents  \* bound on the evidence messages the helper sends

VARIABLES
    up, inbox, executed, sent, wire, eof,       \* the helper and its USB pipe
    reader, batch, parserFailed, cancelled,     \* the reader task
    greeted, info, waiter, segment,             \* what the hello established
    events, awaiting, normalized,               \* evidence on its way out
    terminal, resource,                         \* how the connection ended
    pending, answer, writer, writing,           \* the request in progress
    call, result, got,                          \* the callers
    opener, cleanup,                            \* open_enhanced_async_host
    loop, hostClosing, hostClosed, closeError,  \* the host
    drained, closer, waitFor,
    consumer, taken, recClosing, sourceClosed,  \* the recorder
    faults

helper == <<up, inbox, executed, sent, wire, eof>>
reading == <<reader, batch, parserFailed, cancelled>>
hello == <<greeted, info, waiter, segment>>
evidence == <<events, awaiting, normalized>>
request == <<pending, answer, writer, writing, call, result, got>>
host == <<loop, hostClosing, hostClosed, closeError, drained, closer, waitFor>>
recorder == <<consumer, taken, recClosing, sourceClosed>>
linkVars == <<helper, reading, hello, evidence, terminal, resource, request,
              opener, cleanup, host, recorder, faults>>

Closers == {"shutdown", "fatal"}   \* recorder.close and _record_fatal
Errors == {"disconnected", "input"}
Verdicts == {"ok", "short"}         \* accepted in full, or not

Hello == [kind |-> "hello"]
Evidence(n) == [kind |-> "event", n |-> n]
Response(c, v) == [kind |-> "response", cmd |-> c, verdict |-> v]
Malformed == [kind |-> "malformed"]
Failure(cause) == [kind |-> "failure", cause |-> cause]

\* The adapter: nothing read, nobody waiting, no terminal error.
NewAdapter ==
    /\ reader = "idle" /\ batch = <<>> /\ parserFailed = FALSE
    /\ cancelled = FALSE
    /\ greeted = FALSE /\ info = FALSE /\ waiter = None /\ segment = None
    /\ events = <<>> /\ awaiting = <<>> /\ normalized = <<>>
    /\ terminal = None /\ resource = "none"
    /\ pending = None /\ answer = [c \in Callers |-> None]
    /\ writer = None /\ writing = [c \in Callers |-> "none"]

LinkInit ==
    /\ up = FALSE /\ inbox = <<>> /\ executed = {} /\ sent = 0 /\ wire = <<>>
    /\ eof = FALSE
    /\ NewAdapter
    /\ call = [c \in Callers |-> "idle"] /\ result = [c \in Callers |-> None]
    /\ got = [c \in Callers |-> None]
    /\ opener = "connecting" /\ cleanup = None
    /\ loop = "running" /\ hostClosing = FALSE /\ hostClosed = FALSE
    /\ closeError = FALSE /\ drained = <<>>
    /\ closer = [k \in Closers |-> "idle"] /\ waitFor = {}
    /\ consumer = "loop" /\ taken = <<>> /\ recClosing = FALSE
    /\ sourceClosed = FALSE
    /\ faults = 0

\* _install has published the adapter, its control and its sender.
Ready == opener = "running"

LoopFree == loop = "running" /\ reader # "dispatching"
Load == faults + Cardinality({c \in Callers : call[c] # "idle"})
Fault == Load < MaxLoad /\ faults' = faults + 1

\* A waiter is a caller or the recorder's reader; no answer yet is not an answer.
ASSUME AnswersAssumption ==
    /\ "reader" \notin Callers
    /\ \A x \in Errors \union {"cancelled"} : Failure(x) # None
    /\ \A c \in Callers, v \in Verdicts : Response(c, v) # None

-----------------------------------------------------------------------------
(***************************************************************************)
(* The helper: it says hello when DTR rises, reports evidence and answers  *)
(* commands in order, however late.  It may restart, send a malformed      *)
(* frame, or go away.                                                      *)
(***************************************************************************)

HelperSays(m) == up /\ ~eof /\ wire' = Append(wire, m)

HelperGreets ==
    /\ resource = "open" /\ ~up /\ up' = TRUE
    /\ wire' = Append(wire, Hello)
    /\ UNCHANGED <<inbox, executed, sent, eof, faults>>

HelperObserves ==
    /\ sent < MaxEvents /\ sent' = sent + 1
    /\ HelperSays(Evidence(sent + 1))
    /\ UNCHANGED <<up, inbox, executed, eof, faults>>

HelperAnswers ==
    /\ inbox # <<>>
    /\ \E v \in Verdicts :
         /\ HelperSays(Response(Head(inbox), v))
         /\ executed' = executed \union {<<Head(inbox), v>>}
    /\ inbox' = Tail(inbox)
    /\ UNCHANGED <<up, sent, eof, faults>>

HelperMisbehaves ==
    /\ Fault
    /\ \/ HelperSays(Hello) /\ UNCHANGED eof
       \/ HelperSays(Malformed) /\ UNCHANGED eof
       \/ up /\ ~eof /\ eof' = TRUE /\ UNCHANGED wire
    /\ UNCHANGED <<up, inbox, executed, sent>>

HelperStep ==
    /\ HelperGreets \/ HelperObserves \/ HelperAnswers \/ HelperMisbehaves
    /\ UNCHANGED <<reading, hello, evidence, terminal, resource, request,
                   opener, cleanup, host, recorder>>

-----------------------------------------------------------------------------
(***************************************************************************)
(* _set_terminal: the first error wins.  Whoever waits is told: the hello  *)
(* waiter, the pending request (cancelled when it is the one that gave     *)
(* up) and the write in progress, whose worker thread runs on.             *)
(***************************************************************************)
SetTerminal(error, cancel) ==
    IF terminal # None
    THEN UNCHANGED <<terminal, waiter, answer, writer>>
    ELSE /\ terminal' = error
         /\ waiter' = IF waiter = "pending" THEN error ELSE waiter
         /\ answer' = IF pending # None /\ answer[pending] = None
                      THEN [answer EXCEPT ![pending] =
                              Failure(IF cancel THEN "cancelled" ELSE error)]
                      ELSE answer
         /\ writer' = None

\* _terminate: set the error and cancel the reader, then wait for both.
Terminate(error, cancel) ==
    /\ SetTerminal(error, cancel)
    /\ cancelled' = (reader \notin {"idle", "done"})

Terminated == reader \in {"idle", "done"} /\ resource \in {"closed", "failed"}

\* _close_resource creates the closing task once.
CloseResource ==
    resource' = IF resource = "open" THEN "closing" ELSE resource

(***************************************************************************)
(* The task that closes the port: DTR is dropped, the stream is closed,    *)
(* and the close counts only when the port is seen closed.                 *)
(***************************************************************************)
ResourceCloses ==
    /\ loop = "running" /\ resource = "closing"
    /\ \/ resource' = "closed" /\ UNCHANGED faults
       \/ Fault /\ resource' = "failed"
    /\ UNCHANGED <<helper, reading, hello, evidence, terminal, request, opener,
                   cleanup, host, recorder>>

-----------------------------------------------------------------------------
(***************************************************************************)
(* The reader task.                                                        *)
(***************************************************************************)

\* NdjsonStreamParser.feed: the messages before the first malformed frame.
Feed(chunk) == LET bad == SelectInSeq(chunk, LAMBDA m : m = Malformed)
               IN  IF bad = 0 THEN chunk ELSE SubSeq(chunk, 1, bad - 1)

\* _validated_initial_info: a whole batch that starts with hello and then
\* holds evidence only.
ValidInitial(messages) ==
    /\ messages # <<>> /\ messages[1] = Hello
    /\ \A j \in 2 .. Len(messages) : messages[j].kind = "event"

\* The reader's finally clause.
EndReader ==
    /\ reader' = "closing" /\ batch' = <<>>
    /\ CloseResource

ReadChunk ==
    /\ LoopFree /\ reader = "reading" /\ ~cancelled
    /\ \E n \in 1 .. Len(wire) :
         LET messages == Feed(SubSeq(wire, 1, n))
             failed == Len(messages) < n
             early == ~info /\ ~failed /\ ValidInitial(messages)
         IN  /\ wire' = SubSeq(wire, n + 1, Len(wire))
             /\ parserFailed' = failed
             /\ IF messages = <<>>
                THEN /\ EndReader /\ SetTerminal("input", FALSE)
                     /\ UNCHANGED <<info, writing>>
                ELSE /\ reader' = "dispatching" /\ batch' = messages
                     /\ info' = (info \/ early)
                     /\ waiter' = IF early /\ waiter = "pending" THEN "ok"
                                  ELSE waiter
                     /\ UNCHANGED <<resource, terminal, answer, writer, writing>>
    /\ UNCHANGED <<up, inbox, executed, sent, eof, cancelled, greeted, segment,
                   evidence, pending, call, result, got, opener, cleanup, host,
                   recorder, faults>>

ReadEof ==
    /\ LoopFree /\ reader = "reading" /\ ~cancelled
    /\ wire = <<>> /\ eof
    /\ EndReader /\ SetTerminal("disconnected", FALSE)
    /\ UNCHANGED <<helper, parserFailed, cancelled, greeted, info, segment,
                   evidence, pending, writing, call, result, got, opener,
                   cleanup, host, recorder, faults>>

(***************************************************************************)
(* _dispatch_batch, one message at a time; only a full queue suspends it.  *)
(***************************************************************************)
DispatchHello ==
    /\ reader = "dispatching" /\ batch # <<>> /\ ~greeted
    /\ IF batch[1] = Hello
       THEN /\ greeted' = TRUE /\ batch' = Tail(batch)
            /\ UNCHANGED <<reader, resource, terminal, waiter, answer, writer>>
       ELSE EndReader /\ SetTerminal("input", FALSE) /\ UNCHANGED greeted
    /\ UNCHANGED <<helper, parserFailed, cancelled, info, segment, evidence,
                   pending, writing, call, result, got, opener, cleanup, host,
                   recorder, faults>>

\* enhanced_segment_context: the time of the segment is that of its first event.
SegmentOrigin(m) == m.n

DispatchEvent ==
    /\ reader = "dispatching" /\ batch # <<>> /\ greeted
    /\ batch[1].kind = "event"
    /\ segment' = IF segment = None THEN SegmentOrigin(batch[1]) ELSE segment
    /\ normalized' = Append(normalized, batch[1].n)
    /\ batch' = Tail(batch)
    /\ IF Len(events) < QueueCapacity
       THEN /\ events' = Append(events, batch[1].n)
            /\ UNCHANGED <<awaiting, reader>>
       ELSE awaiting' = <<batch[1].n>> /\ reader' = "putting" /\ UNCHANGED events
    /\ UNCHANGED <<helper, parserFailed, cancelled, greeted, info, waiter,
                   terminal, resource, request, opener, cleanup, host, recorder,
                   faults>>

PutAdmitted ==
    /\ LoopFree /\ reader = "putting" /\ ~cancelled
    /\ Len(events) < QueueCapacity
    /\ events' = events \o awaiting /\ awaiting' = <<>>
    /\ reader' = "dispatching"
    /\ UNCHANGED <<helper, batch, parserFailed, cancelled, hello, normalized,
                   terminal, resource, request, opener, cleanup, host, recorder,
                   faults>>

DispatchResponse ==
    /\ reader = "dispatching" /\ batch # <<>> /\ greeted
    /\ batch[1].kind = "response"
    /\ \/ parserFailed /\ batch' = Tail(batch)
          /\ UNCHANGED <<terminal, waiter, answer, writer>>
       \/ /\ ~parserFailed
          /\ IF pending = None \/ answer[pending] # None
             THEN batch' = <<>> /\ SetTerminal("input", FALSE)
             ELSE /\ batch' = Tail(batch)
                  /\ answer' = [answer EXCEPT ![pending] = batch[1]]
                  /\ UNCHANGED <<terminal, waiter, writer>>
    /\ UNCHANGED <<helper, reader, parserFailed, cancelled, greeted, info,
                   segment, evidence, resource, pending, writing, call, result,
                   got, opener, cleanup, host, recorder, faults>>

DispatchUnexpected ==
    /\ reader = "dispatching" /\ batch # <<>> /\ greeted /\ batch[1] = Hello
    /\ batch' = <<>>
    /\ IF parserFailed THEN UNCHANGED <<terminal, waiter, answer, writer>>
       ELSE SetTerminal("input", FALSE)
    /\ UNCHANGED <<helper, reader, parserFailed, cancelled, greeted, info,
                   segment, evidence, resource, pending, writing, call, result,
                   got, opener, cleanup, host, recorder, faults>>

\* The end of the batch, and the read loop's checks after it.
DispatchEnds ==
    /\ reader = "dispatching" /\ batch = <<>>
    /\ info' = greeted
    /\ IF parserFailed THEN SetTerminal("input", FALSE)
       ELSE /\ waiter' = IF waiter = "pending" /\ terminal = None THEN "ok"
                         ELSE waiter
            /\ UNCHANGED <<terminal, answer, writer>>
    /\ IF parserFailed \/ terminal # None THEN EndReader
       ELSE reader' = "reading" /\ UNCHANGED <<batch, resource>>
    /\ UNCHANGED <<helper, parserFailed, cancelled, greeted, segment, evidence,
                   pending, writing, call, result, got, opener, cleanup, host,
                   recorder, faults>>

\* A cancelled reader leaves its await; what it was putting stays awaiting.
ReaderCancelled ==
    /\ LoopFree /\ cancelled /\ cancelled' = FALSE
    /\ \/ reader \in {"reading", "putting"} /\ EndReader
       \/ reader = "closing" /\ reader' = "done" /\ UNCHANGED <<batch, resource>>
    /\ UNCHANGED <<helper, parserFailed, hello, evidence, terminal, request,
                   opener, cleanup, host, recorder, faults>>

ReaderEnds ==
    /\ LoopFree /\ reader = "closing" /\ resource \in {"closed", "failed"}
    /\ reader' = "done" /\ cancelled' = FALSE
    /\ UNCHANGED <<helper, batch, parserFailed, hello, evidence, terminal,
                   resource, request, opener, cleanup, host, recorder, faults>>

ReaderStep ==
    \/ ReadChunk \/ ReadEof \/ DispatchHello \/ DispatchEvent \/ PutAdmitted
    \/ DispatchResponse \/ DispatchUnexpected \/ DispatchEnds
    \/ ReaderCancelled \/ ReaderEnds

-----------------------------------------------------------------------------
(***************************************************************************)
(* Requests.  A caller's thread submits the operation to the loop and      *)
(* waits; on the loop, request() writes the frame on a worker thread and   *)
(* waits for the answer while it holds the command lock.                   *)
(***************************************************************************)

InLoop == {"queued", "writing", "waiting", "failing"}
LockHeld == \E c \in Callers : call[c] \in InLoop \ {"queued"}
OffRequest == <<helper, evidence, greeted, info, segment, opener, cleanup, host,
                recorder>>

\* Timeouts, write failures and lost connections reach the caller as errors that
\* say nothing of whether the helper accepted the command.
Undetermined == "unknown"

Return(c, r) ==
    /\ call' = [call EXCEPT ![c] = "returned"]
    /\ result' = [result EXCEPT ![c] = r]
    /\ pending' = IF pending = c THEN None ELSE pending

\* configure_gpio_mode, pulse_control, set_control_state or send_uart.
Calls(c) == Ready /\ call[c] = "idle" /\ Load < MaxLoad

\* _submit: refused once the host is closing.
Submit(c) ==
    /\ Calls(c)
    /\ IF hostClosing \/ hostClosed
       THEN Return(c, "unsent")
       ELSE call' = [call EXCEPT ![c] = "queued"] /\ UNCHANGED <<result, pending>>
    /\ UNCHANGED <<OffRequest, reading, waiter, terminal, resource, answer,
                   writer, writing, got, faults>>

RequestBegins(c) ==
    /\ LoopFree /\ call[c] = "queued" /\ ~LockHeld
    /\ IF terminal # None
       THEN Return(c, "unsent") /\ UNCHANGED <<writer, writing>>
       ELSE /\ pending' = c /\ writer' = c
            /\ writing' = [writing EXCEPT ![c] = "started"]
            /\ call' = [call EXCEPT ![c] = "writing"]
            /\ UNCHANGED result
    /\ UNCHANGED <<OffRequest, reading, waiter, terminal, resource, answer, got,
                   faults>>

\* The worker thread: the frame is in the pipe, then the write returns.
FrameDelivered(c) ==
    /\ writing[c] = "started"
    /\ writing' = [writing EXCEPT ![c] = "delivered"]
    /\ inbox' = IF up /\ ~eof THEN Append(inbox, c) ELSE inbox
    /\ UNCHANGED <<up, executed, sent, wire, eof, reading, hello, evidence,
                   terminal, resource, pending, answer, writer, call, result,
                   got, opener, cleanup, host, recorder, faults>>

WriteReturns(c) ==
    /\ LoopFree /\ writing[c] = "delivered"
    /\ writing' = [writing EXCEPT ![c] = "none"]
    /\ IF writer = c
       THEN writer' = None /\ call' = [call EXCEPT ![c] = "waiting"]
       ELSE UNCHANGED <<writer, call>>
    /\ UNCHANGED <<OffRequest, reading, waiter, terminal, resource, pending,
                   answer, result, got, faults>>

\* write_serial_frame: an exception or a write that makes no progress.
WriteFails(c) ==
    /\ LoopFree /\ writing[c] # "none" /\ Fault
    /\ writing' = [writing EXCEPT ![c] = "none"]
    /\ IF writer = c
       THEN /\ Terminate("disconnected", TRUE)
            /\ call' = [call EXCEPT ![c] = "failing"]
       ELSE UNCHANGED <<terminal, waiter, answer, writer, cancelled, call>>
    /\ UNCHANGED <<OffRequest, reader, batch, parserFailed, resource, pending,
                   result, got>>

\* Mutant: a request that timed out leaves the connection open.
RequestTimesOutOnly(c) ==
    /\ LoopFree /\ call[c] = "waiting" /\ answer[c] = None
    /\ Return(c, Undetermined)
    /\ UNCHANGED <<OffRequest, reading, waiter, terminal, resource, answer,
                   writer, writing, got, faults>>

RequestTimesOut(c) ==
    /\ LoopFree /\ call[c] = "waiting" /\ answer[c] = None
    /\ Terminate("disconnected", TRUE)
    /\ call' = [call EXCEPT ![c] = "failing"]
    /\ UNCHANGED <<OffRequest, reader, batch, parserFailed, resource, pending,
                   writing, result, got, faults>>

\* Its own timeout or write failure is raised once the port is closed.
RequestFails(c) ==
    /\ LoopFree /\ call[c] = "failing" /\ Terminated
    /\ Return(c, Undetermined)
    /\ UNCHANGED <<OffRequest, reading, waiter, terminal, resource, answer,
                   writer, writing, got, faults>>

\* Another task ended the connection under this request.
RequestInterrupted(c) ==
    /\ LoopFree
    /\ \/ call[c] = "writing" /\ writer # c
       \/ call[c] = "waiting" /\ answer[c] # None /\ answer[c].kind = "failure"
    /\ Return(c, Undetermined)
    /\ UNCHANGED <<OffRequest, reading, waiter, terminal, resource, answer,
                   writer, writing, got, faults>>

\* _uart_send_result and _control_success_timestamp: success only for a
\* complete, accepted command.
Judged(response) == IF response.verdict = "ok" THEN "ok" ELSE "failed"

RequestAnswered(c) ==
    /\ LoopFree /\ call[c] = "waiting"
    /\ answer[c] # None /\ answer[c].kind = "response"
    /\ got' = [got EXCEPT ![c] = answer[c].cmd]
    /\ Return(c, Judged(answer[c]))
    /\ UNCHANGED <<OffRequest, reading, waiter, terminal, resource, answer,
                   writer, writing, faults>>

RequestStep(c) ==
    \/ RequestBegins(c) \/ RequestTimesOut(c) \/ RequestFails(c)
    \/ RequestInterrupted(c) \/ RequestAnswered(c)

WriteStep(c) == FrameDelivered(c) \/ WriteReturns(c) \/ WriteFails(c)

-----------------------------------------------------------------------------
(***************************************************************************)
(* Opening: connect, wait for hello, wait for the first timestamp.  An     *)
(* open that fails closes what it opened and stops the loop; the caller    *)
(* learns whether the cleanup was confirmed.                               *)
(***************************************************************************)
OffOpen == <<helper, batch, parserFailed, greeted, info, segment, evidence,
             pending, writing, call, result, got, closeError, drained, closer,
             waitFor, recorder>>

\* The serial opener: DTR stays low until the reader is attached.
ConnectFails ==
    /\ opener = "connecting" /\ Fault
    /\ opener' = "stopping" /\ cleanup' \in BOOLEAN
    /\ resource' = IF cleanup' THEN "closed" ELSE "failed"
    /\ UNCHANGED <<OffOpen, reader, cancelled, waiter, answer, writer, terminal,
                   loop, hostClosing, hostClosed>>

Connects ==
    /\ opener = "connecting" /\ opener' = "hello"
    /\ resource' = "open" /\ reader' = "reading" /\ waiter' = "pending"
    /\ UNCHANGED <<OffOpen, cancelled, answer, writer, terminal, cleanup, loop,
                   hostClosing, hostClosed, faults>>

\* start() and the adapter's _wait_for_hello.
HelloSettles ==
    /\ LoopFree /\ opener = "hello" /\ waiter # "pending"
    /\ IF waiter = "ok"
       THEN /\ opener' = "segment"
            /\ UNCHANGED <<terminal, waiter, answer, writer, cancelled>>
       ELSE opener' = "cleanup" /\ Terminate("disconnected", FALSE)
    /\ UNCHANGED <<OffOpen, reader, resource, cleanup, loop, hostClosing,
                   hostClosed, faults>>

HelloTimesOut ==
    /\ LoopFree /\ opener = "hello" /\ waiter = "pending"
    /\ opener' = "cleanup" /\ Terminate("disconnected", FALSE)
    /\ UNCHANGED <<OffOpen, reader, resource, cleanup, loop, hostClosing,
                   hostClosed, faults>>

\* _close_without_masking_primary
CleanupEnds ==
    /\ LoopFree /\ opener = "cleanup" /\ Terminated
    /\ opener' = "stopping" /\ cleanup' = (resource = "closed")
    /\ UNCHANGED <<OffOpen, reader, cancelled, waiter, answer, writer, terminal,
                   resource, loop, hostClosing, hostClosed, faults>>

StopFailedOpen ==
    /\ opener = "stopping" /\ opener' = "failed"
    /\ loop' = "stopped" /\ hostClosing' = TRUE /\ hostClosed' = TRUE
    /\ UNCHANGED <<OffOpen, reader, cancelled, waiter, answer, writer, terminal,
                   resource, cleanup, faults>>

\* wait_for_segment; no timestamp in time makes the start-up close the host.
SegmentSettles ==
    /\ LoopFree /\ opener = "segment"
    /\ opener' = IF segment # None THEN "running"
                 ELSE IF terminal # None THEN "raised" ELSE "abandoned"
    /\ UNCHANGED <<OffOpen, reader, cancelled, waiter, answer, writer, terminal,
                   resource, cleanup, loop, hostClosing, hostClosed, faults>>

OpenerStep ==
    \/ ConnectFails \/ Connects \/ HelloSettles \/ HelloTimesOut
    \/ CleanupEnds \/ StopFailedOpen \/ SegmentSettles

-----------------------------------------------------------------------------
(***************************************************************************)
(* EnhancedAsyncHost.close.  The first closer takes note of the operations *)
(* in flight, closes the adapter and drains it on the loop, waits for the  *)
(* operations and stops the loop; any other closer waits for the first.    *)
(***************************************************************************)
OffClose == <<helper, reader, batch, parserFailed, greeted, info, segment,
              normalized, resource, pending, writing, call, result, got,
              opener, cleanup, consumer, taken, faults>>

CloseCalled(k) ==
    IF k = "fatal" THEN consumer = "fatal"
    ELSE opener \in {"running", "abandoned"}

\* recorder.close marks itself closing and calls close unless the source is gone.
CloseBegins(k) ==
    /\ closer[k] = "idle" /\ CloseCalled(k)
    /\ recClosing' = (recClosing \/ k = "shutdown")
    /\ sourceClosed' = (sourceClosed \/ (k = "shutdown" /\ consumer = "fatal"))
    /\ IF (k = "shutdown" /\ consumer = "fatal") \/ hostClosed
       THEN closer' = [closer EXCEPT ![k] = "returned"]
            /\ UNCHANGED <<hostClosing, waitFor>>
       ELSE IF hostClosing
       THEN closer' = [closer EXCEPT ![k] = "waiting"]
            /\ UNCHANGED <<hostClosing, waitFor>>
       ELSE /\ closer' = [closer EXCEPT ![k] = "terminate"]
            /\ hostClosing' = TRUE
            /\ waitFor' = {c \in Callers : call[c] \in InLoop}
                          \union (IF consumer = "inloop" THEN {"reader"} ELSE {})
    /\ UNCHANGED <<OffClose, cancelled, waiter, answer, writer, terminal, events,
                   awaiting, loop, hostClosed, closeError, drained>>

\* The adapter's close, on the loop.
CloseTerminates(k) ==
    /\ LoopFree /\ closer[k] = "terminate"
    /\ closer' = [closer EXCEPT ![k] = "drain"]
    /\ Terminate("disconnected", FALSE)
    /\ UNCHANGED <<OffClose, events, awaiting, loop, hostClosing, hostClosed,
                   closeError, drained, waitFor, recClosing, sourceClosed>>

\* close_and_drain_events: a close that failed drains nothing.
CloseDrains(k) ==
    /\ LoopFree /\ closer[k] = "drain" /\ Terminated
    /\ closer' = [closer EXCEPT ![k] = "inflight"]
    /\ IF resource = "failed"
       THEN closeError' = TRUE /\ UNCHANGED <<drained, events, awaiting>>
       ELSE /\ drained' = events \o awaiting
            /\ events' = <<>> /\ awaiting' = <<>> /\ UNCHANGED closeError
    /\ UNCHANGED <<OffClose, cancelled, waiter, answer, writer, terminal, loop,
                   hostClosing, hostClosed, waitFor, recClosing, sourceClosed>>

\* Mutant: the loop is stopped without waiting for the operations in flight.
CloseStopsAtOnce(k) ==
    /\ closer[k] = "inflight"
    /\ closer' = [closer EXCEPT ![k] = "returned"]
    /\ loop' = "stopped" /\ hostClosed' = TRUE
    /\ sourceClosed' = (sourceClosed \/ k = "shutdown")
    /\ UNCHANGED <<OffClose, cancelled, waiter, answer, writer, terminal, events,
                   awaiting, hostClosing, closeError, drained, waitFor,
                   recClosing>>

CloseStops(k) ==
    /\ closer[k] = "inflight"
    /\ \A c \in waitFor : IF c = "reader" THEN consumer # "inloop"
                          ELSE call[c] \notin InLoop
    /\ closer' = [closer EXCEPT ![k] = "returned"]
    /\ loop' = "stopped" /\ hostClosed' = TRUE
    /\ sourceClosed' = (sourceClosed \/ k = "shutdown")
    /\ UNCHANGED <<OffClose, cancelled, waiter, answer, writer, terminal, events,
                   awaiting, hostClosing, closeError, drained, waitFor,
                   recClosing>>

CloseObserved(k) ==
    /\ closer[k] = "waiting" /\ hostClosed
    /\ closer' = [closer EXCEPT ![k] = "returned"]
    /\ sourceClosed' = (sourceClosed \/ k = "shutdown")
    /\ UNCHANGED <<OffClose, cancelled, waiter, answer, writer, terminal, events,
                   awaiting, loop, hostClosing, hostClosed, closeError, drained,
                   waitFor, recClosing>>

CloserStep(k) ==
    \/ CloseTerminates(k) \/ CloseDrains(k) \/ CloseStops(k) \/ CloseObserved(k)

-----------------------------------------------------------------------------
(***************************************************************************)
(* The recorder's ingest thread, reading the host until it is drained.     *)
(***************************************************************************)
OffConsume == <<helper, reading, hello, normalized, awaiting, terminal, resource,
                request, opener, cleanup, loop, hostClosing, hostClosed,
                closeError, closer, waitFor, recClosing, sourceClosed, faults>>

\* EnhancedAsyncHost.read_event, up to its submission.
ReadEvent ==
    /\ Ready /\ consumer = "loop"
    /\ IF drained # <<>>
       THEN /\ taken' = Append(taken, Head(drained))
            /\ drained' = Tail(drained) /\ UNCHANGED consumer
       ELSE /\ consumer' = IF hostClosed THEN "disconnected" ELSE "submit"
            /\ UNCHANGED <<taken, drained>>
    /\ UNCHANGED <<OffConsume, events>>

SubmitRead ==
    /\ consumer = "submit"
    /\ consumer' = IF hostClosing \/ hostClosed THEN "refused" ELSE "inloop"
    /\ UNCHANGED <<OffConsume, events, taken, drained>>

\* receive_event: queued events before the terminal error.
ReceiveEvent ==
    /\ LoopFree /\ consumer = "inloop"
    /\ \/ /\ events # <<>> /\ consumer' = "loop"
          /\ taken' = Append(taken, Head(events)) /\ events' = Tail(events)
       \/ /\ events = <<>> /\ terminal # None /\ consumer' = terminal
          /\ UNCHANGED <<taken, events>>
       \/ /\ events = <<>> /\ terminal = None /\ consumer' = "loop"
          /\ UNCHANGED <<taken, events>>
    /\ UNCHANGED <<OffConsume, drained>>

\* _ingest, on an exception: drain when closing, else disconnect or fault.
ReadRaised ==
    /\ consumer \in {"disconnected", "input", "refused"}
    /\ \/ /\ recClosing /\ sourceClosed
          /\ consumer' = IF drained # <<>> THEN "loop" ELSE "done"
       \/ ~recClosing /\ consumer = "disconnected" /\ consumer' = "parked"
       \/ ~recClosing /\ consumer # "disconnected" /\ consumer' = "faulting"
    /\ UNCHANGED <<OffConsume, events, taken, drained>>

\* _record_disconnect parks the thread; the recorder's close wakes it.
Unpark ==
    /\ consumer = "parked" /\ recClosing /\ consumer' = "loop"
    /\ UNCHANGED <<OffConsume, events, taken, drained>>

RecordFatal ==
    /\ consumer = "faulting" /\ consumer' = "fatal"
    /\ UNCHANGED <<OffConsume, events, taken, drained>>

ConsumerStep ==
    \/ ReadEvent \/ SubmitRead \/ ReceiveEvent \/ ReadRaised \/ Unpark
    \/ RecordFatal

-----------------------------------------------------------------------------
LinkNext ==
    \/ HelperStep \/ ReaderStep \/ ResourceCloses \/ OpenerStep \/ ConsumerStep
    \/ \E c \in Callers : Submit(c) \/ RequestStep(c) \/ WriteStep(c)
    \/ \E k \in Closers : CloseBegins(k) \/ CloserStep(k)

\* What goes on by itself: ready tasks, timers, and threads that were started.
Settling ==
    \/ ReaderStep \/ ResourceCloses \/ OpenerStep \/ CloseBegins("fatal")
    \/ \E c \in Callers : RequestStep(c)
    \/ \E k \in Closers : CloserStep(k)

-----------------------------------------------------------------------------
(***************************************************************************)
(* Properties.                                                             *)
(***************************************************************************)

\* The shape of the connection's state, and the capacity of its event queue.
LinkTypeOK ==
    /\ reader \in {"idle", "reading", "dispatching", "putting", "closing", "done"}
    /\ resource \in {"none", "open", "closing", "closed", "failed"}
    /\ waiter \in Errors \union {None, "pending", "ok"}
    /\ terminal \in Errors \union {None}
    /\ Len(events) <= QueueCapacity /\ Len(awaiting) <= 1
    /\ pending \in Callers \union {None} /\ writer \in Callers \union {None}
    /\ call \in [Callers -> InLoop \union {"idle", "returned"}]
    /\ opener \in {"connecting", "hello", "cleanup", "stopping", "failed",
                   "segment", "running", "raised", "abandoned"}
    /\ loop \in {"running", "stopped"}

\* However late the helper answers, request() never hands a caller the response
\* to another caller's command.
OwnAnswer == \A c \in Callers : got[c] # None => got[c] = c

\* What a caller is told is what happened: success means the helper accepted the
\* whole command, and a call refused or never sent did not reach the helper.
ResultTrue ==
    \A c \in Callers :
      /\ result[c] = "ok" => <<c, "ok">> \in executed
      /\ result[c] = "unsent" =>
           /\ writing[c] = "none" /\ \A j \in DOMAIN inbox : inbox[j] # c
           /\ \A v \in Verdicts : <<c, v>> \notin executed

\* Unless the port's close failed, every event the adapter normalized reaches the
\* recorder once and in order: it is taken, drained, queued or awaiting admission,
\* and nothing is left when the recorder's thread has finished.
NoEventLost ==
    closeError \/
    /\ taken \o drained \o events \o awaiting = normalized
    /\ consumer = "done" => taken = normalized

\* When close returns, nothing runs on the loop any more: no operation is left
\* waiting for a loop that has stopped, and the port is closed or the failure kept.
ClosedIsQuiet ==
    loop = "stopped" =>
      /\ reader \in {"idle", "done"} /\ consumer # "inloop"
      /\ \A c \in Callers : call[c] \notin InLoop
      /\ resource = "closed" \/ closeError \/ cleanup = FALSE

\* An open that failed says truthfully whether the port is closed: the service
\* retries only after a confirmed cleanup.
FailedOpenIsTruthful == opener = "failed" => (cleanup = TRUE <=> resource = "closed")

\* The end of a close: every operation has left the loop, the closers have
\* returned and the recorder's thread has drained the source.
LinkQuiet ==
    /\ loop = "stopped"
    /\ \A c \in Callers : call[c] \notin InLoop
    /\ \A k \in Closers : closer[k] \in {"idle", "returned"}
    /\ recClosing /\ opener = "running" => consumer \in {"done", "fatal"}

=============================================================================
