---------------------------- MODULE BasicSource -----------------------------
(***************************************************************************)
(* The Basic backend (basic.py): a raw serial port, one reader thread that *)
(* puts what it reads into a bounded queue, the recorder's thread that     *)
(* takes it out and starts the reader on its first call, senders that      *)
(* write payloads in short writes under a lock, and threads that close the *)
(* source.  Every step is a step of one thread between two accesses to     *)
(* what the threads share.  Timeouts may expire at any time.               *)
(***************************************************************************)
EXTENDS BackendParameters, Sequences, FiniteSets

CONSTANTS
    PayloadSize,    \* bytes of a UART payload
    MaxChunks       \* bound on the chunks the port delivers

ASSUME PayloadAssumption == PayloadSize \in Nat \ {0}

VARIABLES
    port, chunks,                             \* the serial port (external)
    thread, holding, outcomes, stop,          \* the reader thread and its queue
    cached,                                   \* _terminal_error
    closing, closeLock, closeFailed,          \* close, by thread
    user, kept, stopping, settled,            \* the recorder
    sending, accepted, holder, line,          \* send_uart
    broken                                    \* faults injected so far

source == <<port, chunks, thread, holding, outcomes, stop, cached>>
closes == <<closing, closeLock, closeFailed>>
recording == <<user, kept, stopping, settled>>
sends == <<sending, accepted, holder, line>>
basicVars == <<source, closes, recording, sends, broken>>

ClosingThreads == {"shutdown", "fatal"}   \* recorder.close and _record_fatal
Chunk(n) == [kind |-> "chunk", n |-> n]
ReaderFailure(error) == [kind |-> "failure", error |-> error]
SourceClosed == [kind |-> "closed"]

\* open_basic_backend_connection, and the connection it makes: no send holds
\* the write lock.
OpenConnection == port = "open" /\ chunks = 0

NewConnection ==
    /\ sending = [s \in Callers |-> "idle"]
    /\ accepted = [s \in Callers |-> 0] /\ holder = None /\ line = <<>>

BasicInit ==
    /\ OpenConnection /\ NewConnection
    /\ thread = "none" /\ holding = <<>> /\ outcomes = <<>> /\ stop = FALSE
    /\ cached = None
    /\ closing = [k \in ClosingThreads |-> "idle"] /\ closeLock = None
    /\ closeFailed = FALSE
    /\ user = "loop" /\ kept = <<>> /\ stopping = FALSE /\ settled = FALSE
    /\ broken = 0

BasicLoad == broken + Cardinality({s \in Callers : sending[s] # "idle"})
Breaks == BasicLoad < MaxLoad /\ broken' = broken + 1
Alive == thread \notin {"none", "assigned", "dead"}

-----------------------------------------------------------------------------
(***************************************************************************)
(* _read_serial.                                                           *)
(***************************************************************************)

ThreadReads ==
    /\ thread = "run"
    /\ \/ stop /\ thread' = "dead" /\ UNCHANGED <<chunks, holding, broken>>
       \/ /\ ~stop /\ port = "open" /\ chunks < MaxChunks
          /\ chunks' = chunks + 1
          /\ holding' = <<Chunk(chunks + 1)>> /\ thread' = "putting"
          /\ UNCHANGED broken
       \/ /\ ~stop /\ port = "open" /\ Breaks   \* non-bytes input, or the clock
          /\ holding' = <<ReaderFailure("input")>> /\ thread' = "putting"
          /\ UNCHANGED chunks
       \/ ~stop /\ port # "open" /\ thread' = "raised"
          /\ UNCHANGED <<chunks, holding, broken>>
    /\ UNCHANGED <<port, outcomes, stop, cached, closes, recording, sends>>

\* A failed read is a disconnect unless the source is being closed.
ReadRaises ==
    /\ thread = "raised"
    /\ IF stop THEN thread' = "dead" /\ UNCHANGED holding
       ELSE holding' = <<ReaderFailure("disconnected")>> /\ thread' = "putting"
    /\ UNCHANGED <<port, chunks, outcomes, stop, cached, closes, recording, sends,
                   broken>>

\* The blocking put; a failure is the last thing the thread puts.
ThreadPuts ==
    /\ thread = "putting" /\ Len(outcomes) < QueueCapacity
    /\ outcomes' = outcomes \o holding /\ holding' = <<>>
    /\ thread' = IF holding[1].kind = "failure" THEN "dead" ELSE "run"
    /\ UNCHANGED <<port, chunks, stop, cached, closes, recording, sends, broken>>

PortLost ==
    /\ port = "open" /\ Breaks /\ port' = "lost"
    /\ UNCHANGED <<chunks, thread, holding, outcomes, stop, cached, closes,
                   recording, sends>>

ThreadStep == ThreadReads \/ ReadRaises \/ ThreadPuts

-----------------------------------------------------------------------------
(***************************************************************************)
(* _next_event, called by the recorder's thread.                           *)
(***************************************************************************)

\* The cached error, then _ensure_reader_started.
NextEvent ==
    /\ user = "loop"
    /\ IF cached # None /\ outcomes = <<>>
       THEN user' = cached /\ UNCHANGED <<thread, cached>>
       ELSE IF thread = "none" /\ stop
       THEN /\ cached' = "disconnected"
            /\ user' = IF outcomes = <<>> THEN "disconnected" ELSE "get"
            /\ UNCHANGED thread
       ELSE IF thread = "none"
       THEN thread' = "assigned" /\ user' = "starting" /\ UNCHANGED cached
       ELSE user' = "get" /\ UNCHANGED <<thread, cached>>
    /\ UNCHANGED <<port, chunks, holding, outcomes, stop, closes, kept, stopping,
                   settled, sends, broken>>

StartReader ==
    /\ user = "starting" /\ user' = "get" /\ thread' = "run"
    /\ UNCHANGED <<port, chunks, holding, outcomes, stop, cached, closes, kept,
                   stopping, settled, sends, broken>>

\* One outcome, or Empty: closed when stopped with no reader left, else None.
GetOutcome ==
    /\ user = "get"
    /\ IF outcomes = <<>>
       THEN /\ IF stop /\ ~Alive
               THEN cached' = "disconnected" /\ user' = "disconnected"
               ELSE user' = "nothing" /\ UNCHANGED cached
            /\ UNCHANGED <<outcomes, kept>>
       ELSE LET out == Head(outcomes) IN
            /\ outcomes' = Tail(outcomes)
            /\ cached' = CASE out.kind = "failure" -> out.error
                           [] out.kind = "closed" /\ cached = None -> "disconnected"
                           [] OTHER -> cached
            /\ user' = IF out.kind = "chunk" THEN "event" ELSE cached'
            /\ kept' = IF out.kind = "chunk" THEN Append(kept, out.n) ELSE kept
    /\ UNCHANGED <<port, chunks, thread, holding, stop, closes, stopping, settled,
                   sends, broken>>

(***************************************************************************)
(* The recorder's ingest loop around it.  A fault of the store ends it;    *)
(* has_pending_events looks at the queue first and at the reader second.   *)
(***************************************************************************)
Records ==
    /\ user = "event"
    /\ \/ user' = "loop" /\ UNCHANGED broken
       \/ Breaks /\ user' = "fatal"
    /\ UNCHANGED <<source, closes, kept, stopping, settled, sends>>

Settles ==
    /\ \/ user = "nothing" /\ user' = IF stopping /\ settled THEN "pending"
                                      ELSE "loop"
       \/ /\ user \in {"disconnected", "input"}
          /\ \/ stopping /\ settled /\ user' = "pending"
             \/ ~stopping /\ user = "disconnected" /\ user' = "parked"
             \/ ~stopping /\ user = "input" /\ user' = "fatal"
       \/ user = "parked" /\ stopping /\ user' = "loop"
    /\ UNCHANGED <<source, closes, kept, stopping, settled, sends, broken>>

HasPending ==
    /\ \/ user = "pending" /\ user' = IF outcomes # <<>> THEN "loop" ELSE "alive"
       \/ user = "alive" /\ user' = IF Alive THEN "loop" ELSE "done"
    /\ UNCHANGED <<source, closes, kept, stopping, settled, sends, broken>>

UserStep ==
    NextEvent \/ StartReader \/ GetOutcome \/ Records \/ Settles \/ HasPending

-----------------------------------------------------------------------------
(***************************************************************************)
(* close.                                                                  *)
(***************************************************************************)

\* Under the close lock; a later close only repeats the outcome of the first.
CloseSource(k) ==
    /\ closing[k] = "idle"
    /\ IF k = "fatal" THEN user = "fatal" ELSE TRUE
    /\ stopping' = (stopping \/ k = "shutdown")
    /\ IF k = "shutdown" /\ user = "fatal"     \* the recorder has no source left
       THEN closing' = [closing EXCEPT ![k] = "absent"] /\ settled' = TRUE
       ELSE closing' = [closing EXCEPT ![k] = "lock"] /\ UNCHANGED settled
    /\ UNCHANGED <<source, closeLock, closeFailed, user, kept, sends, broken>>

CloseLocked(k) ==
    /\ closing[k] = "lock" /\ closeLock = None
    /\ IF stop
       THEN /\ closing' = [closing EXCEPT ![k] =
                             IF closeFailed THEN "raised" ELSE "done"]
            /\ settled' = (settled \/ k = "shutdown")
            /\ UNCHANGED <<stop, closeLock>>
       ELSE /\ stop' = TRUE /\ closeLock' = k
            /\ closing' = [closing EXCEPT ![k] = "port"] /\ UNCHANGED settled
    /\ UNCHANGED <<port, chunks, thread, holding, outcomes, cached, closeFailed,
                   user, kept, stopping, sends, broken>>

\* The port is closed, then the reader joined if there is one.
ClosePort(k) ==
    /\ closing[k] = "port"
    /\ \/ port' = "closed" /\ UNCHANGED <<closeFailed, broken>>
          /\ closing' = [closing EXCEPT ![k] =
                           IF thread = "none" THEN "wake" ELSE "join"]
       \/ Breaks /\ closeFailed' = TRUE /\ UNCHANGED port
          /\ closing' = [closing EXCEPT ![k] = "wake"]
    /\ UNCHANGED <<chunks, thread, holding, outcomes, stop, cached, closeLock,
                   recording, sends>>

\* Mutant: the reader is not joined.
SkipJoin(k) ==
    /\ closing[k] = "join"
    /\ closing' = [closing EXCEPT ![k] = "wake"]
    /\ UNCHANGED <<source, closeLock, closeFailed, recording, sends, broken>>

\* The join: a reader not yet started, or still alive at the timeout, fails it.
JoinReader(k) ==
    /\ closing[k] = "join"
    /\ closing' = [closing EXCEPT ![k] = "wake"]
    /\ \/ thread = "dead" /\ UNCHANGED closeFailed
       \/ thread # "dead" /\ closeFailed' = TRUE
    /\ UNCHANGED <<source, closeLock, recording, sends, broken>>

\* finally: wake the recorder's thread if the queue has room.
CloseEnds(k) ==
    /\ closing[k] = "wake"
    /\ outcomes' = IF Len(outcomes) < QueueCapacity
                   THEN Append(outcomes, SourceClosed) ELSE outcomes
    /\ closing' = [closing EXCEPT ![k] = IF closeFailed THEN "raised" ELSE "done"]
    /\ closeLock' = None
    /\ settled' = (settled \/ k = "shutdown")
    /\ UNCHANGED <<port, chunks, thread, holding, stop, cached, closeFailed, user,
                   kept, stopping, sends, broken>>

CloseStep(k) == CloseLocked(k) \/ ClosePort(k) \/ JoinReader(k) \/ CloseEnds(k)

-----------------------------------------------------------------------------
(***************************************************************************)
(* send_uart: short writes until the payload is out, under the write lock. *)
(***************************************************************************)

SendBegins(s) ==
    /\ sending[s] = "idle" /\ BasicLoad < MaxLoad /\ holder = None
    /\ holder' = s /\ sending' = [sending EXCEPT ![s] = "writing"]
    /\ UNCHANGED <<source, closes, recording, accepted, line, broken>>

WriteSome(s) ==
    /\ sending[s] = "writing" /\ port = "open"
    /\ \E n \in 1 .. PayloadSize - accepted[s] :
         /\ line' = line \o [j \in 1 .. n |-> s]
         /\ accepted' = [accepted EXCEPT ![s] = @ + n]
         /\ IF accepted[s] + n = PayloadSize
            THEN sending' = [sending EXCEPT ![s] = "sent"] /\ holder' = None
            ELSE UNCHANGED <<sending, holder>>
    /\ UNCHANGED <<source, closes, recording, broken>>

\* An exception, possibly after some bytes went out, or no progress.
WriteRaises(s) ==
    /\ sending[s] = "writing"
    /\ IF port = "open"
       THEN /\ Breaks
            /\ \E n \in 0 .. PayloadSize - accepted[s] :
                 line' = line \o [j \in 1 .. n |-> s]
       ELSE UNCHANGED <<line, broken>>
    /\ sending' = [sending EXCEPT ![s] = "failed"] /\ holder' = None
    /\ UNCHANGED <<source, closes, recording, accepted>>

SendStep(s) == SendBegins(s) \/ WriteSome(s) \/ WriteRaises(s)

-----------------------------------------------------------------------------
\* What goes on by itself, the recorder's thread apart.
SourceSettling ==
    \/ ThreadStep \/ CloseSource("fatal")
    \/ \E k \in ClosingThreads : CloseStep(k)

BasicNext ==
    \/ ThreadStep \/ PortLost \/ UserStep
    \/ \E k \in ClosingThreads : CloseSource(k) \/ CloseStep(k)
    \/ \E s \in Callers : SendStep(s)

-----------------------------------------------------------------------------
(***************************************************************************)
(* Properties.                                                             *)
(***************************************************************************)

\* The chunks in q are those from first to last, in order.
HoldsChunks(q, first, last) ==
    LET places == {i \in DOMAIN q : q[i].kind = "chunk"} IN
    /\ {q[i].n : i \in places} = first .. last
    /\ \A i, j \in places : i < j => q[i].n < q[j].n

\* What _read_serial took from the port reaches the recorder in order, and once
\* the recorder's thread has finished after a close that succeeded, all of it has:
\* neither the full queue, the late wake-up nor has_pending_events loses a chunk.
NoChunkLost ==
    /\ Len(kept) <= chunks /\ kept = [j \in 1 .. Len(kept) |-> j]
    /\ HoldsChunks(outcomes \o holding, Len(kept) + 1, chunks)
    /\ user = "done" /\ ~closeFailed => Len(kept) = chunks

\* Every thread that calls close learns the same outcome, and success means that the port
\* is closed and no reader thread will touch it again.
CloseIsFinal ==
    \A k \in ClosingThreads :
      /\ closing[k] = "raised" => closeFailed
      /\ closing[k] = "done" =>
           ~closeFailed /\ port = "closed" /\ thread \notin {"putting", "raised"}

\* Concurrent payloads are not mixed on the UART, and send_uart reports success
\* only for a payload that went out whole; what it reports of a failed one is
\* never more than what went out.
PayloadsWhole ==
    /\ \A i, j, k \in DOMAIN line :
         i < j /\ j < k /\ line[i] = line[k] => line[j] = line[i]
    /\ \A s \in Callers :
         LET out == Cardinality({j \in DOMAIN line : line[j] = s})
         IN  accepted[s] <= out /\ (sending[s] = "sent" => out = PayloadSize)

\* The end of a close: the closers have returned, the recorder's thread has
\* drained the queue and the reader is gone.
SourceQuiet ==
    /\ \A k \in ClosingThreads : closing[k] \in {"idle", "absent", "done", "raised"}
    /\ stopping => user \in {"done", "fatal"}
    /\ user = "done" => thread \in {"none", "dead"}

=============================================================================
