--------------------------- MODULE HelperEvidence ---------------------------
(***************************************************************************)
(* UART evidence on its way from the device under test to the evidence     *)
(* recorder, through the Enhanced Debug Helper: the receive ring that the  *)
(* UART interrupt fills (uart_rx_ring.c, uart_rx.c), the USB thread that    *)
(* opens and ends connection epochs, samples buffer status and drains the  *)
(* ring in observation order (usb_connection.c, connection_epoch.c,        *)
(* telemetry.c, output_drain.c), and the host's loss accounting            *)
(* (enhanced_serial.py, enhanced.py, recorder.py).                         *)
(*                                                                         *)
(* A received byte is identified with its position in the stream: byte p   *)
(* is the p-th byte received since boot while an epoch was active.  A      *)
(* descriptor is the interval [from, to) of positions it covers, so its    *)
(* length is to - from.  The byte array keeps the code's circular layout.  *)
(***************************************************************************)
EXTENDS Integers, Sequences

CONSTANTS
    None,
    Capacity,            \* DUTCHMATE_UART_RING_BUFFER_SIZE_BYTES
    DescriptorCapacity,  \* DMH_UART_RX_DESCRIPTOR_CAPACITY
    IsrBuffer,           \* DUTCHMATE_UART_ISR_BUFFER_BYTES
    Staging,             \* DMH_UART_EVENT_MAX_DATA_BYTES
    BatchBudget,         \* OUTPUT_DRAIN_BATCH_BUDGET
    Interval,            \* DMH_BUFFER_STATUS_INTERVAL_US, in ticks
    Hazards,             \* the failures that may happen
    MaxReceived,         \* bound on the bytes received
    MaxTime,             \* bound on the clock
    MaxOpens,            \* bound on how often the host opens the port
    MaxRollovers         \* bound on session rollovers

AllHazards == {"stall", "driver"}

ASSUME SizesAssumption ==
    /\ Capacity \in Nat \ {0}
    /\ DescriptorCapacity \in Nat \ {0}
    /\ IsrBuffer \in Nat \ {0}
    /\ Staging \in Nat \ {0}
    /\ BatchBudget \in Nat \ {0}
    /\ Interval \in Nat \ {0}

ASSUME BoundsAssumption ==
    /\ Hazards \subseteq AllHazards
    /\ MaxReceived \in Nat
    /\ MaxTime \in Nat
    /\ MaxOpens \in Nat
    /\ MaxRollovers \in Nat

VARIABLES
    bytes, readIndex, used, highWater,           \* the byte ring
    descriptors, episode, nextSeq,               \* what is still to be observed
    droppedTotal, overflowEvents,                \* counters since boot
    rxActive, driverFaulted,                     \* uart_rx.c
    pc, epoch, schedule, sampled, nextDue,       \* the USB thread
    frame, drained,
    dtr, host,                                   \* the host
    now,                                         \* the RP2350 timer
    received, delivered, reported, discarded,    \* what became of every byte
    hostNext, lastSeq, opens

ring == <<bytes, readIndex, used, highWater, descriptors, episode, nextSeq,
          droppedTotal, overflowEvents>>
usb == <<pc, epoch, schedule, sampled, nextDue, frame, drained>>
history == <<received, delivered, reported, discarded, hostNext, lastSeq>>
vars == <<ring, rxActive, driverFaulted, usb, dtr, host, now, history, opens>>

Lesser(a, b) == IF a < b THEN a ELSE b

Descriptor == [seq : Nat, from : Nat, to : Nat, ts : Nat]
Episode == [seq : Nat, ts : Nat, dropped : Nat]
Status == [seq : Nat, ts : Nat, used : Nat, high : Nat, total : Nat, events : Nat]

ASSUME NoneAssumption == None \notin Episode /\ None \notin Status

(***************************************************************************)
(* A frame being written to the host: hello, uart, overflow or status.     *)
(* Its count is the bytes carried, dropped, or dropped since boot.         *)
(***************************************************************************)
Frame(kind, seq, ts, data, count, events) ==
    [kind |-> kind, seq |-> seq, ts |-> ts, data |-> data, count |-> count,
     events |-> events]

NoData == [j \in {} |-> 0]

(***************************************************************************)
(* The part of ContinuousEvidenceRecorder and of the serial adapter that   *)
(* follows helper losses.  `recorded` is the number of dropped bytes that  *)
(* the overflow records of the current session add up to.                  *)
(***************************************************************************)
HostInit ==
    [state |-> "closed", origin |-> None, start |-> 0, explicit |-> 0,
     baseline |-> None, dropped |-> 0, loss |-> FALSE, recorded |-> 0,
     rollovers |-> 0]

Init ==
    /\ bytes = [i \in 0 .. Capacity - 1 |-> 0]
    /\ readIndex = 0 /\ used = 0 /\ highWater = 0
    /\ descriptors = <<>> /\ episode = None /\ nextSeq = 0
    /\ droppedTotal = 0 /\ overflowEvents = 0
    /\ rxActive = FALSE /\ driverFaulted = FALSE
    /\ pc = "loop" /\ epoch = "down" /\ schedule = None
    /\ sampled = 0 /\ nextDue = 0 /\ frame = None /\ drained = 0
    /\ dtr = FALSE /\ host = HostInit
    /\ now = 0
    /\ received = 0 /\ delivered = 0 /\ reported = 0 /\ discarded = 0
    /\ hostNext = 0 /\ lastSeq = 0 /\ opens = 0

-----------------------------------------------------------------------------
(***************************************************************************)
(* The receive ring.                                                       *)
(***************************************************************************)

Wrap(index) == index % Capacity

Oldest == IF descriptors = <<>> THEN received ELSE descriptors[1].from

(***************************************************************************)
(* drop_oldest_bytes empties k descriptors and shortens the next one, so   *)
(* that everything before position base is gone.                           *)
(***************************************************************************)
Empties(k, base) ==
    \A i \in 1 .. Len(descriptors) : i <= k <=> descriptors[i].to <= base

DropOldest(k, base) ==
    [i \in 1 .. Len(descriptors) - k |->
        IF i = 1 /\ descriptors[k + 1].from < base
        THEN [descriptors[k + 1] EXCEPT !.from = base]
        ELSE descriptors[i + k]]

\* mutant: a second drop of an episode replaces the count of the first
RecordDropReplacing(n) ==
    IF n = 0 THEN episode
    ELSE [seq |-> IF episode = None THEN nextSeq + 1 ELSE episode.seq,
          ts |-> now, dropped |-> n]

(***************************************************************************)
(* record_drop, for the bytes that one push drops from its input and from  *)
(* the ring.                                                               *)
(***************************************************************************)
RecordDrop(n) ==
    IF n = 0 THEN episode
    ELSE IF episode = None THEN [seq |-> nextSeq + 1, ts |-> now, dropped |-> n]
    ELSE [episode EXCEPT !.dropped = @ + n]

\* mutant: the second copy starts again at the first byte
CopyIntoRingRestarting(at, position, n) ==
    LET first == Lesser(Capacity - at, n)
    IN  [i \in 0 .. Capacity - 1 |->
            IF at <= i /\ i < at + first THEN position + (i - at)
            ELSE IF i < n - first THEN position + i
            ELSE bytes[i]]

(***************************************************************************)
(* copy_into_ring: two memcpy calls, up to the end of the array and then   *)
(* from its start.                                                         *)
(***************************************************************************)
CopyIntoRing(at, position, n) ==
    LET first == Lesser(Capacity - at, n)
    IN  [i \in 0 .. Capacity - 1 |->
            IF at <= i /\ i < at + first THEN position + (i - at)
            ELSE IF i < n - first THEN position + first + i
            ELSE bytes[i]]

(***************************************************************************)
(* dmh_uart_rx_ring_push: the bytes of one FIFO read replace the oldest    *)
(* ones when there is no room for them, or no descriptor.                  *)
(***************************************************************************)
Retained(n) == Lesser(n, Capacity)

DescriptorDrop ==
    IF Len(descriptors) = DescriptorCapacity
    THEN descriptors[1].to - descriptors[1].from ELSE 0

RingDrop(n) ==
    LET left == used - DescriptorDrop
        room == Capacity - Retained(n)
    IN  DescriptorDrop + (IF left > room THEN left - room ELSE 0)

Lost(n) == (n - Retained(n)) + RingDrop(n)

Opens(n) == Lost(n) > 0 /\ episode = None

Push(n) ==
    \E k \in 0 .. Len(descriptors) :
        LET base == Oldest + RingDrop(n)
            kept == used - RingDrop(n)
            first == received + n - Retained(n)
        IN  /\ Empties(k, base)
            /\ nextSeq' = nextSeq + (IF Opens(n) THEN 2 ELSE 1)
            /\ descriptors' = Append(DropOldest(k, base),
                                     [seq |-> nextSeq', from |-> first,
                                      to |-> received + n, ts |-> now])
            /\ readIndex' = Wrap(readIndex + RingDrop(n))
            /\ bytes' = CopyIntoRing(Wrap(readIndex' + kept), first, Retained(n))
            /\ used' = kept + Retained(n)
            /\ highWater' = IF used' > highWater THEN used' ELSE highWater
            /\ episode' = RecordDrop(Lost(n))
            /\ droppedTotal' = droppedTotal + Lost(n)
            /\ overflowEvents' = overflowEvents + (IF Opens(n) THEN 1 ELSE 0)
            /\ received' = received + n

(***************************************************************************)
(* dmh_uart_rx_ring_discard_retained, at the start and the end of an       *)
(* epoch.  The counters and the sequence survive.                          *)
(***************************************************************************)
Unreported == IF episode = None THEN 0 ELSE episode.dropped

InFrame ==
    IF pc = "write" /\ frame.kind \in {"uart", "overflow"} THEN frame.count ELSE 0

DiscardRetained ==
    /\ readIndex' = 0 /\ used' = 0 /\ descriptors' = <<>> /\ episode' = None
    /\ discarded' = discarded + used + Unreported + InFrame
    /\ UNCHANGED <<bytes, highWater, nextSeq, droppedTotal, overflowEvents>>

(***************************************************************************)
(* dmh_uart_rx_ring_next_observation and peek_observation, below the limit *)
(* that a pending status sets.                                             *)
(***************************************************************************)
\* mutant: retained bytes always go first
ChunkIsNextAlways == descriptors # <<>>

ChunkIsNext ==
    /\ descriptors # <<>>
    /\ episode # None => descriptors[1].seq < episode.seq

OverflowIsNext == episode # None /\ ~ChunkIsNext

\* mutant: a pending status is sent at once
BeforeStatusNever(seq) == schedule = None

BeforeStatus(seq) == schedule # None => seq < schedule.seq

NextIsChunk == ChunkIsNext /\ BeforeStatus(descriptors[1].seq)
NextIsOverflow == OverflowIsNext /\ BeforeStatus(episode.seq)

-----------------------------------------------------------------------------
(***************************************************************************)
(* The UART interrupt.                                                     *)
(***************************************************************************)

(***************************************************************************)
(* dut_uart_callback: one FIFO read.  The interrupt is not preempted, so   *)
(* its timestamp is the time of its pushes.                                *)
(***************************************************************************)
UartCallback ==
    /\ rxActive /\ ~driverFaulted
    /\ \E n \in 1 .. IsrBuffer : received + n <= MaxReceived /\ Push(n)
    /\ UNCHANGED <<rxActive, driverFaulted, usb, dtr, host, now, delivered,
                   reported, discarded, hostNext, lastSeq, opens>>

(***************************************************************************)
(* mark_driver_fault: a driver call fails in the interrupt.                *)
(***************************************************************************)
MarkDriverFault ==
    /\ "driver" \in Hazards /\ rxActive /\ ~driverFaulted
    /\ driverFaulted' = TRUE
    /\ UNCHANGED <<ring, rxActive, usb, dtr, host, now, history, opens>>

(***************************************************************************)
(* The timer advances.                                                     *)
(***************************************************************************)
Tick ==
    /\ now < MaxTime
    /\ now' = now + 1
    /\ UNCHANGED <<ring, rxActive, driverFaulted, usb, dtr, host, history, opens>>

-----------------------------------------------------------------------------
(***************************************************************************)
(* The host.                                                               *)
(***************************************************************************)

(***************************************************************************)
(* _reset_integrity_after_rollover: a session starts without losses.       *)
(***************************************************************************)
RolledOver(h) ==
    [h EXCEPT !.dropped = 0, !.start = 0, !.explicit = 0, !.baseline = None,
              !.loss = FALSE, !.recorded = 0, !.rollovers = @ + 1]

(***************************************************************************)
(* The service opens the port and resets its per-connection loss state.    *)
(* A reacquire also opens a new session.                                   *)
(***************************************************************************)
HostOpens ==
    /\ host.state = "closed" /\ ~dtr /\ opens < MaxOpens
    /\ opens' = opens + 1
    /\ dtr' = TRUE
    /\ \E anew \in BOOLEAN :
         LET h == IF anew THEN RolledOver(host) ELSE host
         IN  /\ anew => host.rollovers < MaxRollovers
             /\ host' = [h EXCEPT !.state = "opening", !.origin = None,
                                  !.start = h.dropped, !.explicit = 0,
                                  !.baseline = None]
    /\ UNCHANGED <<ring, rxActive, driverFaulted, usb, now, history>>

(***************************************************************************)
(* The service closes the port: shutdown, release, or a failed open.       *)
(***************************************************************************)
HostCloses ==
    /\ dtr
    /\ dtr' = FALSE
    /\ host' = [host EXCEPT !.state = IF @ = "failed" THEN @ ELSE "closed"]
    /\ UNCHANGED <<ring, rxActive, driverFaulted, usb, now, history, opens>>

(***************************************************************************)
(* _record_event for a UART event.                                         *)
(***************************************************************************)
RecordUart(h, rolls) == IF rolls THEN RolledOver(h) ELSE h

(***************************************************************************)
(* _record_event for an overflow event.                                    *)
(***************************************************************************)
RecordOverflow(h, rolls, count) ==
    IF rolls
    THEN [RolledOver(h) EXCEPT !.explicit = count, !.dropped = count,
                               !.recorded = count, !.loss = TRUE]
    ELSE LET sum == h.start + h.explicit + count
         IN  [h EXCEPT !.explicit = @ + count, !.recorded = @ + count,
                       !.dropped = IF sum > @ THEN sum ELSE @, !.loss = TRUE]

(***************************************************************************)
(* _record_event for a status event.                                       *)
(***************************************************************************)
RecordStatus(h, rolls, total, events) ==
    LET base == IF h.baseline = None THEN [total |-> total, events |-> events]
                ELSE h.baseline
        delta == IF total > base.total THEN total - base.total ELSE 0
        connection == IF delta > h.explicit THEN delta ELSE h.explicit
    IN  IF rolls
        THEN [RolledOver(h) EXCEPT !.baseline = [total |-> total, events |-> events]]
        ELSE [h EXCEPT !.baseline = base, !.dropped = h.start + connection,
                       !.loss = @ \/ connection > 0 \/ events > base.events]

RecordEvent(h, f, rolls) ==
    CASE f.kind = "uart" -> RecordUart(h, rolls)
      [] f.kind = "overflow" -> RecordOverflow(h, rolls, f.count)
      [] f.kind = "status" -> RecordStatus(h, rolls, f.count, f.events)

(***************************************************************************)
(* _dispatch_batch for one message.  The first timestamp becomes the       *)
(* origin of the segment; a message out of place is backend input error.   *)
(***************************************************************************)
Dispatch(h, f, rolls) ==
    CASE h.state = "opening" ->
            [h EXCEPT !.state = IF f.kind = "hello" THEN "ready" ELSE "refused"]
      [] h.state = "ready" ->
            IF f.kind = "hello" \/ (h.origin # None /\ f.ts < h.origin)
            THEN [h EXCEPT !.state = "failed"]
            ELSE RecordEvent([h EXCEPT !.origin = IF @ = None THEN f.ts ELSE @],
                             f, rolls)
      [] OTHER -> h

-----------------------------------------------------------------------------
(***************************************************************************)
(* The USB thread.                                                         *)
(***************************************************************************)

(***************************************************************************)
(* end_active_epoch: telemetry stops, the frame being written is cancelled *)
(* and uart_rx_stop discards what the ring holds.                          *)
(***************************************************************************)
EndActiveEpoch ==
    /\ schedule' = None /\ frame' = None /\ drained' = 0
    /\ rxActive' = FALSE
    /\ DiscardRetained

(***************************************************************************)
(* One look at DTR.  connection_epoch_update starts an epoch once DTR has  *)
(* been stable for a while, and ends it as soon as DTR is low.             *)
(***************************************************************************)
DtrLow ==
    /\ pc = "loop" /\ ~dtr
    /\ epoch' = "down"
    /\ \/ /\ epoch = "active"
          /\ EndActiveEpoch
       \/ /\ epoch # "active"
          /\ UNCHANGED <<ring, schedule, frame, drained, rxActive, discarded>>
    /\ UNCHANGED <<driverFaulted, pc, sampled, nextDue, dtr, host, now,
                   received, delivered, reported, hostNext, lastSeq, opens>>

DtrAsserted ==
    /\ pc = "loop" /\ dtr /\ epoch = "down"
    /\ epoch' = "pending"
    /\ UNCHANGED <<ring, rxActive, driverFaulted, pc, schedule, sampled, nextDue,
                   frame, drained, dtr, host, now, history, opens>>

EpochStarts ==
    /\ pc = "loop" /\ dtr /\ epoch = "pending"
    /\ epoch' = "active"
    /\ frame' = Frame("hello", 0, 0, NoData, 0, 0)
    /\ pc' = "hello"
    /\ UNCHANGED <<ring, rxActive, driverFaulted, schedule, sampled, nextDue,
                   drained, dtr, host, now, history, opens>>

EpochContinues ==
    /\ pc = "loop" /\ dtr /\ epoch = "active"
    /\ pc' = "check"
    /\ UNCHANGED <<ring, rxActive, driverFaulted, epoch, schedule, sampled,
                   nextDue, frame, drained, dtr, host, now, history, opens>>

(***************************************************************************)
(* write_complete_frame for hello, then uart_rx_start and the telemetry    *)
(* schedule.  The thread returns when the UART interface cannot be enabled.*)
(***************************************************************************)
HelloSent ==
    /\ pc = "hello" /\ dtr
    /\ host' = Dispatch(host, frame, FALSE)
    /\ frame' = None
    /\ DiscardRetained
    /\ driverFaulted' = FALSE
    /\ \/ /\ rxActive' = TRUE
          /\ nextDue' = now + Interval
          /\ pc' = "check"
       \/ /\ "driver" \in Hazards
          /\ pc' = "halted"
          /\ UNCHANGED <<rxActive, nextDue>>
    /\ UNCHANGED <<epoch, schedule, sampled, drained, dtr, now, received,
                   delivered, reported, hostNext, lastSeq, opens>>

HelloDisconnected ==
    /\ pc = "hello" /\ ~dtr
    /\ epoch' = "down" /\ frame' = None /\ pc' = "loop"
    /\ UNCHANGED <<ring, rxActive, driverFaulted, schedule, sampled, nextDue,
                   drained, dtr, host, now, history, opens>>

(***************************************************************************)
(* A driver fault ends the epoch and the thread.                           *)
(***************************************************************************)
RxFaulted ==
    /\ pc = "check" /\ driverFaulted
    /\ EndActiveEpoch
    /\ pc' = "halted"
    /\ UNCHANGED <<driverFaulted, epoch, sampled, nextDue, dtr, host,
                   now, received, delivered, reported, hostNext, lastSeq, opens>>

(***************************************************************************)
(* stage_status_if_due reads the timer first and takes the snapshot, with  *)
(* its place in the observation order, later under the ring's lock.        *)
(***************************************************************************)
StatusDue ==
    /\ pc = "check" /\ ~driverFaulted /\ now >= nextDue
    /\ sampled' = now
    /\ pc' = "stage"
    /\ UNCHANGED <<ring, rxActive, driverFaulted, epoch, schedule, nextDue, frame,
                   drained, dtr, host, now, history, opens>>

StatusNotDue ==
    /\ pc = "check" /\ ~driverFaulted /\ now < nextDue
    /\ pc' = "drain"
    /\ UNCHANGED <<ring, rxActive, driverFaulted, epoch, schedule, sampled,
                   nextDue, frame, drained, dtr, host, now, history, opens>>

StageStatus ==
    /\ pc = "stage"
    /\ nextSeq' = nextSeq + 1
    /\ schedule' = [seq |-> nextSeq + 1, ts |-> sampled, used |-> used,
                    high |-> highWater, total |-> droppedTotal,
                    events |-> overflowEvents]
    /\ nextDue' = sampled + Interval /\ sampled' = 0
    /\ pc' = "drain"
    /\ UNCHANGED <<bytes, readIndex, used, highWater, descriptors, episode,
                   droppedTotal, overflowEvents, rxActive, driverFaulted, epoch,
                   frame, drained, dtr, host, now, history, opens>>

(***************************************************************************)
(* drain_one_evidence: take_before under the ring's lock, then the frame   *)
(* is encoded and written outside it.                                      *)
(***************************************************************************)
TakeChunk ==
    LET oldest == descriptors[1]
        length == Lesser(Staging, oldest.to - oldest.from)
        first == Lesser(Capacity - readIndex, length)
        data == [j \in 0 .. length - 1 |->
                    IF j < first THEN bytes[readIndex + j] ELSE bytes[j - first]]
    IN  /\ pc = "drain" /\ NextIsChunk
        /\ frame' = Frame("uart", oldest.seq, oldest.ts, data, length, 0)
        /\ descriptors' = IF oldest.to - oldest.from = length THEN Tail(descriptors)
                          ELSE [descriptors EXCEPT ![1].from = @ + length]
        /\ readIndex' = Wrap(readIndex + length)
        /\ used' = used - length
        /\ pc' = "write"
        /\ UNCHANGED <<bytes, highWater, episode, nextSeq, droppedTotal,
                       overflowEvents, rxActive, driverFaulted, epoch, schedule,
                       sampled, nextDue, drained, dtr, host, now, history, opens>>

ClaimOverflow ==
    /\ pc = "drain" /\ NextIsOverflow
    /\ frame' = Frame("overflow", episode.seq, episode.ts, NoData, episode.dropped, 0)
    /\ episode' = None
    /\ pc' = "write"
    /\ UNCHANGED <<bytes, readIndex, used, highWater, descriptors, nextSeq,
                   droppedTotal, overflowEvents, rxActive, driverFaulted, epoch,
                   schedule, sampled, nextDue, drained, dtr, host, now, history,
                   opens>>

TakeStatus ==
    /\ pc = "drain" /\ ~NextIsChunk /\ ~NextIsOverflow /\ schedule # None
    /\ frame' = Frame("status", schedule.seq, schedule.ts, NoData,
                      schedule.total, schedule.events)
    /\ pc' = "write"
    /\ UNCHANGED <<ring, rxActive, driverFaulted, epoch, schedule, sampled,
                   nextDue, drained, dtr, host, now, history, opens>>

DrainIdle ==
    /\ pc = "drain" /\ ~NextIsChunk /\ ~NextIsOverflow /\ schedule = None
    /\ pc' = "loop" /\ drained' = 0
    /\ UNCHANGED <<ring, rxActive, driverFaulted, epoch, schedule, sampled,
                   nextDue, frame, dtr, host, now, history, opens>>

\* mutant: a status stays pending
StatusSentForgotten == schedule

(***************************************************************************)
(* dmh_telemetry_schedule_status_sent, after the write of a status.        *)
(***************************************************************************)
StatusSent == IF frame.kind = "status" THEN None ELSE schedule

(***************************************************************************)
(* write_complete_frame for evidence.  USB and the host's queues keep the  *)
(* order of the frames, so the host handles a frame when it is complete.   *)
(***************************************************************************)
FrameSent ==
    /\ pc = "write" /\ dtr
    /\ \E rolls \in BOOLEAN :
         /\ rolls => host.rollovers < MaxRollovers
         /\ host' = Dispatch(host, frame, rolls)
    /\ delivered' = IF frame.kind = "uart" THEN delivered + frame.count ELSE delivered
    /\ hostNext' = IF frame.kind = "uart" THEN frame.data[frame.count - 1] + 1
                   ELSE hostNext
    /\ reported' = IF frame.kind = "overflow" THEN reported + frame.count ELSE reported
    /\ lastSeq' = frame.seq
    /\ schedule' = StatusSent
    /\ frame' = None
    /\ drained' = (drained + 1) % BatchBudget
    /\ pc' = IF drained' = 0 THEN "loop" ELSE "drain"
    /\ UNCHANGED <<ring, rxActive, driverFaulted, epoch, sampled, nextDue, dtr,
                   now, received, discarded, opens>>

FrameDisconnected ==
    /\ pc = "write" /\ ~dtr
    /\ epoch' = "down"
    /\ EndActiveEpoch
    /\ pc' = "loop"
    /\ UNCHANGED <<driverFaulted, sampled, nextDue, dtr, host, now,
                   received, delivered, reported, hostNext, lastSeq, opens>>

(***************************************************************************)
(* The CDC driver makes no progress for 250 ms or fails: the epoch and the *)
(* thread end.                                                             *)
(***************************************************************************)
FrameStalls ==
    /\ "stall" \in Hazards
    /\ pc \in {"hello", "write"}
    /\ EndActiveEpoch
    /\ pc' = "halted"
    /\ UNCHANGED <<driverFaulted, epoch, sampled, nextDue, dtr, host,
                   now, received, delivered, reported, hostNext, lastSeq, opens>>

(***************************************************************************)
(* main returns: the helper is idle until it is reset.                     *)
(***************************************************************************)
Halted == pc = "halted" /\ UNCHANGED vars

-----------------------------------------------------------------------------
UsbThread ==
    \/ DtrLow \/ DtrAsserted \/ EpochStarts \/ EpochContinues
    \/ HelloSent \/ HelloDisconnected
    \/ RxFaulted \/ StatusDue \/ StatusNotDue \/ StageStatus
    \/ TakeChunk \/ ClaimOverflow \/ TakeStatus \/ DrainIdle
    \/ FrameSent \/ FrameDisconnected

Next ==
    \/ UsbThread \/ FrameStalls \/ Halted
    \/ UartCallback \/ MarkDriverFault \/ Tick
    \/ HostOpens \/ HostCloses

Spec == Init /\ [][Next]_vars

(***************************************************************************)
(* The USB thread keeps running and the CDC driver accepts frames while    *)
(* DTR is high; nothing is assumed of the UART, the timer or the host.     *)
(***************************************************************************)
FairSpec == Spec /\ WF_vars(UsbThread)

-----------------------------------------------------------------------------
RingTypes ==
    /\ bytes \in [0 .. Capacity - 1 -> Nat]
    /\ readIndex \in 0 .. Capacity - 1
    /\ used \in 0 .. Capacity
    /\ highWater \in 0 .. Capacity
    /\ used <= highWater
    /\ descriptors \in Seq(Descriptor)
    /\ Len(descriptors) <= DescriptorCapacity
    /\ episode \in Episode \cup {None}
    /\ schedule \in Status \cup {None}

CounterTypes ==
    /\ nextSeq \in Nat /\ droppedTotal \in Nat /\ overflowEvents \in Nat
    /\ sampled \in Nat /\ nextDue \in Nat /\ drained \in Nat /\ now \in Nat
    /\ received \in Nat /\ delivered \in Nat /\ reported \in Nat /\ discarded \in Nat
    /\ hostNext \in Nat /\ lastSeq \in Nat /\ opens \in Nat

ControlTypes ==
    /\ rxActive \in BOOLEAN /\ driverFaulted \in BOOLEAN /\ dtr \in BOOLEAN
    /\ pc \in {"loop", "hello", "check", "stage", "drain", "write", "halted"}
    /\ epoch \in {"down", "pending", "active"}
    /\ pc \notin {"hello", "write"} => frame = None

(***************************************************************************)
(* Types and bounds; a frame exists only while it is being written: what a *)
(* disconnect or the end of an epoch interrupts is cancelled.              *)
(***************************************************************************)
TypeOK == RingTypes /\ CounterTypes /\ ControlTypes

(***************************************************************************)
(* The ring holds exactly the newest received bytes, in order and without  *)
(* a gap, wherever the circular indices stand, and the descriptors divide  *)
(* them: drop-oldest, oversized callbacks, descriptor exhaustion and       *)
(* partial takes included (uart_rx_ring.c, push and take).                 *)
(***************************************************************************)
RingHoldsNewest ==
    /\ used = received - Oldest
    /\ \A i \in 1 .. Len(descriptors) :
         /\ descriptors[i].from < descriptors[i].to
         /\ descriptors[i].to = IF i = Len(descriptors) THEN received
                                ELSE descriptors[i + 1].from
    /\ \A j \in 0 .. used - 1 :
         bytes[Wrap(readIndex + j)] = Oldest + j

(***************************************************************************)
(* Every received byte is in the ring, in the frame being written,         *)
(* delivered, counted in an overflow record, about to be counted in one,   *)
(* or was discarded with its epoch: no loss inside an epoch goes           *)
(* unreported (record_drop, claim_overflow, discard_retained).             *)
(***************************************************************************)
EveryByteAccounted ==
    received = delivered + reported + discarded + used + Unreported + InFrame

(***************************************************************************)
(* Frames leave in observation order: an overflow record goes out before   *)
(* any byte received after the loss and after every byte received before   *)
(* it, a status after what it summarises; a byte is never sent twice.      *)
(***************************************************************************)
OrderedEvidence ==
    pc = "write" =>
        /\ \/ frame.seq > lastSeq
           \/ frame.seq = lastSeq /\ frame.kind = "uart"
        /\ descriptors # <<>> => frame.seq <= descriptors[1].seq
        /\ episode # None => frame.seq < episode.seq
        /\ frame.kind = "uart" =>
              /\ frame.data[0] >= hostNext
              /\ \A j \in 0 .. frame.count - 1 : frame.data[j] = frame.data[0] + j

(***************************************************************************)
(* The loss that the host reports for a session is exactly what the        *)
(* overflow records of the session add up to, although it also derives it  *)
(* from the difference of two boot-cumulative status counters: the helper  *)
(* never lets a status overtake the overflow it counts (_record_event).    *)
(***************************************************************************)
LossIsExact ==
    host.rollovers = 0 =>
        host.dropped = host.recorded /\ (host.loss <=> host.recorded > 0)

(***************************************************************************)
(* After any rollover the host still never reports less than the session's *)
(* overflow records (_record_event, _reset_integrity_after_rollover).      *)
(***************************************************************************)
LossNotUnderstated ==
    host.dropped >= host.recorded /\ (host.recorded > 0 => host.loss)

(***************************************************************************)
(* What a session reports as lost is exact before a rollover and never too *)
(* little after one.                                                       *)
(***************************************************************************)
LossIsReported == LossIsExact /\ LossNotUnderstated

(***************************************************************************)
(* What the ring holds, and a pending loss report, eventually leave it, a  *)
(* pending status notwithstanding (drain_one_evidence).                    *)
(***************************************************************************)
EvidenceDrains ==
    used > 0 \/ episode # None ~> used = 0 /\ episode = None

=============================================================================
