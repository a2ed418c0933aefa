-------------------------- MODULE BoundedOperation --------------------------
(***************************************************************************)
(* The Device Core's bounded operations (runtime.py): Monitor watches the  *)
(* evidence until a line matches or its time is up, Interact claims the    *)
(* exclusive right to act, sends once and watches in the same way.  They   *)
(* run beside a standalone send, release and reacquire requests, shutdown, *)
(* a recorder whose connection drops, comes back, times out or faults, and *)
(* a journal that rolls over.                                              *)
(*                                                                         *)
(* Each action is one critical section or one call into the recorder of    *)
(* one thread.  The recorder is its state as ConnectionOwnership shows it, *)
(* and the UART records it made durable: a record is its session and       *)
(* segment, and its bytes.  One channel is modelled.  That a reader is     *)
(* handed the records between two durable positions, over rollovers, is    *)
(* what EvidenceReaders checks.  Passing deadlines are choices.            *)
(***************************************************************************)
EXTENDS UartLines

CONSTANTS
    Monitors,      \* Monitor operations with conditions; each runs once
    Durations,     \* Monitor operations with a duration
    Interacts,     \* Interact operations with conditions
    Sender,        \* the client of a standalone send
    None,
    Inputs,        \* what the UART may receive: sequences of events
    MaxSessions,   \* bound: sessions
    MaxFaults,     \* bound: recorder faults
    MaxLoad        \* bound: calls, cancellations, disconnects, faults and
                   \* rollovers together

Ops == Monitors \union Durations \union Interacts
Clients == Ops \union {Sender}

(* What a bounded operation may end with, and its terminal record.          *)
Outcomes == {"elapsed", "matched", "timeout", "disconnected", "released", "cancelled", "error"}
TerminalRecords == [outcome : Outcomes, ses : Nat]

ASSUME OpsAssumption == /\ {Sender, None} \intersect Ops = {} /\ Sender # None
                        /\ Interacts \intersect (Monitors \union Durations) = {}
ASSUME InputsAssumption == Inputs \subseteq Seq(Seq({"n", "P", "x"}))
ASSUME NamesAssumption ==
    /\ {"lifecycle", "closer"} \intersect (Clients \union {None}) = {}
    /\ None \notin Outcomes \union {"refused", "raised", "sent"} \union TerminalRecords

VARIABLES
    rec,      \* the recorder: state, session, segment, connection generation,
              \* whether the session is active, whether its line buffer holds
              \* an unterminated line, and whether a fault is still to be written
    log,      \* UART records, in admission order
    active,   \* active_operations of the session's metadata
    term,     \* operation |-> its durable terminal record
    op,       \* operation |-> what its thread keeps
    pc,       \* client |-> next step of its thread
    res,      \* client |-> what its call returned or raised
    tx,       \* client |-> its send, the connection it was tried on, whether
              \* that was interrupted
    mut,      \* _mutation_lock's holder, _active_mutations, _interact_owner
    mon,      \* _active_monitors
    cancel,   \* operations whose cancellation event is set
    expired,  \* operations whose deadline has passed
    lc,       \* the lifecycle request and _lifecycle_active
    cl,       \* the closing thread; _closing and _closed
    input,    \* what the UART receives
    spent     \* how much of each bound has been used up

threadVars == <<op, pc, res, tx>>
vars == <<rec, log, active, term, threadVars, mut, mon, cancel, expired, lc, cl, input, spent>>

Key(r) == <<r.ses, r.seg>>
NewOp == [start |-> 0, key |-> <<0, 0>>, cursor |-> 0, discard |-> FALSE, dropped |-> 0,
          buf |-> EmptyBuffer, limited |-> FALSE, match |-> None, seen |-> None,
          outcome |-> None]

NoSend == [st |-> "none", gen |-> 0, cut |-> FALSE]

Init ==
    /\ rec = [state |-> "connected", ses |-> 1, seg |-> 0, gen |-> 1, live |-> TRUE, open |-> FALSE,
              ending |-> FALSE]
    /\ log = <<>> /\ active = {}
    /\ input \in Inputs
    /\ term = [t \in Ops |-> None]
    /\ op = [t \in Ops |-> NewOp]
    /\ pc = [t \in Clients |-> "idle"]
    /\ res = [t \in Clients |-> None]
    /\ tx = [t \in Clients |-> NoSend]
    /\ mut = [lock |-> None, count |-> 0, owner |-> None]
    /\ mon = {} /\ cancel = {} /\ expired = {}
    /\ lc = [pc |-> "idle", kind |-> None, active |-> FALSE, waits |-> {}]
    /\ cl = [pc |-> "idle", waits |-> {}, closing |-> FALSE, closed |-> FALSE]
    /\ spent = [load |-> 0, faults |-> 0, split |-> FALSE]

Goto(t, label) == pc' = [pc EXCEPT ![t] = label]
Spend == spent.load < MaxLoad /\ spent' = [spent EXCEPT !.load = @ + 1]
SpendFault == /\ spent.faults < MaxFaults /\ spent.load < MaxLoad
              /\ spent' = [spent EXCEPT !.load = @ + 1, !.faults = @ + 1]
Leaves(t) == Goto(t, IF t \in Interacts THEN "return" ELSE "done")
Finish(t, label, what) == Goto(t, label) /\ res' = [res EXCEPT ![t] = what]

-----------------------------------------------------------------------------
(* The journal under the admission lock.                                    *)

(* The session a unit is admitted to: a rollover flushes the open line and  *)
(* goes on in segment 0 of a successor.                                     *)
RolledOver(r, roll) ==
    IF roll THEN [r EXCEPT !.ses = @ + 1, !.seg = 0, !.open = FALSE] ELSE r

(* Whether a unit rolls over depends on its size: a choice.                 *)
Rolls(roll) == IF roll THEN rec.ses < MaxSessions /\ Spend ELSE UNCHANGED spent

(* _record_event for received bytes.                                        *)
Receive ==
    /\ rec.state = "connected" /\ rec.live
    /\ Len(log) < Len(input)
    /\ \E roll \in BOOLEAN : Rolls(roll) /\
          LET r    == RolledOver(rec, roll)
              data == input[Len(log) + 1]
          IN  /\ log' = Append(log, [key |-> Key(r), data |-> data])
              /\ rec' = [r EXCEPT !.open = Last(data) # "n"]
    /\ UNCHANGED <<active, term, threadVars, mut, mon, cancel, expired, lc, cl, input>>

(* _record_disconnect, and the coordinator's replacement of the source.     *)
Disconnect ==
    /\ rec.state = "connected" /\ rec.live
    /\ Spend
    /\ rec' = [rec EXCEPT !.state = "reconnecting", !.open = FALSE]
    /\ UNCHANGED <<log, active, term, threadVars, mut, mon, cancel, expired, lc, cl, input>>

Reconnected ==
    /\ rec.state = "reconnecting" /\ rec.live
    /\ rec' = [rec EXCEPT !.state = "connected", !.seg = @ + 1, !.gen = @ + 1]
    /\ UNCHANGED <<log, active, term, threadVars, mut, mon, cancel, expired, lc, cl, input, spent>>

(* The terminal records written over the operations' heads, late ones after *)
(* a rollover (one before the first of them makes no difference here), and  *)
(* the end of the session.                                                  *)
Terminals(outcome, late) ==
    [t \in Ops |-> IF t \in active
                   THEN [outcome |-> outcome,
                         ses |-> IF t \in late THEN rec.ses + 1 ELSE rec.ses]
                   ELSE term[t]]

EndOperations(outcome) ==
    \E late \in ((SUBSET active) \ {active}) \union {{}} :
        /\ late # {} => rec.ses < MaxSessions
        /\ term' = Terminals(outcome, late)
        /\ active' = {}
        /\ spent' = [spent EXCEPT !.split = @ \/ late # {}]
        /\ rec' = [RolledOver(rec, late # {}) EXCEPT !.live = FALSE, !.ending = FALSE]

(* reconnect_timed_out: the records are written first, the state follows.   *)
ReconnectTimedOut ==
    /\ rec.state = "reconnecting" /\ rec.live
    /\ EndOperations("disconnected")
    /\ UNCHANGED <<log, threadVars, mut, mon, cancel, expired, lc, cl, input>>

ReconnectGivenUp ==
    /\ rec.state = "reconnecting" /\ ~rec.live
    /\ rec' = [rec EXCEPT !.state = "disconnected"]
    /\ UNCHANGED <<log, active, term, threadVars, mut, mon, cancel, expired, lc, cl, input, spent>>

(* _record_fatal: the state changes first.  Only an input error leaves a    *)
(* terminal record for the operations; after a failed write the store ends  *)
(* the session, and with it their ownership.                                *)
Fatal ==
    /\ rec.state \in {"connected", "reconnecting"} /\ rec.live
    /\ SpendFault
    /\ rec' = [rec EXCEPT !.state = "faulted", !.ending = TRUE]
    /\ UNCHANGED <<log, active, term, threadVars, mut, mon, cancel, expired, lc, cl, input>>

FatalEnd ==
    /\ rec.ending
    /\ \/ EndOperations("error")
       \/ /\ rec' = [rec EXCEPT !.live = FALSE, !.ending = FALSE]
          /\ active' = {} /\ UNCHANGED <<term, spent>>
    /\ UNCHANGED <<log, threadVars, mut, mon, cancel, expired, lc, cl, input>>

-----------------------------------------------------------------------------
(* The right to act on the device.                                          *)

(* _check_interact_owner.                                                   *)
OwnerAllows(owner) == ~lc.active /\ mut.owner \in {None, owner}

(* _require_action_recorder.                                                *)
ActionRecorder == ~cl.closing /\ rec.state = "connected"

(* _mutation.  A client that may not act is refused without the lock; one   *)
(* that waited for it is looked at again.                                   *)
EnterMutation(t, owner, entered, refused) ==
    \/ /\ ~OwnerAllows(owner) /\ Finish(t, refused, "refused") /\ UNCHANGED mut
    \/ /\ OwnerAllows(owner) /\ mut.lock = None
       /\ \/ /\ ActionRecorder
             /\ mut' = [mut EXCEPT !.lock = t, !.count = @ + 1]
             /\ Goto(t, entered) /\ UNCHANGED res
          \/ /\ ~ActionRecorder /\ Finish(t, refused, "refused") /\ UNCHANGED mut

LeftMutation == [mut EXCEPT !.lock = None, !.count = @ - 1]

(* send_uart and interact are called.                                       *)
CallSend ==
    /\ pc[Sender] = "idle"
    /\ EnterMutation(Sender, None, "attempt", "done")
    /\ Spend
    /\ UNCHANGED <<rec, log, active, term, op, tx, mon, cancel, expired, lc, cl, input>>

CallInteract(t) ==
    /\ t \in Interacts /\ pc[t] = "idle"
    /\ EnterMutation(t, None, "claim", "done")
    /\ Spend
    /\ UNCHANGED <<rec, log, active, term, op, tx, mon, cancel, expired, lc, cl, input>>

ClaimOwner(t) ==
    /\ pc[t] = "claim"
    /\ mut' = [LeftMutation EXCEPT !.owner = t]
    /\ Goto(t, "start")
    /\ UNCHANGED <<rec, log, active, term, op, res, tx, mon, cancel, expired, lc, cl, input, spent>>

CallMonitor(t) ==
    /\ t \in Monitors \union Durations /\ pc[t] = "idle"
    /\ Goto(t, "start")
    /\ Spend
    /\ UNCHANGED <<rec, log, active, term, op, res, tx, mut, mon, cancel, expired, lc, cl, input>>

(* interact's own finally clause; a Monitor has none.                       *)
Return(t) ==
    /\ pc[t] = "return"
    /\ mut' = [mut EXCEPT !.owner = None]
    /\ Goto(t, "done")
    /\ UNCHANGED <<rec, log, active, term, op, res, tx, mon, cancel, expired, lc, cl, input, spent>>

-----------------------------------------------------------------------------
(* Interact's send, and the standalone one.                                 *)

EnterSend(t) ==
    /\ pc[t] = "act"
    /\ EnterMutation(t, t, "attempt", "raised")
    /\ UNCHANGED <<rec, log, active, term, op, tx, mon, cancel, expired, lc, cl, input, spent>>

(* An exception leaves the mutation, and an Interact's operation with it.   *)
LeaveMutation(t, label, what) ==
    /\ mut' = LeftMutation
    /\ IF t \in Ops THEN Goto(t, label) /\ UNCHANGED res ELSE Finish(t, "done", what)

(* UartSendWorkflow.run: the attempt is durable before the device is asked. *)
(* The recorder refuses it once it has faulted, the store once the session  *)
(* has ended.                                                               *)
Recording == rec.state \notin {"faulted", "closed"} /\ rec.live

SendAttempt(t) ==
    /\ pc[t] = "attempt"
    /\ IF Recording
       THEN /\ tx' = [tx EXCEPT ![t] = [st |-> "tried", gen |-> rec.gen, cut |-> FALSE]]
            /\ Goto(t, "send") /\ UNCHANGED <<res, mut>>
       ELSE LeaveMutation(t, "raised", "raised") /\ UNCHANGED tx
    /\ UNCHANGED <<rec, log, active, term, op, mon, cancel, expired, lc, cl, input, spent>>

(* _send_payload looks at the recorder again, inside the mutation: a send   *)
(* whose connection has gone since makes no attempt, and what it raises is  *)
(* not a failed send, so an Interact does not swallow it.                   *)
SendRefused(t) ==
    /\ pc[t] = "attempt" /\ ~ActionRecorder
    /\ LeaveMutation(t, "raised", "raised")
    /\ UNCHANGED <<rec, log, active, term, op, tx, mon, cancel, expired, lc, cl, input, spent>>

(* The backend accepts the bytes, fails to write them or answers with       *)
(* unusable input; whether the connection was interrupted is read then.     *)
SendReturns(t) ==
    /\ pc[t] = "send"
    /\ \E st \in {"ok", "lost", "input"} :
          /\ IF st = "input" THEN SpendFault ELSE UNCHANGED spent
          /\ tx' = [tx EXCEPT ![t].st = st,
                              ![t].cut = rec.state # "connected" \/ rec.gen # tx[t].gen]
    /\ Goto(t, "result")
    /\ UNCHANGED <<rec, log, active, term, op, res, mut, mon, cancel, expired, lc, cl, input>>

(* Mutant: every failed write is taken for an interruption.                 *)
SwallowsAll(t) == rec.state = "disconnected" \/ tx[t].st = "lost"

(* The result record.  A failed send is raised; Interact swallows it when   *)
(* the connection is given up or was interrupted, unless the input was      *)
(* unusable or the result could not be stored.                              *)
Swallows(t) == \/ rec.state = "disconnected"
               \/ Recording /\ tx[t].st = "lost" /\ tx[t].cut

SendResult(t) ==
    /\ pc[t] = "result"
    /\ tx[t].st # "input" \/ ~Recording
    /\ LET sent == tx[t].st = "ok" /\ Recording
       IN  /\ tx' = [tx EXCEPT ![t].st = IF sent THEN "sent" ELSE "failed"]
           /\ IF sent \/ Swallows(t)
              THEN LeaveMutation(t, "loop", IF sent THEN "sent" ELSE "raised")
              ELSE LeaveMutation(t, "raised", "raised")
    /\ UNCHANGED <<rec, log, active, term, op, mon, cancel, expired, lc, cl, input, spent>>

(* The result of a send that met unusable input, and backend_input_failed.  *)
SendInputFailed(t) ==
    /\ pc[t] = "result" /\ tx[t].st = "input" /\ Recording
    /\ rec' = [rec EXCEPT !.state = "faulted", !.ending = TRUE]
    /\ tx' = [tx EXCEPT ![t].st = "failed"]
    /\ LeaveMutation(t, "raised", "raised")
    /\ UNCHANGED <<log, active, term, op, mon, cancel, expired, lc, cl, input, spent>>

-----------------------------------------------------------------------------
(* _run_bounded_operation.                                                  *)

(* Under the operation lock: refused while ownership changes or without a   *)
(* connection to watch; else the durable start, the position after it, and  *)
(* whether the line the recorder is in the middle of began before it.  A    *)
(* duration operation has no matcher.                                       *)
Startable == /\ ~cl.closing /\ ~lc.active
             /\ rec.state \in {"connected", "reconnecting"}
             /\ rec.live

(* Mutant: the recorder's unfinished line is not looked at.                 *)
StartedAnywhere(t, r) == [NewOp EXCEPT !.start = Len(log), !.key = Key(r),
                                       !.cursor = Len(log)]

Started(t, r) == [NewOp EXCEPT !.start = Len(log), !.key = Key(r), !.cursor = Len(log),
                               !.discard = r.open]

Register(t) == mon' = mon \union {t}

Start(t) ==
    /\ pc[t] = "start" /\ Startable
    /\ \E roll \in BOOLEAN : Rolls(roll) /\
          LET r == RolledOver(rec, roll)
          IN  /\ rec' = r
              /\ op' = IF t \in Durations THEN op ELSE [op EXCEPT ![t] = Started(t, r)]
    /\ active' = active \union {t}
    /\ Register(t)
    /\ Goto(t, IF t \in Interacts /\ t \notin cancel THEN "act" ELSE "loop")
    /\ UNCHANGED <<log, term, res, tx, mut, cancel, expired, lc, cl, input>>

StartRefused(t) ==
    /\ pc[t] = "start" /\ ~Startable
    /\ Leaves(t)
    /\ UNCHANGED <<rec, log, active, term, op, res, tx, mut, mon, cancel, expired, lc, cl, input, spent>>

Decide(t, outcome, label) ==
    /\ op' = [op EXCEPT ![t].outcome = outcome]
    /\ Goto(t, label)

(* The head of the loop: cancellation, then the recorder's state.           *)
CheckState(t) ==
    /\ pc[t] = "loop"
    /\ IF t \in cancel THEN Decide(t, "cancelled", "complete")
       ELSE IF rec.state \in {"released", "reacquiring"} THEN Decide(t, "released", "complete")
       ELSE IF rec.state = "disconnected" THEN Decide(t, "disconnected", "complete")
       ELSE IF rec.state = "faulted" THEN Goto(t, "raised") /\ UNCHANGED op
       ELSE op' = [op EXCEPT ![t].seen = rec.state] /\ Goto(t, "clock")
    /\ UNCHANGED <<rec, log, active, term, res, tx, mut, mon, cancel, expired, lc, cl, input, spent>>

(* Mutant: the deadline binds only operations with conditions.              *)
CheckDeadlineOfConditions(t) ==
    /\ pc[t] = "clock"
    /\ IF t \in expired \ Durations
       THEN Decide(t, IF op[t].seen = "reconnecting" THEN "disconnected"
                      ELSE IF t \in Durations THEN "elapsed" ELSE "timeout", "complete")
       ELSE Goto(t, "wait") /\ UNCHANGED op
    /\ UNCHANGED <<rec, log, active, term, res, tx, mut, mon, cancel, expired, lc, cl, input, spent>>

(* Then the clock, with the state seen before.                              *)
CheckDeadline(t) ==
    /\ pc[t] = "clock"
    /\ IF t \in expired
       THEN Decide(t, IF op[t].seen = "reconnecting" THEN "disconnected"
                      ELSE IF t \in Durations THEN "elapsed" ELSE "timeout", "complete")
       ELSE Goto(t, "wait") /\ UNCHANGED op
    /\ UNCHANGED <<rec, log, active, term, res, tx, mut, mon, cancel, expired, lc, cl, input, spent>>

(* MonitorMatcher.process for one record: a line that was open at the start *)
(* is skipped to its newline, and measured; the rest is framed as the       *)
(* record's session and segment have it.                                    *)
FindNewline(data) == IF Contains(data, "n") THEN SelectInSeq(data, LAMBDA b : b = "n") ELSE 0

FeedAt(buf, data, seq, base) ==
    LET fed   == FeedResult(buf, data, seq)
        at(x) == IF x[1] = seq THEN <<seq, x[2] + base>> ELSE x
    IN  [fed EXCEPT !.buf.start = at(@),
                    !.lines = [i \in DOMAIN fed.lines |->
                                 [fed.lines[i] EXCEPT !.start = at(@)]]]

(* _match_line, of the lines a record completes: the first that matches.    *)
MatchLine(lines, seq) ==
    LET matches == ScanLines(lines)
    IN  IF matches = <<>> THEN None ELSE [start |-> matches[1].start, seq |-> seq]

FeedLines(o, data, seq, base) ==
    LET fed == FeedAt(o.buf, data, seq, base)
    IN  [o EXCEPT !.buf = fed.buf,
                  !.limited = @ \/ fed.newly > 0,
                  !.match = MatchLine(fed.lines, seq)]

AtKey(o, key) == IF o.key = key THEN o
                 ELSE [o EXCEPT !.key = key, !.discard = FALSE, !.dropped = 0, !.buf = EmptyBuffer]

ProcessRecord(acc, record, seq) ==
    LET o       == AtKey(acc, record.key)
        cut     == FindNewline(record.data)
        dropped == IF cut = 0 THEN Len(record.data) ELSE cut
        total   == o.dropped + dropped
        skipped == [o EXCEPT !.limited = @ \/ total > MaxLine,
                             !.discard = cut = 0, !.dropped = IF cut = 0 THEN total ELSE 0]
        rest    == SubSeq(record.data, cut + 1, Len(record.data))
    IN  IF acc.match # None THEN acc
        ELSE IF ~o.discard THEN FeedLines(o, record.data, seq, 0)
        ELSE IF cut = 0 \/ rest = <<>> THEN skipped
        ELSE FeedLines(skipped, rest, seq, cut)

Process(o, end) ==
    FoldLeft(LAMBDA acc, i : ProcessRecord(acc, log[i], i), o,
             [k \in 1..(end - o.cursor) |-> o.cursor + k])

(* What of it the matcher keeps between two records.                        *)
Matcher(o, fed) == [o EXCEPT !.key = fed.key, !.discard = fed.discard, !.dropped = fed.dropped,
                             !.buf = fed.buf, !.limited = fed.limited, !.match = fed.match]

(* wait_for_durable_tail: a wait that ends without a new position, or one   *)
(* that sees it, after which the evidence up to there is read and matched.  *)
(* Records that are no UART input wake the wait, too, and bring nothing; so *)
(* does all that a duration operation reads.                                *)
WaitTimesOut(t) ==
    /\ pc[t] = "wait"
    /\ t \in Durations \/ op[t].cursor = Len(log)
    /\ Goto(t, "loop")
    /\ UNCHANGED <<rec, log, active, term, op, res, tx, mut, mon, cancel, expired, lc, cl, input, spent>>

ReadEvidence(t) ==
    /\ pc[t] = "wait" /\ t \notin Durations /\ op[t].cursor < Len(log)
    /\ LET o == Process(op[t], Len(log))
       IN  /\ op' = [op EXCEPT ![t] = [Matcher(op[t], o) EXCEPT !.cursor = Len(log), !.outcome =
                                         IF o.match # None THEN "matched" ELSE @]]
           /\ Goto(t, IF o.match # None THEN "complete" ELSE "loop")
    /\ UNCHANGED <<rec, log, active, term, res, tx, mut, mon, cancel, expired, lc, cl, input, spent>>

(* complete_monitor_operation: the operation's own terminal record, or the  *)
(* one a lifecycle change has written, if the recorder's session holds it.  *)
Terminal(outcome, r) == [outcome |-> outcome, ses |-> r.ses]

(* load_v2_operation_terminal looks in the recorder's session only.         *)
TerminalStored(t) == term[t] # None /\ term[t].ses = rec.ses

Complete(t) ==
    /\ pc[t] = "complete"
    /\ \/ /\ t \in active
          /\ \E roll \in BOOLEAN : Rolls(roll) /\ rec' = RolledOver(rec, roll)
          /\ term' = [term EXCEPT ![t] = Terminal(op[t].outcome, rec')]
          /\ active' = active \ {t}
          /\ Finish(t, "finally", op[t].outcome)
       \/ /\ t \notin active /\ TerminalStored(t)
          /\ Finish(t, "finally", term[t].outcome)
          /\ UNCHANGED <<spent, rec, term, active>>
       \/ /\ t \notin active /\ ~TerminalStored(t)
          /\ Goto(t, "raised") /\ UNCHANGED <<spent, rec, term, active, res>>
    /\ UNCHANGED <<log, op, tx, mut, mon, cancel, expired, lc, cl, input>>

(* The operation raised: it is completed as an error, unless the recorder's *)
(* fault ends it.                                                           *)
CompleteError(t) ==
    /\ pc[t] = "raised"
    /\ \/ /\ rec.state # "faulted" /\ t \in active
          /\ \E roll \in BOOLEAN : Rolls(roll) /\ rec' = RolledOver(rec, roll)
          /\ term' = [term EXCEPT ![t] = Terminal("error", rec')]
          /\ active' = active \ {t}
       \/ /\ rec.state = "faulted" \/ t \notin active
          /\ UNCHANGED <<spent, rec, term, active>>
    /\ Finish(t, "finally", "raised")
    /\ UNCHANGED <<log, op, tx, mut, mon, cancel, expired, lc, cl, input>>

(* The finally clause: no longer registered, and completed.  What the       *)
(* thread kept is gone, and nothing here reads its terminal record again.   *)
Finally(t) ==
    /\ pc[t] = "finally"
    /\ mon' = mon \ {t}
    /\ Leaves(t)
    /\ op' = [op EXCEPT ![t] = NewOp]
    /\ res' = [res EXCEPT ![t] = None]
    /\ tx' = [tx EXCEPT ![t] = NoSend]
    /\ term' = [term EXCEPT ![t] = None]
    /\ cancel' = cancel \ {t} /\ expired' = expired \ {t}
    /\ UNCHANGED <<rec, log, active, mut, lc, cl, input, spent>>

(* The client cancels; the deadline of an operation passes, which only its  *)
(* loop looks at.                                                           *)
Cancel(t) ==
    /\ pc[t] \notin {"idle", "done"} /\ t \notin cancel
    /\ cancel' = cancel \union {t}
    /\ Spend
    /\ UNCHANGED <<rec, log, active, term, threadVars, mut, mon, expired, lc, cl, input>>

Expire(t) ==
    /\ pc[t] \in {"loop", "clock", "wait"} /\ t \notin expired
    /\ expired' = expired \union {t}
    /\ UNCHANGED <<rec, log, active, term, threadVars, mut, mon, cancel, lc, cl, input, spent>>

-----------------------------------------------------------------------------
(* Release and reacquire.                                                   *)

clientVars == <<log, active, threadVars, cancel, expired>>

(* _ownership_change: refused while an Interact or a mutation is running.   *)
(* The mutation lock is only tried; the connection must be in a state to    *)
(* change.                                                                  *)
BeginOwnership(kind) ==
    /\ lc.pc = "idle" /\ ~cl.closing
    /\ OwnerAllows(None) /\ mut.count = 0
    /\ lc' = [pc |-> "try", kind |-> kind, active |-> TRUE, waits |-> {}]
    /\ Spend
    /\ UNCHANGED <<rec, term, clientVars, mut, mon, cl, input>>

LifecycleGoto(label) == lc' = [lc EXCEPT !.pc = label]

TryMutation ==
    /\ lc.pc = "try"
    /\ \/ /\ mut.lock = None
          /\ mut' = [mut EXCEPT !.lock = "lifecycle"]
          /\ LifecycleGoto(CASE lc.kind = "release" /\ rec.state = "connected" -> "release"
                           [] lc.kind = "reacquire"
                                 /\ rec.state \in {"released", "disconnected"} -> "collect"
                           [] OTHER -> "end")
       \/ /\ mut.lock # None /\ LifecycleGoto("end") /\ UNCHANGED mut
    /\ UNCHANGED <<rec, term, clientVars, mon, cl, input, spent>>

(* The recorder's release; refused if the connection was lost meanwhile.    *)
Release ==
    /\ lc.pc = "release"
    /\ \/ /\ rec.state = "connected" /\ rec.live
          /\ rec' = [rec EXCEPT !.state = "released", !.open = FALSE]
          /\ LifecycleGoto("collect")
       \/ /\ rec.state # "connected" \/ ~rec.live \/ cl.closing
          /\ LifecycleGoto("end") /\ UNCHANGED rec
    /\ UNCHANGED <<term, clientVars, mut, mon, cl, input, spent>>

(* Mutant: nobody is waited for.                                            *)
CollectNone ==
    /\ lc.pc = "collect"
    /\ lc' = [lc EXCEPT !.pc = "waiting", !.waits = {}]
    /\ UNCHANGED <<rec, term, clientVars, mut, mon, cl, input, spent>>

(* The operations registered are waited for: after a release, before a      *)
(* reacquire.                                                               *)
CollectMonitors ==
    /\ lc.pc = "collect"
    /\ lc' = [lc EXCEPT !.pc = "waiting", !.waits = mon]
    /\ UNCHANGED <<rec, term, clientVars, mut, mon, cl, input, spent>>

MonitorsCompleted ==
    /\ lc.pc = "waiting" /\ lc.waits \intersect mon = {}
    /\ LifecycleGoto(IF lc.kind = "release" THEN "end" ELSE "reacquire")
    /\ UNCHANGED <<rec, term, clientVars, mut, mon, cl, input, spent>>

(* begin_reacquire, and the opened or refused replacement: a new segment of *)
(* the session, or a new session when that has ended.                       *)
BeginReacquire ==
    /\ lc.pc = "reacquire"
    /\ \/ /\ rec.state \in {"released", "disconnected"}
          /\ rec' = [rec EXCEPT !.state = "reacquiring"]
          /\ LifecycleGoto("opening")
       \/ /\ rec.state \notin {"released", "disconnected"} \/ cl.closing
          /\ LifecycleGoto("end") /\ UNCHANGED rec
    /\ UNCHANGED <<term, clientVars, mut, mon, cl, input, spent>>

Reacquired ==
    /\ lc.pc = "opening" /\ rec.state = "reacquiring"
    /\ \/ rec' = IF rec.live THEN [rec EXCEPT !.state = "connected", !.seg = @ + 1, !.gen = @ + 1]
                 ELSE [rec EXCEPT !.state = "connected", !.ses = @ + 1, !.seg = 0,
                                  !.gen = @ + 1, !.live = TRUE]
       \/ rec' = [rec EXCEPT !.state = IF rec.live THEN "released" ELSE "disconnected"]
    /\ LifecycleGoto("end")
    /\ UNCHANGED <<term, clientVars, mut, mon, cl, input, spent>>

EndOwnership ==
    /\ lc.pc = "end"
    /\ lc' = [pc |-> "idle", kind |-> None, active |-> FALSE, waits |-> {}]
    /\ mut' = IF mut.lock = "lifecycle" THEN [mut EXCEPT !.lock = None] ELSE mut
    /\ UNCHANGED <<rec, term, clientVars, mon, cl, input, spent>>

-----------------------------------------------------------------------------
(* close.                                                                   *)

CloseBegin ==
    /\ cl.pc = "idle"
    /\ cl' = [cl EXCEPT !.pc = "waiting", !.closing = TRUE, !.waits = mon]
    /\ cancel' = cancel \union mon
    /\ Spend
    /\ UNCHANGED <<rec, log, active, term, threadVars, mut, mon, expired, lc, input>>

CloseWaited ==
    /\ cl.pc = "waiting" /\ cl.waits \intersect mon = {} /\ mut.lock = None
    /\ mut' = [mut EXCEPT !.lock = "closer"]
    /\ cl' = [cl EXCEPT !.pc = "recorder"]
    /\ UNCHANGED <<rec, log, active, term, threadVars, mon, cancel, expired, lc, input, spent>>

(* The recorder's close ends the session, if it is still active.            *)
CloseRecorder ==
    /\ cl.pc = "recorder" /\ ~rec.ending
    /\ rec' = [rec EXCEPT !.state = "closed", !.live = FALSE, !.open = FALSE]
    /\ active' = {}
    /\ mut' = [mut EXCEPT !.lock = None]
    /\ cl' = [cl EXCEPT !.pc = "done", !.closed = TRUE]
    /\ UNCHANGED <<log, term, threadVars, mon, cancel, expired, lc, input, spent>>

-----------------------------------------------------------------------------
Operation(t) ==
    \/ ClaimOwner(t) \/ Start(t) \/ StartRefused(t) \/ EnterSend(t)
    \/ CheckState(t) \/ CheckDeadline(t) \/ WaitTimesOut(t) \/ ReadEvidence(t)
    \/ Complete(t) \/ CompleteError(t) \/ Finally(t) \/ Return(t)

Send(t) ==
    \/ SendRefused(t) \/ SendAttempt(t) \/ SendReturns(t) \/ SendResult(t) \/ SendInputFailed(t)

Lifecycle ==
    \/ TryMutation \/ Release \/ CollectMonitors \/ MonitorsCompleted
    \/ BeginReacquire \/ Reacquired \/ EndOwnership

Recorder == Reconnected \/ ReconnectTimedOut \/ ReconnectGivenUp \/ FatalEnd

(* Nothing is under way.                                                    *)
Finished ==
    /\ \A t \in Clients : pc[t] \in {"idle", "done"}
    /\ lc.pc = "idle" /\ cl.pc \in {"idle", "done"}
    /\ UNCHANGED vars

Next ==
    \/ Receive \/ Disconnect \/ Fatal \/ Recorder
    \/ CallSend
    \/ \E t \in Ops : CallMonitor(t) \/ CallInteract(t) \/ Operation(t) \/ Cancel(t) \/ Expire(t)
    \/ \E t \in Clients : Send(t)
    \/ \E kind \in {"release", "reacquire"} : BeginOwnership(kind)
    \/ Lifecycle
    \/ CloseBegin \/ CloseWaited \/ CloseRecorder
    \/ Finished

(* Every step of a client's thread moves its pc; it waits for others only   *)
(* where it enters the mutation.                                            *)
Labels == {"idle", "claim", "start", "act", "attempt", "send", "result", "loop", "clock",
           "wait", "complete", "raised", "finally", "return", "done"}
Runs(t) ==
    /\ pc[t] \notin {"idle", "done"}
    /\ pc[t] = "act" => mut.lock = None \/ ~OwnerAllows(t)
    /\ \E label \in Labels \ {pc[t]} : Goto(t, label)

(* Threads keep running, the clock goes on, and the reconnect coordinator   *)
(* ends every loss of the connection one way or the other.                  *)
Spec ==
    /\ Init /\ [][Next]_vars
    /\ \A t \in Clients : WF_pc(Runs(t))
    /\ WF_vars(\E t \in Ops : Expire(t))
    /\ WF_vars(Recorder)
    /\ WF_vars(Lifecycle)
    /\ WF_vars(CloseWaited \/ CloseRecorder)

-----------------------------------------------------------------------------
(* The fields of every thread and of the recorder have their types.         *)
TypeOK ==
    /\ rec.state \in {"connected", "reconnecting", "disconnected", "released", "reacquiring",
                      "faulted", "closed"}
    /\ active \subseteq Ops /\ mon \subseteq Ops
    /\ cancel \subseteq Ops /\ expired \subseteq Ops
    /\ \A t \in Ops : /\ op[t].start <= op[t].cursor /\ op[t].cursor <= Len(log)
                      /\ op[t].outcome \in Outcomes \union {None}
                      /\ term[t] # None => term[t].outcome \in Outcomes
    /\ \A t \in Clients : res[t] \in Outcomes \union {None, "refused", "raised", "sent"}
    /\ mut.lock \in Clients \union {None, "lifecycle", "closer"}
    /\ mut.owner \in Interacts \union {None} /\ mut.count \in {0, 1}

(* The lines of the log, defined by the positions of their bytes: line q is *)
(* the bytes of q's session and segment up to the newline at q and after    *)
(* the newline before it.                                                   *)
Positions(end) == {p \in (1..end) \X (0..MaxLine + 1) : p[2] < Len(log[p[1]].data)}
Byte(p) == log[p[1]].data[p[2] + 1]
Before(p, q) == p[1] < q[1] \/ (p[1] = q[1] /\ p[2] < q[2])
Bytes(q) == {p \in Positions(q[1]) :
                /\ log[p[1]].key = log[q[1]].key /\ ~Before(q, p)
                /\ \A r \in Positions(q[1]) :
                      log[r[1]].key = log[q[1]].key /\ ~Before(r, p) /\ Before(r, q)
                         => Byte(r) # "n"}
Eligible(start, end) ==
    {q \in Positions(end) : /\ Byte(q) = "n"
                            /\ \A p \in Bytes(q) : p[1] > start
                            /\ \E p \in Bytes(q) : Byte(p) = "P"
                            /\ Cardinality(Bytes(q)) <= MaxLine}

(* What a conditional operation has matched is the first line of the        *)
(* evidence it has read that shows the pattern, keeps the limit and began   *)
(* after the operation did, and it has matched nothing when there is no     *)
(* such line (MonitorMatcher.process over any split of the evidence into    *)
(* reads; the line under way at the start, rollovers and new segments).     *)
MatchIsFirstEligible ==
    \A t \in Monitors \union Interacts :
        LET found == Eligible(op[t].start, op[t].cursor)
        IN  IF found = {} THEN op[t].match = None
            ELSE LET q == CHOOSE q \in found : \A r \in found : ~Before(r, q)
                 IN  /\ op[t].match # None
                     /\ op[t].match.seq = q[1]
                     /\ op[t].match.start \in Bytes(q)
                     /\ \A p \in Bytes(q) : ~Before(p, op[t].match.start)

(* A call that returned an outcome returned the one the journal holds, and  *)
(* "matched" only with a match; a call that raised left an error record,    *)
(* unless the recorder faulted, or the records of a lost connection were    *)
(* split over two sessions.  No operation stays active in a live session    *)
(* once its call is over (complete_monitor_operation against                *)
(* reconnect_timed_out and _record_fatal).                                  *)
ResultIsRecord ==
    \A t \in Ops : pc[t] = "finally" =>
        /\ res[t] \in Outcomes => /\ term[t] # None /\ term[t].outcome = res[t]
                                  /\ res[t] = "matched" => op[t].match # None
        /\ res[t] = "raised" =>
              \/ spent.faults > 0
              \/ term[t] # None /\ (term[t].outcome = "disconnected" =>
                                       op[t].outcome = None \/ spent.split)
        /\ rec.live /\ ~rec.ending => t \notin active

(* An Interact that reports an outcome of its own has sent its payload, or  *)
(* was cancelled before it could, or lost the connection while it did: an   *)
(* observation never passes for the answer to a send that was refused.      *)
ObservedWhatWasSent ==
    \A t \in Interacts : res[t] \in {"matched", "timeout", "released"} =>
        tx[t].st = "sent" \/ (tx[t].st = "failed" /\ tx[t].cut)

(* While an Interact holds the right to act, nobody else's attempt becomes  *)
(* durable and the connection is not released (docs: "release must not      *)
(* interrupt an active Interact").                                          *)
InteractIsExclusive ==
    [][mut.owner # None /\ mut'.owner = mut.owner =>
         /\ \A t \in Clients \ {mut.owner} : tx'[t].st = "tried" => tx[t].st = "tried"
         /\ rec'.state \in {"released", "reacquiring"} => rec'.state = rec.state]_vars

(* A new owner of the connection, and the end of recording, wait for every  *)
(* bounded operation (reacquire_connection and close, completed.wait()).    *)
ChangesWaitForOperations ==
    [][rec'.state # rec.state /\ rec'.state \in {"reacquiring", "closed"} => mon = {}]_vars

(* Every operation that began comes to its end: by a match, its deadline, a *)
(* change of ownership, cancellation or a fault.  So do lifecycle requests  *)
(* and shutdown, which wait for the operations.                             *)
CallsReturn ==
    (\/ \E t \in Ops : pc[t] \notin {"idle", "done"}
     \/ lc.pc # "idle" \/ cl.pc \notin {"idle", "done"})
    ~> (/\ \A t \in Ops : pc[t] \in {"idle", "done"}
        /\ lc.pc = "idle" /\ cl.pc \in {"idle", "done"})

(* What a bounded operation reports is what the journal and the UART saw.   *)
ResultsAreTrue == TypeOK /\ ResultIsRecord /\ ObservedWhatWasSent

(* Bounded operations, device actions and changes of ownership exclude each *)
(* other as the mutation lock and its owner promise.                        *)
OperationsExclude == InteractIsExclusive /\ ChangesWaitForOperations
=============================================================================
