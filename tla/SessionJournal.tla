--------------------------- MODULE SessionJournal ---------------------------
(***************************************************************************)
(* The session journal of the Device Core: SessionStore                    *)
(* (session_store/store.py), its retention pass (retention.py) and its     *)
(* baseline pointer (baseline.py), driven by the evidence recorder.        *)
(*                                                                         *)
(* A session is a directory holding one append-only log of evidence        *)
(* records and one metadata file.  The store admits one unit at a time     *)
(* under its lock.  A unit that does not fit the session's budget, or that *)
(* would open one segment too many, rolls the journal over: a successor is *)
(* created, told where it comes from, given every active operation, and    *)
(* only then linked from the predecessor, each of these with a durable     *)
(* write of its own.  The process can die between any two of them, and any *)
(* one of them can fail.  After a terminal write the retention pass        *)
(* deletes the oldest sessions nothing protects.                           *)
(*                                                                         *)
(* One append is one step here: that an append is all or nothing across a  *)
(* crash is what EvidenceTransaction checks.  A record is its type and     *)
(* what it refers to; the budget counts records.  A session is named by    *)
(* its place in creation order, which is the order of the directory names  *)
(* and of started_at that recovery and retention sort by.  A directory     *)
(* whose creation was cut short has no metadata file and is ignored by     *)
(* every reader, so it is not represented.                                 *)
(***************************************************************************)
EXTENDS Naturals, Sequences, FiniteSets, Functions

CONSTANTS
    Ops,          \* operation identifiers; each is started at most once
    Attempts,     \* identifiers of audited actions; each is used at most once
    Budget,       \* records a session's evidence budget admits
    MaxSegments,  \* MAX_SESSION_SEGMENTS
    MaxCount,     \* sessions retention keeps (SessionStore max_count)
    MaxSessions,  \* bound: sessions created altogether
    MaxUart,      \* bound: UART receive units offered
    MaxGaps,      \* bound: disconnects observed
    MaxLosses,    \* bound: overflow reports
    MaxMarks,     \* bound: baselines marked
    MaxFaults,    \* bound: persistence failures
    MaxCrashes,   \* bound: crashes and clean restarts of the service
    None          \* "absent" (Python's None)

ASSUME BudgetAssumption ==
    /\ Budget \in Nat /\ MaxSegments \in Nat \ {0} /\ MaxCount \in Nat \ {0}
    /\ IsFiniteSet(Ops) /\ Budget >= Cardinality(Ops) + 2

(* What a caller asks the store to admit, and a store call in progress.     *)
UnitTypes == {"uart_rx", "buffer_overflow", "operation_started", "operation_terminal",
              "uart_tx_attempt", "control_attempt", "uart_tx_result", "control_result",
              "gap", "segment_opened"}
Units == [t : UnitTypes \union {"reopened"}, id : Ops \union Attempts \union {None}]
Jobs == [step : {"recover", "sweep", "append", "create", "announce", "continue"},
         unit : Units \union {None}, pred : Nat \union {None}, succ : Nat \union {None},
         held : SUBSET Nat]

\* Python's None is no number, no identifier and no object.
ASSUME NoneAssumption ==
    None \notin Nat \union Ops \union Attempts \union Units \union Jobs

VARIABLES
    ses,       \* the sessions ever created, oldest first
    handle,    \* the session the recorder appends to
    phase,     \* "boot", "running", "failing", "stopped" or "down"
    job,       \* the store call in progress, None between calls
    wire,      \* TRUE while the recorder's source is connected
    baseline,  \* the session the baseline pointer names, None when there is none
    lease,     \* operation |-> sessions its evidence reader holds
    tails,     \* sessions leased by tail snapshots (_v2_tail_read_leases)
    used,      \* identifiers of operations and attempts already issued
    spent      \* how much of each bound has been used up; swallowed: 1 once an
               \* operation start failed and the recorder went on, 2 when that
               \* was in an earlier run of the service

vars == <<ses, handle, phase, job, wire, baseline, lease, tails, used, spent>>

States == {"active", "completed", "failed", "abandoned"}
Exists(s) == s \in DOMAIN ses /\ ses[s].disk # "gone"
Existing == {s \in DOMAIN ses : Exists(s)}
Empty == [x \in {} |-> None]
Spend(what) == spent' = [spent EXCEPT ![what] = @ + 1]
CanFail == spent.fault < MaxFaults

\* A JSON object with one more member, and with one member less.
With(f, key, value) ==
    [x \in DOMAIN f \union {key} |-> IF x = key THEN value ELSE f[x]]
Without(f, key) == Restrict(f, DOMAIN f \ {key})

(* SessionStore._create_v2_session_locked: an active session with one open  *)
(* segment.                                                                 *)
NewSession(pred) ==
    [disk |-> "whole", state |-> "active", log |-> <<>>, pred |-> pred,
     succ |-> None, ops |-> Empty, cut |-> Empty, pend |-> Empty,
     segs |-> 1, open |-> TRUE, gaps |-> 0, loss |-> FALSE, fault |-> FALSE]

(* _v2_unit_fits: the unit stays within the evidence budget.                *)
Fits(r) == Len(r.log) < Budget

(* _append_v2_record_locked: the record takes the next evidence sequence    *)
(* number.  "live" is a history mark: was the source connected?             *)
Logged(r, t, id, ref) ==
    [r EXCEPT !.log = Append(@, [t |-> t, id |-> id, ref |-> ref, live |-> wire])]

(***************************************************************************)
(* The units: the metadata each record changes in the transaction that     *)
(* appends it.  r is the session's record, s its name.                     *)
(***************************************************************************)
UartReceive(r) == Logged(r, "uart_rx", None, None)

(* _record_v2_integrity_loss: the session's integrity remembers a loss.     *)
IntegrityLoss(r) == [r EXCEPT !.loss = TRUE]

BufferOverflow(r) == IntegrityLoss(Logged(r, "buffer_overflow", None, None))

(* start_v2_operation: the first range opens at the start record itself.    *)
StartOperation(r, s, op) ==
    [Logged(r, "operation_started", op, None) EXCEPT
        !.ops = With(@, op, <<[s |-> s, from |-> Len(r.log), to |-> None]>>)]

(* _v2_terminal_ranges and complete_v2_operation: the last range closes     *)
(* after the terminal record, which carries all the ranges.                 *)
ClosedAt(ranges, n) == [ranges EXCEPT ![Len(ranges)].to = n]

CompleteOperation(r, op) ==
    LET final == ClosedAt(r.ops[op], Len(r.log) + 1)
    IN  [Logged(r, "operation_terminal", op, final) EXCEPT
            !.ops = Without(@, op)]

(* append_v2_uart_tx_attempt, append_v2_control_attempt: the intent is on    *)
(* record, and pending, before anything is sent.                            *)
Pending(r, s, a, kind) ==
    [r EXCEPT !.pend = With(@, a, [s |-> s, seq |-> Len(r.log) - 1, kind |-> kind])]
TxAttempt(r, s, a) == Pending(Logged(r, "uart_tx_attempt", a, None), s, a, "uart_tx")
ControlAttempt(r, s, a) == Pending(Logged(r, "control_attempt", a, None), s, a, "control")

(* append_v2_uart_tx_result, append_v2_control_result: the result names the *)
(* session and the record of its attempt.                                   *)
Resolved(r, a) == [r EXCEPT !.pend = Without(@, a)]
TxResult(r, a) == Resolved(Logged(r, "uart_tx_result", a, r.pend[a]), a)
ControlResult(r, a) == Resolved(Logged(r, "control_result", a, r.pend[a]), a)

(* append_v2_connection_event for "unexpected_disconnect" and "released".   *)
ConnectionGap(r) ==
    [Logged(r, "gap", None, None) EXCEPT !.gaps = @ + 1, !.open = FALSE]

(* append_v2_segment below the segment limit.                               *)
PublishSegment(r) ==
    [Logged(r, "segment_opened", None, None) EXCEPT !.segs = @ + 1, !.open = TRUE]

Admitted(r, s, u) ==
    CASE u.t = "uart_rx" -> UartReceive(r)
      [] u.t = "buffer_overflow" -> BufferOverflow(r)
      [] u.t = "operation_started" -> StartOperation(r, s, u.id)
      [] u.t = "operation_terminal" -> CompleteOperation(r, u.id)
      [] u.t = "uart_tx_attempt" -> TxAttempt(r, s, u.id)
      [] u.t = "control_attempt" -> ControlAttempt(r, s, u.id)
      [] u.t = "uart_tx_result" -> TxResult(r, u.id)
      [] u.t = "control_result" -> ControlResult(r, u.id)
      [] u.t = "gap" -> ConnectionGap(r)
      [] u.t = "segment_opened" -> PublishSegment(r)

(***************************************************************************)
(* The end of a session.                                                   *)
(***************************************************************************)
(* _relinquish_v2_ownership: what was still active becomes interrupted,     *)
(* its last range closed at the session's end.                              *)
Relinquished(r) ==
    [r EXCEPT !.cut = [op \in DOMAIN r.ops \union DOMAIN r.cut |->
                         IF op \in DOMAIN r.ops THEN ClosedAt(r.ops[op], Len(r.log))
                                                ELSE r.cut[op]],
              !.ops = Empty]

(* _terminalize_session_locked.                                             *)
Terminalized(r, state) == [Relinquished(r) EXCEPT !.state = state, !.open = FALSE]

(* _fail_active_v2_persistence_locked.                                      *)
PersistenceFailed(r) == [Terminalized(r, "failed") EXCEPT !.fault = TRUE]

(* link_successor inside _rollover_v2_locked: ownership has moved, so       *)
(* nothing is interrupted and nothing is pending here any more.             *)
Linked(r, succ) ==
    Terminalized([r EXCEPT !.ops = Empty, !.pend = Empty, !.succ = succ], "completed")

(* transfer_rollover_ownership: the successor takes over the unresolved     *)
(* attempts and, unless it was opened by a reconnect, a closed connection   *)
(* together with its unobserved interval.                                   *)
Announced(r, p, reopened) ==
    LET carry == ~reopened /\ ~p.open
    IN  [Logged(r, "rollover_succeeded", None, None) EXCEPT
            !.pend = p.pend,
            !.open = ~carry,
            !.gaps = IF carry THEN 1 ELSE 0]

(* continue_operation: the earlier ranges, the last one closed at the       *)
(* predecessor's end, and a new one open at the continuation record.        *)
Continued(r, s, p, op) ==
    [Logged(r, "operation_continued", op, None) EXCEPT
        !.ops = With(@, op, Append(ClosedAt(p.ops[op], Len(p.log)),
                                   [s |-> s, from |-> Len(r.log), to |-> None]))]

(***************************************************************************)
(* Retention (retention.py).                                               *)
(***************************************************************************)
(* _protect_active_operation_ranges and _protect_pending_attempt_origins.   *)
RangeSessions(ranges) == {ranges[i].s : i \in DOMAIN ranges}
\* Mutant: only the current range of an active operation is protected.
LastRangeOnly ==
    {s \in Existing : \E op \in Ops : op \in DOMAIN ses[s].ops}
ProtectedRanges ==
    UNION {UNION {RangeSessions(ses[s].ops[op]) : op \in DOMAIN ses[s].ops} : s \in Existing}
ProtectedOrigins ==
    UNION {{ses[s].pend[a].s : a \in DOMAIN ses[s].pend} :
              s \in {x \in Existing : ses[x].state = "active"}}
Leased == (UNION {lease[op] : op \in Ops}) \union tails

(* read_baseline_pointer: the session the operator marked as the baseline.  *)
IsBaseline(s) == s = baseline

Protected(held) ==
    {s \in Existing : ses[s].state = "active" \/ IsBaseline(s)}
    \union held \union Leased \union ProtectedRanges \union ProtectedOrigins

(* The sessions one pass deletes: the oldest unprotected ones, as many as   *)
(* the count exceeds the limit by.                                          *)
Excess == IF Cardinality(Existing) > MaxCount THEN Cardinality(Existing) - MaxCount ELSE 0
Doomed(held) ==
    LET eligible == Existing \ Protected(held)
    IN  {s \in eligible : Cardinality({x \in eligible : x < s}) < Excess}

(* A session whose files cannot be read stops the pass before it deletes.   *)
RetentionFault == \E s \in Existing : ses[s].disk = "damaged"

Gone(r) == [r EXCEPT !.disk = "gone"]

(* baseline.py _ineligibility_reason, for a session that can be read.       *)
Eligible(s) ==
    /\ ses[s].disk = "whole" /\ ses[s].state = "completed"
    /\ ~ses[s].fault /\ ~ses[s].loss /\ ses[s].gaps = 0

-----------------------------------------------------------------------------
(***************************************************************************)
(* The store call in progress.  "then" is what follows the retention pass: *)
(* the unit that asked for a rollover, or nothing.                         *)
(***************************************************************************)
Job(step, unit, pred, succ, held) ==
    [step |-> step, unit |-> unit, pred |-> pred, succ |-> succ, held |-> held]
SweepJob(held) == Job("sweep", None, None, None, held)
Idle == phase \in {"running", "failing", "stopped"} /\ job = None

Init ==
    /\ ses = <<>> /\ handle = None /\ phase = "boot"
    /\ job = Job("recover", None, None, 1, {})
    /\ wire = TRUE /\ baseline = None
    /\ lease = [op \in Ops |-> {}] /\ tails = {} /\ used = {}
    /\ spent = [uart |-> 0, gap |-> 0, loss |-> 0, mark |-> 0, fault |-> 0, crash |-> 0,
                swallowed |-> 0]

(***************************************************************************)
(* Startup: recover_stale_sessions, then the first session.                *)
(***************************************************************************)
\* Mutant: only the newest session is looked at.
StaleNewest(s) == s = Len(ses) /\ Exists(s) /\ ses[s].state = "active"
\* A session recovery has to abandon: active when the process died.
Stale(s) == Exists(s) /\ ses[s].state = "active"

\* Mutant: recovery waits for a session it cannot read.
SkipsReadable == ses[job.succ].disk # "damaged"
\* A directory that cannot be read is reported and passed over.
Skips == TRUE

(* _recover_stale_sessions_locked, one directory: an active session is      *)
(* abandoned; every other one is left alone.                                *)
RecoverSession ==
    /\ job # None /\ job.step = "recover" /\ job.succ \in DOMAIN ses /\ Skips
    /\ ses' = IF Stale(job.succ)
                THEN [ses EXCEPT ![job.succ] = Terminalized(@, "abandoned")]
                ELSE ses
    /\ job' = [job EXCEPT !.succ = @ + 1]
    /\ UNCHANGED <<handle, phase, wire, baseline, lease, tails, used, spent>>

(* Recovery is over: retention runs with nothing held, still in "boot".     *)
RecoveryDone ==
    /\ job # None /\ job.step = "recover" /\ job.succ = Len(ses) + 1
    /\ job' = SweepJob({})
    /\ UNCHANGED <<ses, handle, phase, wire, baseline, lease, tails, used, spent>>

(* SessionRecoveryError: the write of an abandoned session fails and        *)
(* startup is given up.                                                     *)
RecoveryFails ==
    /\ job # None /\ job.step = "recover" /\ job.succ \in DOMAIN ses /\ CanFail
    /\ Stale(job.succ)
    /\ phase' = "down" /\ job' = None /\ Spend("fault")
    /\ UNCHANGED <<ses, handle, wire, baseline, lease, tails, used>>

(* create_v2_session once the source is open.                               *)
CreateFirst ==
    /\ phase = "boot" /\ job = None /\ Len(ses) < MaxSessions
    /\ ses' = Append(ses, NewSession(None))
    /\ handle' = Len(ses) + 1 /\ phase' = "running" /\ wire' = TRUE
    /\ UNCHANGED <<job, baseline, lease, tails, used, spent>>

(***************************************************************************)
(* Admission.                                                              *)
(***************************************************************************)
(* What the recorder offers next.  It starts an operation under a fresh     *)
(* identifier, completes one its session owns, and reports a result for an  *)
(* attempt its session has pending; the runtime's mutation lock lets one    *)
(* physical action at a time through.  Once it fails on bad input it only     *)
(* completes the operations still active (_record_fatal).                   *)
FreshOperations == Ops \ used
FreshAttempts == Attempts \ used

Offers(r) ==
    IF phase = "failing" THEN [t : {"operation_terminal"}, id : DOMAIN r.ops] ELSE
    [t : {"operation_started"}, id : IF wire THEN FreshOperations ELSE {}]
    \union [t : {"operation_terminal"}, id : DOMAIN r.ops]
    \union [t : {"uart_tx_attempt", "control_attempt"},
            id : IF wire /\ r.pend = Empty THEN FreshAttempts ELSE {}]
    \union [t : {"uart_tx_result"}, id : {a \in DOMAIN r.pend : r.pend[a].kind = "uart_tx"}]
    \union [t : {"control_result"}, id : {a \in DOMAIN r.pend : r.pend[a].kind = "control"}]
    \union [t : {"uart_rx"}, id : IF wire /\ spent.uart < MaxUart THEN {None} ELSE {}]
    \union [t : {"buffer_overflow"}, id : IF wire /\ spent.loss < MaxLosses THEN {None} ELSE {}]
    \union [t : {"gap"}, id : IF wire /\ spent.gap < MaxGaps THEN {None} ELSE {}]
    \union [t : {"segment_opened"}, id : IF wire THEN {} ELSE {None}]

(* The recorder's source changed, or an identifier was issued, before the   *)
(* store is called.                                                         *)
Issued(u) ==
    /\ wire' = CASE u.t = "gap" -> FALSE [] u.t = "segment_opened" -> TRUE [] OTHER -> wire
    /\ used' = used \union ({u.id} \ {None})
    /\ spent' = CASE u.t = "uart_rx" -> [spent EXCEPT !.uart = @ + 1]
                  [] u.t = "gap" -> [spent EXCEPT !.gap = @ + 1]
                  [] u.t = "buffer_overflow" -> [spent EXCEPT !.loss = @ + 1]
                  [] OTHER -> spent

(* _v2_record_will_rollover_locked, for a unit that is to enter session r.   *)
WillRollOver(r) == ~Fits(r)

(* A unit enters the store; which branch it takes is decided at once.       *)
Offer ==
    /\ Idle /\ phase # "stopped" /\ ses[handle].state = "active"
    /\ Fits(ses[handle]) \/ Len(ses) < MaxSessions
    /\ \E u \in Offers(ses[handle]) :
          /\ Issued(u)
          /\ IF u.t = "segment_opened" /\ ses[handle].segs = MaxSegments
               THEN job' = Job("create", [u EXCEPT !.t = "reopened"], handle, None, {})
               ELSE job' = Job(IF WillRollOver(ses[handle]) THEN "create" ELSE "append",
                               u, handle, None, {})
    /\ UNCHANGED <<ses, handle, phase, baseline, lease, tails>>

(* _v2_terminal_evidence_ranges: the sessions a terminal record names.      *)
TerminalSessions(r, op) == RangeSessions(r.ops[op])

(* open_v2_monitor_evidence_reader leases the session an operation starts   *)
(* in; complete_v2_operation extends the lease to all its ranges.           *)
LeasesAfter(u, s, r) ==
    CASE u.t = "operation_started" -> [lease EXCEPT ![u.id] = {s}]
      [] u.t = "operation_terminal" ->
            [lease EXCEPT ![u.id] = IF @ = {} THEN @ ELSE @ \union TerminalSessions(r, u.id)]
      [] OTHER -> lease

(* The transaction of the unit commits; the recorder publishes the handle.  *)
(* A result is followed by a retention pass that holds its session.         *)
AppendUnit ==
    /\ job # None /\ job.step = "append"
    /\ LET s == job.pred
           u == job.unit
       IN  /\ ses' = [ses EXCEPT ![s] = Admitted(@, s, u)]
           /\ lease' = LeasesAfter(u, s, ses[s])
           /\ handle' = s
           /\ job' = IF u.t \in {"uart_tx_result", "control_result"} THEN SweepJob({s}) ELSE None
    /\ UNCHANGED <<phase, wire, baseline, tails, used, spent>>

(* _record_fatal for a persistence error: the recorder stops for good and   *)
(* fails the session its handle names, if that is still active and if this  *)
(* write succeeds.  A recorder that has already failed only stops.          *)
Fatal(sessions) ==
    /\ phase' = "stopped"
    /\ \/ /\ phase = "running" /\ sessions[handle].state = "active"
          /\ ses' = [sessions EXCEPT ![handle] = Terminalized(@, "failed")]
          /\ job' = SweepJob({handle})
       \/ ses' = sessions /\ job' = None

(* The error ends the store call.  start_monitor_operation lets it through  *)
(* to its caller without stopping the recorder; every other caller stops.   *)
Ends(sessions) ==
    IF job.unit.t = "operation_started"
      THEN /\ ses' = sessions /\ job' = None /\ UNCHANGED phase
           /\ spent' = [spent EXCEPT !.fault = @ + 1, !.swallowed = 1]
      ELSE Fatal(sessions) /\ Spend("fault")

(* A persistence error in the transaction fails the session the unit was    *)
(* for, if that write succeeds.                                             *)
AppendFails ==
    /\ job # None /\ job.step = "append" /\ CanFail
    /\ \E after \in {ses, [ses EXCEPT ![job.pred] = PersistenceFailed(@)]} :
          Ends(after)
    /\ UNCHANGED <<handle, wire, baseline, lease, tails, used>>

(* The recorder finds that its session can no longer be appended to.        *)
FindEnded ==
    /\ Idle /\ phase \in {"running", "failing"} /\ ses[handle].state # "active"
    /\ phase' = "stopped"
    /\ UNCHANGED <<ses, handle, job, wire, baseline, lease, tails, used, spent>>

(* _record_fatal for bad input, and reconnect_timed_out: the active         *)
(* operations are completed, one append each, and then the session is       *)
(* failed.                                                                  *)
InputError ==
    /\ Idle /\ phase = "running" /\ CanFail /\ Spend("fault")
    /\ ses[handle].state = "active"
    /\ phase' = "failing"
    /\ UNCHANGED <<ses, handle, job, wire, baseline, lease, tails, used>>

FailSession ==
    /\ Idle /\ phase = "failing"
    /\ ses[handle].state = "active" /\ DOMAIN ses[handle].ops = {}
    /\ ses' = [ses EXCEPT ![handle] = Terminalized(@, "failed")]
    /\ phase' = "stopped" /\ job' = SweepJob({handle})
    /\ UNCHANGED <<handle, wire, baseline, lease, tails, used, spent>>

(***************************************************************************)
(* _rollover_v2_locked, one durable write at a time.                       *)
(***************************************************************************)
RolloverCreate ==
    /\ job # None /\ job.step = "create" /\ Len(ses) < MaxSessions
    /\ ses' = Append(ses, NewSession(job.pred))
    /\ job' = [job EXCEPT !.step = "announce", !.succ = Len(ses) + 1]
    /\ UNCHANGED <<handle, phase, wire, baseline, lease, tails, used, spent>>

RolloverAnnounce ==
    /\ job # None /\ job.step = "announce"
    /\ ses' = [ses EXCEPT ![job.succ] =
                 Announced(@, ses[job.pred], job.unit.t = "reopened")]
    /\ job' = [job EXCEPT !.step = "continue"]
    /\ UNCHANGED <<handle, phase, wire, baseline, lease, tails, used, spent>>

Uncontinued == DOMAIN ses[job.pred].ops \ DOMAIN ses[job.succ].ops

RolloverContinue ==
    /\ job # None /\ job.step = "continue"
    /\ \E op \in Uncontinued :
          ses' = [ses EXCEPT ![job.succ] = Continued(@, job.succ, ses[job.pred], op)]
    /\ UNCHANGED <<handle, phase, job, wire, baseline, lease, tails, used, spent>>

(* The predecessor is completed and linked; then the retention pass, which  *)
(* holds the successor, and then the unit itself.                           *)
RolloverLink ==
    /\ job # None /\ job.step = "continue" /\ Uncontinued = {}
    /\ ses' = [ses EXCEPT ![job.pred] = Linked(@, job.succ)]
    /\ job' = Job("sweep", job.unit, job.succ, job.succ, {job.succ})
    /\ UNCHANGED <<handle, phase, wire, baseline, lease, tails, used, spent>>

(* One of the rollover's writes fails: creating the successor or carrying   *)
(* an operation over fails the predecessor (and the successor the append    *)
(* was for); a failing link fails nothing but leaves both active.           *)
RolloverFails ==
    /\ job # None /\ job.step \in {"create", "announce", "continue"} /\ CanFail
    /\ \/ /\ job.step = "create"
          /\ Ends([ses EXCEPT ![job.pred] = PersistenceFailed(@)])
       \/ /\ job.step = "announce" \/ (job.step = "continue" /\ Uncontinued # {})
          /\ Ends([ses EXCEPT ![job.succ] = PersistenceFailed(@),
                               ![job.pred] = PersistenceFailed(@)])
       \/ /\ job.step = "continue" /\ Uncontinued = {}
          /\ Ends(ses)
    /\ UNCHANGED <<handle, wire, baseline, lease, tails, used>>

(***************************************************************************)
(* _apply_retention_locked.                                                *)
(***************************************************************************)
(* What follows the pass: the unit that asked for the rollover goes to the  *)
(* successor; append_v2_segment has nothing left to append and publishes it.*)
HandleAfterSweep ==
    IF job.unit # None THEN IF job.unit.t = "reopened" THEN job.succ ELSE handle ELSE handle
AfterSweep ==
    IF job.unit = None THEN None
    ELSE IF job.unit.t = "reopened" THEN None
    ELSE [job EXCEPT !.step = "append", !.held = {}]

Sweep ==
    /\ job # None /\ job.step = "sweep"
    /\ ses' = IF RetentionFault THEN ses
              ELSE [s \in DOMAIN ses |-> IF s \in Doomed(job.held) THEN Gone(ses[s])
                                                                   ELSE ses[s]]
    /\ handle' = HandleAfterSweep /\ job' = AfterSweep
    /\ UNCHANGED <<phase, wire, baseline, lease, tails, used, spent>>

(* remove_session_directory fails at one of the sessions: the older ones    *)
(* are gone, rmtree may have left this one's tree whole, in part or, when   *)
(* the directory's sync failed, not at all, and the pass reports a fault    *)
(* and deletes no more.                                                     *)
SweepFails ==
    /\ job # None /\ job.step = "sweep" /\ CanFail /\ ~RetentionFault
    /\ \E bad \in Doomed(job.held), left \in {"whole", "damaged", "gone"} :
          ses' = [s \in DOMAIN ses |->
                     IF s = bad THEN [ses[s] EXCEPT !.disk = left]
                     ELSE IF s \in Doomed(job.held) /\ s < bad THEN Gone(ses[s])
                     ELSE ses[s]]
    /\ handle' = HandleAfterSweep /\ job' = AfterSweep /\ Spend("fault")
    /\ UNCHANGED <<phase, wire, baseline, lease, tails, used>>

(***************************************************************************)
(* Readers' leases and the baseline.                                       *)
(***************************************************************************)
(* _release_v2_monitor_range_lease: the operation ended, so its reader is   *)
(* closed.                                                                  *)
CloseReader ==
    /\ job = None
    /\ \E op \in Ops :
          /\ lease[op] # {}
          /\ \A s \in Existing : ses[s].state = "active" => op \notin DOMAIN ses[s].ops
          /\ lease' = [lease EXCEPT ![op] = {}]
    /\ UNCHANGED <<ses, handle, phase, job, wire, baseline, tails, used, spent>>

(* mark_baseline, then retention.  Any thread may call it between appends.  *)
MarkBaseline ==
    /\ Idle /\ spent.mark < MaxMarks
    /\ \E s \in Existing : Eligible(s) /\ s # baseline /\ baseline' = s
    /\ job' = SweepJob({}) /\ Spend("mark")
    /\ UNCHANGED <<ses, handle, phase, wire, lease, tails, used>>

ClearBaseline ==
    /\ Idle /\ baseline # None
    /\ baseline' = None
    /\ job' = SweepJob({})
    /\ UNCHANGED <<ses, handle, phase, wire, lease, tails, used, spent>>

(***************************************************************************)
(* The end of the process.                                                 *)
(***************************************************************************)
(* A clean close: no operation is running, the session is completed.        *)
Shutdown ==
    /\ Idle /\ phase = "running"
    /\ ses[handle].state = "active" /\ DOMAIN ses[handle].ops = {}
    /\ ses' = [ses EXCEPT ![handle] = Terminalized(@, "completed")]
    /\ job' = SweepJob({handle}) /\ phase' = "stopped"
    /\ UNCHANGED <<handle, wire, baseline, lease, tails, used, spent>>

(* The process dies, or a service that stopped is started again: only the   *)
(* directories and the baseline pointer survive.                            *)
Restart ==
    /\ spent.crash < MaxCrashes /\ Len(ses) > 0
    /\ phase' = "boot" /\ job' = Job("recover", None, None, 1, {})
    /\ spent' = [spent EXCEPT !.crash = @ + 1, !.swallowed = IF @ = 0 THEN 0 ELSE 2]
    /\ handle' = None /\ lease' = [op \in Ops |-> {}] /\ tails' = {} /\ wire' = TRUE
    /\ UNCHANGED <<ses, baseline, used>>

JournalNext ==
    \/ RecoverSession \/ RecoveryDone \/ RecoveryFails \/ CreateFirst
    \/ Offer \/ AppendUnit \/ AppendFails \/ FindEnded \/ InputError \/ FailSession
    \/ RolloverCreate \/ RolloverAnnounce \/ RolloverContinue \/ RolloverLink
    \/ RolloverFails \/ Sweep \/ SweepFails
    \/ CloseReader \/ MarkBaseline \/ ClearBaseline \/ Shutdown \/ Restart

(* The lock is released by every path: a call that has begun goes on.       *)
StoreSteps ==
    \/ RecoverSession \/ RecoveryDone \/ CreateFirst \/ AppendUnit \/ RolloverCreate
    \/ RolloverAnnounce \/ RolloverContinue \/ RolloverLink \/ Sweep

(* Of the journal alone only startup is expected to end.                    *)
JournalSpec == Init /\ [][JournalNext]_vars /\ WF_vars(phase = "boot" /\ StoreSteps)

-----------------------------------------------------------------------------
(***************************************************************************)
(* Properties.                                                             *)
(***************************************************************************)
EvidenceRange == [s : DOMAIN ses, from : Nat, to : Nat \union {None}]

(* The shape of the journal's state.                                        *)
TypeOK ==
    /\ phase \in {"boot", "running", "failing", "stopped", "down"}
    /\ handle \in DOMAIN ses \union {None} /\ baseline \in DOMAIN ses \union {None}
    /\ wire \in BOOLEAN /\ used \subseteq Ops \union Attempts
    /\ lease \in [Ops -> SUBSET DOMAIN ses] /\ tails \subseteq DOMAIN ses
    /\ \A s \in DOMAIN ses :
          /\ ses[s].state \in States /\ ses[s].disk \in {"whole", "damaged", "gone"}
          /\ Len(ses[s].log) <= Budget /\ ses[s].segs \in 1..MaxSegments
          /\ \A op \in DOMAIN ses[s].ops : ses[s].ops[op] \in Seq(EvidenceRange)

Entry(s, n) == ses[s].log[n + 1]
Bookkeeping == {"rollover_succeeded", "operation_continued"}

(* The evidence ranges a session, or a terminal record, claims for an       *)
(* operation.                                                               *)
ClaimedRanges(op) ==
    {ses[s].ops[op] : s \in {x \in DOMAIN ses : op \in DOMAIN ses[x].ops}}
    \union {ses[s].cut[op] : s \in {x \in DOMAIN ses : op \in DOMAIN ses[x].cut}}
    \union {Entry(x[1], x[2]).ref :
               x \in {y \in (DOMAIN ses) \X (0..(Budget - 1)) :
                         /\ y[2] < Len(ses[y[1]].log)
                         /\ Entry(y[1], y[2]).t = "operation_terminal"
                         /\ Entry(y[1], y[2]).id = op}}

(* The ranges of an operation, wherever they are claimed, leave out nothing *)
(* between its start and its end: they begin at its start record, each one  *)
(* but the last runs to the end of its session, and the next begins at the  *)
(* operation's continuation in the session that followed, before which      *)
(* there is only the rollover's own bookkeeping.                            *)
RangesContiguous ==
    \A op \in Ops : \A rs \in ClaimedRanges(op) :
        /\ Entry(rs[1].s, rs[1].from).t = "operation_started"
        /\ Entry(rs[1].s, rs[1].from).id = op
        /\ \A i \in 2..Len(rs) :
              /\ ses[rs[i].s].pred = rs[i - 1].s
              /\ rs[i - 1].to = Len(ses[rs[i - 1].s].log)
              /\ Entry(rs[i].s, rs[i].from).t = "operation_continued"
              /\ Entry(rs[i].s, rs[i].from).id = op
              /\ \A n \in 0..(rs[i].from - 1) : Entry(rs[i].s, n).t \in Bookkeeping

Ended(op) == \E s \in DOMAIN ses : \E n \in DOMAIN ses[s].log :
                ses[s].log[n].t = "operation_terminal" /\ ses[s].log[n].id = op
Started(op) == \E s \in DOMAIN ses : \E n \in DOMAIN ses[s].log :
                ses[s].log[n].t = "operation_started" /\ ses[s].log[n].id = op

Interrupted(op) == \E s \in DOMAIN ses : op \in DOMAIN ses[s].cut

(* While the recorder runs, at most one session is active, the one the      *)
(* recorder appends to, and an operation that was started is owned by it,   *)
(* or has its terminal record, or was interrupted with its session, and     *)
(* only one of these: whatever crashed or failed between the steps of a     *)
(* rollover, restart leaves no second owner and loses no operation.  After  *)
(* a start whose failure was let through there may be a second owner until  *)
(* the next restart, and an operation that ended and was interrupted too.   *)
OneOwner ==
    phase = "running" /\ job = None /\ spent.swallowed # 1 =>
        /\ \A s \in Existing : ses[s].state = "active" => s = handle
        /\ \A op \in Ops : Started(op) =>
              /\ op \in DOMAIN ses[handle].ops => ~Ended(op) /\ ~Interrupted(op)
              /\ op \notin DOMAIN ses[handle].ops => Ended(op) \/ Interrupted(op)
              /\ spent.swallowed = 0 => ~(Ended(op) /\ Interrupted(op))

(* A link is mutual and ends the session it leaves: following successors    *)
(* from any session is a path through completed sessions to the one the     *)
(* recorder appends to, or to one that ended without a successor.           *)
LinksFormPaths ==
    \A s \in DOMAIN ses : ses[s].succ # None =>
        /\ ses[s].state = "completed" /\ ses[ses[s].succ].pred = s
        /\ ses[s].ops = Empty /\ ses[s].pend = Empty

(* A result refers to the record of its own attempt, however many           *)
(* rollovers lie between them, and an attempt still pending in an active    *)
(* session can be resolved: its record is there.                            *)
ResultsResolve ==
    \A s \in DOMAIN ses :
        /\ \A n \in DOMAIN ses[s].log :
              ses[s].log[n].t \in {"uart_tx_result", "control_result"} =>
              LET ref == ses[s].log[n].ref
              IN  Entry(ref.s, ref.seq).t = (IF ses[s].log[n].t = "uart_tx_result"
                                               THEN "uart_tx_attempt" ELSE "control_attempt")
                  /\ Entry(ref.s, ref.seq).id = ses[s].log[n].id
        /\ Exists(s) /\ ses[s].state = "active" =>
              \A a \in DOMAIN ses[s].pend :
                 Exists(ses[s].pend[a].s)
                 /\ Entry(ses[s].pend[a].s, ses[s].pend[a].seq).id = a

(* Retention never takes what something still needs: the evidence of an     *)
(* active operation, of an operation just completed whose reader is open,   *)
(* a session a snapshot is being read from, and the baseline.               *)
NeededSessionsKept ==
    /\ \A s \in Existing : ses[s].state = "active" =>
          \A op \in DOMAIN ses[s].ops : \A x \in RangeSessions(ses[s].ops[op]) :
             Exists(x) /\ ses[x].disk = "whole"
    /\ \A op \in Ops : lease[op] # {} /\ Ended(op) =>
          \A rs \in ClaimedRanges(op) : \A x \in RangeSessions(rs) : ses[x].disk = "whole"
    /\ \A s \in tails : ses[s].disk = "whole"
    /\ baseline # None => ses[baseline].disk = "whole"

(* A session that may serve as the baseline was connected for as long as it *)
(* was written: a rollover while the source is away carries the unobserved  *)
(* interval into the successor.                                             *)
EligibleWasConnected ==
    job = None => \A s \in Existing :
        Eligible(s) => \A n \in DOMAIN ses[s].log : ses[s].log[n].live

(* The count stays within the limit, or what is left is protected: after a  *)
(* pass that found every session readable nothing it could delete is kept.  *)
SweepIsComplete ==
    [][(job # None /\ job.step = "sweep" /\ ~RetentionFault /\ spent' = spent)
         => Cardinality(Existing') <= MaxCount \/ Existing' \subseteq Protected(job.held)]_vars

(* A startup ends: recovery, its retention pass and the first session.      *)
StartupEnds == (phase = "boot" /\ Len(ses) < MaxSessions) ~> (phase # "boot" \/ Len(ses) = MaxSessions)

(* However rollovers, failures, crashes and recovery interleave, the        *)
(* sessions form one journal: operations keep their whole evidence, have    *)
(* one owner, and results find their attempts across the links.             *)
JournalIsWhole ==
    TypeOK /\ RangesContiguous /\ OneOwner /\ LinksFormPaths /\ ResultsResolve

(* Retention deletes nothing that is needed and everything that may go, and *)
(* offers as the baseline only a session without an unobserved interval.    *)
RetentionIsSound ==
    [](NeededSessionsKept /\ EligibleWasConnected) /\ SweepIsComplete
=============================================================================
