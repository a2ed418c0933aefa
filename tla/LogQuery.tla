----------------------------- MODULE LogQuery ------------------------------
(***************************************************************************)
(* Queries of the session store while evidence is being recorded.          *)
(*                                                                         *)
(* The recorder frames received bytes into lines, counts the lines that    *)
(* are too long, detects patterns, and admits each event with these        *)
(* derived facts in one transaction of the current session                 *)
(* (recorder._record_event, store.append_v2_uart_receive).  An event that  *)
(* would exceed the budget first ends the open lines and may then move to  *)
(* a successor session.                                                    *)
(*                                                                         *)
(* Three queries read what is stored.  get_logs (log_replay.py) frames the *)
(* stored bytes again and refuses the session when it finds another number *)
(* of oversized lines than the recorder counted.  list_sessions pages      *)
(* through the sessions, newest first.  get_session (retrieval.py) reads   *)
(* the files of one session one after the other.  The service runs the     *)
(* queries under the store's lock; the debug agent runs get_session in a   *)
(* process of its own, so that its reads interleave with the writes of a   *)
(* transaction, and only the transaction's marker and a second reading of  *)
(* the metadata tell it whether what it read belongs together.             *)
(*                                                                         *)
(* The three streams of non-UART records are one file here.  The protocol  *)
(* of a rollover, and what retention protects, are in SessionJournal; the  *)
(* files and the failures of a transaction in EvidenceTransaction.         *)
(***************************************************************************)
EXTENDS UartLines, FiniteSetsExt, TLC

CONSTANTS
    None,
    Channels,     \* UART channels
    Received,     \* the events that may be received: <<channel, data>>
    Budget,       \* evidence_budget_bytes
    Lines,        \* the number of lines a get_logs asks for
    PageLimit,    \* the sessions of one list page
    Attempts,     \* _SNAPSHOT_ATTEMPTS
    MaxLoad,      \* bound: units to admit and queries of several steps
    MaxSessions   \* bound: sessions ever created

ASSUME QueryAssumption ==
    /\ Channels \subseteq Nat /\ IsFiniteSet(Channels)
    /\ Lines \in Nat \ {0} /\ PageLimit \in Nat \ {0} /\ Attempts \in Nat \ {0}

VARIABLES
    ses,      \* the sessions, in the order of their creation
    handle,   \* the recorder's session
    proc,     \* the recorder's capture processor
    todo,     \* units the recorder still has to admit, in order
    stage,    \* file operations left in the transaction of Head(todo)
    before,   \* the session's files when the transaction began
    phase,    \* "running" | "closing" | "stopped"
    events,   \* units received so far
    known,    \* the runtime's _active_session_id
    query,    \* the query being made
    answer,   \* the answer just given
    queries,  \* queries made so far
    split     \* history: sessions in which an open line was cut and continued

recorderVars == <<ses, handle, proc, todo, stage, before, phase, events, split>>
queryVars == <<known, query, answer, queries>>
vars == <<recorderVars, queryVars>>

Sessions == 1..Len(ses)
Stored == {s \in Sessions : ~ses[s].gone}
Terminal(s) == ses[s].meta.state # "active"
RecordSize == 1

(***************************************************************************)
(* Files of a session.                                                     *)
(***************************************************************************)
NewMeta == [state |-> "active", next |-> 0, over |-> 0, written |-> 0, segs |-> 1]

(* create_v2_session; started_at comes from a clock that may be set back.   *)
NewSession(key) ==
    [key |-> key, gone |-> FALSE, marker |-> FALSE, meta |-> NewMeta,
     raw |-> <<>>, uart |-> <<>>, rec |-> <<>>, pats |-> <<>>]

(* refresh_storage_accounting.                                              *)
FileBytes(f) ==
    Len(f.raw) + RecordSize * (Len(f.uart) + Len(f.rec)) + Len(f.pats)

(* _current_v2_segment_id.                                                  *)
CurrentSegment(f) == f.meta.segs - 1

Unit(t) == [t |-> t, c |-> 0, data |-> <<>>, matches |-> <<>>, oversized |-> <<>>,
            newly |-> 0, cut |-> None]

UartUnit(c, data, result, cut) ==
    [Unit("uart") EXCEPT !.c = c, !.data = data, !.matches = result.matches,
        !.oversized = result.oversized, !.newly = result.newly, !.cut = cut]

(* The bytes _v2_uart_unit adds up, or the size of the one record.          *)
UnitSize(u) ==
    IF u.t = "close" THEN 0
    ELSE RecordSize * (1 + Len(u.oversized)) + Len(u.data) + Len(u.matches)

(* _v2_unit_fits.                                                           *)
UnitFits(f, u) == f.meta.written + UnitSize(u) <= Budget

(* The record of a UART unit, with its place in the raw bytes.              *)
UartRecord(f, u) ==
    [seq |-> f.meta.next, seg |-> CurrentSegment(f), c |-> u.c, data |-> u.data,
     from |-> Len(f.raw), to |-> Len(f.raw) + Len(u.data)]

(* line_limit_exceeded_event_json: the record of an oversized line.         *)
LimitRecord(seq) == [seq |-> seq, t |-> "limit"]

(* The records that follow in the other streams, numbered from first.       *)
OtherRecords(u, first) ==
    IF u.t = "uart"
    THEN [k \in 1..Len(u.oversized) |-> LimitRecord(first + k)]
    ELSE <<[seq |-> first, t |-> u.t]>>

(* _v2_pattern_document.                                                    *)
PatternRecords(f, u) ==
    [k \in 1..Len(u.matches) |-> [src |-> f.meta.next, nth |-> u.matches[k].nth]]

\* Mutant: the metadata counts the oversized lines that end in the event.
CommittedMetaFinished(f, u) ==
    [f.meta EXCEPT !.next = @ + 1 + Len(u.oversized), !.over = @ + Len(u.oversized),
        !.written = FileBytes(f), !.segs = @ + (IF u.t = "segment" THEN 1 ELSE 0)]

(* The metadata a unit commits; a new segment is published with its record. *)
CommittedMeta(f, u) ==
    [f.meta EXCEPT !.next = @ + 1 + Len(u.oversized), !.over = @ + u.newly,
        !.written = FileBytes(f), !.segs = @ + (IF u.t = "segment" THEN 1 ELSE 0)]

(* The file operations of the transaction of unit u, in order.              *)
TransactionSteps(u) ==
    (IF u.t = "uart" THEN <<"raw", "uart">> ELSE <<>>)
    \o (IF u.t # "uart" \/ u.oversized # <<>> THEN <<"rec">> ELSE <<>>)
    \o (IF u.matches # <<>> THEN <<"pats">> ELSE <<>>)
    \o <<"meta", "clear">>

(* One file operation.  b holds the files before the transaction, on which  *)
(* records, offsets and metadata are computed.                              *)
FileStep(f, b, u, op) ==
    CASE op = "raw"   -> [f EXCEPT !.raw = @ \o u.data]
      [] op = "uart"  -> [f EXCEPT !.uart = Append(@, UartRecord(b, u))]
      [] op = "rec"   -> [f EXCEPT !.rec = @ \o OtherRecords(u, b.meta.next)]
      [] op = "pats"  -> [f EXCEPT !.pats = @ \o PatternRecords(b, u)]
      [] op = "meta"  -> [f EXCEPT !.meta = CommittedMeta(f, u)]
      [] op = "clear" -> [f EXCEPT !.marker = FALSE]
      \* rollback, then the session is failed
      [] op = "truncate" -> [f EXCEPT !.raw = b.raw, !.uart = b.uart, !.rec = b.rec]
      [] op = "restore"  -> [f EXCEPT !.pats = b.pats]
      [] op = "revert"   -> [f EXCEPT !.meta = b.meta]
      [] op = "unmark"   -> [f EXCEPT !.marker = FALSE]
      [] op = "fail"     -> [f EXCEPT !.meta.state = "failed"]

(***************************************************************************)
(* The recorder.                                                           *)
(***************************************************************************)
Open(p) == \E c \in Channels : HasUnterminatedLine(p.bufs[c])

(* append_v2_line_boundary: one record for each oversized line that ends.   *)
Boundaries(p) == [k \in 1..Len(FlushAll(p)) |-> Unit("limit")]

Idle == phase = "running" /\ todo = <<>> /\ events + queries < MaxLoad

Init ==
    /\ ses = <<[NewSession(2) EXCEPT !.meta.state = "completed"], NewSession(4)>>
    /\ handle = 2 /\ proc = NewProcessor(Channels)
    /\ todo = <<>> /\ stage = <<>> /\ before = None /\ phase = "running" /\ events = 0
    /\ known = 2 /\ query = None /\ answer = None /\ queries = 0 /\ split = {}

(* _record_event: whether the unit fits is asked with the open lines        *)
(* continued; if it does not, they end and the event is framed afresh.      *)
Receive(c, data) ==
    /\ Idle
    /\ LET cand  == ProcessEvent(proc, c, data)
           fresh == ProcessEvent(NewProcessor(Channels), c, data)
           unit  == UartUnit(c, data, cand.result, None)
           cut   == IF Open(proc) THEN handle ELSE None
       IN  IF UnitFits(ses[handle], unit)
           THEN todo' = <<unit>> /\ proc' = cand.proc
           ELSE /\ todo' = Boundaries(proc) \o <<UartUnit(c, data, fresh.result, cut)>>
                /\ proc' = fresh.proc
    /\ events' = events + 1 /\ answer' = None
    /\ UNCHANGED <<ses, handle, stage, before, phase, known, query, queries, split>>

(* A record of another stream (an attempt, a result, telemetry, a Monitor): *)
(* it ends the open lines only when it does not fit.                        *)
RecordOther ==
    /\ Idle
    /\ IF UnitFits(ses[handle], Unit("other"))
       THEN todo' = <<Unit("other")>> /\ UNCHANGED proc
       ELSE /\ todo' = Boundaries(proc) \o <<Unit("other")>>
            /\ proc' = NewProcessor(Channels)
    /\ events' = events + 1 /\ answer' = None
    /\ UNCHANGED <<ses, handle, stage, before, phase, known, query, queries, split>>

(* _record_disconnect, and the segment of the connection that replaces it.  *)
Reconnect ==
    /\ Idle
    /\ todo' = Boundaries(proc) \o <<Unit("other"), Unit("segment")>>
    /\ proc' = NewProcessor(Channels)
    /\ events' = events + 1 /\ answer' = None
    /\ UNCHANGED <<ses, handle, stage, before, phase, known, query, queries, split>>

(* close: the last lines end and the session is completed.                  *)
Close ==
    /\ phase = "running" /\ todo = <<>>
    /\ todo' = Boundaries(proc) \o <<Unit("close")>>
    /\ proc' = NewProcessor(Channels)
    /\ phase' = "closing" /\ answer' = None
    /\ UNCHANGED <<ses, handle, stage, before, events, known, query, queries, split>>

LockFree == stage = <<>>

(* _rollover_v2_locked, without operations to carry over.                   *)
RollOver ==
    /\ LockFree /\ todo # <<>> /\ ~UnitFits(ses[handle], Head(todo))
    /\ Len(ses) < MaxSessions
    /\ LET used == {ses[s].key : s \in Sessions}
       IN  \E key \in {Max(used) + 2, Max(used) - 1} \ used :
              ses' = Append([ses EXCEPT ![handle].meta.state = "completed"], NewSession(key))
    /\ handle' = Len(ses) + 1 /\ answer' = None
    /\ UNCHANGED <<proc, todo, stage, before, phase, events, known, query, queries, split>>

(* append_v2_uart_receive and _append_v2_record_locked up to the marker.    *)
Begin ==
    /\ LockFree /\ todo # <<>> /\ Head(todo).t # "close"
    /\ UnitFits(ses[handle], Head(todo))
    /\ stage' = TransactionSteps(Head(todo))
    /\ before' = ses[handle]
    /\ ses' = [ses EXCEPT ![handle].marker = TRUE]
    /\ split' = IF Head(todo).cut = handle THEN split \union {handle} ELSE split
    /\ answer' = None
    /\ UNCHANGED <<handle, proc, todo, phase, events, known, query, queries>>

(* The next file operation of the transaction, of its rollback, or of the   *)
(* failing of the session after it.                                         *)
Write ==
    /\ stage # <<>>
    /\ ses' = [ses EXCEPT ![handle] = FileStep(@, before, Head(todo), Head(stage))]
    /\ stage' = Tail(stage)
    /\ todo' = CASE Head(stage) = "clear" -> Tail(todo)
                 [] Head(stage) = "fail"  -> <<>>
                 [] OTHER                 -> todo
    /\ before' = IF Len(stage) = 1 THEN None ELSE before
    /\ phase' = IF Head(stage) = "fail" THEN "stopped" ELSE phase
    /\ query' = IF Head(stage) = "unmark" /\ query # None
                THEN [query EXCEPT !.undone = TRUE] ELSE query
    /\ answer' = None
    /\ UNCHANGED <<handle, proc, events, known, queries, split>>

(* A file operation fails: evidence_transaction rolls back and the store    *)
(* fails the session (_fail_active_v2_persistence_locked).                  *)
WriteFails ==
    /\ stage # <<>> /\ Head(stage) \in {"raw", "uart", "rec", "pats", "meta"}
    /\ stage' = <<"truncate">> \o (IF Head(todo).matches # <<>> THEN <<"restore">> ELSE <<>>)
                \o <<"revert", "unmark", "fail">>
    /\ answer' = None
    /\ UNCHANGED <<ses, handle, proc, todo, before, phase, events, known, query, queries, split>>

(* complete_session, once the last lines are recorded.                      *)
Complete ==
    /\ LockFree /\ todo # <<>> /\ Head(todo).t = "close"
    /\ ses' = [ses EXCEPT ![handle].meta.state = "completed"]
    /\ todo' = <<>> /\ phase' = "stopped" /\ answer' = None
    /\ UNCHANGED <<handle, proc, stage, before, events, known, query, queries, split>>

(* run_retention deletes a session that is over.                            *)
Retention(s) ==
    /\ LockFree /\ s \in Stored /\ s # handle /\ Terminal(s)
    /\ ses' = [ses EXCEPT ![s].gone = TRUE] /\ answer' = None
    /\ UNCHANGED <<handle, proc, todo, stage, before, phase, events, known, query, queries, split>>

(* status() alone refreshes the runtime's idea of the active session.       *)
Status ==
    /\ known' = IF phase = "stopped" THEN None ELSE handle
    /\ known' # known
    /\ answer' = None
    /\ UNCHANGED <<recorderVars, query, queries>>

(***************************************************************************)
(* get_logs.                                                               *)
(***************************************************************************)
Earlier(a, b) == a.seq < b.seq \/ (a.seq = b.seq /\ a.nth < b.nth)

NoneKept == [kept |-> {}, omitted |-> 0]

(* _BoundedNewest.add.                                                      *)
AddNewest(h, r) ==
    LET oldest == CHOOSE x \in h.kept : \A y \in h.kept : x = y \/ Earlier(x, y)
    IN  IF Cardinality(h.kept) < Lines
        THEN [h EXCEPT !.kept = @ \union {r}]
        ELSE [kept |-> IF Earlier(oldest, r) THEN (h.kept \ {oldest}) \union {r} ELSE h.kept,
              omitted |-> h.omitted + 1]

(* _normal_record and _oversized_record: the line with its segment and      *)
(* channel.                                                                 *)
AddLines(h, lines, key) == FoldLeft(LAMBDA acc, l : AddNewest(acc, l @@ [key |-> key]), h, lines)

(* One UART record of the prefix; ingestion indices are evidence sequences. *)
ReplayEvent(acc, e) ==
    LET key == <<e.seg, e.c>>
        buf == IF key \in DOMAIN acc.bufs THEN acc.bufs[key] ELSE EmptyBuffer
        fed == FeedResult(buf, e.data, e.seq)
    IN  [acc EXCEPT !.bufs = (key :> fed.buf) @@ @,
                    !.order = IF key \in DOMAIN acc.bufs THEN @ ELSE Append(@, key),
                    !.complete = AddLines(@, fed.lines, key),
                    !.oversized = AddLines(@, fed.oversized, key)]

(* The line a buffer still holds at the end of the prefix.                  *)
ReplayFlush(acc, key) ==
    LET flushed == FlushResult(acc.bufs[key])
    IN  [acc EXCEPT !.partial = AddLines(@, flushed.lines, key),
                    !.oversized = AddLines(@, flushed.oversized, key)]

(* _replay_uart_prefix.                                                     *)
Replay(f) ==
    LET fed == FoldLeft(ReplayEvent,
                        [bufs |-> <<>>, order |-> <<>>, complete |-> NoneKept,
                         partial |-> NoneKept, oversized |-> NoneKept], f.uart)
    IN  FoldLeft(ReplayFlush, fed, fed.order)

Values(h) == SetToSortSeq(h.kept, Earlier)
Count(h) == Cardinality(h.kept) + h.omitted

(***************************************************************************)
(* What a session's files must satisfy (retrieval.py).                     *)
(***************************************************************************)
(* _validate_v2_primary_order.                                              *)
OrderValid(meta, uart, rec) ==
    /\ {uart[i].seq : i \in 1..Len(uart)} \union {rec[i].seq : i \in 1..Len(rec)}
          = 0..(meta.next - 1)
    /\ Len(uart) + Len(rec) = meta.next

(* _validate_v2_uart_records.                                               *)
UartValid(raw, uart) ==
    /\ \A i \in 1..Len(uart) :
          /\ uart[i].from = (IF i = 1 THEN 0 ELSE uart[i - 1].to)
          /\ uart[i].to \in (uart[i].from + 1)..Len(raw)
          /\ uart[i].data = SubSeq(raw, uart[i].from + 1, uart[i].to)
    /\ Len(raw) = (IF uart = <<>> THEN 0 ELSE Last(uart).to)

(* _validate_storage.                                                       *)
StorageValid(meta, bytes) == meta.written = bytes

DetailValid(f) ==
    OrderValid(f.meta, f.uart, f.rec) /\ UartValid(f.raw, f.uart)
    /\ StorageValid(f.meta, FileBytes(f))

(* v2_first_error: the earliest match by primary evidence order.            *)
FirstError(pats) ==
    IF pats = <<>> THEN None
    ELSE CHOOSE e \in ToSet(pats) : \A d \in ToSet(pats) :
            e.src < d.src \/ (e.src = d.src /\ e.nth <= d.nth)

(* _v2_summary.                                                             *)
Summary(s, meta, pats) ==
    [s |-> s, state |-> meta.state, segs |-> meta.segs, over |-> meta.over,
     first |-> FirstError(pats)]

(* _v2_list_item of a session at rest.                                      *)
ListItem(s) == Summary(s, ses[s].meta, ses[s].pats)

(* _existing_paths refuses a session that is not stored.                    *)
Explicit(s) == IF s \in Stored THEN s ELSE None

(* _latest_terminal_native.                                                 *)
LatestTerminal ==
    LET over == {s \in Stored : Terminal(s)}
    IN  IF over = {} THEN None
        ELSE CHOOSE s \in over : \A r \in over : ses[r].key <= ses[s].key

(* _select_session; the active session is what the runtime last knew of.    *)
Select(s) ==
    CASE s # None -> Explicit(s)
      [] s = None /\ known # None /\ known \in Stored /\ ~Terminal(known) -> known
      [] OTHER -> LatestTerminal

(* _stable_uart_snapshot: under the lock no transaction is active, and the  *)
(* first attempt stands.                                                    *)
Snapshot(s) == ses[s]

(* _validate_snapshot_storage.                                              *)
SnapshotValid(f) == f.meta.written = FileBytes(f)

(* replay_recent_logs for a selected session, at rest under the lock.       *)
Logs(s) ==
    LET f == Snapshot(s)
        r == Replay(f)
        known_segments == \A i \in 1..Len(f.uart) : f.uart[i].seg \in 0..(f.meta.segs - 1)
        ok == /\ Terminal(s) => DetailValid(f)
              /\ SnapshotValid(f)
              /\ known_segments
              /\ Count(r.oversized) = f.meta.over
    IN  [k |-> "logs", s |-> s, r |-> r, res |-> IF ok THEN "ok" ELSE "fault"]

(* DeviceCoreRuntime.recent_logs.                                           *)
RecentLogs(s) ==
    /\ query = None /\ LockFree
    /\ answer' = IF Select(s) = None THEN [k |-> "not_found"] ELSE Logs(Select(s))
    /\ UNCHANGED <<recorderVars, known, query, queries>>

(***************************************************************************)
(* list_sessions.                                                          *)
(***************************************************************************)

(* The cursor names the key of the last session listed, not a place in the  *)
(* list.                                                                    *)
BelowCursor(bound) == {s \in Stored : bound = None \/ ses[s].key < bound}

(* list_session_page: the sessions below the cursor, newest first.          *)
Page(bound) ==
    LET items == BelowCursor(bound)
        sorted == SetToSortSeq(items, LAMBDA a, b : ses[a].key > ses[b].key)
        page == SubSeq(sorted, 1, IF Len(sorted) < PageLimit THEN Len(sorted) ELSE PageLimit)
    IN  [items |-> page,
         cursor |-> IF Len(sorted) > PageLimit THEN ses[Last(page)].key ELSE None]

ListStart ==
    /\ query = None /\ events + queries < MaxLoad
    /\ query' = [k |-> "list", bound |-> None, seen |-> <<>>, from |-> Stored, undone |-> FALSE]
    /\ queries' = queries + 1 /\ answer' = None
    /\ UNCHANGED <<recorderVars, known>>

(* The client asks for the next page, under the lock; the last one has no   *)
(* cursor.                                                                  *)
ListPage ==
    /\ query # None /\ query.k = "list" /\ LockFree
    /\ LET page == Page(query.bound)
           seen == query.seen \o [i \in 1..Len(page.items) |-> ListItem(page.items[i])]
       IN  IF page.cursor = None
           THEN /\ answer' = [k |-> "list", seen |-> seen, from |-> query.from]
                /\ query' = None
           ELSE /\ answer' = None
                /\ query' = [query EXCEPT !.seen = seen, !.bound = page.cursor]
    /\ UNCHANGED <<recorderVars, known, queries>>

(***************************************************************************)
(* get_session, read by another process (_v2_detail).                      *)
(***************************************************************************)
File == ses[query.s]

Answer(res) ==
    /\ answer' = [k |-> "detail", s |-> query.s, res |-> res, meta |-> query.meta,
                  pats |-> query.pats, summary |-> Summary(query.s, query.meta, query.pats),
                  uart |-> query.uart, rec |-> query.rec, undone |-> query.undone]
    /\ query' = None

Continue(q) == query' = q /\ answer' = None

Reading(pcs) == query # None /\ query.k = "detail" /\ query.pc \in pcs

DetailStart(s) ==
    /\ query = None /\ events + queries < MaxLoad /\ s \in Stored
    /\ query' = [k |-> "detail", s |-> s, pc |-> "check", meta |-> ses[s].meta, pats |-> <<>>,
                 uart |-> <<>>, rec |-> <<>>, after |-> None, left |-> Attempts,
                 undone |-> FALSE]
    /\ queries' = queries + 1 /\ answer' = None
    /\ UNCHANGED <<recorderVars, known>>

(* The files are deleted while they are read: the next reading raises.      *)
DetailLost ==
    /\ Reading({"check", "pats", "uart", "rec", "raw", "sizes", "after", "final",
                "reread", "error", "recheck"})
    /\ File.gone
    /\ Answer("lost")
    /\ UNCHANGED <<recorderVars, known, queries>>

(* An attempt begins: a transaction's marker makes it wait.                 *)
DetailCheck ==
    /\ Reading({"check"}) /\ ~File.gone
    /\ IF query.left = 0 THEN Answer("busy")
       ELSE Continue([query EXCEPT !.left = @ - 1, !.undone = FALSE,
                                   !.pc = IF File.marker THEN "reread" ELSE "pats"])
    /\ UNCHANGED <<recorderVars, known, queries>>

DetailReread ==
    /\ Reading({"reread"}) /\ ~File.gone
    /\ Continue([query EXCEPT !.meta = File.meta, !.pc = "check"])
    /\ UNCHANGED <<recorderVars, known, queries>>

(* _build_v2_detail: one file after the other, and the checks between them. *)
DetailRead ==
    /\ Reading({"pats", "uart", "rec", "raw", "sizes"}) /\ ~File.gone
    /\ Continue(CASE query.pc = "pats" -> [query EXCEPT !.pats = File.pats, !.pc = "uart"]
                  [] query.pc = "uart" -> [query EXCEPT !.uart = File.uart, !.pc = "rec"]
                  [] query.pc = "rec" -> [query EXCEPT !.rec = File.rec,
                        !.pc = IF OrderValid(query.meta, query.uart, File.rec)
                               THEN "raw" ELSE "error"]
                  [] query.pc = "raw" -> [query EXCEPT
                        !.pc = IF UartValid(File.raw, query.uart) THEN "sizes" ELSE "error"]
                  [] query.pc = "sizes" -> [query EXCEPT
                        !.pc = IF StorageValid(query.meta, FileBytes(File))
                               THEN "after" ELSE "error"])
    /\ UNCHANGED <<recorderVars, known, queries>>

DetailAfter ==
    /\ Reading({"after"}) /\ ~File.gone
    /\ Continue([query EXCEPT !.after = File.meta, !.pc = "final"])
    /\ UNCHANGED <<recorderVars, known, queries>>

\* Mutant: the metadata is not compared with its second reading.
DetailFinalUnchecked ==
    /\ Reading({"final"}) /\ ~File.gone
    /\ Answer("ok")
    /\ UNCHANGED <<recorderVars, known, queries>>

DetailFinal ==
    /\ Reading({"final"}) /\ ~File.gone
    /\ IF ~File.marker /\ query.after = query.meta THEN Answer("ok")
       ELSE Continue([query EXCEPT !.meta = query.after, !.pc = "check"])
    /\ UNCHANGED <<recorderVars, known, queries>>

(* A check failed: with a transaction under way it is tried again.          *)
DetailError ==
    /\ Reading({"error"}) /\ ~File.gone
    /\ Continue([query EXCEPT !.pc = IF File.marker THEN "reread" ELSE "recheck"])
    /\ UNCHANGED <<recorderVars, known, queries>>

(* So it is when the metadata has changed since; otherwise it is an error.  *)
DetailRecheck ==
    /\ Reading({"recheck"}) /\ ~File.gone
    /\ IF File.meta # query.meta
       THEN Continue([query EXCEPT !.meta = File.meta, !.pc = "check"])
       ELSE Answer("invalid")
    /\ UNCHANGED <<recorderVars, known, queries>>

Next ==
    \/ \E e \in Received : Receive(e[1], e[2])
    \/ RecordOther \/ Reconnect \/ Close
    \/ RollOver \/ Begin \/ Write \/ WriteFails \/ Complete
    \/ \E s \in Sessions : Retention(s)
    \/ Status
    \/ \E s \in Sessions \union {None} : RecentLogs(s)
    \/ ListStart \/ ListPage
    \/ \E s \in Sessions : DetailStart(s)
    \/ DetailLost \/ DetailCheck \/ DetailReread \/ DetailRead \/ DetailAfter
    \/ DetailFinal \/ DetailError \/ DetailRecheck

Spec == Init /\ [][Next]_vars

(***************************************************************************)
(* Properties.                                                             *)
(***************************************************************************)
(* Sessions stay within their budget, only the session being written has a *)
(* transaction's marker, and only the recorder's session is active.         *)
TypeOK ==
    /\ handle \in Sessions /\ phase \in {"running", "closing", "stopped"}
    /\ \A s \in Sessions :
          /\ ses[s].meta.written <= Budget
          /\ ses[s].marker => s = handle /\ stage # <<>>
          /\ ~Terminal(s) => s = handle /\ ~ses[s].gone
    /\ split \subseteq Sessions /\ events + queries \in 0..MaxLoad

(* The lines of a stream of bytes, each with the event of its last byte:    *)
(* defined on the bytes alone, without a buffer.                            *)
StreamOf(f, key) ==
    FoldLeft(LAMBDA acc, e : IF <<e.seg, e.c>> # key THEN acc
                             ELSE acc \o [i \in 1..Len(e.data) |->
                                            [b |-> e.data[i], seq |-> e.seq, off |-> i - 1]],
             <<>>, f.uart)

LinesOf(f, key) ==
    LET bytes == StreamOf(f, key)
        newlines == {i \in 1..Len(bytes) : bytes[i].b = "n"}
        ends == newlines \union (IF bytes = <<>> THEN {} ELSE {Len(bytes)})
        first(e) == 1 + Max({0} \union {j \in newlines : j < e})
    IN  {[raw |-> [i \in 1..(e - first(e) + 1) |-> bytes[first(e) + i - 1].b],
          start |-> <<bytes[first(e)].seq, bytes[first(e)].off>>,
          seq |-> bytes[e].seq,
          nth |-> Cardinality({j \in newlines : j < e /\ bytes[j].seq = bytes[e].seq}),
          terminated |-> e \in newlines, key |-> key] : e \in ends}

AllLines(f) == UNION {LinesOf(f, <<g, c>>) : g \in 0..(f.meta.segs - 1), c \in Channels}
Short(l) == Len(l.raw) <= MaxLine
TextLine(l) == [raw |-> l.raw, start |-> l.start, seq |-> l.seq, nth |-> l.nth, key |-> l.key]
LongLine(l) == [total |-> Len(l.raw), start |-> l.start, seq |-> l.seq, nth |-> l.nth,
                terminated |-> l.terminated, key |-> l.key]

(* The newest lines of a set, in order, and how many were left out.         *)
NewestOf(h, S) ==
    /\ h.kept = {l \in S : Cardinality({m \in S : Earlier(l, m)}) < Lines}
    /\ h.omitted = Cardinality(S) - Cardinality(h.kept)
    /\ IsSorted(Values(h), LAMBDA a, b : a = b \/ Earlier(a, b))

(* get_logs returns the lines of the stored bytes: per segment and channel, *)
(* whole across events however the bytes were cut, the newest ones of each  *)
(* kind in order, with the exact number left out (log_replay.py).           *)
LogsAreTheBytes ==
    answer # None /\ answer.k = "logs" /\ answer.res = "ok" =>
        LET all == AllLines(ses[answer.s])
        IN  /\ NewestOf(answer.r.complete, {TextLine(l) : l \in {m \in all : Short(m) /\ m.terminated}})
            /\ NewestOf(answer.r.partial, {TextLine(l) : l \in {m \in all : Short(m) /\ ~m.terminated}})
            /\ NewestOf(answer.r.oversized, {LongLine(l) : l \in {m \in all : ~Short(m)}})

(* get_logs refuses no session the store wrote: the recorder, event by      *)
(* event, counts the oversized lines that a replay of the stored bytes      *)
(* finds, except where it ended an open line for a rollover that then did   *)
(* not happen.                                                              *)
ReplayNeverRefused ==
    answer # None /\ answer.k = "logs" /\ answer.res = "fault" => answer.s \in split

(* The detected patterns of a session at rest are those of the complete     *)
(* lines of its bytes, with the same exception.                             *)
PatternsAreThoseOfLines ==
    stage = <<>> => \A s \in Sessions \ split :
        {<<ses[s].pats[i].src, ses[s].pats[i].nth>> : i \in 1..Len(ses[s].pats)}
           = {<<l.seq, l.nth>> : l \in {m \in AllLines(ses[s]) :
                                  m.terminated /\ Short(m) /\ Contains(m.raw, "P")}}

(* Every line counted as oversized has one record of its own, in this or in *)
(* a later session, once it has ended: at a newline, a flush before a       *)
(* rollover, a disconnect or the close.                                     *)
LimitRecordPerLine ==
    (todo = <<>> /\ ~\E s \in Sessions : ses[s].meta.state = "failed") =>
        FoldLeft(LAMBDA n, f : n + f.meta.over, 0, ses)
           = FoldLeft(LAMBDA n, f : n + Len(SelectSeq(f.rec, LAMBDA r : r.t = "limit")), 0, ses)
             + Cardinality({c \in Channels : proc.bufs[c].total > 0})

(* A detail that is returned shows one committed state: the records and     *)
(* patterns below the sequence number of its metadata, no more and no less, *)
(* and the first error among them is the first line that has the pattern,   *)
(* although the files were read one by one beside the transactions of       *)
(* another process; unless a transaction was rolled back meanwhile.         *)
DetailIsSnapshot ==
    answer # None /\ answer.k = "detail" /\ answer.res = "ok" =>
        LET f == ses[answer.s] n == answer.meta.next
        IN  /\ answer.uart = SelectSeq(f.uart, LAMBDA e : e.seq < n)
            /\ answer.rec = SelectSeq(f.rec, LAMBDA e : e.seq < n)
            /\ ~answer.undone =>
                  /\ answer.pats = SelectSeq(f.pats, LAMBDA e : e.src < n)
                  /\ answer.s \notin split /\ answer.summary.first # None =>
                        \A l \in AllLines(f) : l.terminated /\ Short(l) /\ Contains(l.raw, "P")
                           => answer.summary.first.src <= l.seq

(* No process is told that sound evidence is invalid, however its reads     *)
(* fall between the writes; with the same exception.                        *)
NoFalseAlarm ==
    answer # None /\ answer.k = "detail" /\ answer.res = "invalid" => answer.undone

(* A client that pages through the sessions sees no session twice, and      *)
(* every one that existed when it began and still does, although sessions   *)
(* are created, by a clock that may be set back, and deleted meanwhile.     *)
PagesCoverSessions ==
    answer # None /\ answer.k = "list" =>
        LET listed == [i \in 1..Len(answer.seen) |-> answer.seen[i].s]
        IN  /\ Cardinality(ToSet(listed)) = Len(listed)
            /\ \A s \in answer.from : ~ses[s].gone => Contains(listed, s)

(* What the recorder derives from the bytes event by event, and what a      *)
(* replay derives from the stored session, are the lines of the bytes.      *)
LinesAreExact ==
    /\ TypeOK /\ LogsAreTheBytes /\ ReplayNeverRefused
    /\ PatternsAreThoseOfLines /\ LimitRecordPerLine

(* What a client reads beside the writer and retention is consistent.       *)
ReadsAreConsistent == DetailIsSnapshot /\ NoFalseAlarm /\ PagesCoverSessions
=============================================================================
