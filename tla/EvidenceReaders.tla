-------------------------- MODULE EvidenceReaders --------------------------
(***************************************************************************)
(* The two readers that follow the session journal while it is written.    *)
(*                                                                         *)
(* The Monitor reader (_V2MonitorEvidenceReader, store.py) belongs to one  *)
(* operation.  It never takes the store lock: it reads metadata and UART   *)
(* records session by session, following successors up to a durable tail   *)
(* the recorder published earlier.                                         *)
(*                                                                         *)
(* The tail reader (tail.py) serves pages to a client that keeps its       *)
(* position in a cursor.  It takes the lock only to snapshot one session,  *)
(* leases that session while it reads from it, and may hand over fewer     *)
(* records than it read.  The cursor outlives rollovers, deletions and     *)
(* restarts of the service.                                                *)
(***************************************************************************)
EXTENDS SessionJournal

CONSTANT PageLimit   \* records a page may hold

\* app.py: the limit of a page is at least 1.
ASSUME PageLimitAssumption == PageLimit \in Nat \ {0}

VARIABLES
    rd,   \* operation |-> the state of its evidence reader
    tc,   \* the tail client and the page being read for it
    got   \* <<session, sequence>> of the records the client was handed

readerVars == <<rd, tc, got>>
allVars == <<vars, readerVars>>

Cursor(s, n) == [s |-> s, n |-> n]
Closed == [st |-> "closed", at |-> None, start |-> None, end |-> None, seen |-> <<>>]

(* DurableEvidenceTail: the position after the last admission published.    *)
PublishedTail == Cursor(handle, Len(ses[handle].log))

(* The UART records of session s with sequence numbers in from..to-1, in    *)
(* order: each at the place that the number of those before it gives.       *)
UartIn(s, from, to) ==
    LET uart == {n \in from..to : n < to /\ Entry(s, n).t = "uart_rx"}
        place(n) == Cardinality({m \in uart : m < n}) + 1
    IN  [i \in 1..Cardinality(uart) |-> <<s, CHOOSE n \in uart : place(n) = i>>]

ReadersInit ==
    /\ Init
    /\ rd = [op \in Ops |-> Closed]
    /\ tc = [st |-> "off", pos |-> None, at |-> None, cand |-> <<>>, tail |-> None,
             len |-> 0, succ |-> None, ended |-> FALSE]
    /\ got = <<>>

(***************************************************************************)
(* The Monitor reader.                                                     *)
(***************************************************************************)
(* start_monitor_operation opens the reader just after the start record.    *)
(* The operation's own thread completes it, not in the middle of a read,    *)
(* and reads no more from then on; only a recorder that is failing          *)
(* completes an operation over its thread's head.                           *)
OpenedAt(s) == [st |-> "idle", at |-> Cursor(s, Len(ses'[s].log)),
                start |-> Cursor(s, Len(ses'[s].log)), end |-> None, seen |-> <<>>]

Completes(op) ==
    /\ phase = "running" /\ job = None /\ job' # None
    /\ job'.unit = [t |-> "operation_terminal", id |-> op]

JournalStep ==
    /\ JournalNext
    /\ \A op \in Ops : rd[op].st = "reading" =>
          (lease'[op] # {} \/ phase' = "boot") /\ ~Completes(op)
    /\ rd' = [op \in Ops |->
                IF lease'[op] = {} \/ Completes(op) THEN Closed
                ELSE IF lease[op] = {} THEN OpenedAt(handle') ELSE rd[op]]
    /\ tc' = IF phase' = "boot" /\ phase # "boot" /\ tc.st \in {"between", "snap"}
               THEN [tc EXCEPT !.st = "idle"] ELSE tc
    /\ UNCHANGED got

(* The loop saw a later durable tail and calls read_to with it.             *)
BeginRead ==
    /\ phase \in {"running", "failing", "stopped"}
    /\ \E op \in Ops :
          /\ rd[op].st = "idle" /\ PublishedTail # rd[op].at
          /\ rd' = [rd EXCEPT ![op].st = "reading", ![op].end = PublishedTail]
    /\ UNCHANGED <<vars, tc, got>>

\* Mutant: the last session is read to its current end, not to the cursor.
SessionEndNow(r) == Len(ses[r.at.s].log)
\* Where read_to stops in the session it is at.
SessionEnd(r) == IF r.at.s = r.end.s THEN r.end.n ELSE Len(ses[r.at.s].log)

(* One turn of read_to's loop: the session's own end, or the end cursor's;  *)
(* the records in between; and on to the successor.                         *)
ReadTurn(r) ==
    LET here == ses[r.at.s]
        last == r.at.s = r.end.s
        upto == SessionEnd(r)
    IN  IF here.disk # "whole" \/ upto < r.at.n THEN [r EXCEPT !.st = "error"]
        ELSE LET more == [r EXCEPT !.seen = @ \o UartIn(r.at.s, r.at.n, upto)]
             IN  IF last THEN [more EXCEPT !.st = "idle", !.at = r.end]
                 ELSE IF here.succ = None THEN [more EXCEPT !.st = "error"]
                 ELSE [more EXCEPT !.at = Cursor(here.succ, 0)]

ReadTo ==
    /\ \E op \in Ops : rd[op].st = "reading" /\ rd' = [rd EXCEPT ![op] = ReadTurn(@)]
    /\ UNCHANGED <<vars, tc, got>>

(***************************************************************************)
(* The tail reader (read_evidence_page).                                   *)
(***************************************************************************)
(* A page without a cursor establishes the client's position at the tail.   *)
TailAttach ==
    /\ tc.st = "off" /\ phase = "running" /\ job = None
    /\ tc' = [tc EXCEPT !.st = "idle", !.pos = PublishedTail]
    /\ UNCHANGED <<vars, rd, got>>

(* The client asks for the next page.  The recorder's session is looked up  *)
(* before the page is read.                                                 *)
TailPoll ==
    /\ tc.st = "idle" /\ phase \in {"running", "failing", "stopped"}
    /\ tc' = [tc EXCEPT !.st = "between", !.at = tc.pos, !.cand = <<>>, !.tail = handle]
    /\ UNCHANGED <<vars, rd, got>>

\* The session's directory and its streams are there.
Readable(s) == ses[s].disk = "whole"

(* _evidence_snapshot: under the lock, the committed lengths and the        *)
(* metadata are fixed and the session is leased; a session that is no       *)
(* longer there has expired the cursor.                                     *)
TailSnapshot ==
    /\ tc.st = "between" /\ job = None
    /\ LET s == tc.at.s
       IN  IF ~Readable(s)
             THEN tc' = [tc EXCEPT !.st = "expired"] /\ UNCHANGED tails
             ELSE /\ tc' = [tc EXCEPT !.st = "snap", !.len = Len(ses[s].log),
                                      !.succ = ses[s].succ,
                                      !.ended = ses[s].state # "active"]
                  /\ tails' = tails \union {s}
    /\ UNCHANGED <<ses, handle, phase, job, wire, baseline, lease, used, spent, rd, got>>

\* Mutant: the last committed record is left for later.
BatchOneShort ==
    LET room == PageLimit - Len(tc.cand)
        left == IF tc.len > tc.at.n THEN tc.len - tc.at.n - 1 ELSE 0
    IN  [i \in 1..(IF left < room THEN left ELSE room) |-> <<tc.at.s, tc.at.n + i - 1>>]

(* EvidenceSnapshot.read: at most the rest of the page, in sequence order.  *)
Batch ==
    LET room == PageLimit - Len(tc.cand)
        n == IF tc.len - tc.at.n < room THEN tc.len - tc.at.n ELSE room
    IN  [i \in 1..n |-> <<tc.at.s, tc.at.n + i - 1>>]

\* Mutant: the cursor moves past records that were read but not handed over.
CursorPastPage(cand, k, at) == at
\* The cursor after the k-th candidate.
CursorAfter(cand, k, at) == Cursor(cand[k][1], cand[k][2] + 1)

\* EvidenceCursorExpired: nothing to hand over, and nothing will follow.
CursorExpired(at) == at.s # tc.tail /\ tc.ended

(* The page is done: the client gets a prefix of what was read, at least    *)
(* one record if there was any (the rest did not fit the response), and the *)
(* cursor after it.                                                         *)
HandOver(cand, at) ==
    \/ /\ cand = <<>>
       /\ tc' = [tc EXCEPT !.pos = at, !.cand = <<>>,
                           !.st = IF CursorExpired(at) THEN "expired" ELSE "idle"]
       /\ UNCHANGED got
    \/ \E k \in 1..Len(cand) :
          /\ got' = got \o SubSeq(cand, 1, k)
          /\ tc' = [tc EXCEPT !.pos = CursorAfter(cand, k, at), !.cand = <<>>, !.st = "idle"]

(* The snapshot is read and its lease released; the page ends, or goes on   *)
(* with the successor.                                                      *)
TailRead ==
    /\ tc.st = "snap"
    /\ tails' = tails \ {tc.at.s}
    /\ LET cand == tc.cand \o Batch
           at == Cursor(tc.at.s, tc.at.n + Len(Batch))
       IN  IF at.n < tc.len \/ tc.succ = None THEN HandOver(cand, at)
           ELSE IF Len(cand) < PageLimit
             THEN /\ tc' = [tc EXCEPT !.st = "between", !.cand = cand,
                                      !.at = Cursor(tc.succ, 0)]
                  /\ UNCHANGED got
             ELSE HandOver(cand, at)
    /\ UNCHANGED <<ses, handle, phase, job, wire, baseline, lease, used, spent, rd>>

ReadersNext ==
    \/ JournalStep \/ BeginRead \/ ReadTo
    \/ TailAttach \/ TailPoll \/ TailSnapshot \/ TailRead

(* The store's calls end, a read that has begun goes on, and a client that  *)
(* has attached keeps asking.                                               *)
ReadersSpec ==
    /\ ReadersInit /\ [][ReadersNext]_allVars
    /\ WF_allVars(StoreSteps /\ JournalStep)
    /\ WF_allVars(ReadTo) /\ WF_allVars(TailPoll)
    /\ SF_allVars(TailSnapshot) /\ WF_allVars(TailRead)

-----------------------------------------------------------------------------
(***************************************************************************)
(* Properties.                                                             *)
(***************************************************************************)
(* The order in which the recorder wrote two records of one process run.    *)
Before(x, y) == x[1] < y[1] \/ (x[1] = y[1] /\ x[2] < y[2])

(* The Monitor reader, though it takes no lock, has seen exactly the UART   *)
(* records admitted between its operation's start and the position it has   *)
(* reached, each once and in order, across any number of rollovers.         *)
ReaderSeesAll ==
    \A op \in Ops : rd[op].st \in {"idle", "reading"} =>
        LET r == rd[op]
            written == {x \in UNION {{<<s, n>> : n \in 0..(Len(ses[s].log) - 1)} :
                                        s \in r.start.s..r.at.s} :
                          /\ Entry(x[1], x[2]).t = "uart_rx"
                          /\ ~Before(x, <<r.start.s, r.start.n>>)
                          /\ Before(x, <<r.at.s, r.at.n>>)}
        IN  /\ {r.seen[i] : i \in DOMAIN r.seen} = written
            /\ \A i \in 2..Len(r.seen) : Before(r.seen[i - 1], r.seen[i])

(* The Monitor reader always reaches the tail it was given: a published     *)
(* tail is linked from every session before it, and retention leaves the    *)
(* sessions of an operation alone, while it runs and as long as its reader  *)
(* is open.  A session may be missing only once the recorder has stopped,   *)
(* or the operation's own session has failed, or when a failing recorder    *)
(* completed the operation and the tail lies beyond its evidence.           *)
ReaderReachesTail ==
    phase \in {"running", "failing"} =>
        \A op \in Ops : rd[op].st = "error" =>
            \/ Interrupted(op)
            \/ phase = "failing" /\ Ended(op) /\ rd[op].end.s \notin lease[op]

(* What a tail client is handed has no hole and no repetition, however the  *)
(* pages were cut and however often the journal rolled over in between:     *)
(* each record is the next of its session, or the first of the successor    *)
(* of a session handed over to its end.                                     *)
TailContiguous ==
    \A i \in 2..Len(got) :
        \/ got[i][1] = got[i - 1][1] /\ got[i][2] = got[i - 1][2] + 1
        \/ /\ got[i][2] = 0 /\ ses[got[i - 1][1]].succ = got[i][1]
           /\ got[i - 1][2] + 1 = Len(ses[got[i - 1][1]].log)

(* A cursor expires only when records it still had to lead to are gone, or  *)
(* when everything its sessions will ever hold has been handed over.        *)
ExpiredMeansLost ==
    tc.st = "expired" =>
        \/ \E s \in tc.pos.s..Len(ses) : ses[s].disk # "whole"
        \/ /\ ses[tc.pos.s].state # "active" /\ ses[tc.pos.s].succ = None
           /\ tc.pos.n = Len(ses[tc.pos.s].log)

(* A client that keeps asking is handed every record of the sessions it     *)
(* follows, unless its cursor expires or the service stays down.            *)
CaughtUp == tc.pos.n = Len(ses[tc.pos.s].log) /\ ses[tc.pos.s].succ = None
TailCatchesUp ==
    []<>(tc.st \in {"off", "expired"} \/ phase \in {"boot", "down"} \/ CaughtUp)

(* The Monitor reader misses nothing and is never refused its evidence.     *)
ReaderIsExact == ReaderSeesAll /\ ReaderReachesTail

(* A tail client reads on without a hole from sessions that stay while they *)
(* are read, and is told that its cursor expired only when it has.          *)
TailIsExact == TailContiguous /\ ExpiredMeansLost /\ NeededSessionsKept
=============================================================================
