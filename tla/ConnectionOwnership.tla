------------------------- MODULE ConnectionOwnership -------------------------
(***************************************************************************)
(* Who owns the physical backend, and what the evidence journal says about *)
(* it: the continuous recorder with its ingest thread (evidence/           *)
(* recorder.py), the reconnect coordinator with its worker thread          *)
(* (backend_reconnect.py), and the runtime that admits release, reacquire, *)
(* device actions and shutdown (runtime.py).                               *)
(*                                                                         *)
(* Each action is one critical section, or one call into a backend source, *)
(* of one thread.  Python's recorder Condition is held only inside an      *)
(* action; the admission and mutation locks, which threads keep across     *)
(* several, are variables.  A session is its lifecycle state, the sequence *)
(* of its connection events and whether its last segment is open; rollover *)
(* is left to the session store.  Passing deadlines are choices.           *)
(***************************************************************************)
EXTENDS Naturals, Sequences

CONSTANTS
    Sources,        \* backend sources the port can be opened as, in this order
    None,
    Enhanced,       \* TRUE: the profile configures controls on connection
    Requests,       \* kinds of client request that may arrive
    Hazards,        \* kinds of failure that may happen
    MaxEvents,      \* bound on UART events received
    MaxRequests,    \* bound on release, reacquire and device actions
    MaxFaults       \* bound on failures

VARIABLES
    rec,        \* ContinuousEvidenceRecorder
    admission,  \* owner of the recorder's _admission_lock
    mutation,   \* owner of the runtime's _mutation_lock
    co,         \* BackendReconnectCoordinator
    rt,         \* DeviceCore's _closing and _closed
    ses,        \* the session of the recorder's _handle
    port,       \* source behind the replaceable sender and control
    phys,       \* state of each source's transport
    pending,    \* events each source has read and not delivered
    pc, ret,    \* next step of each thread; where _record_fatal returns to
    held,       \* the source a thread works on
    victim,     \* the source _record_fatal detached
    used        \* failures, requests and events so far

threads == <<pc, ret, held, victim>>
vars == <<rec, admission, mutation, co, rt, ses, port, phys, pending, threads,
          used>>

Threads == {"ingest", "worker", "caller", "actor", "closer"}

AllRequests == {"release", "reacquire", "action", "monitor"}

\* An unplugged device; unusable input; a failing store write; a transport
\* close that raises; an open that leaves the port in doubt; a candidate that
\* is another device; a reconnect deadline that passes while the candidate is
\* being published; a control the helper rejects, or initialization that
\* outlives its deadline; a failing write of reacquire_failed.
AllHazards == {"disconnect", "input", "persist", "close", "open", "mismatch",
               "late", "control", "refail"}

ASSUME SourcesAssumption == Sources \subseteq Nat /\ 1 \in Sources
ASSUME NoneAssumption == None \notin Sources /\ None \notin Threads
ASSUME KindsAssumption == /\ Enhanced \in BOOLEAN
                          /\ Requests \subseteq AllRequests
                          /\ Hazards \subseteq AllHazards
ASSUME BoundsAssumption == /\ MaxEvents \in Nat
                           /\ MaxRequests \in Nat
                           /\ MaxFaults \in Nat

RecorderStates == {"connected", "reconnecting", "disconnected", "faulted",
                   "closed", "released", "reacquiring"}

-----------------------------------------------------------------------------
\* Threads, failures and sources.

At(t, label) == pc[t] = label
Goto(t, label) == pc' = [pc EXCEPT ![t] = label]

Fault(kind) == /\ kind \in Hazards
               /\ used.faults < MaxFaults
               /\ used' = [used EXCEPT !.faults = @ + 1]

NoFault == UNCHANGED used

\* An exception that ends in _record_fatal, after which t continues at back.
Raise(t, back) == /\ Goto(t, "fatal")
                  /\ ret' = [ret EXCEPT ![t] = back]

Continue(t, label) == Goto(t, label) /\ UNCHANGED ret

\* close() of a source: a failed close is remembered and raised again.
Closes(s) == /\ phys[s] # "stuck"
             /\ phys' = [phys EXCEPT ![s] = "closed"]
             /\ NoFault

CloseRaises(s) ==
    \/ phys[s] \in {"open", "gone"} /\ Fault("close")
       /\ phys' = [phys EXCEPT ![s] = "stuck"]
    \/ phys[s] = "stuck" /\ UNCHANGED phys /\ NoFault

Unopened == {s \in Sources : phys[s] = "unopened"}
NextSource == CHOOSE s \in Unopened : \A r \in Unopened : s <= r

\* open_replacement by thread t: the selected device answers as the owned one;
\* it answers as another device, and the candidate is closed again; or it is
\* left in doubt whether the port is closed.
MayOpen == ~co.stop /\ Unopened # {}

OpenReplacement(t) == /\ phys' = [phys EXCEPT ![NextSource] = "open"]
                      /\ held' = [held EXCEPT ![t] = NextSource]
                      /\ NoFault

IdentityChanged == Fault("mismatch")

RefuseReplacement == /\ IdentityChanged
                     /\ phys' = [phys EXCEPT ![NextSource] = "closed"]
                     /\ UNCHANGED held

CleanupUnconfirmed == /\ Fault("open")
                      /\ phys' = [phys EXCEPT ![NextSource] = "stuck"]
                      /\ UNCHANGED held

\* on_connected: the stable sender and control ports lead to source s.
PortsLeadTo(s) == port' = s

-----------------------------------------------------------------------------
\* The store as the recorder uses it.

StoreAppends(events, segment) ==
    /\ ses.life = "active"
    /\ ses' = [ses EXCEPT !.journal = @ \o events, !.segment = segment]
    /\ NoFault

\* SessionPersistenceError, for which the store has failed the session; or
\* the session is no longer active.
StoreRaises ==
    \/ ses.life # "active" /\ UNCHANGED ses /\ NoFault
    \/ ses.life = "active" /\ Fault("persist")
       /\ ses' = [ses EXCEPT !.life = "failed"]

NewCoordinator == [stop |-> FALSE, suspended |-> FALSE, attempt |-> None,
                   closing |-> FALSE, closed |-> FALSE]

Init ==
    /\ rec = [state |-> "connected", source |-> 1, fault |-> FALSE,
              replaceable |-> FALSE, releasing |-> FALSE,
              release_closed |-> FALSE, drained |-> FALSE,
              closing |-> FALSE, closed |-> FALSE, source_closed |-> FALSE]
    /\ admission = None /\ mutation = None
    /\ co = NewCoordinator
    /\ rt = [closing |-> FALSE, closed |-> FALSE]
    /\ ses = [life |-> "active", journal |-> <<"connected">>,
              segment |-> "open", stored |-> 0]
    /\ port = 1
    /\ phys = [s \in Sources |-> IF s = 1 THEN "open" ELSE "unopened"]
    /\ pending = [s \in Sources |-> 0]
    /\ pc = [t \in Threads |-> CASE t = "ingest" -> "top"
                                 [] t = "worker" -> "wait"
                                 [] OTHER -> "idle"]
    /\ ret = [t \in Threads |-> None]
    /\ held = [t \in Threads |-> None]
    /\ victim = None
    /\ used = [faults |-> 0, requests |-> 0, events |-> 0]

-----------------------------------------------------------------------------
\* _record_fatal, run by any thread.

FatalIgnored(t) ==
    /\ At(t, "fatal")
    /\ \/ rec.fault \/ rec.closed
       \/ t = "ingest" /\ rec.source # held[t]
    /\ Goto(t, ret[t])
    /\ UNCHANGED <<rec, admission, mutation, co, rt, ses, port, phys, pending,
                   ret, held, victim, used>>

\* Mutant: a release that waits for the drain is not woken.
FatalMarkWithoutWakeup(t) ==
    /\ At(t, "fatal")
    /\ ~rec.fault /\ ~rec.closed
    /\ t = "ingest" => rec.source = held[t]
    /\ rec' = [rec EXCEPT !.fault = TRUE, !.state = "faulted",
                          !.source = None]
    /\ victim' = rec.source
    /\ Goto(t, IF rec.source = None THEN "fatal_end" ELSE "fatal_close")
    /\ UNCHANGED <<admission, mutation, co, rt, ses, port, phys, pending, ret,
                   held, used>>

FatalMark(t) ==
    /\ At(t, "fatal")
    /\ ~rec.fault /\ ~rec.closed
    /\ t = "ingest" => rec.source = held[t]
    /\ rec' = [rec EXCEPT !.drained = TRUE, !.fault = TRUE,
                          !.state = "faulted", !.source = None]
    /\ victim' = rec.source
    /\ Goto(t, IF rec.source = None THEN "fatal_end" ELSE "fatal_close")
    /\ UNCHANGED <<admission, mutation, co, rt, ses, port, phys, pending, ret,
                   held, used>>

FatalClose(t) ==
    /\ At(t, "fatal_close")
    /\ Closes(victim) \/ CloseRaises(victim)
    /\ Goto(t, "fatal_end")
    /\ UNCHANGED <<rec, admission, mutation, co, rt, ses, port, pending, ret,
                   held, victim>>

\* The terminal write; if it fails the session stays active and the error is
\* kept for close.
FatalEnd(t) ==
    /\ At(t, "fatal_end")
    /\ admission \in {None, t}
    /\ \/ /\ NoFault
          /\ ses' = IF ses.life = "active"
                    THEN [ses EXCEPT !.life = "failed", !.segment = "closed"]
                    ELSE ses
       \/ ses.life = "active" /\ Fault("persist") /\ UNCHANGED ses
    /\ Goto(t, ret[t])
    /\ UNCHANGED <<rec, admission, mutation, co, rt, port, phys, pending, ret,
                   held, victim>>

Fatal(t) == FatalIgnored(t) \/ FatalMark(t) \/ FatalClose(t) \/ FatalEnd(t)

-----------------------------------------------------------------------------
\* The backend outside our control.

Receive(s) ==
    /\ phys[s] = "open"
    /\ used.events < MaxEvents
    /\ pending' = [pending EXCEPT ![s] = @ + 1]
    /\ used' = [used EXCEPT !.events = @ + 1]
    /\ UNCHANGED <<rec, admission, mutation, co, rt, ses, port, phys, threads>>

Unplug(s) ==
    /\ phys[s] = "open"
    /\ Fault("disconnect")
    /\ phys' = [phys EXCEPT ![s] = "gone"]
    /\ UNCHANGED <<rec, admission, mutation, co, rt, ses, port, pending,
                   threads>>

-----------------------------------------------------------------------------
\* The ingest thread (_ingest).

IngestStops ==
    /\ At("ingest", "top")
    /\ rec.fault \/ (rec.closing /\ rec.source = None)
    /\ Goto("ingest", "done")
    /\ UNCHANGED <<rec, admission, mutation, co, rt, ses, port, phys, pending,
                   ret, held, victim, used>>

IngestTakes ==
    /\ At("ingest", "top")
    /\ ~rec.fault
    /\ rec.source # None
    /\ held' = [held EXCEPT !["ingest"] = rec.source]
    /\ Goto("ingest", "read")
    /\ UNCHANGED <<rec, admission, mutation, co, rt, ses, port, phys, pending,
                   ret, victim, used>>

\* source.read_event: buffered events first, then the error of a lost or
\* closed transport; None on a timeout.
ReadEvent ==
    LET s == held["ingest"]
    IN /\ At("ingest", "read")
       /\ \/ /\ pending[s] > 0
             /\ pending' = [pending EXCEPT ![s] = @ - 1]
             /\ Goto("ingest", "admit")
             /\ NoFault
          \/ /\ pending[s] = 0 /\ phys[s] # "open"
             /\ Goto("ingest", "lost")
             /\ UNCHANGED pending /\ NoFault
          \/ /\ pending[s] = 0 /\ phys[s] = "open"
             /\ Goto("ingest", "timeout")
             /\ UNCHANGED pending /\ NoFault
          \/ /\ phys[s] = "open" /\ Fault("input")
             /\ Goto("ingest", "bad")
             /\ UNCHANGED pending
       /\ UNCHANGED <<rec, admission, mutation, co, rt, ses, port, phys, ret,
                      held, victim>>

\* No event: the thread ends once shutdown has closed and drained the source.
ReadTimesOut ==
    /\ At("ingest", "timeout")
    /\ ~(rec.releasing /\ rec.release_closed)
    /\ Goto("ingest", IF /\ rec.closing /\ rec.source_closed
                         /\ pending[held["ingest"]] = 0
                      THEN "done" ELSE "top")
    /\ UNCHANGED <<rec, admission, mutation, co, rt, ses, port, phys, pending,
                   ret, held, victim, used>>

\* Mutant: the source is detached without looking for buffered events.
FinishReleaseDrainEarly ==
    /\ \/ pc["ingest"] \in {"lost", "bad"} /\ rec.releasing
       \/ At("ingest", "timeout") /\ rec.releasing /\ rec.release_closed
    /\ rec' = [rec EXCEPT !.source = None, !.drained = TRUE]
    /\ Goto("ingest", "top")
    /\ UNCHANGED <<admission, mutation, co, rt, ses, port, phys, pending,
                   ret, held, victim, used>>

\* _finish_release_drain.
FinishReleaseDrain ==
    LET s == held["ingest"]
    IN /\ \/ pc["ingest"] \in {"lost", "bad"} /\ rec.releasing
          \/ At("ingest", "timeout") /\ rec.releasing /\ rec.release_closed
       /\ rec.release_closed \/ rec.fault
       /\ rec' = IF pending[s] > 0 THEN rec
                 ELSE [rec EXCEPT !.source = IF @ = s THEN None ELSE @,
                                  !.drained = TRUE]
       /\ Goto("ingest", "top")
       /\ UNCHANGED <<admission, mutation, co, rt, ses, port, phys, pending,
                      ret, held, victim, used>>

\* _finish_shutdown_drain and the return that follows it.
FinishShutdownDrain ==
    /\ pc["ingest"] \in {"lost", "bad"}
    /\ ~rec.releasing
    /\ rec.closing /\ rec.source_closed
    /\ Goto("ingest", IF pending[held["ingest"]] > 0 THEN "top" ELSE "done")
    /\ UNCHANGED <<rec, admission, mutation, co, rt, ses, port, phys, pending,
                   ret, held, victim, used>>

\* Neither released nor shut down: the failure belongs to the connection.
ReadFailed ==
    /\ pc["ingest"] \in {"lost", "bad"}
    /\ ~rec.releasing /\ ~rec.closing
    /\ IF At("ingest", "lost")
       THEN Continue("ingest", "disconnect")
       ELSE Raise("ingest", "done")
    /\ UNCHANGED <<rec, admission, mutation, co, rt, ses, port, phys, pending,
                   held, victim, used>>

\* Mutant: an event that cannot be stored is dropped.
IngestAdmitsOrDrops ==
    /\ At("ingest", "admit")
    /\ admission = None
    /\ \/ /\ ses.life = "active" /\ NoFault
          /\ ses' = [ses EXCEPT !.stored = @ + 1]
       \/ StoreRaises
    /\ Continue("ingest", "top")
    /\ UNCHANGED <<rec, admission, mutation, co, rt, port, phys, pending, held,
                   victim>>

IngestAdmits ==
    /\ At("ingest", "admit")
    /\ admission = None
    /\ \/ /\ ses.life = "active" /\ NoFault
          /\ ses' = [ses EXCEPT !.stored = @ + 1]
          /\ Continue("ingest", "top")
       \/ /\ StoreRaises
          /\ Raise("ingest", "done")
    /\ UNCHANGED <<rec, admission, mutation, co, rt, port, phys, pending, held,
                   victim>>

\* _record_disconnect: the journal part, then the published state.
Superseded == rec.closing \/ rec.source # held["ingest"]

RecordDisconnect ==
    /\ At("ingest", "disconnect")
    /\ admission = None
    /\ \/ Superseded /\ Continue("ingest", "top") /\ UNCHANGED <<ses, used>>
       \/ /\ ~Superseded
          /\ StoreAppends(<<"unexpected_disconnect", "reconnect_started">>,
                          "closed")
          /\ Continue("ingest", "publish_disconnect")
       \/ ~Superseded /\ StoreRaises /\ Raise("ingest", "top")
    /\ UNCHANGED <<rec, admission, mutation, co, rt, port, phys, pending, held,
                   victim>>

\* Mutant: the lost source is read again before it is detached.
PublishDisconnectWithoutWait ==
    /\ At("ingest", "publish_disconnect")
    /\ IF Superseded
       THEN UNCHANGED rec
       ELSE rec' = [rec EXCEPT !.state = "reconnecting", !.replaceable = TRUE]
    /\ Goto("ingest", "top")
    /\ UNCHANGED <<admission, mutation, co, rt, ses, port, phys, pending, ret,
                   held, victim, used>>

PublishDisconnect ==
    /\ At("ingest", "publish_disconnect")
    /\ IF Superseded
       THEN Goto("ingest", "top") /\ UNCHANGED rec
       ELSE /\ rec' = [rec EXCEPT !.state = "reconnecting",
                                  !.replaceable = TRUE]
            /\ Goto("ingest", "await_detach")
    /\ UNCHANGED <<admission, mutation, co, rt, ses, port, phys, pending, ret,
                   held, victim, used>>

DisconnectDetached ==
    /\ At("ingest", "await_detach")
    /\ Superseded \/ rec.fault
    /\ Goto("ingest", "top")
    /\ UNCHANGED <<rec, admission, mutation, co, rt, ses, port, phys, pending,
                   ret, held, victim, used>>

Ingest == \/ IngestStops \/ IngestTakes \/ ReadEvent \/ ReadTimesOut
          \/ FinishReleaseDrain \/ FinishShutdownDrain \/ ReadFailed
          \/ IngestAdmits \/ RecordDisconnect \/ PublishDisconnect
          \/ DisconnectDetached
          \/ Fatal("ingest")

-----------------------------------------------------------------------------
\* The reconnect worker (_run_idle).

WorkerLeaves ==
    /\ At("worker", "wait") /\ co.stop
    /\ Goto("worker", "done")
    /\ UNCHANGED <<rec, admission, mutation, co, rt, ses, port, phys, pending,
                   ret, held, victim, used>>

SeesDisconnect ==
    /\ At("worker", "wait") /\ ~co.stop
    /\ rec.state = "reconnecting"
    /\ Goto("worker", "claim")
    /\ UNCHANGED <<rec, admission, mutation, co, rt, ses, port, phys, pending,
                   ret, held, victim, used>>

\* The claim, or the wait for the manual request that has it.
ClaimAttempt ==
    /\ At("worker", "claim")
    /\ IF co.closing \/ co.suspended \/ co.attempt # None
       THEN /\ co.stop \/ ~(co.suspended \/ co.attempt # None)
            /\ Goto("worker", "wait")
            /\ UNCHANGED co
       ELSE /\ co' = [co EXCEPT !.attempt = "worker"]
            /\ Goto("worker", "detach")
    /\ UNCHANGED <<rec, admission, mutation, rt, ses, port, phys, pending, ret,
                   held, victim, used>>

\* close_current_source_for_reconnect.
Detach ==
    /\ At("worker", "detach")
    /\ \/ /\ co.stop
          /\ Continue("worker", "unclaim") /\ UNCHANGED <<rec, held>>
       \/ /\ ~co.stop
          /\ rec.state = "reconnecting" /\ rec.replaceable
          /\ rec.source # None /\ ~rec.closing
          /\ rec' = [rec EXCEPT !.source = None, !.replaceable = FALSE]
          /\ held' = [held EXCEPT !["worker"] = rec.source]
          /\ Continue("worker", "close_lost")
       \/ /\ ~co.stop
          /\ \/ rec.state # "reconnecting" \/ ~rec.replaceable
             \/ rec.source = None \/ rec.closing
          /\ Continue("worker", "failed") /\ UNCHANGED <<rec, held>>
    /\ UNCHANGED <<admission, mutation, co, rt, ses, port, phys, pending,
                   victim, used>>

\* Mutant: a close that raises does not stop the reconnect.
CloseLostIgnoringErrors ==
    /\ At("worker", "close_lost")
    /\ Closes(held["worker"]) \/ CloseRaises(held["worker"])
    /\ Continue("worker", "detached")
    /\ UNCHANGED <<rec, admission, mutation, co, rt, ses, port, pending, held,
                   victim>>

CloseLost ==
    /\ At("worker", "close_lost")
    /\ \/ Closes(held["worker"]) /\ Continue("worker", "detached")
       \/ CloseRaises(held["worker"]) /\ Raise("worker", "failed")
    /\ UNCHANGED <<rec, admission, mutation, co, rt, ses, port, pending, held,
                   victim>>

Detached ==
    /\ At("worker", "detached")
    /\ rec' = IF ~rec.closing /\ rec.state = "reconnecting"
              THEN [rec EXCEPT !.replaceable = TRUE] ELSE rec
    /\ Goto("worker", "open")
    /\ UNCHANGED <<admission, mutation, co, rt, ses, port, phys, pending, ret,
                   held, victim, used>>

\* _retry_idle.  An open that fails with its port closed is tried again; the
\* deadline or an ambiguous device ends the attempt.
RetryIdle ==
    /\ At("worker", "open")
    /\ \/ /\ co.stop
          /\ Goto("worker", "unclaim") /\ UNCHANGED <<phys, held>> /\ NoFault
       \/ /\ ~co.stop
          /\ Goto("worker", "timed_out") /\ UNCHANGED <<phys, held>> /\ NoFault
       \/ MayOpen /\ OpenReplacement("worker") /\ Goto("worker", "opened")
       \/ MayOpen /\ CleanupUnconfirmed /\ Goto("worker", "failed")
       \/ MayOpen /\ RefuseReplacement /\ UNCHANGED pc
    /\ UNCHANGED <<rec, admission, mutation, co, rt, ses, port, pending, ret,
                   victim>>

\* Mutant: the stable ports keep leading to the lost source.
WorkerPublishesStalePort ==
    /\ At("worker", "opened")
    /\ Goto("worker", IF co.stop THEN "reject" ELSE "replace")
    /\ UNCHANGED <<rec, admission, mutation, co, rt, ses, port, phys, pending,
                   ret, held, victim, used>>

\* _publish up to replace_source.  on_connected waits for a send in progress;
\* a deadline that passes meanwhile rejects the candidate and stops the
\* supervisor.
WorkerPublishes ==
    /\ At("worker", "opened")
    /\ \/ /\ co.stop \/ co.suspended
          /\ Goto("worker", "reject") /\ UNCHANGED port /\ NoFault
       \/ /\ ~co.stop /\ ~co.suspended /\ ~At("actor", "send")
          /\ PortsLeadTo(held["worker"])
          /\ \/ Goto("worker", "replace") /\ NoFault
             \/ Goto("worker", "reject") /\ Fault("late")
    /\ UNCHANGED <<rec, admission, mutation, co, rt, ses, phys, pending, ret,
                   held, victim>>

\* reconnect_timed_out.
ReconnectTimesOut ==
    /\ At("worker", "timed_out")
    /\ IF rec.closing \/ rec.state # "reconnecting" \/ rec.source # None
       THEN Continue("worker", "unclaim") /\ UNCHANGED <<ses, used>>
       ELSE /\ admission = None
            /\ \/ /\ ses.life = "active" /\ NoFault
                  /\ ses' = [ses EXCEPT !.life = "failed",
                                        !.journal = Append(@, "reconnect_failed")]
                  /\ Continue("worker", "publish_timeout")
               \/ StoreRaises /\ Raise("worker", "unclaim")
    /\ UNCHANGED <<rec, admission, mutation, co, rt, port, phys, pending, held,
                   victim>>

\* Mutant: the failed reconnect is journalled and not published.
PublishTimeoutForgotten ==
    /\ At("worker", "publish_timeout")
    /\ Goto("worker", "unclaim")
    /\ co' = [co EXCEPT !.stop = TRUE]
    /\ UNCHANGED <<rec, admission, mutation, rt, ses, port, phys, pending, ret,
                   held, victim, used>>

PublishTimeout ==
    /\ At("worker", "publish_timeout")
    /\ rec' = [rec EXCEPT !.state = "disconnected", !.replaceable = FALSE]
    /\ Goto("worker", "unclaim")
    /\ UNCHANGED <<admission, mutation, co, rt, ses, port, phys, pending, ret,
                   held, victim, used>>

\* _retain_close_error: the supervisor stops and ownership is faulted.
WorkerFailed ==
    /\ At("worker", "failed")
    /\ co' = [co EXCEPT !.stop = TRUE]
    /\ Raise("worker", "unclaim")
    /\ UNCHANGED <<rec, admission, mutation, rt, ses, port, phys, pending,
                   held, victim, used>>

Unclaim ==
    /\ At("worker", "unclaim")
    /\ co' = [co EXCEPT !.attempt = None]
    /\ held' = [held EXCEPT !["worker"] = None]
    /\ Goto("worker", "wait")
    /\ UNCHANGED <<rec, admission, mutation, rt, ses, port, phys, pending, ret,
                   victim, used>>

-----------------------------------------------------------------------------
\* Publication of a candidate (_replace_source_admitted), by the worker or, for
\* a manual reacquire, by the caller.

Manual(t) == t = "caller"

CanReplace(t) ==
    /\ rec.state = IF Manual(t) THEN "reacquiring" ELSE "reconnecting"
    /\ Manual(t) \/ rec.replaceable
    /\ rec.source = None
    /\ ~rec.closing

ReplaceSource(t) ==
    /\ At(t, "replace")
    /\ IF CanReplace(t) THEN Continue(t, "segment")
       ELSE IF Manual(t) THEN Continue(t, "reject")
       ELSE Raise(t, "reject")
    /\ UNCHANGED <<rec, admission, mutation, co, rt, ses, port, phys, pending,
                   held, victim, used>>

\* The replacement opens a segment of the active session, or a session of its
\* own when the previous one has ended.
AppendSegment(t) ==
    LET next == IF Enhanced THEN "init" ELSE "publish"
    IN /\ At(t, "segment")
       /\ admission = None
       /\ IF Manual(t) /\ ses.life # "active"
          THEN \/ /\ ses' = [ses EXCEPT !.life = "active", !.segment = "open",
                                        !.journal = <<"reacquire_started">>]
                  /\ NoFault /\ Continue(t, next)
               \/ /\ Fault("persist") /\ UNCHANGED ses
                  /\ Raise(t, "reject_stop")
          ELSE \/ StoreAppends(<<>>, "open") /\ Continue(t, next)
               \/ StoreRaises /\ Raise(t, "reject_stop")
       /\ UNCHANGED <<rec, admission, mutation, co, rt, port, phys, pending,
                      held, victim>>

\* Mutant: the worker waits for the mutation lock without looking at shutdown.
InitializeControlsBlocking(t) ==
    /\ At(t, "init")
    /\ mutation = IF Manual(t) THEN t ELSE None
    /\ mutation' = t
    /\ Goto(t, "apply")
    /\ UNCHANGED <<rec, admission, co, rt, ses, port, phys, pending, ret, held,
                   victim, used>>

\* _initialize_profile_controls: the worker waits for a submitted mutation and
\* gives up when the runtime is closing; the caller already has the lock.
InitializeControls(t) ==
    /\ At(t, "init")
    /\ \/ /\ rt.closing \/ co.stop
          /\ Goto(t, "replace_failed") /\ UNCHANGED mutation
       \/ /\ ~rt.closing
          /\ mutation = IF Manual(t) THEN t ELSE None
          /\ mutation' = t
          /\ Goto(t, "apply")
    /\ UNCHANGED <<rec, admission, co, rt, ses, port, phys, pending, ret, held,
                   victim, used>>

\* _apply_profile_controls: audited, and acknowledged by the candidate.
ApplyControls(t) ==
    /\ At(t, "apply")
    /\ admission = None
    /\ mutation' = IF Manual(t) THEN t ELSE None
    /\ \/ /\ rec.fault
          /\ Raise(t, "reject") /\ UNCHANGED ses /\ NoFault
       \/ /\ ~rec.fault /\ ses.life = "active" /\ ~co.stop
          /\ phys[held[t]] = "open"
          /\ Continue(t, "publish") /\ UNCHANGED ses /\ NoFault
       \/ /\ ~rec.fault /\ ses.life = "active"
          /\ \/ Fault("control")
             \/ NoFault /\ (co.stop \/ phys[held[t]] # "open")
          /\ Continue(t, "replace_failed") /\ UNCHANGED ses
       \/ ~rec.fault /\ StoreRaises /\ Raise(t, "reject_stop")
    /\ UNCHANGED <<rec, admission, co, rt, port, phys, pending, held, victim>>

\* _check_replacement_ready.
ReplacementReady == ~co.stop

\* before_connected, the last look at shutdown and faults, and the journalled
\* success, under the admission lock.
ConfirmReplacement(t) ==
    /\ At(t, "publish")
    /\ admission = None
    /\ \/ /\ ReplacementReady /\ ~rec.closing /\ ~rec.fault
          /\ StoreAppends(<<IF Manual(t) THEN "reacquire_succeeded"
                            ELSE "reconnect_succeeded">>, ses.segment)
          /\ admission' = t
          /\ Continue(t, "connect")
       \/ /\ \/ Fault("control")
             \/ NoFault /\ (~ReplacementReady \/ rec.closing \/ rec.fault)
          /\ Continue(t, "replace_failed") /\ UNCHANGED <<ses, admission>>
       \/ /\ ReplacementReady /\ ~rec.closing /\ ~rec.fault
          /\ StoreRaises /\ Raise(t, "reject_stop") /\ UNCHANGED admission
    /\ UNCHANGED <<rec, mutation, co, rt, port, phys, pending, held, victim>>

ConnectSource(t) ==
    /\ At(t, "connect")
    /\ admission' = None
    /\ IF rec.closing
       THEN Goto(t, "reject") /\ UNCHANGED rec
       ELSE /\ rec' = [rec EXCEPT !.source = held[t], !.state = "connected",
                                  !.replaceable = FALSE]
            /\ Goto(t, IF Manual(t) THEN "resume" ELSE "unclaim")
    /\ UNCHANGED <<mutation, co, rt, ses, port, phys, pending, ret, held,
                   victim, used>>

\* The journalled failure of an initialization; the fault follows under the
\* same admission.
ReplacementFailed(t) ==
    /\ At(t, "replace_failed")
    /\ admission = None
    /\ \/ /\ StoreAppends(<<IF Manual(t) THEN "reacquire_failed"
                            ELSE "reconnect_failed">>, ses.segment)
          /\ admission' = t
          /\ Raise(t, "reject")
       \/ StoreRaises /\ Raise(t, "reject_stop") /\ UNCHANGED admission
    /\ UNCHANGED <<rec, mutation, co, rt, port, phys, pending, held, victim>>

\* _close_rejected, and cancel_pending: always for the worker, for the caller
\* when the journal failed.
Reject(t) ==
    /\ pc[t] \in {"reject", "reject_stop"}
    /\ admission' = IF admission = t THEN None ELSE admission
    /\ \/ /\ Closes(held[t])
          /\ co' = [co EXCEPT !.stop = @ \/ ~Manual(t) \/ At(t, "reject_stop")]
          /\ Goto(t, IF Manual(t) THEN "rea_fail" ELSE "unclaim")
       \/ /\ CloseRaises(held[t])
          /\ UNCHANGED co
          /\ Goto(t, IF Manual(t) THEN "rea_unknown" ELSE "failed")
    /\ UNCHANGED <<rec, mutation, rt, ses, port, pending, ret, held, victim>>

Replacement(t) == \/ ReplaceSource(t) \/ AppendSegment(t)
                  \/ InitializeControls(t) \/ ApplyControls(t)
                  \/ ConfirmReplacement(t) \/ ConnectSource(t)
                  \/ ReplacementFailed(t) \/ Reject(t)

Worker == \/ WorkerLeaves \/ SeesDisconnect \/ ClaimAttempt \/ Detach
          \/ CloseLost \/ Detached \/ RetryIdle \/ WorkerPublishes
          \/ ReconnectTimesOut \/ PublishTimeout \/ WorkerFailed \/ Unclaim
          \/ Replacement("worker") \/ Fatal("worker")

-----------------------------------------------------------------------------
\* Manual release and reacquire (runtime._ownership_change, the coordinator's
\* _manual_claim, and the recorder).

\* Admission of a lifecycle request: refused, with nothing changed, while the
\* runtime closes, a mutation is active or an attempt is claimed.
ManualClaim(kind, next) ==
    /\ At("caller", "idle")
    /\ kind \in Requests
    /\ used.requests < MaxRequests
    /\ ~rt.closing
    /\ mutation = None
    /\ ~co.stop /\ co.attempt = None
    /\ mutation' = "caller"
    /\ co' = [co EXCEPT !.attempt = "caller", !.suspended = TRUE]
    /\ used' = [used EXCEPT !.requests = @ + 1]
    /\ Goto("caller", next)
    /\ UNCHANGED <<rec, admission, rt, ses, port, phys, pending, ret, held,
                   victim>>

BeginRelease == rec.state = "connected" /\ ManualClaim("release", "rel_intent")

BeginReacquire == /\ rec.state \in {"released", "disconnected"}
                  /\ ManualClaim("reacquire", "rea_begin")

Releasing == [rec EXCEPT !.releasing = TRUE, !.release_closed = FALSE,
                         !.drained = FALSE]

\* release: the intent is journalled before the source is closed.
ReleaseIntent ==
    LET able == rec.state = "connected" /\ ~rec.closing /\ rec.source # None
    IN /\ At("caller", "rel_intent")
       /\ admission = None
       /\ \/ /\ ~able
             /\ co' = [co EXCEPT !.suspended = FALSE]
             /\ Continue("caller", "end")
             /\ UNCHANGED <<rec, ses, held, admission>> /\ NoFault
          \/ /\ able /\ StoreAppends(<<"release_requested">>, ses.segment)
             /\ rec' = Releasing
             /\ held' = [held EXCEPT !["caller"] = rec.source]
             /\ Continue("caller", "rel_close")
             /\ UNCHANGED <<co, admission>>
          \/ /\ able /\ StoreRaises
             /\ rec' = Releasing
             /\ admission' = "caller"
             /\ Raise("caller", "rel_error")
             /\ UNCHANGED <<co, held>>
       /\ UNCHANGED <<mutation, rt, port, phys, pending, victim>>

ReleaseClose ==
    /\ At("caller", "rel_close")
    /\ \/ Closes(held["caller"]) /\ Continue("caller", "rel_closed")
       \/ CloseRaises(held["caller"]) /\ Raise("caller", "rel_close_error")
    /\ UNCHANGED <<rec, admission, mutation, co, rt, ses, port, pending, held,
                   victim>>

ReleaseClosed ==
    /\ At("caller", "rel_closed")
    /\ rec' = [rec EXCEPT !.release_closed = TRUE]
    /\ Goto("caller", "rel_wait")
    /\ UNCHANGED <<admission, mutation, co, rt, ses, port, phys, pending, ret,
                   held, victim, used>>

ReleaseDrained ==
    /\ At("caller", "rel_wait")
    /\ rec.drained
    /\ Goto("caller", "rel_final")
    /\ UNCHANGED <<rec, admission, mutation, co, rt, ses, port, phys, pending,
                   ret, held, victim, used>>

ReleaseFinal ==
    /\ At("caller", "rel_final")
    /\ admission = None
    /\ \/ /\ rec.fault
          /\ Raise("caller", "rel_error")
          /\ UNCHANGED <<rec, ses, admission>> /\ NoFault
       \/ /\ ~rec.fault /\ StoreAppends(<<"released">>, "closed")
          /\ rec' = [rec EXCEPT !.state = "released", !.releasing = FALSE]
          /\ Continue("caller", "end") /\ UNCHANGED admission
       \/ /\ ~rec.fault /\ StoreRaises
          /\ admission' = "caller"
          /\ Raise("caller", "rel_error") /\ UNCHANGED rec
    /\ UNCHANGED <<mutation, co, rt, port, phys, pending, held, victim>>

\* _retain_close_error; ownership is already faulted.
ReleaseError ==
    /\ pc["caller"] \in {"rel_error", "rel_close_error"}
    /\ co' = [co EXCEPT !.stop = TRUE]
    /\ rec' = [rec EXCEPT !.release_closed =
                              @ \/ At("caller", "rel_close_error")]
    /\ Goto("caller", "end")
    /\ UNCHANGED <<admission, mutation, rt, ses, port, phys, pending, ret,
                   held, victim, used>>

\* begin_reacquire.
ReacquireBegin ==
    LET able == /\ ~rec.closing /\ ~rec.fault
                /\ rec.state \in {"released", "disconnected"}
    IN /\ At("caller", "rea_begin")
       /\ admission = None
       /\ rec' = IF able THEN [rec EXCEPT !.state = "reacquiring"] ELSE rec
       /\ \/ /\ ~able
             /\ Continue("caller", "end") /\ UNCHANGED <<ses, admission, used>>
          \/ /\ able /\ ses.life # "active"
             /\ Continue("caller", "rea_open")
             /\ UNCHANGED <<ses, admission, used>>
          \/ /\ able /\ StoreAppends(<<"reacquire_started">>, ses.segment)
             /\ Continue("caller", "rea_open") /\ UNCHANGED admission
          \/ /\ able /\ ses.life = "active" /\ StoreRaises
             /\ admission' = "caller"
             /\ Raise("caller", "end")
       /\ UNCHANGED <<mutation, co, rt, port, phys, pending, held, victim>>

\* The open: it succeeds, fails with the port closed, leaves the port in doubt,
\* or finds another device (closed again, but not reported as confirmed).
ReacquireOpen ==
    /\ At("caller", "rea_open")
    /\ \/ /\ Goto("caller", "rea_fail") /\ UNCHANGED <<phys, held>> /\ NoFault
       \/ MayOpen /\ OpenReplacement("caller") /\ Goto("caller", "rea_opened")
       \/ /\ MayOpen
          /\ CleanupUnconfirmed \/ RefuseReplacement
          /\ Goto("caller", "rea_unknown")
    /\ UNCHANGED <<rec, admission, mutation, co, rt, ses, port, pending, ret,
                   victim>>

\* Shutdown or the deadline rejects the candidate; otherwise it is published.
ReacquireOpened ==
    /\ At("caller", "rea_opened")
    /\ \/ Goto("caller", "reject") /\ UNCHANGED port
       \/ /\ ~co.stop
          /\ PortsLeadTo(held["caller"])
          /\ Goto("caller", "replace")
    /\ UNCHANGED <<rec, admission, mutation, co, rt, ses, phys, pending, ret,
                   held, victim, used>>

ReacquireUnknown ==
    /\ At("caller", "rea_unknown")
    /\ co' = [co EXCEPT !.stop = TRUE]
    /\ Raise("caller", "rea_fail")
    /\ UNCHANGED <<rec, admission, mutation, rt, ses, port, phys, pending,
                   held, victim, used>>

\* Mutant: a reacquire that fails leaves the state to the next request.
ReacquireFailedStateKept ==
    /\ At("caller", "rea_fail")
    /\ admission = None
    /\ \/ rec.fault /\ UNCHANGED <<rec, ses>> /\ NoFault
       \/ ~rec.fault /\ StoreAppends(<<"reacquire_failed">>, ses.segment)
          /\ UNCHANGED rec
       \/ ~rec.fault /\ ses.life # "active" /\ UNCHANGED <<rec, ses>> /\ NoFault
    /\ Goto("caller", "end")
    /\ UNCHANGED <<admission, mutation, co, rt, port, phys, pending, ret, held,
                   victim>>

\* reacquire_failed; a failing write of its event is not caught.
ReacquireFailed ==
    /\ At("caller", "rea_fail")
    /\ admission = None
    /\ \/ /\ rec.fault
          /\ rec' = [rec EXCEPT !.state = "faulted"]
          /\ UNCHANGED ses /\ NoFault
       \/ /\ ~rec.fault /\ StoreAppends(<<"reacquire_failed">>, ses.segment)
          /\ rec' = [rec EXCEPT !.state = "released"]
       \/ /\ ~rec.fault /\ ses.life = "active" /\ Fault("refail")
          /\ ses' = [ses EXCEPT !.life = "failed"]
          /\ UNCHANGED rec
       \/ /\ ~rec.fault /\ ses.life # "active"
          /\ rec' = [rec EXCEPT !.state = "disconnected"]
          /\ UNCHANGED ses /\ NoFault
    /\ Goto("caller", "end")
    /\ UNCHANGED <<admission, mutation, co, rt, port, phys, pending, ret, held,
                   victim>>

\* Automatic reconnect is on again.
Resume ==
    /\ At("caller", "resume")
    /\ co' = [co EXCEPT !.suspended = FALSE]
    /\ Goto("caller", "end")
    /\ UNCHANGED <<rec, admission, mutation, rt, ses, port, phys, pending, ret,
                   held, victim, used>>

EndRequest ==
    /\ At("caller", "end")
    /\ co' = [co EXCEPT !.attempt = None]
    /\ mutation' = None
    /\ admission' = IF admission = "caller" THEN None ELSE admission
    /\ held' = [held EXCEPT !["caller"] = None]
    /\ Goto("caller", "idle")
    /\ UNCHANGED <<rec, rt, ses, port, phys, pending, ret, victim, used>>

Caller == \/ ReleaseIntent \/ ReleaseClose \/ ReleaseClosed \/ ReleaseDrained
          \/ ReleaseFinal \/ ReleaseError
          \/ ReacquireBegin \/ ReacquireOpen \/ ReacquireOpened
          \/ ReacquireUnknown \/ ReacquireFailed \/ Resume \/ EndRequest
          \/ Replacement("caller") \/ Fatal("caller")

-----------------------------------------------------------------------------
\* Device actions (runtime._mutation, recorder._admit_action, uart_send.run).

BeginAction ==
    /\ At("actor", "idle")
    /\ "action" \in Requests
    /\ used.requests < MaxRequests
    /\ mutation = None
    /\ At("caller", "idle") /\ ~rt.closing
    /\ rec.state = "connected"
    /\ mutation' = "actor"
    /\ used' = [used EXCEPT !.requests = @ + 1]
    /\ Goto("actor", "attempt")
    /\ UNCHANGED <<rec, admission, co, rt, ses, port, phys, pending, ret, held,
                   victim>>

\* _admit_action: only a persistence failure faults ownership.
AdmitAction(next, back) ==
    /\ admission = None
    /\ \/ /\ rec.fault \/ rec.closing \/ rec.closed \/ ses.life # "active"
          /\ Continue("actor", back) /\ UNCHANGED <<ses, admission>> /\ NoFault
       \/ /\ ~rec.fault /\ ~rec.closing /\ ~rec.closed /\ ses.life = "active"
          /\ \/ Continue("actor", next) /\ UNCHANGED <<ses, admission>> /\ NoFault
             \/ /\ Fault("persist")
                /\ ses' = [ses EXCEPT !.life = "failed"]
                /\ admission' = "actor"
                /\ Raise("actor", back)
    /\ UNCHANGED <<rec, mutation, co, rt, port, phys, pending, held, victim>>

ActionAttempt == At("actor", "attempt") /\ AdmitAction("send", "act_end")

\* send_uart through the replaceable sender; the Enhanced transport may answer
\* with malformed input.
ActionSend ==
    /\ At("actor", "send")
    /\ \/ Goto("actor", "result") /\ NoFault
       \/ Enhanced /\ Fault("input") /\ Goto("actor", "result_bad")
    /\ UNCHANGED <<rec, admission, mutation, co, rt, ses, port, phys, pending,
                   ret, held, victim>>

ActionResult ==
    \/ At("actor", "result") /\ AdmitAction("act_end", "act_end")
    \/ At("actor", "result_bad") /\ AdmitAction("bad_input", "act_end")

BackendInputFailed ==
    /\ At("actor", "bad_input")
    /\ Raise("actor", "act_end")
    /\ UNCHANGED <<rec, admission, mutation, co, rt, ses, port, phys, pending,
                   held, victim, used>>

EndAction ==
    /\ At("actor", "act_end")
    /\ mutation' = None
    /\ admission' = IF admission = "actor" THEN None ELSE admission
    /\ Goto("actor", "idle")
    /\ UNCHANGED <<rec, co, rt, ses, port, phys, pending, ret, held, victim,
                   used>>

Actor == \/ ActionAttempt \/ ActionSend \/ ActionResult \/ BackendInputFailed
         \/ EndAction \/ Fatal("actor")

\* start_monitor_operation: its first write is outside the handler that faults
\* ownership, so a failure of it only fails the session.
StartMonitor ==
    /\ "monitor" \in Requests
    /\ used.requests < MaxRequests
    /\ ~rt.closing /\ rec.state = "connected" /\ ses.life = "active"
    /\ admission = None
    /\ \/ /\ used' = [used EXCEPT !.requests = @ + 1]
          /\ UNCHANGED ses
       \/ /\ "persist" \in Hazards /\ used.faults < MaxFaults
          /\ used' = [used EXCEPT !.requests = @ + 1, !.faults = @ + 1]
          /\ ses' = [ses EXCEPT !.life = "failed"]
    /\ UNCHANGED <<rec, admission, mutation, co, rt, port, phys, pending,
                   threads>>

-----------------------------------------------------------------------------
\* Shutdown (runtime.close, coordinator.close, recorder.close).

CloseRuntime ==
    /\ At("closer", "idle")
    /\ rt' = [rt EXCEPT !.closing = TRUE]
    /\ Goto("closer", "cancel")
    /\ UNCHANGED <<rec, admission, mutation, co, ses, port, phys, pending, ret,
                   held, victim, used>>

CancelPending ==
    /\ At("closer", "cancel")
    /\ co' = [co EXCEPT !.stop = TRUE]
    /\ Goto("closer", "lock")
    /\ UNCHANGED <<rec, admission, mutation, rt, ses, port, phys, pending, ret,
                   held, victim, used>>

\* Submitted mutations finish first.
CloseCoordinator ==
    /\ At("closer", "lock")
    /\ mutation = None
    /\ mutation' = "closer"
    /\ co' = [co EXCEPT !.closing = TRUE]
    /\ Goto("closer", "join_worker")
    /\ UNCHANGED <<rec, admission, rt, ses, port, phys, pending, ret, held,
                   victim, used>>

JoinWorker ==
    /\ At("closer", "join_worker")
    /\ At("worker", "done") /\ co.attempt = None
    /\ co' = [co EXCEPT !.closed = TRUE]
    /\ Goto("closer", "rec_close")
    /\ UNCHANGED <<rec, admission, mutation, rt, ses, port, phys, pending, ret,
                   held, victim, used>>

CloseRecorder ==
    /\ At("closer", "rec_close")
    /\ rec' = [rec EXCEPT !.closing = TRUE,
                          !.source_closed = rec.source = None]
    /\ held' = [held EXCEPT !["closer"] = rec.source]
    /\ Goto("closer", IF rec.source = None THEN "join_ingest"
                      ELSE "close_source")
    /\ UNCHANGED <<admission, mutation, co, rt, ses, port, phys, pending, ret,
                   victim, used>>

CloseSource ==
    /\ At("closer", "close_source")
    /\ Closes(held["closer"]) \/ CloseRaises(held["closer"])
    /\ Goto("closer", "source_closed")
    /\ UNCHANGED <<rec, admission, mutation, co, rt, ses, port, pending, ret,
                   held, victim>>

SourceClosed ==
    /\ At("closer", "source_closed")
    /\ rec' = [rec EXCEPT !.source_closed = TRUE]
    /\ Goto("closer", "join_ingest")
    /\ UNCHANGED <<admission, mutation, co, rt, ses, port, phys, pending, ret,
                   held, victim, used>>

\* The ingest thread is joined and an active session ends; a failing terminal
\* write is reported by close.
JoinIngest ==
    /\ At("closer", "join_ingest")
    /\ At("ingest", "done")
    /\ \/ /\ ses' = IF ses.life = "active"
                    THEN [ses EXCEPT !.life = "completed", !.segment = "closed"]
                    ELSE ses
          /\ NoFault
       \/ ses.life = "active" /\ Fault("persist") /\ UNCHANGED ses
    /\ Goto("closer", "closed")
    /\ UNCHANGED <<rec, admission, mutation, co, rt, port, phys, pending, ret,
                   held, victim>>

RuntimeClosed ==
    /\ At("closer", "closed")
    /\ rec' = [rec EXCEPT !.source = None, !.state = "closed", !.closed = TRUE]
    /\ mutation' = None
    /\ rt' = [rt EXCEPT !.closed = TRUE]
    /\ Goto("closer", "done")
    /\ UNCHANGED <<admission, co, ses, port, phys, pending, ret, held, victim,
                   used>>

Closer == \/ CancelPending \/ CloseCoordinator \/ JoinWorker \/ CloseRecorder
          \/ CloseSource \/ SourceClosed \/ JoinIngest \/ RuntimeClosed

\* The process may be idle once the runtime is closed.
Closed == rt.closed /\ UNCHANGED vars

-----------------------------------------------------------------------------
Next == \/ Ingest \/ Worker \/ Caller \/ Actor \/ Closer
        \/ BeginRelease \/ BeginReacquire \/ BeginAction \/ StartMonitor
        \/ CloseRuntime \/ Closed
        \/ \E s \in Sources : Receive(s) \/ Unplug(s)

Spec == Init /\ [][Next]_vars

\* The operating system runs every thread that is not waiting for a lock, an
\* event or a join.  Nothing makes requests, input or failures happen.
FairSpec == /\ Spec
            /\ WF_vars(Ingest) /\ WF_vars(Worker) /\ WF_vars(Caller)
            /\ WF_vars(Actor) /\ WF_vars(Closer)

-----------------------------------------------------------------------------
\* Properties.

Events == {"connected", "release_requested", "released", "reacquire_started",
           "reacquire_succeeded", "reacquire_failed", "unexpected_disconnect",
           "reconnect_started", "reconnect_succeeded", "reconnect_failed"}

Recorders == [state : RecorderStates, source : Sources \cup {None},
              fault : BOOLEAN, replaceable : BOOLEAN, releasing : BOOLEAN,
              release_closed : BOOLEAN, drained : BOOLEAN, closing : BOOLEAN,
              closed : BOOLEAN, source_closed : BOOLEAN]
Coordinators == [stop : BOOLEAN, suspended : BOOLEAN,
                 attempt : {"worker", "caller", None}, closing : BOOLEAN,
                 closed : BOOLEAN]
Transports == {"unopened", "open", "gone", "closed", "stuck"}
Sessions == [life : {"active", "completed", "failed"}, journal : Seq(Events),
             segment : {"open", "closed"}, stored : Nat]

\* Every variable holds what the code can store in it; in particular the
\* source queues never underflow.
TypeOK ==
    /\ rec \in Recorders
    /\ admission \in Threads \cup {None}
    /\ mutation \in Threads \cup {None}
    /\ co \in Coordinators
    /\ rt \in [closing : BOOLEAN, closed : BOOLEAN]
    /\ ses \in Sessions
    /\ port \in Sources
    /\ phys \in [Sources -> Transports]
    /\ pending \in [Sources -> Nat]
    /\ held \in [Threads -> Sources \cup {None}]
    /\ victim \in Sources \cup {None}

\* One physical owner: recovery, reacquire and reconnect open a source only
\* when every earlier source is known to be closed.
OpensOnlyAfterRelease ==
    [][\A s \in Sources : phys[s] = "unopened" /\ phys'[s] # "unopened"
           => \A r \in Sources \ {s} : phys[r] \in {"unopened", "closed"}]_vars

\* When shutdown has returned no transport is left open: every candidate that
\* was opened while it went on was closed, or its close raised.
NothingLeaked ==
    rt.closed => \A s \in Sources : phys[s] \notin {"open", "gone"}

\* Ownership is reported as connected only with a source that is not faulted
\* and to which the stable sender and control ports lead.
ConnectedIsUsable ==
    rec.state = "connected" =>
        /\ ~rec.fault
        /\ ~rec.releasing => rec.source # None /\ port = rec.source

\* What a source has read reaches the journal before the source is detached by
\* release, reconnect or shutdown, unless ownership is faulted.
DetachedIsDrained ==
    [][rec.source # None /\ rec'.source # rec.source /\ ~rec'.fault
       => pending[rec.source] = 0 /\ ~At("ingest", "admit")]_vars

\* No evidence is stored in a segment that has been closed.
StoresInOpenSegment ==
    [][ses'.stored # ses.stored => ses.segment = "open"]_vars

Follows == [connected |-> {"release_requested", "unexpected_disconnect"},
            release_requested |-> {"released"},
            released |-> {"reacquire_started"},
            reacquire_started |-> {"reacquire_succeeded", "reacquire_failed"},
            reacquire_succeeded |-> {"release_requested",
                                     "unexpected_disconnect"},
            reacquire_failed |-> {"reacquire_started"},
            unexpected_disconnect |-> {"reconnect_started"},
            reconnect_started |-> {"reconnect_succeeded", "reconnect_failed"},
            reconnect_succeeded |-> {"release_requested",
                                     "unexpected_disconnect"},
            reconnect_failed |-> {}]

\* The connection journal of a session is a path of the connection life cycle:
\* every gap has its one cause and its one end.
JournalIsAPath ==
    \A i \in 1 .. Len(ses.journal) - 1 :
        ses.journal[i + 1] \in Follows[ses.journal[i]]

\* A reacquire that has returned has left the reacquiring state.
ReacquireSettles == At("caller", "idle") => rec.state # "reacquiring"

\* Shutdown, once begun, completes.
ShutdownCompletes == rt.closing ~> rt.closed

\* A release or reacquire returns.
RequestsReturn == ~At("caller", "idle") ~> At("caller", "idle")

\* A reconnect ends: connected, disconnected, faulted or closed.
ReconnectResolves ==
    rec.state = "reconnecting" ~> rec.state # "reconnecting"

\* A session that failed under its recorder takes the ownership with it, so
\* that nothing is received that cannot be recorded.
FailedSessionEndsOwnership ==
    ses.life = "failed" ~> \/ rec.state \in {"faulted", "disconnected", "closed"}
                           \/ ses.life = "active"

\* No received evidence is lost or misplaced when the source changes hands.
EvidenceKept == DetachedIsDrained /\ StoresInOpenSegment

\* Whatever fails, ownership is sound: its state is well formed, shutdown
\* leaves no transport open and "connected" means a usable source.
OwnershipIsSound == TypeOK /\ NothingLeaked /\ ConnectedIsUsable
=============================================================================
