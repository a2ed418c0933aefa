--------------------- MODULE ConnectionOwnershipProofs ---------------------
(***************************************************************************)
(* Machine-checked proofs about ConnectionOwnership, for every set of      *)
(* sources, both backends, all requests and failures and any number of     *)
(* them: who owns the backend, at every step of the five threads.          *)
(***************************************************************************)
EXTENDS ConnectionOwnership, WellFoundedInduction, TLAPS

-----------------------------------------------------------------------------
\* The inductive invariant.

FatalSteps == {"fatal", "fatal_close", "fatal_end"}

\* Where t is in its own work: inside _record_fatal, where it returns to.
Loc(t) == IF pc[t] \in FatalSteps THEN ret[t] ELSE pc[t]

\* The steps in which the worker or the caller has a source in its hands, and
\* those between the detachment of the old source and the connection of a new
\* one.
Publishing == {"replace", "segment", "init", "apply", "publish", "connect"}
Holding == Publishing \cup {"close_lost", "opened", "rea_opened",
                            "replace_failed", "reject", "reject_stop"}
Between == Holding \cup {"detached", "open", "timed_out", "publish_timeout",
                         "rea_open", "rea_fail", "rea_unknown"}
ReleaseSteps == {"rel_close", "rel_closed", "rel_wait", "rel_final",
                 "rel_error", "rel_close_error"}

IngestSteps == {"top", "read", "admit", "lost", "timeout", "bad", "disconnect",
                "publish_disconnect", "await_detach", "done"}
ReplaceSteps == Publishing \cup {"replace_failed", "reject", "reject_stop"}
WorkerSteps == ReplaceSteps \cup
    {"wait", "claim", "detach", "close_lost", "detached", "open", "opened",
     "timed_out", "publish_timeout", "failed", "unclaim", "done"}
CallerSteps == ReplaceSteps \cup ReleaseSteps \cup
    {"idle", "rel_intent", "rea_begin", "rea_open", "rea_opened",
     "rea_unknown", "rea_fail", "resume", "end"}
ActorSteps == {"idle", "attempt", "send", "result", "result_bad", "bad_input",
               "act_end"}
Ended == {"close_source", "source_closed", "join_ingest", "closed", "done"}
Joined == Ended \cup {"rec_close"}
Locked == Joined \cup {"join_worker"}
CloserSteps == Locked \cup {"idle", "cancel", "lock"}

\* Every thread has a step and a place to return to.
ThreadsOK == DOMAIN pc = Threads /\ DOMAIN ret = Threads

\* Every thread is at one of its steps and returns from _record_fatal to one.
StepsOK ==
    /\ pc["ingest"] \in IngestSteps \cup FatalSteps
    /\ pc["worker"] \in WorkerSteps \cup FatalSteps
    /\ pc["caller"] \in CallerSteps \cup FatalSteps
    /\ pc["actor"] \in ActorSteps \cup FatalSteps
    /\ pc["closer"] \in CloserSteps
    /\ pc["ingest"] \in FatalSteps => ret["ingest"] \in {"top", "done"}
    /\ pc["worker"] \in FatalSteps =>
           ret["worker"] \in {"failed", "unclaim", "reject", "reject_stop"}
    /\ pc["caller"] \in FatalSteps =>
           ret["caller"] \in {"rel_error", "rel_close_error", "end", "reject",
                              "reject_stop", "rea_fail"}
    /\ pc["actor"] \in FatalSteps => ret["actor"] = "act_end"

\* The reconnect attempt and the mutation lock exclude each other's holders.
LocksOK ==
    /\ co.attempt = "worker" <=> pc["worker"] \notin {"wait", "claim", "done"}
    /\ co.attempt = "caller" <=> pc["caller"] # "idle"
    /\ mutation = "worker" <=> pc["worker"] = "apply"
    /\ mutation = "caller" <=> pc["caller"] # "idle"
    /\ mutation = "actor" <=> pc["actor"] # "idle"
    /\ mutation = "closer" <=> pc["closer"] \in Locked \ {"done"}
    /\ pc["worker"] = "connect" => admission = "worker"
    /\ pc["caller"] = "connect" => admission = "caller"
    /\ pc["actor"] \in FatalSteps => admission = "actor" \/ Enhanced
    /\ pc["actor"] \in {"result_bad", "bad_input"} => Enhanced
    /\ Enhanced /\ pc["worker"] \in {"publish", "connect"}
           => pc["actor"] = "idle"

\* Shutdown stops the supervisor, then waits for the mutation, the worker and
\* the ingest thread, in this order.
ShutdownOK ==
    /\ rt.closing <=> pc["closer"] # "idle"
    /\ pc["closer"] \notin {"idle", "cancel"} => co.stop
    /\ pc["closer"] \in Locked => pc["caller"] = "idle" /\ pc["actor"] = "idle"
    /\ pc["closer"] \in Joined => pc["worker"] = "done"
    /\ pc["closer"] \in {"closed", "done"} => pc["ingest"] = "done"
    /\ rec.closing <=> pc["closer"] \in Ended
    /\ rec.closed <=> pc["closer"] = "done"
    /\ rec.closed => rec.source = None
    /\ rt.closed <=> pc["closer"] = "done"
    /\ rec.source_closed => pc["closer"] \in {"join_ingest", "closed", "done"}

\* A fault detaches the source, once and for all.
FaultAt(t) ==
    /\ pc[t] \in {"fatal_close", "fatal_end"} => rec.fault
    /\ pc[t] = "fatal_close" => victim # None
    /\ pc[t] = "connect" => ~rec.fault

FaultOK ==
    /\ rec.fault => /\ rec.source = None
                    /\ rec.state \in {"faulted", "disconnected", "closed"}
    /\ victim # None => rec.fault
    /\ pc["caller"] \in {"rel_error", "rel_close_error"} => rec.fault
    /\ FaultAt("ingest") /\ FaultAt("worker")
    /\ FaultAt("caller") /\ FaultAt("actor")

\* Between two sources the recorder has none, and the ports lead to the
\* candidate that is being published.
BetweenAt(t) ==
    /\ Loc(t) \in Between =>
           rec.source = None /\ rec.state # "connected" /\ victim = None
    /\ Loc(t) \in Holding =>
           held[t] \in Sources /\ phys[held[t]] # "unopened"
    /\ Loc(t) \in Publishing => port = held[t]

BetweenOK ==
    /\ BetweenAt("worker") /\ BetweenAt("caller")
    /\ rec.state \in {"released", "disconnected", "reacquiring", "closed"}
           => rec.source = None
    /\ rec.source # None => phys[rec.source] # "unopened"
    /\ rec.state = "connected" /\ ~rec.releasing
           => rec.source # None /\ port = rec.source

\* A release closes the source of the recorder, which is detached when it has
\* been drained or when ownership is faulted.
ReleaseOK ==
    /\ rec.releasing => rec.fault \/ Loc("caller") \in ReleaseSteps
    /\ rec.releasing /\ rec.release_closed /\ rec.source # None
           => phys[rec.source] = "closed"
    /\ Loc("caller") \in {"rel_close", "rel_closed", "rel_close_error"} =>
           /\ rec.releasing
           /\ held["caller"] \in Sources
           /\ rec.source = held["caller"] \/ victim = held["caller"]
           /\ phys[held["caller"]] # "unopened"
           /\ ~rec.release_closed
    /\ Loc("caller") = "rel_closed" => phys[held["caller"]] = "closed"
    /\ rec.drained /\ Loc("caller") \in {"rel_close", "rel_closed", "rel_wait",
                                         "rel_final"} => rec.source = None
    /\ pc["caller"] = "rel_final" => rec.drained

\* Every transport that is not closed is in somebody's hands, or known to be
\* stuck by somebody who stops the supervisor.
Owned(s) ==
    \/ rec.source = s
    \/ victim = s
    \/ held["worker"] = s /\ Loc("worker") \in Holding
    \/ held["caller"] = s /\ Loc("caller") \in Holding
    \/ /\ phys[s] = "stuck"
       /\ co.stop \/ Loc("worker") = "failed" \/ Loc("caller") = "rea_unknown"

OwnersOK ==
    /\ \A s \in Sources : phys[s] \in {"open", "gone", "stuck"} => Owned(s)
    /\ victim # None =>
           /\ phys[victim] # "unopened"
           /\ \/ phys[victim] \in {"closed", "stuck"}
              \/ "fatal_close" \in {pc["ingest"], pc["worker"], pc["caller"],
                                    pc["actor"]}
    /\ pc["closer"] = "close_source" =>
           /\ held["closer"] \in Sources /\ phys[held["closer"]] # "unopened"
           /\ rec.source \in {None, held["closer"]}
    /\ pc["closer"] \in {"source_closed", "join_ingest", "closed"} =>
           rec.source = None \/ phys[rec.source] \in {"closed", "stuck"}

\* A source from which nothing more can be read.
Exhausted(s) == pending[s] = 0 /\ phys[s] \in {"gone", "closed", "stuck"}

\* The ingest thread works on the recorder's source, or on none that is left.
IngestOK ==
    /\ pc["ingest"] \notin {"top", "done"} =>
           held["ingest"] \in Sources /\ phys[held["ingest"]] # "unopened"
    /\ pc["ingest"] \notin {"top", "await_detach", "done"} =>
           rec.source \in {None, held["ingest"]}
    /\ rec.source = None /\ ~rec.fault =>
           pc["ingest"] \in {"top", "await_detach", "done"}
    /\ rec.state = "reconnecting" /\ rec.source # None /\ ~rec.closing =>
           pc["ingest"] = "await_detach" /\ held["ingest"] = rec.source
    /\ pc["ingest"] \in {"lost", "disconnect", "publish_disconnect",
                         "await_detach"} => Exhausted(held["ingest"])
    /\ pc["ingest"] = "done" /\ ~rec.fault =>
           rec.closing /\ (rec.source = None \/ Exhausted(rec.source))

\* While a source can deliver evidence the segment of an active session is
\* open.
SegmentOK ==
    ses.life = "active" =>
        /\ rec.source # None =>
               ses.segment = "open" \/ Exhausted(rec.source)
        /\ pc["ingest"] = "admit" => ses.segment = "open"
        /\ pc["ingest"] = "read" =>
               ses.segment = "open" \/ Exhausted(held["ingest"])
        /\ \/ pc["worker"] \in {"init", "apply", "publish", "connect"}
           \/ pc["caller"] \in {"init", "apply", "publish", "connect"}
           => ses.segment = "open"

\* Unless the write of reacquire_failed itself may fail, a reacquire under way
\* is the caller's, which ends it or faults ownership.
ReacquireOK ==
    "refail" \notin Hazards =>
        (rec.state = "reacquiring" =>
            \/ Loc("caller") \in Between
            \/ pc["caller"] \in FatalSteps /\ ret["caller"] = "end")

\* The candidate is not the source whose detachment ingest is waiting for.
Fresh(t) ==
    (/\ Loc(t) \in Publishing \cup {"opened", "rea_opened"}
     /\ pc["ingest"] = "await_detach")
    => held[t] # held["ingest"]

\* A candidate belongs to the ownership change under way.
CandidateOK ==
    /\ Loc("worker") \in Between => rec.state \in {"reconnecting", "faulted"}
    /\ Loc("caller") \in Between => rec.state \in {"reacquiring", "faulted"}
    /\ Fresh("worker") /\ Fresh("caller")
    /\ rec.state = "disconnected" => ses.life # "active"
    /\ pc["worker"] = "publish_timeout" => ses.life # "active"
    /\ pc["caller"] = "reject_stop" => rec.fault

\* The last event of the session's journal.
Last == ses.journal[Len(ses.journal)]
\* The events that end with a connected source, and the steps of an attempt to
\* get one.
Up == {"connected", "reacquire_succeeded", "reconnect_succeeded"}
Attempting == {"close_lost", "detached", "open", "opened", "rea_open",
               "rea_opened", "replace", "segment", "init", "apply", "publish",
               "replace_failed", "timed_out"}

\* Where the session's journal ends, as long as it can be written.
LastOK ==
    /\ rec.source # None /\ ~rec.closing =>
           IF /\ pc["ingest"] \in {"publish_disconnect", "await_detach"}
              /\ held["ingest"] = rec.source
           THEN Last = "reconnect_started" ELSE Last \in Up
    /\ rec.state = "released" => Last = "reacquire_failed"
    /\ pc["worker"] \in Attempting => Last = "reconnect_started"
    /\ pc["caller"] \in Attempting => Last = "reacquire_started"
    /\ pc["caller"] \in {"reject", "rea_fail"} /\ ~rec.fault =>
           Last = "reacquire_started"
    /\ pc["worker"] = "connect" => Last = "reconnect_succeeded"
    /\ pc["caller"] = "connect" => Last = "reacquire_succeeded"

\* The journal has begun and is a path.
Journalled == Len(ses.journal) > 0 /\ JournalIsAPath

\* Without release, every event is written where the life cycle has it.
JournalOK ==
    "release" \notin Requests =>
        /\ Loc("caller") \notin ReleaseSteps \cup {"rel_intent"}
        /\ Journalled
        /\ ses.life = "active" => LastOK

IInv == /\ TypeOK /\ ThreadsOK /\ StepsOK /\ LocksOK /\ ShutdownOK /\ FaultOK
        /\ BetweenOK /\ ReleaseOK /\ OwnersOK /\ IngestOK /\ SegmentOK
        /\ ReacquireOK /\ CandidateOK /\ JournalOK

-----------------------------------------------------------------------------
\* What a step leaves alone.

Waits(t) == pc'[t] = pc[t] /\ ret'[t] = ret[t]
OnlyMoves(t) ==
    /\ t # "ingest" => Waits("ingest")
    /\ t # "worker" => Waits("worker")
    /\ t # "caller" => Waits("caller")
    /\ t # "actor" => Waits("actor")
    /\ t # "closer" => Waits("closer")
OthersHold(t) ==
    /\ t # "ingest" => held'["ingest"] = held["ingest"]
    /\ t # "worker" => held'["worker"] = held["worker"]
    /\ t # "caller" => held'["caller"] = held["caller"]
    /\ t # "closer" => held'["closer"] = held["closer"]
OthersKeep(s) == \A r \in Sources \ {s} : phys'[r] = phys[r]

SameJournal == Last' = Last /\ (Journalled => Journalled')

USE DEF Waits, FatalSteps, Loc, Publishing, Holding, Between, ReleaseSteps,
        IngestSteps, ReplaceSteps, WorkerSteps, CallerSteps, ActorSteps, Ended,
        Joined, Locked, CloserSteps, Up, Attempting, FaultAt, BetweenAt, Owned,
        Exhausted, Fresh, LastOK, OnlyMoves, OthersHold, OthersKeep,
        SameJournal

\* Every non-empty set of naturals has a least element.
LEMMA LeastOfNats ==
    ASSUME NEW S \in SUBSET Nat, S # {}
    PROVE  \E n \in S : \A m \in S : n <= m
<1>1. IsWellFoundedOn(OpToRel(<, Nat), Nat)
  BY NatLessThanWellFounded, Zenon
<1>2. PICK n \in S : \A m \in S : ~(<<m, n>> \in OpToRel(<, Nat))
  BY <1>1, WFMin, Zenon
<1>3. \A m \in S : <<m, n>> \in Nat \X Nat
  OBVIOUS
<1>4. \A m \in S : ~(m < n)
  BY <1>2, <1>3 DEF OpToRel
<1> QED BY <1>4

\* NextSource, the source open_replacement opens next, is one that was never
\* opened.
LEMMA NextSourceUnopened ==
    ASSUME Unopened # {}
    PROVE  NextSource \in Sources /\ phys[NextSource] = "unopened"
<1>1. Unopened \subseteq Nat /\ Unopened \subseteq Sources
  BY SourcesAssumption DEF Unopened
<1>2. \E s \in Unopened : \A r \in Unopened : s <= r
  BY <1>1, LeastOfNats
<1>3. NextSource \in Unopened
  BY <1>2, Zenon DEF NextSource
<1> QED BY <1>3 DEF Unopened

\* close() that returns has closed its source and touched no other.
LEMMA ClosesEffect ==
    ASSUME TypeOK, NEW s \in Sources, Closes(s)
    PROVE  phys'[s] = "closed" /\ OthersKeep(s)
BY DEF TypeOK, Closes, OthersKeep

\* close() that raises leaves its own source stuck.
LEMMA CloseRaisesEffect ==
    ASSUME TypeOK, NEW s \in Sources, CloseRaises(s)
    PROVE  /\ phys'[s] = "stuck" /\ OthersKeep(s)
           /\ phys[s] \in {"open", "gone", "stuck"}
BY DEF TypeOK, CloseRaises, OthersKeep

\* However close() ends, its source is closed or stuck, and one that was closed
\* stays closed.
LEMMA CloseEffect ==
    ASSUME TypeOK, NEW s \in Sources, Closes(s) \/ CloseRaises(s)
    PROVE  /\ phys'[s] \in {"closed", "stuck"} /\ OthersKeep(s)
           /\ phys[s] = "closed" => phys'[s] = "closed"
BY ClosesEffect, CloseRaisesEffect DEF CloseRaises

\* The successors in the connection life cycle that a recorder without release
\* uses.
LEMMA FollowsTable ==
    /\ \A l \in Up : "unexpected_disconnect" \in Follows[l]
    /\ "reconnect_started" \in Follows["unexpected_disconnect"]
    /\ {"reconnect_succeeded", "reconnect_failed"}
           \subseteq Follows["reconnect_started"]
    /\ {"reacquire_succeeded", "reacquire_failed"}
           \subseteq Follows["reacquire_started"]
    /\ "reacquire_started" \in Follows["reacquire_failed"]
BY DEF Follows, Up

\* A step that writes no connection event keeps the path and its end.
LEMMA JournalKept ==
    ASSUME ses'.journal = ses.journal
    PROVE  SameJournal
BY DEF SameJournal, Last, Journalled, JournalIsAPath

\* An event that may follow the last one extends the path.
LEMMA JournalGrows ==
    ASSUME ses \in Sessions, NEW e,
           ses'.journal = Append(ses.journal, e)
    PROVE  /\ Last' = e
           /\ Journalled /\ e \in Follows[Last] => Journalled'
<1>1. ses.journal \in Seq(Events)
  BY DEF Sessions
<1>2. /\ Len(ses'.journal) = Len(ses.journal) + 1 /\ Len(ses.journal) \in Nat
      /\ ses'.journal[Len(ses.journal) + 1] = e
      /\ \A i \in 1 .. Len(ses.journal) : ses'.journal[i] = ses.journal[i]
  BY <1>1
<1>3. Last' = e
  BY <1>2 DEF Last
<1>4. ASSUME Journalled, e \in Follows[Last] PROVE Journalled'
  BY <1>2, <1>4 DEF Last, Journalled, JournalIsAPath
<1> QED BY <1>3, <1>4

\* One connection event is a sequence of them.
LEMMA StoreOneEvent ==
    ASSUME NEW e \in Events PROVE <<e>> \in Seq(Events)
OBVIOUS

\* So is the pair a disconnect writes in one transaction.
LEMMA DisconnectEvents ==
    <<"unexpected_disconnect", "reconnect_started">> \in Seq(Events)
BY DEF Events

\* What a successful append to an active session changes.
LEMMA StoreAppendsEffect ==
    ASSUME TypeOK, NEW e \in Seq(Events), NEW g \in {"open", "closed"},
           StoreAppends(e, g)
    PROVE  /\ ses' \in Sessions
           /\ ses'.life = ses.life /\ ses.life = "active" /\ ses'.segment = g
           /\ ses'.journal = ses.journal \o e
<1>1. ses \in Sessions
  BY DEF TypeOK
<1>2. ses.journal \o e \in Seq(Events)
  BY <1>1 DEF Sessions
<1>3. ses' = [ses EXCEPT !.journal = ses.journal \o e, !.segment = g]
  BY DEF StoreAppends
<1>4. ses' \in Sessions
  BY <1>1, <1>2, <1>3, Zenon DEF Sessions
<1>5. /\ ses'.life = ses.life /\ ses'.segment = g
      /\ ses'.journal = ses.journal \o e
  BY <1>1, <1>3 DEF Sessions
<1> QED BY <1>4, <1>5 DEF StoreAppends

\* A store call that raises may end the session and changes nothing else.
LEMMA StoreRaisesEffect ==
    ASSUME TypeOK, StoreRaises
    PROVE  /\ ses' \in Sessions /\ ses'.segment = ses.segment
           /\ ses'.life = "active" => ses.life = "active"
           /\ SameJournal
<1>1. ses \in Sessions
  BY DEF TypeOK
<1>2. CASE UNCHANGED ses
  BY <1>1, <1>2, JournalKept
<1>3. CASE ses' = [ses EXCEPT !.life = "failed"]
  BY <1>1, <1>3, JournalKept DEF Sessions
<1> QED BY <1>2, <1>3 DEF StoreRaises

\* reconnect_failed is the last event of the session it fails.
LEMMA FailedReconnectEffect ==
    ASSUME TypeOK,
           ses' = [ses EXCEPT !.life = "failed",
                              !.journal = Append(@, "reconnect_failed")]
    PROVE  /\ ses' \in Sessions /\ ses'.life = "failed"
           /\ Journalled /\ Last = "reconnect_started" => Journalled'
<1>1. ses \in Sessions
  BY DEF TypeOK
<1>2. Append(ses.journal, "reconnect_failed") \in Seq(Events)
  BY <1>1 DEF Sessions, Events
<1>3. ses' = [ses EXCEPT !.life = "failed",
                         !.journal = Append(ses.journal, "reconnect_failed")]
  OBVIOUS
<1>4. ses' \in Sessions
  BY <1>1, <1>2, <1>3, Zenon DEF Sessions
<1>5. /\ ses'.life = "failed"
      /\ ses'.journal = Append(ses.journal, "reconnect_failed")
  BY <1>1, <1>3 DEF Sessions
<1> QED BY <1>1, <1>4, <1>5, JournalGrows, FollowsTable

\* A session begun by a manual reacquire starts with reacquire_started.
LEMMA NewSessionEffect ==
    ASSUME TypeOK, ses' = [ses EXCEPT !.life = "active", !.segment = "open",
                                      !.journal = <<"reacquire_started">>]
    PROVE  /\ ses' \in Sessions
           /\ ses'.life = "active" /\ ses'.segment = "open"
           /\ Last' = "reacquire_started" /\ Journalled'
<1>1. ses \in Sessions
  BY DEF TypeOK
<1>2. <<"reacquire_started">> \in Seq(Events)
  BY StoreOneEvent DEF Events
<1>3. ses' \in Sessions
  BY <1>1, <1>2, Zenon DEF Sessions
<1>4. /\ ses'.life = "active" /\ ses'.segment = "open"
      /\ ses'.journal = <<"reacquire_started">>
  BY <1>1 DEF Sessions
<1>5. Last' = "reacquire_started" /\ Journalled'
  BY <1>4 DEF Last, Journalled, JournalIsAPath
<1> QED BY <1>3, <1>4, <1>5

\* An append of one event makes it the last of the journal.
LEMMA StoreAppendsOne ==
    ASSUME TypeOK, NEW e \in Events, NEW g \in {"open", "closed"},
           StoreAppends(<<e>>, g)
    PROVE  /\ ses' \in Sessions /\ ses.life = "active"
           /\ ses'.life = ses.life /\ ses'.segment = g
           /\ Last' = e /\ (Journalled /\ e \in Follows[Last] => Journalled')
<1>1. ses \in Sessions /\ ses.journal \in Seq(Events)
  BY DEF TypeOK, Sessions
<1>2. /\ ses' \in Sessions /\ ses.life = "active"
      /\ ses'.life = ses.life /\ ses'.segment = g
      /\ ses'.journal = ses.journal \o <<e>>
  BY StoreOneEvent, StoreAppendsEffect
<1>3. ses'.journal = Append(ses.journal, e)
  BY <1>1, <1>2
<1> QED BY <1>1, <1>2, <1>3, JournalGrows

\* The two events of a disconnect extend the path of a connected session.
LEMMA StoreDisconnect ==
    ASSUME TypeOK,
           StoreAppends(<<"unexpected_disconnect", "reconnect_started">>,
                        "closed")
    PROVE  /\ ses' \in Sessions
           /\ ses'.life = ses.life /\ ses.life = "active"
           /\ Last' = "reconnect_started"
           /\ Journalled /\ Last \in Up => Journalled'
<1>1. ses \in Sessions /\ ses.journal \in Seq(Events)
  BY DEF TypeOK, Sessions
<1>2. /\ ses' \in Sessions /\ ses'.life = ses.life /\ ses.life = "active"
      /\ ses'.journal =
             ses.journal \o <<"unexpected_disconnect", "reconnect_started">>
  BY DisconnectEvents, StoreAppendsEffect
<1>3. /\ Len(ses'.journal) = Len(ses.journal) + 2 /\ Len(ses.journal) \in Nat
      /\ ses'.journal[Len(ses.journal) + 1] = "unexpected_disconnect"
      /\ ses'.journal[Len(ses.journal) + 2] = "reconnect_started"
      /\ \A i \in 1 .. Len(ses.journal) : ses'.journal[i] = ses.journal[i]
  BY <1>1, <1>2
<1>4. Last' = "reconnect_started"
  BY <1>3 DEF Last
<1>5. ASSUME Journalled, Last \in Up,
             NEW i \in 1 .. Len(ses'.journal) - 1
      PROVE  ses'.journal[i + 1] \in Follows[ses'.journal[i]]
  <2>1. CASE i < Len(ses.journal)
    BY <1>3, <1>5, <2>1 DEF Journalled, JournalIsAPath
  <2>2. CASE i = Len(ses.journal)
    <3>1. Last \in Up /\ ses'.journal[i] = Last
      BY <1>3, <1>5, <2>2 DEF Last, Journalled
    <3> QED BY <1>3, <2>2, <3>1, FollowsTable
  <2>3. CASE i = Len(ses.journal) + 1
    <3>1. /\ ses'.journal[i + 1] = "reconnect_started"
          /\ ses'.journal[i] = "unexpected_disconnect"
      BY <1>3, <2>3
    <3> QED BY <3>1, FollowsTable
  <2> QED BY <1>3, <1>5, <2>1, <2>2, <2>3
<1>6. ASSUME Journalled, Last \in Up PROVE Journalled'
  BY <1>3, <1>5, <1>6 DEF Journalled, JournalIsAPath
<1> QED BY <1>2, <1>4, <1>6

\* A new segment opens without a connection event.
LEMMA StoreOpens ==
    ASSUME TypeOK, StoreAppends(<<>>, "open")
    PROVE  /\ ses' \in Sessions /\ ses'.life = ses.life
           /\ ses'.segment = "open" /\ SameJournal
<1>1. ses.journal \in Seq(Events) /\ <<>> \in Seq(Events)
  BY DEF TypeOK, Sessions
<1>2. /\ ses' \in Sessions /\ ses'.life = ses.life /\ ses'.segment = "open"
      /\ ses'.journal = ses.journal \o <<>>
  BY <1>1, StoreAppendsEffect, Zenon
<1> QED BY <1>1, <1>2, JournalKept

\* A session that fails keeps its journal.
LEMMA FailedEffect ==
    ASSUME TypeOK, ses' = [ses EXCEPT !.life = "failed"]
    PROVE  ses' \in Sessions /\ ses'.life = "failed" /\ SameJournal
<1>1. ses \in Sessions
  BY DEF TypeOK
<1>2. ses' \in Sessions
  BY <1>1, Zenon DEF Sessions
<1>3. ses'.life = "failed" /\ ses'.journal = ses.journal
  BY <1>1 DEF Sessions
<1> QED BY <1>2, <1>3, JournalKept

\* A session that ends keeps its journal.
LEMMA EndEffect ==
    ASSUME TypeOK, NEW l \in {"completed", "failed"},
           ses' = [ses EXCEPT !.life = l, !.segment = "closed"]
    PROVE  ses' \in Sessions /\ ses'.life = l /\ SameJournal
<1>1. ses \in Sessions
  BY DEF TypeOK
<1>2. ses' \in Sessions
  BY <1>1, Zenon DEF Sessions
<1>3. ses'.life = l /\ ses'.journal = ses.journal
  BY <1>1 DEF Sessions
<1> QED BY <1>2, <1>3, JournalKept

\* Stored evidence changes neither life cycle nor journal.
LEMMA StoredEffect ==
    ASSUME TypeOK, ses' = [ses EXCEPT !.stored = @ + 1]
    PROVE  /\ ses' \in Sessions
           /\ ses'.life = ses.life /\ ses'.segment = ses.segment
           /\ SameJournal
<1>1. ses \in Sessions
  BY DEF TypeOK
<1>2. ses.stored + 1 \in Nat
  BY <1>1 DEF Sessions
<1>3. ses' = [ses EXCEPT !.stored = ses.stored + 1]
  OBVIOUS
<1>4. ses' \in Sessions
  BY <1>1, <1>2, <1>3, Zenon DEF Sessions
<1>5. /\ ses'.life = ses.life /\ ses'.segment = ses.segment
      /\ ses'.journal = ses.journal
  BY <1>1, <1>3 DEF Sessions
<1> QED BY <1>4, <1>5, JournalKept

\* A step that leaves the store alone keeps the journal.
LEMMA StoreIdle ==
    ASSUME TypeOK, UNCHANGED ses
    PROVE  /\ ses' \in Sessions
           /\ ses'.life = ses.life /\ ses'.segment = ses.segment
           /\ SameJournal
BY JournalKept DEF TypeOK

-----------------------------------------------------------------------------
\* One lemma per action.  Each first says what the step changes, then why every
\* part of the invariant survives it.

\* _record_fatal returns at once when ownership is faulted or closed, or when
\* ingest reports a source that was replaced: no fault is recorded twice.
LEMMA FatalIgnoredStep ==
    ASSUME NEW t \in {"ingest", "worker", "caller", "actor"}, IInv,
           FatalIgnored(t)
    PROVE  IInv'
<1>1. /\ pc[t] = "fatal" /\ pc'[t] = ret[t] /\ OnlyMoves(t)
      /\ rec.fault \/ rec.closed \/ (t = "ingest"
         /\ rec.source # held["ingest"])
      /\ UNCHANGED <<rec, admission, mutation, co, rt, ses, port, phys,
                     pending, ret, held, victim>>
      /\ ThreadsOK'
  BY DEF IInv, TypeOK, ThreadsOK, FatalIgnored, At, Goto, Threads
<1>2. TypeOK' /\ StepsOK' /\ ShutdownOK' /\ BetweenOK' /\ OwnersOK'
  BY <1>1, NoneAssumption DEF IInv, TypeOK, StepsOK, ShutdownOK, BetweenOK,
     OwnersOK, Threads
<1>3. LocksOK'
  BY <1>1, NoneAssumption DEF IInv, LocksOK, StepsOK, Threads
<1>4. FaultOK'
  BY <1>1, NoneAssumption DEF IInv, FaultOK, StepsOK, ShutdownOK
<1>5. ReleaseOK'
  BY <1>1, NoneAssumption DEF IInv, ReleaseOK, StepsOK
<1>6. IngestOK'
  BY <1>1, NoneAssumption DEF IInv, IngestOK, StepsOK, ShutdownOK
<1>7. SegmentOK'
  BY <1>1, NoneAssumption DEF IInv, SegmentOK, StepsOK
<1>8. ReacquireOK'
  BY <1>1, NoneAssumption DEF IInv, ReacquireOK, StepsOK, FaultOK, ShutdownOK
<1>9. CandidateOK'
  BY <1>1, NoneAssumption DEF IInv, CandidateOK, StepsOK, FaultOK, ShutdownOK
<1>10. JournalOK'
  BY <1>1, JournalKept, NoneAssumption DEF IInv, JournalOK, StepsOK, FaultOK,
     ShutdownOK
<1> QED BY <1>1, <1>2, <1>3, <1>4, <1>5, <1>6, <1>7, <1>8, <1>9, <1>10 DEF IInv

\* The first fault takes the source from the recorder to close it and wakes a
\* release that waits for the drain; nobody is connecting a candidate.
LEMMA FatalMarkStep ==
    ASSUME NEW t \in {"ingest", "worker", "caller", "actor"}, IInv,
           FatalMark(t)
    PROVE  IInv'
<1>1. /\ pc[t] = "fatal" /\ OnlyMoves(t)
      /\ ~rec.fault /\ ~rec.closed
         /\ (t = "ingest" => rec.source = held["ingest"])
      /\ pc'[t] = IF rec.source = None THEN "fatal_end" ELSE "fatal_close"
      /\ victim' = rec.source
      /\ UNCHANGED <<admission, mutation, co, rt, ses, port, phys, pending,
                     ret, held>>
      /\ ThreadsOK'
  BY DEF IInv, TypeOK, ThreadsOK, FatalMark, At, Goto, Threads
<1>2. /\ rec'.drained = TRUE /\ rec'.fault = TRUE /\ rec'.state = "faulted"
         /\ rec'.source = None
      /\ rec'.replaceable = rec.replaceable /\ rec'.releasing = rec.releasing
      /\ rec'.release_closed = rec.release_closed /\ rec'.closing = rec.closing
      /\ rec'.closed = rec.closed /\ rec'.source_closed = rec.source_closed
  BY DEF IInv, TypeOK, Recorders, FatalMark
<1>3. rec' \in Recorders
  BY Zenon DEF IInv, TypeOK, FatalMark, Recorders, RecorderStates, Threads
<1>4. pc["worker"] # "connect" /\ pc["caller"] # "connect"
  <2>1. CASE t = "ingest"
    BY <1>1, <2>1, NoneAssumption DEF IInv, BetweenOK, BetweenAt, IngestOK
  <2>2. CASE t \in {"worker", "caller"}
    BY <1>1, <2>2 DEF IInv, LocksOK
  <2>3. CASE t = "actor"
    BY <1>1, <2>3, NoneAssumption DEF IInv, LocksOK, Threads
  <2> QED BY <2>1, <2>2, <2>3
<1>5. /\ TypeOK' /\ StepsOK' /\ LocksOK' /\ ShutdownOK' /\ BetweenOK'
      /\ IngestOK' /\ SegmentOK' /\ ReacquireOK' /\ CandidateOK'
      /\ JournalOK'
  BY <1>1, <1>2, <1>3, JournalKept, NoneAssumption DEF IInv, TypeOK, StepsOK,
     LocksOK, ShutdownOK, BetweenOK, IngestOK, SegmentOK, ReacquireOK,
     CandidateOK, JournalOK, Recorders, Threads
<1>6. FaultOK'
  BY <1>1, <1>2, <1>4, NoneAssumption DEF IInv, FaultOK, StepsOK
<1>7. ReleaseOK'
  BY <1>1, <1>2, NoneAssumption DEF IInv, ReleaseOK, LocksOK, FaultOK, Threads
<1>8. OwnersOK'
  BY <1>1, <1>2, NoneAssumption DEF IInv, OwnersOK, LocksOK, FaultOK,
     BetweenOK, Threads
<1> QED BY <1>1, <1>5, <1>6, <1>7, <1>8 DEF IInv

\* The source of a faulted recorder is closed, or known to be stuck.
LEMMA FatalCloseStep ==
    ASSUME NEW t \in {"ingest", "worker", "caller", "actor"}, IInv,
           FatalClose(t)
    PROVE  IInv'
<1>1. /\ pc[t] = "fatal_close" /\ pc'[t] = "fatal_end" /\ OnlyMoves(t)
      /\ victim \in Sources /\ OthersKeep(victim)
      /\ phys[victim] = "closed" => phys'[victim] = "closed"
      /\ phys'[victim] \in {"closed", "stuck"}
      /\ UNCHANGED <<rec, admission, mutation, co, rt, ses, port, pending, ret,
                     held, victim>>
      /\ rec.source \in Sources \cup {None} /\ victim \in Sources \cup {None}
      /\ held \in [Threads -> Sources \cup {None}]
      /\ ThreadsOK'
  BY CloseEffect DEF IInv, TypeOK, ThreadsOK, FatalClose, At, Goto, NoFault,
     FaultOK, Recorders, Threads
<1>2. phys' \in [Sources -> Transports]
  BY <1>1, NoneAssumption DEF IInv, TypeOK, FatalClose, NoFault, Closes,
     CloseRaises, Fault, FaultOK, Recorders, Transports
<1>3. /\ TypeOK' /\ StepsOK' /\ LocksOK' /\ ShutdownOK' /\ FaultOK'
      /\ ReacquireOK' /\ CandidateOK' /\ JournalOK'
  BY <1>1, <1>2, JournalKept, NoneAssumption DEF IInv, TypeOK, StepsOK,
     LocksOK, ShutdownOK, FaultOK, ReacquireOK, CandidateOK, JournalOK,
     Threads
<1>4. BetweenOK'
  BY <1>1, NoneAssumption DEF IInv, BetweenOK, LocksOK, FaultOK, Threads
<1>5. ReleaseOK'
  BY <1>1, NoneAssumption DEF IInv, ReleaseOK, LocksOK, FaultOK, Threads
<1>6. OwnersOK'
  BY <1>1, NoneAssumption DEF IInv, OwnersOK, LocksOK, FaultOK, Threads
<1>7. IngestOK'
  BY <1>1, NoneAssumption DEF IInv, IngestOK, LocksOK, FaultOK, Threads
<1>8. SegmentOK'
  BY <1>1, NoneAssumption DEF IInv, SegmentOK, IngestOK, Threads
<1> QED BY <1>1, <1>3, <1>4, <1>5, <1>6, <1>7, <1>8 DEF IInv

\* The terminal write of a fault ends the session; the thread goes on where it
\* was, with the fault recorded.
LEMMA FatalEndStep ==
    ASSUME NEW t \in {"ingest", "worker", "caller", "actor"}, IInv, FatalEnd(t)
    PROVE  IInv'
<1>1. CASE ses' = [ses EXCEPT !.life = "failed", !.segment = "closed"]
  <2>1. /\ pc[t] = "fatal_end" /\ pc'[t] = ret[t] /\ OnlyMoves(t)
        /\ UNCHANGED <<rec, admission, mutation, co, rt, port, phys, pending,
                       ret, held, victim>>
        /\ ThreadsOK'
    BY <1>1 DEF IInv, TypeOK, ThreadsOK, FatalEnd, At, Goto, Threads
  <2>2. /\ ses' \in Sessions /\ ses'.life # "active" /\ SameJournal
    BY <1>1, EndEffect DEF IInv, FatalEnd
  <2>3. /\ TypeOK' /\ StepsOK' /\ ShutdownOK' /\ BetweenOK' /\ OwnersOK'
        /\ JournalOK'
    BY <2>1, <2>2, NoneAssumption DEF IInv, TypeOK, StepsOK, ShutdownOK,
       BetweenOK, OwnersOK, JournalOK, Threads
  <2>4. LocksOK'
    BY <2>1, <2>2, NoneAssumption DEF IInv, LocksOK, StepsOK, Threads
  <2>5. FaultOK'
    BY <2>1, <2>2, NoneAssumption DEF IInv, FaultOK, StepsOK
  <2>6. ReleaseOK'
    BY <2>1, <2>2, NoneAssumption DEF IInv, ReleaseOK, StepsOK
  <2>7. IngestOK'
    BY <2>1, <2>2, NoneAssumption DEF IInv, IngestOK, StepsOK, FaultOK
  <2>8. SegmentOK'
    BY <2>1, <2>2, NoneAssumption DEF IInv, SegmentOK, StepsOK
  <2>9. ReacquireOK'
    BY <2>1, <2>2, NoneAssumption DEF IInv, ReacquireOK, StepsOK, FaultOK,
       ShutdownOK
  <2>10. CandidateOK'
    BY <2>1, <2>2, NoneAssumption DEF IInv, CandidateOK, StepsOK, FaultOK,
       ShutdownOK
  <2> QED BY <2>1, <2>3, <2>4, <2>5, <2>6, <2>7, <2>8, <2>9, <2>10 DEF IInv
<1>2. CASE UNCHANGED ses
  <2>1. /\ pc[t] = "fatal_end" /\ pc'[t] = ret[t] /\ OnlyMoves(t)
        /\ UNCHANGED <<rec, admission, mutation, co, rt, ses, port, phys,
                       pending, ret, held, victim>>
        /\ ThreadsOK'
    BY <1>2 DEF IInv, TypeOK, ThreadsOK, FatalEnd, At, Goto, Threads
  <2>2. TypeOK' /\ StepsOK' /\ ShutdownOK' /\ BetweenOK' /\ OwnersOK'
    BY <2>1, NoneAssumption DEF IInv, TypeOK, StepsOK, ShutdownOK, BetweenOK,
       OwnersOK, Threads
  <2>3. LocksOK'
    BY <2>1, NoneAssumption DEF IInv, LocksOK, StepsOK, Threads
  <2>4. FaultOK'
    BY <2>1, NoneAssumption DEF IInv, FaultOK, StepsOK
  <2>5. ReleaseOK'
    BY <2>1, NoneAssumption DEF IInv, ReleaseOK, StepsOK
  <2>6. IngestOK'
    BY <2>1, NoneAssumption DEF IInv, IngestOK, StepsOK, FaultOK
  <2>7. SegmentOK'
    BY <2>1, NoneAssumption DEF IInv, SegmentOK, StepsOK
  <2>8. ReacquireOK'
    BY <2>1, NoneAssumption DEF IInv, ReacquireOK, StepsOK, FaultOK,
       ShutdownOK
  <2>9. CandidateOK'
    BY <2>1, NoneAssumption DEF IInv, CandidateOK, StepsOK, FaultOK,
       ShutdownOK
  <2>10. JournalOK'
    BY <2>1, JournalKept, NoneAssumption DEF IInv, JournalOK, StepsOK,
       FaultOK, ShutdownOK
  <2> QED BY <2>1, <2>2, <2>3, <2>4, <2>5, <2>6, <2>7, <2>8, <2>9,
         <2>10 DEF IInv
<1> QED BY <1>1, <1>2 DEF FatalEnd, At

\* A source that receives has not been exhausted.
LEMMA ReceiveStep ==
    ASSUME NEW s \in Sources, IInv, Receive(s)
    PROVE  IInv'
<1>1. /\ phys[s] = "open" /\ pending'[s] = pending[s] + 1
      /\ \A r \in Sources \ {s} : pending'[r] = pending[r]
      /\ UNCHANGED <<rec, admission, mutation, co, rt, ses, port, phys, ret,
                     held, victim>>
      /\ UNCHANGED pc
      /\ rec.source \in Sources \cup {None} /\ victim \in Sources \cup {None}
      /\ held \in [Threads -> Sources \cup {None}]
      /\ ThreadsOK'
  BY DEF IInv, TypeOK, ThreadsOK, Receive, At, Goto, threads, Recorders,
     Threads
<1>2. pending' \in [Sources -> Nat]
  BY <1>1, NoneAssumption DEF IInv, TypeOK, Receive, threads, Recorders
<1>3. /\ TypeOK' /\ StepsOK' /\ LocksOK' /\ ShutdownOK' /\ FaultOK'
      /\ BetweenOK' /\ ReleaseOK' /\ OwnersOK' /\ ReacquireOK'
      /\ CandidateOK' /\ JournalOK'
  BY <1>1, <1>2, JournalKept, NoneAssumption DEF IInv, TypeOK, StepsOK,
     LocksOK, ShutdownOK, FaultOK, BetweenOK, ReleaseOK, OwnersOK,
     ReacquireOK, CandidateOK, JournalOK, Threads
<1>4. IngestOK'
  BY <1>1, NoneAssumption DEF IInv, IngestOK, StepsOK, Threads
<1>5. SegmentOK'
  BY <1>1, NoneAssumption DEF IInv, SegmentOK, IngestOK, Threads
<1> QED BY <1>1, <1>3, <1>4, <1>5 DEF IInv

\* A device that is unplugged leaves its source in the same hands.
LEMMA UnplugStep ==
    ASSUME NEW s \in Sources, IInv, Unplug(s)
    PROVE  IInv'
<1>1. /\ phys[s] = "open"
      /\ phys'[s] = "gone" /\ OthersKeep(s)
      /\ UNCHANGED <<rec, admission, mutation, co, rt, ses, port, pending, ret,
                     held, victim>>
      /\ UNCHANGED pc
      /\ rec.source \in Sources \cup {None} /\ victim \in Sources \cup {None}
      /\ held \in [Threads -> Sources \cup {None}]
      /\ ThreadsOK'
  BY DEF IInv, TypeOK, ThreadsOK, Unplug, At, Goto, NoFault, threads,
     Recorders, Threads
<1>2. phys' \in [Sources -> Transports]
  BY <1>1, NoneAssumption DEF IInv, TypeOK, Unplug, NoFault, Closes,
     CloseRaises, Fault, threads, Recorders, Transports
<1>3. /\ TypeOK' /\ StepsOK' /\ LocksOK' /\ ShutdownOK' /\ FaultOK'
      /\ BetweenOK' /\ ReleaseOK' /\ OwnersOK' /\ ReacquireOK'
      /\ CandidateOK' /\ JournalOK'
  BY <1>1, <1>2, JournalKept, NoneAssumption DEF IInv, TypeOK, StepsOK,
     LocksOK, ShutdownOK, FaultOK, BetweenOK, ReleaseOK, OwnersOK,
     ReacquireOK, CandidateOK, JournalOK, Threads
<1>4. IngestOK'
  BY <1>1, NoneAssumption DEF IInv, IngestOK, StepsOK, Threads
<1>5. SegmentOK'
  BY <1>1, NoneAssumption DEF IInv, SegmentOK, IngestOK, Threads
<1> QED BY <1>1, <1>3, <1>4, <1>5 DEF IInv

\* The ingest thread ends only under a fault or with no source left to read.
LEMMA IngestStopsStep ==
    ASSUME IInv, IngestStops
    PROVE  IInv'
<1>1. /\ pc["ingest"] = "top" /\ pc'["ingest"] = "done"
      /\ OnlyMoves("ingest")
      /\ rec.fault \/ (rec.closing /\ rec.source = None)
      /\ UNCHANGED <<rec, admission, mutation, co, rt, ses, port, phys,
                     pending, ret, held, victim>>
      /\ ThreadsOK'
  BY DEF IInv, TypeOK, ThreadsOK, IngestStops, At, Goto, Threads
<1>2. /\ TypeOK' /\ StepsOK' /\ LocksOK' /\ ShutdownOK' /\ FaultOK'
      /\ BetweenOK' /\ ReleaseOK' /\ OwnersOK' /\ IngestOK' /\ SegmentOK'
      /\ ReacquireOK' /\ CandidateOK' /\ JournalOK'
  BY <1>1, JournalKept, NoneAssumption DEF IInv, TypeOK, StepsOK, LocksOK,
     ShutdownOK, FaultOK, BetweenOK, ReleaseOK, OwnersOK, IngestOK, SegmentOK,
     ReacquireOK, CandidateOK, JournalOK, Threads
<1> QED BY <1>1, <1>2 DEF IInv

\* The ingest thread works on the recorder's source.
LEMMA IngestTakesStep ==
    ASSUME IInv, IngestTakes
    PROVE  IInv'
<1>1. /\ pc["ingest"] = "top" /\ pc'["ingest"] = "read"
      /\ OnlyMoves("ingest")
      /\ ~rec.fault /\ rec.source # None
      /\ held'["ingest"] = rec.source /\ OthersHold("ingest")
      /\ UNCHANGED <<rec, admission, mutation, co, rt, ses, port, phys,
                     pending, ret, victim>>
      /\ ThreadsOK'
  BY DEF IInv, TypeOK, ThreadsOK, IngestTakes, At, Goto, Threads
<1>2. held' \in [Threads -> Sources \cup {None}]
  BY <1>1, NoneAssumption DEF IInv, TypeOK, IngestTakes, Recorders, Threads
<1>3. /\ TypeOK' /\ StepsOK' /\ LocksOK' /\ ShutdownOK' /\ FaultOK'
      /\ BetweenOK' /\ ReleaseOK' /\ OwnersOK' /\ SegmentOK' /\ ReacquireOK'
      /\ CandidateOK' /\ JournalOK'
  BY <1>1, <1>2, JournalKept, NoneAssumption DEF IInv, TypeOK, StepsOK,
     LocksOK, ShutdownOK, FaultOK, BetweenOK, ReleaseOK, OwnersOK, SegmentOK,
     ReacquireOK, CandidateOK, JournalOK, Threads
<1>4. IngestOK'
  BY <1>1, NoneAssumption DEF IInv, IngestOK, BetweenOK, TypeOK, Recorders
<1> QED BY <1>1, <1>3, <1>4 DEF IInv

\* Buffered events are read before the error of a lost or closed transport, so
\* a source reported as lost is exhausted.
LEMMA ReadEventStep ==
    ASSUME IInv, ReadEvent
    PROVE  IInv'
<1>1. CASE pending[held["ingest"]] > 0
        /\ pending' = [pending EXCEPT ![held["ingest"]] = @ - 1]
           /\ Goto("ingest", "admit")
  <2>1. /\ pc["ingest"] = "read" /\ pc'["ingest"] = "admit"
        /\ OnlyMoves("ingest")
        /\ held["ingest"] \in Sources /\ pending[held["ingest"]] > 0
        /\ pending'[held["ingest"]] = pending[held["ingest"]] - 1
        /\ \A r \in Sources \ {held["ingest"]} : pending'[r] = pending[r]
        /\ UNCHANGED <<rec, admission, mutation, co, rt, ses, port, phys, ret,
                       held, victim>>
        /\ rec.source \in Sources \cup {None} /\ victim \in Sources \cup {None}
        /\ held \in [Threads -> Sources \cup {None}]
        /\ ThreadsOK'
    BY <1>1 DEF IInv, TypeOK, ThreadsOK, ReadEvent, At, Goto, IngestOK,
       StepsOK, Recorders, Threads
  <2>2. pending' \in [Sources -> Nat]
    BY <1>1, <2>1, NoneAssumption DEF IInv, TypeOK, ReadEvent, IngestOK,
       StepsOK, Recorders
  <2>3. /\ TypeOK' /\ StepsOK' /\ LocksOK' /\ ShutdownOK' /\ FaultOK'
        /\ BetweenOK' /\ ReleaseOK' /\ OwnersOK' /\ IngestOK' /\ SegmentOK'
        /\ ReacquireOK' /\ CandidateOK' /\ JournalOK'
    BY <2>1, <2>2, JournalKept, NoneAssumption DEF IInv, TypeOK, StepsOK,
       LocksOK, ShutdownOK, FaultOK, BetweenOK, ReleaseOK, OwnersOK, IngestOK,
       SegmentOK, ReacquireOK, CandidateOK, JournalOK, Threads
  <2> QED BY <2>1, <2>3 DEF IInv
<1>2. CASE /\ UNCHANGED pending
           /\ \/ Goto("ingest", "timeout") \/ Goto("ingest", "bad")
              \/ pending[held["ingest"]] = 0 /\ phys[held["ingest"]] # "open"
                /\ Goto("ingest", "lost")
  <2>1. /\ pc["ingest"] = "read"
           /\ pc'["ingest"] \in {"lost", "timeout", "bad"}
        /\ OnlyMoves("ingest")
        /\ held["ingest"] \in Sources
        /\ pc'["ingest"] = "lost" => pending[held["ingest"]] = 0
           /\ phys[held["ingest"]] # "open"
        /\ UNCHANGED <<rec, admission, mutation, co, rt, ses, port, phys,
                       pending, ret, held, victim>>
        /\ ThreadsOK'
    BY <1>2 DEF IInv, TypeOK, ThreadsOK, ReadEvent, At, Goto, IngestOK,
       StepsOK, Threads
  <2>2. /\ TypeOK' /\ StepsOK' /\ LocksOK' /\ ShutdownOK' /\ FaultOK'
        /\ BetweenOK' /\ ReleaseOK' /\ OwnersOK' /\ SegmentOK'
        /\ ReacquireOK' /\ CandidateOK' /\ JournalOK'
    BY <2>1, JournalKept, NoneAssumption DEF IInv, TypeOK, StepsOK, LocksOK,
       ShutdownOK, FaultOK, BetweenOK, ReleaseOK, OwnersOK, SegmentOK,
       ReacquireOK, CandidateOK, JournalOK, Threads
  <2>3. IngestOK'
    BY <2>1, NoneAssumption DEF IInv, IngestOK, TypeOK, Transports
  <2> QED BY <2>1, <2>2, <2>3 DEF IInv
<1> QED BY <1>1, <1>2 DEF ReadEvent, At

\* A timeout ends ingest only when shutdown has closed and drained the source.
LEMMA ReadTimesOutStep ==
    ASSUME IInv, ReadTimesOut
    PROVE  IInv'
<1>1. /\ pc["ingest"] = "timeout" /\ pc'["ingest"] \in {"done", "top"}
      /\ OnlyMoves("ingest")
      /\ pc'["ingest"] = "done" =>
                rec.closing /\ rec.source_closed /\ pending[held["ingest"]] = 0
      /\ UNCHANGED <<rec, admission, mutation, co, rt, ses, port, phys,
                     pending, ret, held, victim>>
      /\ ThreadsOK'
  BY DEF IInv, TypeOK, ThreadsOK, ReadTimesOut, At, Goto, Threads
<1>2. /\ TypeOK' /\ StepsOK' /\ LocksOK' /\ ShutdownOK' /\ FaultOK'
      /\ BetweenOK' /\ ReleaseOK' /\ OwnersOK' /\ SegmentOK' /\ ReacquireOK'
      /\ CandidateOK' /\ JournalOK'
  BY <1>1, JournalKept, NoneAssumption DEF IInv, TypeOK, StepsOK, LocksOK,
     ShutdownOK, FaultOK, BetweenOK, ReleaseOK, OwnersOK, SegmentOK,
     ReacquireOK, CandidateOK, JournalOK, Threads
<1>3. IngestOK'
  BY <1>1, NoneAssumption DEF IInv, IngestOK, ShutdownOK, OwnersOK
<1> QED BY <1>1, <1>2, <1>3 DEF IInv

\* A released source is detached when nothing is left in it.
LEMMA FinishReleaseDrainStep ==
    ASSUME IInv, FinishReleaseDrain
    PROVE  IInv'
<1>1. CASE pending[held["ingest"]] > 0
  <2>1. /\ pc["ingest"] \in {"lost", "bad", "timeout"} /\ pc'["ingest"] = "top"
        /\ OnlyMoves("ingest")
        /\ rec.releasing /\ (rec.release_closed \/ rec.fault)
        /\ UNCHANGED <<rec, admission, mutation, co, rt, ses, port, phys,
                       pending, ret, held, victim>>
        /\ ThreadsOK'
    BY <1>1 DEF IInv, TypeOK, ThreadsOK, FinishReleaseDrain, At, Goto, Threads
  <2>2. /\ TypeOK' /\ StepsOK' /\ LocksOK' /\ ShutdownOK' /\ FaultOK'
        /\ BetweenOK' /\ ReleaseOK' /\ OwnersOK' /\ IngestOK' /\ SegmentOK'
        /\ ReacquireOK' /\ CandidateOK' /\ JournalOK'
    BY <2>1, JournalKept, NoneAssumption DEF IInv, TypeOK, StepsOK, LocksOK,
       ShutdownOK, FaultOK, BetweenOK, ReleaseOK, OwnersOK, IngestOK,
       SegmentOK, ReacquireOK, CandidateOK, JournalOK, Threads
  <2> QED BY <2>1, <2>2 DEF IInv
<1>2. CASE ~(pending[held["ingest"]] > 0)
  <2>1. /\ pc["ingest"] \in {"lost", "bad", "timeout"} /\ pc'["ingest"] = "top"
        /\ OnlyMoves("ingest")
        /\ rec.releasing /\ (rec.release_closed \/ rec.fault)
        /\ UNCHANGED <<admission, mutation, co, rt, ses, port, phys, pending,
                       ret, held, victim>>
        /\ ThreadsOK'
    BY <1>2 DEF IInv, TypeOK, ThreadsOK, FinishReleaseDrain, At, Goto, Threads
  <2>2. /\ rec'.drained = TRUE
           /\ rec'.source = (IF rec.source = held["ingest"] THEN None
                                ELSE rec.source)
        /\ rec'.state = rec.state /\ rec'.fault = rec.fault
        /\ rec'.replaceable = rec.replaceable /\ rec'.releasing = rec.releasing
        /\ rec'.release_closed = rec.release_closed
           /\ rec'.closing = rec.closing
        /\ rec'.closed = rec.closed /\ rec'.source_closed = rec.source_closed
    BY <1>2 DEF IInv, TypeOK, Recorders, FinishReleaseDrain
  <2>3. rec' \in Recorders
    BY <1>2, Zenon DEF IInv, TypeOK, FinishReleaseDrain, Recorders,
       RecorderStates, Threads
  <2>4. /\ TypeOK' /\ StepsOK' /\ LocksOK' /\ ShutdownOK' /\ FaultOK'
        /\ BetweenOK' /\ IngestOK' /\ SegmentOK' /\ ReacquireOK'
        /\ CandidateOK' /\ JournalOK'
    BY <2>1, <2>2, <2>3, JournalKept, NoneAssumption DEF IInv, TypeOK,
       StepsOK, LocksOK, ShutdownOK, FaultOK, BetweenOK, IngestOK, SegmentOK,
       ReacquireOK, CandidateOK, JournalOK, Threads
  <2>5. ReleaseOK'
    BY <2>1, <2>2, NoneAssumption DEF IInv, ReleaseOK, IngestOK, FaultOK
  <2>6. OwnersOK'
    BY <2>1, <2>2, NoneAssumption DEF IInv, OwnersOK, ReleaseOK, FaultOK
  <2> QED BY <2>1, <2>4, <2>5, <2>6 DEF IInv
<1> QED BY <1>1, <1>2 DEF FinishReleaseDrain, At

\* At shutdown ingest ends when nothing is left in the closed source.
LEMMA FinishShutdownDrainStep ==
    ASSUME IInv, FinishShutdownDrain
    PROVE  IInv'
<1>1. /\ pc["ingest"] \in {"lost", "bad"} /\ pc'["ingest"] \in {"top", "done"}
      /\ OnlyMoves("ingest")
      /\ pc'["ingest"] = "done" =>
                rec.closing /\ rec.source_closed /\ pending[held["ingest"]] = 0
      /\ UNCHANGED <<rec, admission, mutation, co, rt, ses, port, phys,
                     pending, ret, held, victim>>
      /\ ThreadsOK'
  BY DEF IInv, TypeOK, ThreadsOK, FinishShutdownDrain, At, Goto, StepsOK,
     IngestOK, Threads
<1>2. /\ TypeOK' /\ StepsOK' /\ LocksOK' /\ ShutdownOK' /\ FaultOK'
      /\ BetweenOK' /\ ReleaseOK' /\ OwnersOK' /\ SegmentOK' /\ ReacquireOK'
      /\ CandidateOK' /\ JournalOK'
  BY <1>1, JournalKept, NoneAssumption DEF IInv, TypeOK, StepsOK, LocksOK,
     ShutdownOK, FaultOK, BetweenOK, ReleaseOK, OwnersOK, SegmentOK,
     ReacquireOK, CandidateOK, JournalOK, Threads
<1>3. IngestOK'
  BY <1>1, NoneAssumption DEF IInv, IngestOK, ShutdownOK, OwnersOK
<1> QED BY <1>1, <1>2, <1>3 DEF IInv

\* A lost source becomes a disconnect, unusable input a fault.
LEMMA ReadFailedStep ==
    ASSUME IInv, ReadFailed
    PROVE  IInv'
<1>1. CASE At("ingest", "lost")
  <2>1. /\ pc["ingest"] = "lost" /\ pc'["ingest"] = "disconnect"
        /\ OnlyMoves("ingest")
        /\ ~rec.closing
        /\ UNCHANGED <<rec, admission, mutation, co, rt, ses, port, phys,
                       pending, ret, held, victim>>
        /\ ThreadsOK'
    BY <1>1 DEF IInv, TypeOK, ThreadsOK, ReadFailed, At, Goto, Continue,
       Threads
  <2>2. /\ TypeOK' /\ StepsOK' /\ LocksOK' /\ ShutdownOK' /\ FaultOK'
        /\ BetweenOK' /\ ReleaseOK' /\ OwnersOK' /\ IngestOK' /\ SegmentOK'
        /\ ReacquireOK' /\ CandidateOK' /\ JournalOK'
    BY <2>1, JournalKept, NoneAssumption DEF IInv, TypeOK, StepsOK, LocksOK,
       ShutdownOK, FaultOK, BetweenOK, ReleaseOK, OwnersOK, IngestOK,
       SegmentOK, ReacquireOK, CandidateOK, JournalOK, Threads
  <2> QED BY <2>1, <2>2 DEF IInv
<1>2. CASE ~At("ingest", "lost")
  <2>1. /\ pc["ingest"] = "bad" /\ pc'["ingest"] = "fatal"
        /\ OnlyMoves("ingest")
        /\ ret'["ingest"] = "done"
        /\ ~rec.closing
        /\ UNCHANGED <<rec, admission, mutation, co, rt, ses, port, phys,
                       pending, held, victim>>
        /\ ThreadsOK'
    BY <1>2 DEF IInv, TypeOK, ThreadsOK, ReadFailed, At, Goto, Raise, Threads
  <2>2. /\ TypeOK' /\ StepsOK' /\ LocksOK' /\ ShutdownOK' /\ FaultOK'
        /\ BetweenOK' /\ ReleaseOK' /\ OwnersOK' /\ IngestOK' /\ SegmentOK'
        /\ ReacquireOK' /\ CandidateOK' /\ JournalOK'
    BY <2>1, JournalKept, NoneAssumption DEF IInv, TypeOK, StepsOK, LocksOK,
       ShutdownOK, FaultOK, BetweenOK, ReleaseOK, OwnersOK, IngestOK,
       SegmentOK, ReacquireOK, CandidateOK, JournalOK, Threads
  <2> QED BY <2>1, <2>2 DEF IInv
<1> QED BY <1>1, <1>2 DEF ReadFailed, At

\* Evidence goes into the active session's open segment, or ends the ownership.
LEMMA IngestAdmitsStep ==
    ASSUME IInv, IngestAdmits
    PROVE  IInv'
<1>1. CASE /\ ses' = [ses EXCEPT !.stored = @ + 1]
           /\ Continue("ingest", "top")
  <2>1. /\ pc["ingest"] = "admit" /\ pc'["ingest"] = "top"
        /\ OnlyMoves("ingest")
        /\ UNCHANGED <<rec, admission, mutation, co, rt, port, phys, pending,
                       ret, held, victim>>
        /\ ThreadsOK'
    BY <1>1 DEF IInv, TypeOK, ThreadsOK, IngestAdmits, At, Goto, Continue,
       Threads
  <2>2. /\ ses' \in Sessions /\ ses'.life = ses.life
           /\ ses'.segment = ses.segment
        /\ SameJournal
    BY <1>1, StoredEffect DEF IInv, IngestAdmits
  <2>3. /\ TypeOK' /\ StepsOK' /\ LocksOK' /\ ShutdownOK' /\ FaultOK'
        /\ BetweenOK' /\ ReleaseOK' /\ OwnersOK' /\ IngestOK' /\ SegmentOK'
        /\ ReacquireOK' /\ CandidateOK' /\ JournalOK'
    BY <2>1, <2>2, NoneAssumption DEF IInv, TypeOK, StepsOK, LocksOK,
       ShutdownOK, FaultOK, BetweenOK, ReleaseOK, OwnersOK, IngestOK,
       SegmentOK, ReacquireOK, CandidateOK, JournalOK, Threads
  <2> QED BY <2>1, <2>3 DEF IInv
<1>2. CASE StoreRaises /\ Raise("ingest", "done")
  <2>1. /\ pc["ingest"] = "admit" /\ pc'["ingest"] = "fatal"
        /\ OnlyMoves("ingest")
        /\ ret'["ingest"] = "done"
        /\ UNCHANGED <<rec, admission, mutation, co, rt, port, phys, pending,
                       held, victim>>
        /\ ThreadsOK'
    BY <1>2 DEF IInv, TypeOK, ThreadsOK, IngestAdmits, At, Goto, Raise,
       Threads
  <2>2. /\ ses' \in Sessions /\ ses'.segment = ses.segment
        /\ ses'.life = "active" => ses.life = "active"
        /\ SameJournal
    BY <1>2, StoreRaisesEffect DEF IInv, IngestAdmits
  <2>3. /\ TypeOK' /\ StepsOK' /\ LocksOK' /\ ShutdownOK' /\ FaultOK'
        /\ BetweenOK' /\ ReleaseOK' /\ OwnersOK' /\ IngestOK' /\ SegmentOK'
        /\ ReacquireOK' /\ CandidateOK' /\ JournalOK'
    BY <2>1, <2>2, NoneAssumption DEF IInv, TypeOK, StepsOK, LocksOK,
       ShutdownOK, FaultOK, BetweenOK, ReleaseOK, OwnersOK, IngestOK,
       SegmentOK, ReacquireOK, CandidateOK, JournalOK, Threads
  <2> QED BY <2>1, <2>3 DEF IInv
<1> QED BY <1>1, <1>2 DEF IngestAdmits, At

\* A disconnect is journalled for the recorder's own source, of which nothing
\* is left to read, before it is published.
LEMMA RecordDisconnectStep ==
    ASSUME IInv, RecordDisconnect
    PROVE  IInv'
<1>1. CASE Superseded /\ Continue("ingest", "top") /\ UNCHANGED ses
  <2>1. /\ pc["ingest"] = "disconnect" /\ pc'["ingest"] = "top"
        /\ OnlyMoves("ingest")
        /\ rec.closing \/ rec.source # held["ingest"]
        /\ UNCHANGED <<rec, admission, mutation, co, rt, ses, port, phys,
                       pending, ret, held, victim>>
        /\ ThreadsOK'
    BY <1>1 DEF IInv, TypeOK, ThreadsOK, RecordDisconnect, At, Goto, Continue,
       Superseded, Threads
  <2>2. /\ TypeOK' /\ StepsOK' /\ LocksOK' /\ ShutdownOK' /\ FaultOK'
        /\ BetweenOK' /\ ReleaseOK' /\ OwnersOK' /\ IngestOK' /\ SegmentOK'
        /\ ReacquireOK' /\ CandidateOK' /\ JournalOK'
    BY <2>1, JournalKept, NoneAssumption DEF IInv, TypeOK, StepsOK, LocksOK,
       ShutdownOK, FaultOK, BetweenOK, ReleaseOK, OwnersOK, IngestOK,
       SegmentOK, ReacquireOK, CandidateOK, JournalOK, Threads
  <2> QED BY <2>1, <2>2 DEF IInv
<1>2. CASE /\ ~Superseded
           /\ StoreAppends(<<"unexpected_disconnect", "reconnect_started">>,
              "closed")
           /\ Continue("ingest", "publish_disconnect")
  <2>1. /\ pc["ingest"] = "disconnect" /\ pc'["ingest"] = "publish_disconnect"
        /\ OnlyMoves("ingest")
        /\ ~rec.closing /\ rec.source = held["ingest"]
        /\ UNCHANGED <<rec, admission, mutation, co, rt, port, phys, pending,
                       ret, held, victim>>
        /\ ThreadsOK'
    BY <1>2 DEF IInv, TypeOK, ThreadsOK, RecordDisconnect, At, Goto, Continue,
       Superseded, Threads
  <2>2. /\ ses' \in Sessions /\ ses'.life = ses.life
        /\ ses'.life = "active"
        /\ Last' = "reconnect_started" /\ (Journalled
           /\ Last \in Up => Journalled')
    BY <1>2, StoreDisconnect, Zenon DEF IInv, RecordDisconnect
  <2>3. /\ TypeOK' /\ StepsOK' /\ LocksOK' /\ ShutdownOK' /\ FaultOK'
        /\ BetweenOK' /\ ReleaseOK' /\ OwnersOK' /\ IngestOK'
        /\ ReacquireOK' /\ CandidateOK'
    BY <2>1, <2>2, NoneAssumption DEF IInv, TypeOK, StepsOK, LocksOK,
       ShutdownOK, FaultOK, BetweenOK, ReleaseOK, OwnersOK, IngestOK,
       ReacquireOK, CandidateOK, Threads
  <2>4. SegmentOK'
    BY <2>1, <2>2, NoneAssumption DEF IInv, SegmentOK, IngestOK, BetweenOK
  <2>5. JournalOK'
    BY <2>1, <2>2, NoneAssumption DEF IInv, JournalOK, BetweenOK, IngestOK
  <2> QED BY <2>1, <2>3, <2>4, <2>5 DEF IInv
<1>3. CASE ~Superseded /\ StoreRaises /\ Raise("ingest", "top")
  <2>1. /\ pc["ingest"] = "disconnect" /\ pc'["ingest"] = "fatal"
        /\ OnlyMoves("ingest")
        /\ ret'["ingest"] = "top"
        /\ ~rec.closing /\ rec.source = held["ingest"]
        /\ UNCHANGED <<rec, admission, mutation, co, rt, port, phys, pending,
                       held, victim>>
        /\ ThreadsOK'
    BY <1>3 DEF IInv, TypeOK, ThreadsOK, RecordDisconnect, At, Goto, Raise,
       Superseded, Threads
  <2>2. /\ ses' \in Sessions /\ ses'.segment = ses.segment
        /\ ses'.life = "active" => ses.life = "active"
        /\ SameJournal
    BY <1>3, StoreRaisesEffect DEF IInv, RecordDisconnect
  <2>3. /\ TypeOK' /\ StepsOK' /\ LocksOK' /\ ShutdownOK' /\ FaultOK'
        /\ BetweenOK' /\ ReleaseOK' /\ OwnersOK' /\ IngestOK' /\ SegmentOK'
        /\ ReacquireOK' /\ CandidateOK' /\ JournalOK'
    BY <2>1, <2>2, NoneAssumption DEF IInv, TypeOK, StepsOK, LocksOK,
       ShutdownOK, FaultOK, BetweenOK, ReleaseOK, OwnersOK, IngestOK,
       SegmentOK, ReacquireOK, CandidateOK, JournalOK, Threads
  <2> QED BY <2>1, <2>3 DEF IInv
<1> QED BY <1>1, <1>2, <1>3 DEF RecordDisconnect, At

\* When the loss is published the ingest thread waits at the lost source.
LEMMA PublishDisconnectStep ==
    ASSUME IInv, PublishDisconnect
    PROVE  IInv'
<1>1. CASE Superseded
  <2>1. /\ pc["ingest"] = "publish_disconnect" /\ pc'["ingest"] = "top"
        /\ OnlyMoves("ingest")
        /\ rec.closing \/ rec.source # held["ingest"]
        /\ UNCHANGED <<rec, admission, mutation, co, rt, ses, port, phys,
                       pending, ret, held, victim>>
        /\ ThreadsOK'
    BY <1>1 DEF IInv, TypeOK, ThreadsOK, PublishDisconnect, At, Goto,
       Superseded, Threads
  <2>2. /\ TypeOK' /\ StepsOK' /\ LocksOK' /\ ShutdownOK' /\ FaultOK'
        /\ BetweenOK' /\ ReleaseOK' /\ OwnersOK' /\ IngestOK' /\ SegmentOK'
        /\ ReacquireOK' /\ CandidateOK'
    BY <2>1, NoneAssumption DEF IInv, TypeOK, StepsOK, LocksOK, ShutdownOK,
       FaultOK, BetweenOK, ReleaseOK, OwnersOK, IngestOK, SegmentOK,
       ReacquireOK, CandidateOK, Threads
  <2>3. JournalOK'
    BY <2>1, JournalKept, NoneAssumption DEF IInv, JournalOK, StepsOK
  <2> QED BY <2>1, <2>2, <2>3 DEF IInv
<1>2. CASE ~Superseded
  <2>1. /\ pc["ingest"] = "publish_disconnect"
           /\ pc'["ingest"] = "await_detach"
        /\ OnlyMoves("ingest")
        /\ ~rec.closing /\ rec.source = held["ingest"]
        /\ UNCHANGED <<admission, mutation, co, rt, ses, port, phys, pending,
                       ret, held, victim>>
        /\ ThreadsOK'
    BY <1>2 DEF IInv, TypeOK, ThreadsOK, PublishDisconnect, At, Goto,
       Superseded, Threads
  <2>2. rec' = [rec EXCEPT !.state = "reconnecting", !.replaceable = TRUE]
    BY <1>2 DEF PublishDisconnect, Superseded
  <2>3. /\ rec'.state = "reconnecting" /\ rec'.replaceable = TRUE
        /\ rec'.source = rec.source /\ rec'.fault = rec.fault
        /\ rec'.releasing = rec.releasing
           /\ rec'.release_closed = rec.release_closed
        /\ rec'.drained = rec.drained /\ rec'.closing = rec.closing
        /\ rec'.closed = rec.closed /\ rec'.source_closed = rec.source_closed
    BY <2>2 DEF IInv, TypeOK, Recorders
  <2>4. rec' \in Recorders
    BY <2>2, Zenon DEF IInv, TypeOK, Recorders, RecorderStates, Threads
  <2>5. /\ TypeOK' /\ StepsOK' /\ LocksOK' /\ ShutdownOK' /\ BetweenOK'
        /\ ReleaseOK' /\ OwnersOK' /\ IngestOK' /\ SegmentOK'
        /\ ReacquireOK' /\ CandidateOK' /\ JournalOK'
    BY <2>1, <2>3, <2>4, JournalKept, NoneAssumption DEF IInv, TypeOK,
       StepsOK, LocksOK, ShutdownOK, BetweenOK, ReleaseOK, OwnersOK, IngestOK,
       SegmentOK, ReacquireOK, CandidateOK, JournalOK, Threads
  <2>6. FaultOK'
    BY <2>1, <2>3, NoneAssumption DEF IInv, FaultOK, IngestOK
  <2> QED BY <2>1, <2>5, <2>6 DEF IInv
<1> QED BY <1>1, <1>2 DEF PublishDisconnect, At

\* The ingest thread leaves the lost source when it was replaced or faulted.
LEMMA DisconnectDetachedStep ==
    ASSUME IInv, DisconnectDetached
    PROVE  IInv'
<1>1. /\ pc["ingest"] = "await_detach" /\ pc'["ingest"] = "top"
      /\ OnlyMoves("ingest")
      /\ rec.closing \/ rec.source # held["ingest"] \/ rec.fault
      /\ UNCHANGED <<rec, admission, mutation, co, rt, ses, port, phys,
                     pending, ret, held, victim>>
      /\ ThreadsOK'
  BY DEF IInv, TypeOK, ThreadsOK, DisconnectDetached, At, Goto, Superseded,
     Threads
<1>2. /\ TypeOK' /\ StepsOK' /\ LocksOK' /\ ShutdownOK' /\ FaultOK'
      /\ BetweenOK' /\ ReleaseOK' /\ OwnersOK' /\ SegmentOK' /\ ReacquireOK'
      /\ CandidateOK'
  BY <1>1, NoneAssumption DEF IInv, TypeOK, StepsOK, LocksOK, ShutdownOK,
     FaultOK, BetweenOK, ReleaseOK, OwnersOK, SegmentOK, ReacquireOK,
     CandidateOK, Threads
<1>3. IngestOK'
  BY <1>1, NoneAssumption DEF IInv, IngestOK, LocksOK, FaultOK, Threads
<1>4. JournalOK'
  BY <1>1, JournalKept, NoneAssumption DEF IInv, JournalOK, FaultOK
<1> QED BY <1>1, <1>2, <1>3, <1>4 DEF IInv

\* The worker ends between two attempts.
LEMMA WorkerLeavesStep ==
    ASSUME IInv, WorkerLeaves
    PROVE  IInv'
<1>1. /\ pc["worker"] = "wait" /\ pc'["worker"] = "done"
      /\ OnlyMoves("worker")
      /\ UNCHANGED <<rec, admission, mutation, co, rt, ses, port, phys,
                     pending, ret, held, victim>>
      /\ ThreadsOK'
  BY DEF IInv, TypeOK, ThreadsOK, WorkerLeaves, At, Goto, Threads
<1>2. /\ TypeOK' /\ StepsOK' /\ LocksOK' /\ ShutdownOK' /\ FaultOK'
      /\ BetweenOK' /\ ReleaseOK' /\ OwnersOK' /\ IngestOK' /\ SegmentOK'
      /\ ReacquireOK' /\ CandidateOK' /\ JournalOK'
  BY <1>1, JournalKept, NoneAssumption DEF IInv, TypeOK, StepsOK, LocksOK,
     ShutdownOK, FaultOK, BetweenOK, ReleaseOK, OwnersOK, IngestOK, SegmentOK,
     ReacquireOK, CandidateOK, JournalOK, Threads
<1> QED BY <1>1, <1>2 DEF IInv

\* The worker has seen the loss and has claimed nothing yet.
LEMMA SeesDisconnectStep ==
    ASSUME IInv, SeesDisconnect
    PROVE  IInv'
<1>1. /\ pc["worker"] = "wait" /\ pc'["worker"] = "claim"
      /\ OnlyMoves("worker")
      /\ ~co.stop
      /\ UNCHANGED <<rec, admission, mutation, co, rt, ses, port, phys,
                     pending, ret, held, victim>>
      /\ ThreadsOK'
  BY DEF IInv, TypeOK, ThreadsOK, SeesDisconnect, At, Goto, Threads
<1>2. /\ TypeOK' /\ StepsOK' /\ LocksOK' /\ ShutdownOK' /\ FaultOK'
      /\ BetweenOK' /\ ReleaseOK' /\ OwnersOK' /\ IngestOK' /\ SegmentOK'
      /\ ReacquireOK' /\ CandidateOK' /\ JournalOK'
  BY <1>1, JournalKept, NoneAssumption DEF IInv, TypeOK, StepsOK, LocksOK,
     ShutdownOK, FaultOK, BetweenOK, ReleaseOK, OwnersOK, IngestOK, SegmentOK,
     ReacquireOK, CandidateOK, JournalOK, Threads
<1> QED BY <1>1, <1>2 DEF IInv

\* The worker's claim excludes a manual request.
LEMMA ClaimAttemptStep ==
    ASSUME IInv, ClaimAttempt
    PROVE  IInv'
<1>1. CASE co.closing \/ co.suspended \/ co.attempt # None
  <2>1. /\ pc["worker"] = "claim" /\ pc'["worker"] = "wait"
        /\ OnlyMoves("worker")
        /\ UNCHANGED <<rec, admission, mutation, co, rt, ses, port, phys,
                       pending, ret, held, victim>>
        /\ ThreadsOK'
    BY <1>1 DEF IInv, TypeOK, ThreadsOK, ClaimAttempt, At, Goto, Threads
  <2>2. /\ TypeOK' /\ StepsOK' /\ LocksOK' /\ ShutdownOK' /\ FaultOK'
        /\ BetweenOK' /\ ReleaseOK' /\ OwnersOK' /\ IngestOK' /\ SegmentOK'
        /\ ReacquireOK' /\ CandidateOK' /\ JournalOK'
    BY <2>1, JournalKept, NoneAssumption DEF IInv, TypeOK, StepsOK, LocksOK,
       ShutdownOK, FaultOK, BetweenOK, ReleaseOK, OwnersOK, IngestOK,
       SegmentOK, ReacquireOK, CandidateOK, JournalOK, Threads
  <2> QED BY <2>1, <2>2 DEF IInv
<1>2. CASE ~(co.closing \/ co.suspended \/ co.attempt # None)
  <2>1. /\ pc["worker"] = "claim" /\ pc'["worker"] = "detach"
        /\ OnlyMoves("worker")
        /\ co.attempt = None
        /\ co'.attempt = "worker"
        /\ co'.stop = co.stop /\ co'.suspended = co.suspended
        /\ co'.closing = co.closing /\ co'.closed = co.closed
        /\ UNCHANGED <<rec, admission, mutation, rt, ses, port, phys, pending,
                       ret, held, victim>>
        /\ ThreadsOK'
    BY <1>2 DEF IInv, TypeOK, ThreadsOK, ClaimAttempt, At, Goto, Coordinators,
       Threads
  <2>2. co' \in Coordinators
    BY <1>2, Zenon DEF IInv, TypeOK, ClaimAttempt, Coordinators
  <2>3. /\ TypeOK' /\ StepsOK' /\ LocksOK' /\ ShutdownOK' /\ FaultOK'
        /\ BetweenOK' /\ ReleaseOK' /\ OwnersOK' /\ IngestOK' /\ SegmentOK'
        /\ ReacquireOK' /\ CandidateOK' /\ JournalOK'
    BY <2>1, <2>2, JournalKept, NoneAssumption DEF IInv, TypeOK, StepsOK,
       LocksOK, ShutdownOK, FaultOK, BetweenOK, ReleaseOK, OwnersOK, IngestOK,
       SegmentOK, ReacquireOK, CandidateOK, JournalOK, Threads
  <2> QED BY <2>1, <2>3 DEF IInv
<1> QED BY <1>1, <1>2 DEF ClaimAttempt, At

\* The worker takes over the lost source, which ingest has exhausted.
LEMMA DetachStep ==
    ASSUME IInv, Detach
    PROVE  IInv'
<1>1. CASE /\ UNCHANGED <<rec, held>>
           /\ Continue("worker", "unclaim") \/ Continue("worker", "failed")
  <2>1. /\ pc["worker"] = "detach" /\ pc'["worker"] \in {"unclaim", "failed"}
        /\ OnlyMoves("worker")
        /\ UNCHANGED <<rec, admission, mutation, co, rt, ses, port, phys,
                       pending, ret, held, victim>>
        /\ ThreadsOK'
    BY <1>1 DEF IInv, TypeOK, ThreadsOK, Detach, At, Goto, Continue, Threads
  <2>2. /\ TypeOK' /\ StepsOK' /\ LocksOK' /\ ShutdownOK' /\ FaultOK'
        /\ BetweenOK' /\ ReleaseOK' /\ OwnersOK' /\ IngestOK' /\ SegmentOK'
        /\ ReacquireOK' /\ CandidateOK' /\ JournalOK'
    BY <2>1, JournalKept, NoneAssumption DEF IInv, TypeOK, StepsOK, LocksOK,
       ShutdownOK, FaultOK, BetweenOK, ReleaseOK, OwnersOK, IngestOK,
       SegmentOK, ReacquireOK, CandidateOK, JournalOK, Threads
  <2> QED BY <2>1, <2>2 DEF IInv
<1>2. CASE /\ rec.state = "reconnecting" /\ rec.source # None /\ ~rec.closing
           /\ rec' = [rec EXCEPT !.source = None, !.replaceable = FALSE]
           /\ held' = [held EXCEPT !["worker"] = rec.source]
           /\ Continue("worker", "close_lost")
  <2>1. /\ pc["worker"] = "detach" /\ pc'["worker"] = "close_lost"
        /\ OnlyMoves("worker")
        /\ rec.state = "reconnecting" /\ rec.source # None /\ ~rec.closing
        /\ held'["worker"] = rec.source /\ OthersHold("worker")
        /\ UNCHANGED <<admission, mutation, co, rt, ses, port, phys, pending,
                       ret, victim>>
        /\ ThreadsOK'
    BY <1>2 DEF IInv, TypeOK, ThreadsOK, Detach, At, Goto, Continue, Threads
  <2>2. /\ rec'.source = None /\ rec'.replaceable = FALSE
        /\ rec'.state = rec.state /\ rec'.fault = rec.fault
        /\ rec'.releasing = rec.releasing
           /\ rec'.release_closed = rec.release_closed
        /\ rec'.drained = rec.drained /\ rec'.closing = rec.closing
        /\ rec'.closed = rec.closed /\ rec'.source_closed = rec.source_closed
    BY <1>2 DEF IInv, TypeOK, Recorders, Detach, Continue
  <2>3. rec' \in Recorders
    BY <1>2, Zenon DEF IInv, TypeOK, Detach, Continue, Recorders,
       RecorderStates, Threads
  <2>4. held' \in [Threads -> Sources \cup {None}]
    BY <1>2, <2>1, <2>2, NoneAssumption DEF IInv, TypeOK, Detach, Recorders,
       Threads, Continue
  <2>5. /\ TypeOK' /\ StepsOK' /\ LocksOK' /\ ShutdownOK' /\ FaultOK'
        /\ OwnersOK' /\ IngestOK' /\ SegmentOK' /\ ReacquireOK'
        /\ CandidateOK'
    BY <2>1, <2>2, <2>3, <2>4, NoneAssumption DEF IInv, TypeOK, StepsOK,
       LocksOK, ShutdownOK, FaultOK, OwnersOK, IngestOK, SegmentOK,
       ReacquireOK, CandidateOK, Threads
  <2>6. BetweenOK'
    BY <2>1, <2>2, NoneAssumption DEF IInv, BetweenOK, FaultOK, LocksOK,
       TypeOK, Recorders, Threads
  <2>7. ReleaseOK'
    BY <2>1, <2>2, NoneAssumption DEF IInv, ReleaseOK, LocksOK, FaultOK,
       Threads
  <2>8. JournalOK'
    BY <2>1, <2>2, JournalKept, NoneAssumption DEF IInv, JournalOK, IngestOK,
       BetweenOK
  <2> QED BY <2>1, <2>5, <2>6, <2>7, <2>8 DEF IInv
<1> QED BY <1>1, <1>2 DEF Detach, At

\* The lost source is closed before a replacement may be opened; when its close
\* raises the worker stops the supervisor.
LEMMA CloseLostStep ==
    ASSUME IInv, CloseLost
    PROVE  IInv'
<1>1. CASE Closes(held["worker"]) /\ Continue("worker", "detached")
  <2>1. /\ pc["worker"] = "close_lost" /\ pc'["worker"] = "detached"
        /\ OnlyMoves("worker")
        /\ held["worker"] \in Sources
        /\ phys'[held["worker"]] = "closed" /\ OthersKeep(held["worker"])
        /\ phys[held["worker"]] # "unopened"
        /\ UNCHANGED <<rec, admission, mutation, co, rt, ses, port, pending,
                       ret, held, victim>>
        /\ rec.source \in Sources \cup {None} /\ victim \in Sources \cup {None}
        /\ held \in [Threads -> Sources \cup {None}]
        /\ ThreadsOK'
    BY <1>1, ClosesEffect DEF IInv, TypeOK, ThreadsOK, CloseLost, At, Goto,
       NoFault, Continue, BetweenOK, Recorders, Threads
  <2>2. phys' \in [Sources -> Transports]
    BY <1>1, <2>1, NoneAssumption DEF IInv, TypeOK, CloseLost, NoFault,
       Closes, CloseRaises, Fault, Continue, BetweenOK, Recorders, Transports
  <2>3. /\ TypeOK' /\ StepsOK' /\ LocksOK' /\ ShutdownOK' /\ FaultOK'
        /\ BetweenOK' /\ OwnersOK' /\ ReacquireOK' /\ CandidateOK'
        /\ JournalOK'
    BY <2>1, <2>2, JournalKept, NoneAssumption DEF IInv, TypeOK, StepsOK,
       LocksOK, ShutdownOK, FaultOK, BetweenOK, OwnersOK, ReacquireOK,
       CandidateOK, JournalOK, Threads
  <2>4. ReleaseOK'
    BY <2>1, NoneAssumption DEF IInv, ReleaseOK, LocksOK, FaultOK, Threads
  <2>5. IngestOK'
    BY <2>1, NoneAssumption DEF IInv, IngestOK, StepsOK, Threads
  <2>6. SegmentOK'
    BY <2>1, NoneAssumption DEF IInv, SegmentOK, IngestOK, Threads
  <2> QED BY <2>1, <2>3, <2>4, <2>5, <2>6 DEF IInv
<1>2. CASE CloseRaises(held["worker"]) /\ Raise("worker", "failed")
  <2>1. /\ pc["worker"] = "close_lost" /\ pc'["worker"] = "fatal"
        /\ OnlyMoves("worker")
        /\ ret'["worker"] = "failed"
        /\ held["worker"] \in Sources
        /\ phys'[held["worker"]] = "stuck" /\ OthersKeep(held["worker"])
        /\ phys[held["worker"]] \in {"open", "gone", "stuck"}
        /\ UNCHANGED <<rec, admission, mutation, co, rt, ses, port, pending,
                       held, victim>>
        /\ rec.source \in Sources \cup {None} /\ victim \in Sources \cup {None}
        /\ held \in [Threads -> Sources \cup {None}]
        /\ ThreadsOK'
    BY <1>2, CloseRaisesEffect DEF IInv, TypeOK, ThreadsOK, CloseLost, At,
       Goto, NoFault, Raise, BetweenOK, Recorders, Threads
  <2>2. phys' \in [Sources -> Transports]
    BY <1>2, <2>1, NoneAssumption DEF IInv, TypeOK, CloseLost, NoFault,
       Closes, CloseRaises, Fault, Raise, BetweenOK, Recorders, Transports
  <2>3. /\ TypeOK' /\ StepsOK' /\ LocksOK' /\ ShutdownOK' /\ FaultOK'
        /\ BetweenOK' /\ OwnersOK' /\ ReacquireOK' /\ CandidateOK'
        /\ JournalOK'
    BY <2>1, <2>2, JournalKept, NoneAssumption DEF IInv, TypeOK, StepsOK,
       LocksOK, ShutdownOK, FaultOK, BetweenOK, OwnersOK, ReacquireOK,
       CandidateOK, JournalOK, Threads
  <2>4. ReleaseOK'
    BY <2>1, NoneAssumption DEF IInv, ReleaseOK, LocksOK, FaultOK, Threads
  <2>5. IngestOK'
    BY <2>1, NoneAssumption DEF IInv, IngestOK, StepsOK, Threads
  <2>6. SegmentOK'
    BY <2>1, NoneAssumption DEF IInv, SegmentOK, IngestOK, Threads
  <2> QED BY <2>1, <2>3, <2>4, <2>5, <2>6 DEF IInv
<1> QED BY <1>1, <1>2 DEF CloseLost, At

\* A closed source may be replaced.
LEMMA DetachedStep ==
    ASSUME IInv, Detached
    PROVE  IInv'
<1>1. CASE ~rec.closing /\ rec.state = "reconnecting"
  <2>1. /\ pc["worker"] = "detached" /\ pc'["worker"] = "open"
        /\ OnlyMoves("worker")
        /\ rec.state = "reconnecting"
        /\ UNCHANGED <<admission, mutation, co, rt, ses, port, phys, pending,
                       ret, held, victim>>
        /\ ThreadsOK'
    BY <1>1 DEF IInv, TypeOK, ThreadsOK, Detached, At, Goto, Threads
  <2>2. /\ rec'.replaceable = TRUE
        /\ rec'.state = rec.state /\ rec'.source = rec.source
        /\ rec'.fault = rec.fault /\ rec'.releasing = rec.releasing
        /\ rec'.release_closed = rec.release_closed
           /\ rec'.drained = rec.drained
        /\ rec'.closing = rec.closing /\ rec'.closed = rec.closed
        /\ rec'.source_closed = rec.source_closed
    BY <1>1 DEF IInv, TypeOK, Recorders, Detached
  <2>3. rec' \in Recorders
    BY <1>1, Zenon DEF IInv, TypeOK, Detached, Recorders, RecorderStates,
       Threads
  <2>4. /\ TypeOK' /\ StepsOK' /\ LocksOK' /\ ShutdownOK' /\ FaultOK'
        /\ BetweenOK' /\ ReleaseOK' /\ OwnersOK' /\ IngestOK' /\ SegmentOK'
        /\ ReacquireOK' /\ CandidateOK' /\ JournalOK'
    BY <2>1, <2>2, <2>3, JournalKept, NoneAssumption DEF IInv, TypeOK,
       StepsOK, LocksOK, ShutdownOK, FaultOK, BetweenOK, ReleaseOK, OwnersOK,
       IngestOK, SegmentOK, ReacquireOK, CandidateOK, JournalOK, Threads
  <2> QED BY <2>1, <2>4 DEF IInv
<1>2. CASE ~(~rec.closing /\ rec.state = "reconnecting")
  <2>1. /\ pc["worker"] = "detached" /\ pc'["worker"] = "open"
        /\ OnlyMoves("worker")
        /\ UNCHANGED <<rec, admission, mutation, co, rt, ses, port, phys,
                       pending, ret, held, victim>>
        /\ ThreadsOK'
    BY <1>2 DEF IInv, TypeOK, ThreadsOK, Detached, At, Goto, Threads
  <2>2. /\ TypeOK' /\ StepsOK' /\ LocksOK' /\ ShutdownOK' /\ FaultOK'
        /\ BetweenOK' /\ ReleaseOK' /\ OwnersOK' /\ IngestOK' /\ SegmentOK'
        /\ ReacquireOK' /\ CandidateOK' /\ JournalOK'
    BY <2>1, JournalKept, NoneAssumption DEF IInv, TypeOK, StepsOK, LocksOK,
       ShutdownOK, FaultOK, BetweenOK, ReleaseOK, OwnersOK, IngestOK,
       SegmentOK, ReacquireOK, CandidateOK, JournalOK, Threads
  <2> QED BY <2>1, <2>2 DEF IInv
<1> QED BY <1>1, <1>2 DEF Detached, At

\* A replacement is opened with nobody owning a source; it is the worker's, or
\* closed again, or known to be stuck.
LEMMA RetryIdleStep ==
    ASSUME IInv, RetryIdle
    PROVE  IInv'
<1>1. CASE /\ UNCHANGED <<phys, held>>
           /\ Goto("worker", "unclaim") \/ Goto("worker", "timed_out")
  <2>1. /\ pc["worker"] = "open" /\ pc'["worker"] \in {"unclaim", "timed_out"}
        /\ OnlyMoves("worker")
        /\ UNCHANGED <<rec, admission, mutation, co, rt, ses, port, phys,
                       pending, ret, held, victim>>
        /\ ThreadsOK'
    BY <1>1 DEF IInv, TypeOK, ThreadsOK, RetryIdle, At, Goto, Threads
  <2>2. /\ TypeOK' /\ StepsOK' /\ LocksOK' /\ ShutdownOK' /\ FaultOK'
        /\ BetweenOK' /\ ReleaseOK' /\ OwnersOK' /\ IngestOK' /\ SegmentOK'
        /\ ReacquireOK' /\ CandidateOK' /\ JournalOK'
    BY <2>1, JournalKept, NoneAssumption DEF IInv, TypeOK, StepsOK, LocksOK,
       ShutdownOK, FaultOK, BetweenOK, ReleaseOK, OwnersOK, IngestOK,
       SegmentOK, ReacquireOK, CandidateOK, JournalOK, Threads
  <2> QED BY <2>1, <2>2 DEF IInv
<1>2. CASE MayOpen /\ OpenReplacement("worker") /\ Goto("worker", "opened")
  <2>1. /\ pc["worker"] = "open" /\ pc'["worker"] = "opened"
        /\ OnlyMoves("worker")
        /\ NextSource \in Sources
        /\ phys'[NextSource] = "open" /\ OthersKeep(NextSource)
        /\ phys[NextSource] = "unopened"
        /\ held'["worker"] = NextSource /\ OthersHold("worker")
        /\ UNCHANGED <<rec, admission, mutation, co, rt, ses, port, pending,
                       ret, victim>>
        /\ rec.source \in Sources \cup {None} /\ victim \in Sources \cup {None}
        /\ held \in [Threads -> Sources \cup {None}]
        /\ ThreadsOK'
    BY <1>2, NextSourceUnopened DEF IInv, TypeOK, ThreadsOK, RetryIdle, At,
       Goto, NoFault, MayOpen, OpenReplacement, Recorders, Threads
  <2>2. phys' \in [Sources -> Transports]
    BY <1>2, <2>1, NoneAssumption DEF IInv, TypeOK, RetryIdle, NoFault,
       Closes, CloseRaises, Fault, MayOpen, OpenReplacement, Recorders,
       Transports
  <2>3. held' \in [Threads -> Sources \cup {None}]
    BY <1>2, <2>1, NoneAssumption DEF IInv, TypeOK, RetryIdle, Recorders,
       Threads, MayOpen, OpenReplacement
  <2>4. /\ TypeOK' /\ StepsOK' /\ LocksOK' /\ ShutdownOK' /\ FaultOK'
        /\ BetweenOK' /\ OwnersOK' /\ ReacquireOK' /\ JournalOK'
    BY <2>1, <2>2, <2>3, JournalKept, NoneAssumption DEF IInv, TypeOK,
       StepsOK, LocksOK, ShutdownOK, FaultOK, BetweenOK, OwnersOK,
       ReacquireOK, JournalOK, Threads
  <2>5. ReleaseOK'
    BY <2>1, NoneAssumption DEF IInv, ReleaseOK, LocksOK, FaultOK, Threads
  <2>6. IngestOK'
    BY <2>1, NoneAssumption DEF IInv, IngestOK, StepsOK, Threads
  <2>7. SegmentOK'
    BY <2>1, NoneAssumption DEF IInv, SegmentOK, IngestOK, Threads
  <2>8. CandidateOK'
    BY <2>1, NoneAssumption DEF IInv, CandidateOK, IngestOK, Threads
  <2> QED BY <2>1, <2>4, <2>5, <2>6, <2>7, <2>8 DEF IInv
<1>3. CASE MayOpen /\ CleanupUnconfirmed /\ Goto("worker", "failed")
  <2>1. /\ pc["worker"] = "open" /\ pc'["worker"] = "failed"
        /\ OnlyMoves("worker")
        /\ NextSource \in Sources
        /\ phys'[NextSource] = "stuck" /\ OthersKeep(NextSource)
        /\ phys[NextSource] = "unopened"
        /\ UNCHANGED <<rec, admission, mutation, co, rt, ses, port, pending,
                       ret, held, victim>>
        /\ rec.source \in Sources \cup {None} /\ victim \in Sources \cup {None}
        /\ held \in [Threads -> Sources \cup {None}]
        /\ ThreadsOK'
    BY <1>3, NextSourceUnopened DEF IInv, TypeOK, ThreadsOK, RetryIdle, At,
       Goto, NoFault, MayOpen, CleanupUnconfirmed, Recorders, Threads
  <2>2. phys' \in [Sources -> Transports]
    BY <1>3, <2>1, NoneAssumption DEF IInv, TypeOK, RetryIdle, NoFault,
       Closes, CloseRaises, Fault, MayOpen, CleanupUnconfirmed, Recorders,
       Transports
  <2>3. /\ TypeOK' /\ StepsOK' /\ LocksOK' /\ ShutdownOK' /\ FaultOK'
        /\ BetweenOK' /\ OwnersOK' /\ ReacquireOK' /\ CandidateOK'
        /\ JournalOK'
    BY <2>1, <2>2, JournalKept, NoneAssumption DEF IInv, TypeOK, StepsOK,
       LocksOK, ShutdownOK, FaultOK, BetweenOK, OwnersOK, ReacquireOK,
       CandidateOK, JournalOK, Threads
  <2>4. ReleaseOK'
    BY <2>1, NoneAssumption DEF IInv, ReleaseOK, LocksOK, FaultOK, Threads
  <2>5. IngestOK'
    BY <2>1, NoneAssumption DEF IInv, IngestOK, StepsOK, Threads
  <2>6. SegmentOK'
    BY <2>1, NoneAssumption DEF IInv, SegmentOK, IngestOK, Threads
  <2> QED BY <2>1, <2>3, <2>4, <2>5, <2>6 DEF IInv
<1>4. CASE MayOpen /\ RefuseReplacement /\ UNCHANGED pc
  <2>1. /\ pc["worker"] = "open" /\ pc' = pc
        /\ NextSource \in Sources
        /\ phys'[NextSource] = "closed" /\ OthersKeep(NextSource)
        /\ phys[NextSource] = "unopened"
        /\ UNCHANGED <<rec, admission, mutation, co, rt, ses, port, pending,
                       ret, held, victim>>
        /\ rec.source \in Sources \cup {None} /\ victim \in Sources \cup {None}
        /\ held \in [Threads -> Sources \cup {None}]
        /\ ThreadsOK'
    BY <1>4, NextSourceUnopened DEF IInv, TypeOK, ThreadsOK, RetryIdle, At,
       Goto, NoFault, MayOpen, RefuseReplacement, IdentityChanged, Recorders,
       Threads
  <2>2. phys' \in [Sources -> Transports]
    BY <1>4, <2>1, NoneAssumption DEF IInv, TypeOK, RetryIdle, NoFault,
       Closes, CloseRaises, Fault, MayOpen, RefuseReplacement,
       IdentityChanged, Recorders, Transports
  <2>3. /\ TypeOK' /\ StepsOK' /\ LocksOK' /\ ShutdownOK' /\ FaultOK'
        /\ BetweenOK' /\ OwnersOK' /\ ReacquireOK' /\ CandidateOK'
        /\ JournalOK'
    BY <2>1, <2>2, JournalKept, NoneAssumption DEF IInv, TypeOK, StepsOK,
       LocksOK, ShutdownOK, FaultOK, BetweenOK, OwnersOK, ReacquireOK,
       CandidateOK, JournalOK, Threads
  <2>4. ReleaseOK'
    BY <2>1, NoneAssumption DEF IInv, ReleaseOK, LocksOK, FaultOK, Threads
  <2>5. IngestOK'
    BY <2>1, NoneAssumption DEF IInv, IngestOK, StepsOK, Threads
  <2>6. SegmentOK'
    BY <2>1, NoneAssumption DEF IInv, SegmentOK, IngestOK, Threads
  <2> QED BY <2>1, <2>3, <2>4, <2>5, <2>6 DEF IInv
<1> QED BY <1>1, <1>2, <1>3, <1>4 DEF RetryIdle, At

\* The ports lead to the candidate before it is published.
LEMMA WorkerPublishesStep ==
    ASSUME IInv, WorkerPublishes
    PROVE  IInv'
<1>1. CASE Goto("worker", "reject") /\ UNCHANGED port
  <2>1. /\ pc["worker"] = "opened" /\ pc'["worker"] = "reject"
        /\ OnlyMoves("worker")
        /\ UNCHANGED <<rec, admission, mutation, co, rt, ses, port, phys,
                       pending, ret, held, victim>>
        /\ ThreadsOK'
    BY <1>1 DEF IInv, TypeOK, ThreadsOK, WorkerPublishes, At, Goto, Threads
  <2>2. /\ TypeOK' /\ StepsOK' /\ LocksOK' /\ ShutdownOK' /\ FaultOK'
        /\ BetweenOK' /\ ReleaseOK' /\ OwnersOK' /\ IngestOK' /\ SegmentOK'
        /\ ReacquireOK' /\ CandidateOK' /\ JournalOK'
    BY <2>1, JournalKept, NoneAssumption DEF IInv, TypeOK, StepsOK, LocksOK,
       ShutdownOK, FaultOK, BetweenOK, ReleaseOK, OwnersOK, IngestOK,
       SegmentOK, ReacquireOK, CandidateOK, JournalOK, Threads
  <2> QED BY <2>1, <2>2 DEF IInv
<1>2. CASE /\ PortsLeadTo(held["worker"])
           /\ Goto("worker", "replace") \/ Goto("worker", "reject")
  <2>1. /\ pc["worker"] = "opened" /\ pc'["worker"] \in {"replace", "reject"}
        /\ OnlyMoves("worker")
        /\ port' = held["worker"] /\ held["worker"] \in Sources
        /\ UNCHANGED <<rec, admission, mutation, co, rt, ses, phys, pending,
                       ret, held, victim>>
        /\ ThreadsOK'
    BY <1>2 DEF IInv, TypeOK, ThreadsOK, WorkerPublishes, At, Goto,
       PortsLeadTo, BetweenOK, Threads
  <2>2. /\ TypeOK' /\ StepsOK' /\ LocksOK' /\ ShutdownOK' /\ FaultOK'
        /\ ReleaseOK' /\ OwnersOK' /\ IngestOK' /\ SegmentOK'
        /\ ReacquireOK' /\ CandidateOK' /\ JournalOK'
    BY <2>1, JournalKept, NoneAssumption DEF IInv, TypeOK, StepsOK, LocksOK,
       ShutdownOK, FaultOK, ReleaseOK, OwnersOK, IngestOK, SegmentOK,
       ReacquireOK, CandidateOK, JournalOK, BetweenOK, Threads
  <2>3. BetweenOK'
    BY <2>1, NoneAssumption DEF IInv, BetweenOK, LocksOK, FaultOK, Threads
  <2> QED BY <2>1, <2>2, <2>3 DEF IInv
<1> QED BY <1>1, <1>2 DEF WorkerPublishes, At

\* A reconnect that times out journals its failure as the end of the session.
LEMMA ReconnectTimesOutStep ==
    ASSUME IInv, ReconnectTimesOut
    PROVE  IInv'
<1>1. CASE Continue("worker", "unclaim") /\ UNCHANGED ses
  <2>1. /\ pc["worker"] = "timed_out" /\ pc'["worker"] = "unclaim"
        /\ OnlyMoves("worker")
        /\ UNCHANGED <<rec, admission, mutation, co, rt, ses, port, phys,
                       pending, ret, held, victim>>
        /\ ThreadsOK'
    BY <1>1 DEF IInv, TypeOK, ThreadsOK, ReconnectTimesOut, At, Goto,
       Continue, Threads
  <2>2. /\ TypeOK' /\ StepsOK' /\ LocksOK' /\ ShutdownOK' /\ FaultOK'
        /\ BetweenOK' /\ ReleaseOK' /\ OwnersOK' /\ IngestOK' /\ SegmentOK'
        /\ ReacquireOK' /\ CandidateOK' /\ JournalOK'
    BY <2>1, JournalKept, NoneAssumption DEF IInv, TypeOK, StepsOK, LocksOK,
       ShutdownOK, FaultOK, BetweenOK, ReleaseOK, OwnersOK, IngestOK,
       SegmentOK, ReacquireOK, CandidateOK, JournalOK, Threads
  <2> QED BY <2>1, <2>2 DEF IInv
<1>2. CASE /\ ses.life = "active"
           /\ ses' = [ses EXCEPT !.life = "failed",
                                 !.journal = Append(@, "reconnect_failed")]
           /\ Continue("worker", "publish_timeout")
  <2>1. /\ pc["worker"] = "timed_out" /\ pc'["worker"] = "publish_timeout"
        /\ OnlyMoves("worker")
        /\ UNCHANGED <<rec, admission, mutation, co, rt, port, phys, pending,
                       ret, held, victim>>
        /\ ThreadsOK'
    BY <1>2 DEF IInv, TypeOK, ThreadsOK, ReconnectTimesOut, At, Goto,
       Continue, Threads
  <2>2. /\ ses' \in Sessions
        /\ ses'.life # "active" /\ ses.life = "active"
        /\ Journalled /\ Last = "reconnect_started" => Journalled'
    BY <1>2, FailedReconnectEffect DEF IInv, ReconnectTimesOut
  <2>3. /\ TypeOK' /\ StepsOK' /\ LocksOK' /\ ShutdownOK' /\ FaultOK'
        /\ BetweenOK' /\ ReleaseOK' /\ OwnersOK' /\ IngestOK' /\ SegmentOK'
        /\ ReacquireOK' /\ CandidateOK'
    BY <2>1, <2>2, NoneAssumption DEF IInv, TypeOK, StepsOK, LocksOK,
       ShutdownOK, FaultOK, BetweenOK, ReleaseOK, OwnersOK, IngestOK,
       SegmentOK, ReacquireOK, CandidateOK, Threads
  <2>4. JournalOK'
    BY <2>1, <2>2, NoneAssumption DEF IInv, JournalOK, StepsOK
  <2> QED BY <2>1, <2>3, <2>4 DEF IInv
<1>3. CASE StoreRaises /\ Raise("worker", "unclaim")
  <2>1. /\ pc["worker"] = "timed_out" /\ pc'["worker"] = "fatal"
        /\ OnlyMoves("worker")
        /\ ret'["worker"] = "unclaim"
        /\ UNCHANGED <<rec, admission, mutation, co, rt, port, phys, pending,
                       held, victim>>
        /\ ThreadsOK'
    BY <1>3 DEF IInv, TypeOK, ThreadsOK, ReconnectTimesOut, At, Goto, Raise,
       Threads
  <2>2. /\ ses' \in Sessions /\ ses'.segment = ses.segment
        /\ ses'.life = "active" => ses.life = "active"
        /\ SameJournal
    BY <1>3, StoreRaisesEffect DEF IInv, ReconnectTimesOut
  <2>3. /\ TypeOK' /\ StepsOK' /\ LocksOK' /\ ShutdownOK' /\ FaultOK'
        /\ BetweenOK' /\ ReleaseOK' /\ OwnersOK' /\ IngestOK' /\ SegmentOK'
        /\ ReacquireOK' /\ CandidateOK' /\ JournalOK'
    BY <2>1, <2>2, NoneAssumption DEF IInv, TypeOK, StepsOK, LocksOK,
       ShutdownOK, FaultOK, BetweenOK, ReleaseOK, OwnersOK, IngestOK,
       SegmentOK, ReacquireOK, CandidateOK, JournalOK, Threads
  <2> QED BY <2>1, <2>3 DEF IInv
<1> QED BY <1>1, <1>2, <1>3 DEF ReconnectTimesOut, At

\* The timeout is published when the session has ended.
LEMMA PublishTimeoutStep ==
    ASSUME IInv, PublishTimeout
    PROVE  IInv'
<1>1. /\ pc["worker"] = "publish_timeout" /\ pc'["worker"] = "unclaim"
      /\ OnlyMoves("worker")
      /\ UNCHANGED <<admission, mutation, co, rt, ses, port, phys, pending,
                     ret, held, victim>>
      /\ ThreadsOK'
  BY DEF IInv, TypeOK, ThreadsOK, PublishTimeout, At, Goto, Threads
<1>2. /\ rec'.state = "disconnected" /\ rec'.replaceable = FALSE
      /\ rec'.source = rec.source /\ rec'.fault = rec.fault
      /\ rec'.releasing = rec.releasing
         /\ rec'.release_closed = rec.release_closed
      /\ rec'.drained = rec.drained /\ rec'.closing = rec.closing
      /\ rec'.closed = rec.closed /\ rec'.source_closed = rec.source_closed
  BY DEF IInv, TypeOK, Recorders, PublishTimeout
<1>3. rec' \in Recorders
  BY Zenon DEF IInv, TypeOK, PublishTimeout, Recorders, RecorderStates,
     Threads
<1>4. /\ TypeOK' /\ StepsOK' /\ LocksOK' /\ ShutdownOK' /\ FaultOK'
      /\ BetweenOK' /\ ReleaseOK' /\ OwnersOK' /\ IngestOK' /\ SegmentOK'
      /\ ReacquireOK' /\ CandidateOK' /\ JournalOK'
  BY <1>1, <1>2, <1>3, JournalKept, NoneAssumption DEF IInv, TypeOK, StepsOK,
     LocksOK, ShutdownOK, FaultOK, BetweenOK, ReleaseOK, OwnersOK, IngestOK,
     SegmentOK, ReacquireOK, CandidateOK, JournalOK, Threads
<1> QED BY <1>1, <1>4 DEF IInv

\* A source in doubt stops the supervisor and faults ownership.
LEMMA WorkerFailedStep ==
    ASSUME IInv, WorkerFailed
    PROVE  IInv'
<1>1. /\ pc["worker"] = "failed" /\ pc'["worker"] = "fatal"
      /\ OnlyMoves("worker")
      /\ ret'["worker"] = "unclaim"
      /\ co'.stop = TRUE
      /\ co'.suspended = co.suspended /\ co'.attempt = co.attempt
      /\ co'.closing = co.closing /\ co'.closed = co.closed
      /\ UNCHANGED <<rec, admission, mutation, rt, ses, port, phys, pending,
                     held, victim>>
      /\ ThreadsOK'
  BY DEF IInv, TypeOK, ThreadsOK, WorkerFailed, At, Goto, Raise, Coordinators,
     Threads
<1>2. co' \in Coordinators
  BY Zenon DEF IInv, TypeOK, WorkerFailed, Raise, Coordinators
<1>3. /\ TypeOK' /\ StepsOK' /\ LocksOK' /\ ShutdownOK' /\ FaultOK'
      /\ BetweenOK' /\ ReleaseOK' /\ OwnersOK' /\ IngestOK' /\ SegmentOK'
      /\ ReacquireOK' /\ CandidateOK' /\ JournalOK'
  BY <1>1, <1>2, JournalKept, NoneAssumption DEF IInv, TypeOK, StepsOK,
     LocksOK, ShutdownOK, FaultOK, BetweenOK, ReleaseOK, OwnersOK, IngestOK,
     SegmentOK, ReacquireOK, CandidateOK, JournalOK, Threads
<1> QED BY <1>1, <1>3 DEF IInv

\* The worker gives up its claim with no source in its hands.
LEMMA UnclaimStep ==
    ASSUME IInv, Unclaim
    PROVE  IInv'
<1>1. /\ pc["worker"] = "unclaim" /\ pc'["worker"] = "wait"
      /\ OnlyMoves("worker")
      /\ held'["worker"] = None /\ OthersHold("worker")
      /\ co'.attempt = None
      /\ co'.stop = co.stop /\ co'.suspended = co.suspended
      /\ co'.closing = co.closing /\ co'.closed = co.closed
      /\ UNCHANGED <<rec, admission, mutation, rt, ses, port, phys, pending,
                     ret, victim>>
      /\ ThreadsOK'
  BY DEF IInv, TypeOK, ThreadsOK, Unclaim, At, Goto, Coordinators, Threads
<1>2. co' \in Coordinators
  BY Zenon DEF IInv, TypeOK, Unclaim, Coordinators
<1>3. held' \in [Threads -> Sources \cup {None}]
  BY <1>1, NoneAssumption DEF IInv, TypeOK, Unclaim, Recorders, Threads
<1>4. /\ TypeOK' /\ StepsOK' /\ LocksOK' /\ ShutdownOK' /\ FaultOK'
      /\ BetweenOK' /\ ReleaseOK' /\ OwnersOK' /\ IngestOK' /\ SegmentOK'
      /\ ReacquireOK' /\ CandidateOK' /\ JournalOK'
  BY <1>1, <1>2, <1>3, JournalKept, NoneAssumption DEF IInv, TypeOK, StepsOK,
     LocksOK, ShutdownOK, FaultOK, BetweenOK, ReleaseOK, OwnersOK, IngestOK,
     SegmentOK, ReacquireOK, CandidateOK, JournalOK, Threads
<1> QED BY <1>1, <1>4 DEF IInv

\* A candidate that may not be published any more is rejected.
LEMMA ReplaceSourceStep ==
    ASSUME NEW t \in {"worker", "caller"}, IInv, ReplaceSource(t)
    PROVE  IInv'
<1>1. CASE Continue(t, "segment") \/ Continue(t, "reject")
  <2>1. /\ pc[t] = "replace" /\ pc'[t] \in {"segment", "reject"}
        /\ OnlyMoves(t)
        /\ UNCHANGED <<rec, admission, mutation, co, rt, ses, port, phys,
                       pending, ret, held, victim>>
        /\ ThreadsOK'
    BY <1>1 DEF IInv, TypeOK, ThreadsOK, ReplaceSource, Manual, At, Goto,
       Continue, Threads
  <2>2. /\ TypeOK' /\ StepsOK' /\ LocksOK' /\ ShutdownOK' /\ FaultOK'
        /\ BetweenOK' /\ ReleaseOK' /\ OwnersOK' /\ IngestOK' /\ SegmentOK'
        /\ ReacquireOK' /\ CandidateOK' /\ JournalOK'
    BY <2>1, JournalKept, NoneAssumption DEF IInv, TypeOK, StepsOK, LocksOK,
       ShutdownOK, FaultOK, BetweenOK, ReleaseOK, OwnersOK, IngestOK,
       SegmentOK, ReacquireOK, CandidateOK, JournalOK, Threads
  <2> QED BY <2>1, <2>2 DEF IInv
<1>2. CASE Raise(t, "reject")
  <2>1. /\ pc[t] = "replace" /\ pc'[t] = "fatal"
        /\ OnlyMoves(t)
        /\ ret'[t] = "reject"
        /\ UNCHANGED <<rec, admission, mutation, co, rt, ses, port, phys,
                       pending, held, victim>>
        /\ ThreadsOK'
    BY <1>2 DEF IInv, TypeOK, ThreadsOK, ReplaceSource, Manual, At, Goto,
       Raise, Threads
  <2>2. /\ TypeOK' /\ StepsOK' /\ LocksOK' /\ ShutdownOK' /\ FaultOK'
        /\ BetweenOK' /\ ReleaseOK' /\ OwnersOK' /\ IngestOK' /\ SegmentOK'
        /\ ReacquireOK' /\ CandidateOK' /\ JournalOK'
    BY <2>1, JournalKept, NoneAssumption DEF IInv, TypeOK, StepsOK, LocksOK,
       ShutdownOK, FaultOK, BetweenOK, ReleaseOK, OwnersOK, IngestOK,
       SegmentOK, ReacquireOK, CandidateOK, JournalOK, Threads
  <2> QED BY <2>1, <2>2 DEF IInv
<1> QED BY <1>1, <1>2 DEF ReplaceSource, Manual, At

\* The candidate's segment is open before it is connected; a manual reacquire
\* after the session's end starts a session of its own.
LEMMA AppendSegmentStep ==
    ASSUME NEW t \in {"worker", "caller"}, IInv, AppendSegment(t)
    PROVE  IInv'
<1>1. CASE /\ Manual(t)
           /\ ses' = [ses EXCEPT !.life = "active", !.segment = "open",
                                 !.journal = <<"reacquire_started">>]
           /\ Continue(t, IF Enhanced THEN "init" ELSE "publish")
  <2>1. /\ pc[t] = "segment" /\ OnlyMoves(t)
        /\ pc'[t] = IF Enhanced THEN "init" ELSE "publish"
        /\ t = "caller"
        /\ UNCHANGED <<rec, admission, mutation, co, rt, port, phys, pending,
                       ret, held, victim>>
        /\ ThreadsOK'
    BY <1>1 DEF IInv, TypeOK, ThreadsOK, AppendSegment, Manual, At, Goto,
       Continue, Threads
  <2>2. /\ ses' \in Sessions /\ ses'.segment = "open"
        /\ Last' = "reacquire_started" /\ Journalled'
    BY <1>1, NewSessionEffect DEF IInv, AppendSegment, Manual
  <2>3. /\ TypeOK' /\ StepsOK' /\ LocksOK' /\ ShutdownOK' /\ FaultOK'
        /\ BetweenOK' /\ ReleaseOK' /\ OwnersOK' /\ IngestOK' /\ SegmentOK'
        /\ ReacquireOK' /\ CandidateOK'
    BY <2>1, <2>2, NoneAssumption DEF IInv, TypeOK, StepsOK, LocksOK,
       ShutdownOK, FaultOK, BetweenOK, ReleaseOK, OwnersOK, IngestOK,
       SegmentOK, ReacquireOK, CandidateOK, Threads
  <2>4. JournalOK'
    BY <2>1, <2>2, NoneAssumption DEF IInv, JournalOK, LocksOK, BetweenOK,
       CandidateOK, Threads
  <2> QED BY <2>1, <2>3, <2>4 DEF IInv
<1>2. CASE /\ StoreAppends(<<>>, "open")
           /\ Continue(t, IF Enhanced THEN "init" ELSE "publish")
  <2>1. /\ pc[t] = "segment" /\ OnlyMoves(t)
        /\ pc'[t] = IF Enhanced THEN "init" ELSE "publish"
        /\ UNCHANGED <<rec, admission, mutation, co, rt, port, phys, pending,
                       ret, held, victim>>
        /\ ThreadsOK'
    BY <1>2 DEF IInv, TypeOK, ThreadsOK, AppendSegment, Manual, At, Goto,
       Continue, Threads
  <2>2. /\ ses' \in Sessions /\ ses'.segment = "open" /\ ses'.life = ses.life
        /\ SameJournal
    BY <1>2, StoreOpens, Zenon DEF IInv, AppendSegment, Manual
  <2>3. /\ TypeOK' /\ StepsOK' /\ LocksOK' /\ ShutdownOK' /\ FaultOK'
        /\ BetweenOK' /\ ReleaseOK' /\ OwnersOK' /\ IngestOK' /\ SegmentOK'
        /\ ReacquireOK' /\ CandidateOK' /\ JournalOK'
    BY <2>1, <2>2, NoneAssumption DEF IInv, TypeOK, StepsOK, LocksOK,
       ShutdownOK, FaultOK, BetweenOK, ReleaseOK, OwnersOK, IngestOK,
       SegmentOK, ReacquireOK, CandidateOK, JournalOK, Threads
  <2> QED BY <2>1, <2>3 DEF IInv
<1>3. CASE (UNCHANGED ses \/ StoreRaises) /\ Raise(t, "reject_stop")
  <2>1. /\ pc[t] = "segment" /\ pc'[t] = "fatal"
        /\ OnlyMoves(t)
        /\ ret'[t] = "reject_stop"
        /\ UNCHANGED <<rec, admission, mutation, co, rt, port, phys, pending,
                       held, victim>>
        /\ ThreadsOK'
    BY <1>3 DEF IInv, TypeOK, ThreadsOK, AppendSegment, Manual, At, Goto,
       Raise, Threads
  <2>2. /\ ses' \in Sessions /\ ses'.segment = ses.segment
        /\ ses'.life = "active" => ses.life = "active"
        /\ SameJournal
    BY <1>3, StoreRaisesEffect, StoreIdle DEF IInv, AppendSegment, Manual
  <2>3. /\ TypeOK' /\ StepsOK' /\ LocksOK' /\ ShutdownOK' /\ FaultOK'
        /\ BetweenOK' /\ ReleaseOK' /\ OwnersOK' /\ IngestOK' /\ SegmentOK'
        /\ ReacquireOK' /\ CandidateOK' /\ JournalOK'
    BY <2>1, <2>2, NoneAssumption DEF IInv, TypeOK, StepsOK, LocksOK,
       ShutdownOK, FaultOK, BetweenOK, ReleaseOK, OwnersOK, IngestOK,
       SegmentOK, ReacquireOK, CandidateOK, JournalOK, Threads
  <2> QED BY <2>1, <2>3 DEF IInv
<1> QED BY <1>1, <1>2, <1>3 DEF AppendSegment, Manual, At

\* Profile controls are set under the mutation lock.
LEMMA InitializeControlsStep ==
    ASSUME NEW t \in {"worker", "caller"}, IInv, InitializeControls(t)
    PROVE  IInv'
<1>1. CASE Goto(t, "replace_failed") /\ UNCHANGED mutation
  <2>1. /\ pc[t] = "init" /\ pc'[t] = "replace_failed"
        /\ OnlyMoves(t)
        /\ UNCHANGED <<rec, admission, mutation, co, rt, ses, port, phys,
                       pending, ret, held, victim>>
        /\ ThreadsOK'
    BY <1>1 DEF IInv, TypeOK, ThreadsOK, InitializeControls, Manual, At, Goto,
       Threads
  <2>2. /\ TypeOK' /\ StepsOK' /\ LocksOK' /\ ShutdownOK' /\ FaultOK'
        /\ BetweenOK' /\ ReleaseOK' /\ OwnersOK' /\ IngestOK' /\ SegmentOK'
        /\ ReacquireOK' /\ CandidateOK' /\ JournalOK'
    BY <2>1, JournalKept, NoneAssumption DEF IInv, TypeOK, StepsOK, LocksOK,
       ShutdownOK, FaultOK, BetweenOK, ReleaseOK, OwnersOK, IngestOK,
       SegmentOK, ReacquireOK, CandidateOK, JournalOK, Threads
  <2> QED BY <2>1, <2>2 DEF IInv
<1>2. CASE /\ mutation = IF Manual(t) THEN t ELSE None
           /\ mutation' = t /\ Goto(t, "apply")
  <2>1. /\ pc[t] = "init" /\ pc'[t] = "apply"
        /\ OnlyMoves(t)
        /\ mutation = (IF t = "caller" THEN t ELSE None) /\ mutation' = t
        /\ UNCHANGED <<rec, admission, co, rt, ses, port, phys, pending, ret,
                       held, victim>>
        /\ ThreadsOK'
    BY <1>2 DEF IInv, TypeOK, ThreadsOK, InitializeControls, Manual, At, Goto,
       Threads
  <2>2. /\ TypeOK' /\ StepsOK' /\ LocksOK' /\ ShutdownOK' /\ FaultOK'
        /\ BetweenOK' /\ ReleaseOK' /\ OwnersOK' /\ IngestOK' /\ SegmentOK'
        /\ ReacquireOK' /\ CandidateOK' /\ JournalOK'
    BY <2>1, JournalKept, NoneAssumption DEF IInv, TypeOK, StepsOK, LocksOK,
       ShutdownOK, FaultOK, BetweenOK, ReleaseOK, OwnersOK, IngestOK,
       SegmentOK, ReacquireOK, CandidateOK, JournalOK, Threads
  <2> QED BY <2>1, <2>2 DEF IInv
<1> QED BY <1>1, <1>2 DEF InitializeControls, Manual, At

\* The worker gives the mutation lock back whatever the controls answer.
LEMMA ApplyControlsStep ==
    ASSUME NEW t \in {"worker", "caller"}, IInv, ApplyControls(t)
    PROVE  IInv'
<1>1. CASE /\ Continue(t, "publish") \/ Continue(t, "replace_failed")
           /\ UNCHANGED ses
  <2>1. /\ pc[t] = "apply" /\ pc'[t] \in {"publish", "replace_failed"}
        /\ OnlyMoves(t)
        /\ mutation' = (IF t = "caller" THEN t ELSE None)
        /\ UNCHANGED <<rec, admission, co, rt, ses, port, phys, pending, ret,
                       held, victim>>
        /\ ThreadsOK'
    BY <1>1 DEF IInv, TypeOK, ThreadsOK, ApplyControls, Manual, At, Goto,
       Continue, Threads
  <2>2. /\ TypeOK' /\ StepsOK' /\ LocksOK' /\ ShutdownOK' /\ FaultOK'
        /\ BetweenOK' /\ ReleaseOK' /\ OwnersOK' /\ IngestOK' /\ SegmentOK'
        /\ ReacquireOK' /\ CandidateOK' /\ JournalOK'
    BY <2>1, JournalKept, NoneAssumption DEF IInv, TypeOK, StepsOK, LocksOK,
       ShutdownOK, FaultOK, BetweenOK, ReleaseOK, OwnersOK, IngestOK,
       SegmentOK, ReacquireOK, CandidateOK, JournalOK, Threads
  <2> QED BY <2>1, <2>2 DEF IInv
<1>2. CASE \/ Raise(t, "reject") /\ UNCHANGED ses
           \/ StoreRaises /\ Raise(t, "reject_stop")
  <2>1. /\ pc[t] = "apply" /\ pc'[t] = "fatal"
        /\ OnlyMoves(t)
        /\ mutation' = (IF t = "caller" THEN t ELSE None)
        /\ ret'[t] \in {"reject", "reject_stop"}
        /\ UNCHANGED <<rec, admission, co, rt, port, phys, pending, held,
                       victim>>
        /\ ThreadsOK'
    BY <1>2 DEF IInv, TypeOK, ThreadsOK, ApplyControls, Manual, At, Goto,
       Raise, Threads
  <2>2. /\ ses' \in Sessions /\ ses'.segment = ses.segment
        /\ ses'.life = "active" => ses.life = "active"
        /\ SameJournal
    BY <1>2, StoreRaisesEffect, StoreIdle DEF IInv, ApplyControls, Manual
  <2>3. /\ TypeOK' /\ StepsOK' /\ LocksOK' /\ ShutdownOK' /\ FaultOK'
        /\ BetweenOK' /\ ReleaseOK' /\ OwnersOK' /\ IngestOK' /\ SegmentOK'
        /\ ReacquireOK' /\ CandidateOK' /\ JournalOK'
    BY <2>1, <2>2, NoneAssumption DEF IInv, TypeOK, StepsOK, LocksOK,
       ShutdownOK, FaultOK, BetweenOK, ReleaseOK, OwnersOK, IngestOK,
       SegmentOK, ReacquireOK, CandidateOK, JournalOK, Threads
  <2> QED BY <2>1, <2>3 DEF IInv
<1> QED BY <1>1, <1>2 DEF ApplyControls, Manual, At

\* The success is journalled under the admission lock, of an ownership that is
\* neither closing nor faulted.
LEMMA ConfirmReplacementStep ==
    ASSUME NEW t \in {"worker", "caller"}, IInv, ConfirmReplacement(t)
    PROVE  IInv'
<1>1. CASE /\ t = "worker" /\ ~rec.closing /\ ~rec.fault
           /\ StoreAppends(<<"reconnect_succeeded">>, ses.segment)
           /\ admission' = t /\ Continue(t, "connect")
  <2>1. /\ pc[t] = "publish" /\ pc'[t] = "connect"
        /\ OnlyMoves(t)
        /\ t = "worker"
        /\ ~rec.closing /\ ~rec.fault
        /\ admission = None /\ admission' = t
        /\ UNCHANGED <<rec, mutation, co, rt, port, phys, pending, ret, held,
                       victim>>
        /\ ThreadsOK'
    BY <1>1 DEF IInv, TypeOK, ThreadsOK, ConfirmReplacement, Manual, At, Goto,
       Continue, Threads
  <2>2. /\ ses' \in Sessions /\ ses'.segment = ses.segment
           /\ ses'.life = ses.life
        /\ ses'.life = "active" /\ ses.life = "active"
        /\ Last' = "reconnect_succeeded"
        /\ Journalled /\ Last = "reconnect_started" => Journalled'
    BY <1>1, StoreAppendsOne, FollowsTable DEF IInv, ConfirmReplacement,
       Manual, TypeOK, Sessions, Events
  <2>3. /\ TypeOK' /\ StepsOK' /\ LocksOK' /\ ShutdownOK' /\ FaultOK'
        /\ BetweenOK' /\ ReleaseOK' /\ OwnersOK' /\ IngestOK' /\ SegmentOK'
        /\ ReacquireOK' /\ CandidateOK'
    BY <2>1, <2>2, NoneAssumption DEF IInv, TypeOK, StepsOK, LocksOK,
       ShutdownOK, FaultOK, BetweenOK, ReleaseOK, OwnersOK, IngestOK,
       SegmentOK, ReacquireOK, CandidateOK, Threads
  <2>4. JournalOK'
    BY <2>1, <2>2, NoneAssumption DEF IInv, JournalOK, LocksOK, BetweenOK,
       CandidateOK, Threads
  <2> QED BY <2>1, <2>3, <2>4 DEF IInv
<1>2. CASE Continue(t, "replace_failed") /\ UNCHANGED <<ses, admission>>
  <2>1. /\ pc[t] = "publish" /\ pc'[t] = "replace_failed"
        /\ OnlyMoves(t)
        /\ UNCHANGED <<rec, admission, mutation, co, rt, ses, port, phys,
                       pending, ret, held, victim>>
        /\ ThreadsOK'
    BY <1>2 DEF IInv, TypeOK, ThreadsOK, ConfirmReplacement, Manual, At, Goto,
       Continue, Threads
  <2>2. /\ TypeOK' /\ StepsOK' /\ LocksOK' /\ ShutdownOK' /\ FaultOK'
        /\ BetweenOK' /\ ReleaseOK' /\ OwnersOK' /\ IngestOK' /\ SegmentOK'
        /\ ReacquireOK' /\ CandidateOK' /\ JournalOK'
    BY <2>1, JournalKept, NoneAssumption DEF IInv, TypeOK, StepsOK, LocksOK,
       ShutdownOK, FaultOK, BetweenOK, ReleaseOK, OwnersOK, IngestOK,
       SegmentOK, ReacquireOK, CandidateOK, JournalOK, Threads
  <2> QED BY <2>1, <2>2 DEF IInv
<1>3. CASE StoreRaises /\ Raise(t, "reject_stop") /\ UNCHANGED admission
  <2>1. /\ pc[t] = "publish" /\ pc'[t] = "fatal"
        /\ OnlyMoves(t)
        /\ ret'[t] = "reject_stop"
        /\ UNCHANGED <<rec, admission, mutation, co, rt, port, phys, pending,
                       held, victim>>
        /\ ThreadsOK'
    BY <1>3 DEF IInv, TypeOK, ThreadsOK, ConfirmReplacement, Manual, At, Goto,
       Raise, Threads
  <2>2. /\ ses' \in Sessions /\ ses'.segment = ses.segment
        /\ ses'.life = "active" => ses.life = "active"
        /\ SameJournal
    BY <1>3, StoreRaisesEffect DEF IInv, ConfirmReplacement, Manual
  <2>3. /\ TypeOK' /\ StepsOK' /\ LocksOK' /\ ShutdownOK' /\ FaultOK'
        /\ BetweenOK' /\ ReleaseOK' /\ OwnersOK' /\ IngestOK' /\ SegmentOK'
        /\ ReacquireOK' /\ CandidateOK' /\ JournalOK'
    BY <2>1, <2>2, NoneAssumption DEF IInv, TypeOK, StepsOK, LocksOK,
       ShutdownOK, FaultOK, BetweenOK, ReleaseOK, OwnersOK, IngestOK,
       SegmentOK, ReacquireOK, CandidateOK, JournalOK, Threads
  <2> QED BY <2>1, <2>3 DEF IInv
<1>4. CASE /\ t = "caller" /\ ~rec.closing /\ ~rec.fault
           /\ StoreAppends(<<"reacquire_succeeded">>, ses.segment)
           /\ admission' = t /\ Continue(t, "connect")
  <2>1. /\ pc[t] = "publish" /\ pc'[t] = "connect"
        /\ OnlyMoves(t)
        /\ t = "caller"
        /\ ~rec.closing /\ ~rec.fault
        /\ admission = None /\ admission' = t
        /\ UNCHANGED <<rec, mutation, co, rt, port, phys, pending, ret, held,
                       victim>>
        /\ ThreadsOK'
    BY <1>4 DEF IInv, TypeOK, ThreadsOK, ConfirmReplacement, Manual, At, Goto,
       Continue, Threads
  <2>2. /\ ses' \in Sessions /\ ses'.segment = ses.segment
           /\ ses'.life = ses.life
        /\ ses'.life = "active" /\ ses.life = "active"
        /\ Last' = "reacquire_succeeded"
        /\ Journalled /\ Last = "reacquire_started" => Journalled'
    BY <1>4, StoreAppendsOne, FollowsTable DEF IInv, ConfirmReplacement,
       Manual, TypeOK, Sessions, Events
  <2>3. /\ TypeOK' /\ StepsOK' /\ LocksOK' /\ ShutdownOK' /\ FaultOK'
        /\ BetweenOK' /\ ReleaseOK' /\ OwnersOK' /\ IngestOK' /\ SegmentOK'
        /\ ReacquireOK' /\ CandidateOK'
    BY <2>1, <2>2, NoneAssumption DEF IInv, TypeOK, StepsOK, LocksOK,
       ShutdownOK, FaultOK, BetweenOK, ReleaseOK, OwnersOK, IngestOK,
       SegmentOK, ReacquireOK, CandidateOK, Threads
  <2>4. JournalOK'
    BY <2>1, <2>2, NoneAssumption DEF IInv, JournalOK, LocksOK, BetweenOK,
       CandidateOK, Threads
  <2> QED BY <2>1, <2>3, <2>4 DEF IInv
<1> QED BY <1>1, <1>2, <1>3, <1>4 DEF ConfirmReplacement, Manual, At

\* The recorder gets the source its ports lead to.
LEMMA ConnectSourceStep ==
    ASSUME NEW t \in {"worker", "caller"}, IInv, ConnectSource(t)
    PROVE  IInv'
<1>1. CASE rec.closing
  <2>1. /\ pc[t] = "connect" /\ pc'[t] = "reject"
        /\ OnlyMoves(t)
        /\ rec.closing
        /\ admission' = None
        /\ UNCHANGED <<rec, mutation, co, rt, ses, port, phys, pending, ret,
                       held, victim>>
        /\ ThreadsOK'
    BY <1>1 DEF IInv, TypeOK, ThreadsOK, ConnectSource, At, Goto, Threads
  <2>2. /\ TypeOK' /\ StepsOK' /\ LocksOK' /\ ShutdownOK' /\ FaultOK'
        /\ BetweenOK' /\ ReleaseOK' /\ OwnersOK' /\ IngestOK' /\ SegmentOK'
        /\ ReacquireOK' /\ CandidateOK'
    BY <2>1, NoneAssumption DEF IInv, TypeOK, StepsOK, LocksOK, ShutdownOK,
       FaultOK, BetweenOK, ReleaseOK, OwnersOK, IngestOK, SegmentOK,
       ReacquireOK, CandidateOK, Threads
  <2>3. JournalOK'
    BY <2>1, JournalKept, NoneAssumption DEF IInv, JournalOK, ShutdownOK
  <2> QED BY <2>1, <2>2, <2>3 DEF IInv
<1>2. CASE ~rec.closing
  <2>1. /\ pc[t] = "connect" /\ OnlyMoves(t)
        /\ pc'[t] = IF t = "caller" THEN "resume" ELSE "unclaim"
        /\ admission' = None
        /\ ~rec.closing
        /\ UNCHANGED <<mutation, co, rt, ses, port, phys, pending, ret, held,
                       victim>>
        /\ ThreadsOK'
    BY <1>2 DEF IInv, TypeOK, ThreadsOK, ConnectSource, At, Goto, Manual,
       Threads
  <2>2. rec' = [rec EXCEPT !.source = held[t], !.state = "connected",
                              !.replaceable = FALSE]
    BY <1>2 DEF ConnectSource, Manual
  <2>3. /\ rec'.source = held[t] /\ rec'.state = "connected"
           /\ rec'.replaceable = FALSE
        /\ rec'.fault = rec.fault /\ rec'.releasing = rec.releasing
        /\ rec'.release_closed = rec.release_closed
           /\ rec'.drained = rec.drained
        /\ rec'.closing = rec.closing /\ rec'.closed = rec.closed
        /\ rec'.source_closed = rec.source_closed
    BY <2>2 DEF IInv, TypeOK, Recorders
  <2>4. rec' \in Recorders
    BY <2>2, Zenon DEF IInv, TypeOK, Recorders, RecorderStates, Threads
  <2>5. /\ TypeOK' /\ StepsOK' /\ LocksOK' /\ ShutdownOK' /\ FaultOK'
        /\ SegmentOK' /\ ReacquireOK' /\ CandidateOK'
    BY <2>1, <2>3, <2>4, NoneAssumption DEF IInv, TypeOK, StepsOK, LocksOK,
       ShutdownOK, FaultOK, SegmentOK, ReacquireOK, CandidateOK, Threads
  <2>6. BetweenOK'
    BY <2>1, <2>3, NoneAssumption DEF IInv, BetweenOK, LocksOK, FaultOK,
       Threads
  <2>7. ReleaseOK'
    BY <2>1, <2>3, NoneAssumption DEF IInv, ReleaseOK, LocksOK, FaultOK,
       Threads
  <2>8. OwnersOK'
    BY <2>1, <2>3, NoneAssumption DEF IInv, OwnersOK, BetweenOK, ShutdownOK
  <2>9. IngestOK'
    BY <2>1, <2>3, NoneAssumption DEF IInv, IngestOK, FaultOK, BetweenOK
  <2>10. JournalOK'
    BY <2>1, <2>3, JournalKept, NoneAssumption DEF IInv, JournalOK, LocksOK,
       FaultOK, BetweenOK, IngestOK, CandidateOK, Threads
  <2> QED BY <2>1, <2>5, <2>6, <2>7, <2>8, <2>9, <2>10 DEF IInv
<1> QED BY <1>1, <1>2 DEF ConnectSource, At

\* The failed initialization is journalled under the admission lock.
LEMMA ReplacementFailedStep ==
    ASSUME NEW t \in {"worker", "caller"}, IInv, ReplacementFailed(t)
    PROVE  IInv'
<1>1. CASE /\ StoreAppends(<<IF Manual(t) THEN "reacquire_failed"
                              ELSE "reconnect_failed">>, ses.segment)
           /\ admission' = t /\ Raise(t, "reject")
  <2>1. /\ pc[t] = "replace_failed" /\ pc'[t] = "fatal"
        /\ OnlyMoves(t)
        /\ ret'[t] = "reject"
        /\ admission = None /\ admission' = t
        /\ UNCHANGED <<rec, mutation, co, rt, port, phys, pending, held,
                       victim>>
        /\ ThreadsOK'
    BY <1>1 DEF IInv, TypeOK, ThreadsOK, ReplacementFailed, At, Goto, Raise,
       Manual, Threads
  <2>2. /\ ses' \in Sessions /\ ses'.segment = ses.segment
           /\ ses'.life = ses.life
        /\ ses'.life = "active" /\ ses.life = "active"
        /\ Journalled /\ Last = (IF t = "caller" THEN "reacquire_started"
                                   ELSE "reconnect_started") => Journalled'
    BY <1>1, StoreAppendsOne, FollowsTable DEF IInv, ReplacementFailed,
       Manual, TypeOK, Sessions, Events
  <2>3. /\ TypeOK' /\ StepsOK' /\ LocksOK' /\ ShutdownOK' /\ FaultOK'
        /\ BetweenOK' /\ ReleaseOK' /\ OwnersOK' /\ IngestOK' /\ SegmentOK'
        /\ ReacquireOK' /\ CandidateOK'
    BY <2>1, <2>2, NoneAssumption DEF IInv, TypeOK, StepsOK, LocksOK,
       ShutdownOK, FaultOK, BetweenOK, ReleaseOK, OwnersOK, IngestOK,
       SegmentOK, ReacquireOK, CandidateOK, Threads
  <2>4. JournalOK'
    BY <2>1, <2>2, NoneAssumption DEF IInv, JournalOK, LocksOK, BetweenOK,
       CandidateOK, Threads
  <2> QED BY <2>1, <2>3, <2>4 DEF IInv
<1>2. CASE StoreRaises /\ Raise(t, "reject_stop") /\ UNCHANGED admission
  <2>1. /\ pc[t] = "replace_failed" /\ pc'[t] = "fatal"
        /\ OnlyMoves(t)
        /\ ret'[t] = "reject_stop"
        /\ UNCHANGED <<rec, admission, mutation, co, rt, port, phys, pending,
                       held, victim>>
        /\ ThreadsOK'
    BY <1>2 DEF IInv, TypeOK, ThreadsOK, ReplacementFailed, At, Goto, Raise,
       Threads
  <2>2. /\ ses' \in Sessions /\ ses'.segment = ses.segment
        /\ ses'.life = "active" => ses.life = "active"
        /\ SameJournal
    BY <1>2, StoreRaisesEffect DEF IInv, ReplacementFailed
  <2>3. /\ TypeOK' /\ StepsOK' /\ LocksOK' /\ ShutdownOK' /\ FaultOK'
        /\ BetweenOK' /\ ReleaseOK' /\ OwnersOK' /\ IngestOK' /\ SegmentOK'
        /\ ReacquireOK' /\ CandidateOK' /\ JournalOK'
    BY <2>1, <2>2, NoneAssumption DEF IInv, TypeOK, StepsOK, LocksOK,
       ShutdownOK, FaultOK, BetweenOK, ReleaseOK, OwnersOK, IngestOK,
       SegmentOK, ReacquireOK, CandidateOK, JournalOK, Threads
  <2> QED BY <2>1, <2>3 DEF IInv
<1> QED BY <1>1, <1>2 DEF ReplacementFailed, At

\* A rejected candidate is closed, or known to be stuck by one who stops the
\* supervisor.
LEMMA RejectStep ==
    ASSUME NEW t \in {"worker", "caller"}, IInv, Reject(t)
    PROVE  IInv'
<1>1. CASE /\ Closes(held[t])
           /\ co' = [co EXCEPT !.stop = @ \/ ~Manual(t) \/ At(t,
              "reject_stop")]
           /\ Goto(t, IF Manual(t) THEN "rea_fail" ELSE "unclaim")
  <2>1. /\ pc[t] \in {"reject", "reject_stop"} /\ OnlyMoves(t)
        /\ pc'[t] = IF t = "caller" THEN "rea_fail" ELSE "unclaim"
        /\ admission' = (IF admission = t THEN None ELSE admission)
        /\ held[t] \in Sources
        /\ phys'[held[t]] = "closed" /\ OthersKeep(held[t])
        /\ phys[held[t]] # "unopened"
        /\ co.stop => co'.stop
        /\ co'.suspended = co.suspended /\ co'.attempt = co.attempt
        /\ co'.closing = co.closing /\ co'.closed = co.closed
        /\ UNCHANGED <<rec, mutation, rt, ses, port, pending, ret, held,
                       victim>>
        /\ rec.source \in Sources \cup {None} /\ victim \in Sources \cup {None}
        /\ held \in [Threads -> Sources \cup {None}]
        /\ ThreadsOK'
    BY <1>1, ClosesEffect DEF IInv, TypeOK, ThreadsOK, Reject, At, Goto,
       NoFault, Manual, BetweenOK, Recorders, Coordinators, Threads
  <2>2. co' \in Coordinators
    BY <1>1, Zenon DEF IInv, TypeOK, Reject, Manual, BetweenOK, Recorders,
       Coordinators
  <2>3. phys' \in [Sources -> Transports]
    BY <1>1, <2>1, NoneAssumption DEF IInv, TypeOK, Reject, NoFault, Closes,
       CloseRaises, Fault, Manual, BetweenOK, Recorders, Transports
  <2>4. /\ TypeOK' /\ StepsOK' /\ LocksOK' /\ ShutdownOK' /\ FaultOK'
        /\ BetweenOK' /\ OwnersOK' /\ ReacquireOK' /\ CandidateOK'
    BY <2>1, <2>2, <2>3, NoneAssumption DEF IInv, TypeOK, StepsOK, LocksOK,
       ShutdownOK, FaultOK, BetweenOK, OwnersOK, ReacquireOK, CandidateOK,
       Threads
  <2>5. ReleaseOK'
    BY <2>1, NoneAssumption DEF IInv, ReleaseOK, LocksOK, FaultOK, Threads
  <2>6. IngestOK'
    BY <2>1, NoneAssumption DEF IInv, IngestOK, StepsOK, Threads
  <2>7. SegmentOK'
    BY <2>1, NoneAssumption DEF IInv, SegmentOK, IngestOK, Threads
  <2>8. JournalOK'
    BY <2>1, JournalKept, NoneAssumption DEF IInv, JournalOK, CandidateOK,
       Threads
  <2> QED BY <2>1, <2>4, <2>5, <2>6, <2>7, <2>8 DEF IInv
<1>2. CASE /\ CloseRaises(held[t]) /\ UNCHANGED co
           /\ Goto(t, IF Manual(t) THEN "rea_unknown" ELSE "failed")
  <2>1. /\ pc[t] \in {"reject", "reject_stop"} /\ OnlyMoves(t)
        /\ pc'[t] = IF t = "caller" THEN "rea_unknown" ELSE "failed"
        /\ admission' = (IF admission = t THEN None ELSE admission)
        /\ held[t] \in Sources
        /\ phys'[held[t]] = "stuck" /\ OthersKeep(held[t])
        /\ UNCHANGED <<rec, mutation, co, rt, ses, port, pending, ret, held,
                       victim>>
        /\ rec.source \in Sources \cup {None} /\ victim \in Sources \cup {None}
        /\ held \in [Threads -> Sources \cup {None}]
        /\ ThreadsOK'
    BY <1>2, CloseRaisesEffect DEF IInv, TypeOK, ThreadsOK, Reject, At, Goto,
       NoFault, Manual, BetweenOK, Recorders, Threads
  <2>2. phys' \in [Sources -> Transports]
    BY <1>2, <2>1, NoneAssumption DEF IInv, TypeOK, Reject, NoFault, Closes,
       CloseRaises, Fault, Manual, BetweenOK, Recorders, Transports
  <2>3. /\ TypeOK' /\ StepsOK' /\ LocksOK' /\ ShutdownOK' /\ FaultOK'
        /\ BetweenOK' /\ OwnersOK' /\ ReacquireOK' /\ CandidateOK'
        /\ JournalOK'
    BY <2>1, <2>2, JournalKept, NoneAssumption DEF IInv, TypeOK, StepsOK,
       LocksOK, ShutdownOK, FaultOK, BetweenOK, OwnersOK, ReacquireOK,
       CandidateOK, JournalOK, Threads
  <2>4. ReleaseOK'
    BY <2>1, NoneAssumption DEF IInv, ReleaseOK, LocksOK, FaultOK, Threads
  <2>5. IngestOK'
    BY <2>1, NoneAssumption DEF IInv, IngestOK, StepsOK, Threads
  <2>6. SegmentOK'
    BY <2>1, NoneAssumption DEF IInv, SegmentOK, IngestOK, Threads
  <2> QED BY <2>1, <2>3, <2>4, <2>5, <2>6 DEF IInv
<1> QED BY <1>1, <1>2 DEF Reject, At

\* A release is admitted with no mutation and no attempt under way.
LEMMA BeginReleaseStep ==
    ASSUME IInv, BeginRelease
    PROVE  IInv'
<1>1. /\ pc["caller"] = "idle" /\ pc'["caller"] = "rel_intent"
      /\ OnlyMoves("caller")
      /\ rec.state = "connected" /\ "release" \in Requests
      /\ mutation = None /\ mutation' = "caller"
      /\ co.attempt = None /\ ~rt.closing
      /\ co'.attempt = "caller" /\ co'.suspended = TRUE
      /\ co'.stop = co.stop /\ co'.closing = co.closing
      /\ co'.closed = co.closed
      /\ UNCHANGED <<rec, admission, rt, ses, port, phys, pending, ret, held,
                     victim>>
      /\ ThreadsOK'
  BY DEF IInv, TypeOK, ThreadsOK, BeginRelease, At, Goto, ManualClaim,
     Coordinators, Threads
<1>2. co' \in Coordinators
  BY Zenon DEF IInv, TypeOK, BeginRelease, ManualClaim, Coordinators
<1>3. /\ TypeOK' /\ StepsOK' /\ LocksOK' /\ ShutdownOK' /\ FaultOK'
      /\ BetweenOK' /\ ReleaseOK' /\ OwnersOK' /\ IngestOK' /\ SegmentOK'
      /\ ReacquireOK' /\ CandidateOK' /\ JournalOK'
  BY <1>1, <1>2, JournalKept, NoneAssumption DEF IInv, TypeOK, StepsOK,
     LocksOK, ShutdownOK, FaultOK, BetweenOK, ReleaseOK, OwnersOK, IngestOK,
     SegmentOK, ReacquireOK, CandidateOK, JournalOK, Threads
<1> QED BY <1>1, <1>3 DEF IInv

\* A reacquire is admitted with no mutation and no attempt under way.
LEMMA BeginReacquireStep ==
    ASSUME IInv, BeginReacquire
    PROVE  IInv'
<1>1. /\ pc["caller"] = "idle" /\ pc'["caller"] = "rea_begin"
      /\ OnlyMoves("caller")
      /\ rec.state \in {"released", "disconnected"}
      /\ mutation = None /\ mutation' = "caller"
      /\ co.attempt = None /\ ~rt.closing
      /\ co'.attempt = "caller" /\ co'.suspended = TRUE
      /\ co'.stop = co.stop /\ co'.closing = co.closing
      /\ co'.closed = co.closed
      /\ UNCHANGED <<rec, admission, rt, ses, port, phys, pending, ret, held,
                     victim>>
      /\ ThreadsOK'
  BY DEF IInv, TypeOK, ThreadsOK, BeginReacquire, At, Goto, ManualClaim,
     Coordinators, Threads
<1>2. co' \in Coordinators
  BY Zenon DEF IInv, TypeOK, BeginReacquire, ManualClaim, Coordinators
<1>3. /\ TypeOK' /\ StepsOK' /\ LocksOK' /\ ShutdownOK' /\ FaultOK'
      /\ BetweenOK' /\ ReleaseOK' /\ OwnersOK' /\ IngestOK' /\ SegmentOK'
      /\ ReacquireOK' /\ CandidateOK' /\ JournalOK'
  BY <1>1, <1>2, JournalKept, NoneAssumption DEF IInv, TypeOK, StepsOK,
     LocksOK, ShutdownOK, FaultOK, BetweenOK, ReleaseOK, OwnersOK, IngestOK,
     SegmentOK, ReacquireOK, CandidateOK, JournalOK, Threads
<1> QED BY <1>1, <1>3 DEF IInv

\* A release takes the recorder's source to close it, after its intent is
\* journalled.
LEMMA ReleaseIntentStep ==
    ASSUME IInv, ReleaseIntent
    PROVE  IInv'
<1>1. CASE /\ co' = [co EXCEPT !.suspended = FALSE]
           /\ Continue("caller", "end")
           /\ UNCHANGED <<rec, ses, held, admission>>
  <2>1. /\ pc["caller"] = "rel_intent" /\ pc'["caller"] = "end"
        /\ OnlyMoves("caller")
        /\ co'.suspended = FALSE
        /\ co'.stop = co.stop /\ co'.attempt = co.attempt
        /\ co'.closing = co.closing /\ co'.closed = co.closed
        /\ UNCHANGED <<rec, admission, mutation, rt, ses, port, phys, pending,
                       ret, held, victim>>
        /\ ThreadsOK'
    BY <1>1 DEF IInv, TypeOK, ThreadsOK, ReleaseIntent, At, Goto, Continue,
       Coordinators, Threads
  <2>2. co' \in Coordinators
    BY <1>1, Zenon DEF IInv, TypeOK, ReleaseIntent, Continue, Coordinators
  <2>3. /\ TypeOK' /\ StepsOK' /\ LocksOK' /\ ShutdownOK' /\ FaultOK'
        /\ BetweenOK' /\ ReleaseOK' /\ OwnersOK' /\ IngestOK' /\ SegmentOK'
        /\ ReacquireOK' /\ CandidateOK' /\ JournalOK'
    BY <2>1, <2>2, JournalKept, NoneAssumption DEF IInv, TypeOK, StepsOK,
       LocksOK, ShutdownOK, FaultOK, BetweenOK, ReleaseOK, OwnersOK, IngestOK,
       SegmentOK, ReacquireOK, CandidateOK, JournalOK, Threads
  <2> QED BY <2>1, <2>3 DEF IInv
<1>2. CASE /\ rec.state = "connected" /\ ~rec.closing /\ rec.source # None
           /\ StoreAppends(<<"release_requested">>, ses.segment)
           /\ rec' = Releasing
              /\ held' = [held EXCEPT !["caller"] = rec.source]
           /\ Continue("caller", "rel_close") /\ UNCHANGED <<co, admission>>
  <2>1. /\ pc["caller"] = "rel_intent" /\ pc'["caller"] = "rel_close"
        /\ OnlyMoves("caller")
        /\ rec.state = "connected" /\ ~rec.closing /\ rec.source # None
        /\ held'["caller"] = rec.source /\ OthersHold("caller")
        /\ UNCHANGED <<admission, mutation, co, rt, port, phys, pending, ret,
                       victim>>
        /\ ThreadsOK'
    BY <1>2 DEF IInv, TypeOK, ThreadsOK, ReleaseIntent, At, Goto, Continue,
       Releasing, Threads
  <2>2. /\ ses' \in Sessions /\ ses'.segment = ses.segment
           /\ ses'.life = ses.life
    BY <1>2, StoreAppendsOne, FollowsTable DEF IInv, ReleaseIntent, TypeOK,
       Sessions, Events
  <2>3. /\ rec'.releasing = TRUE /\ rec'.release_closed = FALSE
           /\ rec'.drained = FALSE
        /\ rec'.state = rec.state /\ rec'.source = rec.source
        /\ rec'.fault = rec.fault /\ rec'.replaceable = rec.replaceable
        /\ rec'.closing = rec.closing /\ rec'.closed = rec.closed
        /\ rec'.source_closed = rec.source_closed
    BY <1>2 DEF IInv, TypeOK, Recorders, ReleaseIntent, Continue, Releasing
  <2>4. rec' \in Recorders
    BY <1>2, Zenon DEF IInv, TypeOK, ReleaseIntent, Continue, Releasing,
       Recorders, RecorderStates, Threads
  <2>5. held' \in [Threads -> Sources \cup {None}]
    BY <1>2, <2>1, <2>2, <2>3, NoneAssumption DEF IInv, TypeOK, ReleaseIntent,
       Recorders, Threads, Continue, Releasing
  <2>6. /\ TypeOK' /\ StepsOK' /\ LocksOK' /\ ShutdownOK' /\ FaultOK'
        /\ BetweenOK' /\ OwnersOK' /\ IngestOK' /\ SegmentOK'
        /\ ReacquireOK' /\ CandidateOK' /\ JournalOK'
    BY <2>1, <2>2, <2>3, <2>4, <2>5, NoneAssumption DEF IInv, TypeOK, StepsOK,
       LocksOK, ShutdownOK, FaultOK, BetweenOK, OwnersOK, IngestOK, SegmentOK,
       ReacquireOK, CandidateOK, JournalOK, Threads
  <2>7. ReleaseOK'
    BY <2>1, <2>2, <2>3, NoneAssumption DEF IInv, ReleaseOK, BetweenOK,
       TypeOK, Recorders
  <2> QED BY <2>1, <2>6, <2>7 DEF IInv
<1>3. CASE /\ StoreRaises /\ rec' = Releasing /\ admission' = "caller"
           /\ Raise("caller", "rel_error") /\ UNCHANGED <<co, held>>
  <2>1. /\ pc["caller"] = "rel_intent" /\ pc'["caller"] = "fatal"
        /\ OnlyMoves("caller")
        /\ ret'["caller"] = "rel_error"
        /\ admission = None /\ admission' = "caller"
        /\ UNCHANGED <<mutation, co, rt, port, phys, pending, held, victim>>
        /\ ThreadsOK'
    BY <1>3 DEF IInv, TypeOK, ThreadsOK, ReleaseIntent, At, Goto, Raise,
       Releasing, Threads
  <2>2. /\ ses' \in Sessions /\ ses'.segment = ses.segment
        /\ ses'.life = "active" => ses.life = "active"
        /\ SameJournal
    BY <1>3, StoreRaisesEffect DEF IInv, ReleaseIntent
  <2>3. /\ rec'.releasing = TRUE /\ rec'.release_closed = FALSE
           /\ rec'.drained = FALSE
        /\ rec'.state = rec.state /\ rec'.source = rec.source
        /\ rec'.fault = rec.fault /\ rec'.replaceable = rec.replaceable
        /\ rec'.closing = rec.closing /\ rec'.closed = rec.closed
        /\ rec'.source_closed = rec.source_closed
    BY <1>3 DEF IInv, TypeOK, Recorders, ReleaseIntent, Raise, Releasing
  <2>4. rec' \in Recorders
    BY <1>3, Zenon DEF IInv, TypeOK, ReleaseIntent, Raise, Releasing,
       Recorders, RecorderStates, Threads
  <2>5. /\ TypeOK' /\ StepsOK' /\ LocksOK' /\ ShutdownOK' /\ FaultOK'
        /\ BetweenOK' /\ ReleaseOK' /\ OwnersOK' /\ IngestOK' /\ SegmentOK'
        /\ ReacquireOK' /\ CandidateOK' /\ JournalOK'
    BY <2>1, <2>2, <2>3, <2>4, NoneAssumption DEF IInv, TypeOK, StepsOK,
       LocksOK, ShutdownOK, FaultOK, BetweenOK, ReleaseOK, OwnersOK, IngestOK,
       SegmentOK, ReacquireOK, CandidateOK, JournalOK, Threads
  <2> QED BY <2>1, <2>5 DEF IInv
<1> QED BY <1>1, <1>2, <1>3 DEF ReleaseIntent, At

\* The released source is closed, or ownership is faulted.
LEMMA ReleaseCloseStep ==
    ASSUME IInv, ReleaseClose
    PROVE  IInv'
<1>1. CASE Closes(held["caller"]) /\ Continue("caller", "rel_closed")
  <2>1. /\ pc["caller"] = "rel_close" /\ pc'["caller"] = "rel_closed"
        /\ OnlyMoves("caller")
        /\ held["caller"] \in Sources
        /\ phys'[held["caller"]] = "closed" /\ OthersKeep(held["caller"])
        /\ phys[held["caller"]] # "unopened"
        /\ UNCHANGED <<rec, admission, mutation, co, rt, ses, port, pending,
                       ret, held, victim>>
        /\ rec.source \in Sources \cup {None} /\ victim \in Sources \cup {None}
        /\ held \in [Threads -> Sources \cup {None}]
        /\ ThreadsOK'
    BY <1>1, ClosesEffect DEF IInv, TypeOK, ThreadsOK, ReleaseClose, At, Goto,
       NoFault, Continue, ReleaseOK, Recorders, Threads
  <2>2. phys' \in [Sources -> Transports]
    BY <1>1, <2>1, NoneAssumption DEF IInv, TypeOK, ReleaseClose, NoFault,
       Closes, CloseRaises, Fault, Continue, ReleaseOK, Recorders, Transports
  <2>3. /\ TypeOK' /\ StepsOK' /\ LocksOK' /\ ShutdownOK' /\ FaultOK'
        /\ BetweenOK' /\ ReleaseOK' /\ OwnersOK' /\ ReacquireOK'
        /\ CandidateOK' /\ JournalOK'
    BY <2>1, <2>2, JournalKept, NoneAssumption DEF IInv, TypeOK, StepsOK,
       LocksOK, ShutdownOK, FaultOK, BetweenOK, ReleaseOK, OwnersOK,
       ReacquireOK, CandidateOK, JournalOK, Threads
  <2>4. IngestOK'
    BY <2>1, NoneAssumption DEF IInv, IngestOK, StepsOK, Threads
  <2>5. SegmentOK'
    BY <2>1, NoneAssumption DEF IInv, SegmentOK, IngestOK, Threads
  <2> QED BY <2>1, <2>3, <2>4, <2>5 DEF IInv
<1>2. CASE CloseRaises(held["caller"]) /\ Raise("caller", "rel_close_error")
  <2>1. /\ pc["caller"] = "rel_close" /\ pc'["caller"] = "fatal"
        /\ OnlyMoves("caller")
        /\ ret'["caller"] = "rel_close_error"
        /\ held["caller"] \in Sources
        /\ phys'[held["caller"]] = "stuck" /\ OthersKeep(held["caller"])
        /\ phys[held["caller"]] \in {"open", "gone", "stuck"}
        /\ UNCHANGED <<rec, admission, mutation, co, rt, ses, port, pending,
                       held, victim>>
        /\ rec.source \in Sources \cup {None} /\ victim \in Sources \cup {None}
        /\ held \in [Threads -> Sources \cup {None}]
        /\ ThreadsOK'
    BY <1>2, CloseRaisesEffect DEF IInv, TypeOK, ThreadsOK, ReleaseClose, At,
       Goto, NoFault, Raise, ReleaseOK, Recorders, Threads
  <2>2. phys' \in [Sources -> Transports]
    BY <1>2, <2>1, NoneAssumption DEF IInv, TypeOK, ReleaseClose, NoFault,
       Closes, CloseRaises, Fault, Raise, ReleaseOK, Recorders, Transports
  <2>3. /\ TypeOK' /\ StepsOK' /\ LocksOK' /\ ShutdownOK' /\ FaultOK'
        /\ BetweenOK' /\ ReleaseOK' /\ OwnersOK' /\ ReacquireOK'
        /\ CandidateOK' /\ JournalOK'
    BY <2>1, <2>2, JournalKept, NoneAssumption DEF IInv, TypeOK, StepsOK,
       LocksOK, ShutdownOK, FaultOK, BetweenOK, ReleaseOK, OwnersOK,
       ReacquireOK, CandidateOK, JournalOK, Threads
  <2>4. IngestOK'
    BY <2>1, NoneAssumption DEF IInv, IngestOK, StepsOK, Threads
  <2>5. SegmentOK'
    BY <2>1, NoneAssumption DEF IInv, SegmentOK, IngestOK, Threads
  <2> QED BY <2>1, <2>3, <2>4, <2>5 DEF IInv
<1> QED BY <1>1, <1>2 DEF ReleaseClose, At

\* The drain may finish from here on.
LEMMA ReleaseClosedStep ==
    ASSUME IInv, ReleaseClosed
    PROVE  IInv'
<1>1. /\ pc["caller"] = "rel_closed" /\ pc'["caller"] = "rel_wait"
      /\ OnlyMoves("caller")
      /\ UNCHANGED <<admission, mutation, co, rt, ses, port, phys, pending,
                     ret, held, victim>>
      /\ ThreadsOK'
  BY DEF IInv, TypeOK, ThreadsOK, ReleaseClosed, At, Goto, Threads
<1>2. /\ rec'.release_closed = TRUE
      /\ rec'.state = rec.state /\ rec'.source = rec.source
      /\ rec'.fault = rec.fault /\ rec'.replaceable = rec.replaceable
      /\ rec'.releasing = rec.releasing /\ rec'.drained = rec.drained
      /\ rec'.closing = rec.closing /\ rec'.closed = rec.closed
      /\ rec'.source_closed = rec.source_closed
  BY DEF IInv, TypeOK, Recorders, ReleaseClosed
<1>3. rec' \in Recorders
  BY Zenon DEF IInv, TypeOK, ReleaseClosed, Recorders, RecorderStates, Threads
<1>4. /\ TypeOK' /\ StepsOK' /\ LocksOK' /\ ShutdownOK' /\ FaultOK'
      /\ BetweenOK' /\ OwnersOK' /\ IngestOK' /\ SegmentOK' /\ ReacquireOK'
      /\ CandidateOK' /\ JournalOK'
  BY <1>1, <1>2, <1>3, JournalKept, NoneAssumption DEF IInv, TypeOK, StepsOK,
     LocksOK, ShutdownOK, FaultOK, BetweenOK, OwnersOK, IngestOK, SegmentOK,
     ReacquireOK, CandidateOK, JournalOK, Threads
<1>5. ReleaseOK'
  BY <1>1, <1>2, NoneAssumption DEF IInv, ReleaseOK, LocksOK, FaultOK, Threads
<1> QED BY <1>1, <1>4, <1>5 DEF IInv

\* A release goes on when its source is drained or ownership is faulted.
LEMMA ReleaseDrainedStep ==
    ASSUME IInv, ReleaseDrained
    PROVE  IInv'
<1>1. /\ pc["caller"] = "rel_wait" /\ pc'["caller"] = "rel_final"
      /\ OnlyMoves("caller")
      /\ rec.drained
      /\ UNCHANGED <<rec, admission, mutation, co, rt, ses, port, phys,
                     pending, ret, held, victim>>
      /\ ThreadsOK'
  BY DEF IInv, TypeOK, ThreadsOK, ReleaseDrained, At, Goto, Threads
<1>2. /\ TypeOK' /\ StepsOK' /\ LocksOK' /\ ShutdownOK' /\ FaultOK'
      /\ BetweenOK' /\ ReleaseOK' /\ OwnersOK' /\ IngestOK' /\ SegmentOK'
      /\ ReacquireOK' /\ CandidateOK' /\ JournalOK'
  BY <1>1, JournalKept, NoneAssumption DEF IInv, TypeOK, StepsOK, LocksOK,
     ShutdownOK, FaultOK, BetweenOK, ReleaseOK, OwnersOK, IngestOK, SegmentOK,
     ReacquireOK, CandidateOK, JournalOK, Threads
<1> QED BY <1>1, <1>2 DEF IInv

\* A release ends with its source detached.
LEMMA ReleaseFinalStep ==
    ASSUME IInv, ReleaseFinal
    PROVE  IInv'
<1>1. CASE /\ Raise("caller", "rel_error")
           /\ UNCHANGED <<rec, ses, admission>>
  <2>1. /\ pc["caller"] = "rel_final" /\ pc'["caller"] = "fatal"
        /\ OnlyMoves("caller")
        /\ ret'["caller"] = "rel_error"
        /\ UNCHANGED <<rec, admission, mutation, co, rt, ses, port, phys,
                       pending, held, victim>>
        /\ ThreadsOK'
    BY <1>1 DEF IInv, TypeOK, ThreadsOK, ReleaseFinal, At, Goto, Raise,
       Threads
  <2>2. /\ TypeOK' /\ StepsOK' /\ LocksOK' /\ ShutdownOK' /\ FaultOK'
        /\ BetweenOK' /\ ReleaseOK' /\ OwnersOK' /\ IngestOK' /\ SegmentOK'
        /\ ReacquireOK' /\ CandidateOK' /\ JournalOK'
    BY <2>1, JournalKept, NoneAssumption DEF IInv, TypeOK, StepsOK, LocksOK,
       ShutdownOK, FaultOK, BetweenOK, ReleaseOK, OwnersOK, IngestOK,
       SegmentOK, ReacquireOK, CandidateOK, JournalOK, Threads
  <2> QED BY <2>1, <2>2 DEF IInv
<1>2. CASE /\ ~rec.fault /\ StoreAppends(<<"released">>, "closed")
           /\ rec' = [rec EXCEPT !.state = "released", !.releasing = FALSE]
           /\ Continue("caller", "end") /\ UNCHANGED admission
  <2>1. /\ pc["caller"] = "rel_final" /\ pc'["caller"] = "end"
        /\ OnlyMoves("caller")
        /\ ~rec.fault
        /\ UNCHANGED <<admission, mutation, co, rt, port, phys, pending, ret,
                       held, victim>>
        /\ ThreadsOK'
    BY <1>2 DEF IInv, TypeOK, ThreadsOK, ReleaseFinal, At, Goto, Continue,
       Threads
  <2>2. /\ ses' \in Sessions /\ ses'.life = ses.life
    BY <1>2, StoreAppendsOne, FollowsTable DEF IInv, ReleaseFinal, TypeOK,
       Sessions, Events
  <2>3. /\ rec'.state = "released" /\ rec'.releasing = FALSE
        /\ rec'.source = rec.source /\ rec'.fault = rec.fault
        /\ rec'.replaceable = rec.replaceable
           /\ rec'.release_closed = rec.release_closed
        /\ rec'.drained = rec.drained /\ rec'.closing = rec.closing
        /\ rec'.closed = rec.closed /\ rec'.source_closed = rec.source_closed
    BY <1>2 DEF IInv, TypeOK, Recorders, ReleaseFinal, Continue
  <2>4. rec' \in Recorders
    BY <1>2, Zenon DEF IInv, TypeOK, ReleaseFinal, Continue, Recorders,
       RecorderStates, Threads
  <2>5. /\ TypeOK' /\ StepsOK' /\ LocksOK' /\ ShutdownOK' /\ FaultOK'
        /\ ReleaseOK' /\ OwnersOK' /\ IngestOK' /\ ReacquireOK'
        /\ CandidateOK' /\ JournalOK'
    BY <2>1, <2>2, <2>3, <2>4, NoneAssumption DEF IInv, TypeOK, StepsOK,
       LocksOK, ShutdownOK, FaultOK, ReleaseOK, OwnersOK, IngestOK,
       ReacquireOK, CandidateOK, JournalOK, Threads
  <2>6. BetweenOK'
    BY <2>1, <2>2, <2>3, NoneAssumption DEF IInv, BetweenOK, ReleaseOK
  <2>7. SegmentOK'
    BY <2>1, <2>2, <2>3, NoneAssumption DEF IInv, SegmentOK, ReleaseOK,
       IngestOK, LocksOK, Threads
  <2> QED BY <2>1, <2>5, <2>6, <2>7 DEF IInv
<1>3. CASE /\ StoreRaises /\ admission' = "caller"
           /\ Raise("caller", "rel_error") /\ UNCHANGED rec
  <2>1. /\ pc["caller"] = "rel_final" /\ pc'["caller"] = "fatal"
        /\ OnlyMoves("caller")
        /\ ret'["caller"] = "rel_error"
        /\ admission = None /\ admission' = "caller"
        /\ UNCHANGED <<rec, mutation, co, rt, port, phys, pending, held,
                       victim>>
        /\ ThreadsOK'
    BY <1>3 DEF IInv, TypeOK, ThreadsOK, ReleaseFinal, At, Goto, Raise,
       Threads
  <2>2. /\ ses' \in Sessions /\ ses'.segment = ses.segment
        /\ ses'.life = "active" => ses.life = "active"
        /\ SameJournal
    BY <1>3, StoreRaisesEffect DEF IInv, ReleaseFinal
  <2>3. /\ TypeOK' /\ StepsOK' /\ LocksOK' /\ ShutdownOK' /\ FaultOK'
        /\ BetweenOK' /\ ReleaseOK' /\ OwnersOK' /\ IngestOK' /\ SegmentOK'
        /\ ReacquireOK' /\ CandidateOK' /\ JournalOK'
    BY <2>1, <2>2, NoneAssumption DEF IInv, TypeOK, StepsOK, LocksOK,
       ShutdownOK, FaultOK, BetweenOK, ReleaseOK, OwnersOK, IngestOK,
       SegmentOK, ReacquireOK, CandidateOK, JournalOK, Threads
  <2> QED BY <2>1, <2>3 DEF IInv
<1> QED BY <1>1, <1>2, <1>3 DEF ReleaseFinal, At

\* A failed release has faulted ownership and stops the supervisor.
LEMMA ReleaseErrorStep ==
    ASSUME IInv, ReleaseError
    PROVE  IInv'
<1>1. /\ pc["caller"] \in {"rel_error", "rel_close_error"}
         /\ pc'["caller"] = "end"
      /\ OnlyMoves("caller")
      /\ co'.stop = TRUE
      /\ co'.suspended = co.suspended /\ co'.attempt = co.attempt
      /\ co'.closing = co.closing /\ co'.closed = co.closed
      /\ UNCHANGED <<admission, mutation, rt, ses, port, phys, pending, ret,
                     held, victim>>
      /\ ThreadsOK'
  BY DEF IInv, TypeOK, ThreadsOK, ReleaseError, At, Goto, Coordinators,
     Threads
<1>2. /\ rec'.state = rec.state
      /\ rec'.source = rec.source
      /\ rec'.fault = rec.fault
      /\ rec'.replaceable = rec.replaceable
      /\ rec'.releasing = rec.releasing
      /\ rec'.drained = rec.drained
      /\ rec'.closing = rec.closing
      /\ rec'.closed = rec.closed
      /\ rec'.source_closed = rec.source_closed
  BY DEF IInv, TypeOK, Recorders, ReleaseError
<1>3. rec' \in Recorders
  BY Zenon DEF IInv, TypeOK, ReleaseError, Recorders, RecorderStates, Threads
<1>4. co' \in Coordinators
  BY Zenon DEF IInv, TypeOK, ReleaseError, Coordinators
<1>5. /\ TypeOK' /\ StepsOK' /\ LocksOK' /\ ShutdownOK' /\ FaultOK'
      /\ BetweenOK' /\ OwnersOK' /\ IngestOK' /\ SegmentOK' /\ ReacquireOK'
      /\ CandidateOK' /\ JournalOK'
  BY <1>1, <1>2, <1>3, <1>4, JournalKept, NoneAssumption DEF IInv, TypeOK,
     StepsOK, LocksOK, ShutdownOK, FaultOK, BetweenOK, OwnersOK, IngestOK,
     SegmentOK, ReacquireOK, CandidateOK, JournalOK, Threads
<1>6. ReleaseOK'
  BY <1>1, <1>2, NoneAssumption DEF IInv, ReleaseOK, LocksOK, FaultOK, Threads
<1> QED BY <1>1, <1>5, <1>6 DEF IInv

\* A reacquire begins with no source, in an ownership that is not faulted.
LEMMA ReacquireBeginStep ==
    ASSUME IInv, ReacquireBegin
    PROVE  IInv'
<1>1. CASE /\ rec' = rec /\ Continue("caller", "end")
           /\ UNCHANGED <<ses, admission>>
  <2>1. /\ pc["caller"] = "rea_begin" /\ pc'["caller"] = "end"
        /\ OnlyMoves("caller")
        /\ UNCHANGED <<rec, admission, mutation, co, rt, ses, port, phys,
                       pending, ret, held, victim>>
        /\ ThreadsOK'
    BY <1>1 DEF IInv, TypeOK, ThreadsOK, ReacquireBegin, At, Goto, Continue,
       Threads
  <2>2. /\ TypeOK' /\ StepsOK' /\ LocksOK' /\ ShutdownOK' /\ FaultOK'
        /\ BetweenOK' /\ ReleaseOK' /\ OwnersOK' /\ IngestOK' /\ SegmentOK'
        /\ ReacquireOK' /\ CandidateOK' /\ JournalOK'
    BY <2>1, JournalKept, NoneAssumption DEF IInv, TypeOK, StepsOK, LocksOK,
       ShutdownOK, FaultOK, BetweenOK, ReleaseOK, OwnersOK, IngestOK,
       SegmentOK, ReacquireOK, CandidateOK, JournalOK, Threads
  <2> QED BY <2>1, <2>2 DEF IInv
<1>2. CASE /\ ~rec.closing /\ ~rec.fault
        /\ rec.state \in {"released", "disconnected"}
           /\ rec' = [rec EXCEPT !.state = "reacquiring"]
           /\ StoreAppends(<<"reacquire_started">>, ses.segment)
           /\ Continue("caller", "rea_open") /\ UNCHANGED admission
  <2>1. /\ pc["caller"] = "rea_begin" /\ pc'["caller"] = "rea_open"
        /\ OnlyMoves("caller")
        /\ ~rec.closing /\ ~rec.fault
           /\ rec.state \in {"released", "disconnected"}
        /\ UNCHANGED <<admission, mutation, co, rt, port, phys, pending, ret,
                       held, victim>>
        /\ ThreadsOK'
    BY <1>2 DEF IInv, TypeOK, ThreadsOK, ReacquireBegin, At, Goto, Continue,
       Threads
  <2>2. /\ ses' \in Sessions /\ ses'.segment = ses.segment
           /\ ses'.life = ses.life
        /\ ses'.life = "active" /\ ses.life = "active"
        /\ Last' = "reacquire_started" /\ (Journalled
           /\ Last = "reacquire_failed" => Journalled')
    BY <1>2, StoreAppendsOne, FollowsTable DEF IInv, ReacquireBegin, TypeOK,
       Sessions, Events
  <2>3. /\ rec'.state = "reacquiring"
        /\ rec'.source = rec.source /\ rec'.fault = rec.fault
        /\ rec'.replaceable = rec.replaceable /\ rec'.releasing = rec.releasing
        /\ rec'.release_closed = rec.release_closed
           /\ rec'.drained = rec.drained
        /\ rec'.closing = rec.closing /\ rec'.closed = rec.closed
        /\ rec'.source_closed = rec.source_closed
    BY <1>2 DEF IInv, TypeOK, Recorders, ReacquireBegin, Continue
  <2>4. rec' \in Recorders
    BY <1>2, Zenon DEF IInv, TypeOK, ReacquireBegin, Continue, Recorders,
       RecorderStates, Threads
  <2>5. /\ TypeOK' /\ StepsOK' /\ LocksOK' /\ ShutdownOK' /\ FaultOK'
        /\ ReleaseOK' /\ OwnersOK' /\ IngestOK' /\ SegmentOK'
        /\ ReacquireOK' /\ CandidateOK'
    BY <2>1, <2>2, <2>3, <2>4, NoneAssumption DEF IInv, TypeOK, StepsOK,
       LocksOK, ShutdownOK, FaultOK, ReleaseOK, OwnersOK, IngestOK, SegmentOK,
       ReacquireOK, CandidateOK, Threads
  <2>6. BetweenOK'
    BY <2>1, <2>2, <2>3, NoneAssumption DEF IInv, BetweenOK, LocksOK, FaultOK,
       Threads
  <2>7. JournalOK'
    BY <2>1, <2>2, <2>3, NoneAssumption DEF IInv, JournalOK, LocksOK,
       BetweenOK, CandidateOK, Threads
  <2> QED BY <2>1, <2>5, <2>6, <2>7 DEF IInv
<1>3. CASE /\ ~rec.closing /\ ~rec.fault
        /\ rec.state \in {"released", "disconnected"}
           /\ rec' = [rec EXCEPT !.state = "reacquiring"]
           /\ StoreRaises /\ admission' = "caller" /\ Raise("caller", "end")
  <2>1. /\ pc["caller"] = "rea_begin" /\ pc'["caller"] = "fatal"
        /\ OnlyMoves("caller")
        /\ ret'["caller"] = "end"
        /\ admission = None /\ admission' = "caller"
        /\ ~rec.closing /\ ~rec.fault
           /\ rec.state \in {"released", "disconnected"}
        /\ UNCHANGED <<mutation, co, rt, port, phys, pending, held, victim>>
        /\ ThreadsOK'
    BY <1>3 DEF IInv, TypeOK, ThreadsOK, ReacquireBegin, At, Goto, Raise,
       Threads
  <2>2. /\ ses' \in Sessions /\ ses'.segment = ses.segment
        /\ ses'.life = "active" => ses.life = "active"
        /\ SameJournal
    BY <1>3, StoreRaisesEffect DEF IInv, ReacquireBegin
  <2>3. /\ rec'.state = "reacquiring"
        /\ rec'.source = rec.source /\ rec'.fault = rec.fault
        /\ rec'.replaceable = rec.replaceable /\ rec'.releasing = rec.releasing
        /\ rec'.release_closed = rec.release_closed
           /\ rec'.drained = rec.drained
        /\ rec'.closing = rec.closing /\ rec'.closed = rec.closed
        /\ rec'.source_closed = rec.source_closed
    BY <1>3 DEF IInv, TypeOK, Recorders, ReacquireBegin, Raise
  <2>4. rec' \in Recorders
    BY <1>3, Zenon DEF IInv, TypeOK, ReacquireBegin, Raise, Recorders,
       RecorderStates, Threads
  <2>5. /\ TypeOK' /\ StepsOK' /\ LocksOK' /\ ShutdownOK' /\ FaultOK'
        /\ BetweenOK' /\ ReleaseOK' /\ OwnersOK' /\ IngestOK' /\ SegmentOK'
        /\ ReacquireOK' /\ CandidateOK' /\ JournalOK'
    BY <2>1, <2>2, <2>3, <2>4, NoneAssumption DEF IInv, TypeOK, StepsOK,
       LocksOK, ShutdownOK, FaultOK, BetweenOK, ReleaseOK, OwnersOK, IngestOK,
       SegmentOK, ReacquireOK, CandidateOK, JournalOK, Threads
  <2> QED BY <2>1, <2>5 DEF IInv
<1>4. CASE /\ ~rec.closing /\ ~rec.fault
        /\ rec.state \in {"released", "disconnected"}
           /\ rec' = [rec EXCEPT !.state = "reacquiring"]
           /\ ses.life # "active" /\ UNCHANGED <<ses, admission>>
           /\ Continue("caller", "rea_open")
  <2>1. /\ pc["caller"] = "rea_begin" /\ pc'["caller"] = "rea_open"
        /\ OnlyMoves("caller")
        /\ ~rec.closing /\ ~rec.fault
           /\ rec.state \in {"released", "disconnected"}
        /\ ses.life # "active"
        /\ UNCHANGED <<admission, mutation, co, rt, ses, port, phys, pending,
                       ret, held, victim>>
        /\ ThreadsOK'
    BY <1>4 DEF IInv, TypeOK, ThreadsOK, ReacquireBegin, At, Goto, Continue,
       Threads
  <2>2. /\ rec'.state = "reacquiring"
        /\ rec'.source = rec.source /\ rec'.fault = rec.fault
        /\ rec'.replaceable = rec.replaceable /\ rec'.releasing = rec.releasing
        /\ rec'.release_closed = rec.release_closed
           /\ rec'.drained = rec.drained
        /\ rec'.closing = rec.closing /\ rec'.closed = rec.closed
        /\ rec'.source_closed = rec.source_closed
    BY <1>4 DEF IInv, TypeOK, Recorders, ReacquireBegin, Continue
  <2>3. rec' \in Recorders
    BY <1>4, Zenon DEF IInv, TypeOK, ReacquireBegin, Continue, Recorders,
       RecorderStates, Threads
  <2>4. /\ TypeOK' /\ StepsOK' /\ LocksOK' /\ ShutdownOK' /\ FaultOK'
        /\ BetweenOK' /\ ReleaseOK' /\ OwnersOK' /\ IngestOK' /\ SegmentOK'
        /\ ReacquireOK' /\ CandidateOK' /\ JournalOK'
    BY <2>1, <2>2, <2>3, JournalKept, NoneAssumption DEF IInv, TypeOK,
       StepsOK, LocksOK, ShutdownOK, FaultOK, BetweenOK, ReleaseOK, OwnersOK,
       IngestOK, SegmentOK, ReacquireOK, CandidateOK, JournalOK, Threads
  <2> QED BY <2>1, <2>4 DEF IInv
<1> QED BY <1>1, <1>2, <1>3, <1>4 DEF ReacquireBegin, At

\* A manual candidate is opened with nobody owning a source.
LEMMA ReacquireOpenStep ==
    ASSUME IInv, ReacquireOpen
    PROVE  IInv'
<1>1. CASE Goto("caller", "rea_fail") /\ UNCHANGED <<phys, held>>
  <2>1. /\ pc["caller"] = "rea_open" /\ pc'["caller"] = "rea_fail"
        /\ OnlyMoves("caller")
        /\ UNCHANGED <<rec, admission, mutation, co, rt, ses, port, phys,
                       pending, ret, held, victim>>
        /\ ThreadsOK'
    BY <1>1 DEF IInv, TypeOK, ThreadsOK, ReacquireOpen, At, Goto, Threads
  <2>2. /\ TypeOK' /\ StepsOK' /\ LocksOK' /\ ShutdownOK' /\ FaultOK'
        /\ BetweenOK' /\ ReleaseOK' /\ OwnersOK' /\ IngestOK' /\ SegmentOK'
        /\ ReacquireOK' /\ CandidateOK' /\ JournalOK'
    BY <2>1, JournalKept, NoneAssumption DEF IInv, TypeOK, StepsOK, LocksOK,
       ShutdownOK, FaultOK, BetweenOK, ReleaseOK, OwnersOK, IngestOK,
       SegmentOK, ReacquireOK, CandidateOK, JournalOK, Threads
  <2> QED BY <2>1, <2>2 DEF IInv
<1>2. CASE MayOpen /\ OpenReplacement("caller") /\ Goto("caller", "rea_opened")
  <2>1. /\ pc["caller"] = "rea_open" /\ pc'["caller"] = "rea_opened"
        /\ OnlyMoves("caller")
        /\ NextSource \in Sources
        /\ phys'[NextSource] = "open" /\ OthersKeep(NextSource)
        /\ phys[NextSource] = "unopened"
        /\ held'["caller"] = NextSource /\ OthersHold("caller")
        /\ UNCHANGED <<rec, admission, mutation, co, rt, ses, port, pending,
                       ret, victim>>
        /\ rec.source \in Sources \cup {None} /\ victim \in Sources \cup {None}
        /\ held \in [Threads -> Sources \cup {None}]
        /\ ThreadsOK'
    BY <1>2, NextSourceUnopened DEF IInv, TypeOK, ThreadsOK, ReacquireOpen,
       At, Goto, NoFault, MayOpen, OpenReplacement, Recorders, Threads
  <2>2. phys' \in [Sources -> Transports]
    BY <1>2, <2>1, NoneAssumption DEF IInv, TypeOK, ReacquireOpen, NoFault,
       Closes, CloseRaises, Fault, MayOpen, OpenReplacement, Recorders,
       Transports
  <2>3. held' \in [Threads -> Sources \cup {None}]
    BY <1>2, <2>1, NoneAssumption DEF IInv, TypeOK, ReacquireOpen, Recorders,
       Threads, MayOpen, OpenReplacement
  <2>4. /\ TypeOK' /\ StepsOK' /\ LocksOK' /\ ShutdownOK' /\ FaultOK'
        /\ BetweenOK' /\ OwnersOK' /\ ReacquireOK' /\ JournalOK'
    BY <2>1, <2>2, <2>3, JournalKept, NoneAssumption DEF IInv, TypeOK,
       StepsOK, LocksOK, ShutdownOK, FaultOK, BetweenOK, OwnersOK,
       ReacquireOK, JournalOK, Threads
  <2>5. ReleaseOK'
    BY <2>1, NoneAssumption DEF IInv, ReleaseOK, LocksOK, FaultOK, Threads
  <2>6. IngestOK'
    BY <2>1, NoneAssumption DEF IInv, IngestOK, StepsOK, Threads
  <2>7. SegmentOK'
    BY <2>1, NoneAssumption DEF IInv, SegmentOK, IngestOK, Threads
  <2>8. CandidateOK'
    BY <2>1, NoneAssumption DEF IInv, CandidateOK, IngestOK, Threads
  <2> QED BY <2>1, <2>4, <2>5, <2>6, <2>7, <2>8 DEF IInv
<1>3. CASE /\ MayOpen
           /\ CleanupUnconfirmed \/ RefuseReplacement
           /\ Goto("caller", "rea_unknown")
  <2>1. /\ pc["caller"] = "rea_open" /\ pc'["caller"] = "rea_unknown"
        /\ OnlyMoves("caller")
        /\ NextSource \in Sources /\ phys[NextSource] = "unopened"
        /\ phys'[NextSource] \in {"closed", "stuck"} /\ OthersKeep(NextSource)
        /\ UNCHANGED <<rec, admission, mutation, co, rt, ses, port, pending,
                       ret, held, victim>>
        /\ rec.source \in Sources \cup {None} /\ victim \in Sources \cup {None}
        /\ held \in [Threads -> Sources \cup {None}]
        /\ ThreadsOK'
    BY <1>3, NextSourceUnopened DEF IInv, TypeOK, ThreadsOK, ReacquireOpen,
       At, Goto, NoFault, MayOpen, CleanupUnconfirmed, RefuseReplacement,
       IdentityChanged, Recorders, Threads
  <2>2. phys' \in [Sources -> Transports]
    BY <1>3, <2>1, NoneAssumption DEF IInv, TypeOK, ReacquireOpen, NoFault,
       Closes, CloseRaises, Fault, MayOpen, CleanupUnconfirmed,
       RefuseReplacement, IdentityChanged, Recorders, Transports
  <2>3. /\ TypeOK' /\ StepsOK' /\ LocksOK' /\ ShutdownOK' /\ FaultOK'
        /\ BetweenOK' /\ OwnersOK' /\ ReacquireOK' /\ CandidateOK'
        /\ JournalOK'
    BY <2>1, <2>2, JournalKept, NoneAssumption DEF IInv, TypeOK, StepsOK,
       LocksOK, ShutdownOK, FaultOK, BetweenOK, OwnersOK, ReacquireOK,
       CandidateOK, JournalOK, Threads
  <2>4. ReleaseOK'
    BY <2>1, NoneAssumption DEF IInv, ReleaseOK, LocksOK, FaultOK, Threads
  <2>5. IngestOK'
    BY <2>1, NoneAssumption DEF IInv, IngestOK, StepsOK, Threads
  <2>6. SegmentOK'
    BY <2>1, NoneAssumption DEF IInv, SegmentOK, IngestOK, Threads
  <2> QED BY <2>1, <2>3, <2>4, <2>5, <2>6 DEF IInv
<1> QED BY <1>1, <1>2, <1>3 DEF ReacquireOpen, At

\* The ports lead to the manual candidate before it is published.
LEMMA ReacquireOpenedStep ==
    ASSUME IInv, ReacquireOpened
    PROVE  IInv'
<1>1. CASE Goto("caller", "reject") /\ UNCHANGED port
  <2>1. /\ pc["caller"] = "rea_opened" /\ pc'["caller"] = "reject"
        /\ OnlyMoves("caller")
        /\ UNCHANGED <<rec, admission, mutation, co, rt, ses, port, phys,
                       pending, ret, held, victim>>
        /\ ThreadsOK'
    BY <1>1 DEF IInv, TypeOK, ThreadsOK, ReacquireOpened, At, Goto, Threads
  <2>2. /\ TypeOK' /\ StepsOK' /\ LocksOK' /\ ShutdownOK' /\ FaultOK'
        /\ BetweenOK' /\ ReleaseOK' /\ OwnersOK' /\ IngestOK' /\ SegmentOK'
        /\ ReacquireOK' /\ CandidateOK' /\ JournalOK'
    BY <2>1, JournalKept, NoneAssumption DEF IInv, TypeOK, StepsOK, LocksOK,
       ShutdownOK, FaultOK, BetweenOK, ReleaseOK, OwnersOK, IngestOK,
       SegmentOK, ReacquireOK, CandidateOK, JournalOK, Threads
  <2> QED BY <2>1, <2>2 DEF IInv
<1>2. CASE PortsLeadTo(held["caller"]) /\ Goto("caller", "replace")
  <2>1. /\ pc["caller"] = "rea_opened" /\ pc'["caller"] = "replace"
        /\ OnlyMoves("caller")
        /\ port' = held["caller"] /\ held["caller"] \in Sources
        /\ UNCHANGED <<rec, admission, mutation, co, rt, ses, phys, pending,
                       ret, held, victim>>
        /\ ThreadsOK'
    BY <1>2 DEF IInv, TypeOK, ThreadsOK, ReacquireOpened, At, Goto,
       PortsLeadTo, BetweenOK, Threads
  <2>2. /\ TypeOK' /\ StepsOK' /\ LocksOK' /\ ShutdownOK' /\ FaultOK'
        /\ ReleaseOK' /\ OwnersOK' /\ IngestOK' /\ SegmentOK'
        /\ ReacquireOK' /\ CandidateOK' /\ JournalOK'
    BY <2>1, JournalKept, NoneAssumption DEF IInv, TypeOK, StepsOK, LocksOK,
       ShutdownOK, FaultOK, ReleaseOK, OwnersOK, IngestOK, SegmentOK,
       ReacquireOK, CandidateOK, JournalOK, BetweenOK, Threads
  <2>3. BetweenOK'
    BY <2>1, NoneAssumption DEF IInv, BetweenOK, LocksOK, FaultOK, Threads
  <2> QED BY <2>1, <2>2, <2>3 DEF IInv
<1> QED BY <1>1, <1>2 DEF ReacquireOpened, At

\* A manual candidate in doubt stops the supervisor and faults ownership.
LEMMA ReacquireUnknownStep ==
    ASSUME IInv, ReacquireUnknown
    PROVE  IInv'
<1>1. /\ pc["caller"] = "rea_unknown" /\ pc'["caller"] = "fatal"
      /\ OnlyMoves("caller")
      /\ ret'["caller"] = "rea_fail"
      /\ co'.stop = TRUE
      /\ co'.suspended = co.suspended /\ co'.attempt = co.attempt
      /\ co'.closing = co.closing /\ co'.closed = co.closed
      /\ UNCHANGED <<rec, admission, mutation, rt, ses, port, phys, pending,
                     held, victim>>
      /\ ThreadsOK'
  BY DEF IInv, TypeOK, ThreadsOK, ReacquireUnknown, At, Goto, Raise,
     Coordinators, Threads
<1>2. co' \in Coordinators
  BY Zenon DEF IInv, TypeOK, ReacquireUnknown, Raise, Coordinators
<1>3. /\ TypeOK' /\ StepsOK' /\ LocksOK' /\ ShutdownOK' /\ FaultOK'
      /\ BetweenOK' /\ ReleaseOK' /\ OwnersOK' /\ IngestOK' /\ SegmentOK'
      /\ ReacquireOK' /\ CandidateOK' /\ JournalOK'
  BY <1>1, <1>2, JournalKept, NoneAssumption DEF IInv, TypeOK, StepsOK,
     LocksOK, ShutdownOK, FaultOK, BetweenOK, ReleaseOK, OwnersOK, IngestOK,
     SegmentOK, ReacquireOK, CandidateOK, JournalOK, Threads
<1> QED BY <1>1, <1>3 DEF IInv

\* A failed reacquire leaves the reacquiring state, unless the write of its
\* event fails.
LEMMA ReacquireFailedStep ==
    ASSUME IInv, ReacquireFailed
    PROVE  IInv'
<1>1. CASE /\ rec.fault /\ rec' = [rec EXCEPT !.state = "faulted"]
           /\ UNCHANGED ses
  <2>1. /\ pc["caller"] = "rea_fail" /\ pc'["caller"] = "end"
        /\ OnlyMoves("caller")
        /\ rec.fault
        /\ UNCHANGED <<admission, mutation, co, rt, ses, port, phys, pending,
                       ret, held, victim>>
        /\ ThreadsOK'
    BY <1>1 DEF IInv, TypeOK, ThreadsOK, ReacquireFailed, At, Goto, Threads
  <2>2. rec' = [rec EXCEPT !.state = "faulted"]
    BY <1>1 DEF ReacquireFailed
  <2>3. /\ rec'.state = "faulted"
        /\ rec'.source = rec.source /\ rec'.fault = rec.fault
        /\ rec'.replaceable = rec.replaceable /\ rec'.releasing = rec.releasing
        /\ rec'.release_closed = rec.release_closed
           /\ rec'.drained = rec.drained
        /\ rec'.closing = rec.closing /\ rec'.closed = rec.closed
        /\ rec'.source_closed = rec.source_closed
    BY <2>2 DEF IInv, TypeOK, Recorders
  <2>4. rec' \in Recorders
    BY <2>2, Zenon DEF IInv, TypeOK, Recorders, RecorderStates, Threads
  <2>5. /\ TypeOK' /\ StepsOK' /\ LocksOK' /\ ShutdownOK' /\ FaultOK'
        /\ BetweenOK' /\ ReleaseOK' /\ OwnersOK' /\ IngestOK' /\ SegmentOK'
        /\ ReacquireOK' /\ CandidateOK' /\ JournalOK'
    BY <2>1, <2>3, <2>4, JournalKept, NoneAssumption DEF IInv, TypeOK,
       StepsOK, LocksOK, ShutdownOK, FaultOK, BetweenOK, ReleaseOK, OwnersOK,
       IngestOK, SegmentOK, ReacquireOK, CandidateOK, JournalOK, Threads
  <2> QED BY <2>1, <2>5 DEF IInv
<1>2. CASE /\ ~rec.fault /\ rec' = [rec EXCEPT !.state = "released"]
           /\ StoreAppends(<<"reacquire_failed">>, ses.segment)
  <2>1. /\ pc["caller"] = "rea_fail" /\ pc'["caller"] = "end"
        /\ OnlyMoves("caller")
        /\ ~rec.fault
        /\ UNCHANGED <<admission, mutation, co, rt, port, phys, pending, ret,
                       held, victim>>
        /\ ThreadsOK'
    BY <1>2 DEF IInv, TypeOK, ThreadsOK, ReacquireFailed, At, Goto, Threads
  <2>2. /\ ses' \in Sessions /\ ses'.segment = ses.segment
           /\ ses'.life = ses.life
        /\ ses'.life = "active" /\ ses.life = "active"
        /\ Last' = "reacquire_failed" /\ (Journalled
           /\ Last = "reacquire_started" => Journalled')
    BY <1>2, StoreAppendsOne, FollowsTable DEF IInv, ReacquireFailed, TypeOK,
       Sessions, Events
  <2>3. /\ rec'.state = "released"
        /\ rec'.source = rec.source /\ rec'.fault = rec.fault
        /\ rec'.replaceable = rec.replaceable /\ rec'.releasing = rec.releasing
        /\ rec'.release_closed = rec.release_closed
           /\ rec'.drained = rec.drained
        /\ rec'.closing = rec.closing /\ rec'.closed = rec.closed
        /\ rec'.source_closed = rec.source_closed
    BY <1>2 DEF IInv, TypeOK, Recorders, ReacquireFailed
  <2>4. rec' \in Recorders
    BY <1>2, Zenon DEF IInv, TypeOK, ReacquireFailed, Recorders,
       RecorderStates, Threads
  <2>5. /\ TypeOK' /\ StepsOK' /\ LocksOK' /\ ShutdownOK' /\ FaultOK'
        /\ BetweenOK' /\ ReleaseOK' /\ OwnersOK' /\ IngestOK' /\ SegmentOK'
        /\ ReacquireOK' /\ CandidateOK'
    BY <2>1, <2>2, <2>3, <2>4, NoneAssumption DEF IInv, TypeOK, StepsOK,
       LocksOK, ShutdownOK, FaultOK, BetweenOK, ReleaseOK, OwnersOK, IngestOK,
       SegmentOK, ReacquireOK, CandidateOK, Threads
  <2>6. JournalOK'
    BY <2>1, <2>2, <2>3, NoneAssumption DEF IInv, JournalOK, LocksOK,
       BetweenOK, CandidateOK, Threads
  <2> QED BY <2>1, <2>5, <2>6 DEF IInv
<1>3. CASE /\ Fault("refail") /\ UNCHANGED rec
           /\ ses' = [ses EXCEPT !.life = "failed"]
  <2>1. /\ pc["caller"] = "rea_fail" /\ pc'["caller"] = "end"
        /\ OnlyMoves("caller")
        /\ "refail" \in Hazards
        /\ UNCHANGED <<rec, admission, mutation, co, rt, port, phys, pending,
                       ret, held, victim>>
        /\ ThreadsOK'
    BY <1>3 DEF IInv, TypeOK, ThreadsOK, ReacquireFailed, At, Goto, Fault,
       Threads
  <2>2. /\ ses' \in Sessions /\ ses'.life # "active" /\ SameJournal
    BY <1>3, FailedEffect DEF IInv, ReacquireFailed
  <2>3. /\ TypeOK' /\ StepsOK' /\ LocksOK' /\ ShutdownOK' /\ FaultOK'
        /\ BetweenOK' /\ ReleaseOK' /\ OwnersOK' /\ IngestOK' /\ SegmentOK'
        /\ ReacquireOK' /\ CandidateOK' /\ JournalOK'
    BY <2>1, <2>2, NoneAssumption DEF IInv, TypeOK, StepsOK, LocksOK,
       ShutdownOK, FaultOK, BetweenOK, ReleaseOK, OwnersOK, IngestOK,
       SegmentOK, ReacquireOK, CandidateOK, JournalOK, Threads
  <2> QED BY <2>1, <2>3 DEF IInv
<1>4. CASE /\ ~rec.fault /\ rec' = [rec EXCEPT !.state = "disconnected"]
           /\ ses.life # "active" /\ UNCHANGED ses
  <2>1. /\ pc["caller"] = "rea_fail" /\ pc'["caller"] = "end"
        /\ OnlyMoves("caller")
        /\ ~rec.fault /\ ses.life # "active"
        /\ UNCHANGED <<admission, mutation, co, rt, ses, port, phys, pending,
                       ret, held, victim>>
        /\ ThreadsOK'
    BY <1>4 DEF IInv, TypeOK, ThreadsOK, ReacquireFailed, At, Goto, Threads
  <2>2. /\ rec'.state = "disconnected"
        /\ rec'.source = rec.source /\ rec'.fault = rec.fault
        /\ rec'.replaceable = rec.replaceable /\ rec'.releasing = rec.releasing
        /\ rec'.release_closed = rec.release_closed
           /\ rec'.drained = rec.drained
        /\ rec'.closing = rec.closing /\ rec'.closed = rec.closed
        /\ rec'.source_closed = rec.source_closed
    BY <1>4 DEF IInv, TypeOK, Recorders, ReacquireFailed
  <2>3. rec' \in Recorders
    BY <1>4, Zenon DEF IInv, TypeOK, ReacquireFailed, Recorders,
       RecorderStates, Threads
  <2>4. /\ TypeOK' /\ StepsOK' /\ LocksOK' /\ ShutdownOK' /\ FaultOK'
        /\ BetweenOK' /\ ReleaseOK' /\ OwnersOK' /\ IngestOK' /\ SegmentOK'
        /\ ReacquireOK' /\ CandidateOK' /\ JournalOK'
    BY <2>1, <2>2, <2>3, JournalKept, NoneAssumption DEF IInv, TypeOK,
       StepsOK, LocksOK, ShutdownOK, FaultOK, BetweenOK, ReleaseOK, OwnersOK,
       IngestOK, SegmentOK, ReacquireOK, CandidateOK, JournalOK, Threads
  <2> QED BY <2>1, <2>4 DEF IInv
<1> QED BY <1>1, <1>2, <1>3, <1>4 DEF ReacquireFailed, At

\* Automatic reconnect is on again after a reacquire.
LEMMA ResumeStep ==
    ASSUME IInv, Resume
    PROVE  IInv'
<1>1. /\ pc["caller"] = "resume" /\ pc'["caller"] = "end"
      /\ OnlyMoves("caller")
      /\ co'.suspended = FALSE
      /\ co'.stop = co.stop /\ co'.attempt = co.attempt
      /\ co'.closing = co.closing /\ co'.closed = co.closed
      /\ UNCHANGED <<rec, admission, mutation, rt, ses, port, phys, pending,
                     ret, held, victim>>
      /\ ThreadsOK'
  BY DEF IInv, TypeOK, ThreadsOK, Resume, At, Goto, Coordinators, Threads
<1>2. co' \in Coordinators
  BY Zenon DEF IInv, TypeOK, Resume, Coordinators
<1>3. /\ TypeOK' /\ StepsOK' /\ LocksOK' /\ ShutdownOK' /\ FaultOK'
      /\ BetweenOK' /\ ReleaseOK' /\ OwnersOK' /\ IngestOK' /\ SegmentOK'
      /\ ReacquireOK' /\ CandidateOK' /\ JournalOK'
  BY <1>1, <1>2, JournalKept, NoneAssumption DEF IInv, TypeOK, StepsOK,
     LocksOK, ShutdownOK, FaultOK, BetweenOK, ReleaseOK, OwnersOK, IngestOK,
     SegmentOK, ReacquireOK, CandidateOK, JournalOK, Threads
<1> QED BY <1>1, <1>3 DEF IInv

\* A manual request gives up its claim and both locks.
LEMMA EndRequestStep ==
    ASSUME IInv, EndRequest
    PROVE  IInv'
<1>1. /\ pc["caller"] = "end" /\ pc'["caller"] = "idle"
      /\ OnlyMoves("caller")
      /\ mutation' = None
      /\ admission' = (IF admission = "caller" THEN None ELSE admission)
      /\ held'["caller"] = None /\ OthersHold("caller")
      /\ co'.attempt = None
      /\ co'.stop = co.stop /\ co'.suspended = co.suspended
      /\ co'.closing = co.closing /\ co'.closed = co.closed
      /\ UNCHANGED <<rec, rt, ses, port, phys, pending, ret, victim>>
      /\ ThreadsOK'
  BY DEF IInv, TypeOK, ThreadsOK, EndRequest, At, Goto, Coordinators, Threads
<1>2. co' \in Coordinators
  BY Zenon DEF IInv, TypeOK, EndRequest, Coordinators
<1>3. held' \in [Threads -> Sources \cup {None}]
  BY <1>1, NoneAssumption DEF IInv, TypeOK, EndRequest, Recorders, Threads
<1>4. /\ TypeOK' /\ StepsOK' /\ LocksOK' /\ ShutdownOK' /\ FaultOK'
      /\ BetweenOK' /\ ReleaseOK' /\ OwnersOK' /\ IngestOK' /\ SegmentOK'
      /\ ReacquireOK' /\ CandidateOK' /\ JournalOK'
  BY <1>1, <1>2, <1>3, JournalKept, NoneAssumption DEF IInv, TypeOK, StepsOK,
     LocksOK, ShutdownOK, FaultOK, BetweenOK, ReleaseOK, OwnersOK, IngestOK,
     SegmentOK, ReacquireOK, CandidateOK, JournalOK, Threads
<1> QED BY <1>1, <1>4 DEF IInv

\* A device action has the mutation lock, and the recorder a source.
LEMMA BeginActionStep ==
    ASSUME IInv, BeginAction
    PROVE  IInv'
<1>1. /\ pc["actor"] = "idle" /\ pc'["actor"] = "attempt"
      /\ OnlyMoves("actor")
      /\ mutation = None /\ mutation' = "actor"
      /\ ~rt.closing /\ rec.state = "connected"
      /\ UNCHANGED <<rec, admission, co, rt, ses, port, phys, pending, ret,
                     held, victim>>
      /\ ThreadsOK'
  BY DEF IInv, TypeOK, ThreadsOK, BeginAction, At, Goto, Threads
<1>2. /\ TypeOK' /\ StepsOK' /\ ShutdownOK' /\ FaultOK' /\ BetweenOK'
      /\ ReleaseOK' /\ OwnersOK' /\ IngestOK' /\ SegmentOK' /\ ReacquireOK'
      /\ CandidateOK' /\ JournalOK'
  BY <1>1, JournalKept, NoneAssumption DEF IInv, TypeOK, StepsOK, ShutdownOK,
     FaultOK, BetweenOK, ReleaseOK, OwnersOK, IngestOK, SegmentOK,
     ReacquireOK, CandidateOK, JournalOK, Threads
<1>3. LocksOK'
  BY <1>1, NoneAssumption DEF IInv, LocksOK, BetweenOK, Threads
<1> QED BY <1>1, <1>2, <1>3 DEF IInv

\* A device action is recorded; a failing write faults ownership under the
\* admission lock.
LEMMA AdmitActionStep ==
    ASSUME NEW next \in {"send", "act_end", "bad_input"},
           NEW back \in {"act_end"},
           pc["actor"] \in {"attempt", "result", "result_bad"},
           next = "bad_input"
             => pc["actor"] = "result_bad", IInv, AdmitAction(next, back)
    PROVE  IInv'
<1>1. CASE /\ Continue("actor", next) \/ Continue("actor", back)
           /\ UNCHANGED <<ses, admission>>
  <2>1. /\ OnlyMoves("actor") /\ pc'["actor"] \in {next, back}
        /\ UNCHANGED <<rec, admission, mutation, co, rt, ses, port, phys,
                       pending, ret, held, victim>>
        /\ ThreadsOK'
    BY <1>1 DEF IInv, TypeOK, ThreadsOK, AdmitAction, At, Goto, Continue,
       Threads
  <2>2. /\ TypeOK' /\ StepsOK' /\ LocksOK' /\ ShutdownOK' /\ FaultOK'
        /\ BetweenOK' /\ ReleaseOK' /\ OwnersOK' /\ IngestOK' /\ SegmentOK'
        /\ ReacquireOK' /\ CandidateOK' /\ JournalOK'
    BY <2>1, JournalKept, NoneAssumption DEF IInv, TypeOK, StepsOK, LocksOK,
       ShutdownOK, FaultOK, BetweenOK, ReleaseOK, OwnersOK, IngestOK,
       SegmentOK, ReacquireOK, CandidateOK, JournalOK, Threads
  <2> QED BY <2>1, <2>2 DEF IInv
<1>2. CASE /\ ses' = [ses EXCEPT !.life = "failed"]
           /\ admission' = "actor" /\ Raise("actor", back)
  <2>1. /\ OnlyMoves("actor") /\ pc'["actor"] = "fatal" /\ ret'["actor"] = back
        /\ admission = None /\ admission' = "actor"
        /\ UNCHANGED <<rec, mutation, co, rt, port, phys, pending, held,
                       victim>>
        /\ ThreadsOK'
    BY <1>2 DEF IInv, TypeOK, ThreadsOK, AdmitAction, At, Goto, Raise, Threads
  <2>2. /\ ses' \in Sessions /\ ses'.life # "active" /\ SameJournal
    BY <1>2, FailedEffect DEF IInv, AdmitAction
  <2>3. /\ TypeOK' /\ StepsOK' /\ LocksOK' /\ ShutdownOK' /\ FaultOK'
        /\ BetweenOK' /\ ReleaseOK' /\ OwnersOK' /\ IngestOK' /\ SegmentOK'
        /\ ReacquireOK' /\ CandidateOK' /\ JournalOK'
    BY <2>1, <2>2, NoneAssumption DEF IInv, TypeOK, StepsOK, LocksOK,
       ShutdownOK, FaultOK, BetweenOK, ReleaseOK, OwnersOK, IngestOK,
       SegmentOK, ReacquireOK, CandidateOK, JournalOK, Threads
  <2> QED BY <2>1, <2>3 DEF IInv
<1> QED BY <1>1, <1>2 DEF AdmitAction, At

\* Only the Enhanced transport answers with malformed input.
LEMMA ActionSendStep ==
    ASSUME IInv, ActionSend
    PROVE  IInv'
<1>1. /\ pc["actor"] = "send" /\ pc'["actor"] \in {"result", "result_bad"}
      /\ OnlyMoves("actor")
      /\ pc'["actor"] = "result_bad" => Enhanced
      /\ UNCHANGED <<rec, admission, mutation, co, rt, ses, port, phys,
                     pending, ret, held, victim>>
      /\ ThreadsOK'
  BY DEF IInv, TypeOK, ThreadsOK, ActionSend, At, Goto, Threads
<1>2. /\ TypeOK' /\ StepsOK' /\ LocksOK' /\ ShutdownOK' /\ FaultOK'
      /\ BetweenOK' /\ ReleaseOK' /\ OwnersOK' /\ IngestOK' /\ SegmentOK'
      /\ ReacquireOK' /\ CandidateOK' /\ JournalOK'
  BY <1>1, JournalKept, NoneAssumption DEF IInv, TypeOK, StepsOK, LocksOK,
     ShutdownOK, FaultOK, BetweenOK, ReleaseOK, OwnersOK, IngestOK, SegmentOK,
     ReacquireOK, CandidateOK, JournalOK, Threads
<1> QED BY <1>1, <1>2 DEF IInv

\* Malformed input faults ownership.
LEMMA BackendInputFailedStep ==
    ASSUME IInv, BackendInputFailed
    PROVE  IInv'
<1>1. /\ pc["actor"] = "bad_input" /\ pc'["actor"] = "fatal"
      /\ OnlyMoves("actor")
      /\ ret'["actor"] = "act_end"
      /\ UNCHANGED <<rec, admission, mutation, co, rt, ses, port, phys,
                     pending, held, victim>>
      /\ ThreadsOK'
  BY DEF IInv, TypeOK, ThreadsOK, BackendInputFailed, At, Goto, Raise, Threads
<1>2. /\ TypeOK' /\ StepsOK' /\ LocksOK' /\ ShutdownOK' /\ FaultOK'
      /\ BetweenOK' /\ ReleaseOK' /\ OwnersOK' /\ IngestOK' /\ SegmentOK'
      /\ ReacquireOK' /\ CandidateOK' /\ JournalOK'
  BY <1>1, JournalKept, NoneAssumption DEF IInv, TypeOK, StepsOK, LocksOK,
     ShutdownOK, FaultOK, BetweenOK, ReleaseOK, OwnersOK, IngestOK, SegmentOK,
     ReacquireOK, CandidateOK, JournalOK, Threads
<1> QED BY <1>1, <1>2 DEF IInv

\* A device action gives up its locks.
LEMMA EndActionStep ==
    ASSUME IInv, EndAction
    PROVE  IInv'
<1>1. /\ pc["actor"] = "act_end" /\ pc'["actor"] = "idle"
      /\ OnlyMoves("actor")
      /\ mutation' = None
      /\ admission' = (IF admission = "actor" THEN None ELSE admission)
      /\ UNCHANGED <<rec, co, rt, ses, port, phys, pending, ret, held, victim>>
      /\ ThreadsOK'
  BY DEF IInv, TypeOK, ThreadsOK, EndAction, At, Goto, Threads
<1>2. /\ TypeOK' /\ StepsOK' /\ LocksOK' /\ ShutdownOK' /\ FaultOK'
      /\ BetweenOK' /\ ReleaseOK' /\ OwnersOK' /\ IngestOK' /\ SegmentOK'
      /\ ReacquireOK' /\ CandidateOK' /\ JournalOK'
  BY <1>1, JournalKept, NoneAssumption DEF IInv, TypeOK, StepsOK, LocksOK,
     ShutdownOK, FaultOK, BetweenOK, ReleaseOK, OwnersOK, IngestOK, SegmentOK,
     ReacquireOK, CandidateOK, JournalOK, Threads
<1> QED BY <1>1, <1>2 DEF IInv

\* The first write of a Monitor may fail the session and nothing else.
LEMMA StartMonitorStep ==
    ASSUME IInv, StartMonitor
    PROVE  IInv'
<1>1. CASE ses' = [ses EXCEPT !.life = "failed"]
  <2>1. /\ UNCHANGED pc
        /\ UNCHANGED <<rec, admission, mutation, co, rt, port, phys, pending,
                       ret, held, victim>>
        /\ ThreadsOK'
    BY <1>1 DEF IInv, TypeOK, ThreadsOK, StartMonitor, At, Goto, threads,
       Threads
  <2>2. /\ ses' \in Sessions /\ ses'.life # "active" /\ SameJournal
    BY <1>1, FailedEffect DEF IInv, StartMonitor
  <2>3. /\ TypeOK' /\ StepsOK' /\ LocksOK' /\ ShutdownOK' /\ FaultOK'
        /\ BetweenOK' /\ ReleaseOK' /\ OwnersOK' /\ IngestOK' /\ SegmentOK'
        /\ ReacquireOK' /\ CandidateOK' /\ JournalOK'
    BY <2>1, <2>2, NoneAssumption DEF IInv, TypeOK, StepsOK, LocksOK,
       ShutdownOK, FaultOK, BetweenOK, ReleaseOK, OwnersOK, IngestOK,
       SegmentOK, ReacquireOK, CandidateOK, JournalOK, Threads
  <2> QED BY <2>1, <2>3 DEF IInv
<1>2. CASE UNCHANGED ses
  <2>1. /\ UNCHANGED pc
        /\ UNCHANGED <<rec, admission, mutation, co, rt, ses, port, phys,
                       pending, ret, held, victim>>
        /\ ThreadsOK'
    BY <1>2 DEF IInv, TypeOK, ThreadsOK, StartMonitor, At, Goto, threads,
       Threads
  <2>2. /\ TypeOK' /\ StepsOK' /\ LocksOK' /\ ShutdownOK' /\ FaultOK'
        /\ BetweenOK' /\ ReleaseOK' /\ OwnersOK' /\ IngestOK' /\ SegmentOK'
        /\ ReacquireOK' /\ CandidateOK' /\ JournalOK'
    BY <2>1, JournalKept, NoneAssumption DEF IInv, TypeOK, StepsOK, LocksOK,
       ShutdownOK, FaultOK, BetweenOK, ReleaseOK, OwnersOK, IngestOK,
       SegmentOK, ReacquireOK, CandidateOK, JournalOK, Threads
  <2> QED BY <2>1, <2>2 DEF IInv
<1> QED BY <1>1, <1>2 DEF StartMonitor, At

\* Shutdown begins.
LEMMA CloseRuntimeStep ==
    ASSUME IInv, CloseRuntime
    PROVE  IInv'
<1>1. /\ pc["closer"] = "idle" /\ pc'["closer"] = "cancel"
      /\ OnlyMoves("closer")
      /\ rt'.closing = TRUE /\ rt'.closed = rt.closed
      /\ UNCHANGED <<rec, admission, mutation, co, ses, port, phys, pending,
                     ret, held, victim>>
      /\ ThreadsOK'
  BY DEF IInv, TypeOK, ThreadsOK, CloseRuntime, At, Goto, Threads
<1>2. rt' \in [closing : BOOLEAN, closed : BOOLEAN]
  BY Zenon DEF IInv, TypeOK, CloseRuntime
<1>3. /\ TypeOK' /\ StepsOK' /\ LocksOK' /\ ShutdownOK' /\ FaultOK'
      /\ BetweenOK' /\ ReleaseOK' /\ OwnersOK' /\ IngestOK' /\ SegmentOK'
      /\ ReacquireOK' /\ CandidateOK' /\ JournalOK'
  BY <1>1, <1>2, JournalKept, NoneAssumption DEF IInv, TypeOK, StepsOK,
     LocksOK, ShutdownOK, FaultOK, BetweenOK, ReleaseOK, OwnersOK, IngestOK,
     SegmentOK, ReacquireOK, CandidateOK, JournalOK, Threads
<1> QED BY <1>1, <1>3 DEF IInv

\* Shutdown stops the supervisor.
LEMMA CancelPendingStep ==
    ASSUME IInv, CancelPending
    PROVE  IInv'
<1>1. /\ pc["closer"] = "cancel" /\ pc'["closer"] = "lock"
      /\ OnlyMoves("closer")
      /\ co'.stop = TRUE
      /\ co'.suspended = co.suspended /\ co'.attempt = co.attempt
      /\ co'.closing = co.closing /\ co'.closed = co.closed
      /\ UNCHANGED <<rec, admission, mutation, rt, ses, port, phys, pending,
                     ret, held, victim>>
      /\ ThreadsOK'
  BY DEF IInv, TypeOK, ThreadsOK, CancelPending, At, Goto, Coordinators,
     Threads
<1>2. co' \in Coordinators
  BY Zenon DEF IInv, TypeOK, CancelPending, Coordinators
<1>3. /\ TypeOK' /\ StepsOK' /\ LocksOK' /\ ShutdownOK' /\ FaultOK'
      /\ BetweenOK' /\ ReleaseOK' /\ OwnersOK' /\ IngestOK' /\ SegmentOK'
      /\ ReacquireOK' /\ CandidateOK' /\ JournalOK'
  BY <1>1, <1>2, JournalKept, NoneAssumption DEF IInv, TypeOK, StepsOK,
     LocksOK, ShutdownOK, FaultOK, BetweenOK, ReleaseOK, OwnersOK, IngestOK,
     SegmentOK, ReacquireOK, CandidateOK, JournalOK, Threads
<1> QED BY <1>1, <1>3 DEF IInv

\* Shutdown takes the mutation lock after the requests that hold it.
LEMMA CloseCoordinatorStep ==
    ASSUME IInv, CloseCoordinator
    PROVE  IInv'
<1>1. /\ pc["closer"] = "lock" /\ pc'["closer"] = "join_worker"
      /\ OnlyMoves("closer")
      /\ mutation = None /\ mutation' = "closer"
      /\ co'.closing = TRUE
      /\ co'.stop = co.stop /\ co'.suspended = co.suspended
      /\ co'.attempt = co.attempt /\ co'.closed = co.closed
      /\ UNCHANGED <<rec, admission, rt, ses, port, phys, pending, ret, held,
                     victim>>
      /\ ThreadsOK'
  BY DEF IInv, TypeOK, ThreadsOK, CloseCoordinator, At, Goto, Coordinators,
     Threads
<1>2. co' \in Coordinators
  BY Zenon DEF IInv, TypeOK, CloseCoordinator, Coordinators
<1>3. /\ TypeOK' /\ StepsOK' /\ LocksOK' /\ FaultOK' /\ BetweenOK'
      /\ ReleaseOK' /\ OwnersOK' /\ IngestOK' /\ SegmentOK' /\ ReacquireOK'
      /\ CandidateOK' /\ JournalOK'
  BY <1>1, <1>2, JournalKept, NoneAssumption DEF IInv, TypeOK, StepsOK,
     LocksOK, FaultOK, BetweenOK, ReleaseOK, OwnersOK, IngestOK, SegmentOK,
     ReacquireOK, CandidateOK, JournalOK, Threads
<1>4. ShutdownOK'
  BY <1>1, NoneAssumption DEF IInv, ShutdownOK, LocksOK, Threads
<1> QED BY <1>1, <1>3, <1>4 DEF IInv

\* Shutdown waits for the worker.
LEMMA JoinWorkerStep ==
    ASSUME IInv, JoinWorker
    PROVE  IInv'
<1>1. /\ pc["closer"] = "join_worker" /\ pc'["closer"] = "rec_close"
      /\ OnlyMoves("closer")
      /\ pc["worker"] = "done"
      /\ co'.closed = TRUE
      /\ co'.stop = co.stop /\ co'.suspended = co.suspended
      /\ co'.attempt = co.attempt /\ co'.closing = co.closing
      /\ UNCHANGED <<rec, admission, mutation, rt, ses, port, phys, pending,
                     ret, held, victim>>
      /\ ThreadsOK'
  BY DEF IInv, TypeOK, ThreadsOK, JoinWorker, At, Goto, Coordinators, Threads
<1>2. co' \in Coordinators
  BY Zenon DEF IInv, TypeOK, JoinWorker, Coordinators
<1>3. /\ TypeOK' /\ StepsOK' /\ LocksOK' /\ ShutdownOK' /\ FaultOK'
      /\ BetweenOK' /\ ReleaseOK' /\ OwnersOK' /\ IngestOK' /\ SegmentOK'
      /\ ReacquireOK' /\ CandidateOK' /\ JournalOK'
  BY <1>1, <1>2, JournalKept, NoneAssumption DEF IInv, TypeOK, StepsOK,
     LocksOK, ShutdownOK, FaultOK, BetweenOK, ReleaseOK, OwnersOK, IngestOK,
     SegmentOK, ReacquireOK, CandidateOK, JournalOK, Threads
<1> QED BY <1>1, <1>3 DEF IInv

\* The recorder refuses new work and its source is taken to be closed.
LEMMA CloseRecorderStep ==
    ASSUME IInv, CloseRecorder
    PROVE  IInv'
<1>1. /\ pc["closer"] = "rec_close" /\ OnlyMoves("closer")
      /\ pc'["closer"] = IF rec.source = None THEN "join_ingest"
                         ELSE "close_source"
      /\ held'["closer"] = rec.source /\ OthersHold("closer")
      /\ UNCHANGED <<admission, mutation, co, rt, ses, port, phys, pending,
                     ret, victim>>
      /\ ThreadsOK'
  BY DEF IInv, TypeOK, ThreadsOK, CloseRecorder, At, Goto, Threads
<1>2. /\ rec'.closing = TRUE /\ (rec'.source_closed <=> rec.source = None)
      /\ rec'.state = rec.state /\ rec'.source = rec.source
      /\ rec'.fault = rec.fault /\ rec'.replaceable = rec.replaceable
      /\ rec'.releasing = rec.releasing
         /\ rec'.release_closed = rec.release_closed
      /\ rec'.drained = rec.drained /\ rec'.closed = rec.closed
  BY Zenon DEF IInv, TypeOK, Recorders, CloseRecorder
<1>3. rec' \in Recorders
  BY Zenon DEF IInv, TypeOK, CloseRecorder, Recorders, RecorderStates, Threads
<1>4. held' \in [Threads -> Sources \cup {None}]
  BY <1>1, <1>2, NoneAssumption DEF IInv, TypeOK, CloseRecorder, Recorders,
     Threads
<1>5. /\ TypeOK' /\ StepsOK' /\ LocksOK' /\ FaultOK' /\ BetweenOK'
      /\ ReleaseOK' /\ IngestOK' /\ SegmentOK' /\ ReacquireOK'
      /\ CandidateOK' /\ JournalOK'
  BY <1>1, <1>2, <1>3, <1>4, JournalKept, NoneAssumption DEF IInv, TypeOK,
     StepsOK, LocksOK, FaultOK, BetweenOK, ReleaseOK, IngestOK, SegmentOK,
     ReacquireOK, CandidateOK, JournalOK, Threads
<1>6. ShutdownOK'
  BY <1>1, <1>2, NoneAssumption DEF IInv, ShutdownOK, LocksOK, FaultOK,
     Threads
<1>7. OwnersOK'
  BY <1>1, <1>2, NoneAssumption DEF IInv, OwnersOK, BetweenOK, TypeOK,
     Recorders
<1> QED BY <1>1, <1>5, <1>6, <1>7 DEF IInv

\* Shutdown closes the source, or knows it is stuck.
LEMMA CloseSourceStep ==
    ASSUME IInv, CloseSource
    PROVE  IInv'
<1>1. /\ pc["closer"] = "close_source" /\ pc'["closer"] = "source_closed"
      /\ OnlyMoves("closer")
      /\ held["closer"] \in Sources /\ OthersKeep(held["closer"])
      /\ phys[held["closer"]] = "closed" => phys'[held["closer"]] = "closed"
      /\ phys'[held["closer"]] \in {"closed", "stuck"}
      /\ UNCHANGED <<rec, admission, mutation, co, rt, ses, port, pending, ret,
                     held, victim>>
      /\ rec.source \in Sources \cup {None} /\ victim \in Sources \cup {None}
      /\ held \in [Threads -> Sources \cup {None}]
      /\ ThreadsOK'
  BY CloseEffect DEF IInv, TypeOK, ThreadsOK, CloseSource, At, Goto, NoFault,
     OwnersOK, Recorders, Threads
<1>2. phys' \in [Sources -> Transports]
  BY <1>1, NoneAssumption DEF IInv, TypeOK, CloseSource, NoFault, Closes,
     CloseRaises, Fault, OwnersOK, Recorders, Transports
<1>3. /\ TypeOK' /\ StepsOK' /\ LocksOK' /\ ShutdownOK' /\ FaultOK'
      /\ BetweenOK' /\ ReacquireOK' /\ CandidateOK' /\ JournalOK'
  BY <1>1, <1>2, JournalKept, NoneAssumption DEF IInv, TypeOK, StepsOK,
     LocksOK, ShutdownOK, FaultOK, BetweenOK, ReacquireOK, CandidateOK,
     JournalOK, Threads
<1>4. ReleaseOK'
  BY <1>1, NoneAssumption DEF IInv, ReleaseOK, LocksOK, FaultOK, Threads
<1>5. OwnersOK'
  BY <1>1, NoneAssumption DEF IInv, OwnersOK, ShutdownOK, Threads
<1>6. IngestOK'
  BY <1>1, NoneAssumption DEF IInv, IngestOK, StepsOK, Threads
<1>7. SegmentOK'
  BY <1>1, NoneAssumption DEF IInv, SegmentOK, IngestOK, Threads
<1> QED BY <1>1, <1>3, <1>4, <1>5, <1>6, <1>7 DEF IInv

\* Ingest may drain the closed source to its end.
LEMMA SourceClosedStep ==
    ASSUME IInv, SourceClosed
    PROVE  IInv'
<1>1. /\ pc["closer"] = "source_closed" /\ pc'["closer"] = "join_ingest"
      /\ OnlyMoves("closer")
      /\ UNCHANGED <<admission, mutation, co, rt, ses, port, phys, pending,
                     ret, held, victim>>
      /\ ThreadsOK'
  BY DEF IInv, TypeOK, ThreadsOK, SourceClosed, At, Goto, Threads
<1>2. /\ rec'.source_closed = TRUE
      /\ rec'.state = rec.state /\ rec'.source = rec.source
      /\ rec'.fault = rec.fault /\ rec'.replaceable = rec.replaceable
      /\ rec'.releasing = rec.releasing
         /\ rec'.release_closed = rec.release_closed
      /\ rec'.drained = rec.drained /\ rec'.closing = rec.closing
      /\ rec'.closed = rec.closed
  BY DEF IInv, TypeOK, Recorders, SourceClosed
<1>3. rec' \in Recorders
  BY Zenon DEF IInv, TypeOK, SourceClosed, Recorders, RecorderStates, Threads
<1>4. /\ TypeOK' /\ StepsOK' /\ LocksOK' /\ ShutdownOK' /\ FaultOK'
      /\ BetweenOK' /\ ReleaseOK' /\ OwnersOK' /\ IngestOK' /\ SegmentOK'
      /\ ReacquireOK' /\ CandidateOK' /\ JournalOK'
  BY <1>1, <1>2, <1>3, JournalKept, NoneAssumption DEF IInv, TypeOK, StepsOK,
     LocksOK, ShutdownOK, FaultOK, BetweenOK, ReleaseOK, OwnersOK, IngestOK,
     SegmentOK, ReacquireOK, CandidateOK, JournalOK, Threads
<1> QED BY <1>1, <1>4 DEF IInv

\* An active session ends after the ingest thread.
LEMMA JoinIngestStep ==
    ASSUME IInv, JoinIngest
    PROVE  IInv'
<1>1. CASE ses' = [ses EXCEPT !.life = "completed", !.segment = "closed"]
  <2>1. /\ pc["closer"] = "join_ingest" /\ pc'["closer"] = "closed"
        /\ OnlyMoves("closer")
        /\ pc["ingest"] = "done"
        /\ UNCHANGED <<rec, admission, mutation, co, rt, port, phys, pending,
                       ret, held, victim>>
        /\ ThreadsOK'
    BY <1>1 DEF IInv, TypeOK, ThreadsOK, JoinIngest, At, Goto, Threads
  <2>2. /\ ses' \in Sessions /\ ses'.life # "active" /\ SameJournal
    BY <1>1, EndEffect DEF IInv, JoinIngest
  <2>3. /\ TypeOK' /\ StepsOK' /\ LocksOK' /\ ShutdownOK' /\ FaultOK'
        /\ BetweenOK' /\ ReleaseOK' /\ OwnersOK' /\ IngestOK' /\ SegmentOK'
        /\ ReacquireOK' /\ CandidateOK' /\ JournalOK'
    BY <2>1, <2>2, NoneAssumption DEF IInv, TypeOK, StepsOK, LocksOK,
       ShutdownOK, FaultOK, BetweenOK, ReleaseOK, OwnersOK, IngestOK,
       SegmentOK, ReacquireOK, CandidateOK, JournalOK, Threads
  <2> QED BY <2>1, <2>3 DEF IInv
<1>2. CASE UNCHANGED ses
  <2>1. /\ pc["closer"] = "join_ingest" /\ pc'["closer"] = "closed"
        /\ OnlyMoves("closer")
        /\ pc["ingest"] = "done"
        /\ UNCHANGED <<rec, admission, mutation, co, rt, ses, port, phys,
                       pending, ret, held, victim>>
        /\ ThreadsOK'
    BY <1>2 DEF IInv, TypeOK, ThreadsOK, JoinIngest, At, Goto, Threads
  <2>2. /\ TypeOK' /\ StepsOK' /\ LocksOK' /\ ShutdownOK' /\ FaultOK'
        /\ BetweenOK' /\ ReleaseOK' /\ OwnersOK' /\ IngestOK' /\ SegmentOK'
        /\ ReacquireOK' /\ CandidateOK' /\ JournalOK'
    BY <2>1, JournalKept, NoneAssumption DEF IInv, TypeOK, StepsOK, LocksOK,
       ShutdownOK, FaultOK, BetweenOK, ReleaseOK, OwnersOK, IngestOK,
       SegmentOK, ReacquireOK, CandidateOK, JournalOK, Threads
  <2> QED BY <2>1, <2>2 DEF IInv
<1> QED BY <1>1, <1>2 DEF JoinIngest, At

\* Shutdown ends with no source and every thread done.
LEMMA RuntimeClosedStep ==
    ASSUME IInv, RuntimeClosed
    PROVE  IInv'
<1>1. /\ pc["closer"] = "closed" /\ pc'["closer"] = "done"
      /\ OnlyMoves("closer")
      /\ mutation' = None
      /\ rt'.closed = TRUE /\ rt'.closing = rt.closing
      /\ UNCHANGED <<admission, co, ses, port, phys, pending, ret, held,
                     victim>>
      /\ ThreadsOK'
  BY DEF IInv, TypeOK, ThreadsOK, RuntimeClosed, At, Goto, Threads
<1>2. /\ rec'.source = None /\ rec'.state = "closed" /\ rec'.closed = TRUE
      /\ rec'.fault = rec.fault /\ rec'.replaceable = rec.replaceable
      /\ rec'.releasing = rec.releasing
         /\ rec'.release_closed = rec.release_closed
      /\ rec'.drained = rec.drained /\ rec'.closing = rec.closing
      /\ rec'.source_closed = rec.source_closed
  BY DEF IInv, TypeOK, Recorders, RuntimeClosed
<1>3. rec' \in Recorders
  BY Zenon DEF IInv, TypeOK, RuntimeClosed, Recorders, RecorderStates, Threads
<1>4. rt' \in [closing : BOOLEAN, closed : BOOLEAN]
  BY Zenon DEF IInv, TypeOK, RuntimeClosed
<1>5. /\ TypeOK' /\ StepsOK' /\ LocksOK' /\ ShutdownOK' /\ FaultOK'
      /\ BetweenOK' /\ SegmentOK' /\ ReacquireOK' /\ CandidateOK'
      /\ JournalOK'
  BY <1>1, <1>2, <1>3, <1>4, JournalKept, NoneAssumption DEF IInv, TypeOK,
     StepsOK, LocksOK, ShutdownOK, FaultOK, BetweenOK, SegmentOK, ReacquireOK,
     CandidateOK, JournalOK, Threads
<1>6. ReleaseOK'
  BY <1>1, <1>2, NoneAssumption DEF IInv, ReleaseOK, LocksOK, FaultOK, Threads
<1>7. OwnersOK'
  BY <1>1, <1>2, NoneAssumption DEF IInv, OwnersOK, ShutdownOK
<1>8. IngestOK'
  BY <1>1, <1>2, NoneAssumption DEF IInv, IngestOK, ShutdownOK
<1> QED BY <1>1, <1>5, <1>6, <1>7, <1>8 DEF IInv

-----------------------------------------------------------------------------
\* The invariant holds.

\* The recorder starts connected to the first source, every thread at its
\* beginning.
LEMMA InitIInv ==
    ASSUME Init
    PROVE  IInv
<1>1. /\ pc["ingest"] = "top" /\ pc["worker"] = "wait"
      /\ pc["caller"] = "idle" /\ pc["actor"] = "idle" /\ pc["closer"] = "idle"
      /\ DOMAIN pc = Threads /\ DOMAIN ret = Threads
  BY DEF Init, Threads
<1>2. /\ held \in [Threads -> Sources \cup {None}] /\ victim = None
      /\ rec.source = 1 /\ port = 1 /\ 1 \in Sources
      /\ phys[1] = "open" /\ \A s \in Sources \ {1} : phys[s] = "unopened"
      /\ phys \in [Sources -> Transports] /\ pending \in [Sources -> Nat]
  BY SourcesAssumption DEF Init, Transports
<1>3. /\ rec.state = "connected" /\ rec.source = 1 /\ ~rec.fault
      /\ ~rec.releasing /\ ~rec.closing /\ ~rec.closed /\ ~rec.source_closed
      /\ ~rec.drained
      /\ co.attempt = None /\ ~co.stop /\ ~rt.closing /\ ~rt.closed
      /\ admission = None /\ mutation = None
  BY DEF Init, NewCoordinator
<1>4. /\ ses.life = "active" /\ ses.segment = "open"
      /\ ses.journal = <<"connected">>
  BY DEF Init
<1>5. rec \in Recorders /\ co \in Coordinators
  BY SourcesAssumption
     DEF Init, Recorders, RecorderStates, NewCoordinator, Coordinators
<1>6. ses \in Sessions /\ rt \in [closing : BOOLEAN, closed : BOOLEAN]
  <2>1. <<"connected">> \in Seq(Events)
    BY DEF Events
  <2> QED BY <2>1 DEF Init, Sessions
<1>7. TypeOK /\ ThreadsOK
  BY <1>1, <1>2, <1>3, <1>5, <1>6 DEF TypeOK, ThreadsOK
<1>8. StepsOK /\ ShutdownOK /\ FaultOK /\ BetweenOK /\ ReleaseOK
  BY <1>1, <1>2, <1>3, NoneAssumption
     DEF StepsOK, ShutdownOK, FaultOK, FaultAt, BetweenOK, BetweenAt,
         ReleaseOK
<1>9. LocksOK
  BY <1>1, <1>3, NoneAssumption DEF LocksOK, Threads
<1>10. OwnersOK /\ IngestOK /\ SegmentOK
  BY <1>1, <1>2, <1>3, <1>4, NoneAssumption
     DEF OwnersOK, Owned, IngestOK, SegmentOK, Exhausted
<1>11. ReacquireOK /\ CandidateOK
  BY <1>1, <1>3 DEF ReacquireOK, CandidateOK, Fresh
<1>12. Last = "connected" /\ Journalled
  BY <1>4 DEF Last, Journalled, JournalIsAPath
<1>13. JournalOK
  BY <1>1, <1>3, <1>12 DEF JournalOK, LastOK
<1> QED BY <1>7, <1>8, <1>9, <1>10, <1>11, <1>13 DEF IInv

\* A step of nobody changes nothing.
LEMMA StutterIInv ==
    ASSUME IInv, UNCHANGED vars
    PROVE  IInv'
<1>1. UNCHANGED <<rec, admission, mutation, co, rt, ses, port, phys, pending,
                  pc, ret, held, victim>>
  BY DEF vars, threads
<1>2. SameJournal
  BY <1>1, JournalKept
<1>3. TypeOK' /\ ThreadsOK' /\ StepsOK' /\ LocksOK' /\ ShutdownOK'
  BY <1>1 DEF IInv, TypeOK, ThreadsOK, StepsOK, LocksOK, ShutdownOK
<1>4. FaultOK' /\ BetweenOK' /\ ReleaseOK'
  BY <1>1 DEF IInv, FaultOK, FaultAt, BetweenOK, BetweenAt, ReleaseOK
<1>5. OwnersOK' /\ IngestOK' /\ SegmentOK'
  BY <1>1 DEF IInv, OwnersOK, Owned, IngestOK, SegmentOK, Exhausted
<1>6. ReacquireOK' /\ CandidateOK' /\ JournalOK'
  BY <1>1, <1>2
     DEF IInv, ReacquireOK, CandidateOK, Fresh, JournalOK, LastOK, SameJournal
<1> QED BY <1>3, <1>4, <1>5, <1>6 DEF IInv

\* _record_fatal, from whatever thread, preserves the invariant.
LEMMA FatalStep ==
    ASSUME NEW t \in {"ingest", "worker", "caller", "actor"}, IInv, Fatal(t)
    PROVE  IInv'
BY FatalIgnoredStep, FatalMarkStep, FatalCloseStep, FatalEndStep DEF Fatal

\* The ingest thread preserves the invariant.
LEMMA IngestStep ==
    ASSUME IInv, Ingest
    PROVE  IInv'
<1>1. CASE Fatal("ingest")
  BY <1>1, FatalStep
<1>2. CASE ~Fatal("ingest")
  BY <1>2, IngestStopsStep, IngestTakesStep, ReadEventStep, ReadTimesOutStep,
     FinishReleaseDrainStep, FinishShutdownDrainStep, ReadFailedStep,
     IngestAdmitsStep, RecordDisconnectStep, PublishDisconnectStep,
     DisconnectDetachedStep DEF Ingest
<1> QED BY <1>1, <1>2

\* Publication of a candidate preserves it, by the worker and by the caller.
LEMMA ReplacementStep ==
    ASSUME NEW t \in {"worker", "caller"}, IInv, Replacement(t)
    PROVE  IInv'
BY ReplaceSourceStep, AppendSegmentStep, InitializeControlsStep,
   ApplyControlsStep, ConfirmReplacementStep, ConnectSourceStep,
   ReplacementFailedStep, RejectStep DEF Replacement

\* The reconnect worker preserves it.
LEMMA WorkerStep ==
    ASSUME IInv, Worker
    PROVE  IInv'
<1>1. CASE Fatal("worker")
  BY <1>1, FatalStep
<1>2. CASE Replacement("worker")
  BY <1>2, ReplacementStep
<1>3. CASE ~Fatal("worker") /\ ~Replacement("worker")
  BY <1>3, WorkerLeavesStep, SeesDisconnectStep, ClaimAttemptStep, DetachStep,
     CloseLostStep, DetachedStep, RetryIdleStep, WorkerPublishesStep,
     ReconnectTimesOutStep, PublishTimeoutStep, WorkerFailedStep, UnclaimStep
     DEF Worker
<1> QED BY <1>1, <1>2, <1>3

\* Release and reacquire preserve it.
LEMMA CallerStep ==
    ASSUME IInv, Caller
    PROVE  IInv'
<1>1. CASE Fatal("caller")
  BY <1>1, FatalStep
<1>2. CASE Replacement("caller")
  BY <1>2, ReplacementStep
<1>3. CASE ~Fatal("caller") /\ ~Replacement("caller")
  BY <1>3, ReleaseIntentStep, ReleaseCloseStep, ReleaseClosedStep,
     ReleaseDrainedStep, ReleaseFinalStep, ReleaseErrorStep,
     ReacquireBeginStep, ReacquireOpenStep, ReacquireOpenedStep,
     ReacquireUnknownStep, ReacquireFailedStep, ResumeStep, EndRequestStep
     DEF Caller
<1> QED BY <1>1, <1>2, <1>3

\* Device actions preserve it.
LEMMA ActorStep ==
    ASSUME IInv, Actor
    PROVE  IInv'
<1>1. CASE Fatal("actor")
  BY <1>1, FatalStep
<1>2. CASE ActionAttempt
  BY <1>2, AdmitActionStep DEF ActionAttempt, At
<1>3. CASE ActionResult
  BY <1>3, AdmitActionStep DEF ActionResult, At
<1>4. CASE ActionSend \/ BackendInputFailed \/ EndAction
  BY <1>4, ActionSendStep, BackendInputFailedStep, EndActionStep
<1> QED BY <1>1, <1>2, <1>3, <1>4 DEF Actor

\* Shutdown preserves it.
LEMMA CloserStep ==
    ASSUME IInv, Closer
    PROVE  IInv'
BY CancelPendingStep, CloseCoordinatorStep, JoinWorkerStep, CloseRecorderStep,
   CloseSourceStep, SourceClosedStep, JoinIngestStep, RuntimeClosedStep
   DEF Closer

\* The invariant is inductive.
LEMMA NextIInv ==
    ASSUME IInv, [Next]_vars
    PROVE  IInv'
<1>1. CASE Ingest \/ Worker \/ Caller \/ Actor \/ Closer
  BY <1>1, IngestStep, WorkerStep, CallerStep, ActorStep, CloserStep
<1>2. CASE BeginRelease \/ BeginReacquire \/ BeginAction \/ StartMonitor
           \/ CloseRuntime
  BY <1>2, BeginReleaseStep, BeginReacquireStep, BeginActionStep,
     StartMonitorStep, CloseRuntimeStep
<1>3. CASE \E s \in Sources : Receive(s) \/ Unplug(s)
  BY <1>3, ReceiveStep, UnplugStep
<1>4. CASE Closed \/ UNCHANGED vars
  BY <1>4, StutterIInv DEF Closed
<1> QED BY <1>1, <1>2, <1>3, <1>4 DEF Next

\* The invariant holds in every reachable state.
LEMMA InvariantHolds == Spec => []IInv
BY InitIInv, NextIInv, PTL DEF Spec

-----------------------------------------------------------------------------
\* Which steps open or close a transport, change the recorder's source, or
\* store evidence.

Opening == RetryIdle \/ ReacquireOpen

Closing == \/ \E t \in {"ingest", "worker", "caller", "actor"} : FatalClose(t)
           \/ \E t \in {"worker", "caller"} : Reject(t)
           \/ \E s \in Sources : Unplug(s)
           \/ CloseLost \/ ReleaseClose \/ CloseSource

Resourcing ==
    \/ \E t \in {"ingest", "worker", "caller", "actor"} : FatalMark(t)
    \/ \E t \in {"worker", "caller"} : ConnectSource(t)
    \/ FinishReleaseDrain \/ Detach \/ RuntimeClosed

\* A transport changes only when it is opened, closed or unplugged.
LEMMA PhysSteps ==
    ASSUME [Next]_vars
    PROVE  phys' = phys \/ Opening \/ Closing
<1>1. \A t \in {"ingest", "worker", "caller", "actor"} :
          Fatal(t) => phys' = phys \/ Closing
  BY DEF Fatal, FatalIgnored, FatalMark, FatalEnd, Closing
<1>2. CASE Ingest
  BY <1>1, <1>2 DEF Ingest, IngestStops, IngestTakes, ReadEvent, ReadTimesOut,
     FinishReleaseDrain, FinishShutdownDrain, ReadFailed, IngestAdmits,
     RecordDisconnect, PublishDisconnect, DisconnectDetached
<1>3. \A t \in {"worker", "caller"} :
          Replacement(t) => phys' = phys \/ Closing
  BY DEF Replacement, ReplaceSource, AppendSegment, InitializeControls,
     ApplyControls, ConfirmReplacement, ConnectSource, ReplacementFailed,
     Closing
<1>4. CASE Worker
  BY <1>1, <1>3, <1>4 DEF Worker, WorkerLeaves, SeesDisconnect, ClaimAttempt,
     Detach, Detached, WorkerPublishes, ReconnectTimesOut, PublishTimeout,
     WorkerFailed, Unclaim, Opening, Closing
<1>5. CASE Caller
  BY <1>1, <1>3, <1>5 DEF Caller, ReleaseIntent, ReleaseClosed,
     ReleaseDrained, ReleaseFinal, ReleaseError, ReacquireBegin,
     ReacquireOpened, ReacquireUnknown, ReacquireFailed, Resume, EndRequest,
     Opening, Closing
<1>6. CASE Actor
  BY <1>1, <1>6 DEF Actor, ActionAttempt, AdmitAction, ActionSend,
     ActionResult, BackendInputFailed, EndAction
<1>7. CASE Closer
  BY <1>7 DEF Closer, CancelPending, CloseCoordinator, JoinWorker,
     CloseRecorder, SourceClosed, JoinIngest, RuntimeClosed, Closing
<1>8. CASE BeginRelease \/ BeginReacquire \/ BeginAction \/ StartMonitor
           \/ CloseRuntime
  BY <1>8 DEF BeginRelease, BeginReacquire, ManualClaim, BeginAction,
     StartMonitor, CloseRuntime
<1>9. CASE \E s \in Sources : Receive(s) \/ Unplug(s)
  BY <1>9 DEF Receive, Closing
<1>10. CASE Closed \/ UNCHANGED vars
  BY <1>10 DEF Closed, vars
<1> QED BY <1>2, <1>4, <1>5, <1>6, <1>7, <1>8, <1>9, <1>10 DEF Next

\* The recorder's source changes by a fault, a drain, a detachment, a
\* connection and the end of shutdown, by nothing else.
LEMMA SourceSteps ==
    ASSUME TypeOK, [Next]_vars
    PROVE  rec'.source = rec.source \/ Resourcing
<1>0. rec \in Recorders
  BY DEF TypeOK
<1>1. \A t \in {"ingest", "worker", "caller", "actor"} :
          Fatal(t) => rec' = rec \/ Resourcing
  BY DEF Fatal, FatalIgnored, FatalClose, FatalEnd, Resourcing
<1>2. CASE Ingest
  BY <1>0, <1>1, <1>2 DEF Ingest, IngestStops, IngestTakes, ReadEvent,
     ReadTimesOut, FinishShutdownDrain, ReadFailed, IngestAdmits,
     RecordDisconnect, PublishDisconnect, DisconnectDetached, Recorders,
     Resourcing
<1>3. \A t \in {"worker", "caller"} :
          Replacement(t) => rec' = rec \/ Resourcing
  BY DEF Replacement, ReplaceSource, AppendSegment, InitializeControls,
     ApplyControls, ConfirmReplacement, ReplacementFailed, Reject, Resourcing
<1>4. CASE Worker
  BY <1>0, <1>1, <1>3, <1>4 DEF Worker, WorkerLeaves, SeesDisconnect,
     ClaimAttempt, CloseLost, Detached, RetryIdle, WorkerPublishes,
     ReconnectTimesOut, PublishTimeout, WorkerFailed, Unclaim, Recorders,
     Resourcing
<1>5. CASE Caller
  <2>1. CASE ReleaseIntent \/ ReleaseClosed \/ ReleaseFinal \/ ReleaseError
    BY <1>0, <2>1 DEF ReleaseIntent, Releasing, ReleaseClosed, ReleaseFinal,
       ReleaseError, Recorders
  <2>2. CASE ReacquireBegin \/ ReacquireFailed
    BY <1>0, <2>2 DEF ReacquireBegin, ReacquireFailed, Recorders
  <2>3. CASE \/ ReleaseClose \/ ReleaseDrained \/ ReacquireOpen
             \/ ReacquireOpened \/ ReacquireUnknown \/ Resume \/ EndRequest
    BY <2>3 DEF ReleaseClose, ReleaseDrained, ReacquireOpen, ReacquireOpened,
       ReacquireUnknown, Resume, EndRequest
  <2>4. CASE Replacement("caller") \/ Fatal("caller")
    BY <1>1, <1>3, <2>4
  <2> QED BY <1>5, <2>1, <2>2, <2>3, <2>4 DEF Caller
<1>6. CASE Actor
  BY <1>1, <1>6 DEF Actor, ActionAttempt, AdmitAction, ActionSend,
     ActionResult, BackendInputFailed, EndAction
<1>7. CASE Closer
  BY <1>0, <1>7 DEF Closer, CancelPending, CloseCoordinator, JoinWorker,
     CloseRecorder, CloseSource, SourceClosed, JoinIngest, Resourcing,
     Recorders
<1>8. CASE BeginRelease \/ BeginReacquire \/ BeginAction \/ StartMonitor
           \/ CloseRuntime
  BY <1>8 DEF BeginRelease, BeginReacquire, ManualClaim, BeginAction,
     StartMonitor, CloseRuntime
<1>9. CASE \E s \in Sources : Receive(s) \/ Unplug(s)
  BY <1>9 DEF Receive, Unplug
<1>10. CASE Closed \/ UNCHANGED vars
  BY <1>10 DEF Closed, vars
<1> QED BY <1>2, <1>4, <1>5, <1>6, <1>7, <1>8, <1>9, <1>10 DEF Next

\* UART evidence is stored by ingest alone.
LEMMA StoreSteps ==
    ASSUME TypeOK, [Next]_vars
    PROVE  ses'.stored = ses.stored \/ IngestAdmits
<1>0. ses \in Sessions
  BY DEF TypeOK
<1>a. \A e, g : StoreAppends(e, g) => ses'.stored = ses.stored
  BY <1>0 DEF StoreAppends, Sessions
<1>b. StoreRaises => ses'.stored = ses.stored
  BY <1>0 DEF StoreRaises, Sessions
<1>1. \A t \in {"ingest", "worker", "caller", "actor"} :
          Fatal(t) => ses'.stored = ses.stored
  BY <1>0 DEF Fatal, FatalIgnored, FatalMark, FatalClose, FatalEnd, Sessions
<1>2. CASE Ingest
  BY <1>1, <1>2, <1>a, <1>b DEF Ingest, IngestStops, IngestTakes, ReadEvent,
     ReadTimesOut, FinishReleaseDrain, FinishShutdownDrain, ReadFailed,
     RecordDisconnect, PublishDisconnect, DisconnectDetached
<1>3. \A t \in {"worker", "caller"} :
          Replacement(t) => ses'.stored = ses.stored
  <2> SUFFICES ASSUME NEW t \in {"worker", "caller"}, Replacement(t)
               PROVE  ses'.stored = ses.stored
    OBVIOUS
  <2>1. CASE AppendSegment(t)
    BY <1>0, <1>a, <1>b, <2>1 DEF AppendSegment, Sessions
  <2>2. CASE ApplyControls(t) \/ ConfirmReplacement(t) \/ ReplacementFailed(t)
    BY <1>a, <1>b, <2>2
       DEF ApplyControls, ConfirmReplacement, ReplacementFailed
  <2> QED BY <2>1, <2>2 DEF Replacement, ReplaceSource, InitializeControls,
             ConnectSource, Reject
<1>4. CASE Worker
  <2>1. CASE ReconnectTimesOut
    BY <1>0, <1>b, <2>1 DEF ReconnectTimesOut, Sessions
  <2> QED BY <1>1, <1>3, <1>4, <2>1 DEF Worker, WorkerLeaves, SeesDisconnect,
             ClaimAttempt, Detach, CloseLost, Detached, RetryIdle,
             WorkerPublishes, PublishTimeout, WorkerFailed, Unclaim
<1>5. CASE Caller
  <2>1. CASE ReacquireFailed
    BY <1>0, <1>a, <2>1 DEF ReacquireFailed, Sessions
  <2>2. CASE ReleaseIntent \/ ReleaseFinal \/ ReacquireBegin
    BY <1>a, <1>b, <2>2 DEF ReleaseIntent, ReleaseFinal, ReacquireBegin
  <2> QED BY <1>1, <1>3, <1>5, <2>1, <2>2 DEF Caller, ReleaseClose,
             ReleaseClosed, ReleaseDrained, ReleaseError, ReacquireOpen,
             ReacquireOpened, ReacquireUnknown, Resume, EndRequest
<1>6. CASE Actor
  BY <1>0, <1>1, <1>6 DEF Actor, ActionAttempt, AdmitAction, ActionSend,
     ActionResult, BackendInputFailed, EndAction, Sessions
<1>7. CASE Closer
  BY <1>0, <1>7 DEF Closer, CancelPending, CloseCoordinator, JoinWorker,
     CloseRecorder, CloseSource, SourceClosed, JoinIngest, RuntimeClosed,
     Sessions
<1>8. CASE BeginRelease \/ BeginReacquire \/ BeginAction \/ StartMonitor
           \/ CloseRuntime
  BY <1>0, <1>8 DEF BeginRelease, BeginReacquire, ManualClaim, BeginAction,
     StartMonitor, CloseRuntime, Sessions
<1>9. CASE \E s \in Sources : Receive(s) \/ Unplug(s)
  BY <1>9 DEF Receive, Unplug
<1>10. CASE Closed \/ UNCHANGED vars
  BY <1>10 DEF Closed, vars
<1> QED BY <1>2, <1>4, <1>5, <1>6, <1>7, <1>8, <1>9, <1>10 DEF Next

-----------------------------------------------------------------------------
\* The theorems.

\* A step that closes a transport finds it opened.
LEMMA ClosingOpensNothing ==
    ASSUME IInv, Closing, NEW s \in Sources, phys[s] = "unopened"
    PROVE  phys'[s] = "unopened"
<1>0. TypeOK
  BY DEF IInv
<1>1. ASSUME NEW r \in Sources, phys[r] # "unopened",
             Closes(r) \/ CloseRaises(r)
      PROVE  phys'[s] = "unopened"
  BY <1>0, <1>1, CloseEffect DEF OthersKeep
<1>2. CASE \E t \in {"ingest", "worker", "caller", "actor"} : FatalClose(t)
  <2>1. victim \in Sources /\ phys[victim] # "unopened"
    BY <1>2, NoneAssumption
       DEF IInv, TypeOK, FaultOK, FaultAt, FatalClose, At, OwnersOK
  <2> QED BY <1>1, <1>2, <2>1 DEF FatalClose
<1>3. CASE \E t \in {"worker", "caller"} : Reject(t)
  BY <1>1, <1>3 DEF Reject, IInv, BetweenOK, BetweenAt
<1>4. CASE \E r \in Sources : Unplug(r)
  BY <1>0, <1>4 DEF Unplug, TypeOK
<1>5. CASE CloseLost
  BY <1>1, <1>5 DEF CloseLost, At, IInv, BetweenOK, BetweenAt
<1>6. CASE ReleaseClose
  BY <1>1, <1>6 DEF ReleaseClose, At, IInv, ReleaseOK
<1>7. CASE CloseSource
  BY <1>1, <1>7 DEF CloseSource, At, IInv, OwnersOK
<1> QED BY <1>2, <1>3, <1>4, <1>5, <1>6, <1>7 DEF Closing

\* A source is opened only when every other one is closed or was never opened.
LEMMA OpeningAfterRelease ==
    ASSUME IInv, Opening, NEW s \in Sources, NEW r \in Sources \ {s},
           phys[s] = "unopened", phys'[s] # "unopened"
    PROVE  phys[r] \in {"unopened", "closed"}
<1>1. MayOpen
  BY DEF Opening, RetryIdle, ReacquireOpen
<1>2. phys[r] \in Transports /\ ~co.stop
  BY <1>1 DEF IInv, TypeOK, MayOpen
<1>3. CASE RetryIdle
  <2>1. pc["worker"] = "open" /\ pc["caller"] = "idle"
    BY <1>3, NoneAssumption DEF RetryIdle, At, IInv, LocksOK
  <2>2. rec.source = None /\ victim = None
    BY <2>1 DEF IInv, BetweenOK, BetweenAt
  <2> QED BY <1>2, <2>1, <2>2, NoneAssumption
          DEF IInv, OwnersOK, Owned, Transports
<1>4. CASE ReacquireOpen
  <2>1. /\ pc["caller"] = "rea_open"
        /\ pc["worker"] \in {"wait", "claim", "done"}
    BY <1>4, NoneAssumption DEF ReacquireOpen, At, IInv, LocksOK
  <2>2. rec.source = None /\ victim = None
    BY <2>1 DEF IInv, BetweenOK, BetweenAt
  <2> QED BY <1>2, <2>1, <2>2, NoneAssumption
          DEF IInv, OwnersOK, Owned, Transports
<1> QED BY <1>3, <1>4 DEF Opening

\* What is detached without a fault has been read to its end.
LEMMA ResourcingDrains ==
    ASSUME IInv, Resourcing, rec.source # None, rec'.source # rec.source,
           ~rec'.fault
    PROVE  pending[rec.source] = 0 /\ ~At("ingest", "admit")
<1>0. rec \in Recorders
  BY DEF IInv, TypeOK
<1>1. CASE \E t \in {"ingest", "worker", "caller", "actor"} : FatalMark(t)
  BY <1>0, <1>1 DEF FatalMark, Recorders
<1>2. CASE \E t \in {"worker", "caller"} : ConnectSource(t)
  BY <1>2 DEF ConnectSource, At, IInv, BetweenOK, BetweenAt
<1>3. CASE FinishReleaseDrain
  <2>1. /\ pc["ingest"] \in {"lost", "bad", "timeout"}
        /\ rec' # rec => ~(pending[held["ingest"]] > 0)
    BY <1>3 DEF FinishReleaseDrain, At
  <2>2. rec.source = held["ingest"] /\ held["ingest"] \in Sources
    BY <2>1 DEF IInv, IngestOK
  <2>3. pending[held["ingest"]] \in Nat
    BY <2>2 DEF IInv, TypeOK
  <2> QED BY <2>1, <2>2, <2>3 DEF At
<1>4. CASE Detach
  <2>1. rec.state = "reconnecting" /\ ~rec.closing
    BY <1>4 DEF Detach
  <2>2. pc["ingest"] = "await_detach" /\ held["ingest"] = rec.source
    BY <2>1 DEF IInv, IngestOK
  <2> QED BY <2>2 DEF IInv, IngestOK, Exhausted, At
<1>5. CASE RuntimeClosed
  <2>1. rec'.fault = rec.fault /\ pc["closer"] = "closed"
    BY <1>0, <1>5 DEF RuntimeClosed, At, Recorders
  <2>2. pc["ingest"] = "done" /\ ~rec.fault
    BY <2>1 DEF IInv, ShutdownOK
  <2> QED BY <2>2 DEF IInv, IngestOK, Exhausted, At
<1> QED BY <1>1, <1>2, <1>3, <1>4, <1>5 DEF Resourcing

\* Evidence is admitted while the segment of the active session is open.
LEMMA AdmitsInOpenSegment ==
    ASSUME IInv, IngestAdmits, ses'.stored # ses.stored
    PROVE  ses.segment = "open"
<1>0. ses \in Sessions
  BY DEF IInv, TypeOK
<1>1. pc["ingest"] = "admit"
  BY DEF IngestAdmits, At
<1>2. StoreRaises => ses'.stored = ses.stored
  BY <1>0 DEF StoreRaises, Sessions
<1>3. ses.life = "active"
  BY <1>2 DEF IngestAdmits
<1> QED BY <1>1, <1>3 DEF IInv, SegmentOK

\* Every variable keeps its type; no source queue underflows.
THEOREM TypeCorrect == Spec => []TypeOK
BY InvariantHolds, PTL DEF IInv

\* Whatever fails, and in whatever order the threads run: the state is well
\* formed, shutdown leaves no transport open, and "connected" means a source
\* that is not faulted and to which the sender and control ports lead.
THEOREM OwnershipStaysSound == Spec => []OwnershipIsSound
<1>1. ASSUME IInv PROVE NothingLeaked
  <2> SUFFICES ASSUME rt.closed, NEW s \in Sources
               PROVE  phys[s] \notin {"open", "gone"}
    BY DEF NothingLeaked
  <2>1. /\ pc["closer"] = "done" /\ pc["worker"] = "done"
        /\ pc["caller"] = "idle" /\ pc["actor"] = "idle"
        /\ pc["ingest"] = "done" /\ rec.closed
    BY <1>1 DEF IInv, ShutdownOK
  <2>2. rec.source = None
    BY <1>1, <2>1 DEF IInv, ShutdownOK
  <2>3. victim = None \/ phys[victim] \in {"closed", "stuck"}
    BY <1>1, <2>1 DEF IInv, OwnersOK
  <2> QED BY <1>1, <2>1, <2>2, <2>3, NoneAssumption DEF IInv, OwnersOK, Owned
<1>2. ASSUME IInv PROVE ConnectedIsUsable
  BY <1>2 DEF IInv, ConnectedIsUsable, FaultOK, BetweenOK
<1>3. IInv => OwnershipIsSound
  BY <1>1, <1>2 DEF IInv, OwnershipIsSound
<1> QED BY <1>3, InvariantHolds, PTL

\* One physical owner: reconnect and reacquire open a source only when every
\* earlier one is known to be closed.
THEOREM OneOwner == Spec => OpensOnlyAfterRelease
<1> DEFINE Opens == \A s \in Sources :
                        phys[s] = "unopened" /\ phys'[s] # "unopened"
                        => \A r \in Sources \ {s} :
                               phys[r] \in {"unopened", "closed"}
<1>1. ASSUME IInv, [Next]_vars PROVE Opens
  BY <1>1, PhysSteps, ClosingOpensNothing, OpeningAfterRelease
<1>2. ASSUME IInv, [Next]_vars PROVE [Opens]_vars
  BY <1>1, <1>2
<1> QED BY <1>2, InvariantHolds, PTL DEF Spec, OpensOnlyAfterRelease

\* What a source has read is journalled before release, reconnect or shutdown
\* detaches it, unless ownership is faulted; and evidence is stored only while
\* the segment is open.
THEOREM EvidenceStaysKept == Spec => EvidenceKept
<1> DEFINE Drained ==
               rec.source # None /\ rec'.source # rec.source /\ ~rec'.fault
               => pending[rec.source] = 0 /\ ~At("ingest", "admit")
           Stored == ses'.stored # ses.stored => ses.segment = "open"
<1>1. ASSUME IInv, [Next]_vars PROVE Drained /\ Stored
  <2>1. TypeOK
    BY <1>1 DEF IInv
  <2>2. Drained
    BY <1>1, <2>1, SourceSteps, ResourcingDrains
  <2>3. Stored
    BY <1>1, <2>1, StoreSteps, AdmitsInOpenSegment
  <2> QED BY <2>2, <2>3
<1>2. ASSUME IInv, [Next]_vars PROVE [Drained]_vars /\ [Stored]_vars
  BY <1>1, <1>2
<1>3. Spec => [][Drained]_vars /\ [][Stored]_vars
  <2> HIDE DEF Drained, Stored
  <2> QED BY <1>2, InvariantHolds, PTL DEF Spec
<1> QED BY <1>3 DEF EvidenceKept, DetachedIsDrained, StoresInOpenSegment

\* A reacquire that has returned has left the reacquiring state, as long as the
\* write of reacquire_failed itself does not fail (recorder.py does not catch
\* that one).
THEOREM ReacquiresSettle ==
    ASSUME "refail" \notin Hazards
    PROVE  Spec => []ReacquireSettles
<1>1. IInv => ReacquireSettles
  BY DEF IInv, ReacquireOK, ReacquireSettles, At
<1> QED BY <1>1, InvariantHolds, PTL

\* Without release, the connection journal of a session is a path of the life
\* cycle: every gap has its one cause and its one end.  With release it is not:
\* a disconnect may be journalled after release_requested.
THEOREM JournalStaysAPath ==
    ASSUME "release" \notin Requests
    PROVE  Spec => []JournalIsAPath
<1>1. IInv => JournalIsAPath
  BY DEF IInv, JournalOK, Journalled
<1> QED BY <1>1, InvariantHolds, PTL
=============================================================================
