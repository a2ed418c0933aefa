---------------------------- MODULE BackendLink -----------------------------
(***************************************************************************)
(* The two sources of evidence the service can be configured with: start-up *)
(* selects Basic or Enhanced once, and only the selected backend is ever   *)
(* opened.                                                                 *)
(***************************************************************************)
EXTENDS EnhancedLink, BasicSource

VARIABLE mode  \* backend_settings.mode

vars == <<mode, linkVars, basicVars>>

Init == mode \in {"basic", "enhanced"} /\ LinkInit /\ BasicInit

Next ==
    \/ mode = "enhanced" /\ LinkNext /\ UNCHANGED <<mode, basicVars>>
    \/ mode = "basic" /\ BasicNext /\ UNCHANGED <<mode, linkVars>>

(***************************************************************************)
(* Threads are scheduled, ready tasks of the event loop run, timeouts of   *)
(* reads, joins and requests expire and a port that is being closed        *)
(* settles: a step of the recorder's thread and a step of anything else    *)
(* that goes on by itself is taken when it stays possible.  Nothing is     *)
(* assumed of the helper, of new calls or of a write in progress.          *)
(***************************************************************************)
Background ==
    \/ mode = "enhanced" /\ Settling /\ UNCHANGED <<mode, basicVars>>
    \/ mode = "basic" /\ SourceSettling /\ UNCHANGED <<mode, linkVars>>

Ingest ==
    \/ mode = "enhanced" /\ ConsumerStep /\ UNCHANGED <<mode, basicVars>>
    \/ mode = "basic" /\ UserStep /\ UNCHANGED <<mode, linkVars>>

Spec == Init /\ [][Next]_vars /\ WF_vars(Background) /\ WF_vars(Ingest)

\* A close that has begun always ends.  Every thread inside the Enhanced host gets
\* out, even if its write hangs and the helper is silent; a Basic reader blocked on
\* the full queue delays the close but does not stop it; and the recorder's thread
\* finishes draining the source.
CloseSettles ==
    (hostClosing \/ stop) ~>
      ((hostClosing => LinkQuiet) /\ (stop => SourceQuiet))

\* What callers are told of a command, a send, an open or a close is what happened
\* at the port, however the calls interleave with answers, timeouts and the close.
ReportsAreTrue ==
    /\ LinkTypeOK /\ OwnAnswer /\ ResultTrue /\ FailedOpenIsTruthful /\ ClosedIsQuiet
    /\ CloseIsFinal /\ PayloadsWhole

\* Both backends hand over everything they received, once and in order, also when
\* they are closed with a full queue.
NothingReceivedLost == NoEventLost /\ NoChunkLost
=============================================================================
