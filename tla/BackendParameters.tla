------------------------- MODULE BackendParameters --------------------------
(***************************************************************************)
(* What the two backends have in common.                                   *)
(***************************************************************************)
EXTENDS Integers

CONSTANTS
    None,
    Callers,        \* threads that each issue one command or send one payload
    QueueCapacity,  \* event_queue_capacity
    MaxLoad         \* bound on the calls issued plus the faults injected

ASSUME CapacityAssumption == QueueCapacity \in Nat \ {0}

\* Python's None is no thread, no error and no outcome of a call.
ASSUME NoneAssumption ==
    None \notin Callers \union {"shutdown", "fatal", "disconnected", "input", "ok",
                               "failed", "unknown", "unsent", "pending"}

=============================================================================
