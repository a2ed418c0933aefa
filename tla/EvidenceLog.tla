----------------------------- MODULE EvidenceLog -----------------------------
(***************************************************************************)
(* What a session directory promises to its readers and to a restarted     *)
(* service: evidence units are admitted one at a time and whole, an        *)
(* admitted unit is never withdrawn, and a confirmed terminal state is     *)
(* final.  "admitted" and "life" are what recovery would find; "acked" and *)
(* "confirmed" are what the store told its callers.                        *)
(***************************************************************************)
EXTENDS Naturals

VARIABLES admitted, acked, life, confirmed

logVars == <<admitted, acked, life, confirmed>>

TerminalLives == {"completed", "failed", "abandoned"}

LogInit == /\ admitted = 0 /\ acked = 0
           /\ life = "active" /\ confirmed = "active"

\* The next unit becomes durable, all its files at once.
AdmitUnit == /\ life = "active"
             /\ admitted = acked
             /\ admitted' = admitted + 1
             /\ UNCHANGED <<acked, life, confirmed>>

\* The admission returns to its caller.
AcknowledgeUnit == /\ acked < admitted
                   /\ acked' = admitted
                   /\ UNCHANGED <<admitted, life, confirmed>>

\* The session ends; until the store confirms it a power loss may undo that.
EndSession == /\ life = "active"
              /\ life' \in TerminalLives
              /\ confirmed' \in {confirmed, life'}
              /\ UNCHANGED <<admitted, acked>>

ForgetEnd == /\ confirmed = "active"
             /\ life' = "active"
             /\ UNCHANGED <<admitted, acked, confirmed>>

LogNext == AdmitUnit \/ AcknowledgeUnit \/ EndSession \/ ForgetEnd

LogSpec == LogInit /\ [][LogNext]_logVars
=============================================================================
