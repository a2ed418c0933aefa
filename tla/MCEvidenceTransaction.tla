------------------------ MODULE MCEvidenceTransaction ------------------------
(***************************************************************************)
(* Model-checking instance of EvidenceTransaction: two append files, so    *)
(* that a unit touches one or both, and records of two bytes, so that an   *)
(* append can be torn.                                                     *)
(***************************************************************************)
EXTENDS EvidenceTransaction

CONSTANTS raw, events

MCAppendFiles == {raw, events}
=============================================================================
