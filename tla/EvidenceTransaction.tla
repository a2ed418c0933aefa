------------------------- MODULE EvidenceTransaction -------------------------
(***************************************************************************)
(* The crash-recoverable multi-file transaction that admits one evidence   *)
(* unit to a session directory (session_store/transactions.py over the     *)
(* file primitives of session_store/persistence.py), with the two writers  *)
(* that bypass it: terminalization and startup abandonment (store.py).     *)
(*                                                                         *)
(* A document (metadata.json, detected_patterns.json, the two hard-linked  *)
(* preimages, the marker) is a directory entry; "images" holds every state *)
(* of the directory a power loss may bring back, that is, every state      *)
(* since the last successful directory fsync.  A digest is the document    *)
(* itself.  Append files are fsynced by each append and truncation, so a   *)
(* power loss keeps their sizes; a failed append leaves any part of the    *)
(* record behind.                                                          *)
(***************************************************************************)
EXTENDS Naturals, FiniteSets

CONSTANTS
    AppendFiles,    \* the session's append-only evidence files
    RecordBytes,    \* bytes one unit appends to one file
    None,           \* an absent document
    FaultPoints,    \* the I/O calls that may fail in this configuration
    MaxUnits,       \* bound on the evidence units of the session
    MaxFaults,      \* bound on failing I/O calls
    MaxCrashes      \* bound on crashes and power losses

VARIABLES
    dir,        \* the directory entries as the running process sees them
    images,     \* the directory states a power loss may leave
    size,       \* bytes in each append file
    pc,         \* next step of the code
    ctx,        \* who runs recovery or rollback: "startup", "begin", "unit"
    purpose,    \* why _cleanup was called
    raised,     \* the error on its way to the caller
    base,       \* metadata the store read before it began the transaction
    tx,         \* EvidenceTransaction._marker, the in-memory marker
    todo,       \* files the current loop still has to append or truncate
    replacing,  \* replace_detected_patterns of the current unit
    acked,      \* next_evidence_seq of the last admission that returned
    ended,      \* terminal state the store confirmed, or "active"
    faults, crashes

disk == <<dir, images, size>>
local == <<ctx, purpose, raised, base, tx, todo, replacing>>
history == <<acked, ended>>
vars == <<disk, pc, local, history, faults, crashes>>

Lives == {"active", "completed", "failed", "abandoned"}

\* metadata.json: seq is next_evidence_seq, covers and patterns the extent
\* of the evidence its counters and offsets describe.
Metadata == [seq : Nat, life : Lives, covers : [AppendFiles -> Nat],
             patterns : Nat]

\* _TransactionMarker.  patterns_before is None exactly when the unit does
\* not replace detected_patterns (_marker_from_json enforces it).
Marker == [state : {"prepared", "evidence_written", "committed"},
           targets : SUBSET AppendFiles,
           append_offsets : [AppendFiles -> Nat],
           metadata_before : Metadata,
           patterns_before : Nat \cup {None},
           expected_metadata : Metadata \cup {None}]

Directory == [metadata : Metadata, patterns : Nat,
              metadata_backup : Metadata \cup {None},
              patterns_backup : Nat \cup {None},
              marker : Marker \cup {None}]

AllFaultPoints ==
    {"read_marker", "orphan", "link", "begin_sync", "mark", "mark_sync",
     "append", "patterns", "patterns_sync", "prepare", "prepare_sync",
     "publish", "publish_sync", "commit", "commit_sync", "truncate",
     "restore", "rollback_sync", "unlink", "undo_unlink", "terminalize",
     "terminalize_sync"}

\* The calls whose failure the protocol absorbs: all but the fsync that
\* follows the metadata rename, the steps of a rollback, and the cleanup that
\* answers an earlier failure.
TolerableFaults ==
    AllFaultPoints \ {"publish_sync", "truncate", "restore", "rollback_sync",
                      "undo_unlink"}

Tolerable == FaultPoints \subseteq TolerableFaults

ASSUME RecordBytesAssumption == RecordBytes \in Nat \ {0}
ASSUME BoundsAssumption == /\ MaxUnits \in Nat
                           /\ MaxFaults \in Nat
                           /\ MaxCrashes \in Nat
ASSUME NoneAssumption == /\ None \notin Nat
                         /\ None \notin Metadata
                         /\ None \notin Marker
ASSUME FaultAssumption == FaultPoints \subseteq AllFaultPoints

-----------------------------------------------------------------------------
\* File primitives (persistence.py).

\* A directory update that no fsync has confirmed yet.
Unsynced(d) == /\ dir' = d
               /\ images' = images \cup {d}

\* A directory update followed by the directory fsync.
Synced(d) == /\ dir' = d
             /\ images' = {d}

SameDirectory == UNCHANGED <<dir, images>>

\* The I/O call named point raises OSError.
Fails(point) == /\ point \in FaultPoints
                /\ faults < MaxFaults
                /\ faults' = faults + 1

Succeeds == faults' = faults

\* Mutant: the directory fsync after the rename is missing.
WriteDocumentUnsynced(d) == Unsynced(d) /\ Succeeds

\* write_serialized: temporary file, fsync, rename, directory fsync.  It may
\* raise before the rename or, with the new document in place, after it.
WriteDocument(d) == Synced(d) /\ Succeeds

WriteDocumentFails(d, write, sync) ==
    \/ SameDirectory /\ Fails(write)
    \/ Unsynced(d) /\ Fails(sync)

-----------------------------------------------------------------------------
\* What recovery decides from a directory state.

MetadataMatchesExpected(d) == d.metadata = d.marker.expected_metadata

\* Mutant: an advanced marker commits without the metadata digest check.
KeepsUnitUnchecked(d) == d.marker.state \in {"committed", "evidence_written"}

\* Mutant: a committed marker is checked against the digest as well.
KeepsUnitByDigestOnly(d) ==
    d.marker.state # "prepared" /\ MetadataMatchesExpected(d)

\* recover_evidence_transaction keeps the unit: cleanup only.
KeepsUnit(d) ==
    \/ d.marker.state = "committed"
    \/ d.marker.state = "evidence_written" /\ MetadataMatchesExpected(d)

RollsBack(d) == d.marker # None /\ ~KeepsUnit(d)

\* The metadata the session has once recovery is done with d.
Resolved(d) == IF RollsBack(d) THEN d.marker.metadata_before ELSE d.metadata

\* The metadata the current unit publishes: the copy read before the
\* transaction, advanced by the unit and by the files as they are now.
UnitMetadata == [seq |-> base.seq + 1, life |-> base.life, covers |-> size,
                 patterns |-> dir.patterns]

NoMetadata == [seq |-> 0, life |-> "active",
               covers |-> [f \in AppendFiles |-> 0], patterns |-> 0]

Init ==
    /\ dir = [metadata |-> NoMetadata, patterns |-> 0,
              metadata_backup |-> None, patterns_backup |-> None,
              marker |-> None]
    /\ images = {dir}
    /\ size = [f \in AppendFiles |-> 0]
    /\ pc = "idle"
    /\ ctx = "begin" /\ purpose = "none" /\ raised = "none"
    /\ base = NoMetadata /\ tx = None /\ todo = {} /\ replacing = FALSE
    /\ acked = 0 /\ ended = "active"
    /\ faults = 0 /\ crashes = 0

Goto(label) == pc' = label

\* SessionPersistenceError reaches the store: it terminalizes the session,
\* whatever terminalization_safe says.
RaisePersistence == /\ Goto("failing")
                    /\ raised' = "persistence"

-----------------------------------------------------------------------------
\* begin_evidence_transaction.

\* An admission: the store reads active metadata, then begins a transaction.
Admit(targets, replace) ==
    /\ pc = "idle"
    /\ dir.metadata.life = "active"
    /\ dir.metadata.seq < MaxUnits
    /\ targets # {}
    /\ base' = dir.metadata
    /\ todo' = targets
    /\ replacing' = replace
    /\ ctx' = "begin"
    /\ raised' = "none"
    /\ Goto("recover")
    /\ UNCHANGED <<disk, purpose, tx, history, faults, crashes>>

Link ==
    /\ pc = "link"
    /\ dir.metadata_backup = None
    /\ tx' = [state |-> "prepared", targets |-> todo,
              append_offsets |-> size,
              metadata_before |-> dir.metadata,
              patterns_before |-> IF replacing THEN dir.patterns ELSE None,
              expected_metadata |-> None]
    /\ Unsynced([dir EXCEPT !.metadata_backup = dir.metadata])
    /\ Succeeds
    /\ Goto(IF replacing THEN "link_patterns" ELSE "begin_sync")
    /\ UNCHANGED <<size, ctx, purpose, raised, base, todo, replacing,
                   history, crashes>>

\* Mutant: the pattern preimage is never linked.
LinkPatternsSkipped ==
    /\ pc = "link_patterns"
    /\ SameDirectory
    /\ Succeeds
    /\ Goto("begin_sync")
    /\ UNCHANGED <<size, local, history, crashes>>


LinkPatterns ==
    /\ pc = "link_patterns"
    /\ dir.patterns_backup = None
    /\ Unsynced([dir EXCEPT !.patterns_backup = dir.patterns])
    /\ Succeeds
    /\ Goto("begin_sync")
    /\ UNCHANGED <<size, local, history, crashes>>

BeginSync ==
    /\ pc = "begin_sync"
    /\ Synced(dir)
    /\ Succeeds
    /\ Goto("mark")
    /\ UNCHANGED <<size, local, history, crashes>>

MarkPrepared ==
    /\ pc = "mark"
    /\ WriteDocument([dir EXCEPT !.marker = tx])
    /\ ctx' = "unit"
    /\ Goto("append")
    /\ UNCHANGED <<size, purpose, raised, base, tx, todo, replacing, history,
                   crashes>>

\* Any OSError while preparing: _cleanup, then the error is raised.
PrepareFails ==
    /\ \/ pc \in {"link", "link_patterns"} /\ SameDirectory /\ Fails("link")
       \/ pc = "begin_sync" /\ SameDirectory /\ Fails("begin_sync")
       \/ /\ pc = "mark"
          /\ WriteDocumentFails([dir EXCEPT !.marker = tx], "mark", "mark_sync")
    /\ purpose' = "prepare_failed"
    /\ Goto("unlink_metadata")
    /\ UNCHANGED <<size, ctx, raised, base, tx, todo, replacing, history,
                   crashes>>

-----------------------------------------------------------------------------
\* The body of the transaction (append_v2_uart_receive and
\* _append_v2_record_locked).

Append(f) ==
    /\ pc = "append"
    /\ f \in todo
    /\ size' = [size EXCEPT ![f] = @ + RecordBytes]
    /\ todo' = todo \ {f}
    /\ Succeeds
    /\ UNCHANGED <<dir, images, pc, ctx, purpose, raised, base, tx, replacing,
                   history, crashes>>

\* The body raises: EvidenceTransaction.rollback starts with the truncations.
StartRollback(error) ==
    /\ raised' = error
    /\ todo' = tx.targets
    /\ Goto("truncate")

\* append_serialized raised and its own ftruncate kept k bytes of the record.
AppendFails(f, k) ==
    /\ pc = "append"
    /\ f \in todo
    /\ size' = [size EXCEPT ![f] = @ + k]
    /\ SameDirectory
    /\ Fails("append")
    /\ StartRollback("persistence")
    /\ UNCHANGED <<ctx, purpose, base, tx, replacing, history, crashes>>

AppendsDone ==
    /\ pc = "append"
    /\ todo = {}
    /\ Goto(IF replacing THEN "patterns" ELSE "prepare")
    /\ UNCHANGED <<disk, local, history, faults, crashes>>

WritePatterns ==
    /\ pc = "patterns"
    /\ LET d == [dir EXCEPT !.patterns = @ + 1]
       IN \/ /\ WriteDocument(d)
             /\ Goto("prepare")
             /\ UNCHANGED <<raised, todo>>
          \/ /\ WriteDocumentFails(d, "patterns", "patterns_sync")
             /\ StartRollback("persistence")
    /\ UNCHANGED <<size, ctx, purpose, base, tx, replacing, history, crashes>>

\* Mutant: the expected digest is not recorded.
PrepareMetadataWithoutDigest ==
    /\ pc = "prepare"
    /\ tx' = [tx EXCEPT !.state = "evidence_written"]
    /\ WriteDocument([dir EXCEPT !.marker = tx'])
    /\ Goto("publish")
    /\ UNCHANGED <<size, ctx, purpose, raised, base, todo, replacing, history,
                   crashes>>

\* prepare_metadata: the in-memory marker advances before it is written.
PrepareMetadata ==
    /\ pc = "prepare"
    /\ tx' = [tx EXCEPT !.state = "evidence_written",
                        !.expected_metadata = UnitMetadata]
    /\ LET d == [dir EXCEPT !.marker = tx']
       IN \/ /\ WriteDocument(d)
             /\ Goto("publish")
             /\ UNCHANGED <<raised, todo>>
          \/ /\ WriteDocumentFails(d, "prepare", "prepare_sync")
             /\ StartRollback("persistence")
    /\ UNCHANGED <<size, ctx, purpose, base, replacing, history, crashes>>

\* _require_metadata_capacity (or a metadata mutator) raises ValueError.
CapacityExceeded ==
    /\ pc = "prepare"
    /\ StartRollback("value")
    /\ UNCHANGED <<disk, ctx, purpose, base, tx, replacing, history, faults,
                   crashes>>

\* Mutant: a failed metadata write is committed all the same.
PublishMetadataIgnoringErrors ==
    /\ pc = "publish"
    /\ LET d == [dir EXCEPT !.metadata = tx.expected_metadata]
       IN WriteDocument(d) \/ WriteDocumentFails(d, "publish", "publish_sync")
    /\ Goto("commit")
    /\ UNCHANGED <<size, local, history, crashes>>


PublishMetadata ==
    /\ pc = "publish"
    /\ LET d == [dir EXCEPT !.metadata = tx.expected_metadata]
       IN \/ /\ WriteDocument(d)
             /\ Goto("commit")
             /\ UNCHANGED <<raised, todo>>
          \/ /\ WriteDocumentFails(d, "publish", "publish_sync")
             /\ StartRollback("persistence")
    /\ UNCHANGED <<size, ctx, purpose, base, tx, replacing, history, crashes>>

\* commit: the marker write may fail, the unit is durable all the same.
Commit ==
    /\ pc = "commit"
    /\ LET d == [dir EXCEPT !.marker = [tx EXCEPT !.state = "committed"]]
       IN \/ WriteDocument(d) /\ purpose' = "commit"
          \/ /\ WriteDocumentFails(d, "commit", "commit_sync")
             /\ purpose' = "commit_fallback"
    /\ Goto("unlink_metadata")
    /\ UNCHANGED <<size, ctx, raised, base, tx, todo, replacing, history,
                   crashes>>

-----------------------------------------------------------------------------
\* _rollback.

Truncate(f) ==
    /\ pc = "truncate"
    /\ f \in todo
    /\ size[f] >= tx.append_offsets[f]
    /\ size' = [size EXCEPT ![f] = tx.append_offsets[f]]
    /\ todo' = todo \ {f}
    /\ Succeeds
    /\ UNCHANGED <<dir, images, pc, ctx, purpose, raised, base, tx, replacing,
                   history, crashes>>

TruncatesDone ==
    /\ pc = "truncate"
    /\ todo = {}
    /\ Goto(IF tx.patterns_before = None THEN "restore_metadata"
                                         ELSE "restore_patterns")
    /\ UNCHANGED <<disk, local, history, faults, crashes>>

RestorePatterns ==
    /\ pc = "restore_patterns"
    /\ \/ /\ dir.patterns_backup # None
          /\ Unsynced([dir EXCEPT !.patterns = dir.patterns_backup,
                                  !.patterns_backup = None])
       \/ /\ dir.patterns_backup = None
          /\ dir.patterns = tx.patterns_before
          /\ SameDirectory
    /\ Succeeds
    /\ Goto("restore_metadata")
    /\ UNCHANGED <<size, local, history, crashes>>

RestoreMetadata ==
    /\ pc = "restore_metadata"
    /\ \/ /\ dir.metadata_backup # None
          /\ Unsynced([dir EXCEPT !.metadata = dir.metadata_backup,
                                  !.metadata_backup = None])
       \/ /\ dir.metadata_backup = None
          /\ dir.metadata = tx.metadata_before
          /\ SameDirectory
    /\ Succeeds
    /\ Goto("rollback_sync")
    /\ UNCHANGED <<size, local, history, crashes>>

RollbackSync ==
    /\ pc = "rollback_sync"
    /\ Synced(dir)
    /\ Succeeds
    /\ purpose' = "undo"
    /\ Goto("unlink_metadata")
    /\ UNCHANGED <<size, ctx, raised, base, tx, todo, replacing, history,
                   crashes>>

\* rollback or recovery raised the unsafe SessionPersistenceError.  In a
\* running service the session is terminalized; at startup the service stops.
UnsafeError ==
    IF ctx = "startup" THEN Goto("down") /\ UNCHANGED raised
                       ELSE RaisePersistence

\* The preimage is gone or an append file is shorter than its saved offset.
PreimageLost ==
    \/ /\ pc = "truncate"
       /\ \E f \in todo : size[f] < tx.append_offsets[f]
    \/ /\ pc = "restore_patterns"
       /\ dir.patterns_backup = None
       /\ dir.patterns # tx.patterns_before
    \/ /\ pc = "restore_metadata"
       /\ dir.metadata_backup = None
       /\ dir.metadata # tx.metadata_before

RollbackFails ==
    /\ \/ PreimageLost /\ Succeeds
       \/ pc = "truncate" /\ todo # {} /\ Fails("truncate")
       \/ pc \in {"restore_patterns", "restore_metadata"} /\ Fails("restore")
       \/ pc = "rollback_sync" /\ Fails("rollback_sync")
    /\ UnsafeError
    /\ UNCHANGED <<disk, ctx, purpose, base, tx, todo, replacing, history,
                   crashes>>

-----------------------------------------------------------------------------
\* _cleanup: the two preimages, the marker, the directory fsync.

UnlinkMetadataBackup ==
    /\ pc = "unlink_metadata"
    /\ Unsynced([dir EXCEPT !.metadata_backup = None])
    /\ Succeeds
    /\ Goto("unlink_patterns")
    /\ UNCHANGED <<size, local, history, crashes>>

UnlinkPatternsBackup ==
    /\ pc = "unlink_patterns"
    /\ Unsynced([dir EXCEPT !.patterns_backup = None])
    /\ Succeeds
    /\ Goto("unlink_marker")
    /\ UNCHANGED <<size, local, history, crashes>>

UnlinkMarker ==
    /\ pc = "unlink_marker"
    /\ Unsynced([dir EXCEPT !.marker = None])
    /\ Succeeds
    /\ Goto("unlink_sync")
    /\ UNCHANGED <<size, local, history, crashes>>

\* The admission returned to its caller.
Acknowledge == /\ acked' = tx.expected_metadata.seq
               /\ Goto("idle")
               /\ UNCHANGED <<raised, ended>>

\* Recovery has resolved the previous transaction.
RecoveryDone == /\ Goto(IF ctx = "startup" THEN "abandon" ELSE "link")
                /\ UNCHANGED <<raised, history>>

CleanupSync ==
    /\ pc = "unlink_sync"
    /\ Synced(dir)
    /\ Succeeds
    /\ CASE purpose \in {"commit", "commit_fallback"} -> Acknowledge
         [] purpose = "prepare_failed" -> RaisePersistence /\ UNCHANGED history
         [] purpose = "undo" /\ ctx = "unit" ->
              /\ Goto(IF raised = "value" THEN "idle" ELSE "failing")
              /\ UNCHANGED <<raised, history>>
         [] OTHER -> RecoveryDone
    /\ UNCHANGED <<size, ctx, purpose, base, tx, todo, replacing, crashes>>

\* commit suppresses a cleanup failure, every other caller raises unsafe.
CleanupFails ==
    /\ pc \in {"unlink_metadata", "unlink_patterns", "unlink_marker",
              "unlink_sync"}
    /\ Fails(IF purpose \in {"commit", "resolve"} THEN "unlink"
                                                  ELSE "undo_unlink")
    /\ IF purpose = "commit" THEN Acknowledge
                             ELSE UnsafeError /\ UNCHANGED history
    /\ UNCHANGED <<disk, ctx, purpose, base, tx, todo, replacing, crashes>>

-----------------------------------------------------------------------------
\* recover_evidence_transaction.

StartService ==
    /\ pc = "down"
    /\ ctx' = "startup"
    /\ Goto("recover")
    /\ UNCHANGED <<disk, purpose, raised, base, tx, todo, replacing, history,
                   faults, crashes>>

RecoverNothing ==
    /\ pc = "recover"
    /\ dir.marker = None
    /\ IF dir.metadata_backup = None /\ dir.patterns_backup = None
       THEN RecoveryDone
       ELSE Goto("orphan_metadata") /\ UNCHANGED <<raised, history>>
    /\ UNCHANGED <<disk, ctx, purpose, base, tx, todo, replacing, faults,
                   crashes>>

RecoverCommitted ==
    /\ pc = "recover"
    /\ dir.marker # None
    /\ KeepsUnit(dir)
    /\ purpose' = "resolve"
    /\ Goto("unlink_metadata")
    /\ UNCHANGED <<disk, ctx, raised, base, tx, todo, replacing, history,
                   faults, crashes>>

RecoverRollback ==
    /\ pc = "recover"
    /\ RollsBack(dir)
    /\ tx' = dir.marker
    /\ todo' = dir.marker.targets
    /\ Goto("truncate")
    /\ UNCHANGED <<disk, ctx, purpose, raised, base, replacing, history,
                   faults, crashes>>

RecoverFails ==
    /\ pc = "recover" /\ dir.marker # None /\ Fails("read_marker")
    /\ UnsafeError
    /\ UNCHANGED <<disk, ctx, purpose, base, tx, todo, replacing, history,
                   crashes>>

\* _cleanup_orphan_backups: the documents exist, so each preimage is removed.
OrphanMetadata ==
    /\ pc = "orphan_metadata"
    /\ Unsynced([dir EXCEPT !.metadata_backup = None])
    /\ Succeeds
    /\ Goto("orphan_patterns")
    /\ UNCHANGED <<size, local, history, crashes>>

OrphanPatterns ==
    /\ pc = "orphan_patterns"
    /\ Synced([dir EXCEPT !.patterns_backup = None])
    /\ Succeeds
    /\ RecoveryDone
    /\ UNCHANGED <<size, ctx, purpose, base, tx, todo, replacing, crashes>>

OrphanFails ==
    /\ pc \in {"orphan_metadata", "orphan_patterns"}
    /\ Fails("orphan")
    /\ \/ SameDirectory
       \/ pc = "orphan_patterns"
          /\ Unsynced([dir EXCEPT !.patterns_backup = None])
    /\ UnsafeError
    /\ UNCHANGED <<size, ctx, purpose, base, tx, todo, replacing, history,
                   crashes>>

-----------------------------------------------------------------------------
\* Lifecycle writes outside a transaction (_terminalize_session_locked).

\* The terminal document replaces metadata.json; its label on success is ok.
Terminalize(life, ok, failed) ==
    LET d == [dir EXCEPT !.metadata.life = life]
    IN /\ dir.metadata.life = "active"
       /\ \/ /\ WriteDocument(d)
             /\ ended' = life
             /\ Goto(ok)
          \/ /\ WriteDocumentFails(d, "terminalize", "terminalize_sync")
             /\ Goto(failed)
             /\ UNCHANGED ended
       /\ UNCHANGED <<size, local, acked, crashes>>

EndSession == pc = "idle" /\ \E life \in {"completed", "failed"} :
                                Terminalize(life, "closed", "closed")

\* _fail_active_v2_persistence_locked, then the recorder's own attempt.
FailSession ==
    \/ pc = "failing" /\ Terminalize("failed", "closed", "failing_again")
    \/ pc = "failing_again" /\ Terminalize("failed", "closed", "closed")

\* abandon_session of startup recovery; a failure ends the startup.
AbandonSession == pc = "abandon" /\ Terminalize("abandoned", "closed", "down")

\* Mutant: startup recovery takes every session for a terminal one.
AlwaysTerminal ==
    /\ pc \in {"failing", "failing_again", "abandon"}
    /\ Goto("closed")
    /\ UNCHANGED <<disk, local, history, faults, crashes>>


AlreadyTerminal ==
    /\ pc \in {"failing", "failing_again", "abandon"}
    /\ dir.metadata.life # "active"
    /\ Goto("closed")
    /\ UNCHANGED <<disk, local, history, faults, crashes>>

\* The process dies or the host loses power; memory is gone.
Crash ==
    /\ pc # "down"
    /\ crashes < MaxCrashes
    /\ crashes' = crashes + 1
    /\ dir' \in images
    /\ images' = {dir'}
    /\ Goto("down")
    /\ ctx' = "startup" /\ purpose' = "none" /\ raised' = "none"
    /\ base' = NoMetadata /\ tx' = None /\ todo' = {} /\ replacing' = FALSE
    /\ UNCHANGED <<size, history, faults>>

-----------------------------------------------------------------------------
Body == \/ \E targets \in SUBSET AppendFiles, replace \in BOOLEAN :
              Admit(targets, replace)
        \/ Link \/ LinkPatterns \/ BeginSync \/ MarkPrepared \/ PrepareFails
        \/ \E f \in AppendFiles :
              Append(f) \/ \E k \in 0 .. RecordBytes : AppendFails(f, k)
        \/ AppendsDone \/ WritePatterns \/ PrepareMetadata \/ CapacityExceeded
        \/ PublishMetadata \/ Commit

Rollback == \/ \E f \in AppendFiles : Truncate(f)
            \/ TruncatesDone \/ RestorePatterns \/ RestoreMetadata
            \/ RollbackSync \/ RollbackFails

Cleanup == \/ UnlinkMetadataBackup \/ UnlinkPatternsBackup \/ UnlinkMarker
           \/ CleanupSync \/ CleanupFails

Recovery == \/ StartService \/ RecoverNothing \/ RecoverCommitted
            \/ RecoverRollback \/ RecoverFails \/ OrphanMetadata
            \/ OrphanPatterns \/ OrphanFails

Lifecycle == EndSession \/ FailSession \/ AbandonSession \/ AlreadyTerminal

Run == Body \/ Rollback \/ Cleanup \/ Recovery \/ Lifecycle

Next == Run \/ Crash

Spec == Init /\ [][Next]_vars

\* The process keeps executing its straight-line code and a supervisor or the
\* user starts a stopped service again.
FairSpec == Spec /\ WF_vars(Run)
-----------------------------------------------------------------------------
\* Properties.

Labels ==
    {"idle", "recover", "orphan_metadata", "orphan_patterns", "link",
     "link_patterns", "begin_sync", "mark", "append", "patterns", "prepare",
     "publish", "commit", "truncate", "restore_patterns", "restore_metadata",
     "rollback_sync", "unlink_metadata", "unlink_patterns", "unlink_marker",
     "unlink_sync", "failing", "failing_again", "abandon", "closed", "down"}

\* Type invariant of the session directory and of the code's local state.
TypeOK ==
    /\ dir \in Directory
    /\ images \in SUBSET Directory
    /\ dir \in images
    /\ size \in [AppendFiles -> Nat]
    /\ pc \in Labels
    /\ ctx \in {"startup", "begin", "unit"}
    /\ purpose \in {"none", "commit", "commit_fallback", "prepare_failed",
                    "undo", "resolve"}
    /\ raised \in {"none", "persistence", "value"}
    /\ base \in Metadata
    /\ tx \in Marker \cup {None}
    /\ todo \in SUBSET AppendFiles
    /\ replacing \in BOOLEAN
    /\ acked \in Nat
    /\ ended \in Lives
    /\ faults \in Nat
    /\ crashes \in Nat

\* The evidence files hold exactly what the metadata of d describes.
Whole(d) == /\ d.metadata.covers = size
            /\ d.metadata.patterns = d.patterns

\* _rollback applied to d brings back the whole state before the unit.
Restorable(d) ==
    LET m == d.marker
    IN /\ \A f \in AppendFiles :
            IF f \in m.targets
            THEN /\ m.append_offsets[f] = m.metadata_before.covers[f]
                 /\ size[f] >= m.append_offsets[f]
            ELSE size[f] = m.metadata_before.covers[f]
       /\ IF m.patterns_before = None
          THEN d.patterns = m.metadata_before.patterns
          ELSE /\ m.patterns_before = m.metadata_before.patterns
               /\ m.patterns_before = IF d.patterns_backup = None
                                      THEN d.patterns
                                      ELSE d.patterns_backup
       /\ m.metadata_before = IF d.metadata_backup = None
                              THEN d.metadata
                              ELSE d.metadata_backup

\* A power loss at any moment leaves a directory from which recovery produces
\* the whole unit or the whole state before it, whatever step of the
\* transaction, the rollback, the cleanup or an earlier recovery it cut short.
UnitsAreWhole ==
    \A d \in images : IF RollsBack(d) THEN Restorable(d) ELSE Whole(d)

\* An admission that returned is never withdrawn: recovery from any power
\* loss keeps its evidence_seq.
AckedUnitsSurvive == \A d \in images : Resolved(d).seq >= acked

\* Between admissions the durable evidence is exactly what was acknowledged:
\* a unit whose admission raised left nothing behind.
NoPhantomUnits == pc = "idle" => \A d \in images : Resolved(d).seq = acked

\* Once the store has terminalized the session, recovery cannot revive it or
\* give it another terminal state.
TerminalIsFinal ==
    ended # "active" => \A d \in images : Resolved(d).life = ended

\* Startup recovery always finds the preimages its rollback needs.
StartupIsNeverBlocked == ctx = "startup" => ~PreimageLost

\* A stopped service that is started again ends with the interrupted session
\* terminal and with no transaction bookkeeping left.
InterruptedSessionsResolve ==
    pc = "down" ~> /\ pc = "closed"
                   /\ dir.marker = None
                   /\ dir.metadata.life # "active"

\* The session directory implements the abstract evidence log.
Log == INSTANCE EvidenceLog WITH admitted <- Resolved(dir).seq,
                                 life <- Resolved(dir).life,
                                 confirmed <- ended

\* Seen through recovery, every step of the transaction, of its rollback and
\* of a power loss is one step of the evidence log or none: a unit becomes
\* durable at the metadata rename and nowhere else.
ImplementsEvidenceLog == Log!LogSpec
-----------------------------------------------------------------------------
\* The inductive strengthening of the safety properties, for a configuration
\* whose FaultPoints are tolerable.

\* No later metadata write can change what recovery decides about d.
Quiet(d) == d.marker = None \/ d.marker.state = "committed"

\* Recovery from d is possible, and needs to restore no metadata.
Recoverable(d) == IF RollsBack(d)
                  THEN Restorable(d) /\ d.metadata = d.marker.metadata_before
                  ELSE Whole(d)

\* The marker of d belongs to the transaction in memory.
OfTransaction(d) ==
    /\ d.marker # None
    /\ d.marker.targets = tx.targets
    /\ d.marker.append_offsets = tx.append_offsets
    /\ d.marker.metadata_before = tx.metadata_before
    /\ d.marker.patterns_before = tx.patterns_before

UnlinkLabels == {"unlink_metadata", "unlink_patterns", "unlink_marker",
                 "unlink_sync"}
RecoverLabels == {"recover", "orphan_metadata", "orphan_patterns"}
PrepareLabels == {"link", "link_patterns", "begin_sync", "mark"}
UnitLabels == {"append", "patterns", "prepare", "publish"}
RollbackLabels == {"truncate", "restore_patterns", "restore_metadata",
                   "rollback_sync"}

Cleaning(why) == pc \in UnlinkLabels /\ purpose = why

Beginning == \/ pc \in RecoverLabels /\ ctx = "begin"
             \/ Cleaning("resolve") /\ ctx = "begin"
             \/ pc \in PrepareLabels

\* Every image is recoverable and keeps what callers were told.
ImagesInv ==
    \A d \in images : /\ Recoverable(d)
                      /\ Resolved(d).seq >= acked
                      /\ ended # "active" => Resolved(d).life = ended

ControlInv ==
    /\ pc \in RecoverLabels => ctx \in {"startup", "begin"}
    /\ pc \in PrepareLabels => ctx = "begin"
    /\ pc \in UnitLabels => ctx = "unit"
    /\ pc \in RollbackLabels => ctx \in {"unit", "startup"}
    /\ pc \in {"abandon", "down"} => ctx = "startup"
    /\ pc \in UnlinkLabels => purpose # "none"
    /\ Cleaning("resolve") => ctx \in {"startup", "begin"}
    /\ Cleaning("undo") => ctx \in {"unit", "startup"}
    /\ pc \in {"orphan_metadata", "orphan_patterns", "abandon"}
         => dir.marker = None
    /\ pc \in PrepareLabels => dir.marker = None
    /\ pc = "orphan_patterns" => dir.metadata_backup = None
    /\ pc \in {"unlink_patterns", "unlink_marker", "unlink_sync", "link"}
         => dir.metadata_backup = None
    /\ pc \in {"unlink_marker", "unlink_sync", "link", "link_patterns"}
         => dir.patterns_backup = None
    /\ pc = "unlink_sync" => dir.marker = None

IdleInv ==
    pc = "idle" =>
        /\ ended = "active"
        /\ \A d \in images : /\ Quiet(d)
                             /\ d.metadata = dir.metadata
                             /\ d.metadata.seq = acked

BeginInv ==
    Beginning =>
        /\ ended = "active" /\ base.seq = acked /\ base.life = "active"
        /\ \A d \in images : Quiet(d) /\ d.metadata = base

\* The marker about to be written describes the directory.
PreparedInv ==
    pc \in {"link_patterns", "begin_sync", "mark"} =>
        /\ tx # None
        /\ tx.state = "prepared"
        /\ tx.targets = todo
        /\ tx.append_offsets = size
        /\ tx.metadata_before = base
        /\ tx.patterns_before = IF replacing THEN dir.patterns ELSE None
        /\ dir.metadata_backup = base
        /\ pc = "link_patterns" => replacing
        /\ pc # "link_patterns" /\ replacing
             => dir.patterns_backup = dir.patterns

PrepareFailedInv ==
    Cleaning("prepare_failed") =>
        /\ ctx = "begin" /\ ended = "active" /\ base.seq = acked
        /\ \A d \in images : d.metadata = base /\ Whole(d)

UnitInv ==
    pc \in UnitLabels =>
        /\ ended = "active" /\ base.seq = acked /\ base.life = "active"
        /\ tx # None
        /\ tx.metadata_before = base
        /\ todo \subseteq tx.targets
        /\ replacing <=> tx.patterns_before # None
        /\ pc = "patterns" => replacing
        /\ pc # "publish" => tx.state = "prepared"
        /\ images = {dir}
        /\ dir.marker = tx
        /\ dir.metadata = base
        /\ replacing => dir.patterns_backup = tx.patterns_before

PublishInv ==
    pc = "publish" =>
        /\ tx.state = "evidence_written"
        /\ tx.expected_metadata = UnitMetadata

CommitInv ==
    pc = "commit" \/ Cleaning("commit") \/ Cleaning("commit_fallback") =>
        /\ ended = "active"
        /\ tx # None
        /\ tx.expected_metadata # None
        /\ tx.expected_metadata.seq = acked + 1
        /\ \A d \in images :
              /\ d.metadata = tx.expected_metadata
              /\ Whole(d)
              /\ \/ Quiet(d)
                 \/ /\ d.marker.state = "evidence_written"
                    /\ d.marker.expected_metadata = tx.expected_metadata
                    /\ ~Cleaning("commit")

RollbackInv ==
    pc \in RollbackLabels =>
        /\ tx # None
        /\ todo \subseteq tx.targets
        /\ \A d \in images : OfTransaction(d) /\ RollsBack(d)
        /\ pc = "truncate" => \A f \in tx.targets \ todo :
                                 size[f] = tx.append_offsets[f]
        /\ pc # "truncate" => size = tx.metadata_before.covers
        /\ pc = "restore_patterns" => tx.patterns_before # None
        /\ pc \in {"restore_metadata", "rollback_sync"}
             => dir.patterns = tx.metadata_before.patterns
        /\ ctx = "unit" => /\ ended = "active"
                           /\ tx.metadata_before = base
                           /\ base.seq = acked

UndoInv ==
    Cleaning("undo") =>
        /\ \A d \in images : Whole(d)
        /\ ctx = "unit" => /\ ended = "active" /\ base.seq = acked
                           /\ \A d \in images : d.metadata = base

FailInv ==
    pc \in {"failing", "failing_again"} =>
        /\ ended = "active"
        /\ \A d \in images : Quiet(d)

StartupInv ==
    /\ pc \in {"down", "recover"} /\ RollsBack(dir) => images = {dir}
    /\ Cleaning("resolve") => ~RollsBack(dir)

PhaseInv ==
    /\ IdleInv /\ BeginInv /\ PreparedInv /\ PrepareFailedInv
    /\ UnitInv /\ PublishInv /\ CommitInv
    /\ RollbackInv /\ UndoInv
    /\ FailInv /\ StartupInv

IInv == TypeOK /\ ControlInv /\ ImagesInv /\ PhaseInv
=============================================================================
