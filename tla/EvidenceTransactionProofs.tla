---------------------- MODULE EvidenceTransactionProofs ----------------------
(***************************************************************************)
(* Machine-checked proofs about EvidenceTransaction, for any set of append *)
(* files, any record length and any number of units, faults and crashes,   *)
(* provided the failing I/O calls are tolerable.                           *)
(*                                                                         *)
(* The safety properties speak of what recovery would do with every        *)
(* directory image, so the inductive invariant IInv relates each image to  *)
(* the step the code is at: ImagesInv is the property itself, ControlInv   *)
(* what each label implies about the bookkeeping files, and PhaseInv, one  *)
(* conjunct per phase, what the transaction in memory knows of the disk.   *)
(***************************************************************************)
EXTENDS EvidenceTransaction, TLAPS

\* The metadata a unit publishes is well formed and describes the files.
LEMMA UnitMetadataFields ==
  ASSUME base \in Metadata, size \in [AppendFiles -> Nat], dir.patterns \in Nat
  PROVE  /\ UnitMetadata \in Metadata
         /\ UnitMetadata.seq = base.seq + 1
         /\ UnitMetadata.life = base.life
         /\ UnitMetadata.covers = size
         /\ UnitMetadata.patterns = dir.patterns
  BY DEF UnitMetadata, Metadata

-----------------------------------------------------------------------------
\* Every action lemma below expands the invariant and the file primitives.
USE NoneAssumption, RecordBytesAssumption
USE DEF Tolerable, IInv, PhaseInv, TypeOK, Labels, Lives, Directory,
        Marker, Metadata
USE DEF Goto, Unsynced, Synced, SameDirectory, Succeeds, Fails,
        WriteDocument, WriteDocumentFails, disk, local, history
USE DEF Recoverable, Restorable, Whole, Resolved, RollsBack, KeepsUnit,
        MetadataMatchesExpected, Quiet, OfTransaction
USE DEF UnlinkLabels, RecoverLabels, PrepareLabels, UnitLabels,
        RollbackLabels, Cleaning, Beginning


\* An admission only reads: nothing of the directory changes.
LEMMA AdmitStep ==
  ASSUME Tolerable, IInv,
         NEW targets \in SUBSET AppendFiles, NEW replace \in BOOLEAN, Admit(targets, replace)
  PROVE  IInv'
<1>1. TypeOK'
  BY DEF Admit, IdleInv
<1>2. ControlInv'
  BY DEF Admit, ControlInv, IdleInv
<1>3. ImagesInv'
  BY DEF Admit, ControlInv, ImagesInv, IdleInv
<1>4. PhaseInv'
  BY DEF Admit, ControlInv, ImagesInv, PhaseInv, IdleInv, BeginInv,
         PreparedInv, PrepareFailedInv, UnitInv, PublishInv, CommitInv,
         RollbackInv, UndoInv, FailInv, StartupInv
<1> QED
  BY <1>1, <1>2, <1>3, <1>4

\* Linking the metadata preimage leaves the evidence whole.
LEMMA LinkStep ==
  ASSUME Tolerable, IInv,
         Link
  PROVE  IInv'
<1>1. TypeOK'
  BY DEF Link, BeginInv
<1>2. ControlInv'
  BY DEF Link, ControlInv, BeginInv
<1>3. ImagesInv'
  BY DEF Link, ControlInv, ImagesInv, BeginInv
<1>4. PhaseInv'
  BY DEF Link, ControlInv, ImagesInv, PhaseInv, IdleInv, BeginInv,
         PreparedInv, PrepareFailedInv, UnitInv, PublishInv, CommitInv,
         RollbackInv, UndoInv, FailInv, StartupInv
<1> QED
  BY <1>1, <1>2, <1>3, <1>4

\* Linking the pattern preimage leaves the evidence whole.
LEMMA LinkPatternsStep ==
  ASSUME Tolerable, IInv,
         LinkPatterns
  PROVE  IInv'
<1>1. TypeOK'
  BY DEF LinkPatterns, BeginInv, PreparedInv
<1>2. ControlInv'
  BY DEF LinkPatterns, ControlInv, BeginInv, PreparedInv
<1>3. ImagesInv'
  BY DEF LinkPatterns, ControlInv, ImagesInv, BeginInv, PreparedInv
<1>4. PhaseInv'
  BY DEF LinkPatterns, ControlInv, ImagesInv, PhaseInv, IdleInv, BeginInv,
         PreparedInv, PrepareFailedInv, UnitInv, PublishInv, CommitInv,
         RollbackInv, UndoInv, FailInv, StartupInv
<1> QED
  BY <1>1, <1>2, <1>3, <1>4

\* The fsync makes the preimages the only directory state.
LEMMA BeginSyncStep ==
  ASSUME Tolerable, IInv,
         BeginSync
  PROVE  IInv'
<1>1. TypeOK'
  BY DEF BeginSync, BeginInv, PreparedInv
<1>2. ControlInv'
  BY DEF BeginSync, ControlInv, BeginInv, PreparedInv
<1>3. ImagesInv'
  BY DEF BeginSync, ControlInv, ImagesInv, BeginInv, PreparedInv
<1>4. PhaseInv'
  BY DEF BeginSync, ControlInv, ImagesInv, PhaseInv, IdleInv, BeginInv,
         PreparedInv, PrepareFailedInv, UnitInv, PublishInv, CommitInv,
         RollbackInv, UndoInv, FailInv, StartupInv
<1> QED
  BY <1>1, <1>2, <1>3, <1>4

\* From here on recovery restores the state before the unit.
LEMMA MarkPreparedStep ==
  ASSUME Tolerable, IInv,
         MarkPrepared
  PROVE  IInv'
<1>1. TypeOK'
  BY DEF MarkPrepared, BeginInv, PreparedInv
<1>2. ControlInv'
  BY DEF MarkPrepared, ControlInv, BeginInv, PreparedInv
<1>3. ImagesInv'
  BY DEF MarkPrepared, ControlInv, ImagesInv, BeginInv, PreparedInv
<1>4. PhaseInv'
  BY DEF MarkPrepared, ControlInv, ImagesInv, PhaseInv, IdleInv, BeginInv,
         PreparedInv, PrepareFailedInv, UnitInv, PublishInv, CommitInv,
         RollbackInv, UndoInv, FailInv, StartupInv
<1> QED
  BY <1>1, <1>2, <1>3, <1>4

\* A failed preparation has touched no evidence.
LEMMA PrepareFailsStep ==
  ASSUME Tolerable, IInv,
         PrepareFails
  PROVE  IInv'
<1>1. TypeOK'
  BY DEF PrepareFails, TolerableFaults, BeginInv, PreparedInv
<1>2. ControlInv'
  BY DEF PrepareFails, TolerableFaults, ControlInv, BeginInv, PreparedInv
<1>3. ImagesInv'
  BY DEF PrepareFails, TolerableFaults, ControlInv, ImagesInv, BeginInv,
         PreparedInv
<1>4. PhaseInv'
  BY DEF PrepareFails, TolerableFaults, ControlInv, ImagesInv, PhaseInv,
         IdleInv, BeginInv, PreparedInv, PrepareFailedInv, UnitInv,
         PublishInv, CommitInv, RollbackInv, UndoInv, FailInv, StartupInv
<1> QED
  BY <1>1, <1>2, <1>3, <1>4

\* A longer append file is truncated by any recovery.
LEMMA AppendStep ==
  ASSUME Tolerable, IInv,
         NEW f \in AppendFiles, Append(f)
  PROVE  IInv'
<1>1. TypeOK'
  BY DEF Append, UnitInv
<1>2. ControlInv'
  BY DEF Append, ControlInv, UnitInv
<1>3. ImagesInv'
  BY DEF Append, ControlInv, ImagesInv, UnitInv
<1>4. PhaseInv'
  BY DEF Append, ControlInv, ImagesInv, PhaseInv, IdleInv, BeginInv,
         PreparedInv, PrepareFailedInv, UnitInv, PublishInv, CommitInv,
         RollbackInv, UndoInv, FailInv, StartupInv
<1> QED
  BY <1>1, <1>2, <1>3, <1>4

\* A torn record is truncated by any recovery.
LEMMA AppendFailsStep ==
  ASSUME Tolerable, IInv,
         NEW f \in AppendFiles, NEW k \in 0 .. RecordBytes, AppendFails(f, k)
  PROVE  IInv'
<1>1. TypeOK'
  BY DEF AppendFails, StartRollback, TolerableFaults, UnitInv
<1>2. ControlInv'
  BY DEF AppendFails, StartRollback, TolerableFaults, ControlInv, UnitInv
<1>3. ImagesInv'
  BY DEF AppendFails, StartRollback, TolerableFaults, ControlInv, ImagesInv,
         UnitInv
<1>4. PhaseInv'
  BY DEF AppendFails, StartRollback, TolerableFaults, ControlInv, ImagesInv,
         PhaseInv, IdleInv, BeginInv, PreparedInv, PrepareFailedInv, UnitInv,
         PublishInv, CommitInv, RollbackInv, UndoInv, FailInv, StartupInv
<1> QED
  BY <1>1, <1>2, <1>3, <1>4

\* The loop over the append files ends.
LEMMA AppendsDoneStep ==
  ASSUME Tolerable, IInv,
         AppendsDone
  PROVE  IInv'
<1>1. TypeOK'
  BY DEF AppendsDone, UnitInv
<1>2. ControlInv'
  BY DEF AppendsDone, ControlInv, UnitInv
<1>3. ImagesInv'
  BY DEF AppendsDone, ControlInv, ImagesInv, UnitInv
<1>4. PhaseInv'
  BY DEF AppendsDone, ControlInv, ImagesInv, PhaseInv, IdleInv, BeginInv,
         PreparedInv, PrepareFailedInv, UnitInv, PublishInv, CommitInv,
         RollbackInv, UndoInv, FailInv, StartupInv
<1> QED
  BY <1>1, <1>2, <1>3, <1>4

\* The old patterns survive as the hard-linked preimage.
LEMMA WritePatternsStep ==
  ASSUME Tolerable, IInv,
         WritePatterns
  PROVE  IInv'
<1>1. TypeOK'
  BY DEF WritePatterns, StartRollback, TolerableFaults, UnitInv
<1>2. ControlInv'
  BY DEF WritePatterns, StartRollback, TolerableFaults, ControlInv, UnitInv
<1>3. ImagesInv'
  BY DEF WritePatterns, StartRollback, TolerableFaults, ControlInv, ImagesInv,
         UnitInv
<1>4. PhaseInv'
  BY DEF WritePatterns, StartRollback, TolerableFaults, ControlInv, ImagesInv,
         PhaseInv, IdleInv, BeginInv, PreparedInv, PrepareFailedInv, UnitInv,
         PublishInv, CommitInv, RollbackInv, UndoInv, FailInv, StartupInv
<1> QED
  BY <1>1, <1>2, <1>3, <1>4

\* The advanced marker still rolls back: metadata is the old one.
LEMMA PrepareMetadataStep ==
  ASSUME Tolerable, IInv, PrepareMetadata
  PROVE  IInv'
<1> DEFINE m == UnitMetadata
           t == [tx EXCEPT !.state = "evidence_written",
                           !.expected_metadata = UnitMetadata]
           d == [dir EXCEPT !.marker = t]
<1>1. /\ m \in Metadata
      /\ m.seq = acked + 1 /\ m.life = "active"
      /\ m.covers = size /\ m.patterns = dir.patterns
  BY UnitMetadataFields DEF PrepareMetadata, UnitInv
<1>2. /\ tx \in Marker /\ t \in Marker
      /\ t.state = "evidence_written" /\ t.expected_metadata = m
      /\ t.targets = tx.targets /\ t.append_offsets = tx.append_offsets
      /\ t.metadata_before = tx.metadata_before
      /\ t.patterns_before = tx.patterns_before
  BY <1>1 DEF PrepareMetadata, UnitInv
<1>3. /\ d \in Directory
      /\ d.metadata = dir.metadata /\ d.patterns = dir.patterns
      /\ d.metadata_backup = dir.metadata_backup
      /\ d.patterns_backup = dir.patterns_backup
      /\ d.marker = t
  BY <1>2 DEF UnitInv
<1>4. /\ pc = "prepare" /\ tx' = t
      /\ UNCHANGED <<size, ctx, purpose, base, replacing, history, crashes>>
      /\ \/ /\ dir' = d /\ images' = {d} /\ pc' = "publish"
            /\ UNCHANGED <<raised, todo, faults>>
         \/ /\ \/ UNCHANGED <<dir, images>>
               \/ dir' = d /\ images' = images \cup {d}
            /\ faults' = faults + 1
            /\ pc' = "truncate" /\ raised' = "persistence"
            /\ todo' = tx.targets
  BY <1>2 DEF PrepareMetadata, StartRollback, UnitInv
<1>5. UnitMetadata' = m
  BY <1>3, <1>4 DEF UnitMetadata, UnitInv
<1> HIDE DEF m, t, d
<1>6. TypeOK'
  BY <1>2, <1>3, <1>4 DEF UnitInv
<1>7. ControlInv'
  BY <1>3, <1>4 DEF ControlInv, UnitInv
<1>8. ImagesInv'
  BY <1>1, <1>2, <1>3, <1>4 DEF ControlInv, ImagesInv, UnitInv
<1>9. PhaseInv'
  <2>1. UnitInv' /\ PublishInv'
    BY <1>1, <1>2, <1>3, <1>4, <1>5 DEF ControlInv, UnitInv, PublishInv, CommitInv,
           RollbackInv
  <2>2. RollbackInv'
    BY <1>1, <1>2, <1>3, <1>4 DEF ControlInv, UnitInv, PublishInv, CommitInv,
           RollbackInv
  <2>3. (IdleInv /\ BeginInv /\ PreparedInv /\ PrepareFailedInv /\ CommitInv
         /\ UndoInv /\ FailInv /\ StartupInv)'
    BY <1>4 DEF IdleInv, BeginInv, PreparedInv,
           PrepareFailedInv, UnitInv, PublishInv, CommitInv, UndoInv,
           FailInv, StartupInv
  <2> QED
    BY <2>1, <2>2, <2>3 DEF PhaseInv
<1> QED
  BY <1>6, <1>7, <1>8, <1>9

\* A refused metadata document starts an ordinary rollback.
LEMMA CapacityExceededStep ==
  ASSUME Tolerable, IInv,
         CapacityExceeded
  PROVE  IInv'
<1>1. TypeOK'
  BY DEF CapacityExceeded, StartRollback, UnitInv
<1>2. ControlInv'
  BY DEF CapacityExceeded, StartRollback, ControlInv, UnitInv
<1>3. ImagesInv'
  BY DEF CapacityExceeded, StartRollback, ControlInv, ImagesInv, UnitInv
<1>4. PhaseInv'
  BY DEF CapacityExceeded, StartRollback, ControlInv, ImagesInv, PhaseInv,
         IdleInv, BeginInv, PreparedInv, PrepareFailedInv, UnitInv,
         PublishInv, CommitInv, RollbackInv, UndoInv, FailInv, StartupInv
<1> QED
  BY <1>1, <1>2, <1>3, <1>4

\* The commit point: the rename makes recovery keep the unit.
LEMMA PublishMetadataStep ==
  ASSUME Tolerable, IInv, PublishMetadata
  PROVE  IInv'
<1> DEFINE m == tx.expected_metadata
           d == [dir EXCEPT !.metadata = tx.expected_metadata]
<1>1. /\ m \in Metadata /\ tx # None /\ tx.state = "evidence_written"
      /\ m.seq = acked + 1 /\ m.life = "active"
      /\ m.covers = size /\ m.patterns = dir.patterns
  BY UnitMetadataFields DEF PublishMetadata, UnitInv, PublishInv
<1>2. /\ d \in Directory
      /\ d.metadata = m /\ d.patterns = dir.patterns
      /\ d.metadata_backup = dir.metadata_backup
      /\ d.patterns_backup = dir.patterns_backup
      /\ d.marker = tx
  BY <1>1 DEF PublishMetadata, UnitInv, PublishInv
<1>3. /\ pc = "publish"
      /\ UNCHANGED <<size, ctx, purpose, base, tx, replacing, history, crashes>>
      /\ \/ /\ dir' = d /\ images' = {d} /\ pc' = "commit"
            /\ UNCHANGED <<raised, todo, faults>>
         \/ /\ UNCHANGED <<dir, images>>
            /\ faults' = faults + 1
            /\ pc' = "truncate" /\ raised' = "persistence"
            /\ todo' = tx.targets
  BY DEF PublishMetadata, StartRollback, TolerableFaults, UnitInv, PublishInv
<1> HIDE DEF m, d
<1>6. TypeOK'
  BY <1>1, <1>2, <1>3 DEF UnitInv, PublishInv
<1>7. ControlInv'
  BY <1>2, <1>3 DEF ControlInv, UnitInv, PublishInv
<1>8. ImagesInv'
  BY <1>1, <1>2, <1>3 DEF m, ControlInv, ImagesInv, UnitInv, PublishInv
<1>9. PhaseInv'
  <2>1. CommitInv'
    BY <1>1, <1>2, <1>3 DEF m, ControlInv, UnitInv, PublishInv, CommitInv,
           RollbackInv
  <2>2. RollbackInv'
    BY <1>1, <1>2, <1>3 DEF m, ControlInv, UnitInv, PublishInv, CommitInv,
           RollbackInv
  <2>3. (IdleInv /\ BeginInv /\ PreparedInv /\ PrepareFailedInv /\ UnitInv
         /\ PublishInv /\ UndoInv /\ FailInv /\ StartupInv)'
    BY <1>3 DEF IdleInv, BeginInv, PreparedInv,
           PrepareFailedInv, UnitInv, PublishInv, CommitInv, UndoInv,
           FailInv, StartupInv
  <2> QED
    BY <2>1, <2>2, <2>3 DEF PhaseInv
<1> QED
  BY <1>6, <1>7, <1>8, <1>9


\* The unit is durable whether or not the marker write succeeds.
LEMMA CommitStep ==
  ASSUME Tolerable, IInv,
         Commit
  PROVE  IInv'
<1>1. TypeOK'
  BY DEF Commit, TolerableFaults, CommitInv
<1>2. ControlInv'
  BY DEF Commit, TolerableFaults, ControlInv, CommitInv
<1>3. ImagesInv'
  BY DEF Commit, TolerableFaults, ControlInv, ImagesInv, CommitInv
<1>4. PhaseInv'
  BY DEF Commit, TolerableFaults, ControlInv, ImagesInv, PhaseInv, IdleInv,
         BeginInv, PreparedInv, PrepareFailedInv, UnitInv, PublishInv,
         CommitInv, RollbackInv, UndoInv, FailInv, StartupInv
<1> QED
  BY <1>1, <1>2, <1>3, <1>4

\* Truncating one file keeps every image restorable.
LEMMA TruncateStep ==
  ASSUME Tolerable, IInv,
         NEW f \in AppendFiles, Truncate(f)
  PROVE  IInv'
<1>1. TypeOK'
  BY DEF Truncate, RollbackInv
<1>2. ControlInv'
  BY DEF Truncate, ControlInv, RollbackInv
<1>3. ImagesInv'
  BY DEF Truncate, ControlInv, ImagesInv, RollbackInv
<1>4. PhaseInv'
  BY DEF Truncate, ControlInv, ImagesInv, PhaseInv, IdleInv, BeginInv,
         PreparedInv, PrepareFailedInv, UnitInv, PublishInv, CommitInv,
         RollbackInv, UndoInv, FailInv, StartupInv
<1> QED
  BY <1>1, <1>2, <1>3, <1>4

\* All append files are back at their offsets.
LEMMA TruncatesDoneStep ==
  ASSUME Tolerable, IInv,
         TruncatesDone
  PROVE  IInv'
<1>1. TypeOK'
  BY DEF TruncatesDone, RollbackInv
<1>2. ControlInv'
  BY DEF TruncatesDone, ControlInv, RollbackInv
<1>3. ImagesInv'
  BY DEF TruncatesDone, ControlInv, ImagesInv, RollbackInv
<1>4. PhaseInv'
  BY DEF TruncatesDone, ControlInv, ImagesInv, PhaseInv, IdleInv, BeginInv,
         PreparedInv, PrepareFailedInv, UnitInv, PublishInv, CommitInv,
         RollbackInv, UndoInv, FailInv, StartupInv
<1> QED
  BY <1>1, <1>2, <1>3, <1>4

\* The pattern preimage replaces the patterns.
LEMMA RestorePatternsStep ==
  ASSUME Tolerable, IInv, RestorePatterns
  PROVE  IInv'
<1>1. CASE dir.patterns_backup = None
  <2>1. TypeOK'
    BY <1>1 DEF RestorePatterns, RollbackInv
  <2>2. ControlInv'
    BY <1>1 DEF RestorePatterns, ControlInv, RollbackInv
  <2>3. ImagesInv'
    BY <1>1 DEF RestorePatterns, ControlInv, ImagesInv, RollbackInv
  <2>4. PhaseInv'
    BY <1>1 DEF RestorePatterns, ControlInv, ImagesInv,
           PhaseInv, IdleInv, BeginInv, PreparedInv, PrepareFailedInv,
           UnitInv, PublishInv, CommitInv, RollbackInv, UndoInv,
           FailInv, StartupInv
  <2> QED
    BY <2>1, <2>2, <2>3, <2>4
<1>2. CASE dir.patterns_backup # None
  <2> DEFINE d == [dir EXCEPT !.patterns = dir.patterns_backup,
                              !.patterns_backup = None]
  <2>1. /\ dir' = d /\ images' = images \cup {d}
        /\ pc = "restore_patterns" /\ pc' = "restore_metadata"
        /\ UNCHANGED <<size, local, history, crashes, faults>>
    BY <1>2 DEF RestorePatterns
  <2>2. /\ d \in Directory
        /\ d.metadata = dir.metadata /\ d.marker = dir.marker
        /\ d.metadata_backup = dir.metadata_backup
        /\ d.patterns = dir.patterns_backup /\ d.patterns_backup = None
    BY <1>2
  <2> HIDE DEF d
  <2>3. TypeOK'
    BY <2>1, <2>2 DEF RollbackInv
  <2>4. ControlInv'
    BY <2>1, <2>2 DEF ControlInv, RollbackInv
  <2>5. ImagesInv'
    BY <2>1, <2>2, <1>2 DEF ControlInv, ImagesInv, RollbackInv
  <2>6. PhaseInv'
    BY <2>1, <2>2, <1>2 DEF ControlInv, ImagesInv,
           PhaseInv, IdleInv, BeginInv, PreparedInv, PrepareFailedInv,
           UnitInv, PublishInv, CommitInv, RollbackInv, UndoInv,
           FailInv, StartupInv
  <2> QED
    BY <2>3, <2>4, <2>5, <2>6
<1> QED
  BY <1>1, <1>2

\* The metadata preimage replaces an equal document.
LEMMA RestoreMetadataStep ==
  ASSUME Tolerable, IInv, RestoreMetadata
  PROVE  IInv'
<1>1. CASE dir.metadata_backup = None
  <2>1. TypeOK'
    BY <1>1 DEF RestoreMetadata, RollbackInv
  <2>2. ControlInv'
    BY <1>1 DEF RestoreMetadata, ControlInv, RollbackInv
  <2>3. ImagesInv'
    BY <1>1 DEF RestoreMetadata, ControlInv, ImagesInv, RollbackInv
  <2>4. PhaseInv'
    BY <1>1 DEF RestoreMetadata, ControlInv, ImagesInv,
           PhaseInv, IdleInv, BeginInv, PreparedInv, PrepareFailedInv,
           UnitInv, PublishInv, CommitInv, RollbackInv, UndoInv,
           FailInv, StartupInv
  <2> QED
    BY <2>1, <2>2, <2>3, <2>4
<1>2. CASE dir.metadata_backup # None
  <2> DEFINE d == [dir EXCEPT !.metadata = dir.metadata_backup,
                              !.metadata_backup = None]
  <2>1. /\ dir' = d /\ images' = images \cup {d}
        /\ pc = "restore_metadata" /\ pc' = "rollback_sync"
        /\ UNCHANGED <<size, local, history, crashes, faults>>
    BY <1>2 DEF RestoreMetadata
  <2>2. /\ d \in Directory
        /\ d.metadata = dir.metadata_backup /\ d.marker = dir.marker
        /\ d.metadata_backup = None
        /\ d.patterns = dir.patterns /\ d.patterns_backup = dir.patterns_backup
    BY <1>2
  <2> HIDE DEF d
  <2>3. TypeOK'
    BY <2>1, <2>2 DEF RollbackInv
  <2>4. ControlInv'
    BY <2>1, <2>2 DEF ControlInv, RollbackInv
  <2>5. ImagesInv'
    BY <2>1, <2>2, <1>2 DEF ControlInv, ImagesInv, RollbackInv
  <2>6. PhaseInv'
    BY <2>1, <2>2, <1>2 DEF ControlInv, ImagesInv,
           PhaseInv, IdleInv, BeginInv, PreparedInv, PrepareFailedInv,
           UnitInv, PublishInv, CommitInv, RollbackInv, UndoInv,
           FailInv, StartupInv
  <2> QED
    BY <2>3, <2>4, <2>5, <2>6
<1> QED
  BY <1>1, <1>2

\* The restored documents become the only directory state.
LEMMA RollbackSyncStep ==
  ASSUME Tolerable, IInv,
         RollbackSync
  PROVE  IInv'
<1>1. TypeOK'
  BY DEF RollbackSync, RollbackInv
<1>2. ControlInv'
  BY DEF RollbackSync, ControlInv, RollbackInv
<1>3. ImagesInv'
  BY DEF RollbackSync, ControlInv, ImagesInv, RollbackInv
<1>4. PhaseInv'
  BY DEF RollbackSync, ControlInv, ImagesInv, PhaseInv, IdleInv, BeginInv,
         PreparedInv, PrepareFailedInv, UnitInv, PublishInv, CommitInv,
         RollbackInv, UndoInv, FailInv, StartupInv
<1> QED
  BY <1>1, <1>2, <1>3, <1>4

\* Impossible here: tolerable faults spare the rollback.
LEMMA RollbackFailsStep ==
  ASSUME Tolerable, IInv,
         RollbackFails
  PROVE  IInv'
<1>1. TypeOK'
  BY DEF RollbackFails, PreimageLost, UnsafeError, RaisePersistence,
         TolerableFaults, RollbackInv
<1>2. ControlInv'
  BY DEF RollbackFails, PreimageLost, UnsafeError, RaisePersistence,
         TolerableFaults, ControlInv, RollbackInv
<1>3. ImagesInv'
  BY DEF RollbackFails, PreimageLost, UnsafeError, RaisePersistence,
         TolerableFaults, ControlInv, ImagesInv, RollbackInv
<1>4. PhaseInv'
  BY DEF RollbackFails, PreimageLost, UnsafeError, RaisePersistence,
         TolerableFaults, ControlInv, ImagesInv, PhaseInv, IdleInv, BeginInv,
         PreparedInv, PrepareFailedInv, UnitInv, PublishInv, CommitInv,
         RollbackInv, UndoInv, FailInv, StartupInv
<1> QED
  BY <1>1, <1>2, <1>3, <1>4

\* The metadata preimage is no longer needed.
LEMMA UnlinkMetadataBackupStep ==
  ASSUME Tolerable, IInv,
         UnlinkMetadataBackup
  PROVE  IInv'
<1>1. TypeOK'
  BY DEF UnlinkMetadataBackup, BeginInv, CommitInv, UndoInv, PrepareFailedInv,
         StartupInv
<1>2. ControlInv'
  BY DEF UnlinkMetadataBackup, ControlInv, BeginInv, CommitInv, UndoInv,
         PrepareFailedInv, StartupInv
<1>3. ImagesInv'
  BY DEF UnlinkMetadataBackup, ControlInv, ImagesInv, BeginInv, CommitInv,
         UndoInv, PrepareFailedInv, StartupInv
<1>4. PhaseInv'
  BY DEF UnlinkMetadataBackup, ControlInv, ImagesInv, PhaseInv, IdleInv,
         BeginInv, PreparedInv, PrepareFailedInv, UnitInv, PublishInv,
         CommitInv, RollbackInv, UndoInv, FailInv, StartupInv
<1> QED
  BY <1>1, <1>2, <1>3, <1>4

\* The pattern preimage is no longer needed.
LEMMA UnlinkPatternsBackupStep ==
  ASSUME Tolerable, IInv,
         UnlinkPatternsBackup
  PROVE  IInv'
<1>1. TypeOK'
  BY DEF UnlinkPatternsBackup, BeginInv, CommitInv, UndoInv, PrepareFailedInv,
         StartupInv
<1>2. ControlInv'
  BY DEF UnlinkPatternsBackup, ControlInv, BeginInv, CommitInv, UndoInv,
         PrepareFailedInv, StartupInv
<1>3. ImagesInv'
  BY DEF UnlinkPatternsBackup, ControlInv, ImagesInv, BeginInv, CommitInv,
         UndoInv, PrepareFailedInv, StartupInv
<1>4. PhaseInv'
  BY DEF UnlinkPatternsBackup, ControlInv, ImagesInv, PhaseInv, IdleInv,
         BeginInv, PreparedInv, PrepareFailedInv, UnitInv, PublishInv,
         CommitInv, RollbackInv, UndoInv, FailInv, StartupInv
<1> QED
  BY <1>1, <1>2, <1>3, <1>4

\* Without its marker the directory is whole as it stands.
LEMMA UnlinkMarkerStep ==
  ASSUME Tolerable, IInv,
         UnlinkMarker
  PROVE  IInv'
<1>1. TypeOK'
  BY DEF UnlinkMarker, BeginInv, CommitInv, UndoInv, PrepareFailedInv,
         StartupInv
<1>2. ControlInv'
  BY DEF UnlinkMarker, ControlInv, BeginInv, CommitInv, UndoInv,
         PrepareFailedInv, StartupInv
<1>3. ImagesInv'
  BY DEF UnlinkMarker, ControlInv, ImagesInv, BeginInv, CommitInv, UndoInv,
         PrepareFailedInv, StartupInv
<1>4. PhaseInv'
  BY DEF UnlinkMarker, ControlInv, ImagesInv, PhaseInv, IdleInv, BeginInv,
         PreparedInv, PrepareFailedInv, UnitInv, PublishInv, CommitInv,
         RollbackInv, UndoInv, FailInv, StartupInv
<1> QED
  BY <1>1, <1>2, <1>3, <1>4

\* The clean directory is the only directory state.
LEMMA CleanupSyncStep ==
  ASSUME Tolerable, IInv,
         CleanupSync
  PROVE  IInv'
<1>1. TypeOK'
  BY DEF CleanupSync, Acknowledge, RecoveryDone, RaisePersistence, BeginInv,
         CommitInv, UndoInv, PrepareFailedInv, StartupInv
<1>2. ControlInv'
  BY DEF CleanupSync, Acknowledge, RecoveryDone, RaisePersistence, ControlInv,
         BeginInv, CommitInv, UndoInv, PrepareFailedInv, StartupInv
<1>3. ImagesInv'
  BY DEF CleanupSync, Acknowledge, RecoveryDone, RaisePersistence, ControlInv,
         ImagesInv, BeginInv, CommitInv, UndoInv, PrepareFailedInv, StartupInv
<1>4. PhaseInv'
  BY DEF CleanupSync, Acknowledge, RecoveryDone, RaisePersistence, ControlInv,
         ImagesInv, PhaseInv, IdleInv, BeginInv, PreparedInv,
         PrepareFailedInv, UnitInv, PublishInv, CommitInv, RollbackInv,
         UndoInv, FailInv, StartupInv
<1> QED
  BY <1>1, <1>2, <1>3, <1>4

\* A failed cleanup leaves a committed marker for the next recovery.
LEMMA CleanupFailsStep ==
  ASSUME Tolerable, IInv,
         CleanupFails
  PROVE  IInv'
<1>1. TypeOK'
  BY DEF CleanupFails, Acknowledge, UnsafeError, RaisePersistence,
         TolerableFaults, BeginInv, CommitInv, UndoInv, PrepareFailedInv,
         StartupInv
<1>2. ControlInv'
  BY DEF CleanupFails, Acknowledge, UnsafeError, RaisePersistence,
         TolerableFaults, ControlInv, BeginInv, CommitInv, UndoInv,
         PrepareFailedInv, StartupInv
<1>3. ImagesInv'
  BY DEF CleanupFails, Acknowledge, UnsafeError, RaisePersistence,
         TolerableFaults, ControlInv, ImagesInv, BeginInv, CommitInv, UndoInv,
         PrepareFailedInv, StartupInv
<1>4. PhaseInv'
  BY DEF CleanupFails, Acknowledge, UnsafeError, RaisePersistence,
         TolerableFaults, ControlInv, ImagesInv, PhaseInv, IdleInv, BeginInv,
         PreparedInv, PrepareFailedInv, UnitInv, PublishInv, CommitInv,
         RollbackInv, UndoInv, FailInv, StartupInv
<1> QED
  BY <1>1, <1>2, <1>3, <1>4

\* A restart finds one directory state, or a whole one.
LEMMA StartServiceStep ==
  ASSUME Tolerable, IInv,
         StartService
  PROVE  IInv'
<1>1. TypeOK'
  BY DEF StartService, StartupInv
<1>2. ControlInv'
  BY DEF StartService, ControlInv, StartupInv
<1>3. ImagesInv'
  BY DEF StartService, ControlInv, ImagesInv, StartupInv
<1>4. PhaseInv'
  BY DEF StartService, ControlInv, ImagesInv, PhaseInv, IdleInv, BeginInv,
         PreparedInv, PrepareFailedInv, UnitInv, PublishInv, CommitInv,
         RollbackInv, UndoInv, FailInv, StartupInv
<1> QED
  BY <1>1, <1>2, <1>3, <1>4

\* Without a marker the evidence is whole.
LEMMA RecoverNothingStep ==
  ASSUME Tolerable, IInv,
         RecoverNothing
  PROVE  IInv'
<1>1. TypeOK'
  BY DEF RecoverNothing, RecoveryDone, BeginInv, StartupInv
<1>2. ControlInv'
  BY DEF RecoverNothing, RecoveryDone, ControlInv, BeginInv, StartupInv
<1>3. ImagesInv'
  BY DEF RecoverNothing, RecoveryDone, ControlInv, ImagesInv, BeginInv,
         StartupInv
<1>4. PhaseInv'
  BY DEF RecoverNothing, RecoveryDone, ControlInv, ImagesInv, PhaseInv,
         IdleInv, BeginInv, PreparedInv, PrepareFailedInv, UnitInv,
         PublishInv, CommitInv, RollbackInv, UndoInv, FailInv, StartupInv
<1> QED
  BY <1>1, <1>2, <1>3, <1>4

\* A kept unit is whole; only bookkeeping is removed.
LEMMA RecoverCommittedStep ==
  ASSUME Tolerable, IInv,
         RecoverCommitted
  PROVE  IInv'
<1>1. TypeOK'
  BY DEF RecoverCommitted, BeginInv, StartupInv
<1>2. ControlInv'
  BY DEF RecoverCommitted, ControlInv, BeginInv, StartupInv
<1>3. ImagesInv'
  BY DEF RecoverCommitted, ControlInv, ImagesInv, BeginInv, StartupInv
<1>4. PhaseInv'
  BY DEF RecoverCommitted, ControlInv, ImagesInv, PhaseInv, IdleInv, BeginInv,
         PreparedInv, PrepareFailedInv, UnitInv, PublishInv, CommitInv,
         RollbackInv, UndoInv, FailInv, StartupInv
<1> QED
  BY <1>1, <1>2, <1>3, <1>4

\* The marker on disk becomes the transaction in memory.
LEMMA RecoverRollbackStep ==
  ASSUME Tolerable, IInv,
         RecoverRollback
  PROVE  IInv'
<1>1. TypeOK'
  BY DEF RecoverRollback, StartupInv, BeginInv
<1>2. ControlInv'
  BY DEF RecoverRollback, ControlInv, StartupInv, BeginInv
<1>3. ImagesInv'
  BY DEF RecoverRollback, ControlInv, ImagesInv, StartupInv, BeginInv
<1>4. PhaseInv'
  BY DEF RecoverRollback, ControlInv, ImagesInv, PhaseInv, IdleInv, BeginInv,
         PreparedInv, PrepareFailedInv, UnitInv, PublishInv, CommitInv,
         RollbackInv, UndoInv, FailInv, StartupInv
<1> QED
  BY <1>1, <1>2, <1>3, <1>4

\* An unreadable marker changes nothing on disk.
LEMMA RecoverFailsStep ==
  ASSUME Tolerable, IInv,
         RecoverFails
  PROVE  IInv'
<1>1. TypeOK'
  BY DEF RecoverFails, UnsafeError, RaisePersistence, TolerableFaults,
         BeginInv, StartupInv
<1>2. ControlInv'
  BY DEF RecoverFails, UnsafeError, RaisePersistence, TolerableFaults,
         ControlInv, BeginInv, StartupInv
<1>3. ImagesInv'
  BY DEF RecoverFails, UnsafeError, RaisePersistence, TolerableFaults,
         ControlInv, ImagesInv, BeginInv, StartupInv
<1>4. PhaseInv'
  BY DEF RecoverFails, UnsafeError, RaisePersistence, TolerableFaults,
         ControlInv, ImagesInv, PhaseInv, IdleInv, BeginInv, PreparedInv,
         PrepareFailedInv, UnitInv, PublishInv, CommitInv, RollbackInv,
         UndoInv, FailInv, StartupInv
<1> QED
  BY <1>1, <1>2, <1>3, <1>4

\* An orphan preimage is not needed.
LEMMA OrphanMetadataStep ==
  ASSUME Tolerable, IInv,
         OrphanMetadata
  PROVE  IInv'
<1>1. TypeOK'
  BY DEF OrphanMetadata, BeginInv, StartupInv
<1>2. ControlInv'
  BY DEF OrphanMetadata, ControlInv, BeginInv, StartupInv
<1>3. ImagesInv'
  BY DEF OrphanMetadata, ControlInv, ImagesInv, BeginInv, StartupInv
<1>4. PhaseInv'
  BY DEF OrphanMetadata, ControlInv, ImagesInv, PhaseInv, IdleInv, BeginInv,
         PreparedInv, PrepareFailedInv, UnitInv, PublishInv, CommitInv,
         RollbackInv, UndoInv, FailInv, StartupInv
<1> QED
  BY <1>1, <1>2, <1>3, <1>4

\* An orphan preimage is not needed.
LEMMA OrphanPatternsStep ==
  ASSUME Tolerable, IInv,
         OrphanPatterns
  PROVE  IInv'
<1>1. TypeOK'
  BY DEF OrphanPatterns, RecoveryDone, BeginInv, StartupInv
<1>2. ControlInv'
  BY DEF OrphanPatterns, RecoveryDone, ControlInv, BeginInv, StartupInv
<1>3. ImagesInv'
  BY DEF OrphanPatterns, RecoveryDone, ControlInv, ImagesInv, BeginInv,
         StartupInv
<1>4. PhaseInv'
  BY DEF OrphanPatterns, RecoveryDone, ControlInv, ImagesInv, PhaseInv,
         IdleInv, BeginInv, PreparedInv, PrepareFailedInv, UnitInv,
         PublishInv, CommitInv, RollbackInv, UndoInv, FailInv, StartupInv
<1> QED
  BY <1>1, <1>2, <1>3, <1>4

\* A failed removal leaves an orphan preimage.
LEMMA OrphanFailsStep ==
  ASSUME Tolerable, IInv,
         OrphanFails
  PROVE  IInv'
<1>1. TypeOK'
  BY DEF OrphanFails, UnsafeError, RaisePersistence, TolerableFaults,
         BeginInv, StartupInv
<1>2. ControlInv'
  BY DEF OrphanFails, UnsafeError, RaisePersistence, TolerableFaults,
         ControlInv, BeginInv, StartupInv
<1>3. ImagesInv'
  BY DEF OrphanFails, UnsafeError, RaisePersistence, TolerableFaults,
         ControlInv, ImagesInv, BeginInv, StartupInv
<1>4. PhaseInv'
  BY DEF OrphanFails, UnsafeError, RaisePersistence, TolerableFaults,
         ControlInv, ImagesInv, PhaseInv, IdleInv, BeginInv, PreparedInv,
         PrepareFailedInv, UnitInv, PublishInv, CommitInv, RollbackInv,
         UndoInv, FailInv, StartupInv
<1> QED
  BY <1>1, <1>2, <1>3, <1>4

\* Only the lifecycle field changes, and no marker can undo it.
LEMMA EndSessionStep ==
  ASSUME Tolerable, IInv,
         EndSession
  PROVE  IInv'
<1>1. TypeOK'
  BY DEF EndSession, Terminalize, TolerableFaults, IdleInv
<1>2. ControlInv'
  BY DEF EndSession, Terminalize, TolerableFaults, ControlInv, IdleInv
<1>3. ImagesInv'
  BY DEF EndSession, Terminalize, TolerableFaults, ControlInv, ImagesInv,
         IdleInv
<1>4. PhaseInv'
  BY DEF EndSession, Terminalize, TolerableFaults, ControlInv, ImagesInv,
         PhaseInv, IdleInv, BeginInv, PreparedInv, PrepareFailedInv, UnitInv,
         PublishInv, CommitInv, RollbackInv, UndoInv, FailInv, StartupInv
<1> QED
  BY <1>1, <1>2, <1>3, <1>4

\* Only the lifecycle field changes, and no marker can undo it.
LEMMA FailSessionStep ==
  ASSUME Tolerable, IInv,
         FailSession
  PROVE  IInv'
<1>1. TypeOK'
  BY DEF FailSession, Terminalize, TolerableFaults, FailInv
<1>2. ControlInv'
  BY DEF FailSession, Terminalize, TolerableFaults, ControlInv, FailInv
<1>3. ImagesInv'
  BY DEF FailSession, Terminalize, TolerableFaults, ControlInv, ImagesInv,
         FailInv
<1>4. PhaseInv'
  BY DEF FailSession, Terminalize, TolerableFaults, ControlInv, ImagesInv,
         PhaseInv, IdleInv, BeginInv, PreparedInv, PrepareFailedInv, UnitInv,
         PublishInv, CommitInv, RollbackInv, UndoInv, FailInv, StartupInv
<1> QED
  BY <1>1, <1>2, <1>3, <1>4

\* Only the lifecycle field changes, and no marker can undo it.
LEMMA AbandonSessionStep ==
  ASSUME Tolerable, IInv,
         AbandonSession
  PROVE  IInv'
<1>1. TypeOK'
  BY DEF AbandonSession, Terminalize, TolerableFaults
<1>2. ControlInv'
  BY DEF AbandonSession, Terminalize, TolerableFaults, ControlInv
<1>3. ImagesInv'
  BY DEF AbandonSession, Terminalize, TolerableFaults, ControlInv, ImagesInv
<1>4. PhaseInv'
  BY DEF AbandonSession, Terminalize, TolerableFaults, ControlInv, ImagesInv,
         PhaseInv, IdleInv, BeginInv, PreparedInv, PrepareFailedInv, UnitInv,
         PublishInv, CommitInv, RollbackInv, UndoInv, FailInv, StartupInv
<1> QED
  BY <1>1, <1>2, <1>3, <1>4

\* A terminal session is left alone.
LEMMA AlreadyTerminalStep ==
  ASSUME Tolerable, IInv,
         AlreadyTerminal
  PROVE  IInv'
<1>1. TypeOK'
  BY DEF AlreadyTerminal
<1>2. ControlInv'
  BY DEF AlreadyTerminal, ControlInv
<1>3. ImagesInv'
  BY DEF AlreadyTerminal, ControlInv, ImagesInv
<1>4. PhaseInv'
  BY DEF AlreadyTerminal, ControlInv, ImagesInv, PhaseInv, IdleInv, BeginInv,
         PreparedInv, PrepareFailedInv, UnitInv, PublishInv, CommitInv,
         RollbackInv, UndoInv, FailInv, StartupInv
<1> QED
  BY <1>1, <1>2, <1>3, <1>4

\* A power loss leaves one of the images.
LEMMA CrashStep ==
  ASSUME Tolerable, IInv, Crash
  PROVE  IInv'
<1>a. NoMetadata \in Metadata
  BY DEF NoMetadata
<1>1. TypeOK'
  <2>1. dir' \in Directory /\ images' = {dir'}
    BY DEF Crash
  <2>2. UNCHANGED <<size, acked, ended, faults>> /\ crashes' \in Nat
    BY BoundsAssumption DEF Crash
  <2>3. /\ pc' = "down" /\ ctx' = "startup" /\ purpose' = "none"
        /\ raised' = "none" /\ base' = NoMetadata /\ tx' = None
        /\ todo' = {} /\ replacing' = FALSE
    BY DEF Crash
  <2> QED
    BY <1>a, <2>1, <2>2, <2>3
<1>2. ControlInv'
  BY DEF Crash, ControlInv
<1>3. ImagesInv'
  BY DEF Crash, ControlInv, ImagesInv
<1>4. PhaseInv'
  BY DEF Crash, ControlInv, ImagesInv,
         PhaseInv, IdleInv, BeginInv, PreparedInv, PrepareFailedInv,
         UnitInv, PublishInv, CommitInv, RollbackInv, UndoInv,
         FailInv, StartupInv
<1> QED
  BY <1>1, <1>2, <1>3, <1>4

-----------------------------------------------------------------------------
\* A new session directory satisfies the inductive invariant.
LEMMA InitEstablishes == ASSUME Init PROVE IInv
<1>1. /\ images = {dir} /\ dir.marker = None /\ dir.metadata = NoMetadata
      /\ dir.patterns = 0 /\ pc = "idle" /\ ended = "active" /\ acked = 0
  BY DEF Init
<1>2. NoMetadata \in Metadata
  BY DEF NoMetadata
<1>3. TypeOK
  <2>1. dir \in Directory
    BY <1>2 DEF Init
  <2>2. base = NoMetadata /\ tx = None /\ size \in [AppendFiles -> Nat]
    BY DEF Init
  <2> QED
    BY <1>1, <1>2, <2>1, <2>2 DEF Init
<1>4. ControlInv /\ ImagesInv
  BY <1>1 DEF Init, NoMetadata, ControlInv, ImagesInv
<1>5. PhaseInv
  BY <1>1 DEF NoMetadata, IdleInv, BeginInv, PreparedInv, PrepareFailedInv,
         UnitInv, PublishInv, CommitInv, RollbackInv, UndoInv, FailInv,
         StartupInv
<1> QED
  BY <1>3, <1>4, <1>5

\* Every step of the code, every tolerable I/O failure and every power loss
\* preserves the inductive invariant.
LEMMA NextPreserves == ASSUME Tolerable, IInv, [Next]_vars PROVE IInv'
<1> USE DEF vars
<1>1. CASE Body
  <2>1. CASE \E targets \in SUBSET AppendFiles, replace \in BOOLEAN :
                Admit(targets, replace)
    <3>1. PICK targets \in SUBSET AppendFiles, replace \in BOOLEAN :
             Admit(targets, replace)
      BY <2>1, Zenon
    <3> HIDE DEF IInv
    <3> QED
      BY <3>1, AdmitStep
  <2>2. CASE \E f \in AppendFiles :
                Append(f) \/ \E k \in 0 .. RecordBytes : AppendFails(f, k)
    BY <2>2, AppendStep, AppendFailsStep, Zenon
  <2>3. CASE Link \/ LinkPatterns \/ BeginSync \/ MarkPrepared \/ PrepareFails
    BY <2>3, LinkStep, LinkPatternsStep, BeginSyncStep, MarkPreparedStep,
       PrepareFailsStep, Zenon
  <2>4. CASE \/ AppendsDone \/ WritePatterns \/ PrepareMetadata
             \/ CapacityExceeded \/ PublishMetadata \/ Commit
    BY <2>4, AppendsDoneStep, WritePatternsStep, PrepareMetadataStep,
       CapacityExceededStep, PublishMetadataStep, CommitStep, Zenon
  <2> QED
    BY <1>1, <2>1, <2>2, <2>3, <2>4, Zenon DEF Body
<1>2. CASE Rollback
  BY <1>2, TruncateStep, TruncatesDoneStep, RestorePatternsStep,
     RestoreMetadataStep, RollbackSyncStep, RollbackFailsStep, Zenon
     DEF Rollback
<1>3. CASE Cleanup
  BY <1>3, UnlinkMetadataBackupStep, UnlinkPatternsBackupStep,
     UnlinkMarkerStep, CleanupSyncStep, CleanupFailsStep, Zenon DEF Cleanup
<1>4. CASE Recovery
  BY <1>4, StartServiceStep, RecoverNothingStep, RecoverCommittedStep,
     RecoverRollbackStep, RecoverFailsStep, OrphanMetadataStep,
     OrphanPatternsStep, OrphanFailsStep, Zenon DEF Recovery
<1>5. CASE Lifecycle
  BY <1>5, EndSessionStep, FailSessionStep, AbandonSessionStep,
     AlreadyTerminalStep, Zenon DEF Lifecycle
<1>6. CASE Crash
  BY <1>6, CrashStep, Zenon
<1>7. CASE UNCHANGED vars
  <2>1. TypeOK' /\ ControlInv' /\ ImagesInv'
    BY <1>7 DEF ControlInv, ImagesInv
  <2>2. PhaseInv'
    BY <1>7 DEF IdleInv, BeginInv, PreparedInv, PrepareFailedInv, UnitInv,
           PublishInv, UnitMetadata, CommitInv, RollbackInv, UndoInv,
           FailInv, StartupInv
  <2> QED
    BY <2>1, <2>2
<1> QED
  BY <1>1, <1>2, <1>3, <1>4, <1>5, <1>6, <1>7, Zenon DEF Next, Run

\* The inductive invariant holds throughout.
THEOREM InductiveInvariant == ASSUME Tolerable PROVE Spec => []IInv
<1>1. Init => IInv
  BY InitEstablishes, Zenon
<1>2. IInv /\ [Next]_vars => IInv'
  BY NextPreserves, Zenon
<1> QED
  BY <1>1, <1>2, PTL DEF Spec

\* The directory, the marker and the local state of the transaction code are
\* always well typed; in particular the in-memory marker exists whenever a
\* step reads it.
THEOREM TypeCorrect == ASSUME Tolerable PROVE Spec => []TypeOK
<1>1. IInv => TypeOK
  BY Zenon
<1> QED
  BY <1>1, InductiveInvariant, PTL

\* Recovery after a power loss at any step yields the whole unit or none of
\* it (recover_evidence_transaction, _rollback, _cleanup).
THEOREM UnitsStayWhole == ASSUME Tolerable PROVE Spec => []UnitsAreWhole
<1>1. IInv => UnitsAreWhole
  BY DEF UnitsAreWhole, ImagesInv
<1> QED
  BY <1>1, InductiveInvariant, PTL

\* No power loss, rollback or recovery withdraws an acknowledged unit.
THEOREM AcknowledgedUnitsSurvive ==
  ASSUME Tolerable PROVE Spec => []AckedUnitsSurvive
<1>1. IInv => AckedUnitsSurvive
  BY DEF AckedUnitsSurvive, ImagesInv
<1> QED
  BY <1>1, InductiveInvariant, PTL

\* An admission that raised left no unit behind.
THEOREM NoPhantoms == ASSUME Tolerable PROVE Spec => []NoPhantomUnits
<1>1. IInv => NoPhantomUnits
  BY DEF NoPhantomUnits, IdleInv
<1> QED
  BY <1>1, InductiveInvariant, PTL

\* Recovery neither revives a terminal session nor changes how it ended.
THEOREM TerminalStaysFinal == ASSUME Tolerable PROVE Spec => []TerminalIsFinal
<1>1. IInv => TerminalIsFinal
  BY DEF TerminalIsFinal, ImagesInv
<1> QED
  BY <1>1, InductiveInvariant, PTL

\* Startup recovery never meets a rollback it cannot perform.
THEOREM StartupNeverBlocked ==
  ASSUME Tolerable PROVE Spec => []StartupIsNeverBlocked
<1>1. IInv => StartupIsNeverBlocked
  <2> SUFFICES ASSUME IInv, PreimageLost PROVE FALSE
    BY DEF StartupIsNeverBlocked
  <2>1. pc \in RollbackLabels /\ dir \in images
    BY DEF PreimageLost
  <2>2. OfTransaction(dir) /\ RollsBack(dir) /\ tx # None
        /\ todo \subseteq tx.targets
    BY <2>1 DEF RollbackInv
  <2>3. Restorable(dir) /\ dir.metadata = tx.metadata_before
    BY <2>1, <2>2 DEF ImagesInv
  <2>4. \A f \in todo : size[f] >= tx.append_offsets[f]
    BY <2>2, <2>3
  <2>5. pc = "restore_patterns" => tx.patterns_before # None
    BY <2>1 DEF RollbackInv
  <2> QED
    BY <2>2, <2>3, <2>4, <2>5 DEF PreimageLost
<1> QED
  BY <1>1, InductiveInvariant, PTL

-----------------------------------------------------------------------------
\* The directory implements the evidence log.

\* The images that a power loss may bring back differ in their log at most by
\* a terminal state that the newest has and the store has not confirmed.
LogInv ==
    \A d \in images : /\ d.metadata.seq = dir.metadata.seq
                      /\ d.metadata.life \in {dir.metadata.life, "active"}

\* Recovery finds the metadata it has: a rollback has none to restore.
LEMMA ResolvedMetadata ==
  ASSUME IInv, NEW d \in images
  PROVE  Resolved(d) = d.metadata
  BY DEF ImagesInv, Recoverable, Resolved

\* What the log shows of the directory.
LEMMA LogState ==
  ASSUME IInv
  PROVE  /\ Resolved(dir) = dir.metadata
         /\ dir.metadata.seq \in Nat /\ acked \in Nat
         /\ ended # "active" => \A d \in images : d.metadata.life = ended
<1>1. dir \in images /\ dir.metadata.seq \in Nat /\ acked \in Nat
  OBVIOUS
<1>2. ended # "active" => \A d \in images : d.metadata.life = ended
  BY ResolvedMetadata DEF ImagesInv
<1> QED
  BY <1>1, <1>2, ResolvedMetadata

\* Steps of the directory that leave the log as it is.
QuietStep == /\ dir'.metadata = dir.metadata
             /\ images' \subseteq images \cup {dir'}
             /\ UNCHANGED <<acked, ended>>

LEMMA BodyQuiet ==
  ASSUME Tolerable, IInv,
         \/ \E targets \in SUBSET AppendFiles, replace \in BOOLEAN :
               Admit(targets, replace)
         \/ Link \/ LinkPatterns \/ BeginSync \/ MarkPrepared \/ PrepareFails
         \/ \E f \in AppendFiles :
               Append(f) \/ \E k \in 0 .. RecordBytes : AppendFails(f, k)
         \/ AppendsDone \/ WritePatterns \/ PrepareMetadata \/ CapacityExceeded
         \/ Commit
  PROVE  QuietStep
<1>1. dir \in Directory
  OBVIOUS
<1>2. CASE \E targets \in SUBSET AppendFiles, replace \in BOOLEAN :
              Admit(targets, replace)
  BY <1>2 DEF Admit, QuietStep
<1>3. CASE Link \/ LinkPatterns \/ BeginSync
  BY <1>1, <1>3 DEF Link, LinkPatterns, BeginSync, QuietStep
<1>4. CASE MarkPrepared
  BY <1>1, <1>4 DEF MarkPrepared, QuietStep
<1>5. CASE PrepareFails
  BY <1>1, <1>5 DEF PrepareFails, QuietStep
<1>6. CASE \E f \in AppendFiles :
              Append(f) \/ \E k \in 0 .. RecordBytes : AppendFails(f, k)
  BY <1>6 DEF Append, AppendFails, QuietStep
<1>7. CASE AppendsDone \/ CapacityExceeded
  BY <1>7 DEF AppendsDone, CapacityExceeded, QuietStep
<1>8. CASE WritePatterns
  BY <1>1, <1>8 DEF WritePatterns, QuietStep
<1>9. CASE PrepareMetadata
  BY <1>1, <1>9 DEF PrepareMetadata, QuietStep
<1>10. CASE Commit
  BY <1>1, <1>10 DEF Commit, QuietStep
<1> QED
  BY <1>2, <1>3, <1>4, <1>5, <1>6, <1>7, <1>8, <1>9, <1>10

\* A rollback puts back the metadata that is there already.
LEMMA RollbackQuiet ==
  ASSUME Tolerable, IInv, Rollback
  PROVE  QuietStep
<1>1. dir \in Directory
  OBVIOUS
<1>2. CASE \E f \in AppendFiles : Truncate(f)
  BY <1>2 DEF Truncate, QuietStep
<1>3. CASE TruncatesDone
  BY <1>3 DEF TruncatesDone, QuietStep
<1>4. CASE RestorePatterns
  BY <1>1, <1>4 DEF RestorePatterns, QuietStep
<1>5. CASE RestoreMetadata
  <2>1. /\ pc = "restore_metadata" /\ UNCHANGED <<acked, ended>>
        /\ \/ /\ dir.metadata_backup # None
              /\ dir' = [dir EXCEPT !.metadata = dir.metadata_backup,
                                    !.metadata_backup = None]
              /\ images' = images \cup {dir'}
           \/ UNCHANGED <<dir, images>>
    BY <1>5 DEF RestoreMetadata
  <2>2. dir \in images /\ RollsBack(dir)
    BY <2>1 DEF RollbackInv
  <2>3. dir.metadata = dir.marker.metadata_before /\ Restorable(dir)
    BY <2>2 DEF ImagesInv
  <2>4. dir.metadata_backup # None => dir.metadata_backup = dir.metadata
    BY <2>3
  <2> QED
    BY <1>1, <2>1, <2>4 DEF QuietStep
<1>6. CASE RollbackSync
  BY <1>6 DEF RollbackSync, QuietStep
<1>7. CASE RollbackFails
  BY <1>7 DEF RollbackFails, UnsafeError, RaisePersistence, QuietStep
<1> QED
  BY <1>2, <1>3, <1>4, <1>5, <1>6, <1>7 DEF Rollback

\* Recovery and the removal of the bookkeeping files.
LEMMA RecoveryQuiet ==
  ASSUME Tolerable, IInv,
         \/ UnlinkMetadataBackup \/ UnlinkPatternsBackup \/ UnlinkMarker
         \/ Recovery \/ AlreadyTerminal
  PROVE  QuietStep
<1>1. dir \in Directory
  OBVIOUS
<1>2. CASE UnlinkMetadataBackup \/ UnlinkPatternsBackup \/ UnlinkMarker
  BY <1>1, <1>2 DEF UnlinkMetadataBackup, UnlinkPatternsBackup, UnlinkMarker, QuietStep
<1>3. CASE StartService \/ RecoverNothing \/ RecoverCommitted \/ RecoverRollback
  BY <1>3 DEF StartService, RecoverNothing, RecoverCommitted, RecoverRollback,
              RecoveryDone, QuietStep
<1>4. CASE RecoverFails
  BY <1>4 DEF RecoverFails, UnsafeError, RaisePersistence, QuietStep
<1>5. CASE OrphanMetadata \/ OrphanPatterns
  BY <1>1, <1>5 DEF OrphanMetadata, OrphanPatterns, RecoveryDone, QuietStep
<1>6. CASE OrphanFails
  BY <1>1, <1>6 DEF OrphanFails, UnsafeError, RaisePersistence, QuietStep
<1>7. CASE AlreadyTerminal
  BY <1>7 DEF AlreadyTerminal, QuietStep
<1> QED
  BY <1>2, <1>3, <1>4, <1>5, <1>6, <1>7 DEF Recovery

\* The metadata rename is where a unit enters the log.
LEMMA PublishLog ==
  ASSUME Tolerable, IInv, PublishMetadata
  PROVE  \/ QuietStep
         \/ /\ dir.metadata.life = "active" /\ dir.metadata.seq = acked
            /\ dir'.metadata.seq = acked + 1 /\ dir'.metadata.life = "active"
            /\ images' = {dir'} /\ UNCHANGED <<acked, ended>>
<1>1. /\ pc = "publish" /\ UNCHANGED <<acked, ended>>
      /\ \/ /\ dir' = [dir EXCEPT !.metadata = tx.expected_metadata]
            /\ images' = {dir'}
         \/ UNCHANGED <<dir, images>>
  BY DEF PublishMetadata, TolerableFaults
<1>2. /\ base.seq = acked /\ base.life = "active" /\ dir.metadata = base
      /\ tx.expected_metadata = UnitMetadata
  BY <1>1 DEF UnitInv, PublishInv
<1>3. UnitMetadata.seq = base.seq + 1 /\ UnitMetadata.life = base.life
  BY UnitMetadataFields
<1>4. [dir EXCEPT !.metadata = tx.expected_metadata].metadata = UnitMetadata
  BY <1>2
<1> QED
  BY <1>1, <1>2, <1>3, <1>4 DEF QuietStep

\* The end of a cleanup acknowledges the unit of a commit, and nothing else.
LEMMA CleanupLog ==
  ASSUME Tolerable, IInv, CleanupSync \/ CleanupFails
  PROVE  \/ QuietStep
         \/ /\ dir' = dir /\ images' \subseteq images \cup {dir'}
            /\ dir.metadata.seq = acked + 1 /\ acked' = dir.metadata.seq
            /\ ended' = ended
<1>1. /\ dir' = dir /\ images' \subseteq images \cup {dir'}
      /\ \/ UNCHANGED <<acked, ended>>
         \/ /\ pc \in UnlinkLabels /\ purpose \in {"commit", "commit_fallback"}
            /\ acked' = tx.expected_metadata.seq /\ ended' = ended
  <2>1. CASE CleanupSync
    BY <2>1 DEF CleanupSync, Acknowledge, RaisePersistence, RecoveryDone
  <2>2. CASE CleanupFails
    BY <2>2 DEF CleanupFails, Acknowledge, RaisePersistence, UnsafeError
  <2> QED
    BY <2>1, <2>2
<1>2. CASE /\ pc \in UnlinkLabels /\ purpose \in {"commit", "commit_fallback"}
           /\ acked' = tx.expected_metadata.seq /\ ended' = ended
  <2>1. tx.expected_metadata.seq = acked + 1 /\ dir.metadata = tx.expected_metadata
    BY <1>2 DEF CommitInv
  <2> QED
    BY <1>1, <1>2, <2>1
<1> QED
  BY <1>1, <1>2 DEF QuietStep

\* A terminal document ends the session in the log; the store confirms it only
\* when it is durable.
LEMMA TerminalLog ==
  ASSUME Tolerable, IInv, EndSession \/ FailSession \/ AbandonSession
  PROVE  \/ QuietStep
         \/ /\ dir.metadata.life = "active"
            /\ dir'.metadata.life \in {"completed", "failed", "abandoned"}
            /\ dir'.metadata.seq = dir.metadata.seq
            /\ images' \subseteq images \cup {dir'} /\ acked' = acked
            /\ ended' \in {ended, dir'.metadata.life}
<1>1. PICK life \in {"completed", "failed", "abandoned"}, ok \in Labels, failed \in Labels :
         Terminalize(life, ok, failed)
  <2>1. CASE EndSession
    <3>1. PICK life \in {"completed", "failed"} : Terminalize(life, "closed", "closed")
      BY <2>1 DEF EndSession
    <3> QED
      BY <3>1
  <2>2. CASE FailSession
    BY <2>2 DEF FailSession
  <2>3. CASE AbandonSession
    BY <2>3 DEF AbandonSession
  <2> QED
    BY <2>1, <2>2, <2>3
<1> DEFINE d == [dir EXCEPT !.metadata.life = life]
<1>2. /\ dir.metadata.life = "active" /\ acked' = acked
      /\ \/ dir' = d /\ images' = {d} /\ ended' = life
         \/ dir' = dir /\ images' = images /\ ended' = ended
         \/ dir' = d /\ images' = images \cup {d} /\ ended' = ended
  BY <1>1 DEF Terminalize
<1>3. d.metadata.life = life /\ d.metadata.seq = dir.metadata.seq
  <2>1. dir \in Directory /\ dir.metadata \in Metadata
    OBVIOUS
  <2> QED
    BY <2>1
<1> HIDE DEF d
<1>4. \/ QuietStep
      \/ dir' = d /\ images' \subseteq images \cup {d} /\ ended' \in {ended, life}
  BY <1>2 DEF QuietStep
<1> QED
  BY <1>2, <1>3, <1>4

\* A power loss brings back one of the images.
LEMMA CrashLog ==
  ASSUME Tolerable, IInv, LogInv, Crash
  PROVE  /\ images' = {dir'} /\ UNCHANGED <<acked, ended>>
         /\ dir'.metadata.seq = dir.metadata.seq
         /\ \/ dir'.metadata.life = dir.metadata.life
            \/ dir'.metadata.life = "active" /\ ended = "active"
<1>1. dir' \in images /\ images' = {dir'} /\ UNCHANGED <<acked, ended>>
  BY DEF Crash
<1>2. dir \in images
  OBVIOUS
<1>3. ended # "active" => dir'.metadata.life = ended /\ dir.metadata.life = ended
  BY <1>1, <1>2, LogState
<1>4. /\ dir'.metadata.seq = dir.metadata.seq
      /\ dir'.metadata.life \in {dir.metadata.life, "active"}
  BY <1>1 DEF LogInv
<1> QED
  BY <1>1, <1>3, <1>4

\* Every step of the directory is a step of the log, or none.
LEMMA NextLog ==
  ASSUME Tolerable, IInv, IInv', LogInv, [Next]_vars
  PROVE  LogInv' /\ [Log!LogNext]_(Log!logVars)
<1>1. /\ Resolved(dir) = dir.metadata /\ Resolved(dir)' = dir'.metadata
      /\ dir.metadata.seq \in Nat /\ acked \in Nat
  <2>1. dir' \in images' /\ ImagesInv'
    OBVIOUS
  <2>2. Resolved(dir)' = dir'.metadata
    BY <2>1 DEF ImagesInv
  <2> QED
    BY <2>2, LogState
<1>2. dir \in images
  OBVIOUS
<1> HIDE DEF IInv, PhaseInv, TypeOK, Resolved
<1> USE DEF LogInv
<1>3. CASE QuietStep
  <2>1. LogInv'
    BY <1>3 DEF QuietStep
  <2>2. UNCHANGED Log!logVars
    BY <1>1, <1>3 DEF QuietStep, Log!logVars
  <2> QED
    BY <2>1, <2>2
<1>4. CASE /\ dir.metadata.life = "active" /\ dir.metadata.seq = acked
           /\ dir'.metadata.seq = acked + 1 /\ dir'.metadata.life = "active"
           /\ images' = {dir'} /\ UNCHANGED <<acked, ended>>
  <2>1. LogInv'
    BY <1>4
  <2>2. Log!AdmitUnit
    BY <1>1, <1>4 DEF Log!AdmitUnit
  <2> QED
    BY <2>1, <2>2 DEF Log!LogNext
<1>5. CASE /\ dir' = dir /\ images' \subseteq images \cup {dir'}
           /\ dir.metadata.seq = acked + 1 /\ acked' = dir.metadata.seq
           /\ ended' = ended
  <2>1. LogInv'
    BY <1>5
  <2>2. Log!AcknowledgeUnit
    BY <1>1, <1>5 DEF Log!AcknowledgeUnit
  <2> QED
    BY <2>1, <2>2 DEF Log!LogNext
<1>6. CASE /\ dir.metadata.life = "active"
           /\ dir'.metadata.life \in {"completed", "failed", "abandoned"}
           /\ dir'.metadata.seq = dir.metadata.seq
           /\ images' \subseteq images \cup {dir'} /\ acked' = acked
           /\ ended' \in {ended, dir'.metadata.life}
  <2>1. LogInv'
    BY <1>6
  <2>2. Log!EndSession
    BY <1>1, <1>6 DEF Log!EndSession, Log!TerminalLives
  <2> QED
    BY <2>1, <2>2 DEF Log!LogNext
<1>7. CASE Crash
  <2>1. /\ images' = {dir'} /\ UNCHANGED <<acked, ended>>
        /\ dir'.metadata.seq = dir.metadata.seq
        /\ \/ dir'.metadata.life = dir.metadata.life
           \/ dir'.metadata.life = "active" /\ ended = "active"
    BY <1>7, CrashLog
  <2>2. LogInv'
    BY <2>1
  <2>3. CASE dir'.metadata.life = dir.metadata.life
    <3>1. UNCHANGED Log!logVars
      BY <1>1, <2>1, <2>3 DEF Log!logVars
    <3> QED
      BY <2>2, <3>1
  <2>4. CASE dir'.metadata.life = "active" /\ ended = "active"
    <3>1. Log!ForgetEnd
      BY <1>1, <2>1, <2>4 DEF Log!ForgetEnd
    <3> QED
      BY <2>2, <3>1 DEF Log!LogNext
  <2> QED
    BY <2>1, <2>3, <2>4
<1>8. CASE UNCHANGED vars
  <2>1. QuietStep
    BY <1>8 DEF QuietStep, vars
  <2> QED
    BY <1>3, <2>1
<1>9. CASE Run
  <2>1. Body => PublishMetadata \/ QuietStep
    BY BodyQuiet DEF Body
  <2>2. Rollback => QuietStep
    BY RollbackQuiet
  <2>3. Cleanup => CleanupSync \/ CleanupFails \/ QuietStep
    BY RecoveryQuiet DEF Cleanup
  <2>4. Recovery => QuietStep
    BY RecoveryQuiet
  <2>5. Lifecycle => (EndSession \/ FailSession \/ AbandonSession) \/ QuietStep
    BY RecoveryQuiet DEF Lifecycle
  <2>6. CASE PublishMetadata
    BY <1>3, <1>4, <2>6, PublishLog
  <2>7. CASE CleanupSync \/ CleanupFails
    BY <1>3, <1>5, <2>7, CleanupLog
  <2>8. CASE EndSession \/ FailSession \/ AbandonSession
    BY <1>3, <1>6, <2>8, TerminalLog
  <2> QED
    BY <1>3, <1>9, <2>1, <2>2, <2>3, <2>4, <2>5, <2>6, <2>7, <2>8 DEF Run
<1> QED
  BY <1>7, <1>8, <1>9 DEF Next

\* The session directory, seen through recovery, implements the evidence log:
\* a unit becomes durable at the metadata rename and nowhere else, is never
\* withdrawn, and only an unconfirmed end can be undone by a power loss.
THEOREM DirectoryImplementsLog ==
  ASSUME Tolerable PROVE Spec => ImplementsEvidenceLog
<1>1. Init => LogInv /\ Log!LogInit
  <2>1. SUFFICES ASSUME Init PROVE LogInv /\ Log!LogInit
    OBVIOUS
  <2>2. /\ images = {dir} /\ dir.metadata = NoMetadata /\ dir.marker = None
        /\ acked = 0 /\ ended = "active"
    BY <2>1 DEF Init
  <2>3. Resolved(dir) = dir.metadata /\ NoMetadata.seq = 0
        /\ NoMetadata.life = "active"
    BY <2>2 DEF NoMetadata
  <2> QED
    BY <2>2, <2>3 DEF LogInv, Log!LogInit
<1>2. IInv /\ IInv' /\ LogInv /\ [Next]_vars => LogInv' /\ [Log!LogNext]_(Log!logVars)
  BY NextLog
<1>3. Spec => []IInv
  BY InductiveInvariant
<1> QED
  BY <1>1, <1>2, <1>3, PTL DEF Spec, ImplementsEvidenceLog, Log!LogSpec
=============================================================================
