----------------------------- MODULE BackupProofs -----------------------------
(***************************************************************************)
(* Theorems about Backup: backups leave the keyring alone, archives can be *)
(* restored with their own keys, and a restore that reports success is     *)
(* whole.  The invariant of KeyringProofs is what makes a snapshot of the  *)
(* rows readable with a bundle that is still the keyring file.             *)
(***************************************************************************)
EXTENDS Backup, KeyringProofs

(* Every backup step leaves the keyring and the credentials alone.         *)
LEMMA BackupNextIsNext == [BackupNext]_allVars => [Next]_vars
BY DEF BackupNext, BackupStep, RestoreStep, CheckOutput, ReadKeys, Snapshot, DumpEnds,
       Publish, BackupStops, Damage, Authenticate, RestoreStops, BeginLoad, LoadEnds,
       LoadFails, OpenDirectory, KeysWritten, RecoveryFails, OnlyBackup, OnlyRestore, allVars

(* What a dump can be read with.                                           *)
Consistent(c) == c.same => \A m \in Mailboxes : c.rows[m] \in Readable(c.bundle)

Dumped ==
    \A b \in Backups :
        /\ backup[b].pc = "reading" => backup[b].content.seen = backup[b].content.bundle
        /\ backup[b].pc \in {"dumping", "ended"} => Consistent(backup[b].content)
Restoring ==
    /\ restore.pc # "idle" => restore.intact /\ UsableContent(restore.content)
    /\ restore.pc \in {"loaded", "recovering", "done"} => target = Filled
    /\ restore.pc \in {"loaded", "recovering"} => restore.keys

BackupInv ==
    /\ BackupTypes /\ Dumped
    /\ ArchiveRestorable /\ Restoring /\ RestoreIsFaithful

LEMMA BlankContent == Blank \in Content /\ NoBackup \in Run /\ NoRestore \in Restore
                        /\ EmptyDirectory \in Directory
BY DEF Blank, NoFile, NoRows, Rows, Ring, Content, NoBackup, Run, NoRestore, Restore,
       EmptyDirectory, Directory

LEMMA BackupInitInv == BackupInit => BackupInv
<1> SUFFICES ASSUME BackupInit PROVE BackupInv
  OBVIOUS
<1>1. BackupTypes
  <2>1. /\ backup \in [Backups -> Run] /\ restore \in Restore /\ recovered \in Directory
        /\ archive \in Archive
    BY BlankContent DEF BackupInit, Archive
  <2>2. target \in Target
    BY DEF BackupInit, Target, Rows, NoRows
  <2>3. QED
    BY <2>1, <2>2 DEF BackupInit, BackupTypes, NoBackup, Blank, NoRestore
<1>2. Dumped /\ ArchiveRestorable /\ Restoring /\ RestoreIsFaithful
  BY DEF BackupInit, Dumped, ArchiveRestorable, Restoring, RestoreIsFaithful,
         NoBackup, NoRestore
<1>3. QED
  BY <1>1, <1>2 DEF BackupInv

(* Nothing but the copies matters to the invariant.                        *)
LEMMA SameCopies == BackupInv /\ UNCHANGED copies => BackupInv'
BY DEF copies, BackupInv, BackupTypes, Dumped, ArchiveRestorable, Restoring,
       RestoreIsFaithful, Filled

(* A run of backup.py that takes a step with what it has encrypted.        *)
LEMMA RunStep ==
  ASSUME BackupInv, NEW b \in Backups, NEW r \in Run,
         backup' = [backup EXCEPT ![b] = r],
         UNCHANGED <<archive, restore, target, recovered>>,
         r.content.complete => r.pc = "ended",
         r.pc = "reading" => r.content.seen = r.content.bundle,
         r.pc \in {"dumping", "ended"} => Consistent(r.content)
  PROVE  BackupInv'
<1>1. backup' \in [Backups -> Run]
  BY DEF BackupInv, BackupTypes
<1>2. \A c \in Backups : backup'[c] = r \/ backup'[c] = backup[c]
  BY DEF BackupInv, BackupTypes
<1>3. BackupTypes'
  BY <1>1, <1>2 DEF BackupInv, BackupTypes
<1>4. Dumped'
  BY <1>2 DEF BackupInv, Dumped
<1>5. ArchiveRestorable' /\ Restoring' /\ RestoreIsFaithful'
  BY DEF BackupInv, ArchiveRestorable, Restoring, RestoreIsFaithful, Filled
<1>6. QED
  BY <1>3, <1>4, <1>5 DEF BackupInv

LEMMA BackupStepInv ==
  ASSUME BackupInv, TypeOK, CredentialsReadable, NEW b \in Backups, BackupStep(b)
  PROVE  BackupInv'
<1> DEFINE c == backup[b].content
<1>0. /\ backup \in [Backups -> Run] /\ backup[b] \in Run /\ c \in Content
      /\ c.complete => backup[b].pc = "ended"
  BY DEF BackupInv, BackupTypes, Run
<1>1. CASE CheckOutput(b)
  <2> DEFINE r == [pc |-> "checked", content |-> Blank]
  <2>1. r \in Run /\ ~Blank.complete
    BY BlankContent DEF Run, Blank
  <2>2. backup' = [backup EXCEPT ![b] = r]
        /\ UNCHANGED <<archive, restore, target, recovered>>
    BY <1>1 DEF CheckOutput, BackupAt, OnlyBackup
  <2>3. QED
    BY <2>1, <2>2, RunStep
<1>2. CASE ReadKeys(b)
  <2> DEFINE d == [Blank EXCEPT !.bundle = Bundle, !.seen = ring]
             r == [pc |-> "reading", content |-> d]
  <2>1. d \in Content /\ ~d.complete /\ d.seen = d.bundle
    BY BlankContent DEF Bundle, TypeOK, Content, Blank
  <2>2. backup' = [backup EXCEPT ![b] = r]
        /\ UNCHANGED <<archive, restore, target, recovered>>
    BY <1>2 DEF ReadKeys, BackupAt, OnlyBackup
  <2> HIDE DEF d
  <2>3. r \in Run
    BY <2>1 DEF Run
  <2>4. QED
    BY <2>1, <2>2, <2>3, RunStep
<1>3. CASE Snapshot(b)
  <2> DEFINE d == [c EXCEPT !.rows = cred, !.same = (ring = c.seen)]
             r == [pc |-> "dumping", content |-> d]
  <2>1. (ring = c.seen) \in BOOLEAN /\ cred \in Rows
    BY DEF TypeOK, Rows
  <2>2. backup[b].pc = "reading" /\ ~c.complete /\ c.seen = c.bundle
    BY <1>0, <1>3 DEF Snapshot, BackupInv, Dumped
  <2>3. d \in Content /\ ~d.complete
        /\ d.rows = cred /\ d.bundle = c.bundle /\ (d.same <=> ring = c.bundle)
    BY <1>0, <2>1, <2>2 DEF Content
  <2>4. backup' = [backup EXCEPT ![b] = r]
        /\ UNCHANGED <<archive, restore, target, recovered>>
    BY <1>3 DEF Snapshot, BackupAt, OnlyBackup
  <2> HIDE DEF d
  <2>5. r \in Run /\ Consistent(d)
    BY <2>3 DEF Run, Consistent, CredentialsReadable
  <2>6. QED
    BY <2>3, <2>4, <2>5, RunStep
<1>4. CASE DumpEnds(b)
  <2>1. PICK ok \in BOOLEAN :
          backup' = [backup EXCEPT ![b] =
                       [pc |-> "ended", content |-> [c EXCEPT !.complete = ok]]]
    BY <1>4 DEF DumpEnds, BackupAt
  <2> DEFINE d == [c EXCEPT !.complete = ok]
             r == [pc |-> "ended", content |-> d]
  <2>2. d \in Content /\ d.rows = c.rows /\ d.bundle = c.bundle /\ d.same = c.same
    BY <1>0 DEF Content
  <2>3. Consistent(c)
    BY <1>4 DEF DumpEnds, BackupInv, Dumped
  <2>4. backup' = [backup EXCEPT ![b] = r]
        /\ UNCHANGED <<archive, restore, target, recovered>>
    BY <1>4, <2>1 DEF DumpEnds, OnlyBackup
  <2> HIDE DEF d
  <2>5. r \in Run /\ Consistent(d)
    BY <2>2, <2>3 DEF Run, Consistent
  <2>6. QED
    BY <2>4, <2>5, RunStep
<1>5. CASE Publish(b)
  <2>1. /\ archive' = [file |-> "intact", content |-> c]
        /\ backup' = [backup EXCEPT ![b] = NoBackup]
        /\ UNCHANGED <<restore, target, recovered>>
        /\ c.complete /\ backup[b].pc = "ended"
    BY <1>5 DEF Publish, BackupEnds
  <2>2. UsableContent(c)
    BY <2>1 DEF BackupInv, Dumped, Consistent, UsableContent
  <2>3. archive' \in Archive /\ ArchiveRestorable'
    BY <1>0, <2>1, <2>2 DEF Archive, ArchiveRestorable
  <2>4. \A e \in Backups : backup'[e] = NoBackup \/ backup'[e] = backup[e]
    BY <1>0, <2>1
  <2>5. NoBackup.pc = "idle" /\ ~NoBackup.content.complete
    BY DEF NoBackup, Blank
  <2>6. backup' \in [Backups -> Run]
    BY <1>0, <2>1, BlankContent
  <2>7. BackupTypes'
    BY <2>1, <2>3, <2>4, <2>5, <2>6 DEF BackupInv, BackupTypes
  <2>8. Dumped'
    BY <2>4, <2>5 DEF BackupInv, Dumped
  <2>9. Restoring' /\ RestoreIsFaithful'
    BY <2>1 DEF BackupInv, Restoring, RestoreIsFaithful, Filled
  <2>10. QED
    BY <2>3, <2>7, <2>8, <2>9 DEF BackupInv
<1>6. CASE BackupStops(b)
  <2>1. backup' = [backup EXCEPT ![b] = NoBackup]
        /\ UNCHANGED <<archive, restore, target, recovered>>
    BY <1>6 DEF BackupStops, BackupEnds, OnlyBackup
  <2>2. NoBackup \in Run /\ NoBackup.pc = "idle" /\ ~NoBackup.content.complete
    BY BlankContent DEF NoBackup, Blank
  <2>3. QED
    BY <2>1, <2>2, RunStep
<1>7. QED
  BY <1>1, <1>2, <1>3, <1>4, <1>5, <1>6 DEF BackupStep

LEMMA DamageInv ==
  ASSUME BackupInv, Damage
  PROVE  BackupInv'
<1>1. /\ archive' = [archive EXCEPT !.file = "damaged"] /\ archive.file = "intact"
      /\ UNCHANGED <<backup, restore, target, recovered>>
  BY DEF Damage
<1>2. archive' \in Archive /\ archive'.content = archive.content
  BY <1>1 DEF BackupInv, BackupTypes, Archive
<1>3. BackupTypes' /\ Dumped' /\ ArchiveRestorable'
  BY <1>1, <1>2 DEF BackupInv, BackupTypes, Dumped, ArchiveRestorable
<1>4. Restoring' /\ RestoreIsFaithful'
  BY <1>1 DEF BackupInv, Restoring, RestoreIsFaithful, Filled
<1>5. QED
  BY <1>3, <1>4 DEF BackupInv

(* The restore.                                                            *)
LEMMA RestoreStepInv ==
  ASSUME BackupInv, RestoreStep
  PROVE  BackupInv'
<1>0. /\ restore \in Restore /\ target \in Target /\ recovered \in Directory
      /\ archive \in Archive
  BY DEF BackupInv, BackupTypes
<1>1. UNCHANGED <<backup, archive>>
  BY DEF RestoreStep, Authenticate, RestoreStops, BeginLoad, LoadEnds, LoadFails,
         OpenDirectory, KeysWritten, RecoveryFails, OnlyRestore
<1>2. Dumped' /\ ArchiveRestorable'
  BY <1>1 DEF BackupInv, Dumped, ArchiveRestorable
<1>3. SUFFICES /\ restore' \in Restore /\ target' \in Target /\ recovered' \in Directory
               /\ restore'.pc = "recovering" => recovered'.files = "some"
               /\ Restoring' /\ RestoreIsFaithful'
  <2>1. Filled' = target' => target'.state = "loaded"
    BY DEF Filled
  <2>2. QED
    BY <1>1, <1>2, <2>1 DEF BackupInv, BackupTypes, Restoring
<1>4. CASE Authenticate
  <2> DEFINE r == [pc |-> "verified", keys |-> FALSE, intact |-> TRUE,
                   content |-> archive.content]
  <2>1. /\ restore' = r /\ target' = target
        /\ recovered' \in {recovered, EmptyDirectory}
        /\ UsableContent(archive.content)
    BY <1>4 DEF Authenticate, OnlyRestore, BackupInv, ArchiveRestorable
  <2>2. r \in Restore
    BY <1>0 DEF Archive, Restore
  <2>3. QED
    BY <1>0, <2>1, <2>2, BlankContent DEF Restoring, RestoreIsFaithful
<1>5. CASE BeginLoad
  <2> DEFINE r == [restore EXCEPT !.pc = "loading"]
  <2>1. /\ restore' = r /\ recovered' = recovered /\ restore.pc = "verified"
        /\ target' = [state |-> "partial", rows |-> NoRows]
    BY <1>5 DEF BeginLoad
  <2>2. r \in Restore /\ r.pc = "loading" /\ r.intact = restore.intact
        /\ r.content = restore.content
    BY <1>0 DEF Restore
  <2>3. target' \in Target
    BY <2>1 DEF Target, NoRows, Rows
  <2>4. QED
    BY <1>0, <2>1, <2>2, <2>3 DEF BackupInv, Restoring, RestoreIsFaithful
<1>6. CASE LoadEnds
  <2>1. PICK keys \in BOOLEAN : Goes(keys)
    BY <1>6 DEF LoadEnds
  <2> DEFINE r == [restore EXCEPT !.pc = IF keys THEN "loaded" ELSE "done",
                                  !.keys = keys]
  <2>2. restore' = r /\ target' = Filled /\ recovered' = recovered
        /\ restore.pc = "loading"
    BY <1>6, <2>1 DEF LoadEnds, Goes
  <2>3. /\ r \in Restore /\ r.pc = IF keys THEN "loaded" ELSE "done"
        /\ r.keys = keys /\ r.intact = restore.intact /\ r.content = restore.content
    BY <1>0 DEF Restore
  <2> HIDE DEF r
  <2>4. restore'.content = restore.content /\ Filled' = Filled
    BY <2>2, <2>3 DEF Filled
  <2>5. Filled \in Target
    BY <1>0 DEF Filled, Target, Restore, Content
  <2>6. Restoring'
    BY <2>2, <2>3, <2>4 DEF BackupInv, Restoring
  <2>7. RestoreIsFaithful'
    <3>1. restore.intact /\ UsableContent(restore.content)
      BY <2>2 DEF BackupInv, Restoring
    <3>2. restore'.pc = "done" => ~restore'.keys
      BY <2>2, <2>3
    <3>3. QED
      BY <2>2, <2>3, <2>4, <3>1, <3>2 DEF RestoreIsFaithful
  <2>8. restore'.pc # "recovering"
    BY <2>2, <2>3
  <2>9. QED
    BY <1>0, <2>2, <2>3, <2>5, <2>6, <2>7, <2>8
<1>7. CASE LoadFails
  <2>1. restore' = NoRestore /\ recovered' = recovered /\ target' \in {target, Filled}
    BY <1>7 DEF LoadFails
  <2>2. Filled \in Target
    BY <1>0 DEF Filled, Target, Restore, Content
  <2>3. NoRestore.pc = "idle"
    BY DEF NoRestore
  <2>4. QED
    BY <1>0, <2>1, <2>2, <2>3, BlankContent DEF Restoring, RestoreIsFaithful
<1>8. CASE OpenDirectory
  <2>1. CASE recovered.files = "none"
    <3> DEFINE r == [restore EXCEPT !.pc = "recovering"]
    <3>1. /\ restore' = r /\ target' = target /\ restore.pc = "loaded"
          /\ recovered' = [files |-> "some", ring |-> NoFile]
      BY <1>8, <2>1 DEF OpenDirectory
    <3>2. /\ r \in Restore /\ r.pc = "recovering" /\ r.keys = restore.keys
          /\ r.intact = restore.intact /\ r.content = restore.content
      BY <1>0 DEF Restore
    <3> HIDE DEF r
    <3>3. recovered' \in Directory /\ recovered'.files = "some"
      BY <3>1 DEF Directory, NoFile, Ring
    <3>4. Restoring'
      BY <3>1, <3>2 DEF BackupInv, Restoring, Filled
    <3>5. RestoreIsFaithful'
      BY <3>1, <3>2 DEF RestoreIsFaithful
    <3>6. QED
      BY <1>0, <3>1, <3>2, <3>3, <3>4, <3>5
  <2>2. CASE recovered.files # "none"
    <3>1. restore' = NoRestore /\ recovered' = recovered /\ target' = target
      BY <1>8, <2>2 DEF OpenDirectory
    <3>2. QED
      BY <1>0, <3>1, BlankContent DEF NoRestore, Restoring, RestoreIsFaithful
  <2>3. QED
    BY <2>1, <2>2
<1>9. CASE KeysWritten
  <2> DEFINE r == [restore EXCEPT !.pc = "done"]
  <2>1. /\ restore' = r /\ target' = target /\ restore.pc = "recovering"
        /\ recovered' = [files |-> "all", ring |-> restore.content.bundle]
    BY <1>9 DEF KeysWritten
  <2>2. /\ r \in Restore /\ r.pc = "done" /\ r.keys = restore.keys
        /\ r.intact = restore.intact /\ r.content = restore.content
    BY <1>0 DEF Restore
  <2> HIDE DEF r
  <2>3. recovered' \in Directory
    BY <1>0, <2>1 DEF Directory, Restore, Content
  <2>4. Restoring'
    BY <2>1, <2>2 DEF BackupInv, Restoring, Filled
  <2>5. RestoreIsFaithful'
    BY <2>1, <2>2 DEF BackupInv, Restoring, RestoreIsFaithful, Filled
  <2>6. QED
    BY <1>0, <2>1, <2>2, <2>3, <2>4, <2>5
<1>10. CASE RecoveryFails
  <2>1. restore' = NoRestore /\ target' = target
        /\ recovered' \in {recovered, EmptyDirectory}
    BY <1>10 DEF RecoveryFails
  <2>2. QED
    BY <1>0, <2>1, BlankContent DEF NoRestore, Restoring, RestoreIsFaithful
<1>11. CASE RestoreStops
  <2>1. restore' = NoRestore /\ recovered' = recovered /\ target' = target
    BY <1>11 DEF RestoreStops
  <2>2. QED
    BY <1>0, <2>1, BlankContent DEF NoRestore, Restoring, RestoreIsFaithful
<1>12. QED
  BY <1>4, <1>5, <1>6, <1>7, <1>8, <1>9, <1>10, <1>11 DEF RestoreStep

LEMMA BackupInvStep ==
  ASSUME Inv, BackupInv, [BackupNext]_allVars
  PROVE  BackupInv'
<1>1. TypeOK /\ CredentialsReadable
  BY DEF Inv
<1>2. CASE UNCHANGED copies
  BY <1>2, SameCopies
<1>3. ASSUME NEW b \in Backups, BackupStep(b)
      PROVE  BackupInv'
  BY <1>1, <1>3, BackupStepInv
<1>4. QED
  BY <1>2, <1>3, DamageInv, RestoreStepInv DEF BackupNext, allVars

(* A system with backups is one in which the keyring does what it does     *)
(* without: what is proved of Keyring holds while backups run.             *)
THEOREM BackupsLeaveKeyringAlone == BackupSpec => Spec
<1>1. BackupInit => Init
  BY DEF BackupInit
<1>2. QED
  BY <1>1, BackupNextIsNext, PTL DEF BackupSpec, Spec

LEMMA BackupInvariant == BackupSpec => [](Inv /\ BackupInv)
<1>1. BackupInit => Inv /\ BackupInv
  BY InitInv, BackupInitInv DEF BackupInit
<1>2. Inv /\ BackupInv /\ [BackupNext]_allVars => (Inv /\ BackupInv)'
  BY BackupNextIsNext, InvStep, BackupInvStep
<1>3. QED
  BY <1>1, <1>2, PTL DEF BackupSpec

THEOREM BackupTypeCorrect == BackupSpec => []BackupTypes
<1>1. Inv /\ BackupInv => BackupTypes
  BY DEF BackupInv
<1>2. QED
  BY <1>1, BackupInvariant, PTL

(* What create_backup publishes is a whole dump with the keys it needs.    *)
THEOREM ArchivesAreRestorable == BackupSpec => []ArchiveRestorable
<1>1. Inv /\ BackupInv => ArchiveRestorable
  BY DEF BackupInv
<1>2. QED
  BY <1>1, BackupInvariant, PTL

(* What restore_backup reports as done is done.                            *)
THEOREM RestoresAreFaithful == BackupSpec => []RestoreIsFaithful
<1>1. Inv /\ BackupInv => RestoreIsFaithful
  BY DEF BackupInv
<1>2. QED
  BY <1>1, BackupInvariant, PTL

=============================================================================
