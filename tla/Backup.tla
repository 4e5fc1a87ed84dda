-------------------------------- MODULE Backup --------------------------------
(***************************************************************************)
(* Backup and restore (scripts/backup.py, backup_archive.py, restore.py)   *)
(* while the keyring is rotated and credentials are re-encrypted.          *)
(*                                                                         *)
(* A backup reads the key files, then pg_dump reads the rows, and the      *)
(* archive takes its place only when pg_dump succeeded.  A restore reads   *)
(* the archive into a database of its own, and the keys of the archive     *)
(* into a directory if it is asked to.  Of the rows only the keys of the   *)
(* credentials are modelled.  The backup key does not change.              *)
(***************************************************************************)
EXTENDS Keyring

CONSTANT Backups     \* bound on the runs of backup.py at one time, to one output

VARIABLES
    backup,      \* the runs, each with what it has encrypted so far
    archive,     \* the file at the output
    restore,     \* the run of restore.py
    target,      \* the database of the restore project
    recovered    \* the directory for the recovered keys

copies == <<backup, archive, restore, target, recovered>>
allVars == <<vars, copies>>

(* complete: pg_dump has returned 0.  History: the keyring file when its   *)
(* keys were read, and whether it was the same when pg_dump read the rows. *)
Rows == [Mailboxes -> Keys \union {Untagged}]
Content == [bundle : Ring, rows : Rows, complete : BOOLEAN,
            seen : Ring, same : BOOLEAN]
NoRows == [m \in Mailboxes |-> Untagged]
Blank == [bundle |-> NoFile, rows |-> NoRows, complete |-> FALSE,
          seen |-> NoFile, same |-> FALSE]

Run == [pc : {"idle", "checked", "reading", "dumping", "ended"}, content : Content]
Archive == [file : {"none", "intact", "damaged"}, content : Content]
Restore == [pc : {"idle", "verified", "loading", "loaded", "recovering", "done"},
            keys : BOOLEAN, intact : BOOLEAN, content : Content]
Target == [state : {"untouched", "partial", "loaded"}, rows : Rows]
Directory == [files : {"none", "some", "all"}, ring : Ring]
NoBackup == [pc |-> "idle", content |-> Blank]
NoRestore == [pc |-> "idle", keys |-> FALSE, intact |-> FALSE, content |-> Blank]
EmptyDirectory == [files |-> "none", ring |-> NoFile]

(* The state has its shape, and what a run has reached agrees with it.     *)
BackupTypes ==
    /\ backup \in [Backups -> Run]
    /\ archive \in Archive
    /\ restore \in Restore
    /\ target \in Target
    /\ recovered \in Directory
    /\ \A b \in Backups : backup[b].content.complete => backup[b].pc = "ended"
    /\ restore.pc \in {"loaded", "recovering", "done"} => target.state = "loaded"
    /\ restore.pc = "recovering" => recovered.files = "some"

BackupInit ==
    /\ Init
    /\ backup = [b \in Backups |-> NoBackup]
    /\ archive = [file |-> "none", content |-> Blank]
    /\ restore = NoRestore
    /\ target = [state |-> "untouched", rows |-> NoRows]
    /\ recovered = EmptyDirectory

-----------------------------------------------------------------------------
(* backup.py *)

BackupAt(b, s, c) == backup' = [backup EXCEPT ![b] = [pc |-> s, content |-> c]]
BackupEnds(b) == backup' = [backup EXCEPT ![b] = NoBackup]
OnlyBackup == UNCHANGED <<vars, archive, restore, target, recovered>>

(* A run refuses an output that exists. *)
CheckOutput(b) ==
    /\ backup[b].pc = "idle" /\ archive.file = "none"
    /\ BackupAt(b, "checked", Blank)
    /\ OnlyBackup

(* credential_bundle: master_key, and the keyring file if there is one. *)
BundleOfOneFile == NoFile
Bundle == ring
ReadKeys(b) ==
    /\ backup[b].pc = "checked"
    /\ BackupAt(b, "reading", [Blank EXCEPT !.bundle = Bundle, !.seen = ring])
    /\ OnlyBackup

(* pg_dump reads one snapshot of all rows ... *)
Snapshot(b) ==
    LET c == backup[b].content IN
    /\ backup[b].pc = "reading"
    /\ BackupAt(b, "dumping", [c EXCEPT !.rows = cred, !.same = (ring = c.seen)])
    /\ OnlyBackup

(* ... and its output ends, whether it was all written or not. *)
DumpEnds(b) ==
    /\ backup[b].pc = "dumping"
    /\ \E ok \in BOOLEAN :
         BackupAt(b, "ended", [backup[b].content EXCEPT !.complete = ok])
    /\ OnlyBackup

Publish(b) ==
    /\ backup[b].pc = "ended" /\ backup[b].content.complete
    /\ archive' = [file |-> "intact", content |-> backup[b].content]
    /\ BackupEnds(b)
    /\ UNCHANGED <<vars, restore, target, recovered>>

(* An error, the return code included, removes the temporary file; a kill  *)
(* leaves it behind.  The output is as it was.                             *)
BackupStops(b) ==
    /\ backup[b].pc # "idle"
    /\ BackupEnds(b)
    /\ OnlyBackup

(* Outside the code: a medium that fails, a copy cut short.                *)
Damage ==
    /\ archive.file = "intact"
    /\ archive' = [archive EXCEPT !.file = "damaged"]
    /\ UNCHANGED <<vars, backup, restore, target, recovered>>

-----------------------------------------------------------------------------
(* restore.py *)

OnlyRestore == UNCHANGED <<vars, backup, archive>>

(* decrypt_to_temporary: what was damaged does not authenticate.  The       *)
(* operator may name another directory for each attempt.                   *)
AuthenticateHeader ==
    /\ restore.pc \in {"idle", "done"} /\ archive.file # "none"
    /\ restore' = [pc |-> "verified", keys |-> FALSE, intact |-> archive.file = "intact",
                   content |-> archive.content]
    /\ recovered' \in {recovered, EmptyDirectory}
    /\ OnlyRestore /\ UNCHANGED target
Authenticate ==
    /\ restore.pc \in {"idle", "done"} /\ archive.file = "intact"
    /\ restore' = [pc |-> "verified", keys |-> FALSE, intact |-> TRUE,
                   content |-> archive.content]
    /\ recovered' \in {recovered, EmptyDirectory}
    /\ OnlyRestore /\ UNCHANGED target

(* The run ends before pg_restore has touched anything: there is no such    *)
(* database, or the run is killed.                                         *)
RestoreStops ==
    /\ restore.pc = "verified"
    /\ restore' = NoRestore
    /\ OnlyRestore /\ UNCHANGED <<target, recovered>>

(* pg_restore --clean: it drops what is there, object by object. *)
BeginLoad ==
    /\ restore.pc = "verified"
    /\ restore' = [restore EXCEPT !.pc = "loading"]
    /\ target' = [state |-> "partial", rows |-> NoRows]
    /\ OnlyRestore /\ UNCHANGED recovered

Filled == [state |-> "loaded", rows |-> restore.content.rows]
Goes(keys) == restore' = [restore EXCEPT !.pc = IF keys THEN "loaded" ELSE "done",
                                         !.keys = keys]

(* keys: --credential-output-dir was given. *)
LoadEndsUnchecked ==
    /\ restore.pc = "loading"
    /\ target' \in {target, Filled}
    /\ \E keys \in BOOLEAN : Goes(keys)
    /\ OnlyRestore /\ UNCHANGED recovered
LoadEnds ==
    /\ restore.pc = "loading" /\ restore.content.complete
    /\ target' = Filled
    /\ \E keys \in BOOLEAN : Goes(keys)
    /\ OnlyRestore /\ UNCHANGED recovered

(* The return code is not 0, or the run is killed while pg_restore goes on. *)
LoadFails ==
    /\ restore.pc = "loading"
    /\ restore' = NoRestore
    /\ target' \in {target, Filled}
    /\ OnlyRestore /\ UNCHANGED recovered

(* recover_credential_bundle: only into an empty directory. *)
OpenDirectory ==
    /\ restore.pc = "loaded"
    /\ IF recovered.files = "none"
       THEN /\ restore' = [restore EXCEPT !.pc = "recovering"]
            /\ recovered' = [files |-> "some", ring |-> NoFile]
       ELSE restore' = NoRestore /\ UNCHANGED recovered
    /\ OnlyRestore /\ UNCHANGED target

KeysWritten ==
    /\ restore.pc = "recovering"
    /\ restore' = [restore EXCEPT !.pc = "done"]
    /\ recovered' = [files |-> "all", ring |-> restore.content.bundle]
    /\ OnlyRestore /\ UNCHANGED target

(* An error removes the key files that were created; a kill does not.      *)
RecoveryFails ==
    /\ restore.pc = "recovering"
    /\ restore' = NoRestore
    /\ recovered' \in {recovered, EmptyDirectory}
    /\ OnlyRestore /\ UNCHANGED target

-----------------------------------------------------------------------------
BackupStep(b) ==
    \/ CheckOutput(b) \/ ReadKeys(b) \/ Snapshot(b)
    \/ DumpEnds(b) \/ Publish(b) \/ BackupStops(b)

RestoreStep ==
    \/ Authenticate \/ RestoreStops \/ BeginLoad \/ LoadEnds \/ LoadFails
    \/ OpenDirectory \/ KeysWritten \/ RecoveryFails

BackupNext ==
    \/ Next /\ UNCHANGED copies
    \/ \E b \in Backups : BackupStep(b)
    \/ Damage
    \/ RestoreStep

BackupSpec == BackupInit /\ [][BackupNext]_allVars

-----------------------------------------------------------------------------
(* What is at the output can be restored: it holds a whole dump, and its   *)
(* own bundle reads every credential in it, however credentials were       *)
(* re-encrypted and keys retired, unless the keyring file was replaced     *)
(* between the reading of the keys and the dump (create_backup 81-137).    *)
UsableContent(c) ==
    /\ c.complete
    /\ c.same => \A m \in Mailboxes : c.rows[m] \in Readable(c.bundle)
ArchiveRestorable == archive.file # "none" => UsableContent(archive.content)

(* A restore that reports success has loaded all of an authentic archive   *)
(* and, when asked for, has recovered the keys that belong to it, whatever *)
(* failed attempts left in the database and in the directory, and whatever *)
(* has become of the archive meanwhile (restore_backup 142-180).           *)
RestoreIsFaithful ==
    restore.pc = "done" =>
        /\ restore.intact /\ UsableContent(restore.content)
        /\ target = Filled
        /\ restore.keys =>
             recovered = [files |-> "all", ring |-> restore.content.bundle]

=============================================================================
