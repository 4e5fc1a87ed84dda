------------------------------- MODULE MCBackup -------------------------------
(* A small instance of Backup for TLC. *)
EXTENDS Backup, TLC

BackupSymmetry ==
    Permutations(Keys) \union Permutations(Tools) \union Permutations(Mailboxes)
      \union Permutations(Backups)

=============================================================================
