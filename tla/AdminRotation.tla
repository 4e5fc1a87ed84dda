---------------------------- MODULE AdminRotation ----------------------------
(***************************************************************************)
(* Rotation of the PostgreSQL admin password                               *)
(* (scripts/rotate_postgres_admin_password.py, scripts/rotation_common.py): *)
(* the password is changed in the database and in the secret file, two     *)
(* places no transaction spans, with verification, a rollback and a        *)
(* fallback when the rollback fails.                                       *)
(*                                                                         *)
(* Any Docker or file operation may fail, with or without having taken     *)
(* effect, and the tool may be killed between any two of them.  A command  *)
(* that timed out does not take effect later.                              *)
(***************************************************************************)
EXTENDS Naturals

CONSTANTS
    Runs,        \* invocations of the tool
    Initial,     \* the password before any of them
    Nobody       \* stands for "there is no lock file"

ASSUME RotationConstants == {Initial, Nobody} \cap Runs = {}

VARIABLES
    db,          \* the password PostgreSQL accepts for mailgate_admin
    file,        \* the content of the secret file postgres_password
    lock,        \* the run that created .postgres-admin.rotation.lock
    pc,          \* where each run is
    old,         \* old_password of each run
    writer       \* history: the run that last tried to change db or file

vars == <<db, file, lock, pc, old, writer>>

(* secrets.token_urlsafe(48) never repeats: a run stands for the password  *)
(* it generated.                                                           *)
Passwords == Runs \union {Initial}

Preflight == {"locked", "read"}
Changing == {"ready", "changed", "written", "verified", "rollback",
             "restoring", "restored_file", "retaining", "retained"}
(* What main() prints.  rotated, restored and kept_new say that database   *)
(* and file agree; the last four do not.                                   *)
Outcomes == {"busy", "unchanged", "rotated", "restored", "kept_new",
             "unrestored", "unaligned", "unreleased", "killed"}
Holding(r) == pc[r] \in Preflight \union Changing

(* Shape of the state; who works on the password holds the lock file,      *)
(* which may also be left behind by a run that is gone.                    *)
TypeOK ==
    /\ db \in Passwords /\ file \in Passwords
    /\ lock \in Runs \union {Nobody}
    /\ pc \in [Runs -> {"new"} \union Preflight \union Changing \union Outcomes]
    /\ old \in [Runs -> Passwords]
    /\ writer \in Passwords
    /\ \A r \in Runs : Holding(r) => lock = r

Init ==
    /\ db = Initial /\ file = Initial
    /\ lock = Nobody
    /\ pc = [r \in Runs |-> "new"]
    /\ old = [r \in Runs |-> Initial]
    /\ writer = Initial

-----------------------------------------------------------------------------
Goto(r, s) == pc' = [pc EXCEPT ![r] = s]

(* The finally branch of exclusive_rotation_lock; an error while removing  *)
(* the lock file replaces whatever the tool was about to report.           *)
Leave(r, outcome) ==
    \/ Goto(r, outcome) /\ lock' = Nobody
    \/ Goto(r, "unreleased") /\ UNCHANGED lock

(* O_CREAT | O_EXCL *)
AcquireAnyway(r) ==
    /\ pc[r] = "new"
    /\ lock' = r /\ Goto(r, "locked")
    /\ UNCHANGED <<db, file, old, writer>>
Acquire(r) ==
    /\ pc[r] = "new"
    /\ IF lock = Nobody THEN lock' = r /\ Goto(r, "locked")
                        ELSE Goto(r, "busy") /\ UNCHANGED lock
    /\ UNCHANGED <<db, file, old, writer>>

ReadSecret(r) ==
    /\ pc[r] = "locked"
    /\ old' = [old EXCEPT ![r] = file]
    /\ Goto(r, "read")
    /\ UNCHANGED <<db, file, lock, writer>>

(* The local channel answers and the file's password authenticates. *)
Check(r) ==
    /\ pc[r] = "read"
    /\ db = file
    /\ Goto(r, "ready")
    /\ UNCHANGED <<db, file, lock, old, writer>>

Refuse(r) ==
    /\ pc[r] \in Preflight
    /\ Leave(r, "unchanged")
    /\ UNCHANGED <<db, file, old, writer>>

(* \password through the local channel: a success has taken effect, a      *)
(* failure may have.                                                       *)
SetDatabase(r, password, ok) ==
    /\ db' = password \/ (~ok /\ db' = db)
    /\ writer' = r
    /\ UNCHANGED <<file, old>>

(* atomic_write_secret: os.replace, then fsync of the directory and the    *)
(* removal of the temporary name, which can fail after the replacement.    *)
WriteSecret(r, password, ok) ==
    /\ file' = password \/ (~ok /\ file' = file)
    /\ writer' = r
    /\ UNCHANGED <<db, old>>

(* A login over TCP with the file's password, or the role bootstrap, which *)
(* begins with one; either can also fail for other reasons.                *)
Login(ok) ==
    /\ ok => db = file
    /\ UNCHANGED <<db, file, old, writer>>

ChangeDatabaseMarkedAfter(r, ok) ==
    /\ pc[r] = "ready"
    /\ SetDatabase(r, r, ok)
    /\ IF ok THEN Goto(r, "changed") /\ UNCHANGED lock
             ELSE Leave(r, "unchanged")
ChangeDatabase(r, ok) ==
    /\ pc[r] = "ready"
    /\ SetDatabase(r, r, ok)
    /\ Goto(r, IF ok THEN "changed" ELSE "rollback")
    /\ UNCHANGED lock

WriteNew(r, ok) ==
    /\ pc[r] = "changed"
    /\ WriteSecret(r, r, ok)
    /\ Goto(r, IF ok THEN "written" ELSE "rollback")
    /\ UNCHANGED lock

VerifyNew(r, ok) ==
    /\ pc[r] = "written"
    /\ Login(ok)
    /\ Goto(r, IF ok THEN "verified" ELSE "rollback")
    /\ UNCHANGED lock

Bootstrap(r, ok) ==
    /\ pc[r] = "verified"
    /\ Login(ok)
    /\ IF ok THEN Leave(r, "rotated")
             ELSE Goto(r, "rollback") /\ UNCHANGED lock

RollbackDatabase(r, ok) ==
    /\ pc[r] = "rollback"
    /\ SetDatabase(r, old[r], ok)
    /\ Goto(r, IF ok THEN "restoring" ELSE "retaining")
    /\ UNCHANGED lock

RestoreFile(r, ok) ==
    /\ pc[r] = "restoring"
    /\ WriteSecret(r, old[r], ok)
    /\ IF ok THEN Goto(r, "restored_file") /\ UNCHANGED lock
             ELSE Leave(r, "unrestored")

VerifyRestored(r, ok) ==
    /\ pc[r] = "restored_file"
    /\ Login(ok)
    /\ Leave(r, IF ok THEN "restored" ELSE "unrestored")

(* The rollback failed: keep the new password if it turns out to work. *)
KeepNew(r, ok) ==
    /\ pc[r] = "retaining"
    /\ WriteSecret(r, r, ok)
    /\ IF ok THEN Goto(r, "retained") /\ UNCHANGED lock
             ELSE Leave(r, "unaligned")

VerifyKeptByWriteOnly(r, ok) ==
    /\ pc[r] = "retained"
    /\ Leave(r, "kept_new")
    /\ UNCHANGED <<db, file, old, writer>>
VerifyKept(r, ok) ==
    /\ pc[r] = "retained"
    /\ Login(ok)
    /\ Leave(r, IF ok THEN "kept_new" ELSE "unaligned")

(* SIGKILL or power loss: no finally branch runs. *)
Kill(r) ==
    /\ Holding(r)
    /\ Goto(r, "killed")
    /\ UNCHANGED <<db, file, lock, old, writer>>

-----------------------------------------------------------------------------
(* The operator, as the tool's messages ask: remove a stale lock after     *)
(* verifying that its process is gone, and align the database with the     *)
(* file through the local channel while no rotation runs.                  *)
RemoveStaleLock ==
    /\ lock # Nobody
    /\ ~Holding(lock)
    /\ lock' = Nobody
    /\ UNCHANGED <<db, file, pc, old, writer>>

Recover ==
    /\ lock = Nobody
    /\ db # file
    /\ db' = file
    /\ UNCHANGED <<file, lock, pc, old, writer>>

Next ==
    \/ \E r \in Runs : Acquire(r) \/ ReadSecret(r) \/ Check(r) \/ Refuse(r) \/ Kill(r)
    \/ \E r \in Runs, ok \in BOOLEAN :
           \/ ChangeDatabase(r, ok)
           \/ WriteNew(r, ok)
           \/ VerifyNew(r, ok)
           \/ Bootstrap(r, ok)
           \/ RollbackDatabase(r, ok)
           \/ RestoreFile(r, ok)
           \/ VerifyRestored(r, ok)
           \/ KeepNew(r, ok)
           \/ VerifyKept(r, ok)
    \/ RemoveStaleLock
    \/ Recover

Spec == Init /\ [][Next]_vars

-----------------------------------------------------------------------------
(* What the tool reports about database and file is so when it reports it, *)
(* although operations that failed may have taken effect and other runs    *)
(* wait for the lock (rotate_postgres_admin_password, lines 189-265).      *)
ClaimsAreTrue ==
    [][\A r \in Runs : pc'[r] # pc[r] =>
          /\ pc'[r] \in {"rotated", "kept_new"} => db' = r /\ file' = r
          /\ pc'[r] = "restored" => db' = old[r] /\ file' = old[r]]_vars

(* Database and file disagree only while the run that last touched them is *)
(* still at work, or after it said so, could not say it, or was killed.    *)
NoSilentMismatch ==
    db # file =>
        /\ writer \in Runs
        /\ pc[writer] \in Changing \union
                          {"unrestored", "unaligned", "unreleased", "killed"}

=============================================================================
