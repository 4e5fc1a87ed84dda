------------------------------- MODULE Keyring -------------------------------
(***************************************************************************)
(* The keyring that encrypts mailbox credentials: the host tool that adds  *)
(* or activates a key in the keyring file                                  *)
(* (scripts/rotate_credential_keyring.py, scripts/rotation_common.py), web *)
(* processes that encrypt with the file as it was when they started        *)
(* (app/gateway/crypto.py, app/mailgate/settings.py) and the command that  *)
(* re-encrypts every credential (rotate_mailbox_credentials).              *)
(*                                                                         *)
(* A key stands for its ID.  master_key is mounted into every process, so  *)
(* a credential without a key ID is readable everywhere.                   *)
(***************************************************************************)
EXTENDS Naturals, FiniteSets

CONSTANTS
    Keys,         \* key IDs
    Untagged,     \* stands for master_key: a credential without a key ID
    Mailboxes,    \* mailboxes whose credential is stored
    Webs,         \* web processes
    Jobs,         \* bound on the runs of rotate_mailbox_credentials at one time
    Tools,        \* bound on the runs of the host tool at one time
    MaximumKeys,  \* MAXIMUM_KEYS
    Nobody        \* stands for "there is no lock file"

ASSUME KeyringConstants ==
    /\ Untagged \notin Keys
    /\ Nobody \notin Tools
    /\ MaximumKeys \in Nat

VARIABLES
    ring,         \* the file master_keyring
    lock,         \* the run that created .credential-keyring.rotation.lock
    tool,         \* runs of the host tool
    web,          \* what each web process loaded
    job,          \* what each re-encryption job loaded
    cred          \* the key each stored credential is encrypted with

vars == <<ring, lock, tool, web, job, cred>>

(* Without the file everything is encrypted with master_key. *)
Ring == [primary : Keys \union {Untagged}, keys : SUBSET Keys]
NoFile == [primary |-> Untagged, keys |-> {}]
Readable(r) == r.keys \union {Untagged}

Tool == [pc : {"idle", "locked", "prepared", "written"},
         target : Keys \union {Untagged}, activate : BOOLEAN, doc : Ring]
NoRun == [pc |-> "idle", target |-> Untagged, activate |-> FALSE, doc |-> NoFile]
Process == [up : BOOLEAN, ring : Ring]
Down == [up |-> FALSE, ring |-> NoFile]
Holding(t) == tool[t].pc # "idle"

(* Shape of the state; who works on the file holds the lock file.          *)
TypeOK ==
    /\ ring \in Ring
    /\ lock \in Tools \union {Nobody}
    /\ tool \in [Tools -> Tool]
    /\ web \in [Webs -> Process]
    /\ job \in [Jobs -> Process]
    /\ cred \in [Mailboxes -> Keys \union {Untagged}]
    /\ \A t \in Tools : Holding(t) => lock = t /\ tool[t].target \in Keys

(* An installation from before the keyring, or a fresh one with one key.   *)
Init ==
    /\ ring \in {NoFile} \union {[primary |-> k, keys |-> {k}] : k \in Keys}
    /\ lock = Nobody
    /\ tool = [t \in Tools |-> NoRun]
    /\ web = [w \in Webs |-> Down]
    /\ job = [j \in Jobs |-> Down]
    /\ cred = [m \in Mailboxes |-> Untagged]

-----------------------------------------------------------------------------
(* The host tool. *)

ToolAt(t, s) == tool' = [tool EXCEPT ![t].pc = s]

(* A run ends, whatever it reports.  An error while it removes the lock    *)
(* file leaves that behind.                                                *)
Ends(t) == tool' = [tool EXCEPT ![t] = NoRun]
Leave(t) == Ends(t) /\ lock' \in {Nobody, lock}

(* exclusive_rotation_lock: a run that finds the lock file changes nothing. *)
AcquireAnyway(t) ==
    /\ ~Holding(t)
    /\ \E k \in Keys, a \in BOOLEAN :
         tool' = [tool EXCEPT ![t] =
                    [pc |-> "locked", target |-> k, activate |-> a, doc |-> NoFile]]
    /\ lock' = t
    /\ UNCHANGED <<ring, web, job, cred>>
Acquire(t) ==
    /\ ~Holding(t) /\ lock = Nobody
    /\ \E k \in Keys, a \in BOOLEAN :
         tool' = [tool EXCEPT ![t] =
                    [pc |-> "locked", target |-> k, activate |-> a, doc |-> NoFile]]
    /\ lock' = t
    /\ UNCHANGED <<ring, web, job, cred>>

(* The document to extend: the file, or master_key under an ID of its own. *)
Converted == {[primary |-> k, keys |-> {k}] : k \in Keys}
Documents(t) ==
    IF ring # NoFile THEN {ring}
    ELSE {d \in Converted : ~tool[t].activate /\ d.primary # tool[t].target}

(* A retained key is activated only when asked for; every other target,    *)
(* asked for as new or as existing, becomes a new key.                     *)
PrepareDroppingOldest(t) ==
    LET k == tool[t].target IN
    /\ tool[t].pc = "locked"
    /\ \E d \in Documents(t) :
         /\ k \in d.keys => tool[t].activate /\ d.primary # k
         /\ \E kept \in SUBSET d.keys :
              /\ d.primary \in kept /\ Cardinality(kept \union {k}) <= MaximumKeys
              /\ kept # d.keys => Cardinality(d.keys) >= MaximumKeys
              /\ tool' = [tool EXCEPT ![t].pc = "prepared",
                              ![t].doc = [primary |-> k, keys |-> kept \union {k}]]
    /\ UNCHANGED <<ring, lock, web, job, cred>>
Prepare(t) ==
    LET k == tool[t].target IN
    /\ tool[t].pc = "locked"
    /\ \E d \in Documents(t) :
         /\ IF k \in d.keys
            THEN tool[t].activate /\ d.primary # k
            ELSE Cardinality(d.keys) < MaximumKeys
         /\ tool' = [tool EXCEPT ![t].pc = "prepared",
                         ![t].doc = [primary |-> k, keys |-> d.keys \union {k}]]
    /\ UNCHANGED <<ring, lock, web, job, cred>>

(* The target is already primary, an ID is in use, the limit is reached,   *)
(* the legacy ID is missing, the file is unreadable.                       *)
Refuse(t) ==
    /\ tool[t].pc = "locked"
    /\ Leave(t)
    /\ UNCHANGED <<ring, web, job, cred>>

(* atomic_write_secret; a failure may come after the replacement. *)
Write(t) ==
    /\ tool[t].pc = "prepared"
    /\ ring' = tool[t].doc
    /\ ToolAt(t, "written")
    /\ UNCHANGED <<lock, web, job, cred>>

WriteFails(t) ==
    /\ tool[t].pc = "prepared"
    /\ ring' \in {ring, tool[t].doc}
    /\ Leave(t)
    /\ UNCHANGED <<web, job, cred>>

(* The file is read again; only the report depends on what it holds. *)
Verify(t) ==
    /\ tool[t].pc = "written"
    /\ Leave(t)
    /\ UNCHANGED <<ring, web, job, cred>>

Kill(t) ==
    /\ Holding(t)
    /\ Ends(t)
    /\ UNCHANGED <<ring, lock, web, job, cred>>

-----------------------------------------------------------------------------
(* Web processes and the re-encryption job load the file when they start.  *)

StartWeb(w) ==
    /\ web' = [web EXCEPT ![w] = [up |-> TRUE, ring |-> ring]]
    /\ web' # web
    /\ UNCHANGED <<ring, lock, tool, job, cred>>

StopWeb(w) ==
    /\ web[w].up
    /\ web' = [web EXCEPT ![w] = Down]
    /\ UNCHANGED <<ring, lock, tool, job, cred>>

(* encrypt_secret, in mailbox_create and mailbox_edit. *)
SavePassword(w, m) ==
    /\ web[w].up
    /\ cred' = [cred EXCEPT ![m] = web[w].ring.primary]
    /\ UNCHANGED <<ring, lock, tool, web, job>>

StartJob(j) ==
    /\ ~job[j].up
    /\ ring.primary # Untagged
    /\ job' = [job EXCEPT ![j] = [up |-> TRUE, ring |-> ring]]
    /\ UNCHANGED <<ring, lock, tool, web, cred>>

(* One transaction over all rows; one unreadable credential rolls it back. *)
RunJob(j) ==
    LET r == job[j].ring IN
    /\ job[j].up
    /\ job' = [job EXCEPT ![j] = Down]
    /\ cred' = IF \A m \in Mailboxes : cred[m] \in Readable(r)
               THEN [m \in Mailboxes |-> r.primary]
               ELSE cred
    /\ UNCHANGED <<ring, lock, tool, web>>

-----------------------------------------------------------------------------
(* The operator, by hand and doing nothing else meanwhile: remove a stale  *)
(* lock file; take a key out of the file when the processes run with the   *)
(* current file and every stored credential uses its primary key.          *)
RemoveStaleLock ==
    /\ lock # Nobody
    /\ ~Holding(lock)
    /\ lock' = Nobody
    /\ UNCHANGED <<ring, tool, web, job, cred>>

Retire(k) ==
    /\ k \in ring.keys /\ k # ring.primary
    /\ \A t \in Tools : ~Holding(t)
    /\ \A w \in Webs : web[w].up => web[w].ring = ring
    /\ \A j \in Jobs : ~job[j].up
    /\ \A m \in Mailboxes : cred[m] = ring.primary
    /\ ring' = [ring EXCEPT !.keys = @ \ {k}]
    /\ UNCHANGED <<lock, tool, web, job, cred>>

Next ==
    \/ \E t \in Tools :
           \/ Acquire(t) \/ Prepare(t) \/ Refuse(t)
           \/ Write(t) \/ WriteFails(t) \/ Verify(t) \/ Kill(t)
    \/ \E w \in Webs : StartWeb(w) \/ StopWeb(w)
    \/ \E w \in Webs, m \in Mailboxes : SavePassword(w, m)
    \/ \E j \in Jobs : StartJob(j) \/ RunJob(j)
    \/ RemoveStaleLock
    \/ \E k \in Keys : Retire(k)

Spec == Init /\ [][Next]_vars

-----------------------------------------------------------------------------
(* No credential is ever encrypted with a key that is missing from the     *)
(* keyring file, so a process that is restarted reads all of them: not     *)
(* after concurrent or killed rotations, nor when web processes and jobs   *)
(* go on with an older file (crypto.py, 84-108; the tool, 89-143).         *)
CredentialsReadable == \A m \in Mailboxes : cred[m] \in Readable(ring)

(* Runs that are killed or fail half way, overlapping processes with older *)
(* files and jobs that roll back are together no more than whole           *)
(* rotations, encryptions with a key that is in the file, and removals of  *)
(* keys that nothing needs: no run drops the key another one added (the    *)
(* tool, 89-143; rotation_common.py, 120-152; crypto.py, 84-108).          *)
TheVault == INSTANCE Vault WITH
    usable <- Readable(ring), primary <- ring.primary, cred <- cred
ImplementsVault == TheVault!Spec

(* The option's help: "Atomically reactivate a retained key".              *)
ActivationKeepsKeys ==
    [][\A t \in Tools :
          tool[t].activate /\ tool[t].pc = "prepared" /\ tool'[t].pc = "written"
              => ring'.keys = ring.keys]_vars

=============================================================================
