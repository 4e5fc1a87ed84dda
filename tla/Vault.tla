-------------------------------- MODULE Vault --------------------------------
(***************************************************************************)
(* What the keyring promises about stored credentials, whatever the host   *)
(* tool, the web processes and the re-encryption jobs do concurrently:     *)
(* keys are only added, each rotation changes the primary key, a           *)
(* credential is encrypted only with a key that is in the vault, and a key *)
(* leaves the vault only by hand, when no credential needs it.             *)
(***************************************************************************)
CONSTANTS
    Keys,         \* key IDs
    Untagged,     \* the master key, which always remains
    Mailboxes

VARIABLES
    usable,       \* keys that a process started now can decrypt with
    primary,      \* the key it would encrypt with
    cred          \* the key each credential is encrypted with

vars == <<usable, primary, cred>>

Init ==
    /\ \/ usable = {Untagged} /\ primary = Untagged
       \/ \E k \in Keys : usable = {Untagged, k} /\ primary = k
    /\ cred = [m \in Mailboxes |-> Untagged]

(* A rotation or a rollback to k.  The first one retains the master key    *)
(* under an ID of its own as well.                                         *)
Rotate(k, legacy) ==
    /\ k # primary
    /\ usable = {Untagged} \/ legacy = k
    /\ usable' = usable \union {k, legacy}
    /\ primary' = k
    /\ UNCHANGED cred

(* A password is saved, with a key that need not be the primary any more.  *)
Encrypt(m, k) ==
    /\ k \in usable
    /\ cred' = [cred EXCEPT ![m] = k]
    /\ UNCHANGED <<usable, primary>>

(* All or nothing. *)
EncryptAll(k) ==
    /\ k \in usable
    /\ cred' = [m \in Mailboxes |-> k]
    /\ UNCHANGED <<usable, primary>>

Retire(k) ==
    /\ k \in usable \ {Untagged, primary}
    /\ \A m \in Mailboxes : cred[m] # k
    /\ usable' = usable \ {k}
    /\ UNCHANGED <<primary, cred>>

Next ==
    \/ \E k, legacy \in Keys : Rotate(k, legacy)
    \/ \E m \in Mailboxes, k \in usable : Encrypt(m, k)
    \/ \E k \in usable : EncryptAll(k) \/ Retire(k)

Spec == Init /\ [][Next]_vars

=============================================================================
