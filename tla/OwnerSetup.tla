------------------------------ MODULE OwnerSetup ------------------------------
(***************************************************************************)
(* First-run creation of the owner (setup_owner in app/gateway/views.py    *)
(* and OwnerCreationForm in app/gateway/forms.py): concurrent requests     *)
(* that all hold the setup token, each of which looks for an existing      *)
(* owner when it arrives, when its form is validated and once more under   *)
(* an advisory lock inside the transaction that creates the owner.         *)
(***************************************************************************)
EXTENDS Naturals, FiniteSets

CONSTANTS
    Requests,    \* concurrent POST requests to setup_owner
    Names,       \* usernames they may ask for
    Nobody       \* stands for "the advisory lock is free"

ASSUME SetupConstants == Nobody \notin Requests

VARIABLES
    owners,      \* committed rows of the user table
    audited,     \* usernames with a committed owner.created event
    stage,       \* where each request is
    name,        \* the username each request asks for
    lock         \* holder of pg_advisory_xact_lock

vars == <<owners, audited, stage, name, lock>>

(* arrived: passed the first look; valid: passed the form's look; locked:  *)
(* holds the lock; clear: saw no owner under the lock; saved: the user and *)
(* its audit event are inserted and not yet committed; the rest are ends.  *)
Stages == {"new", "arrived", "valid", "locked", "clear", "saved", "created",
           "invalid", "redirected", "failed"}
InTransaction(r) == stage[r] \in {"locked", "clear", "saved"}

(* Shape of the state; the lock is held exactly inside a transaction.      *)
TypeOK ==
    /\ owners \subseteq Names
    /\ audited \subseteq Names
    /\ stage \in [Requests -> Stages]
    /\ name \in [Requests -> Names]
    /\ lock \in Requests \union {Nobody}
    /\ \A r \in Requests : InTransaction(r) => lock = r

Init ==
    /\ owners = {} /\ audited = {}
    /\ stage = [r \in Requests |-> "new"]
    /\ name \in [Requests -> Names]
    /\ lock = Nobody

Goto(r, s) == stage' = [stage EXCEPT ![r] = s]

(* get_user_model().objects.exists() at the top of the view. *)
Arrive(r) ==
    /\ stage[r] = "new"
    /\ Goto(r, IF owners = {} THEN "arrived" ELSE "redirected")
    /\ UNCHANGED <<owners, audited, name, lock>>

(* form.is_valid(): the username must be free, and clean() looks again. *)
Validate(r) ==
    /\ stage[r] = "arrived"
    /\ Goto(r, IF owners = {} THEN "valid" ELSE "invalid")
    /\ UNCHANGED <<owners, audited, name, lock>>

LockAnyway(r) ==
    /\ stage[r] = "valid"
    /\ lock' = r
    /\ Goto(r, "locked")
    /\ UNCHANGED <<owners, audited, name>>
Lock(r) ==
    /\ stage[r] = "valid"
    /\ lock = Nobody
    /\ lock' = r
    /\ Goto(r, "locked")
    /\ UNCHANGED <<owners, audited, name>>

RecheckSkipped(r) ==
    /\ stage[r] = "locked"
    /\ Goto(r, "clear")
    /\ UNCHANGED <<owners, audited, name, lock>>
(* READ COMMITTED: the look after the lock sees what was committed before. *)
Recheck(r) ==
    /\ stage[r] = "locked"
    /\ owners = {}
    /\ Goto(r, "clear")
    /\ UNCHANGED <<owners, audited, name, lock>>

OwnerExists(r) ==
    /\ stage[r] = "locked"
    /\ owners # {}
    /\ Goto(r, "redirected")
    /\ lock' = Nobody
    /\ UNCHANGED <<owners, audited, name>>

(* form.save() and audit(); the unique username cannot be taken here. *)
Save(r) ==
    /\ stage[r] = "clear"
    /\ name[r] \notin owners
    /\ Goto(r, "saved")
    /\ UNCHANGED <<owners, audited, name, lock>>

Commit(r) ==
    /\ stage[r] = "saved"
    /\ owners' = owners \union {name[r]}
    /\ audited' = audited \union {name[r]}
    /\ Goto(r, "created")
    /\ lock' = Nobody
    /\ UNCHANGED name

(* The process or its connection dies: rollback, which frees the lock. *)
FailKeepingLock(r) ==
    /\ stage[r] \in {"arrived", "valid"} \/ InTransaction(r)
    /\ Goto(r, "failed")
    /\ UNCHANGED <<owners, audited, name, lock>>
Fail(r) ==
    /\ stage[r] \in {"arrived", "valid"} \/ InTransaction(r)
    /\ Goto(r, "failed")
    /\ lock' = IF InTransaction(r) THEN Nobody ELSE lock
    /\ UNCHANGED <<owners, audited, name>>

Next ==
    \E r \in Requests :
        \/ Arrive(r)
        \/ Validate(r)
        \/ Lock(r)
        \/ Recheck(r)
        \/ OwnerExists(r)
        \/ Save(r)
        \/ Commit(r)
        \/ Fail(r)

Spec == Init /\ [][Next]_vars

(* A request that was started goes on unless its process dies. *)
Fairness ==
    \A r \in Requests :
        /\ WF_vars(Validate(r) \/ Recheck(r) \/ OwnerExists(r) \/ Save(r) \/ Commit(r))
        /\ SF_vars(Lock(r))

FairSpec == Spec /\ Fairness

-----------------------------------------------------------------------------
(* However many requests pass the two unlocked looks, at most one owner is *)
(* created, and its creation is audited (setup_owner, lines 32-45).        *)
SingleAuditedOwner == Cardinality(owners) <= 1 /\ owners \subseteq audited

(* No request waits for the lock for ever, whatever dies while holding it. *)
EveryRequestEnds ==
    \A r \in Requests :
        stage[r] = "arrived" ~>
            stage[r] \in {"created", "invalid", "redirected", "failed"}

=============================================================================
