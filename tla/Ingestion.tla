------------------------------ MODULE Ingestion ------------------------------
(***************************************************************************)
(* The read-only ingestion worker (app/gateway/ingestion.py and            *)
(* worker/mailgate_worker) running against the remote INBOX and against    *)
(* everything else that writes the same rows: the owner's mailbox and      *)
(* message views (app/gateway/views.py), credential re-encryption and the  *)
(* retention job (app/gateway/lifecycle.py).                               *)
(*                                                                         *)
(* One action is one IMAP exchange or one committed database transaction.  *)
(* Every transaction locks the mailbox row (or the message rows) it        *)
(* depends on before it reads them, so it appears as a single step; what   *)
(* the worker read earlier and keeps in memory is in queue, sync and todo. *)
(***************************************************************************)
EXTENDS Integers, FiniteSets

CONSTANTS
    Mailboxes,      \* primary keys a mailbox row can get; a key is never reused
    NoMailbox,      \* stands for "no mailbox" in the worker's idle memory
    MaxUid,         \* bound: remote UIDs are 1..MaxUid in every generation
    MaxValidity,    \* bound: UIDVALIDITY generations 1..MaxValidity
    MaxVersion,     \* bound: config_version 1..MaxVersion
    MaxPosts,       \* bound: decision requests in flight
    BatchSize       \* sync_mailbox(batch_size=...)

ASSUME IngestionConstants ==
    /\ NoMailbox \notin Mailboxes
    /\ {MaxUid, MaxValidity, MaxVersion, BatchSize} \subseteq Nat \ {0}
    /\ MaxPosts \in Nat

Uid == 1..MaxUid
Validity == 1..MaxValidity
Key == Mailboxes \X Validity \X Uid     \* unique_imap_message

VARIABLES
    inbox,      \* remote INBOX: its UIDVALIDITY, its UIDNEXT, its present UIDs
    mailbox,    \* gateway_mailbox rows
    message,    \* gateway_message rows: their state, or "absent"
    posts,      \* decision requests between get_object_or_404 and save()
    pc,         \* worker: "idle", "cycle", "connecting", "loop" or "fetched"
    queue,      \* worker: rows of this cycle not yet synchronised, as read
    sync,       \* worker: the Mailbox object sync_mailbox works on
    todo,       \* worker: UIDs of the batch still to be stored
    \* History, read only by the properties.
    ingested,   \* keys stored at least once
    dirty,      \* mailboxes whose configuration changed since the cycle's read
    tested      \* per mailbox: version of the last credential change or
                \* re-enabling (since), version the shown status is about (by)

worker == <<pc, queue, sync, todo>>
vars == <<inbox, mailbox, message, posts, worker, ingested, dirty, tested>>

NullValidity == 0                       \* uid_validity IS NULL
Snapshot == [box : Mailboxes \union {NoMailbox}, version : Nat,
             validity : Nat, last : Nat]
NoSync == [box |-> NoMailbox, version |-> 0, validity |-> 0, last |-> 0]

Row == [presence : {"unused", "live", "deleted"}, enabled : BOOLEAN,
        version : Nat, validity : Nat, last : Nat,
        status : {"never", "ok", "failed"}]
NoRow(p) == [presence |-> p, enabled |-> FALSE, version |-> 0,
             validity |-> NullValidity, last |-> 0, status |-> "never"]

States == {"absent", "quarantined", "approved", "rejected"}
Decisions == {"approved", "rejected"}
Post == [key : Key, to : Decisions, gone : BOOLEAN]

Live(m) == mailbox[m].presence = "live"
Stored(k) == message[k] # "absent"

(* Shape of the state; the last conjunct is the foreign key of             *)
(* gateway_message to gateway_mailbox (models.py, lines 55 and 76-85).     *)
TypeOK ==
    /\ inbox \in [validity : Validity, next : 1..MaxUid + 1, uids : SUBSET Uid]
    /\ mailbox \in [Mailboxes -> Row]
    /\ message \in [Key -> States]
    /\ posts \subseteq Post
    /\ pc \in {"idle", "cycle", "connecting", "loop", "fetched"}
    /\ queue \subseteq Snapshot
    /\ sync \in Snapshot
    /\ todo \subseteq Uid
    /\ ingested \subseteq Key
    /\ dirty \subseteq Mailboxes
    /\ tested \in [Mailboxes -> [since : Nat, by : Nat]]
    /\ \A k \in Key : Stored(k) => Live(k[1])

Init ==
    /\ inbox = [validity |-> 1, next |-> 1, uids |-> {}]
    /\ mailbox = [m \in Mailboxes |-> NoRow("unused")]
    /\ message = [k \in Key |-> "absent"]
    /\ posts = {}
    /\ pc = "idle" /\ queue = {} /\ sync = NoSync /\ todo = {}
    /\ ingested = {} /\ dirty = {}
    /\ tested = [m \in Mailboxes |-> [since |-> 0, by |-> 0]]

-----------------------------------------------------------------------------
(* The mail provider.  Servers assign ascending UIDs within a generation   *)
(* and never return to an earlier UIDVALIDITY (RFC 3501, 2.3.1.1).         *)

Arrive ==
    /\ inbox.next <= MaxUid
    /\ inbox' = [inbox EXCEPT !.next = @ + 1, !.uids = @ \union {inbox.next}]
    /\ UNCHANGED <<mailbox, message, posts, worker, ingested, dirty, tested>>

Expunge(u) ==
    /\ u \in inbox.uids
    /\ inbox' = [inbox EXCEPT !.uids = @ \ {u}]
    /\ UNCHANGED <<mailbox, message, posts, worker, ingested, dirty, tested>>

(* The INBOX is recreated: its n messages are numbered afresh. *)
NewValidity(n) ==
    /\ inbox.validity < MaxValidity
    /\ inbox' = [validity |-> inbox.validity + 1, next |-> n + 1, uids |-> 1..n]
    /\ UNCHANGED <<mailbox, message, posts, worker, ingested, dirty, tested>>

-----------------------------------------------------------------------------
(* The owner's mailbox views.                                              *)

Create(m, en) ==
    /\ mailbox[m].presence = "unused"
    /\ mailbox' = [mailbox EXCEPT ![m] =
           [NoRow("live") EXCEPT !.enabled = en, !.version = 1]]
    /\ tested' = [tested EXCEPT ![m].since = 1]
    /\ UNCHANGED <<inbox, message, posts, worker, ingested, dirty>>

(* mailgate_bump_mailbox_config_version compares the connection columns,   *)
(* trusted_authserv_ids and enabled; a rename or a cursor update keeps it. *)
Bumped(row, pw, en, ids) ==
    IF pw \/ ids \/ en # row.enabled THEN row.version + 1 ELSE row.version

ResetsStatusOnPasswordOnly(row, pw, en) == pw
ResetsStatus(row, pw, en) == pw \/ (~row.enabled /\ en)

EditedFromTheStart(row, pw, en, ids) ==
    [row EXCEPT !.enabled = en, !.version = Bumped(row, pw, en, ids),
                !.status = IF ResetsStatus(row, pw, en) THEN "never" ELSE @,
                !.last = IF ResetsStatus(row, pw, en) THEN 0 ELSE @]
Edited(row, pw, en, ids) ==
    [row EXCEPT !.enabled = en, !.version = Bumped(row, pw, en, ids),
                !.status = IF ResetsStatus(row, pw, en) THEN "never" ELSE @]

(* pw: a new password was typed; ids: trusted_authserv_ids changed, or the *)
(* provider preset has a newer version.  Host and username are disabled in *)
(* the form.  An edit of the name alone changes nothing modelled here.     *)
Edit(m, pw, en, ids) ==
    LET row == mailbox[m] IN
    /\ Live(m)
    /\ pw \/ ids \/ en # row.enabled
    /\ row.version < MaxVersion
    /\ mailbox' = [mailbox EXCEPT ![m] = Edited(row, pw, en, ids)]
    /\ dirty' = dirty \union {m}
    /\ tested' = IF pw \/ (~row.enabled /\ en)
                 THEN [tested EXCEPT ![m] = [since |-> row.version + 1, by |-> 0]]
                 ELSE tested
    /\ UNCHANGED <<inbox, message, posts, worker, ingested>>

(* Rows S disappear; the save() of a request that already read one fails.  *)
Unstore(S) ==
    /\ message' = [k \in Key |-> IF k \in S THEN "absent" ELSE message[k]]
    /\ posts' = {[p EXCEPT !.gone = @ \/ p.key \in S] : p \in posts}

CascadeUndecided(m) == {k \in Key : k[1] = m /\ message[k] = "quarantined"}
Cascade(m) == {k \in Key : k[1] = m /\ Stored(k)}

Delete(m) ==
    /\ Live(m)
    /\ mailbox' = [mailbox EXCEPT ![m] = NoRow("deleted")]
    /\ Unstore(Cascade(m))
    /\ dirty' = dirty \union {m}
    /\ tested' = [tested EXCEPT ![m] = [since |-> 0, by |-> 0]]
    /\ UNCHANGED <<inbox, worker, ingested>>

(* rotate_mailbox_credentials: in one transaction that holds all mailbox   *)
(* rows, password_encrypted of the mailboxes S that are not yet under the  *)
(* primary key is rewritten, and the trigger bumps each of them.           *)
Reencrypt(S) ==
    /\ S # {}
    /\ \A m \in S : Live(m) /\ mailbox[m].version < MaxVersion
    /\ mailbox' = [m \in Mailboxes |->
           IF m \in S
           THEN [mailbox[m] EXCEPT !.version =
                     Bumped(mailbox[m], TRUE, mailbox[m].enabled, FALSE)]
           ELSE mailbox[m]]
    /\ dirty' = dirty \union S
    /\ UNCHANGED <<inbox, message, posts, worker, ingested, tested>>

-----------------------------------------------------------------------------
(* The owner's decisions and the retention job.                            *)

OpenDecision(k, d) ==
    /\ Stored(k)
    /\ Cardinality(posts) < MaxPosts
    /\ posts' = posts \union {[key |-> k, to |-> d, gone |-> FALSE]}
    /\ UNCHANGED <<inbox, mailbox, message, worker, ingested, dirty, tested>>

(* save() without update_fields inserts the row it does not find. *)
SaveDecisionOrInsert(p) ==
    /\ p \in posts
    /\ p.gone => Live(p.key[1]) /\ ~Stored(p.key)
    /\ message' = [message EXCEPT ![p.key] = p.to]
    /\ posts' = posts \ {p}
    /\ UNCHANGED <<inbox, mailbox, worker, ingested, dirty, tested>>
SaveDecision(p) ==
    /\ p \in posts
    /\ ~p.gone
    /\ message' = [message EXCEPT ![p.key] = p.to]
    /\ posts' = posts \ {p}
    /\ UNCHANGED <<inbox, mailbox, worker, ingested, dirty, tested>>

(* save(update_fields=...) finds no row: DatabaseError, nothing is written. *)
DecisionFails(p) ==
    /\ p \in posts
    /\ p.gone
    /\ posts' = posts \ {p}
    /\ UNCHANGED <<inbox, mailbox, message, worker, ingested, dirty, tested>>

(* One purge_retention run.  Ages are abstracted: S is whatever the policy *)
(* finds expired.  Mailbox rows, and so the cursors, are left alone.       *)
Purge(S) ==
    /\ S # {}
    /\ \A k \in S : Stored(k)
    /\ Unstore(S)
    /\ UNCHANGED <<inbox, mailbox, worker, ingested, dirty, tested>>

-----------------------------------------------------------------------------
(* The worker.                                                             *)

AsRead(m) == [box |-> m, version |-> mailbox[m].version,
              validity |-> mailbox[m].validity, last |-> mailbox[m].last]

(* sync_all_mailboxes reads all enabled rows at once (a held cursor). *)
BeginCycle ==
    LET enabled == {m \in Mailboxes : Live(m) /\ mailbox[m].enabled} IN
    /\ pc = "idle"
    /\ enabled # {}
    /\ pc' = "cycle"
    /\ queue' = {AsRead(m) : m \in enabled}
    /\ dirty' = {}
    /\ UNCHANGED <<inbox, mailbox, message, posts, sync, todo, ingested, tested>>

EndCycle ==
    /\ pc = "cycle"
    /\ queue = {}
    /\ pc' = "idle"
    /\ UNCHANGED <<inbox, mailbox, message, posts, queue, sync, todo, ingested,
                   dirty, tested>>

StartSync(s) ==
    /\ pc = "cycle"
    /\ s \in queue
    /\ queue' = queue \ {s}
    /\ sync' = s
    /\ pc' = "connecting"
    /\ UNCHANGED <<inbox, mailbox, message, posts, todo, ingested, dirty, tested>>

(* A new UIDVALIDITY restarts the numbering, in memory until the end. *)
ResumedInPlace(s) == [s EXCEPT !.validity = inbox.validity]
Resumed(s) ==
    IF s.validity = inbox.validity THEN s
    ELSE [s EXCEPT !.validity = inbox.validity, !.last = 0]

(* The first batch_size of the UIDs that SEARCH lists in ascending order. *)
NewestBatches(S) ==
    {B \in SUBSET S :
        /\ Cardinality(B) <= BatchSize
        /\ B = S \/ Cardinality(B) = BatchSize
        /\ \A b \in B, c \in S \ B : c < b}
Batches(S) ==
    {B \in SUBSET S :
        /\ Cardinality(B) <= BatchSize
        /\ B = S \/ Cardinality(B) = BatchSize
        /\ \A b \in B, c \in S \ B : b < c}

Select ==
    LET s == Resumed(sync) IN
    /\ pc = "connecting"
    /\ sync' = s
    /\ todo' \in Batches({u \in inbox.uids : u > s.last})
    /\ pc' = "loop"
    /\ UNCHANGED <<inbox, mailbox, message, posts, queue, ingested, dirty, tested>>

NextUid(u) == u \in todo /\ \A w \in todo : u <= w
Readable(u) == inbox.validity = sync.validity /\ u \in inbox.uids

(* RFC822.SIZE and, unless the message is too large, BODY.PEEK[]. *)
Fetch(u) ==
    /\ pc = "loop"
    /\ NextUid(u)
    /\ Readable(u)
    /\ pc' = "fetched"
    /\ UNCHANGED <<inbox, mailbox, message, posts, queue, sync, todo, ingested,
                   dirty, tested>>

(* filter(pk=..., enabled=True, config_version=expected_config_version) *)
CurrentIfEnabled(s) == Live(s.box) /\ mailbox[s.box].enabled
Current(s) ==
    /\ Live(s.box)
    /\ mailbox[s.box].enabled
    /\ mailbox[s.box].version = s.version

LeaveSync(next) == pc' = next /\ sync' = NoSync /\ todo' = {}

(* assess() and both exception branches yield "quarantined"; the insert    *)
(* trigger forces it for the worker's role in any case.                    *)
InsertedState == "quarantined"

Store(u) ==
    LET k == <<sync.box, sync.validity, u>> IN
    /\ pc = "fetched"
    /\ NextUid(u)
    /\ Current(sync)
    /\ message' = IF Stored(k) THEN message
                  ELSE [message EXCEPT ![k] = InsertedState]
    /\ ingested' = ingested \union {k}
    /\ sync' = [sync EXCEPT !.last = IF u > @ THEN u ELSE @]
    /\ todo' = todo \ {u}
    /\ pc' = "loop"
    /\ UNCHANGED <<inbox, mailbox, posts, queue, dirty, tested>>

StoreRefused ==
    /\ pc = "fetched"
    /\ ~Current(sync)
    /\ LeaveSync("cycle")
    /\ UNCHANGED <<inbox, mailbox, message, posts, queue, ingested, dirty, tested>>

(* Both status writes are single UPDATEs guarded like Current(sync): they  *)
(* change no row when the configuration moved on.                          *)
Report(row) ==
    IF Current(sync)
    THEN /\ mailbox' = [mailbox EXCEPT ![sync.box] = row]
         /\ tested' = [tested EXCEPT ![sync.box].by = sync.version]
    ELSE UNCHANGED <<mailbox, tested>>

Advanced(row) ==
    [row EXCEPT !.validity = sync.validity, !.last = sync.last, !.status = "ok"]
Failed(row) == [row EXCEPT !.status = "failed"]

Finish ==
    /\ pc = "loop"
    /\ todo = {}
    /\ Report(Advanced(mailbox[sync.box]))
    /\ LeaveSync("cycle")
    /\ UNCHANGED <<inbox, message, posts, queue, ingested, dirty>>

SyncFails ==
    /\ Report(Failed(mailbox[sync.box]))
    /\ LeaveSync("cycle")
    /\ UNCHANGED <<inbox, message, posts, queue, ingested, dirty>>

(* The next UID is no longer there: size_unavailable or empty_message. *)
FetchMissing ==
    /\ pc = "loop"
    /\ \E u \in todo : NextUid(u) /\ ~Readable(u)
    /\ SyncFails

(* Timeout, refused login, relay failure, protocol error at any exchange. *)
ImapFailure ==
    /\ pc = "connecting" \/ (pc = "loop" /\ todo # {})
    /\ SyncFails

(* An exception outside sync_mailbox's except list (undecryptable          *)
(* credential, database error) is only logged by sync_all_mailboxes.       *)
UnexpectedError ==
    /\ pc \in {"connecting", "loop", "fetched"}
    /\ LeaveSync("cycle")
    /\ UNCHANGED <<inbox, mailbox, message, posts, queue, ingested, dirty, tested>>

(* The worker process dies; the container restarts it at the loop's top. *)
Crash ==
    /\ pc # "idle"
    /\ queue' = {}
    /\ LeaveSync("idle")
    /\ UNCHANGED <<inbox, mailbox, message, posts, ingested, dirty, tested>>

-----------------------------------------------------------------------------
Remote ==
    \/ Arrive
    \/ \E u \in Uid : Expunge(u)
    \/ \E n \in 0..MaxUid : NewValidity(n)

Owner ==
    \/ \E m \in Mailboxes, en \in BOOLEAN : Create(m, en)
    \/ \E m \in Mailboxes, pw, en, ids \in BOOLEAN : Edit(m, pw, en, ids)
    \/ \E m \in Mailboxes : Delete(m)
    \/ \E k \in Key, d \in Decisions : OpenDecision(k, d)
    \/ \E p \in posts : SaveDecision(p) \/ DecisionFails(p)

Operator ==
    \/ \E S \in SUBSET Mailboxes : Reencrypt(S)
    \/ \E S \in SUBSET {k \in Key : Stored(k)} : Purge(S)

Worker ==
    \/ BeginCycle
    \/ EndCycle
    \/ \E s \in queue : StartSync(s)
    \/ Select
    \/ \E u \in todo : Fetch(u) \/ Store(u)
    \/ StoreRefused
    \/ Finish
    \/ FetchMissing
    \/ ImapFailure
    \/ UnexpectedError
    \/ Crash

Next == Remote \/ Owner \/ Operator \/ Worker

Spec == Init /\ [][Next]_vars

(* The poll loop never stops by itself (compose restarts the worker), and  *)
(* no exchange fails every single time it is attempted: failures, crashes  *)
(* and edits may recur without end, but not so that one step never works.  *)
Fairness ==
    /\ WF_vars(BeginCycle \/ EndCycle \/ FetchMissing \/ StoreRefused)
    /\ \A m \in Mailboxes :
        /\ SF_vars(\E s \in queue : s.box = m /\ StartSync(s))
        /\ SF_vars(sync.box = m /\ Select)
        /\ SF_vars(sync.box = m /\ Finish)
        /\ \A u \in Uid : SF_vars(sync.box = m /\ Fetch(u))
        /\ \A u \in Uid : SF_vars(sync.box = m /\ Store(u))

FairSpec == Spec /\ Fairness

-----------------------------------------------------------------------------
(* Safety.                                                                 *)

(* The persisted cursor never runs past a message: whatever UID at or      *)
(* below last_uid is still in the INBOX was stored at some time, although  *)
(* batches, failures, crashes and UIDVALIDITY changes interrupt the loop   *)
(* between a commit and the cursor update (sync_mailbox, lines 176-235).   *)
NothingSkipped ==
    \A m \in Mailboxes, u \in inbox.uids :
        /\ Live(m)
        /\ mailbox[m].validity = inbox.validity
        /\ u <= mailbox[m].last
        => <<m, inbox.validity, u>> \in ingested

(* The status shown to the owner is never older than the last password     *)
(* change or re-enabling: mailbox_edit clears it, and a sync that started  *)
(* before cannot write it back (sync_mailbox, lines 223-248).              *)
StatusIsCurrent ==
    \A m \in Mailboxes :
        Live(m) /\ mailbox[m].status # "never" => tested[m].by >= tested[m].since

(* A sync that read a row before the owner changed or deleted it writes    *)
(* nothing for that mailbox any more, neither message nor cursor nor       *)
(* status, not even after a disable and enable that look unchanged.        *)
NoStaleWorkerWrite ==
    [][worker' # worker => \A m \in dirty :
          /\ mailbox'[m] = mailbox[m]
          /\ \A k \in Key : k[1] = m => message'[k] = message[k]]_vars

(* The cursor of a live mailbox never moves back within a generation, and  *)
(* a message that retention removed is stored again only if the cursor had *)
(* not been persisted past it (mailbox_edit, purge_retention, sync).       *)
CursorStable ==
    [][/\ \A m \in Mailboxes :
            Live(m) /\ mailbox'[m].presence = "live"
            /\ mailbox'[m].validity = mailbox[m].validity
            => mailbox'[m].last >= mailbox[m].last
       /\ \A k \in Key :
            ~Stored(k) /\ message'[k] # "absent"
            /\ mailbox[k[1]].validity = k[2]
            => k[3] > mailbox[k[1]].last]_vars

(* The owner's gate: with the decisions in flight as requests, every step  *)
(* of the system is a step of Gate or leaves the gate's state unchanged.   *)
GateView == INSTANCE Gate WITH
    Messages <- Key,
    state <- message,
    asked <- {<<p.key, p.to>> : p \in {q \in posts : ~q.gone}}
ImplementsGate == GateView!Spec

(* Liveness: a message that stays in the INBOX of an enabled mailbox is    *)
(* ingested, whatever transient failures, restarts and edits intervene.    *)
EventuallyIngested ==
    \A m \in Mailboxes, v \in Validity, u \in Uid :
        LET due == Live(m) /\ mailbox[m].enabled
                   /\ inbox.validity = v /\ u \in inbox.uids
        IN  due ~> (<<m, v, u>> \in ingested \/ ~due)

(* docs/operations.md: "It preserves mailbox UID cursors so locally        *)
(* expired messages are not imported again."                               *)
ExpiredNotImportedAgain ==
    [][\A k \in ingested : ~Stored(k) => message'[k] = "absent"]_vars

=============================================================================
