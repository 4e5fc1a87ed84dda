------------------------------ MODULE Lifecycle ------------------------------
(***************************************************************************)
(* Retention, deletion and export of stored messages                       *)
(* (app/gateway/lifecycle.py, mailbox_delete and message_decide in         *)
(* views.py, owner_export.py, export_owner_data): three multi-statement    *)
(* transactions that meet each other, the owner's decisions and the worker *)
(* on the same rows.                                                       *)
(*                                                                         *)
(* At READ COMMITTED a statement sees what is committed; a row that a      *)
(* transaction has locked or deleted makes others wait until it ends.      *)
(* Message keys are random UUIDs: the order in which a transaction locks   *)
(* rows is arbitrary, and a key is never used again.                       *)
(***************************************************************************)
EXTENDS Integers, FiniteSets

CONSTANTS
    Mailboxes,   \* mailboxes
    Numbers,     \* numbers of the messages of one mailbox
    Keep,        \* RetentionPolicy: age in ticks at which a state expires
    BatchSize,   \* batch_size of purge_retention
    Exports,     \* runs of export_owner_data with the same --output
    Nobody,      \* stands for "the output file does not exist"
    Other,       \* another program that writes to that path
    MaxTime,     \* bound on the clock
    MaxPosts     \* bound on decisions in flight

Decisions == {"approved", "rejected"}
States == {"quarantined"} \union Decisions

ASSUME LifecycleConstants ==
    /\ IsFiniteSet(Mailboxes) /\ IsFiniteSet(Numbers)
    /\ Keep \in [States -> Nat]
    /\ BatchSize \in Nat \ {0} /\ MaxTime \in Nat /\ MaxPosts \in Nat
    /\ Nobody \notin Exports /\ Other \notin Exports /\ Nobody # Other

VARIABLES
    now,      \* the clock of all hosts
    live,     \* mailboxes that exist
    row,      \* message rows as committed
    posts,    \* decision requests between timezone.now() and their UPDATE
    purge,    \* one run of purge_retention
    del,      \* the transaction of mailbox_delete, per mailbox
    lost,     \* history: counted by mailbox_delete, then removed by retention
    export,   \* runs of export_owner_data
    file      \* whose export the output file holds

vars == <<now, live, row, posts, purge, del, lost, export, file>>

Messages == Mailboxes \X Numbers
(* since is Coalesce(decided_at, ingested_at); a row is decided exactly    *)
(* when it is no longer quarantined.                                       *)
Row == [state : States, since : Nat]
Absent == [state |-> "absent", since |-> 0]    \* not inserted yet
Gone == [state |-> "gone", since |-> 0]
Stored(m) == row[m].state \in States

Post == [msg : Messages, to : Decisions, at : Nat]
(* The categories in the order of retention_querysets. *)
Category(i) == CASE i = 1 -> "approved" [] i = 2 -> "quarantined" [] i = 3 -> "rejected"
Categories == 1..3

Purge == [pc : {"idle", "select", "lock", "audit", "done"},
          now : Nat, category : Categories \union {4},
          ids : SUBSET Messages, locked : SUBSET Messages,
          deleted : SUBSET Messages, counts : [Categories -> Nat]]
NoPurge(pc) == [pc |-> pc, now |-> 0, category |-> 1, ids |-> {}, locked |-> {},
                deleted |-> {}, counts |-> [i \in Categories |-> 0]]
Deletion == [pc : {"idle", "counted", "deleting", "over"}, count : Nat,
             todo : SUBSET Messages, deleted : SUBSET Messages]
NoDeletion(pc) == [pc |-> pc, count |-> 0, todo |-> {}, deleted |-> {}]
Document == [boxes : SUBSET Mailboxes, msgs : SUBSET Messages,
             attachments : SUBSET Messages]
NoDocument == [boxes |-> {}, msgs |-> {}, attachments |-> {}]
Export == [pc : {"idle", "messages", "attachments", "published"},
           snapshot : Document, out : Document]
NoExport(pc) == [pc |-> pc, snapshot |-> NoDocument, out |-> NoDocument]

Deleting(b) == del[b].pc \in {"counted", "deleting"}

(* Rows that the transaction of the purge, or of a deletion, has locked.   *)
ByPurge == purge.locked \union purge.deleted
ByDeletion == UNION {del[b].deleted : b \in Mailboxes}
Free(m) == m \notin ByPurge \union ByDeletion

Shapes ==
    /\ now \in Nat /\ live \subseteq Mailboxes
    /\ row \in [Messages -> Row \union {Absent, Gone}]
    /\ posts \subseteq Post
    /\ purge \in Purge
    /\ del \in [Mailboxes -> Deletion]
    /\ lost \in [Mailboxes -> SUBSET Messages]
    /\ export \in [Exports -> Export]
    /\ file \in Exports \union {Nobody, Other}

(* Shape of the state; no row outlives its mailbox, and no row is locked   *)
(* by two transactions.                                                    *)
TypeOK ==
    /\ Shapes
    /\ \A m \in Messages : Stored(m) => m[1] \in live
    /\ ByPurge \intersect ByDeletion = {}

Init ==
    /\ now = 1
    /\ live = Mailboxes
    /\ row = [m \in Messages |-> Absent]
    /\ posts = {}
    /\ purge = NoPurge("idle")
    /\ del = [b \in Mailboxes |-> NoDeletion("idle")]
    /\ lost = [b \in Mailboxes |-> {}]
    /\ export = [e \in Exports |-> NoExport("idle")]
    /\ file = Nobody

-----------------------------------------------------------------------------
Tick ==
    /\ now < MaxTime
    /\ now' = now + 1
    /\ UNCHANGED <<live, row, posts, purge, del, lost, export, file>>

(* _store_message; it waits for the mailbox row, which mailbox_delete      *)
(* locks before it counts.                                                 *)
IngestUnlocked(m) ==
    /\ row[m] = Absent
    /\ m[1] \in live
    /\ row' = [row EXCEPT ![m] = [state |-> "quarantined", since |-> now]]
    /\ UNCHANGED <<now, live, posts, purge, del, lost, export, file>>
Ingest(m) ==
    /\ row[m] = Absent
    /\ m[1] \in live /\ ~Deleting(m[1])
    /\ row' = [row EXCEPT ![m] = [state |-> "quarantined", since |-> now]]
    /\ UNCHANGED <<now, live, posts, purge, del, lost, export, file>>

(* message_decide: the row was found and decided_at is taken, then saved   *)
(* with update_fields; the UPDATE waits for the row and must meet it.      *)
OpenDecision(m, to) ==
    /\ Cardinality(posts) < MaxPosts
    /\ Stored(m)
    /\ posts' = posts \union {[msg |-> m, to |-> to, at |-> now]}
    /\ UNCHANGED <<now, live, row, purge, del, lost, export, file>>

SaveDecisionOrInsert(p) ==
    /\ Free(p.msg)
    /\ row' = IF p.msg[1] \in live
              THEN [row EXCEPT ![p.msg] = [state |-> p.to, since |-> p.at]]
              ELSE row
    /\ posts' = posts \ {p}
    /\ UNCHANGED <<now, live, purge, del, lost, export, file>>
SaveDecision(p) ==
    /\ Stored(p.msg) /\ Free(p.msg)
    /\ row' = [row EXCEPT ![p.msg] = [state |-> p.to, since |-> p.at]]
    /\ posts' = posts \ {p}
    /\ UNCHANGED <<now, live, purge, del, lost, export, file>>

DecisionFails(p) ==
    /\ ~Stored(p.msg)
    /\ posts' = posts \ {p}
    /\ UNCHANGED <<now, live, row, purge, del, lost, export, file>>

-----------------------------------------------------------------------------
(* purge_retention *)

(* _message_queryset at this moment, with the cutoff of the run. *)
Expired(m) ==
    /\ Stored(m)
    /\ row[m].state = Category(purge.category)
    /\ row[m].since < purge.now - Keep[row[m].state]
(* Its own deletions are visible to the transaction. *)
Matches(m) == Expired(m) /\ m \notin purge.deleted

(* effective_now is taken first; then the transaction opens and waits for  *)
(* its advisory lock.                                                      *)
BeginPurge ==
    /\ purge.pc = "idle"
    /\ purge' = [NoPurge("select") EXCEPT !.now = now]
    /\ UNCHANGED <<now, live, row, posts, del, lost, export, file>>

(* The first statement of a round: at most BatchSize keys, no lock. *)
Some(keys) ==
    {ids \in SUBSET keys :
        Cardinality(ids) = IF Cardinality(keys) < BatchSize THEN Cardinality(keys)
                                                            ELSE BatchSize}
BatchesSeenByAnother == Some({m \in Messages : Expired(m)})
Batches == Some({m \in Messages : Matches(m)})

SelectBatch ==
    /\ purge.pc = "select"
    /\ \E m \in Messages : Matches(m)
    /\ \E ids \in Batches : purge' = [purge EXCEPT !.pc = "lock", !.ids = ids]
    /\ UNCHANGED <<now, live, row, posts, del, lost, export, file>>

NextCategory ==
    /\ purge.pc = "select"
    /\ ~\E m \in Messages : Matches(m)
    /\ purge' = IF purge.category < 3
                THEN [purge EXCEPT !.category = @ + 1]
                ELSE [purge EXCEPT !.category = 4, !.pc = "audit"]
    /\ UNCHANGED <<now, live, row, posts, del, lost, export, file>>

(* The second statement: each row is locked once it is free, and checked   *)
(* again as it is then.                                                    *)
LockRowUnchecked(m) ==
    /\ purge.pc = "lock" /\ m \in purge.ids
    /\ m \notin ByDeletion
    /\ purge' = [purge EXCEPT !.ids = @ \ {m},
                     !.locked = IF Stored(m) THEN @ \union {m} ELSE @]
    /\ UNCHANGED <<now, live, row, posts, del, lost, export, file>>
LockRow(m) ==
    /\ purge.pc = "lock" /\ m \in purge.ids
    /\ m \notin ByDeletion
    /\ purge' = [purge EXCEPT !.ids = @ \ {m},
                     !.locked = IF Matches(m) THEN @ \union {m} ELSE @]
    /\ UNCHANGED <<now, live, row, posts, del, lost, export, file>>

(* Delete what was locked, and look for more. *)
CountedAsSelected == [purge.counts EXCEPT ![purge.category] = @ + BatchSize]
Counted == [purge.counts EXCEPT ![purge.category] = @ + Cardinality(purge.locked)]

DeleteBatchKeepsRows ==
    /\ purge.pc = "lock" /\ purge.ids = {}
    /\ purge' = [purge EXCEPT !.pc = "select", !.locked = {}]
    /\ UNCHANGED <<now, live, row, posts, del, lost, export, file>>
DeleteBatch ==
    /\ purge.pc = "lock" /\ purge.ids = {}
    /\ purge' = [purge EXCEPT !.pc = "select", !.locked = {},
                     !.deleted = @ \union purge.locked, !.counts = Counted]
    /\ UNCHANGED <<now, live, row, posts, del, lost, export, file>>

(* The audit event with the counts, and the commit. *)
CommitPurge ==
    /\ purge.pc = "audit"
    /\ row' = [m \in Messages |-> IF m \in purge.deleted THEN Gone ELSE row[m]]
    /\ lost' = [b \in Mailboxes |->
                  IF Deleting(b)
                  THEN lost[b] \union {m \in purge.deleted : m[1] = b}
                  ELSE lost[b]]
    /\ purge' = NoPurge("done")
    /\ UNCHANGED <<now, live, posts, del, export, file>>

(* The job is killed or its connection lost: nothing of it remains, and    *)
(* the job may be started again.                                           *)
PurgeFails ==
    /\ purge.pc \in {"select", "lock", "audit"}
    /\ purge' = NoPurge("idle")
    /\ UNCHANGED <<now, live, row, posts, del, lost, export, file>>

-----------------------------------------------------------------------------
(* mailbox_delete *)

Owned(b) == {m \in Messages : Stored(m) /\ m[1] = b}

(* The mailbox row is locked and its messages are counted. *)
CountMessages(b) ==
    /\ b \in live /\ del[b].pc = "idle"
    /\ del' = [del EXCEPT ![b].pc = "counted", ![b].count = Cardinality(Owned(b))]
    /\ UNCHANGED <<now, live, row, posts, purge, lost, export, file>>

(* After the audit event, Mailbox.delete() collects the messages. *)
OpenDeletion(b) ==
    /\ del[b].pc = "counted"
    /\ del' = [del EXCEPT ![b].pc = "deleting", ![b].todo = Owned(b)]
    /\ UNCHANGED <<now, live, row, posts, purge, lost, export, file>>

(* The DELETE reaches a message, or finds that it is gone. *)
DeleteMessage(b, m) ==
    /\ del[b].pc = "deleting" /\ m \in del[b].todo
    /\ m \notin ByPurge
    /\ del' = [del EXCEPT ![b].todo = @ \ {m},
                   ![b].deleted = IF Stored(m) THEN @ \union {m} ELSE @]
    /\ UNCHANGED <<now, live, row, posts, purge, lost, export, file>>

CommitDeletion(b) ==
    /\ del[b].pc = "deleting" /\ del[b].todo = {}
    /\ row' = [m \in Messages |-> IF m \in del[b].deleted THEN Gone ELSE row[m]]
    /\ live' = live \ {b}
    /\ del' = [del EXCEPT ![b] = NoDeletion("over")]
    /\ lost' = [lost EXCEPT ![b] = {}]
    /\ UNCHANGED <<now, posts, purge, export, file>>

DeletionFails(b) ==
    /\ Deleting(b)
    /\ del' = [del EXCEPT ![b] = NoDeletion("over")]
    /\ lost' = [lost EXCEPT ![b] = {}]
    /\ UNCHANGED <<now, live, row, posts, purge, export, file>>

(* The purge waits for rows of deletions, among them one that waits for    *)
(* the purge: PostgreSQL aborts one of the two.                            *)
Deadlocked(b) ==
    /\ purge.pc = "lock" /\ purge.ids \subseteq ByDeletion
    /\ purge.ids \intersect del[b].deleted # {}
    /\ del[b].pc = "deleting" /\ del[b].todo # {} /\ del[b].todo \subseteq ByPurge
AbortOne(b) == Deadlocked(b) /\ (PurgeFails \/ DeletionFails(b))

-----------------------------------------------------------------------------
(* export_owner_data *)

Committed == [boxes |-> live, msgs |-> {m \in Messages : Stored(m)},
              attachments |-> {m \in Messages : Stored(m)}]

(* The first statement fixes the snapshot; here it writes the mailboxes.   *)
StartExport(e) ==
    /\ export[e].pc = "idle"
    /\ export' = [export EXCEPT ![e] =
                      IF file = Nobody
                      THEN [pc |-> "messages", snapshot |-> Committed,
                            out |-> [NoDocument EXCEPT !.boxes = live]]
                      ELSE NoExport("idle")]
    /\ UNCHANGED <<now, live, row, posts, purge, del, lost, file>>

(* REPEATABLE READ: every section is read from that snapshot. *)
CurrentSource(e) == Committed
Source(e) == export[e].snapshot

WriteMessages(e) ==
    /\ export[e].pc = "messages"
    /\ export' = [export EXCEPT ![e].pc = "attachments",
                                ![e].out.msgs = Source(e).msgs]
    /\ UNCHANGED <<now, live, row, posts, purge, del, lost, file>>

(* After the last section: os.link, which never replaces a file; then the  *)
(* temporary name is removed.                                              *)
Complete(e) == [export[e] EXCEPT !.pc = "published", !.snapshot = NoDocument,
                                 !.out.attachments = Source(e).attachments]
Publish(e) ==
    /\ export[e].pc = "attachments"
    /\ IF file = Nobody
       THEN export' = [export EXCEPT ![e] = Complete(e)] /\ file' = e
       ELSE export' = [export EXCEPT ![e] = NoExport("idle")] /\ UNCHANGED file
    /\ UNCHANGED <<now, live, row, posts, purge, del, lost>>

(* The path comes into being in some other way. *)
CreateFile ==
    /\ file = Nobody
    /\ file' = Other
    /\ UNCHANGED <<now, live, row, posts, purge, del, lost, export>>

(* A failed or killed run leaves at most its temporary file. *)
ExportFails(e) ==
    /\ export[e].pc \in {"messages", "attachments"}
    /\ export' = [export EXCEPT ![e] = NoExport("idle")]
    /\ UNCHANGED <<now, live, row, posts, purge, del, lost, file>>

-----------------------------------------------------------------------------
PurgeStep ==
    \/ BeginPurge \/ SelectBatch \/ NextCategory
    \/ \E m \in Messages : LockRow(m)
    \/ DeleteBatch \/ CommitPurge

Next ==
    \/ Tick
    \/ \E m \in Messages : Ingest(m) \/ \E to \in Decisions : OpenDecision(m, to)
    \/ \E p \in posts : SaveDecision(p) \/ DecisionFails(p)
    \/ PurgeStep \/ PurgeFails
    \/ \E b \in Mailboxes :
           \/ CountMessages(b) \/ OpenDeletion(b) \/ CommitDeletion(b) \/ DeletionFails(b) \/ AbortOne(b)
           \/ \E m \in Messages : DeleteMessage(b, m)
    \/ CreateFile
    \/ \E e \in Exports :
           StartExport(e) \/ WriteMessages(e) \/ Publish(e) \/ ExportFails(e)

(* A transaction goes on unless it waits, and PostgreSQL ends deadlocks.   *)
Fairness ==
    /\ WF_vars(PurgeStep)
    /\ \A b \in Mailboxes :
         /\ WF_vars(OpenDeletion(b) \/ CommitDeletion(b)
                   \/ \E m \in Messages : DeleteMessage(b, m))
         /\ WF_vars(AbortOne(b))

Spec == Init /\ [][Next]_vars /\ Fairness

-----------------------------------------------------------------------------
(* Retention removes a row only when the row, as it is committed when it   *)
(* is removed, had outlived the age of its state at effective_now: also    *)
(* when a decision, another batch or a deletion came between reading the   *)
(* keys and removing the rows (_delete_queryset_in_batches, 72-88).        *)
OnlyExpiredPurged ==
    [][purge'.pc = "done" /\ purge.pc # "done" =>
         \A m \in Messages :
            Stored(m) /\ ~Stored(m)' => row[m].since < purge.now - Keep[row[m].state]]_vars

(* The audited counts of retention are the rows it removed, by state.      *)
PurgeIsCounted ==
    [][purge'.pc = "done" /\ purge.pc # "done" =>
         \A i \in Categories :
            purge.counts[i] =
              Cardinality({m \in Messages : /\ Stored(m) /\ ~Stored(m)'
                                            /\ row[m].state = Category(i)})]_vars

(* The audited count of mailbox_delete covers all it removed; it differs   *)
(* from it exactly by what retention removed meanwhile (views.py 129-141). *)
DeletionIsCounted ==
    [][\A b \in live \ live' :
         del[b].count = Cardinality(lost[b]) +
              Cardinality({m \in Messages : Stored(m) /\ ~Stored(m)'})]_vars

(* A published export is closed: every message's mailbox and attachments   *)
(* are in it, and nothing else, although rows come and go while it is      *)
(* written (export_owner_data 23-28, owner_export 46-103).                 *)
ExportIsClosed ==
    \A e \in Exports : export[e].pc = "published" =>
        /\ export[e].out.attachments = export[e].out.msgs
        /\ \A m \in export[e].out.msgs : m[1] \in export[e].out.boxes

(* However the statements of retention, deletion and decisions meet, a row *)
(* enters quarantined and takes only a state the owner asked for while     *)
(* that very row was stored; a request whose row was removed brings        *)
(* nothing back.  This is the promise of Gate, here with row locks and     *)
(* multi-statement transactions (lifecycle.py 72-115, views.py 121-141 and *)
(* 221-230).                                                               *)
GateView == INSTANCE Gate WITH
    Messages <- Messages,
    state <- [m \in Messages |-> IF Stored(m) THEN row[m].state ELSE "absent"],
    asked <- {<<p.msg, p.to>> : p \in {q \in posts : Stored(q.msg)}}
ImplementsGate == GateView!Spec

(* A purge that begins ends, whatever it waits for and whoever decides on  *)
(* its rows meanwhile.                                                     *)
PurgeEnds == (purge.pc = "select") ~> (purge.pc \in {"done", "idle"})

=============================================================================
