---------------------------- MODULE IngestionProofs ----------------------------
(***************************************************************************)
(* Theorems about Ingestion, for every set of mailboxes, every bound and   *)
(* every batch size.                                                       *)
(***************************************************************************)
EXTENDS Ingestion, TLAPS

(* The worker works on a row it read from the database, under the UIDVALIDITY *)
(* the server announced, and a decision in flight is for a row that exists    *)
(* unless the row was removed meanwhile.                                      *)
Syncing == pc \in {"connecting", "loop", "fetched"}
WorkerSane ==
    /\ \A s \in queue : s.box \in Mailboxes
    /\ Syncing => sync.box \in Mailboxes
    /\ pc \in {"loop", "fetched"} => sync.validity \in Validity
    /\ \A p \in posts : ~p.gone => Stored(p.key)

(* n may be used as a cursor of m for generation v. *)
CursorSafe(m, v, n) ==
    /\ v <= inbox.validity
    /\ v = inbox.validity =>
         /\ n < inbox.next
         /\ \A u \in inbox.uids : u <= n => <<m, v, u>> \in ingested

(* The batch in memory continues the cursor in memory without a gap. *)
BatchSafe ==
    pc \in {"loop", "fetched"} =>
      \A t \in todo :
        /\ t > sync.last
        /\ sync.validity = inbox.validity =>
             /\ t < inbox.next
             /\ \A u \in inbox.uids : sync.last < u /\ u <= t => u \in todo

CursorInv ==
    /\ \A u \in inbox.uids : u < inbox.next
    /\ \A m \in Mailboxes :
         Live(m) => CursorSafe(m, mailbox[m].validity, mailbox[m].last)
    /\ \A s \in queue : CursorSafe(s.box, s.validity, s.last)
    /\ Syncing => CursorSafe(sync.box, sync.validity, sync.last)
    /\ BatchSafe

(* What the worker read is never newer than the row, and is older as soon  *)
(* as the row is dirty.                                                    *)
ReadBefore(s) ==
    /\ mailbox[s.box].presence # "unused"
    /\ Live(s.box) => /\ s.version <= mailbox[s.box].version
                      /\ s.box \in dirty => s.version < mailbox[s.box].version
ReadInv ==
    /\ \A s \in queue : ReadBefore(s)
    /\ Syncing => ReadBefore(sync)

-----------------------------------------------------------------------------
(* Type correctness.                                                       *)

Types == TypeOK /\ WorkerSane

(* Every step is one of these. *)
LEMMA NextCases ==
  ASSUME Next
  PROVE  \/ Arrive
         \/ \E u \in Uid : Expunge(u)
         \/ \E n \in 0..MaxUid : NewValidity(n)
         \/ \E m \in Mailboxes, en \in BOOLEAN : Create(m, en)
         \/ \E m \in Mailboxes, pw, en, ids \in BOOLEAN : Edit(m, pw, en, ids)
         \/ \E m \in Mailboxes : Delete(m)
         \/ \E k \in Key, d \in Decisions : OpenDecision(k, d)
         \/ \E q \in posts : SaveDecision(q)
         \/ \E q \in posts : DecisionFails(q)
         \/ \E S \in SUBSET Mailboxes : Reencrypt(S)
         \/ \E S \in SUBSET Key : Purge(S)
         \/ BeginCycle
         \/ EndCycle
         \/ \E s \in queue : StartSync(s)
         \/ Select
         \/ \E u \in todo : Fetch(u)
         \/ \E u \in todo : Store(u)
         \/ StoreRefused
         \/ Finish
         \/ pc \in {"connecting", "loop"} /\ SyncFails
         \/ UnexpectedError
         \/ Crash
<1>1. CASE Remote
  BY <1>1 DEF Remote
<1>2. CASE Owner
  BY <1>2 DEF Owner
<1>3. CASE Operator
  BY <1>3 DEF Operator
<1>4. CASE Worker
  BY <1>4 DEF Worker, FetchMissing, ImapFailure
<1>5. QED
  BY <1>1, <1>2, <1>3, <1>4 DEF Next

LEMMA InitTypes == Init => Types
BY IngestionConstants
   DEF Init, Types, TypeOK, WorkerSane, Key, Uid, Validity, Row, NoRow, Snapshot,
       NoSync, States, Post, Syncing, Live, Stored, NullValidity

(* Removing rows keeps the types of what it touches. *)
LEMMA UnstoreTypes ==
  ASSUME Types, NEW S \in SUBSET Key, Unstore(S)
  PROVE  /\ message' \in [Key -> States]
         /\ posts' \subseteq Post
         /\ \A p \in posts' : ~p.gone => Stored(p.key)'
<1>1. message' \in [Key -> States]
  BY DEF Types, TypeOK, Unstore, States
<1>2. ASSUME NEW p \in posts
      PROVE  /\ [p EXCEPT !.gone = @ \/ p.key \in S] \in Post
             /\ [p EXCEPT !.gone = @ \/ p.key \in S].key = p.key
             /\ ~[p EXCEPT !.gone = @ \/ p.key \in S].gone
                => ~p.gone /\ p.key \notin S
  BY DEF Types, TypeOK, Post
<1>3. \A p \in posts : p.key \in Key
  BY DEF Types, TypeOK, Post
<1>4. \A p \in posts : ~p.gone => Stored(p.key)
  BY DEF Types, WorkerSane
<1>5. \A k \in Key : Stored(k) /\ k \notin S => Stored(k)'
  BY DEF Unstore, Stored
<1>6. ASSUME NEW q \in posts'
      PROVE  q \in Post /\ (~q.gone => Stored(q.key)')
  <2>1. PICK p \in posts : q = [p EXCEPT !.gone = @ \/ p.key \in S]
    BY DEF Unstore
  <2>2. QED
    BY <2>1, <1>2, <1>3, <1>4, <1>5
<1>7. QED
  BY <1>1, <1>6

LEMMA ArriveTypes ==
  ASSUME TypeOK, Arrive
  PROVE  inbox' \in [validity : Validity, next : 1..MaxUid + 1, uids : SUBSET Uid]
<1>1. MaxUid \in Nat /\ inbox.next \in 1..MaxUid + 1 /\ inbox.uids \subseteq Uid
  BY IngestionConstants DEF TypeOK
<1>2. inbox.next \in Uid /\ inbox.next + 1 \in 1..MaxUid + 1
  BY <1>1 DEF Arrive, Uid
<1>3. inbox.uids \union {inbox.next} \subseteq Uid
  BY <1>1, <1>2
<1>4. inbox \in [validity : Validity, next : 1..MaxUid + 1, uids : SUBSET Uid]
  BY DEF TypeOK
<1>5. inbox' = [inbox EXCEPT !.next = @ + 1, !.uids = @ \union {inbox.next}]
  BY DEF Arrive
<1>6. QED
  BY <1>2, <1>3, <1>4, <1>5

LEMMA EditedTypes ==
  ASSUME NEW row \in Row, NEW pw \in BOOLEAN, NEW en \in BOOLEAN,
         NEW ids \in BOOLEAN
  PROVE  /\ Edited(row, pw, en, ids) \in Row
         /\ Edited(row, pw, en, ids).presence = row.presence
<1>1. Bumped(row, pw, en, ids) \in Nat
  BY DEF Bumped, Row
<1>2. (IF ResetsStatus(row, pw, en) THEN "never" ELSE row.status)
        \in {"never", "ok", "failed"}
  BY DEF Row
<1>3. QED
  BY <1>1, <1>2 DEF Edited, Row

LEMMA OpenTypes ==
  ASSUME Types, NEW k \in Key, NEW d \in Decisions, OpenDecision(k, d)
  PROVE  posts' \subseteq Post /\ \A p \in posts' : ~p.gone => Stored(p.key)'
<1> DEFINE q == [key |-> k, to |-> d, gone |-> FALSE]
<1>1. q \in Post /\ q.key = k
  BY DEF Post
<1>2. posts' = posts \union {q} /\ Stored(k) /\ message' = message
  BY DEF OpenDecision
<1>3. posts \subseteq Post /\ \A p \in posts : ~p.gone => Stored(p.key)
  BY DEF Types, TypeOK, WorkerSane
<1> HIDE DEF q
<1>4. QED
  BY <1>1, <1>2, <1>3 DEF Stored

LEMMA ResumedTypes ==
  ASSUME TypeOK, NEW s \in Snapshot
  PROVE  /\ Resumed(s) \in Snapshot
         /\ Resumed(s).box = s.box
         /\ Resumed(s).validity = inbox.validity
         /\ inbox.validity \in Validity
<1>1. inbox.validity \in Validity /\ inbox.validity \in Nat
  BY IngestionConstants DEF TypeOK, Validity
<1>2. QED
  BY <1>1 DEF Resumed, Snapshot

(* What the worker, or a re-encryption, makes of a row is a row. *)
LEMMA RowAfter ==
  ASSUME NEW row \in Row, sync \in Snapshot
  PROVE  /\ Advanced(row) \in Row /\ Advanced(row).presence = row.presence
         /\ Failed(row) \in Row /\ Failed(row).presence = row.presence
BY DEF Advanced, Failed, Row, Snapshot

LEMMA RowReencrypted ==
  ASSUME NEW row \in Row, NEW version, version = Bumped(row, TRUE, row.enabled, FALSE)
  PROVE  /\ [row EXCEPT !.version = version] \in Row
         /\ [row EXCEPT !.version = version].presence = row.presence
<1>1. version \in Nat
  BY DEF Bumped, Row
<1>2. QED
  BY <1>1 DEF Row

(* A guarded status write leaves rows in shape and mailboxes alive. *)
LEMMA ReportTypes ==
  ASSUME Types, Syncing, NEW row, Report(row), LeaveSync("cycle"),
         Current(sync) => row \in Row /\ row.presence = "live",
         UNCHANGED <<inbox, message, posts, queue, ingested, dirty>>
  PROVE  Types'
<1>1. sync.box \in Mailboxes /\ sync.version \in Nat
  BY DEF Types, TypeOK, WorkerSane, Snapshot
<1>2. /\ mailbox' \in [Mailboxes -> Row]
      /\ \A m \in Mailboxes : Live(m)' <=> Live(m)
  <2>1. mailbox \in [Mailboxes -> Row]
    BY DEF Types, TypeOK
  <2>2. CASE Current(sync)
    <3>1. mailbox' = [mailbox EXCEPT ![sync.box] = row]
      BY <2>2 DEF Report
    <3>2. Live(sync.box)
      BY <2>2 DEF Current
    <3>3. QED
      BY <1>1, <2>1, <2>2, <3>1, <3>2 DEF Live
  <2>3. CASE ~Current(sync)
    BY <2>1, <2>3 DEF Report, Live
  <2>4. QED
    BY <2>2, <2>3
<1>3. tested' \in [Mailboxes -> [since : Nat, by : Nat]]
  BY <1>1 DEF Types, TypeOK, Report
<1>4. /\ pc' = "cycle" /\ sync' \in Snapshot /\ todo' = {}
  BY DEF LeaveSync, NoSync, Snapshot
<1>5. \A k \in Key : Stored(k)' => Live(k[1])'
  BY <1>2 DEF Types, TypeOK, Stored, Key
<1>6. TypeOK'
  BY <1>2, <1>3, <1>4, <1>5 DEF Types, TypeOK
<1>7. WorkerSane'
  BY <1>4 DEF Types, WorkerSane, Syncing, Stored
<1>8. QED
  BY <1>6, <1>7 DEF Types

LEMMA TypesStep ==
  ASSUME Types, [Next]_vars
  PROVE  Types'
<1>0. MaxUid \in Nat /\ MaxValidity \in Nat
  BY IngestionConstants
<1> USE DEF Types, TypeOK, WorkerSane, Syncing, Live, Stored, worker
<1>1. CASE Arrive
  <2>1. inbox' \in [validity : Validity, next : 1..MaxUid + 1, uids : SUBSET Uid]
    BY <1>1, ArriveTypes
  <2>2. QED
    BY <1>1, <2>1 DEF Arrive
<1>2. CASE \E u \in Uid : Expunge(u)
  BY <1>2 DEF Expunge
<1>3. CASE \E n \in 0..MaxUid : NewValidity(n)
  BY <1>0, <1>3 DEF NewValidity, Uid, Validity
<1>4. ASSUME NEW m \in Mailboxes, NEW en \in BOOLEAN, Create(m, en)
      PROVE  Types'
  BY <1>4 DEF Create, NoRow, NullValidity, Row, Key
<1>5. ASSUME NEW m \in Mailboxes, NEW pw \in BOOLEAN, NEW en \in BOOLEAN,
             NEW ids \in BOOLEAN, Edit(m, pw, en, ids)
      PROVE  Types'
  <2>1. mailbox[m] \in Row /\ mailbox[m].version \in Nat
    BY DEF Row
  <2>2. Edited(mailbox[m], pw, en, ids) \in Row
        /\ Edited(mailbox[m], pw, en, ids).presence = mailbox[m].presence
    BY <2>1, EditedTypes
  <2>3. mailbox' \in [Mailboxes -> Row]
        /\ \A x \in Mailboxes : Live(x)' <=> Live(x)
    BY <1>5, <2>2 DEF Edit
  <2>4. tested' \in [Mailboxes -> [since : Nat, by : Nat]]
    BY <1>5, <2>1 DEF Edit
  <2>5. dirty' \subseteq Mailboxes
    BY <1>5 DEF Edit
  <2>6. \A k \in Key : Stored(k)' => Live(k[1])'
    BY <1>5, <2>3 DEF Edit, Key
  <2>7. QED
    BY <1>5, <2>3, <2>4, <2>5, <2>6 DEF Edit
<1>6. ASSUME NEW m \in Mailboxes, Delete(m)
      PROVE  Types'
  <2>1. /\ mailbox' \in [Mailboxes -> Row]
        /\ \A x \in Mailboxes : x # m => mailbox'[x] = mailbox[x]
    BY <1>6 DEF Delete, NoRow, NullValidity, Row
  <2>2. /\ Unstore(Cascade(m))
        /\ Cascade(m) \subseteq Key
    BY <1>6 DEF Delete, Cascade
  <2>3. /\ message' \in [Key -> States]
        /\ posts' \subseteq Post
        /\ \A p \in posts' : ~p.gone => Stored(p.key)'
    BY <2>2, UnstoreTypes
  <2>4. \A k \in Key : Stored(k)' => k[1] # m /\ Stored(k)
    BY <2>2 DEF Unstore, Cascade
  <2>5. \A k \in Key : Stored(k)' => Live(k[1])'
    BY <2>1, <2>4 DEF Key
  <2>6. tested' \in [Mailboxes -> [since : Nat, by : Nat]] /\ dirty' \subseteq Mailboxes
    BY <1>6 DEF Delete
  <2>7. QED
    BY <1>6, <2>1, <2>3, <2>5, <2>6 DEF Delete
<1>7. CASE \E k \in Key, d \in Decisions : OpenDecision(k, d)
  <2>1. PICK k \in Key, d \in Decisions : OpenDecision(k, d)
    BY <1>7
  <2>2. posts' \subseteq Post /\ \A p \in posts' : ~p.gone => Stored(p.key)'
    BY <2>1, OpenTypes
  <2>3. QED
    BY <2>1, <2>2 DEF OpenDecision
<1>8. CASE \E q \in posts : SaveDecision(q)
  <2>1. PICK q \in posts : SaveDecision(q)
    BY <1>8
  <2>2. q.key \in Key /\ q.to \in Decisions /\ Stored(q.key)
    BY <2>1 DEF SaveDecision, Post
  <2>3. /\ message' \in [Key -> States]
        /\ \A k \in Key : Stored(k)' <=> Stored(k)
    BY <2>1, <2>2 DEF SaveDecision, States, Decisions
  <2>4. posts' \subseteq Post /\ \A p \in posts' : ~p.gone => Stored(p.key)'
    BY <2>1, <2>3 DEF SaveDecision, Post
  <2>5. QED
    BY <2>1, <2>3, <2>4 DEF SaveDecision
<1>9. CASE \E q \in posts : DecisionFails(q)
  BY <1>9 DEF DecisionFails
<1>10. CASE \E S \in SUBSET Mailboxes : Reencrypt(S)
  <2>1. \A m \in Mailboxes :
          /\ [mailbox[m] EXCEPT !.version =
                Bumped(mailbox[m], TRUE, mailbox[m].enabled, FALSE)] \in Row
          /\ [mailbox[m] EXCEPT !.version =
                Bumped(mailbox[m], TRUE, mailbox[m].enabled, FALSE)].presence
             = mailbox[m].presence
    <3>1. \A m \in Mailboxes : mailbox[m] \in Row
      OBVIOUS
    <3>2. QED
      BY <3>1, RowReencrypted
  <2>2. /\ mailbox' \in [Mailboxes -> Row]
        /\ \A m \in Mailboxes : Live(m)' <=> Live(m)
    <3>1. PICK S \in SUBSET Mailboxes : Reencrypt(S)
      BY <1>10
    <3> DEFINE After(m) == [mailbox[m] EXCEPT !.version =
                              Bumped(mailbox[m], TRUE, mailbox[m].enabled, FALSE)]
    <3>2. mailbox' = [m \in Mailboxes |-> IF m \in S THEN After(m) ELSE mailbox[m]]
      BY <3>1 DEF Reencrypt
    <3>3. \A m \in Mailboxes : /\ After(m) \in Row
                               /\ After(m).presence = mailbox[m].presence
      BY <2>1
    <3> HIDE DEF After
    <3>4. QED
      BY <3>2, <3>3
  <2>3. \A k \in Key : Stored(k)' => Live(k[1])'
    BY <1>10, <2>2 DEF Reencrypt, Key
  <2>4. dirty' \subseteq Mailboxes
    BY <1>10 DEF Reencrypt
  <2>5. QED
    BY <1>10, <2>2, <2>3, <2>4 DEF Reencrypt
<1>11. CASE \E S \in SUBSET Key : Purge(S)
  <2>1. PICK S \in SUBSET Key : Purge(S)
    BY <1>11
  <2>2. /\ message' \in [Key -> States]
        /\ posts' \subseteq Post
        /\ \A p \in posts' : ~p.gone => Stored(p.key)'
    BY <2>1, UnstoreTypes DEF Purge
  <2>3. \A k \in Key : Stored(k)' => Stored(k)
    BY <2>1 DEF Purge, Unstore
  <2>4. QED
    BY <2>1, <2>2, <2>3 DEF Purge
<1>12. CASE BeginCycle
  BY <1>12 DEF BeginCycle, AsRead, Row, Snapshot
<1>13. CASE EndCycle
  BY <1>13 DEF EndCycle
<1>14. CASE \E s \in queue : StartSync(s)
  BY <1>14 DEF StartSync
<1>15. CASE Select
  <2>1. /\ sync' \in Snapshot
        /\ sync'.box = sync.box
        /\ sync'.validity \in Validity
    BY <1>15, ResumedTypes DEF Select
  <2>2. todo' \subseteq Uid
    BY <1>15 DEF Select, Batches
  <2>3. QED
    BY <1>15, <2>1, <2>2 DEF Select
<1>16. CASE \E u \in todo : Fetch(u)
  BY <1>16 DEF Fetch
<1>17. ASSUME NEW u \in todo, Store(u)
       PROVE  Types'
  BY <1>0, <1>17 DEF Store, Current, InsertedState, Key, States, Snapshot, Uid
<1>18. CASE StoreRefused
  BY <1>18 DEF StoreRefused, LeaveSync, NoSync, Snapshot
<1>19. CASE Finish
  <2>1. Report(Advanced(mailbox[sync.box])) /\ LeaveSync("cycle")
    BY <1>19 DEF Finish
  <2>2. ASSUME Current(sync), sync.box \in Mailboxes
        PROVE  /\ Advanced(mailbox[sync.box]) \in Row
               /\ Advanced(mailbox[sync.box]).presence = "live"
    <3>1. mailbox[sync.box] \in Row /\ sync \in Snapshot
      BY <2>2
    <3>2. mailbox[sync.box].presence = "live"
      BY <2>2 DEF Current
    <3>3. QED
      BY <3>1, <3>2, RowAfter
  <2>3. QED
    BY <1>19, <2>1, <2>2, ReportTypes DEF Finish
<1>20. CASE pc \in {"connecting", "loop"} /\ SyncFails
  <2>1. Report(Failed(mailbox[sync.box])) /\ LeaveSync("cycle")
    BY <1>20 DEF SyncFails
  <2>2. ASSUME Current(sync), sync.box \in Mailboxes
        PROVE  /\ Failed(mailbox[sync.box]) \in Row
               /\ Failed(mailbox[sync.box]).presence = "live"
    <3>1. mailbox[sync.box] \in Row /\ sync \in Snapshot
      BY <2>2
    <3>2. mailbox[sync.box].presence = "live"
      BY <2>2 DEF Current
    <3>3. QED
      BY <3>1, <3>2, RowAfter
  <2>3. QED
    BY <1>20, <2>1, <2>2, ReportTypes DEF SyncFails
<1>21. CASE UnexpectedError
  BY <1>21 DEF UnexpectedError, LeaveSync, NoSync, Snapshot
<1>22. CASE Crash
  BY <1>22 DEF Crash, LeaveSync, NoSync, Snapshot
<1>23. CASE UNCHANGED vars
  BY <1>23 DEF vars
<1>24. QED
  BY NextCases, <1>1, <1>2, <1>3, <1>4, <1>5, <1>6, <1>7, <1>8, <1>9, <1>10,
     <1>11, <1>12, <1>13, <1>14, <1>15, <1>16, <1>17, <1>18, <1>19, <1>20,
     <1>21, <1>22, <1>23

(* Rows, messages, requests and the worker's memory keep their shape, and  *)
(* no message outlives its mailbox (the foreign key of gateway_message).   *)
THEOREM TypeCorrect == Spec => []TypeOK
<1>1. Types => TypeOK
  BY DEF Types
<1>2. QED
  BY InitTypes, TypesStep, <1>1, PTL DEF Spec

-----------------------------------------------------------------------------
(* The cursor never runs past a message.                                   *)

LEMMA InitCursor == Init => CursorInv
BY IngestionConstants
   DEF Init, CursorInv, CursorSafe, BatchSafe, Syncing, Live, NoRow

(* Steps that leave the INBOX alone and only add to what was ingested keep *)
(* every cursor that stays in use. *)
LEMMA CursorKept ==
  ASSUME Types, CursorInv, inbox' = inbox, ingested \subseteq ingested',
         \A m \in Mailboxes : Live(m)' =>
             CursorSafe(m, mailbox'[m].validity, mailbox'[m].last),
         \A s \in queue' : CursorSafe(s.box, s.validity, s.last),
         Syncing' => CursorSafe(sync'.box, sync'.validity, sync'.last),
         BatchSafe'
  PROVE  CursorInv'
BY DEF CursorInv, CursorSafe

LEMMA CursorStep ==
  ASSUME Types, CursorInv, [Next]_vars
  PROVE  CursorInv'
<1> USE DEF Types, TypeOK, WorkerSane, Syncing, Live, worker
<1>0. MaxUid \in Nat /\ MaxValidity \in Nat
  BY IngestionConstants
<1>1. CASE Arrive
  <2>1. /\ inbox'.validity = inbox.validity
        /\ inbox'.next = inbox.next + 1
        /\ inbox'.uids = inbox.uids \union {inbox.next}
        /\ inbox.next \in Nat
    BY <1>0, <1>1 DEF Arrive
  <2>2. ASSUME NEW m, NEW v, NEW n \in Nat, CursorSafe(m, v, n)
        PROVE  CursorSafe(m, v, n)'
    BY <1>1, <2>1, <2>2 DEF CursorSafe, Arrive
  <2>3. \A m \in Mailboxes : mailbox[m].last \in Nat
    BY DEF Row
  <2>4. sync.last \in Nat /\ \A s \in queue : s.last \in Nat
    BY DEF Snapshot
  <2>5. \A u \in inbox'.uids : u < inbox'.next
    BY <1>0, <2>1 DEF CursorInv, Uid
  <2>6. BatchSafe'
    BY <1>0, <1>1, <2>1 DEF Arrive, CursorInv, BatchSafe, Uid
  <2>7. QED
    BY <1>1, <2>2, <2>3, <2>4, <2>5, <2>6 DEF Arrive, CursorInv
<1>2. CASE \E u \in Uid : Expunge(u)
  BY <1>2 DEF Expunge, CursorInv, CursorSafe, BatchSafe
<1>3. CASE \E n \in 0..MaxUid : NewValidity(n)
  <2>1. PICK n \in 0..MaxUid : NewValidity(n)
    BY <1>3
  <2>2. /\ inbox'.validity = inbox.validity + 1
        /\ inbox'.next = n + 1
        /\ inbox'.uids = 1..n
        /\ inbox.validity \in Nat
    BY <1>0, <2>1 DEF NewValidity, Validity
  <2>3. ASSUME NEW m, NEW v \in Nat, NEW k, CursorSafe(m, v, k)
        PROVE  CursorSafe(m, v, k)' /\ v # inbox'.validity
    BY <2>2, <2>3 DEF CursorSafe
  <2>4. \A m \in Mailboxes : mailbox[m].validity \in Nat
    BY DEF Row
  <2>5. sync.validity \in Nat /\ \A s \in queue : s.validity \in Nat
    BY DEF Snapshot
  <2>6. BatchSafe'
    BY <2>1, <2>3, <2>5 DEF NewValidity, CursorInv, BatchSafe
  <2>7. QED
    BY <2>1, <2>2, <2>3, <2>4, <2>5, <2>6 DEF NewValidity, CursorInv
<1>4. ASSUME NEW m \in Mailboxes, NEW en \in BOOLEAN, Create(m, en)
      PROVE  CursorInv'
  BY <1>4 DEF Create, NoRow, NullValidity, CursorInv, CursorSafe, BatchSafe, Validity
<1>5. ASSUME NEW m \in Mailboxes, NEW pw \in BOOLEAN, NEW en \in BOOLEAN,
             NEW ids \in BOOLEAN, Edit(m, pw, en, ids)
      PROVE  CursorInv'
  BY <1>5 DEF Edit, Edited, CursorInv, CursorSafe, BatchSafe
<1>6. ASSUME NEW m \in Mailboxes, Delete(m)
      PROVE  CursorInv'
  BY <1>6 DEF Delete, NoRow, CursorInv, CursorSafe, BatchSafe
<1>7. CASE \E k \in Key, d \in Decisions : OpenDecision(k, d)
  BY <1>7 DEF OpenDecision, CursorInv, CursorSafe, BatchSafe
<1>8. CASE \E q \in posts : SaveDecision(q)
  BY <1>8 DEF SaveDecision, CursorInv, CursorSafe, BatchSafe
<1>9. CASE \E q \in posts : DecisionFails(q)
  BY <1>9 DEF DecisionFails, CursorInv, CursorSafe, BatchSafe
<1>10. CASE \E S \in SUBSET Mailboxes : Reencrypt(S)
  BY <1>10 DEF Reencrypt, CursorInv, CursorSafe, BatchSafe
<1>11. CASE \E S \in SUBSET Key : Purge(S)
  BY <1>11 DEF Purge, CursorInv, CursorSafe, BatchSafe
<1>12. CASE BeginCycle
  BY <1>12 DEF BeginCycle, AsRead, CursorInv, CursorSafe, BatchSafe
<1>13. CASE EndCycle
  BY <1>13 DEF EndCycle, CursorInv, CursorSafe, BatchSafe
<1>14. CASE \E s \in queue : StartSync(s)
  BY <1>14 DEF StartSync, CursorInv, CursorSafe, BatchSafe
<1>15. CASE Select
  <2> DEFINE s == Resumed(sync)
  <2>1. /\ sync' = s /\ pc' = "loop"
        /\ todo' \subseteq {u \in inbox.uids : u > s.last}
        /\ \A b \in todo', c \in {u \in inbox.uids : u > s.last} \ todo' : b < c
        /\ UNCHANGED <<inbox, mailbox, message, posts, queue, ingested>>
    BY <1>15 DEF Select, Batches
  <2>2. /\ s.box = sync.box /\ s.validity = inbox.validity /\ s.last \in Nat
        /\ inbox.validity \in Nat /\ inbox.next \in Nat /\ inbox.next >= 1
        /\ (s.last = sync.last /\ sync.validity = inbox.validity) \/ s.last = 0
    BY <1>0 DEF Resumed, Snapshot, Validity
  <2>3. \A u \in inbox.uids : u \in Nat /\ u >= 1 /\ u < inbox.next
    BY <1>0 DEF CursorInv, Uid
  <2>4. CursorSafe(s.box, s.validity, s.last)
    BY <1>15, <2>2, <2>3 DEF Select, CursorInv, CursorSafe
  <2> HIDE DEF s
  <2>5. BatchSafe'
    BY <2>1, <2>2, <2>3 DEF BatchSafe
  <2>6. QED
    BY <2>1, <2>2, <2>4, <2>5, CursorKept DEF CursorInv
<1>16. CASE \E u \in todo : Fetch(u)
  BY <1>16 DEF Fetch, CursorInv, CursorSafe, BatchSafe
<1>17. ASSUME NEW u \in todo, Store(u)
       PROVE  CursorInv'
  <2>1. /\ u \in Nat /\ sync.last \in Nat /\ u > sync.last
        /\ \A w \in todo : w \in Nat /\ u <= w
    BY <1>0, <1>17 DEF Store, NextUid, CursorInv, BatchSafe, Uid, Snapshot
  <2>2. /\ sync'.box = sync.box /\ sync'.validity = sync.validity
        /\ sync'.last = u /\ todo' = todo \ {u} /\ pc' = "loop"
        /\ ingested' = ingested \union {<<sync.box, sync.validity, u>>}
        /\ UNCHANGED <<inbox, mailbox, posts, queue>>
    BY <1>17, <2>1 DEF Store, Snapshot
  <2>3. sync.validity = inbox.validity =>
          \A x \in inbox.uids : x <= u =>
             <<sync.box, sync.validity, x>> \in ingested'
    <3>1. SUFFICES ASSUME sync.validity = inbox.validity,
                          NEW x \in inbox.uids, x <= u
                   PROVE  <<sync.box, sync.validity, x>> \in ingested'
      OBVIOUS
    <3>2. x \in Nat
      BY <1>0 DEF Uid
    <3>3. CASE x <= sync.last
      BY <1>17, <2>2, <3>1, <3>3 DEF Store, CursorInv, CursorSafe
    <3>4. CASE sync.last < x
      <4>1. x \in todo
        BY <1>17, <3>1, <3>4 DEF Store, CursorInv, BatchSafe
      <4>2. x = u
        BY <2>1, <3>1, <3>2, <4>1
      <4>3. QED
        BY <2>2, <4>2
    <3>5. QED
      BY <2>1, <3>2, <3>3, <3>4
  <2>4. CursorSafe(sync.box, sync.validity, u)'
    BY <1>17, <2>2, <2>3 DEF Store, CursorInv, CursorSafe, BatchSafe
  <2>5. BatchSafe'
    <3>1. \A t \in todo' : t \in todo /\ t \in Nat /\ t > u
      BY <2>1, <2>2
    <3>2. ASSUME sync.validity = inbox.validity, NEW t \in todo', NEW x \in inbox.uids,
                 u < x, x <= t
          PROVE  x \in todo'
      <4>1. x \in Nat /\ x # u /\ sync.last < x
        BY <1>0, <2>1, <3>2 DEF Uid
      <4>2. QED
        BY <1>17, <2>2, <3>1, <3>2, <4>1 DEF Store, CursorInv, BatchSafe
    <3>3. sync.validity = inbox.validity => \A t \in todo' : t < inbox.next
      BY <1>17, <3>1 DEF Store, CursorInv, BatchSafe
    <3>4. QED
      BY <2>2, <3>1, <3>2, <3>3 DEF BatchSafe
  <2>6. ASSUME NEW m, NEW v, NEW n, CursorSafe(m, v, n)
        PROVE  CursorSafe(m, v, n)'
    BY <2>2, <2>6 DEF CursorSafe
  <2>7. QED
    BY <2>2, <2>4, <2>5, <2>6 DEF CursorInv
<1>18. CASE StoreRefused
  BY <1>18 DEF StoreRefused, LeaveSync, CursorInv, CursorSafe, BatchSafe
<1>19. CASE Finish
  <2>1. /\ UNCHANGED <<inbox, queue, ingested>>
        /\ pc' = "cycle" /\ todo' = {}
        /\ CursorSafe(sync.box, sync.validity, sync.last)
    BY <1>19 DEF Finish, LeaveSync, CursorInv
  <2>2. Advanced(mailbox[sync.box]).validity = sync.validity
        /\ Advanced(mailbox[sync.box]).last = sync.last
    BY <1>19 DEF Finish, Advanced, Row
  <2>3. ASSUME NEW m \in Mailboxes, Live(m)'
        PROVE  CursorSafe(m, mailbox'[m].validity, mailbox'[m].last)
    <3>1. CASE Current(sync) /\ m = sync.box
      <4>1. mailbox'[m] = Advanced(mailbox[sync.box])
        BY <1>19, <3>1 DEF Finish, Report
      <4>2. QED
        BY <2>1, <2>2, <3>1, <4>1
    <3>2. CASE ~(Current(sync) /\ m = sync.box)
      <4>1. mailbox'[m] = mailbox[m]
        BY <1>19, <3>2 DEF Finish, Report
      <4>2. QED
        BY <2>3, <4>1 DEF CursorInv
    <3>3. QED
      BY <3>1, <3>2
  <2>4. QED
    BY <2>1, <2>3, CursorKept DEF BatchSafe, CursorInv
<1>20. CASE pc \in {"connecting", "loop"} /\ SyncFails
  <2>1. /\ UNCHANGED <<inbox, queue, ingested>>
        /\ pc' = "cycle" /\ todo' = {}
    BY <1>20 DEF SyncFails, LeaveSync
  <2>2. \A m \in Mailboxes : /\ mailbox'[m].validity = mailbox[m].validity
                             /\ mailbox'[m].last = mailbox[m].last
                             /\ mailbox'[m].presence = mailbox[m].presence
    BY <1>20 DEF SyncFails, Report, Failed, Row
  <2>3. QED
    BY <2>1, <2>2, CursorKept DEF BatchSafe, CursorInv
<1>21. CASE UnexpectedError
  BY <1>21 DEF UnexpectedError, LeaveSync, CursorInv, CursorSafe, BatchSafe
<1>22. CASE Crash
  BY <1>22 DEF Crash, LeaveSync, CursorInv, CursorSafe, BatchSafe
<1>23. CASE UNCHANGED vars
  BY <1>23 DEF vars, CursorInv, CursorSafe, BatchSafe
<1>24. QED
  BY NextCases, <1>1, <1>2, <1>3, <1>4, <1>5, <1>6, <1>7, <1>8, <1>9, <1>10,
     <1>11, <1>12, <1>13, <1>14, <1>15, <1>16, <1>17, <1>18, <1>19, <1>20,
     <1>21, <1>22, <1>23

(* Whatever interrupts batches, every remote message at or below the       *)
(* persisted last_uid of the current generation was stored.                *)
THEOREM CursorSkipsNothing == Spec => []NothingSkipped
<1>1. Types /\ CursorInv => NothingSkipped
  BY DEF CursorInv, CursorSafe, NothingSkipped
<1>2. QED
  BY InitTypes, TypesStep, InitCursor, CursorStep, <1>1, PTL DEF Spec

-----------------------------------------------------------------------------
(* A sync that started from an old row writes nothing.                     *)

LEMMA InitRead == Init => ReadInv
BY DEF Init, ReadInv, Syncing

(* Rows that only grow in version and become dirty with it, while the      *)
(* worker keeps its memory. *)
LEMMA ReadKept ==
  ASSUME Types, Types', ReadInv, UNCHANGED worker,
         \A m \in Mailboxes :
           /\ mailbox[m].presence # "unused" => mailbox'[m].presence # "unused"
           /\ Live(m)' /\ mailbox[m].presence # "unused" =>
                /\ Live(m)
                /\ mailbox'[m].version >= mailbox[m].version
                /\ m \in dirty' /\ m \notin dirty
                     => mailbox'[m].version > mailbox[m].version
  PROVE  ReadInv'
<1>1. ASSUME NEW s \in Snapshot, s.box \in Mailboxes, ReadBefore(s)
      PROVE  ReadBefore(s)'
  <2>1. /\ s.version \in Nat
        /\ mailbox[s.box].version \in Nat /\ mailbox'[s.box].version \in Nat
    BY <1>1 DEF Types, TypeOK, Snapshot, Row
  <2>2. mailbox'[s.box].presence # "unused"
    BY <1>1 DEF ReadBefore
  <2>3. ASSUME Live(s.box)'
        PROVE  /\ s.version <= mailbox'[s.box].version
               /\ s.box \in dirty' => s.version < mailbox'[s.box].version
    BY <1>1, <2>1, <2>3 DEF ReadBefore
  <2>4. QED
    BY <2>2, <2>3 DEF ReadBefore, Live
<1>2. QED
  BY <1>1 DEF ReadInv, Types, TypeOK, WorkerSane, Syncing, worker

(* Leaving a sync, with whatever status was written. *)
LEMMA ReadLeft ==
  ASSUME Types, ReadInv, queue' \subseteq queue, pc' \in {"idle", "cycle"},
         dirty' = dirty,
         \A m \in Mailboxes : /\ mailbox'[m].presence = mailbox[m].presence
                               /\ mailbox'[m].version = mailbox[m].version
  PROVE  ReadInv'
BY DEF ReadInv, ReadBefore, Types, WorkerSane, Syncing, Live

LEMMA ReadStep ==
  ASSUME Types, ReadInv, [Next]_vars
  PROVE  ReadInv'
<1> USE DEF Live, worker
<1>0. /\ Types'
      /\ \A m \in Mailboxes : mailbox[m] \in Row /\ mailbox[m].version \in Nat
  BY TypesStep DEF Types, TypeOK, Row
<1>1. CASE Remote
  BY <1>0, <1>1, ReadKept DEF Remote, Arrive, Expunge, NewValidity
<1>2. ASSUME NEW m \in Mailboxes, NEW en \in BOOLEAN, Create(m, en)
      PROVE  ReadInv'
  BY <1>0, <1>2, ReadKept DEF Create, Types, TypeOK
<1>3. ASSUME NEW m \in Mailboxes, NEW pw \in BOOLEAN, NEW en \in BOOLEAN,
             NEW ids \in BOOLEAN, Edit(m, pw, en, ids)
      PROVE  ReadInv'
  <2>1. /\ mailbox'[m].presence = "live"
        /\ mailbox'[m].version = mailbox[m].version + 1
        /\ \A x \in Mailboxes : x # m => mailbox'[x] = mailbox[x]
    BY <1>0, <1>3 DEF Edit, Edited, Bumped, Types, TypeOK, Row
  <2>2. dirty' = dirty \union {m} /\ UNCHANGED worker /\ Live(m)
    BY <1>3 DEF Edit
  <2>3. QED
    BY <1>0, <2>1, <2>2, ReadKept
<1>4. ASSUME NEW m \in Mailboxes, Delete(m)
      PROVE  ReadInv'
  BY <1>0, <1>4, ReadKept DEF Delete, NoRow, Types, TypeOK
<1>5. CASE \E k \in Key, d \in Decisions : OpenDecision(k, d)
  BY <1>0, <1>5, ReadKept DEF OpenDecision
<1>6. CASE \E q \in posts : SaveDecision(q) \/ DecisionFails(q)
  BY <1>0, <1>6, ReadKept DEF SaveDecision, DecisionFails
<1>7. CASE \E S \in SUBSET Mailboxes : Reencrypt(S)
  <2>1. ASSUME NEW m \in Mailboxes
        PROVE  \/ mailbox'[m] = mailbox[m] /\ (m \in dirty' => m \in dirty)
               \/ /\ mailbox'[m].presence = mailbox[m].presence /\ Live(m)
                  /\ mailbox'[m].version = mailbox[m].version + 1
    <3>1. PICK S \in SUBSET Mailboxes : Reencrypt(S)
      BY <1>7
    <3>2. CASE m \in S
      <4>1. Live(m) /\ mailbox'[m] = [mailbox[m] EXCEPT !.version = mailbox[m].version + 1]
        BY <3>1, <3>2 DEF Reencrypt, Bumped
      <4>2. QED
        BY <1>0, <4>1 DEF Row
    <3>3. CASE m \notin S
      BY <3>1, <3>3 DEF Reencrypt
    <3>4. QED
      BY <3>2, <3>3
  <2>2. UNCHANGED worker
    BY <1>7 DEF Reencrypt
  <2>3. QED
    BY <1>0, <2>1, <2>2, ReadKept
<1>8. CASE \E S \in SUBSET Key : Purge(S)
  BY <1>0, <1>8, ReadKept DEF Purge
<1>9. CASE BeginCycle
  <2>1. \A s \in queue' : /\ s.box \in Mailboxes /\ Live(s.box)
                          /\ s.version = mailbox[s.box].version
    BY <1>9 DEF BeginCycle, AsRead
  <2>2. dirty' = {} /\ mailbox' = mailbox /\ pc' = "cycle"
    BY <1>9 DEF BeginCycle
  <2>3. QED
    BY <1>0, <2>1, <2>2 DEF ReadInv, ReadBefore, Syncing
<1>10. CASE EndCycle
  BY <1>0, <1>10, ReadLeft DEF EndCycle
<1>11. CASE \E s \in queue : StartSync(s)
  BY <1>11 DEF StartSync, ReadInv, ReadBefore, Syncing
<1>12. CASE Select
  <2>1. sync'.box = sync.box /\ sync'.version = sync.version
    BY <1>12 DEF Select, Resumed, Types, TypeOK, Snapshot
  <2>2. QED
    BY <1>12, <2>1 DEF Select, ReadInv, ReadBefore, Syncing
<1>13. CASE \E u \in todo : Fetch(u)
  BY <1>13 DEF Fetch, ReadInv, ReadBefore, Syncing
<1>14. ASSUME NEW u \in todo, Store(u)
       PROVE  ReadInv'
  <2>1. sync'.box = sync.box /\ sync'.version = sync.version
    BY <1>14 DEF Store, Types, TypeOK, Snapshot
  <2>2. QED
    BY <1>14, <2>1 DEF Store, ReadInv, ReadBefore, Syncing
<1>15. CASE StoreRefused \/ UnexpectedError \/ Crash
  BY <1>15, ReadLeft DEF StoreRefused, UnexpectedError, Crash, LeaveSync
<1>16. CASE Finish
  <2>1. \A m \in Mailboxes : /\ mailbox'[m].presence = mailbox[m].presence
                             /\ mailbox'[m].version = mailbox[m].version
    <3>1. ASSUME NEW row \in Row
          PROVE  /\ Advanced(row).presence = row.presence
                 /\ Advanced(row).version = row.version
      BY DEF Advanced, Row
    <3> HIDE DEF Live
    <3>2. QED
      BY <1>0, <1>16, <3>1 DEF Finish, Report, Types, TypeOK
  <2>2. QED
    BY <1>16, <2>1, ReadLeft DEF Finish, LeaveSync
<1>17. CASE SyncFails
  <2>1. \A m \in Mailboxes : /\ mailbox'[m].presence = mailbox[m].presence
                             /\ mailbox'[m].version = mailbox[m].version
    BY <1>0, <1>17 DEF SyncFails, Report, Failed, Types, TypeOK, Row
  <2>2. QED
    BY <1>17, <2>1, ReadLeft DEF SyncFails, LeaveSync
<1>18. CASE UNCHANGED vars
  BY <1>18, <1>0, ReadKept DEF vars
<1>19. QED
  BY NextCases, <1>1, <1>2, <1>3, <1>4, <1>5, <1>6, <1>7, <1>8, <1>9, <1>10,
     <1>11, <1>12, <1>13, <1>14, <1>15, <1>16, <1>17, <1>18 DEF Remote

(* A worker step writes a mailbox row or a message only for the mailbox it *)
(* works on, and only while that row is as it was read. *)
LEMMA WorkerWrites ==
  ASSUME Types, [Next]_vars, worker' # worker, NEW m \in Mailboxes,
         ~(Syncing /\ Current(sync) /\ sync.box = m)
  PROVE  /\ mailbox'[m] = mailbox[m]
         /\ \A k \in Key : k[1] = m => message'[k] = message[k]
<1> USE DEF worker
<1>1. CASE mailbox' = mailbox /\ message' = message
  BY <1>1
<1>2. ASSUME NEW u \in todo, Store(u)
      PROVE  /\ mailbox'[m] = mailbox[m]
             /\ \A k \in Key : k[1] = m => message'[k] = message[k]
  <2>1. Syncing /\ Current(sync) /\ mailbox' = mailbox
    BY <1>2 DEF Store, Syncing
  <2>2. sync.box # m
    BY <2>1
  <2>3. ASSUME NEW k \in Key, k[1] = m
        PROVE  message'[k] = message[k]
    BY <1>2, <2>2, <2>3 DEF Store, Types, TypeOK
  <2>4. QED
    BY <2>1, <2>3
<1>3. CASE Finish
  <2>1. Syncing /\ message' = message
    BY <1>3 DEF Finish, Syncing
  <2>2. mailbox'[m] = mailbox[m]
    BY <1>3, <2>1 DEF Finish, Report, Types, TypeOK
  <2>3. QED
    BY <2>1, <2>2
<1>4. CASE pc \in {"connecting", "loop"} /\ SyncFails
  <2>1. Syncing /\ message' = message
    BY <1>4 DEF SyncFails, Syncing
  <2>2. mailbox'[m] = mailbox[m]
    BY <1>4, <2>1 DEF SyncFails, Report, Types, TypeOK
  <2>3. QED
    BY <2>1, <2>2
<1>5. CASE BeginCycle \/ EndCycle \/ (\E s \in queue : StartSync(s)) \/ Select
           \/ (\E u \in todo : Fetch(u)) \/ StoreRefused \/ UnexpectedError \/ Crash
  BY <1>5, <1>1 DEF BeginCycle, EndCycle, StartSync, Select, Fetch, StoreRefused,
                    UnexpectedError, Crash
<1>6. CASE Remote
  BY <1>6 DEF Remote, Arrive, Expunge, NewValidity
<1>7. CASE Owner
  BY <1>7 DEF Owner, Create, Edit, Delete, OpenDecision, SaveDecision, DecisionFails
<1>8. CASE Operator
  BY <1>8 DEF Operator, Reencrypt, Purge
<1>9. CASE UNCHANGED vars
  BY <1>9 DEF vars
<1>10. QED
  BY <1>2, <1>3, <1>4, <1>5, <1>6, <1>7, <1>8, <1>9
     DEF Next, Worker, FetchMissing, ImapFailure

(* Once the owner has changed or deleted a mailbox, the sync that started  *)
(* from the old row changes neither the row nor a message of it: the row   *)
(* a worker step may write is never dirty. *)
THEOREM NoStaleWrites == Spec => NoStaleWorkerWrite
<1>1. ASSUME Types, ReadInv, [Next]_vars
      PROVE  [worker' # worker => \A m \in dirty :
                 /\ mailbox'[m] = mailbox[m]
                 /\ \A k \in Key : k[1] = m => message'[k] = message[k]]_vars
  <2>1. SUFFICES ASSUME worker' # worker, NEW m \in dirty
                 PROVE  /\ mailbox'[m] = mailbox[m]
                        /\ \A k \in Key : k[1] = m => message'[k] = message[k]
    OBVIOUS
  <2>2. m \in Mailboxes
    BY <1>1 DEF Types, TypeOK
  <2>3. ~(Syncing /\ Current(sync) /\ sync.box = m)
    BY <1>1, <2>1, <2>2 DEF Current, ReadInv, ReadBefore, Types, TypeOK, Snapshot, Row
  <2>4. QED
    BY <1>1, <2>1, <2>2, <2>3, WorkerWrites
<1>2. QED
  BY InitTypes, TypesStep, InitRead, ReadStep, <1>1, PTL
     DEF Spec, NoStaleWorkerWrite

-----------------------------------------------------------------------------
(* The status shown is about the configuration in force.                   *)

(* A credential change is never newer than the version it was given. *)
StatusInv ==
    /\ StatusIsCurrent
    /\ \A m \in Mailboxes : Live(m) => tested[m].since <= mailbox[m].version

LEMMA InitStatus == Init => StatusInv
BY DEF Init, StatusInv, StatusIsCurrent, Live, NoRow

(* Rows that only grow in version, with their status left alone. *)
LEMMA StatusKept ==
  ASSUME Types, Types', StatusInv, tested' = tested,
         \A m \in Mailboxes :
           Live(m)' => /\ Live(m)
                       /\ mailbox'[m].status = mailbox[m].status
                       /\ mailbox'[m].version >= mailbox[m].version
  PROVE  StatusInv'
<1>1. ASSUME NEW m \in Mailboxes
      PROVE  /\ mailbox[m].version \in Nat /\ mailbox'[m].version \in Nat
             /\ tested[m].since \in Nat
  BY DEF Types, TypeOK, Row
<1>2. QED
  BY <1>1 DEF StatusInv, StatusIsCurrent

(* A report is about the version in force, which no change is newer than.  *)
LEMMA StatusReported ==
  ASSUME Types, StatusInv, sync.box \in Mailboxes, NEW row, Report(row),
         Current(sync) => row.version = mailbox[sync.box].version
  PROVE  StatusInv'
<1>1. /\ mailbox \in [Mailboxes -> Row]
      /\ tested \in [Mailboxes -> [since : Nat, by : Nat]]
  BY DEF Types, TypeOK
<1>2. CASE Current(sync)
  <2>1. /\ mailbox' = [mailbox EXCEPT ![sync.box] = row]
        /\ tested' = [tested EXCEPT ![sync.box].by = sync.version]
    BY <1>2 DEF Report
  <2>2. tested[sync.box].since <= sync.version /\ row.version = sync.version
    BY <1>2 DEF Current, StatusInv
  <2>3. /\ tested'[sync.box].since = tested[sync.box].since
        /\ tested'[sync.box].by = sync.version
        /\ mailbox'[sync.box] = row
    BY <1>1, <2>1
  <2>4. \A m \in Mailboxes : m # sync.box => /\ mailbox'[m] = mailbox[m]
                                             /\ tested'[m] = tested[m]
    BY <1>1, <2>1
  <2>5. ASSUME NEW m \in Mailboxes, Live(m)'
        PROVE  /\ mailbox'[m].status # "never" => tested'[m].by >= tested'[m].since
               /\ tested'[m].since <= mailbox'[m].version
    <3>1. CASE m = sync.box
      <4>1. tested[sync.box].since \in Nat /\ sync.version \in Nat
        BY <1>1 DEF Types, TypeOK, Snapshot
      <4>2. QED
        BY <2>2, <2>3, <3>1, <4>1
    <3>2. CASE m # sync.box
      BY <2>4, <2>5, <3>2 DEF StatusInv, StatusIsCurrent, Live
    <3>3. QED
      BY <3>1, <3>2
  <2>6. QED
    BY <2>5 DEF StatusInv, StatusIsCurrent
<1>3. CASE ~Current(sync)
  BY <1>3 DEF Report, StatusInv, StatusIsCurrent, Live
<1>4. QED
  BY <1>2, <1>3

LEMMA StatusStep ==
  ASSUME Types, StatusInv, [Next]_vars
  PROVE  StatusInv'
<1>0. /\ Types'
      /\ \A m \in Mailboxes : mailbox[m] \in Row /\ mailbox[m].version \in Nat
  BY TypesStep DEF Types, TypeOK, Row
<1>1. ASSUME NEW m \in Mailboxes, NEW en \in BOOLEAN, Create(m, en)
      PROVE  StatusInv'
  <2>1. /\ mailbox'[m].status = "never" /\ mailbox'[m].version = 1
        /\ tested'[m].since = 1
    BY <1>1 DEF Create, NoRow, Types, TypeOK
  <2>2. \A x \in Mailboxes : x # m => /\ mailbox'[x] = mailbox[x]
                                      /\ tested'[x] = tested[x]
    BY <1>1 DEF Create, Types, TypeOK
  <2>3. QED
    BY <2>1, <2>2 DEF StatusInv, StatusIsCurrent, Live
<1>2. ASSUME NEW m \in Mailboxes, NEW pw \in BOOLEAN, NEW en \in BOOLEAN,
             NEW ids \in BOOLEAN, Edit(m, pw, en, ids)
      PROVE  StatusInv'
  <2>1. /\ Live(m)
        /\ mailbox' = [mailbox EXCEPT ![m] = Edited(mailbox[m], pw, en, ids)]
        /\ mailbox'[m].version = mailbox[m].version + 1
    BY <1>0, <1>2 DEF Edit, Edited, Bumped, Types, TypeOK, Row
  <2>2. \A x \in Mailboxes : x # m => /\ mailbox'[x] = mailbox[x]
                                      /\ tested'[x] = tested[x]
    BY <1>2, <2>1 DEF Edit, Types, TypeOK
  <2>3. CASE ResetsStatus(mailbox[m], pw, en)
    <3>1. mailbox'[m].status = "never"
      BY <1>0, <2>1, <2>3 DEF Edited, Row, Types, TypeOK
    <3>2. tested'[m].since = mailbox[m].version + 1
      BY <1>2, <2>3 DEF Edit, ResetsStatus, Types, TypeOK
    <3>3. QED
      BY <1>0, <2>1, <2>2, <3>1, <3>2 DEF StatusInv, StatusIsCurrent, Live
  <2>4. CASE ~ResetsStatus(mailbox[m], pw, en)
    <3>1. mailbox'[m].status = mailbox[m].status
      BY <1>0, <2>1, <2>4 DEF Edited, Row, Types, TypeOK
    <3>2. tested' = tested
      BY <1>2, <2>4 DEF Edit, ResetsStatus
    <3>3. \A x \in Mailboxes :
            Live(x)' => /\ Live(x)
                        /\ mailbox'[x].status = mailbox[x].status
                        /\ mailbox'[x].version >= mailbox[x].version
      BY <1>0, <2>1, <2>2, <3>1 DEF Live
    <3>4. QED
      BY <1>0, <3>2, <3>3, StatusKept
  <2>5. QED
    BY <2>3, <2>4
<1>3. ASSUME NEW m \in Mailboxes, Delete(m)
      PROVE  StatusInv'
  BY <1>3 DEF Delete, NoRow, Types, TypeOK, StatusInv, StatusIsCurrent, Live
<1>4. CASE \E S \in SUBSET Mailboxes : Reencrypt(S)
  <2>1. PICK S \in SUBSET Mailboxes : Reencrypt(S)
    BY <1>4
  <2>2. ASSUME NEW m \in Mailboxes, Live(m)'
        PROVE  /\ Live(m)
               /\ mailbox'[m].status = mailbox[m].status
               /\ mailbox'[m].version >= mailbox[m].version
    <3>1. CASE m \in S
      <4>1. /\ Live(m)
            /\ mailbox'[m] = [mailbox[m] EXCEPT !.version = mailbox[m].version + 1]
        BY <2>1, <3>1 DEF Reencrypt, Bumped
      <4>2. QED
        BY <1>0, <4>1 DEF Row
    <3>2. CASE m \notin S
      <4>1. mailbox'[m] = mailbox[m]
        BY <2>1, <3>2 DEF Reencrypt
      <4>2. QED
        BY <1>0, <2>2, <4>1 DEF Live
    <3>3. QED
      BY <3>1, <3>2
  <2>3. QED
    BY <1>0, <2>1, <2>2, StatusKept DEF Reencrypt
<1>5. CASE Finish
  <2>1. sync.box \in Mailboxes /\ Report(Advanced(mailbox[sync.box]))
    BY <1>5 DEF Finish, Types, WorkerSane, Syncing
  <2>2. Advanced(mailbox[sync.box]).version = mailbox[sync.box].version
    BY <1>0, <2>1 DEF Advanced, Row
  <2>3. QED
    BY <2>1, <2>2, StatusReported
<1>6. CASE pc \in {"connecting", "loop"} /\ SyncFails
  <2>1. sync.box \in Mailboxes /\ Report(Failed(mailbox[sync.box]))
    BY <1>6 DEF SyncFails, Types, WorkerSane, Syncing
  <2>2. Failed(mailbox[sync.box]).version = mailbox[sync.box].version
    BY <1>0, <2>1 DEF Failed, Row
  <2>3. QED
    BY <2>1, <2>2, StatusReported
<1>7. CASE UNCHANGED <<mailbox, tested>>
  BY <1>7 DEF StatusInv, StatusIsCurrent, Live
<1>8. CASE Remote
  BY <1>7, <1>8 DEF Remote, Arrive, Expunge, NewValidity
<1>9. CASE \/ \E k \in Key, d \in Decisions : OpenDecision(k, d)
           \/ \E q \in posts : SaveDecision(q) \/ DecisionFails(q)
           \/ \E S \in SUBSET Key : Purge(S)
  BY <1>7, <1>9 DEF OpenDecision, SaveDecision, DecisionFails, Purge
<1>10. CASE BeginCycle \/ EndCycle \/ (\E s \in queue : StartSync(s)) \/ Select
            \/ (\E u \in todo : Fetch(u) \/ Store(u)) \/ StoreRefused
            \/ UnexpectedError \/ Crash
  BY <1>7, <1>10 DEF BeginCycle, EndCycle, StartSync, Select, Fetch, Store,
                     StoreRefused, UnexpectedError, Crash
<1>11. CASE UNCHANGED vars
  BY <1>7, <1>11 DEF vars
<1>12. QED
  BY NextCases, <1>1, <1>2, <1>3, <1>4, <1>5, <1>6, <1>8, <1>9, <1>10, <1>11
     DEF Remote

(* What the owner reads as the result of the last synchronisation is never *)
(* about a password or an enabled period that mailbox_edit has replaced.   *)
THEOREM StatusNeverStale == Spec => []StatusIsCurrent
<1>1. StatusInv => StatusIsCurrent
  BY DEF StatusInv
<1>2. QED
  BY InitTypes, TypesStep, InitStatus, StatusStep, <1>1, PTL DEF Spec

-----------------------------------------------------------------------------
(* The cursor only moves forward.                                          *)

(* As long as the version is the one that was read, the cursor is the one  *)
(* that was read: only a report writes it without a bump, there is one     *)
(* worker, and it holds one copy of each row.                              *)
Unmoved(s) ==
    Live(s.box) /\ mailbox[s.box].version = s.version =>
        /\ s.validity = mailbox[s.box].validity
        /\ s.last = mailbox[s.box].last

(* SELECT and the messages stored so far may have moved the cursor in      *)
(* memory, within a generation only forward.                               *)
Ahead(s) ==
    Live(s.box) /\ mailbox[s.box].version = s.version
    /\ s.validity = mailbox[s.box].validity
    => s.last >= mailbox[s.box].last

OneCopy ==
    /\ \A s, t \in queue : s.box = t.box => s = t
    /\ Syncing => \A s \in queue : s.box # sync.box

HeldInv ==
    /\ OneCopy
    /\ \A s \in queue : Unmoved(s)
    /\ pc = "connecting" => Unmoved(sync)
    /\ pc \in {"loop", "fetched"} => Ahead(sync)

LEMMA InitHeld == Init => HeldInv
BY DEF Init, HeldInv, OneCopy, Syncing

(* A row that was written has a newer version than any copy the worker has. *)
LEMMA HeldKept ==
  ASSUME Types, ReadInv, HeldInv, UNCHANGED worker,
         \A m \in Mailboxes :
           Live(m)' /\ mailbox[m].presence # "unused" =>
             \/ mailbox'[m] = mailbox[m]
             \/ Live(m) /\ mailbox'[m].version = mailbox[m].version + 1
  PROVE  HeldInv'
<1>1. ASSUME NEW s \in Snapshot, s.box \in Mailboxes, ReadBefore(s), Live(s.box)',
             mailbox'[s.box].version = s.version
      PROVE  mailbox'[s.box] = mailbox[s.box] /\ Live(s.box)
  <2>1. s.version \in Nat /\ mailbox[s.box].version \in Nat
    BY <1>1 DEF Types, TypeOK, Snapshot, Row
  <2>2. mailbox[s.box].presence # "unused"
    BY <1>1 DEF ReadBefore
  <2>3. mailbox'[s.box] = mailbox[s.box]
    BY <1>1, <2>1, <2>2 DEF ReadBefore
  <2>4. QED
    BY <1>1, <2>3 DEF Live
<1>2. ASSUME NEW s \in queue
      PROVE  Unmoved(s)'
  <2>1. s \in Snapshot /\ s.box \in Mailboxes /\ ReadBefore(s) /\ Unmoved(s)
    BY DEF Types, TypeOK, WorkerSane, ReadInv, HeldInv
  <2>2. QED
    BY <1>1, <2>1 DEF Unmoved
<1>3. ASSUME Syncing
      PROVE  /\ Unmoved(sync) => Unmoved(sync)'
             /\ Ahead(sync) => Ahead(sync)'
  <2>1. sync \in Snapshot /\ sync.box \in Mailboxes /\ ReadBefore(sync) /\ sync' = sync
    BY <1>3 DEF Types, TypeOK, WorkerSane, ReadInv, worker
  <2>2. QED
    BY <1>1, <2>1 DEF Unmoved, Ahead
<1>4. OneCopy'
  BY DEF HeldInv, OneCopy, Syncing, worker
<1>5. QED
  BY <1>2, <1>3, <1>4 DEF HeldInv, Syncing, worker

(* Leaving a sync after writing no row but the one it worked on.           *)
LEMMA HeldLeft ==
  ASSUME Types, HeldInv, queue' \subseteq queue, pc' \in {"idle", "cycle"},
         \A m \in Mailboxes : mailbox'[m] = mailbox[m] \/ (Syncing /\ m = sync.box)
  PROVE  HeldInv'
<1>1. \A s \in queue' : Unmoved(s)'
  BY DEF HeldInv, OneCopy, Unmoved, Live, Types, WorkerSane
<1>2. OneCopy'
  BY DEF HeldInv, OneCopy, Syncing
<1>3. QED
  BY <1>1, <1>2 DEF HeldInv

LEMMA HeldStep ==
  ASSUME Types, ReadInv, HeldInv, [Next]_vars
  PROVE  HeldInv'
<1>0. \A m \in Mailboxes : mailbox[m] \in Row /\ mailbox[m].version \in Nat
  BY DEF Types, TypeOK, Row
<1>1. CASE Remote
  BY <1>1, HeldKept DEF Remote, Arrive, Expunge, NewValidity
<1>2. ASSUME NEW m \in Mailboxes, NEW en \in BOOLEAN, Create(m, en)
      PROVE  HeldInv'
  BY <1>2, HeldKept DEF Create, Types, TypeOK
<1>3. ASSUME NEW m \in Mailboxes, NEW pw \in BOOLEAN, NEW en \in BOOLEAN,
             NEW ids \in BOOLEAN, Edit(m, pw, en, ids)
      PROVE  HeldInv'
  <2>1. mailbox'[m].version = mailbox[m].version + 1
    BY <1>0, <1>3 DEF Edit, Edited, Bumped, Types, TypeOK, Row
  <2>2. \A x \in Mailboxes : x # m => mailbox'[x] = mailbox[x]
    BY <1>3 DEF Edit, Types, TypeOK
  <2>3. Live(m) /\ UNCHANGED worker
    BY <1>3 DEF Edit
  <2>4. QED
    BY <2>1, <2>2, <2>3, HeldKept
<1>4. ASSUME NEW m \in Mailboxes, Delete(m)
      PROVE  HeldInv'
  BY <1>4, HeldKept DEF Delete, NoRow, Live, Types, TypeOK
<1>5. CASE \E k \in Key, d \in Decisions : OpenDecision(k, d)
  BY <1>5, HeldKept DEF OpenDecision
<1>6. CASE \E q \in posts : SaveDecision(q) \/ DecisionFails(q)
  BY <1>6, HeldKept DEF SaveDecision, DecisionFails
<1>7. CASE \E S \in SUBSET Mailboxes : Reencrypt(S)
  <2>1. PICK S \in SUBSET Mailboxes : Reencrypt(S)
    BY <1>7
  <2>2. ASSUME NEW m \in Mailboxes
        PROVE  \/ mailbox'[m] = mailbox[m]
               \/ Live(m) /\ mailbox'[m].version = mailbox[m].version + 1
    <3>1. CASE m \in S
      <4>1. /\ Live(m)
            /\ mailbox'[m] = [mailbox[m] EXCEPT !.version = mailbox[m].version + 1]
        BY <2>1, <3>1 DEF Reencrypt, Bumped
      <4>2. QED
        BY <1>0, <4>1 DEF Row
    <3>2. CASE m \notin S
      BY <2>1, <3>2 DEF Reencrypt
    <3>3. QED
      BY <3>1, <3>2
  <2>3. QED
    BY <2>1, <2>2, HeldKept DEF Reencrypt
<1>8. CASE \E S \in SUBSET Key : Purge(S)
  BY <1>8, HeldKept DEF Purge
<1>9. CASE BeginCycle
  <2>1. \A s \in queue' : s = AsRead(s.box)
    BY <1>9 DEF BeginCycle, AsRead
  <2>2. pc' = "cycle" /\ mailbox' = mailbox
    BY <1>9 DEF BeginCycle
  <2>3. \A s \in queue' : Unmoved(s)'
    <3>1. ASSUME NEW s, s = AsRead(s.box)
          PROVE  /\ s.validity = mailbox[s.box].validity
                 /\ s.last = mailbox[s.box].last
      BY <3>1 DEF AsRead
    <3>2. QED
      BY <2>1, <2>2, <3>1 DEF Unmoved
  <2>4. OneCopy'
    BY <2>1, <2>2 DEF OneCopy, Syncing
  <2>5. QED
    BY <2>2, <2>3, <2>4 DEF HeldInv
<1>10. CASE EndCycle
  BY <1>10, HeldLeft DEF EndCycle
<1>11. ASSUME NEW s \in queue, StartSync(s)
       PROVE  HeldInv'
  BY <1>11 DEF StartSync, HeldInv, OneCopy, Unmoved, Live, Syncing
<1>12. CASE Select
  <2>1. /\ pc = "connecting" /\ pc' = "loop"
        /\ sync' = Resumed(sync)
        /\ mailbox' = mailbox /\ queue' = queue
    BY <1>12 DEF Select
  <2>2. sync \in Snapshot /\ Unmoved(sync) /\ sync.box \in Mailboxes
    BY <2>1 DEF HeldInv, Types, TypeOK, WorkerSane, Syncing
  <2>3. /\ sync'.box = sync.box /\ sync'.version = sync.version
        /\ sync'.validity = inbox.validity
        /\ sync.validity = inbox.validity => sync' = sync
    BY <2>1, <2>2 DEF Resumed, Snapshot
  <2>4. mailbox[sync.box].last \in Nat
    BY <1>0, <2>2 DEF Row
  <2>5. Ahead(sync)'
    BY <2>1, <2>2, <2>3, <2>4 DEF Ahead, Unmoved, Live
  <2>6. QED
    BY <2>1, <2>3, <2>5 DEF HeldInv, OneCopy, Unmoved, Live, Syncing
<1>13. CASE \E u \in todo : Fetch(u)
  BY <1>13 DEF Fetch, HeldInv, OneCopy, Unmoved, Ahead, Live, Syncing
<1>14. ASSUME NEW u \in todo, Store(u)
       PROVE  HeldInv'
  <2>1. /\ pc = "fetched" /\ pc' = "loop" /\ mailbox' = mailbox /\ queue' = queue
        /\ sync' = [sync EXCEPT !.last = IF u > sync.last THEN u ELSE sync.last]
    BY <1>14 DEF Store
  <2>2. /\ sync \in Snapshot /\ sync.last \in Nat /\ sync.box \in Mailboxes
        /\ u \in Nat
    BY <2>1 DEF Types, TypeOK, WorkerSane, Syncing, Snapshot, Uid
  <2>3. /\ sync'.box = sync.box /\ sync'.version = sync.version
        /\ sync'.validity = sync.validity /\ sync'.last >= sync.last
        /\ sync'.last \in Nat
    BY <2>1, <2>2 DEF Snapshot
  <2>4. mailbox[sync.box].last \in Nat
    BY <1>0, <2>2 DEF Row
  <2>5. Ahead(sync)'
    BY <2>1, <2>2, <2>3, <2>4 DEF HeldInv, Ahead, Live
  <2>6. QED
    BY <2>1, <2>3, <2>5 DEF HeldInv, OneCopy, Unmoved, Live, Syncing
<1>15. CASE StoreRefused \/ UnexpectedError \/ Crash
  BY <1>15, HeldLeft DEF StoreRefused, UnexpectedError, Crash, LeaveSync
<1>16. CASE Finish
  BY <1>16, HeldLeft DEF Finish, Report, LeaveSync, Types, TypeOK, Syncing
<1>17. CASE pc \in {"connecting", "loop"} /\ SyncFails
  BY <1>17, HeldLeft DEF SyncFails, Report, LeaveSync, Types, TypeOK, Syncing
<1>18. CASE UNCHANGED vars
  BY <1>18, HeldKept DEF vars
<1>19. QED
  BY NextCases, <1>1, <1>2, <1>3, <1>4, <1>5, <1>6, <1>7, <1>8, <1>9, <1>10,
     <1>11, <1>12, <1>13, <1>14, <1>15, <1>16, <1>17, <1>18 DEF Remote

(* A live row is written with its cursor kept, or by the report of a sync  *)
(* whose cursor is ahead of it.                                            *)
LEMMA CursorForward ==
  ASSUME Types, HeldInv, [Next]_vars, NEW m \in Mailboxes,
         Live(m), Live(m)', mailbox'[m].validity = mailbox[m].validity
  PROVE  mailbox'[m].last >= mailbox[m].last
<1>0. mailbox \in [Mailboxes -> Row] /\ mailbox[m] \in Row /\ mailbox[m].last \in Nat
  BY DEF Types, TypeOK, Row
<1>1. CASE mailbox'[m].last = mailbox[m].last
  BY <1>0, <1>1
<1>2. CASE \E x \in Mailboxes, en \in BOOLEAN : Create(x, en)
  BY <1>0, <1>1, <1>2 DEF Create, Live
<1>3. ASSUME NEW x \in Mailboxes, NEW pw \in BOOLEAN, NEW en \in BOOLEAN,
             NEW ids \in BOOLEAN, Edit(x, pw, en, ids)
      PROVE  mailbox'[m].last >= mailbox[m].last
  <2>1. Edited(mailbox[m], pw, en, ids).last = mailbox[m].last
    BY <1>0 DEF Edited, Row
  <2>2. mailbox' = [mailbox EXCEPT ![x] = Edited(mailbox[x], pw, en, ids)]
    BY <1>3 DEF Edit
  <2>3. QED
    BY <1>0, <1>1, <2>1, <2>2
<1>4. CASE \E x \in Mailboxes : Delete(x)
  BY <1>0, <1>1, <1>4 DEF Delete, NoRow, Live
<1>5. CASE \E S \in SUBSET Mailboxes : Reencrypt(S)
  <2>1. PICK S \in SUBSET Mailboxes : Reencrypt(S)
    BY <1>5
  <2>2. CASE m \in S
    <3>1. mailbox'[m] = [mailbox[m] EXCEPT !.version = mailbox[m].version + 1]
      BY <2>1, <2>2 DEF Reencrypt, Bumped
    <3>2. QED
      BY <1>0, <1>1, <3>1 DEF Row
  <2>3. CASE m \notin S
    BY <1>1, <2>1, <2>3 DEF Reencrypt
  <2>4. QED
    BY <2>2, <2>3
<1>6. CASE Finish
  <2>1. CASE Current(sync) /\ m = sync.box
    <3>1. mailbox'[m] = Advanced(mailbox[m])
      BY <1>0, <1>6, <2>1 DEF Finish, Report
    <3>2. Advanced(mailbox[m]).validity = sync.validity
          /\ Advanced(mailbox[m]).last = sync.last
      BY <1>0 DEF Advanced, Row
    <3>3. Ahead(sync)
      BY <1>6 DEF Finish, HeldInv
    <3>4. QED
      BY <2>1, <3>1, <3>2, <3>3 DEF Ahead, Current
  <2>2. CASE ~(Current(sync) /\ m = sync.box)
    BY <1>0, <1>1, <1>6, <2>2 DEF Finish, Report
  <2>3. QED
    BY <2>1, <2>2
<1>7. CASE pc \in {"connecting", "loop"} /\ SyncFails
  <2>1. Failed(mailbox[m]).last = mailbox[m].last
    BY <1>0 DEF Failed, Row
  <2>2. mailbox'[m] = mailbox[m] \/ mailbox'[m] = Failed(mailbox[m])
    BY <1>0, <1>7 DEF SyncFails, Report
  <2>3. QED
    BY <1>1, <2>1, <2>2
<1>8. CASE Remote
  BY <1>1, <1>8 DEF Remote, Arrive, Expunge, NewValidity
<1>9. CASE \/ \E k \in Key, d \in Decisions : OpenDecision(k, d)
           \/ \E q \in posts : SaveDecision(q) \/ DecisionFails(q)
           \/ \E S \in SUBSET Key : Purge(S)
  BY <1>1, <1>9 DEF OpenDecision, SaveDecision, DecisionFails, Purge
<1>10. CASE BeginCycle \/ EndCycle \/ (\E s \in queue : StartSync(s)) \/ Select
            \/ (\E u \in todo : Fetch(u) \/ Store(u)) \/ StoreRefused
            \/ UnexpectedError \/ Crash
  BY <1>1, <1>10 DEF BeginCycle, EndCycle, StartSync, Select, Fetch, Store,
                     StoreRefused, UnexpectedError, Crash
<1>11. CASE UNCHANGED vars
  BY <1>1, <1>11 DEF vars
<1>12. QED
  BY NextCases, <1>2, <1>3, <1>4, <1>5, <1>6, <1>7, <1>8, <1>9, <1>10, <1>11
     DEF Remote

(* Only store_message makes a row out of nothing, and of a UID beyond the  *)
(* cursor in memory.                                                       *)
LEMMA StoredBeyondCursor ==
  ASSUME Types, CursorInv, HeldInv, [Next]_vars, NEW k \in Key,
         ~Stored(k), message'[k] # "absent",
         mailbox[k[1]].validity = k[2]
  PROVE  k[3] > mailbox[k[1]].last
<1>1. ASSUME NEW u \in todo, Store(u)
      PROVE  k[3] > mailbox[k[1]].last
  <2>1. k = <<sync.box, sync.validity, u>>
    BY <1>1 DEF Store, Types, TypeOK, Stored
  <2>2. /\ u > sync.last /\ Ahead(sync)
        /\ Live(sync.box) /\ mailbox[sync.box].version = sync.version
    BY <1>1 DEF Store, Current, CursorInv, BatchSafe, HeldInv
  <2>3. /\ u \in Nat /\ sync.last \in Nat /\ mailbox[sync.box].last \in Nat
    BY <1>1 DEF Store, Types, TypeOK, WorkerSane, Syncing, Snapshot, Uid, Row
  <2>4. sync.last >= mailbox[sync.box].last
    BY <2>1, <2>2 DEF Ahead
  <2>5. QED
    BY <2>1, <2>2, <2>3, <2>4
<1>2. CASE \E q \in posts : SaveDecision(q)
  BY <1>2 DEF SaveDecision, Types, TypeOK, WorkerSane, Stored
<1>3. CASE \/ \E m \in Mailboxes : Delete(m)
           \/ \E S \in SUBSET Key : Purge(S)
  BY <1>3 DEF Delete, Purge, Unstore, Stored
<1>4. CASE message' = message
  BY <1>4 DEF Stored
<1>5. CASE Remote
  BY <1>4, <1>5 DEF Remote, Arrive, Expunge, NewValidity
<1>6. CASE \/ \E m \in Mailboxes, en \in BOOLEAN : Create(m, en)
           \/ \E m \in Mailboxes, pw, en, ids \in BOOLEAN : Edit(m, pw, en, ids)
           \/ \E x \in Key, d \in Decisions : OpenDecision(x, d)
           \/ \E q \in posts : DecisionFails(q)
           \/ \E S \in SUBSET Mailboxes : Reencrypt(S)
  BY <1>4, <1>6 DEF Create, Edit, OpenDecision, DecisionFails, Reencrypt
<1>7. CASE BeginCycle \/ EndCycle \/ (\E s \in queue : StartSync(s)) \/ Select
           \/ (\E u \in todo : Fetch(u)) \/ StoreRefused \/ Finish \/ SyncFails
           \/ UnexpectedError \/ Crash
  BY <1>4, <1>7 DEF BeginCycle, EndCycle, StartSync, Select, Fetch, StoreRefused,
                    Finish, SyncFails, UnexpectedError, Crash
<1>8. CASE UNCHANGED vars
  BY <1>4, <1>8 DEF vars
<1>9. QED
  BY NextCases, <1>1, <1>2, <1>3, <1>5, <1>6, <1>7, <1>8 DEF Remote

(* Edits, re-encryption, failures and restarts never move last_uid back    *)
(* within a generation, and a row that retention removed comes back only   *)
(* if the cursor had not been saved past it.                               *)
THEOREM CursorNeverBack == Spec => CursorStable
<1>1. ASSUME Types, CursorInv, HeldInv, [Next]_vars
      PROVE  [/\ \A m \in Mailboxes :
                   Live(m) /\ mailbox'[m].presence = "live"
                   /\ mailbox'[m].validity = mailbox[m].validity
                   => mailbox'[m].last >= mailbox[m].last
              /\ \A k \in Key :
                   ~Stored(k) /\ message'[k] # "absent"
                   /\ mailbox[k[1]].validity = k[2]
                   => k[3] > mailbox[k[1]].last]_vars
  BY <1>1, CursorForward, StoredBeyondCursor DEF Live
<1>2. QED
  BY InitTypes, TypesStep, InitCursor, CursorStep, InitRead, ReadStep, InitHeld,
     HeldStep, <1>1, PTL DEF Spec, CursorStable

-----------------------------------------------------------------------------
(* The worker, the owner's views and the retention job implement Gate.     *)

Asked == {<<p.key, p.to>> : p \in {q \in posts : ~q.gone}}

LEMMA AskedMember ==
  ASSUME NEW a
  PROVE  a \in Asked <=> \E p \in posts : ~p.gone /\ a = <<p.key, p.to>>
BY DEF Asked

(* Steps that change neither messages nor requests that can succeed. *)
LEMMA GateStutter ==
  ASSUME message' = message, posts' = posts
  PROVE  UNCHANGED GateView!vars
BY DEF GateView!vars

LEMMA UnstoreIsRemove ==
  ASSUME Types, NEW S \in SUBSET Key, \A k \in S : Stored(k), Unstore(S)
  PROVE  GateView!Next
<1>1. ASSUME NEW a
      PROVE  a \in Asked' <=> a \in Asked /\ a[1] \notin S
  <2>1. a \in Asked' <=> \E q \in posts' : ~q.gone /\ a = <<q.key, q.to>>
    BY DEF Asked
  <2>2. \A p \in posts : p \in Post
    BY DEF Types, TypeOK
  <2> DEFINE After(p) == [p EXCEPT !.gone = @ \/ p.key \in S]
  <2>3. ASSUME NEW p \in posts
        PROVE  /\ After(p).key = p.key /\ After(p).to = p.to
               /\ After(p).gone <=> p.gone \/ p.key \in S
    BY <2>2 DEF Post
  <2>4. posts' = {After(p) : p \in posts}
    BY DEF Unstore
  <2> HIDE DEF After
  <2>5. a \in Asked' <=> \E p \in posts : /\ ~p.gone /\ p.key \notin S
                                          /\ a = <<p.key, p.to>>
    BY <2>1, <2>3, <2>4
  <2>6. QED
    BY <2>5, AskedMember
<1>2. Asked' = {a \in Asked : a[1] \notin S}
  BY <1>1
<1>3. GateView!Remove(S)
  BY <1>2 DEF GateView!Remove, GateView!Stored, Unstore, Stored, Asked
<1>4. QED
  BY <1>3 DEF GateView!Next

LEMMA OpenIsAsk ==
  ASSUME NEW k \in Key, NEW d \in Decisions, OpenDecision(k, d)
  PROVE  GateView!Next
<1> DEFINE q == [key |-> k, to |-> d, gone |-> FALSE]
<1>1. posts' = posts \union {q} /\ message' = message /\ Stored(k)
  BY DEF OpenDecision
<1>2. ~q.gone /\ <<q.key, q.to>> = <<k, d>>
  OBVIOUS
<1> HIDE DEF q
<1>3. Asked' = Asked \union {<<k, d>>}
  BY <1>1, <1>2 DEF Asked
<1>4. GateView!Ask(k, d)
  BY <1>1, <1>3 DEF GateView!Ask, GateView!Stored, Stored, Asked
<1>5. QED
  BY <1>4 DEF GateView!Next, Decisions, GateView!Decisions

LEMMA SaveIsDecide ==
  ASSUME Types, NEW p \in posts, SaveDecision(p)
  PROVE  GateView!Next
<1>1. /\ p \in Post /\ p.key \in Key /\ p.to \in Decisions
      /\ ~p.gone /\ Stored(p.key)
      /\ posts' = posts \ {p}
      /\ message' = [message EXCEPT ![p.key] = p.to]
  BY DEF SaveDecision, Types, TypeOK, WorkerSane, Post
<1>2. ASSUME NEW q \in posts, ~q.gone, q.key = p.key, q.to = p.to
      PROVE  q = p
  BY <1>1, <1>2 DEF Types, TypeOK, Post
<1>3. ASSUME NEW a
      PROVE  a \in Asked' <=> a \in Asked /\ a # <<p.key, p.to>>
  <2>1. a \in Asked' <=> \E q \in posts' : ~q.gone /\ a = <<q.key, q.to>>
    BY DEF Asked
  <2>2. QED
    BY <1>1, <1>2, <2>1, AskedMember
<1>4. Asked' = Asked \ {<<p.key, p.to>>}
  BY <1>3
<1>5. <<p.key, p.to>> \in Asked
  BY <1>1, AskedMember
<1>6. GateView!Decide(p.key, p.to)
  BY <1>1, <1>4, <1>5 DEF GateView!Decide, GateView!Stored, Stored, Asked
<1>7. QED
  BY <1>1, <1>6 DEF GateView!Next, Decisions, GateView!Decisions

LEMMA FailureIsStutter ==
  ASSUME NEW p \in posts, DecisionFails(p)
  PROVE  UNCHANGED GateView!vars
<1>1. p.gone /\ posts' = posts \ {p} /\ message' = message
  BY DEF DecisionFails
<1>2. {q \in posts' : ~q.gone} = {q \in posts : ~q.gone}
  BY <1>1
<1>3. QED
  BY <1>1, <1>2 DEF GateView!vars

LEMMA StoreIsIngest ==
  ASSUME Types, NEW u \in todo, Store(u)
  PROVE  GateView!Next \/ UNCHANGED GateView!vars
<1> DEFINE k == <<sync.box, sync.validity, u>>
<1>1. k \in Key
  BY DEF Store, Types, TypeOK, WorkerSane, Syncing, Key
<1>2. /\ posts' = posts
      /\ message' = IF Stored(k) THEN message
                    ELSE [message EXCEPT ![k] = "quarantined"]
  BY DEF Store, InsertedState
<1> HIDE DEF k
<1>3. CASE Stored(k)
  BY <1>2, <1>3, GateStutter
<1>4. CASE ~Stored(k)
  BY <1>1, <1>2, <1>4 DEF GateView!Next, GateView!Ingest, GateView!Stored, Stored
<1>5. QED
  BY <1>3, <1>4

LEMMA GateInit == Init => GateView!Init
BY DEF Init, GateView!Init

LEMMA GateStep ==
  ASSUME Types, [Next]_vars
  PROVE  [GateView!Next]_(GateView!vars)
<1>1. CASE Remote
  BY <1>1, GateStutter DEF Remote, Arrive, Expunge, NewValidity
<1>2. CASE \E m \in Mailboxes, en \in BOOLEAN : Create(m, en)
  BY <1>2, GateStutter DEF Create
<1>3. CASE \E m \in Mailboxes, pw, en, ids \in BOOLEAN : Edit(m, pw, en, ids)
  BY <1>3, GateStutter DEF Edit
<1>4. ASSUME NEW m \in Mailboxes, Delete(m)
      PROVE  GateView!Next
  BY <1>4, UnstoreIsRemove DEF Delete, Cascade
<1>5. CASE \E k \in Key, d \in Decisions : OpenDecision(k, d)
  BY <1>5, OpenIsAsk
<1>6. CASE \E p \in posts : SaveDecision(p)
  BY <1>6, SaveIsDecide
<1>7. CASE \E p \in posts : DecisionFails(p)
  BY <1>7, FailureIsStutter
<1>8. CASE \E S \in SUBSET Mailboxes : Reencrypt(S)
  BY <1>8, GateStutter DEF Reencrypt
<1>9. ASSUME NEW S \in SUBSET Key, Purge(S)
      PROVE  GateView!Next
  BY <1>9, UnstoreIsRemove DEF Purge
<1>10. CASE \E u \in todo : Store(u)
  BY <1>10, StoreIsIngest
<1>11. CASE BeginCycle \/ EndCycle \/ (\E s \in queue : StartSync(s)) \/ Select
            \/ (\E u \in todo : Fetch(u)) \/ StoreRefused \/ Finish \/ SyncFails
            \/ UnexpectedError \/ Crash
  BY <1>11, GateStutter
     DEF BeginCycle, EndCycle, StartSync, Select, Fetch, StoreRefused, Finish,
         SyncFails, UnexpectedError, Crash
<1>12. CASE UNCHANGED vars
  BY <1>12, GateStutter DEF vars
<1>13. QED
  BY NextCases, <1>1, <1>2, <1>3, <1>4, <1>5, <1>6, <1>7, <1>8, <1>9, <1>10,
     <1>11, <1>12 DEF Remote

(* Whatever worker, owner and retention interleave, a stored message was   *)
(* quarantined first and left quarantine only by a decision the owner made *)
(* about the row that was then there.                                      *)
THEOREM IngestionImplementsGate == Spec => ImplementsGate
BY InitTypes, TypesStep, GateInit, GateStep, PTL
   DEF Spec, GateView!Spec, ImplementsGate

=============================================================================
