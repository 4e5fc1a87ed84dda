---------------------------- MODULE LifecycleProofs ----------------------------
(***************************************************************************)
(* Theorems about Lifecycle, for every finite set of mailboxes and         *)
(* messages, every retention policy and every batch size.                  *)
(***************************************************************************)
EXTENDS Lifecycle, FiniteSetTheorems, TLAPS

LEMMA MessagesFinite == IsFiniteSet(Messages)
BY LifecycleConstants, FS_Product DEF Messages

LEMMA CardinalityOfMessages ==
  ASSUME NEW T \in SUBSET Messages
  PROVE  IsFiniteSet(T) /\ Cardinality(T) \in Nat
BY MessagesFinite, FS_Subset, FS_CardinalityType

(* Every step is one of these. *)
LEMMA NextCases ==
  ASSUME Next
  PROVE  \/ Tick \/ BeginPurge \/ SelectBatch \/ NextCategory \/ DeleteBatch
         \/ CommitPurge \/ PurgeFails \/ CreateFile
         \/ \E m \in Messages : Ingest(m)
         \/ \E m \in Messages, to \in Decisions : OpenDecision(m, to)
         \/ \E p \in posts : SaveDecision(p) \/ DecisionFails(p)
         \/ \E m \in Messages : LockRow(m)
         \/ \E b \in Mailboxes : CountMessages(b)
         \/ \E b \in Mailboxes : OpenDeletion(b)
         \/ \E b \in Mailboxes : CommitDeletion(b)
         \/ \E b \in Mailboxes : DeletionFails(b)
         \/ \E b \in Mailboxes, m \in Messages : DeleteMessage(b, m)
         \/ \E e \in Exports : StartExport(e)
         \/ \E e \in Exports : WriteMessages(e)
         \/ \E e \in Exports : Publish(e)
         \/ \E e \in Exports : ExportFails(e)
BY DEF Next, PurgeStep, AbortOne

-----------------------------------------------------------------------------
(* Type correctness of the records.                                        *)

LEMMA PurgeShapes ==
  ASSUME NEW pc \in {"idle", "select", "lock", "audit", "done"}, NEW n \in Nat
  PROVE  /\ NoPurge(pc) \in Purge
         /\ [NoPurge(pc) EXCEPT !.now = n] \in Purge
BY DEF NoPurge, Purge, Categories

LEMMA InitShapes == Init => Shapes
<1> SUFFICES ASSUME Init PROVE Shapes
  OBVIOUS
<1>1. row \in [Messages -> Row \union {Absent, Gone}]
  BY DEF Init
<1>2. purge \in Purge
  BY PurgeShapes DEF Init
<1>3. del \in [Mailboxes -> Deletion]
  BY DEF Init, NoDeletion, Deletion
<1>4. export \in [Exports -> Export]
  BY DEF Init, NoExport, Export, NoDocument, Document
<1>5. QED
  BY <1>1, <1>2, <1>3, <1>4 DEF Init, Shapes

LEMMA PurgeTypes ==
  ASSUME Shapes,
         \/ BeginPurge \/ SelectBatch \/ NextCategory \/ DeleteBatch \/ PurgeFails
         \/ \E m \in Messages : LockRow(m)
  PROVE  Shapes'
<1> USE DEF Shapes
<1>1. CASE BeginPurge
  BY <1>1, PurgeShapes DEF BeginPurge
<1>2. CASE SelectBatch
  <2>1. PICK ids \in Batches :
          purge' = [purge EXCEPT !.pc = "lock", !.ids = ids]
    BY <1>2 DEF SelectBatch
  <2>2. ids \in SUBSET Messages
    BY DEF Batches, Some
  <2>3. purge' \in Purge
    BY <2>1, <2>2 DEF Purge
  <2>4. QED
    BY <1>2, <2>3 DEF SelectBatch
<1>3. CASE NextCategory
  <2>1. CASE purge.category < 3
    <3>1. purge.category + 1 \in Categories
      BY <2>1 DEF Purge, Categories
    <3>2. purge' = [purge EXCEPT !.category = purge.category + 1]
      BY <1>3, <2>1 DEF NextCategory
    <3>3. purge' \in Purge
      BY <3>1, <3>2 DEF Purge
    <3>4. QED
      BY <1>3, <3>3 DEF NextCategory
  <2>2. CASE ~(purge.category < 3)
    <3>1. purge' = [purge EXCEPT !.category = 4, !.pc = "audit"]
      BY <1>3, <2>2 DEF NextCategory
    <3>2. purge' \in Purge
      BY <3>1 DEF Purge
    <3>3. QED
      BY <1>3, <3>2 DEF NextCategory
  <2>3. QED
    BY <2>1, <2>2
<1>4. CASE DeleteBatch
  <2>1. Cardinality(purge.locked) \in Nat
    BY CardinalityOfMessages DEF Purge
  <2>2. purge.counts \in [Categories -> Nat]
    BY DEF Purge
  <2>5. Counted \in [Categories -> Nat]
    <3> DEFINE c == purge.counts
               k == Cardinality(purge.locked)
    <3>1. Counted = [i \in Categories |->
                       IF i = purge.category THEN c[i] + k ELSE c[i]]
      BY <2>2 DEF Counted
    <3>2. \A i \in Categories : c[i] \in Nat /\ c[i] + k \in Nat
      BY <2>1, <2>2
    <3> HIDE DEF c, k
    <3>3. QED
      BY <3>1, <3>2
  <2>3. purge' \in Purge
    BY <1>4, <2>5 DEF DeleteBatch, Purge
  <2>4. QED
    BY <1>4, <2>3 DEF DeleteBatch
<1>5. CASE PurgeFails
  BY <1>5, PurgeShapes DEF PurgeFails
<1>6. ASSUME NEW m \in Messages, LockRow(m)
      PROVE  Shapes'
  BY <1>6 DEF LockRow, Purge
<1>7. QED
  BY <1>1, <1>2, <1>3, <1>4, <1>5, <1>6

LEMMA DeletionTypes ==
  ASSUME Shapes, NEW b \in Mailboxes,
         \/ CountMessages(b) \/ OpenDeletion(b) \/ DeletionFails(b)
         \/ \E m \in Messages : DeleteMessage(b, m)
  PROVE  Shapes'
<1> USE DEF Shapes
<1>0. Owned(b) \in SUBSET Messages /\ Cardinality(Owned(b)) \in Nat
  BY CardinalityOfMessages DEF Owned
<1>1. CASE CountMessages(b)
  <2>1. del' = [del EXCEPT ![b] = [del[b] EXCEPT !.pc = "counted",
                                     !.count = Cardinality(Owned(b))]]
    BY <1>1 DEF CountMessages
  <2>2. [del[b] EXCEPT !.pc = "counted", !.count = Cardinality(Owned(b))] \in Deletion
    BY <1>0 DEF Deletion
  <2>3. del' \in [Mailboxes -> Deletion]
    BY <2>1, <2>2
  <2>4. QED
    BY <1>1, <2>3 DEF CountMessages
<1>2. CASE OpenDeletion(b)
  <2>1. del' = [del EXCEPT ![b] = [del[b] EXCEPT !.pc = "deleting",
                                     !.todo = Owned(b)]]
    BY <1>2 DEF OpenDeletion
  <2>2. [del[b] EXCEPT !.pc = "deleting", !.todo = Owned(b)] \in Deletion
    BY <1>0 DEF Deletion
  <2>3. del' \in [Mailboxes -> Deletion]
    BY <2>1, <2>2
  <2>4. QED
    BY <1>2, <2>3 DEF OpenDeletion
<1>3. CASE DeletionFails(b)
  BY <1>3 DEF DeletionFails, Deletion, NoDeletion
<1>4. ASSUME NEW m \in Messages, DeleteMessage(b, m)
      PROVE  Shapes'
  <2>1. /\ del[b] \in Deletion
        /\ del' = [del EXCEPT ![b] =
                     [del[b] EXCEPT !.todo = @ \ {m},
                        !.deleted = IF Stored(m) THEN @ \union {m} ELSE @]]
    BY <1>4 DEF DeleteMessage
  <2>2. del'[b] \in Deletion
    BY <2>1 DEF Deletion
  <2>3. del' \in [Mailboxes -> Deletion]
    BY <2>1, <2>2
  <2>4. QED
    BY <1>4, <2>3 DEF DeleteMessage
<1>5. QED
  BY <1>1, <1>2, <1>3, <1>4

LEMMA ExportTypes ==
  ASSUME Shapes, NEW e \in Exports,
         StartExport(e) \/ WriteMessages(e) \/ Publish(e) \/ ExportFails(e)
  PROVE  Shapes'
<1> USE DEF Shapes
<1>0. /\ Committed \in Document /\ NoDocument \in Document
      /\ NoExport("idle") \in Export
  BY DEF Committed, NoDocument, NoExport, Document, Export
<1>1. CASE StartExport(e)
  BY <1>1, <1>0 DEF StartExport, Export, Document, NoDocument
<1>2. CASE WriteMessages(e)
  <2>1. /\ export[e] \in Export
        /\ export' = [export EXCEPT ![e] =
                        [export[e] EXCEPT !.pc = "attachments",
                           !.out = [@ EXCEPT !.msgs = Source(e).msgs]]]
    BY <1>2 DEF WriteMessages
  <2>2. Source(e) \in Document /\ export[e].out \in Document
    BY <2>1 DEF Source, Export
  <2>3. [export[e].out EXCEPT !.msgs = Source(e).msgs] \in Document
    BY <2>2 DEF Document
  <2>4. export' \in [Exports -> Export]
    BY <2>1, <2>3 DEF Export
  <2>5. QED
    BY <1>2, <2>4 DEF WriteMessages
<1>3. CASE Publish(e)
  <2>1. Complete(e) \in Export
    BY <1>0 DEF Complete, Source, Export, Document
  <2>2. QED
    BY <1>3, <1>0, <2>1 DEF Publish
<1>4. CASE ExportFails(e)
  BY <1>4, <1>0 DEF ExportFails
<1>5. QED
  BY <1>1, <1>2, <1>3, <1>4

LEMMA ShapesStep ==
  ASSUME Shapes, [Next]_vars
  PROVE  Shapes'
<1>1. CASE Tick
  BY <1>1 DEF Tick, Shapes
<1>2. ASSUME NEW m \in Messages, Ingest(m)
      PROVE  Shapes'
  BY <1>2 DEF Ingest, Shapes, Row, States
<1>3. ASSUME NEW m \in Messages, NEW to \in Decisions, OpenDecision(m, to)
      PROVE  Shapes'
  BY <1>3 DEF OpenDecision, Shapes, Post
<1>4. ASSUME NEW p \in posts, SaveDecision(p) \/ DecisionFails(p)
      PROVE  Shapes'
  BY <1>4 DEF SaveDecision, DecisionFails, Shapes, Post, Row, States
<1>5. CASE CommitPurge
  <2>1. row' \in [Messages -> Row \union {Absent, Gone}]
    BY <1>5 DEF CommitPurge, Shapes
  <2>2. lost' \in [Mailboxes -> SUBSET Messages]
    BY <1>5 DEF CommitPurge, Shapes, Purge
  <2>3. QED
    BY <1>5, <2>1, <2>2, PurgeShapes DEF CommitPurge, Shapes
<1>6. ASSUME NEW b \in Mailboxes, CommitDeletion(b)
      PROVE  Shapes'
  <2>1. NoDeletion("over") \in Deletion
    BY DEF NoDeletion, Deletion
  <2>2. row' \in [Messages -> Row \union {Absent, Gone}]
    BY <1>6 DEF CommitDeletion, Shapes
  <2>3. QED
    BY <1>6, <2>1, <2>2 DEF CommitDeletion, Shapes
<1>7. CASE CreateFile
  BY <1>7 DEF CreateFile, Shapes
<1>8. CASE UNCHANGED vars
  BY <1>8 DEF vars, Shapes
<1>9. QED
  BY NextCases, PurgeTypes, DeletionTypes, ExportTypes, <1>1, <1>2, <1>3, <1>4,
     <1>5, <1>6, <1>7, <1>8

-----------------------------------------------------------------------------
(* What the transactions hold: a row that retention locked is as it was    *)
(* when it was checked, and a deletion collects every row of its mailbox.  *)
PurgeLocks ==
    /\ purge.pc \in {"idle", "done"} => ByPurge = {}
    /\ purge.pc \in {"select", "audit"} => purge.locked = {}
    /\ \A m \in ByPurge :
         Stored(m) /\ row[m].since < purge.now - Keep[row[m].state]
    /\ \A m \in purge.locked : row[m].state = Category(purge.category)
    /\ purge.locked \intersect purge.deleted = {}

DeletionLocks ==
    \A b \in Mailboxes :
        /\ \A m \in del[b].todo : m[1] = b
        /\ del[b].deleted \subseteq Owned(b)
        /\ del[b].pc = "deleting" => Owned(b) \subseteq del[b].todo \union del[b].deleted
        /\ del[b].pc # "deleting" => del[b].deleted = {}

Apart ==
    /\ \A m \in Messages : Stored(m) => m[1] \in live
    /\ ByPurge \intersect ByDeletion = {}

Locks == Shapes /\ PurgeLocks /\ DeletionLocks /\ Apart

LEMMA StoredRow ==
  ASSUME NEW t \in States, NEW n \in Nat
  PROVE  [state |-> t, since |-> n].state \in States
OBVIOUS

LEMMA NotStored == Absent.state \notin States /\ Gone.state \notin States /\ Absent # Gone
BY DEF States, Decisions, Absent, Gone

(* The rows that a commit removes, and only these, are not stored any more. *)
LEMMA CommitRemoves ==
  ASSUME NEW S, row' = [m \in Messages |-> IF m \in S THEN Gone ELSE row[m]]
  PROVE  \A k \in Messages : Stored(k)' <=> Stored(k) /\ k \notin S
BY NotStored, CommitRemoves DEF Stored

LEMMA InitLocks == Init => Locks
<1> SUFFICES ASSUME Init PROVE Locks
  OBVIOUS
<1>1. ByPurge = {} /\ ByDeletion = {}
  BY DEF Init, ByPurge, ByDeletion, NoPurge, NoDeletion
<1>2. PurgeLocks
  BY <1>1 DEF Init, PurgeLocks, NoPurge, ByPurge
<1>3. DeletionLocks
  BY DEF Init, DeletionLocks, NoDeletion
<1>4. Apart
  BY <1>1, NotStored DEF Init, Apart, Stored
<1>5. QED
  BY <1>2, <1>3, <1>4, InitShapes DEF Locks

LEMMA PurgeLocksKept ==
  ASSUME PurgeLocks, purge' = purge, \A m \in ByPurge : row'[m] = row[m]
  PROVE  PurgeLocks'
BY DEF PurgeLocks, ByPurge, Stored

LEMMA PurgeLocksOfPurge ==
  ASSUME Locks,
         \/ BeginPurge \/ SelectBatch \/ NextCategory \/ DeleteBatch \/ PurgeFails
         \/ CommitPurge \/ \E m \in Messages : LockRow(m)
  PROVE  PurgeLocks'
<1> USE DEF Locks, PurgeLocks
<1>1. CASE BeginPurge
  BY <1>1 DEF BeginPurge, NoPurge, ByPurge
<1>2. CASE SelectBatch
  BY <1>2 DEF SelectBatch, Shapes, Purge, ByPurge, Stored
<1>3. CASE NextCategory
  BY <1>3 DEF NextCategory, Shapes, Purge, ByPurge, Stored
<1>4. CASE DeleteBatch
  BY <1>4 DEF DeleteBatch, Shapes, Purge, ByPurge, Stored
<1>5. CASE PurgeFails \/ CommitPurge
  BY <1>5 DEF PurgeFails, CommitPurge, NoPurge, ByPurge
<1>6. ASSUME NEW m \in Messages, LockRow(m)
      PROVE  PurgeLocks'
  <2>1. purge.pc = "lock" /\ purge'.pc = "lock" /\ row' = row
        /\ purge'.deleted = purge.deleted /\ purge'.now = purge.now
        /\ purge'.category = purge.category
    BY <1>6 DEF LockRow, Shapes, Purge
  <2>2. purge'.locked = IF Matches(m) THEN purge.locked \union {m} ELSE purge.locked
    BY <1>6 DEF LockRow, Shapes, Purge
  <2>3. QED
    BY <2>1, <2>2 DEF Matches, Expired, ByPurge, Stored
<1>7. QED
  BY <1>1, <1>2, <1>3, <1>4, <1>5, <1>6

(* Nobody else changes a row that retention has locked. *)
LEMMA HeldRows ==
  ASSUME Locks, [Next]_vars
  PROVE  \/ purge' = purge /\ \A m \in ByPurge : row'[m] = row[m]
         \/ BeginPurge \/ SelectBatch \/ NextCategory \/ DeleteBatch \/ PurgeFails
         \/ CommitPurge \/ \E m \in Messages : LockRow(m)
<1> DEFINE Held == purge' = purge /\ \A m \in ByPurge : row'[m] = row[m]
<1> USE DEF Locks
<1>0. ByPurge \subseteq Messages
  BY DEF ByPurge, Shapes, Purge
<1>1. ASSUME NEW m \in Messages, Ingest(m)
      PROVE  Held
  <2>1. m \notin ByPurge
    BY <1>1, NotStored DEF Ingest, PurgeLocks, Stored
  <2>2. QED
    BY <1>0, <1>1, <2>1 DEF Ingest, Shapes
<1>2. ASSUME NEW p \in posts, SaveDecision(p)
      PROVE  Held
  BY <1>0, <1>2 DEF SaveDecision, Free, Shapes
<1>3. ASSUME NEW b \in Mailboxes, CommitDeletion(b)
      PROVE  Held
  <2>1. del[b].deleted \subseteq ByDeletion
    BY DEF ByDeletion
  <2>2. QED
    BY <1>0, <1>3, <2>1 DEF CommitDeletion, Apart
<1>4. CASE row' = row /\ purge' = purge
  BY <1>4
<1>5. QED
  BY NextCases, <1>1, <1>2, <1>3, <1>4
     DEF Tick, OpenDecision, DecisionFails, CountMessages, OpenDeletion, DeletionFails,
         DeleteMessage, StartExport, WriteMessages, Publish, ExportFails, CreateFile, vars

LEMMA PurgeLocksStep ==
  ASSUME Locks, [Next]_vars
  PROVE  PurgeLocks'
BY HeldRows, PurgeLocksOfPurge, PurgeLocksKept DEF Locks

LEMMA DeletionLocksKept ==
  ASSUME DeletionLocks, del' = del,
         \A m \in Messages : Stored(m)' => Stored(m),
         \A m \in ByDeletion : Stored(m)'
  PROVE  DeletionLocks'
BY DEF DeletionLocks, Owned, ByDeletion

LEMMA ApartKept ==
  ASSUME Apart, live' = live, \A m \in Messages : Stored(m)' => Stored(m),
         ByPurge' \subseteq ByPurge, ByDeletion' \subseteq ByDeletion
  PROVE  Apart'
BY DEF Apart

(* A deletion touches its own mailbox only. *)
LEMMA DeletionLocksOf ==
  ASSUME Locks, NEW b \in Mailboxes, row' = row,
         \A c \in Mailboxes \ {b} : del'[c] = del[c],
         /\ \A m \in del'[b].todo : m[1] = b
         /\ del'[b].deleted \subseteq Owned(b)
         /\ del'[b].pc = "deleting" =>
              Owned(b) \subseteq del'[b].todo \union del'[b].deleted
         /\ del'[b].pc # "deleting" => del'[b].deleted = {}
  PROVE  DeletionLocks'
BY DEF Locks, DeletionLocks, Owned, Stored

LEMMA DeletionLocksStep ==
  ASSUME Locks, [Next]_vars
  PROVE  DeletionLocks'
<1> USE DEF Locks
<1>0. ByDeletion \subseteq Messages /\ \A m \in ByDeletion : Stored(m)
  BY DEF ByDeletion, DeletionLocks, Owned
<1>1. ASSUME NEW m \in Messages, Ingest(m)
      PROVE  DeletionLocks'
  <2>1. \A k \in Messages \ {m} : Stored(k)' = Stored(k)
    BY <1>1 DEF Ingest, Shapes, Stored
  <2>2. ~Stored(m) /\ del' = del /\ del[m[1]].pc # "deleting"
    BY <1>1, NotStored DEF Ingest, Deleting, Stored
  <2>3. ASSUME NEW b \in Mailboxes
        PROVE  /\ Owned(b) \subseteq Owned(b)'
               /\ del[b].pc = "deleting" => Owned(b)' \subseteq Owned(b)
    BY <2>1, <2>2 DEF Owned
  <2>4. QED
    BY <2>2, <2>3 DEF DeletionLocks
<1>2. ASSUME NEW p \in posts, SaveDecision(p)
      PROVE  DeletionLocks'
  <2>1. p.to \in States /\ p.at \in Nat /\ p.msg \in Messages
    BY DEF Shapes, Post, States
  <2>2. \A k \in Messages : Stored(k)' = Stored(k)
    BY <1>2, <2>1, StoredRow DEF SaveDecision, Shapes, Stored
  <2>3. QED
    BY <1>0, <1>2, <2>2, DeletionLocksKept DEF SaveDecision
<1>3. CASE CommitPurge
  <2>1. purge.deleted \intersect ByDeletion = {}
    BY DEF Apart, ByPurge
  <2>2. \A k \in Messages : Stored(k)' <=> Stored(k) /\ k \notin purge.deleted
    BY <1>3, CommitRemoves DEF CommitPurge
  <2>3. QED
    BY <1>0, <1>3, <2>1, <2>2, DeletionLocksKept DEF CommitPurge
<1>4. ASSUME NEW b \in Mailboxes, CommitDeletion(b)
      PROVE  DeletionLocks'
  <2>1. \A k \in Messages : Stored(k)' <=> Stored(k) /\ k \notin del[b].deleted
    BY <1>4, CommitRemoves DEF CommitDeletion
  <2>2. \A c \in Mailboxes \ {b} : del'[c] = del[c] /\ Owned(c)' = Owned(c)
    BY <1>4, <2>1 DEF CommitDeletion, Shapes, DeletionLocks, Owned
  <2>3. del'[b].deleted = {} /\ del'[b].pc = "over"
    BY <1>4 DEF CommitDeletion, Shapes, NoDeletion
  <2>5. del'[b].todo = {}
    BY <1>4 DEF CommitDeletion, Shapes, NoDeletion
  <2>4. QED
    BY <2>2, <2>3, <2>5 DEF DeletionLocks
<1>5. ASSUME NEW b \in Mailboxes, CountMessages(b)
      PROVE  DeletionLocks'
  <2>1. /\ row' = row /\ del'[b].pc = "counted" /\ del[b].pc = "idle"
        /\ del'[b].todo = del[b].todo /\ del'[b].deleted = del[b].deleted
        /\ \A c \in Mailboxes \ {b} : del'[c] = del[c]
    BY <1>5 DEF CountMessages, Shapes, Deletion
  <2>2. QED
    BY <2>1, DeletionLocksOf DEF DeletionLocks
<1>10. ASSUME NEW b \in Mailboxes, DeletionFails(b)
       PROVE  DeletionLocks'
  <2>1. /\ row' = row /\ del'[b] = NoDeletion("over")
        /\ \A c \in Mailboxes \ {b} : del'[c] = del[c]
    BY <1>10 DEF DeletionFails, Shapes
  <2>2. QED
    BY <2>1, DeletionLocksOf DEF NoDeletion
<1>6. ASSUME NEW b \in Mailboxes, OpenDeletion(b)
      PROVE  DeletionLocks'
  <2>1. /\ row' = row /\ del'[b].pc = "deleting" /\ del[b].pc = "counted"
        /\ del'[b].todo = Owned(b) /\ del'[b].deleted = del[b].deleted
        /\ \A c \in Mailboxes \ {b} : del'[c] = del[c]
    BY <1>6 DEF OpenDeletion, Shapes, Deletion
  <2>2. \A m \in Owned(b) : m[1] = b
    BY DEF Owned
  <2>3. QED
    BY <2>1, <2>2, DeletionLocksOf DEF DeletionLocks
<1>7. ASSUME NEW b \in Mailboxes, NEW m \in Messages, DeleteMessage(b, m)
      PROVE  DeletionLocks'
  <2>1. /\ row' = row /\ del[b].pc = "deleting" /\ del'[b].pc = "deleting"
        /\ del'[b].todo = del[b].todo \ {m}
        /\ \A c \in Mailboxes \ {b} : del'[c] = del[c]
    BY <1>7 DEF DeleteMessage, Shapes, Deletion
  <2>2. del'[b].deleted = IF Stored(m) THEN del[b].deleted \union {m} ELSE del[b].deleted
    BY <1>7 DEF DeleteMessage, Shapes, Deletion
  <2>3. m[1] = b
    BY <1>7 DEF DeleteMessage, DeletionLocks
  <2>4. del'[b].deleted \subseteq Owned(b)
    BY <2>2, <2>3 DEF DeletionLocks, Owned
  <2>5. Owned(b) \subseteq del'[b].todo \union del'[b].deleted
    BY <2>1, <2>2 DEF DeletionLocks, Owned
  <2>6. QED
    BY <2>1, <2>4, <2>5, DeletionLocksOf DEF DeletionLocks
<1>8. CASE row' = row /\ del' = del
  BY <1>0, <1>8, DeletionLocksKept DEF Stored
<1>9. QED
  BY NextCases, <1>1, <1>2, <1>3, <1>4, <1>5, <1>6, <1>7, <1>8, <1>10
     DEF Tick, BeginPurge, SelectBatch, NextCategory, DeleteBatch, PurgeFails, LockRow,
         OpenDecision, DecisionFails, StartExport, WriteMessages, Publish, ExportFails,
         CreateFile, vars

LEMMA ApartStep ==
  ASSUME Locks, [Next]_vars
  PROVE  Apart'
<1> USE DEF Locks
<1>1. ASSUME NEW m \in Messages, Ingest(m)
      PROVE  Apart'
  BY <1>1 DEF Ingest, Apart, ByPurge, ByDeletion, Shapes, Stored
<1>2. ASSUME NEW p \in posts, SaveDecision(p)
      PROVE  Apart'
  BY <1>2 DEF SaveDecision, Apart, ByPurge, ByDeletion, Shapes, Stored, Post
<1>3. CASE CommitPurge \/ BeginPurge \/ PurgeFails
  <2>1. ByPurge' = {} /\ live' = live
    BY <1>3 DEF CommitPurge, BeginPurge, PurgeFails, ByPurge, NoPurge
  <2>2. \A m \in Messages : Stored(m)' => Stored(m)
    <3>1. CASE CommitPurge
      BY <3>1, CommitRemoves DEF CommitPurge
    <3>2. CASE row' = row
      BY <3>2 DEF Stored
    <3>3. QED
      BY <1>3, <3>1, <3>2 DEF BeginPurge, PurgeFails
  <2>3. QED
    BY <2>1, <2>2 DEF Apart
<1>4. CASE SelectBatch \/ NextCategory \/ DeleteBatch
  <2>1. CASE SelectBatch
    BY <2>1 DEF SelectBatch, Shapes, Purge, ByPurge, Apart, ByDeletion, Stored
  <2>2. CASE NextCategory
    BY <2>2 DEF NextCategory, Shapes, Purge, ByPurge, Apart, ByDeletion, Stored
  <2>3. CASE DeleteBatch
    BY <2>3 DEF DeleteBatch, Shapes, Purge, ByPurge, Apart, ByDeletion, Stored
  <2>4. QED
    BY <1>4, <2>1, <2>2, <2>3
<1>5. ASSUME NEW m \in Messages, LockRow(m)
      PROVE  Apart'
  <2>1. ByPurge' \subseteq ByPurge \union {m} /\ m \notin ByDeletion
    BY <1>5 DEF LockRow, ByPurge, Shapes, Purge
  <2>2. ByDeletion' = ByDeletion /\ live' = live /\ row' = row
    BY <1>5 DEF LockRow, ByDeletion
  <2>3. QED
    BY <2>1, <2>2 DEF Apart, Stored
<1>6. ASSUME NEW b \in Mailboxes, NEW m \in Messages, DeleteMessage(b, m)
      PROVE  Apart'
  <2>1. /\ \A c \in Mailboxes \ {b} : del'[c] = del[c]
        /\ del'[b].deleted \subseteq del[b].deleted \union {m}
        /\ m \notin ByPurge
    BY <1>6 DEF DeleteMessage, Shapes, Deletion
  <2>2. ByDeletion' \subseteq ByDeletion \union {m}
    BY <2>1 DEF ByDeletion
  <2>3. ByPurge' = ByPurge /\ live' = live /\ row' = row
    BY <1>6 DEF DeleteMessage, ByPurge
  <2>4. QED
    BY <2>1, <2>2, <2>3 DEF Apart, Stored
<1>7. ASSUME NEW b \in Mailboxes, CommitDeletion(b)
      PROVE  Apart'
  <2>1. \A k \in Messages : Stored(k)' <=> Stored(k) /\ k \notin del[b].deleted
    BY <1>7, CommitRemoves DEF CommitDeletion
  <2>2. Owned(b) \subseteq del[b].deleted
    BY <1>7 DEF CommitDeletion, DeletionLocks
  <2>3. \A k \in Messages : Stored(k)' => k[1] \in live \ {b}
    BY <2>1, <2>2 DEF Apart, Owned
  <2>4. ByDeletion' \subseteq ByDeletion
    BY <1>7 DEF CommitDeletion, Shapes, ByDeletion, NoDeletion
  <2>5. ByPurge' = ByPurge /\ live' = live \ {b}
    BY <1>7 DEF CommitDeletion, ByPurge
  <2>6. QED
    BY <2>3, <2>4, <2>5 DEF Apart
<1>8. ASSUME NEW b \in Mailboxes,
             CountMessages(b) \/ OpenDeletion(b) \/ DeletionFails(b)
      PROVE  Apart'
  <2>1. /\ \A c \in Mailboxes \ {b} : del'[c] = del[c]
        /\ del'[b].deleted \subseteq del[b].deleted
    BY <1>8 DEF CountMessages, OpenDeletion, DeletionFails, NoDeletion, Shapes, Deletion
  <2>2. ByDeletion' \subseteq ByDeletion
    BY <2>1 DEF ByDeletion
  <2>3. ByPurge' = ByPurge /\ live' = live /\ row' = row
    BY <1>8 DEF CountMessages, OpenDeletion, DeletionFails, ByPurge
  <2>4. QED
    BY <2>2, <2>3 DEF Apart, Stored
<1>9. CASE UNCHANGED <<row, live, purge, del>>
  BY <1>9 DEF Apart, ByPurge, ByDeletion, Stored
<1>10. QED
  BY NextCases, <1>1, <1>2, <1>3, <1>4, <1>5, <1>6, <1>7, <1>8, <1>9
     DEF Tick, OpenDecision, DecisionFails, StartExport, WriteMessages, Publish,
         ExportFails, CreateFile, vars

LEMMA LocksStep ==
  ASSUME Locks, [Next]_vars
  PROVE  Locks'
BY ShapesStep, PurgeLocksStep, DeletionLocksStep, ApartStep DEF Locks

LEMMA SpecLocks == Spec => []Locks
BY InitLocks, LocksStep, PTL DEF Spec

(* The state always has its shape, no message outlives its mailbox, and no *)
(* row is locked by retention and by a deletion at once.                   *)
THEOREM LifecycleTypes == Spec => []TypeOK
<1>1. Locks => TypeOK
  BY DEF Locks, Apart, TypeOK
<1>2. QED
  BY <1>1, SpecLocks, PTL

-----------------------------------------------------------------------------
(* Retention removes exactly the rows it locked, which had expired.        *)
LEMMA PurgeRemoves ==
  ASSUME Locks, [Next]_vars, purge'.pc = "done", purge.pc # "done"
  PROVE  /\ CommitPurge
         /\ \A m \in Messages : Stored(m) /\ ~Stored(m)' <=> m \in purge.deleted
<1> USE DEF Locks
<1>1. CommitPurge
  <2>1. ~BeginPurge /\ ~PurgeFails
    BY DEF BeginPurge, PurgeFails, NoPurge
  <2>2. ~SelectBatch /\ ~DeleteBatch
    BY DEF SelectBatch, DeleteBatch, Shapes, Purge
  <2>3. ~NextCategory
    BY DEF NextCategory, Shapes, Purge
  <2>4. \A m \in Messages : ~LockRow(m)
    BY DEF LockRow, Shapes, Purge
  <2>5. QED
    BY HeldRows, <2>1, <2>2, <2>3, <2>4
<1>2. \A m \in purge.deleted : m \in Messages /\ Stored(m)
  BY DEF PurgeLocks, ByPurge, Shapes, Purge
<1>3. QED
  BY <1>1, <1>2, CommitRemoves DEF CommitPurge

(* A row that retention removes had outlived, as committed, the age of its *)
(* state.                                                                  *)
THEOREM RetentionRemovesExpired == Spec => OnlyExpiredPurged
<1>1. ASSUME Locks, [Next]_vars
      PROVE  [purge'.pc = "done" /\ purge.pc # "done" =>
                \A m \in Messages :
                   Stored(m) /\ ~Stored(m)' =>
                      row[m].since < purge.now - Keep[row[m].state]]_vars
  BY <1>1, PurgeRemoves DEF Locks, PurgeLocks, ByPurge
<1>2. QED
  BY <1>1, SpecLocks, PTL DEF Spec, OnlyExpiredPurged

-----------------------------------------------------------------------------
(* The counts of retention. *)

Removed(i) == {m \in purge.deleted : row[m].state = Category(i)}
PurgeCounts ==
    /\ purge.pc \in {"select", "lock"} => purge.category \in Categories
    /\ \A i \in Categories : purge.counts[i] = Cardinality(Removed(i))

LEMMA InitCounts == Init => PurgeCounts
BY FS_EmptySet DEF Init, PurgeCounts, NoPurge, Removed, Categories

LEMMA CountsKept ==
  ASSUME PurgeCounts, purge'.counts = purge.counts, purge'.deleted = purge.deleted,
         purge'.pc \in {"select", "lock"} => purge'.category \in Categories,
         \A m \in purge.deleted : row'[m] = row[m]
  PROVE  PurgeCounts'
<1>1. \A i \in Categories : Removed(i)' = Removed(i)
  BY DEF Removed
<1>2. QED
  BY <1>1 DEF PurgeCounts

LEMMA CountsDeleteBatch ==
  ASSUME Locks, PurgeCounts, DeleteBatch
  PROVE  PurgeCounts'
<1> USE DEF Locks
<1>1. /\ purge'.deleted = purge.deleted \union purge.locked
      /\ purge'.counts = Counted /\ row' = row
      /\ purge'.category = purge.category /\ purge.category \in Categories
  BY DEF DeleteBatch, Shapes, Purge, PurgeCounts
<1>2. /\ purge.deleted \in SUBSET Messages /\ purge.locked \in SUBSET Messages
      /\ purge.counts \in [Categories -> Nat]
  BY DEF Shapes, Purge
<1>3. ASSUME NEW i \in Categories
      PROVE  purge'.counts[i] = Cardinality(Removed(i)')
  <2>1. CASE i = purge.category
    <3>1. Removed(i)' = Removed(i) \union purge.locked
      BY <1>1, <2>1 DEF Removed, PurgeLocks
    <3>2. Removed(i) \intersect purge.locked = {}
      BY DEF Removed, PurgeLocks
    <3>3. IsFiniteSet(Removed(i)) /\ IsFiniteSet(purge.locked)
      BY <1>2, CardinalityOfMessages DEF Removed
    <3>4. Cardinality(Removed(i)) \in Nat /\ Cardinality(purge.locked) \in Nat
      BY <3>3, FS_CardinalityType
    <3>5. Cardinality(Removed(i)') = Cardinality(Removed(i)) + Cardinality(purge.locked)
      <4>1. Cardinality(Removed(i) \union purge.locked) =
              Cardinality(Removed(i)) + Cardinality(purge.locked)
                - Cardinality(Removed(i) \intersect purge.locked)
        BY <3>3, FS_Union
      <4>2. Cardinality(Removed(i) \intersect purge.locked) = 0
        BY <3>2, FS_EmptySet
      <4>3. QED
        BY <3>1, <3>4, <4>1, <4>2
    <3>6. purge'.counts[i] = purge.counts[i] + Cardinality(purge.locked)
      BY <1>1, <1>2, <2>1 DEF Counted
    <3>7. QED
      BY <3>5, <3>6 DEF PurgeCounts
  <2>2. CASE i # purge.category
    <3>1. Category(i) # Category(purge.category)
      BY <1>1, <2>2 DEF Category, Categories
    <3>2. Removed(i)' = Removed(i)
      BY <1>1, <3>1 DEF Removed, PurgeLocks
    <3>3. purge'.counts[i] = purge.counts[i]
      BY <1>1, <1>2, <2>2 DEF Counted
    <3>4. QED
      BY <3>2, <3>3 DEF PurgeCounts
  <2>3. QED
    BY <2>1, <2>2
<1>4. QED
  BY <1>1, <1>3 DEF PurgeCounts

LEMMA CountsStep ==
  ASSUME Locks, PurgeCounts, [Next]_vars
  PROVE  PurgeCounts'
<1> USE DEF Locks
<1>1. CASE purge' = purge /\ \A m \in ByPurge : row'[m] = row[m]
  BY <1>1, CountsKept DEF ByPurge, PurgeCounts
<1>2. CASE BeginPurge \/ PurgeFails \/ CommitPurge
  <2>1. /\ purge'.deleted = {} /\ purge'.counts = [i \in Categories |-> 0]
        /\ purge'.category = 1
    BY <1>2 DEF BeginPurge, PurgeFails, CommitPurge, NoPurge
  <2>2. QED
    BY <2>1, FS_EmptySet DEF PurgeCounts, Removed, Categories
<1>3. CASE SelectBatch
  <2>1. /\ purge'.counts = purge.counts /\ purge'.deleted = purge.deleted /\ row' = row
        /\ purge'.category = purge.category /\ purge.pc = "select"
    BY <1>3 DEF SelectBatch, Shapes, Purge
  <2>2. QED
    BY <2>1, CountsKept DEF PurgeCounts
<1>4. CASE NextCategory
  <2>1. /\ purge'.counts = purge.counts /\ purge'.deleted = purge.deleted /\ row' = row
    BY <1>4 DEF NextCategory, Shapes, Purge
  <2>2. purge'.pc \in {"select", "lock"} => purge'.category \in Categories
    <3>1. CASE purge.category < 3
      BY <1>4, <3>1 DEF NextCategory, Shapes, Purge, Categories
    <3>2. CASE ~(purge.category < 3)
      BY <1>4, <3>2 DEF NextCategory, Shapes, Purge
    <3>3. QED
      BY <3>1, <3>2
  <2>3. QED
    BY <2>1, <2>2, CountsKept
<1>5. ASSUME NEW m \in Messages, LockRow(m)
      PROVE  PurgeCounts'
  <2>1. /\ purge'.counts = purge.counts /\ purge'.deleted = purge.deleted /\ row' = row
        /\ purge'.category = purge.category /\ purge.pc = "lock"
    BY <1>5 DEF LockRow, Shapes, Purge
  <2>2. QED
    BY <2>1, CountsKept DEF PurgeCounts
<1>6. QED
  BY HeldRows, CountsDeleteBatch, <1>1, <1>2, <1>3, <1>4, <1>5

(* The counts that retention audits are, by state, those of the rows it    *)
(* removes when it commits.                                                *)
THEOREM RetentionCountsWhatItRemoves == Spec => PurgeIsCounted
<1>1. ASSUME Locks, PurgeCounts, [Next]_vars, purge'.pc = "done", purge.pc # "done"
      PROVE  \A i \in Categories :
                purge.counts[i] =
                  Cardinality({m \in Messages : /\ Stored(m) /\ ~Stored(m)'
                                                /\ row[m].state = Category(i)})
  <2>1. purge.deleted \subseteq Messages
    BY <1>1 DEF Locks, Shapes, Purge
  <2>2. ASSUME NEW i \in Categories
        PROVE  Removed(i) = {m \in Messages : /\ Stored(m) /\ ~Stored(m)'
                                              /\ row[m].state = Category(i)}
    BY <1>1, <2>1, PurgeRemoves DEF Removed
  <2>3. QED
    BY <1>1, <2>2 DEF PurgeCounts
<1>2. Locks /\ PurgeCounts /\ [Next]_vars =>
        [purge'.pc = "done" /\ purge.pc # "done" =>
           \A i \in Categories :
              purge.counts[i] =
                Cardinality({m \in Messages : /\ Stored(m) /\ ~Stored(m)'
                                              /\ row[m].state = Category(i)})]_vars
  BY <1>1
<1>3. QED
  BY <1>2, InitLocks, LocksStep, InitCounts, CountsStep, PTL DEF Spec, PurgeIsCounted

-----------------------------------------------------------------------------
(* The count of a deletion. *)

CountOf(b) ==
    /\ Deleting(b) => /\ del[b].count = Cardinality(lost[b]) + Cardinality(Owned(b))
                      /\ lost[b] \intersect Owned(b) = {}
    /\ ~Deleting(b) => lost[b] = {}
DeletionCounts == \A b \in Mailboxes : CountOf(b)

LEMMA CountKept ==
  ASSUME NEW b \in Mailboxes, CountOf(b), lost'[b] = lost[b],
         Deleting(b)' = Deleting(b), del'[b].count = del[b].count,
         Deleting(b) => Owned(b)' = Owned(b)
  PROVE  CountOf(b)'
BY DEF CountOf

LEMMA CountsCommitPurge ==
  ASSUME Locks, DeletionCounts, CommitPurge, NEW b \in Mailboxes
  PROVE  CountOf(b)'
<1> DEFINE P == {m \in purge.deleted : m[1] = b}
<1> USE DEF Locks
<1>1. Deleting(b)' = Deleting(b) /\ del' = del
  BY DEF CommitPurge, Deleting
<1>2. CASE ~Deleting(b)
  BY <1>1, <1>2 DEF CommitPurge, DeletionCounts, CountOf
<1>3. CASE Deleting(b)
  <2>1. lost'[b] = lost[b] \union P
    BY <1>3 DEF CommitPurge
  <2>2. P \subseteq Owned(b)
    BY DEF PurgeLocks, ByPurge, Owned, Shapes, Purge
  <2>3. Owned(b)' = Owned(b) \ P
    BY CommitRemoves DEF CommitPurge, Owned
  <2>4. lost[b] \in SUBSET Messages /\ Owned(b) \in SUBSET Messages /\ P \in SUBSET Messages
    BY <2>2 DEF Shapes, Owned
  <2> HIDE DEF P
  <2>5. /\ IsFiniteSet(lost[b]) /\ Cardinality(lost[b]) \in Nat
        /\ IsFiniteSet(Owned(b)) /\ Cardinality(Owned(b)) \in Nat
        /\ IsFiniteSet(P) /\ Cardinality(P) \in Nat
    BY <2>4, CardinalityOfMessages
  <2>6. lost[b] \intersect P = {}
    BY <1>3, <2>2 DEF DeletionCounts, CountOf
  <2>7. Cardinality(lost[b] \union P) = Cardinality(lost[b]) + Cardinality(P)
    <3>1. Cardinality(lost[b] \union P) =
            Cardinality(lost[b]) + Cardinality(P) - Cardinality(lost[b] \intersect P)
      BY <2>5, FS_Union
    <3>2. Cardinality(lost[b] \intersect P) = 0
      BY <2>6, FS_EmptySet
    <3>3. QED
      BY <2>5, <3>1, <3>2
  <2>8. Cardinality(Owned(b) \ P) = Cardinality(Owned(b)) - Cardinality(P)
    <3>1. Owned(b) \intersect P = P
      BY <2>2
    <3>2. Cardinality(Owned(b) \ P) =
            Cardinality(Owned(b)) - Cardinality(Owned(b) \intersect P)
      BY <2>5, FS_Difference
    <3>3. QED
      BY <3>1, <3>2
  <2>9. del[b].count = Cardinality(lost[b]) + Cardinality(Owned(b))
        /\ lost[b] \intersect Owned(b) = {}
    BY <1>3 DEF DeletionCounts, CountOf
  <2>10. del'[b].count = Cardinality(lost'[b]) + Cardinality(Owned(b)')
    BY <1>1, <2>1, <2>3, <2>5, <2>7, <2>8, <2>9
  <2>11. lost'[b] \intersect Owned(b)' = {}
    BY <2>1, <2>3, <2>9
  <2>12. QED
    BY <1>1, <1>3, <2>10, <2>11 DEF CountOf
<1>4. QED
  BY <1>2, <1>3

(* The steps of a deletion leave the counts of the others alone. *)
LEMMA CountsDeletion ==
  ASSUME Locks, DeletionCounts, NEW b \in Mailboxes,
         \/ CountMessages(b) \/ OpenDeletion(b) \/ DeletionFails(b) \/ CommitDeletion(b)
         \/ \E m \in Messages : DeleteMessage(b, m)
  PROVE  DeletionCounts'
<1> USE DEF Locks
<1>1. ASSUME NEW c \in Mailboxes \ {b}
      PROVE  CountOf(c)'
  <2>1. del'[c] = del[c] /\ lost'[c] = lost[c]
    BY DEF CountMessages, OpenDeletion, DeletionFails, CommitDeletion, DeleteMessage, Shapes
  <2>2. Owned(c)' = Owned(c)
    <3>1. CASE row' = row
      BY <3>1 DEF Owned, Stored
    <3>2. CASE CommitDeletion(b)
      <4>1. \A k \in Messages : Stored(k)' <=> Stored(k) /\ k \notin del[b].deleted
        BY <3>2, CommitRemoves DEF CommitDeletion
      <4>2. QED
        BY <4>1 DEF DeletionLocks, Owned
    <3>3. QED
      BY <3>1, <3>2 DEF CountMessages, OpenDeletion, DeletionFails, DeleteMessage
  <2>3. QED
    BY <2>1, <2>2, CountKept DEF DeletionCounts, Deleting
<1>2. CASE CountMessages(b)
  <2>1. /\ del'[b].pc = "counted" /\ del'[b].count = Cardinality(Owned(b))
        /\ lost' = lost /\ row' = row /\ del[b].pc = "idle"
    BY <1>2 DEF CountMessages, Shapes, Deletion
  <2>2. lost[b] = {} /\ Owned(b)' = Owned(b)
    BY <2>1 DEF DeletionCounts, CountOf, Deleting, Owned, Stored
  <2>3. Cardinality(Owned(b)) \in Nat /\ Cardinality({}) = 0
    BY CardinalityOfMessages, FS_EmptySet DEF Owned
  <2>4. CountOf(b)'
    BY <2>1, <2>2, <2>3 DEF CountOf, Deleting
  <2>5. QED
    BY <1>1, <2>4 DEF DeletionCounts
<1>3. CASE OpenDeletion(b)
  <2>1. /\ del'[b].pc = "deleting" /\ del'[b].count = del[b].count
        /\ lost' = lost /\ row' = row /\ del[b].pc = "counted"
    BY <1>3 DEF OpenDeletion, Shapes, Deletion
  <2>2. CountOf(b)'
    BY <2>1, CountKept DEF DeletionCounts, Deleting, Owned, Stored
  <2>3. QED
    BY <1>1, <2>2 DEF DeletionCounts
<1>4. CASE DeletionFails(b) \/ CommitDeletion(b)
  <2>1. lost'[b] = {} /\ ~Deleting(b)'
    BY <1>4 DEF DeletionFails, CommitDeletion, NoDeletion, Deleting, Shapes
  <2>2. QED
    BY <1>1, <2>1 DEF DeletionCounts, CountOf
<1>5. ASSUME NEW m \in Messages, DeleteMessage(b, m)
      PROVE  DeletionCounts'
  <2>1. /\ del'[b].pc = "deleting" /\ del'[b].count = del[b].count
        /\ lost' = lost /\ row' = row /\ del[b].pc = "deleting"
    <3>1. del[b] \in Deletion /\ del[b].pc = "deleting" /\ lost' = lost /\ row' = row
      BY <1>5 DEF DeleteMessage, Shapes
    <3>2. del'[b].pc = del[b].pc /\ del'[b].count = del[b].count
      BY <1>5, <3>1 DEF DeleteMessage, Shapes, Deletion
    <3>3. QED
      BY <3>1, <3>2
  <2>2. CountOf(b)'
    BY <2>1, CountKept DEF DeletionCounts, Deleting, Owned, Stored
  <2>3. QED
    BY <1>1, <2>2 DEF DeletionCounts
<1>6. QED
  BY <1>2, <1>3, <1>4, <1>5

LEMMA DeletionCountsStep ==
  ASSUME Locks, DeletionCounts, [Next]_vars
  PROVE  DeletionCounts'
<1> USE DEF Locks
<1>1. ASSUME NEW m \in Messages, Ingest(m)
      PROVE  DeletionCounts'
  <2>1. \A k \in Messages \ {m} : Stored(k)' = Stored(k)
    BY <1>1 DEF Ingest, Shapes, Stored
  <2>2. ~Deleting(m[1]) /\ del' = del /\ lost' = lost
    BY <1>1 DEF Ingest
  <2>3. ASSUME NEW b \in Mailboxes, Deleting(b)
        PROVE  Owned(b)' = Owned(b)
    BY <2>1, <2>2, <2>3 DEF Owned
  <2>4. QED
    BY <2>2, <2>3, CountKept DEF DeletionCounts, Deleting
<1>2. ASSUME NEW p \in posts, SaveDecision(p)
      PROVE  DeletionCounts'
  <2>1. p.to \in States /\ p.at \in Nat /\ p.msg \in Messages
    BY DEF Shapes, Post, States
  <2>2. \A k \in Messages : Stored(k)' = Stored(k)
    BY <1>2, <2>1, StoredRow DEF SaveDecision, Shapes, Stored
  <2>3. del' = del /\ lost' = lost
    BY <1>2 DEF SaveDecision
  <2>4. QED
    BY <2>2, <2>3, CountKept DEF DeletionCounts, Deleting, Owned
<1>3. CASE UNCHANGED <<row, del, lost>>
  <2>1. ASSUME NEW b \in Mailboxes
        PROVE  Deleting(b)' = Deleting(b) /\ Owned(b)' = Owned(b)
    BY <1>3 DEF Deleting, Owned, Stored
  <2>2. QED
    BY <1>3, <2>1, CountKept DEF DeletionCounts
<1>4. QED
  <2>1. CASE CommitPurge
    BY <2>1, CountsCommitPurge DEF DeletionCounts
  <2>2. ASSUME NEW b \in Mailboxes,
               \/ CountMessages(b) \/ OpenDeletion(b) \/ DeletionFails(b)
               \/ CommitDeletion(b) \/ \E m \in Messages : DeleteMessage(b, m)
        PROVE  DeletionCounts'
    BY <2>2, CountsDeletion
  <2>3. QED
    BY NextCases, <2>1, <2>2, <1>1, <1>2, <1>3
     DEF DeletionCounts, Tick, BeginPurge, SelectBatch, NextCategory, DeleteBatch,
         PurgeFails, LockRow, OpenDecision, DecisionFails, StartExport, WriteMessages,
         Publish, ExportFails, CreateFile, vars

(* The count a deletion audits is what it removed plus what retention      *)
(* removed after it counted.                                               *)
THEOREM DeletionCountsWhatItRemoves == Spec => DeletionIsCounted
<1>1. Init => DeletionCounts
  BY DEF Init, DeletionCounts, CountOf, Deleting, NoDeletion
<1>2. ASSUME Locks, DeletionCounts, [Next]_vars, NEW b \in live \ live'
      PROVE  del[b].count = Cardinality(lost[b]) +
               Cardinality({m \in Messages : Stored(m) /\ ~Stored(m)'})
  <2>1. PICK c \in Mailboxes : CommitDeletion(c)
    <3>1. live' # live
      BY <1>2
    <3>2. Next
      BY <1>2, <3>1 DEF vars
    <3>3. QED
      BY <3>1, <3>2, NextCases
         DEF Tick, BeginPurge, SelectBatch, NextCategory, DeleteBatch, CommitPurge,
             PurgeFails, LockRow, Ingest, OpenDecision, SaveDecision, DecisionFails,
             CountMessages, OpenDeletion, DeletionFails, DeleteMessage, StartExport,
             WriteMessages, Publish, ExportFails, CreateFile
  <2>2. b \in Mailboxes /\ b = c
    BY <1>2, <2>1 DEF CommitDeletion, Locks, Shapes
  <2>3. Owned(b) = del[b].deleted /\ Deleting(b)
    <3>1. del[b].pc = "deleting" /\ del[b].todo = {}
      BY <2>1, <2>2 DEF CommitDeletion
    <3>2. /\ del[b].deleted \subseteq Owned(b)
          /\ Owned(b) \subseteq del[b].todo \union del[b].deleted
      BY <1>2, <2>2, <3>1 DEF Locks, DeletionLocks
    <3>3. QED
      BY <3>1, <3>2 DEF Deleting
  <2>4. \A m \in Messages : Stored(m)' <=> Stored(m) /\ m \notin del[b].deleted
    BY <2>1, <2>2, CommitRemoves DEF CommitDeletion
  <2>5. {m \in Messages : Stored(m) /\ ~Stored(m)'} = Owned(b)
    BY <2>3, <2>4 DEF Owned
  <2>6. QED
    BY <1>2, <2>2, <2>3, <2>5 DEF DeletionCounts, CountOf
<1>3. Locks /\ DeletionCounts /\ [Next]_vars =>
        [\A b \in live \ live' :
           del[b].count = Cardinality(lost[b]) +
             Cardinality({m \in Messages : Stored(m) /\ ~Stored(m)'})]_vars
  BY <1>2
<1>4. QED
  BY <1>1, <1>3, InitLocks, LocksStep, DeletionCountsStep, PTL DEF Spec, DeletionIsCounted

-----------------------------------------------------------------------------
(* The export. *)

Closed(d) == /\ d.attachments = d.msgs
             /\ \A m \in d.msgs : m[1] \in d.boxes
ExportInv ==
    \A e \in Exports :
        /\ export[e].pc \in {"messages", "attachments"} =>
              /\ Closed(export[e].snapshot)
              /\ export[e].out.boxes = export[e].snapshot.boxes
        /\ export[e].pc = "attachments" =>
              export[e].out.msgs = export[e].snapshot.msgs
        /\ export[e].pc = "published" => Closed(export[e].out)

LEMMA ExportOf ==
  ASSUME ExportInv, NEW e \in Exports, \A d \in Exports \ {e} : export'[d] = export[d],
         /\ export'[e].pc \in {"messages", "attachments"} =>
              /\ Closed(export'[e].snapshot)
              /\ export'[e].out.boxes = export'[e].snapshot.boxes
         /\ export'[e].pc = "attachments" =>
              export'[e].out.msgs = export'[e].snapshot.msgs
         /\ export'[e].pc = "published" => Closed(export'[e].out)
  PROVE  ExportInv'
BY DEF ExportInv, Closed

LEMMA ExportStep ==
  ASSUME Locks, ExportInv, [Next]_vars
  PROVE  ExportInv'
<1> USE DEF Locks
<1>1. ASSUME NEW e \in Exports, StartExport(e)
      PROVE  ExportInv'
  <2>1. Closed(Committed)
    BY DEF Closed, Committed, Apart
  <2>2. \A d \in Exports \ {e} : export'[d] = export[d]
    BY <1>1 DEF StartExport, Shapes
  <2>3. CASE file = Nobody
    <3>1. export'[e] = [pc |-> "messages", snapshot |-> Committed,
                        out |-> [NoDocument EXCEPT !.boxes = live]]
      BY <1>1, <2>3 DEF StartExport, Shapes
    <3>2. QED
      <4>1. /\ export'[e].pc = "messages" /\ export'[e].snapshot = Committed
            /\ export'[e].out.boxes = live
        BY <3>1 DEF NoDocument
      <4>2. Committed.boxes = live
        BY DEF Committed
      <4>3. QED
        BY <2>1, <2>2, <4>1, <4>2, ExportOf
  <2>4. CASE file # Nobody
    <3>1. export'[e] = NoExport("idle")
      BY <1>1, <2>4 DEF StartExport, Shapes
    <3>2. QED
      BY <2>2, <3>1, ExportOf DEF NoExport
  <2>5. QED
    BY <2>3, <2>4
<1>2. ASSUME NEW e \in Exports, WriteMessages(e)
      PROVE  ExportInv'
  <2>1. /\ \A d \in Exports \ {e} : export'[d] = export[d]
        /\ export'[e] = [export[e] EXCEPT !.pc = "attachments",
                           !.out = [@ EXCEPT !.msgs = export[e].snapshot.msgs]]
    BY <1>2 DEF WriteMessages, Source, Shapes
  <2>2. export[e] \in Export /\ export[e].pc = "messages"
    BY <1>2 DEF WriteMessages, Shapes
  <2>3. /\ export'[e].pc = "attachments" /\ export'[e].snapshot = export[e].snapshot
        /\ export'[e].out.boxes = export[e].out.boxes
        /\ export'[e].out.msgs = export[e].snapshot.msgs
    BY <2>1, <2>2 DEF Export, Document
  <2>4. QED
    BY <2>1, <2>2, <2>3, ExportOf DEF ExportInv
<1>3. ASSUME NEW e \in Exports, Publish(e)
      PROVE  ExportInv'
  <2>1. export[e] \in Export /\ export[e].pc = "attachments"
    BY <1>3 DEF Publish, Shapes
  <2>2. CASE file = Nobody
    <3>1. export' = [export EXCEPT ![e] = Complete(e)]
      BY <1>3, <2>2 DEF Publish
    <3>2. /\ Complete(e).pc = "published"
          /\ Complete(e).out.attachments = export[e].snapshot.attachments
          /\ Complete(e).out.msgs = export[e].out.msgs
          /\ Complete(e).out.boxes = export[e].out.boxes
      BY <2>1 DEF Complete, Source, Export, Document
    <3>3. Closed(Complete(e).out)
      BY <2>1, <3>2 DEF ExportInv, Closed
    <3>4. QED
      BY <3>1, <3>2, <3>3, ExportOf DEF Shapes
  <2>3. CASE file # Nobody
    <3>1. export' = [export EXCEPT ![e] = NoExport("idle")]
      BY <1>3, <2>3 DEF Publish
    <3>2. QED
      BY <3>1, ExportOf DEF NoExport, Shapes
  <2>4. QED
    BY <2>2, <2>3
<1>4. ASSUME NEW e \in Exports, ExportFails(e)
      PROVE  ExportInv'
  BY <1>4, ExportOf DEF ExportFails, NoExport, Shapes
<1>5. CASE export' = export
  BY <1>5 DEF ExportInv, Closed
<1>6. QED
  BY NextCases, <1>1, <1>2, <1>3, <1>4, <1>5
     DEF Tick, BeginPurge, SelectBatch, NextCategory, DeleteBatch, CommitPurge,
         PurgeFails, LockRow, Ingest, OpenDecision, SaveDecision, DecisionFails,
         CountMessages, OpenDeletion, CommitDeletion, DeletionFails, DeleteMessage,
         CreateFile, vars

(* A published export is closed under its references. *)
THEOREM ExportsAreClosed == Spec => []ExportIsClosed
<1>1. Init => ExportInv
  BY DEF Init, ExportInv, NoExport
<1>2. ExportInv => ExportIsClosed
  BY DEF ExportInv, ExportIsClosed, Closed
<1>3. QED
  BY <1>1, <1>2, InitLocks, LocksStep, ExportStep, PTL DEF Spec

-----------------------------------------------------------------------------
(* Retention, deletion and the decisions implement Gate.                   *)

(* A request is about a row that was stored once: its key cannot be        *)
(* inserted again.                                                         *)
Opened == \A p \in posts : row[p.msg] # Absent

LEMMA OpenedStep ==
  ASSUME Locks, Opened, [Next]_vars
  PROVE  Opened'
<1> USE DEF Locks
<1>0. \A p \in posts : p.msg \in Messages
  BY DEF Shapes, Post
<1>1. ASSUME NEW m \in Messages, Ingest(m)
      PROVE  Opened'
  BY <1>0, <1>1 DEF Ingest, Opened, Shapes
<1>2. ASSUME NEW m \in Messages, NEW to \in Decisions, OpenDecision(m, to)
      PROVE  Opened'
  BY <1>2, NotStored DEF OpenDecision, Opened, Stored
<1>3. ASSUME NEW p \in posts, SaveDecision(p)
      PROVE  Opened'
  <2>1. [state |-> p.to, since |-> p.at] # Absent
    BY NotStored DEF Shapes, Post, States, Absent
  <2>2. QED
    BY <1>0, <1>3, <2>1 DEF SaveDecision, Opened, Shapes
<1>4. ASSUME NEW p \in posts, DecisionFails(p)
      PROVE  Opened'
  BY <1>4 DEF DecisionFails, Opened
<1>5. ASSUME NEW S, posts' = posts,
             row' = [m \in Messages |-> IF m \in S THEN Gone ELSE row[m]]
      PROVE  Opened'
  BY <1>0, <1>5, NotStored DEF Opened
<1>6. CASE row' = row /\ posts' = posts
  BY <1>6 DEF Opened
<1>7. QED
  BY NextCases, <1>1, <1>2, <1>3, <1>4, <1>5, <1>6
     DEF Tick, BeginPurge, SelectBatch, NextCategory, DeleteBatch, CommitPurge,
         PurgeFails, LockRow, CountMessages, OpenDeletion, CommitDeletion,
         DeletionFails, DeleteMessage, StartExport, WriteMessages, Publish,
         ExportFails, CreateFile, vars

State == [m \in Messages |-> IF Stored(m) THEN row[m].state ELSE "absent"]
Asked == {<<p.msg, p.to>> : p \in {q \in posts : Stored(q.msg)}}

LEMMA GateStored ==
  ASSUME NEW m \in Messages
  PROVE  Stored(m) <=> State[m] # "absent"
BY DEF State, Stored, States, Decisions

LEMMA AskedMember ==
  ASSUME NEW a
  PROVE  a \in Asked <=> \E p \in posts : Stored(p.msg) /\ a = <<p.msg, p.to>>
BY DEF Asked

LEMMA GateStutter ==
  ASSUME row' = row, {q \in posts' : Stored(q.msg)} = {q \in posts : Stored(q.msg)}
  PROVE  UNCHANGED GateView!vars
<1>1. State' = State /\ Asked' = Asked
  BY DEF State, Asked, Stored
<1>2. QED
  BY <1>1 DEF GateView!vars, State, Asked

LEMMA IngestIsGateIngest ==
  ASSUME Locks, Opened, NEW m \in Messages, Ingest(m)
  PROVE  GateView!Next
<1> USE DEF Locks
<1>1. /\ ~Stored(m) /\ Stored(m)' /\ row'[m].state = "quarantined"
      /\ \A k \in Messages \ {m} : row'[k] = row[k]
  BY NotStored DEF Ingest, Shapes, Stored, States
<1>2. State' = [State EXCEPT ![m] = "quarantined"]
  BY <1>1 DEF State, Stored
<1>3. \A p \in posts : p.msg \in Messages \ {m}
  BY DEF Ingest, Opened, Shapes, Post
<1>4. Asked' = Asked
  <2>1. posts' = posts
    BY DEF Ingest
  <2>2. \A p \in posts : Stored(p.msg)' <=> Stored(p.msg)
    BY <1>1, <1>3 DEF Stored
  <2>3. QED
    BY <2>1, <2>2 DEF Asked
<1>5. GateView!Ingest(m)
  BY <1>1, <1>2, <1>4, GateStored DEF GateView!Ingest, GateView!Stored, State, Asked
<1>6. QED
  BY <1>5 DEF GateView!Next

LEMMA OpenIsGateAsk ==
  ASSUME NEW m \in Messages, NEW d \in Decisions, OpenDecision(m, d)
  PROVE  GateView!Next
<1> DEFINE q == [msg |-> m, to |-> d, at |-> now]
<1>1. /\ posts' = posts \union {q} /\ Stored(m) /\ row' = row
      /\ <<q.msg, q.to>> = <<m, d>> /\ q.msg = m
  BY DEF OpenDecision
<1> HIDE DEF q
<1>2. Asked' = Asked \union {<<m, d>>} /\ State' = State
  BY <1>1 DEF Asked, State, Stored
<1>3. GateView!Ask(m, d)
  BY <1>1, <1>2, GateStored DEF GateView!Ask, GateView!Stored, Asked, State
<1>4. QED
  BY <1>3 DEF GateView!Next, Decisions, GateView!Decisions

LEMMA SaveIsGateDecide ==
  ASSUME Locks, NEW p \in posts, SaveDecision(p)
  PROVE  GateView!Next
<1> USE DEF Locks
<1>1. /\ p.msg \in Messages /\ p.to \in Decisions /\ p.at \in Nat
      /\ \A q \in posts : q.msg \in Messages
      /\ Stored(p.msg) /\ posts' = posts \ {p}
  BY DEF SaveDecision, Shapes, Post
<1>2. \A m \in Messages : Stored(m)' <=> Stored(m)
  BY <1>1 DEF SaveDecision, Shapes, Stored, States
<1>3. State' = [State EXCEPT ![p.msg] = p.to]
  <2>1. /\ row'[p.msg].state = p.to
        /\ \A k \in Messages \ {p.msg} : row'[k] = row[k]
    BY <1>1 DEF SaveDecision, Shapes
  <2>2. QED
    BY <1>1, <1>2, <2>1 DEF State
<1>4. Asked' \subseteq Asked /\ Asked \ {<<p.msg, p.to>>} \subseteq Asked'
  <2>1. ASSUME NEW a
        PROVE  a \in Asked' <=> \E q \in posts' : Stored(q.msg)' /\ a = <<q.msg, q.to>>
    BY DEF Asked
  <2>2. QED
    BY <1>1, <1>2, <2>1, AskedMember
<1>5. <<p.msg, p.to>> \in Asked
  BY <1>1, AskedMember
<1>6. Asked' \in {Asked, Asked \ {<<p.msg, p.to>>}}
  BY <1>4
<1>7. GateView!Decide(p.msg, p.to)
  BY <1>1, <1>3, <1>5, <1>6, GateStored
     DEF GateView!Decide, GateView!Stored, State, Asked
<1>8. QED
  BY <1>1, <1>7 DEF GateView!Next, Decisions, GateView!Decisions

LEMMA CommitIsGateRemove ==
  ASSUME Locks, NEW S \in SUBSET Messages, \A m \in S : Stored(m), posts' = posts,
         row' = [m \in Messages |-> IF m \in S THEN Gone ELSE row[m]]
  PROVE  GateView!Next
<1> USE DEF Locks
<1>1. \A p \in posts : p.msg \in Messages
  BY DEF Shapes, Post
<1>2. \A m \in Messages : Stored(m)' <=> Stored(m) /\ m \notin S
  BY CommitRemoves
<1>3. State' = [m \in Messages |-> IF m \in S THEN "absent" ELSE State[m]]
  BY <1>2 DEF State
<1>4. Asked' = {a \in Asked : a[1] \notin S}
  <2>1. ASSUME NEW a
        PROVE  a \in Asked' <=> \E p \in posts : Stored(p.msg)' /\ a = <<p.msg, p.to>>
    BY DEF Asked
  <2>2. ASSUME NEW a
        PROVE  a \in Asked' <=> a \in Asked /\ a[1] \notin S
    BY <1>1, <1>2, <2>1, AskedMember
  <2>3. QED
    BY <2>2
<1>5. GateView!Remove(S)
  BY <1>3, <1>4, GateStored DEF GateView!Remove, GateView!Stored, State, Asked
<1>6. QED
  BY <1>5 DEF GateView!Next

LEMMA GateStep ==
  ASSUME Locks, Opened, [Next]_vars
  PROVE  [GateView!Next]_(GateView!vars)
<1> USE DEF Locks
<1>1. CASE \E m \in Messages : Ingest(m)
  BY <1>1, IngestIsGateIngest
<1>2. CASE \E m \in Messages, to \in Decisions : OpenDecision(m, to)
  BY <1>2, OpenIsGateAsk
<1>3. CASE \E p \in posts : SaveDecision(p)
  BY <1>3, SaveIsGateDecide
<1>4. ASSUME NEW p \in posts, DecisionFails(p)
      PROVE  UNCHANGED GateView!vars
  <2>1. /\ row' = row /\ posts' = posts \ {p} /\ ~Stored(p.msg)
    BY <1>4 DEF DecisionFails
  <2>2. {q \in posts' : Stored(q.msg)} = {q \in posts : Stored(q.msg)}
    BY <2>1
  <2>3. QED
    BY <2>1, <2>2, GateStutter
<1>5. CASE CommitPurge
  <2>1. purge.deleted \in SUBSET Messages /\ \A m \in purge.deleted : Stored(m)
    BY DEF PurgeLocks, ByPurge, Shapes, Purge
  <2>2. QED
    BY <1>5, <2>1, CommitIsGateRemove DEF CommitPurge
<1>6. ASSUME NEW b \in Mailboxes, CommitDeletion(b)
      PROVE  GateView!Next
  <2>1. del[b].deleted \in SUBSET Messages /\ \A m \in del[b].deleted : Stored(m)
    BY DEF DeletionLocks, Owned
  <2>2. QED
    BY <1>6, <2>1, CommitIsGateRemove DEF CommitDeletion
<1>7. CASE row' = row /\ posts' = posts
  BY <1>7, GateStutter
<1>8. QED
  BY NextCases, <1>1, <1>2, <1>3, <1>4, <1>5, <1>6, <1>7
     DEF Tick, BeginPurge, SelectBatch, NextCategory, DeleteBatch, PurgeFails, LockRow,
         CountMessages, OpenDeletion, DeletionFails, DeleteMessage, StartExport,
         WriteMessages, Publish, ExportFails, CreateFile, vars

(* However the statements of retention and deletion meet the decisions and *)
(* each other, a row is quarantined first and changes only as the owner    *)
(* asked while that very row was stored; requests about removed rows come  *)
(* to nothing.                                                             *)
THEOREM LifecycleImplementsGate == Spec => ImplementsGate
<1>1. Init => Opened
  BY DEF Init, Opened
<1>2. Init => GateView!Init
  <2> SUFFICES ASSUME Init PROVE GateView!Init
    OBVIOUS
  <2>1. \A m \in Messages : ~Stored(m)
    BY NotStored DEF Init, Stored
  <2>2. State = [m \in Messages |-> "absent"] /\ Asked = {}
    BY <2>1 DEF Init, State, Asked
  <2>3. QED
    BY <2>2 DEF GateView!Init, State, Asked
<1>3. QED
  BY <1>1, <1>2, InitLocks, LocksStep, OpenedStep, GateStep, PTL
     DEF Spec, GateView!Spec, ImplementsGate

=============================================================================
