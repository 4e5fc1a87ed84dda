---------------------------- MODULE KeyringProofs ----------------------------
(* Theorems about Keyring, for any number of keys, mailboxes, processes,   *)
(* jobs and runs of the tool, and any MaximumKeys.                         *)
EXTENDS Keyring, TLAPS

(* Whatever can still be written is readable with the file: the primary    *)
(* keys of the file and of every process; and a run that is about to       *)
(* replace the file keeps all of its keys.                                 *)
Usable(r) == r.primary \in Readable(ring)

SourcesInv ==
    /\ Usable(ring)
    /\ \A w \in Webs : web[w].up => Usable(web[w].ring)
    /\ \A j \in Jobs : job[j].up => Usable(job[j].ring)

DocumentInv ==
    \A t \in Tools : tool[t].pc = "prepared" =>
        /\ ring.keys \subseteq tool[t].doc.keys
        /\ tool[t].doc.primary \in tool[t].doc.keys

Inv == TypeOK /\ CredentialsReadable /\ SourcesInv /\ DocumentInv

LEMMA InitInv == Init => Inv
BY DEF Init, Inv, TypeOK, CredentialsReadable, SourcesInv, DocumentInv, Usable,
       Readable, Holding, Ring, NoFile, Tool, NoRun, Process, Down

(* Only the runs of the tool and Retire change the file.                   *)
LEMMA SameFile ==
  ASSUME Inv, UNCHANGED <<ring, web, job, cred>>
  PROVE  CredentialsReadable' /\ SourcesInv'
BY DEF Inv, CredentialsReadable, SourcesInv, Usable, Readable

(* A file with more keys, and a primary among them, leaves all readable.   *)
LEMMA GrownFile ==
  ASSUME Inv, UNCHANGED <<web, job, cred>>,
         ring.keys \subseteq ring'.keys, ring'.primary \in ring'.keys
  PROVE  CredentialsReadable' /\ SourcesInv'
BY DEF Inv, CredentialsReadable, SourcesInv, Usable, Readable

LEMMA PreparedTool ==
  ASSUME NEW run \in Tool, NEW d \in Ring
  PROVE  [run EXCEPT !.pc = "prepared", !.doc = d] \in Tool
BY DEF Tool

LEMMA PrepareStep ==
  ASSUME Inv, NEW t \in Tools, Prepare(t)
  PROVE  Inv'
<1> DEFINE k == tool[t].target
<1> USE DEF Inv, TypeOK, Holding
<1>1. PICK d \in Documents(t) :
        tool' = [tool EXCEPT ![t].pc = "prepared",
                     ![t].doc = [primary |-> k, keys |-> d.keys \union {k}]]
  BY DEF Prepare
<1>2. d \in Ring /\ ring.keys \subseteq d.keys
  <2>1. CASE ring = NoFile
    <3>1. ring.keys = {}
      BY <2>1 DEF NoFile
    <3>2. d \in Converted
      BY <1>1, <2>1 DEF Documents
    <3>3. QED
      BY <3>1, <3>2 DEF Converted, Ring
  <2>2. CASE ring # NoFile
    BY <1>1, <2>2 DEF Documents
  <2>3. QED
    BY <2>1, <2>2
<1>3. k \in Keys /\ [primary |-> k, keys |-> d.keys \union {k}] \in Ring
  <2>1. tool[t].pc # "idle"
    BY DEF Prepare
  <2>2. k \in Keys
    BY <2>1
  <2>3. QED
    BY <1>2, <2>2 DEF Ring
<1>4. UNCHANGED <<ring, lock, web, job, cred>> /\ tool[t].pc = "locked"
  BY DEF Prepare
<1>5. TypeOK'
  <2> DEFINE after == [tool[t] EXCEPT !.pc = "prepared",
                         !.doc = [primary |-> k, keys |-> d.keys \union {k}]]
  <2>1. after \in Tool
    BY <1>3, PreparedTool
  <2>2. tool' = [tool EXCEPT ![t] = after]
    BY <1>1
  <2>3. tool' \in [Tools -> Tool]
    <3> HIDE DEF after
    <3>1. QED
      BY <2>1, <2>2
  <2>4. \A u \in Tools : Holding(u)' => Holding(u) /\ tool'[u].target = tool[u].target
    BY <1>1, <1>4 DEF Tool
  <2>5. QED
    BY <1>4, <2>3, <2>4
<1>6. DocumentInv'
  BY <1>1, <1>2, <1>3, <1>4 DEF DocumentInv, Tool, Ring
<1>7. QED
  BY <1>4, <1>5, <1>6, SameFile

(* Replacing the file, whatever is reported afterwards.                    *)
LEMMA WriteStep ==
  ASSUME Inv, NEW t \in Tools, Write(t) \/ WriteFails(t)
  PROVE  Inv'
<1> USE DEF Inv, TypeOK, Holding
<1>1. /\ tool[t].pc = "prepared" /\ tool[t].doc \in Ring /\ lock = t
      /\ UNCHANGED <<web, job, cred>>
      /\ ring' \in {ring, tool[t].doc}
      /\ \/ tool' = [tool EXCEPT ![t] = [tool[t] EXCEPT !.pc = "written"]]
         \/ tool' = [tool EXCEPT ![t] = NoRun]
  BY DEF Write, WriteFails, Leave, Ends, ToolAt, Tool
<1>2. TypeOK'
  <2>1. NoRun \in Tool /\ [tool[t] EXCEPT !.pc = "written"] \in Tool
    BY DEF NoRun, NoFile, Ring, Tool
  <2>2. tool' \in [Tools -> Tool]
    BY <1>1, <2>1
  <2>3. \A u \in Tools : Holding(u)' => Holding(u) /\ tool'[u].target = tool[u].target
                                          /\ (u = t => tool' # [tool EXCEPT ![t] = NoRun])
    BY <1>1 DEF NoRun, Tool
  <2>4. lock' \in Tools \union {Nobody}
        /\ (tool' # [tool EXCEPT ![t] = NoRun] => lock' = lock)
    BY DEF Write, WriteFails, Leave, Ends
  <2>5. \A u \in Tools : Holding(u)' => lock' = u
    BY <1>1, <2>3, <2>4, KeyringConstants
  <2>6. QED
    BY <1>1, <2>2, <2>3, <2>4, <2>5
<1>3. CredentialsReadable' /\ SourcesInv'
  <2>1. CASE ring' = ring
    BY <1>1, <2>1, SameFile
  <2>2. CASE ring' = tool[t].doc
    BY <1>1, <2>2, GrownFile DEF DocumentInv
  <2>3. QED
    BY <1>1, <2>1, <2>2
<1>4. DocumentInv'
  <2>1. ASSUME NEW u \in Tools, tool'[u].pc = "prepared"
        PROVE  FALSE
    BY <1>1, <2>1, KeyringConstants DEF NoRun, Tool
  <2>2. QED
    BY <2>1 DEF DocumentInv
<1>5. QED
  BY <1>2, <1>3, <1>4

(* The other steps of the tool leave the file alone.                       *)
LEMMA ToolStep ==
  ASSUME Inv, NEW t \in Tools,
         Acquire(t) \/ Refuse(t) \/ Verify(t) \/ Kill(t)
  PROVE  Inv'
<1> USE DEF Inv, TypeOK, Holding
<1>1. UNCHANGED <<ring, web, job, cred>>
  BY DEF Acquire, Refuse, Verify, Kill
<1>2. CASE Acquire(t)
  <2>1. PICK k \in Keys, a \in BOOLEAN :
          tool' = [tool EXCEPT ![t] =
                     [pc |-> "locked", target |-> k, activate |-> a, doc |-> NoFile]]
    BY <1>2 DEF Acquire
  <2> DEFINE run == [pc |-> "locked", target |-> k, activate |-> a, doc |-> NoFile]
  <2>2. run \in Tool /\ run.pc = "locked" /\ run.target \in Keys
    BY DEF NoFile, Ring, Tool
  <2> HIDE DEF run
  <2>3. /\ tool' = [tool EXCEPT ![t] = run] /\ lock' = t
        /\ \A u \in Tools : ~Holding(u)
    BY <1>2, <2>1, KeyringConstants DEF Acquire, run
  <2>4. TypeOK'
    BY <1>1, <2>2, <2>3
  <2>5. DocumentInv'
    BY <2>2, <2>3 DEF DocumentInv
  <2>6. QED
    BY <1>1, <2>4, <2>5, SameFile
<1>3. CASE ~Acquire(t)
  <2>1. tool' = [tool EXCEPT ![t] = NoRun] /\ Holding(t) /\ lock' \in {lock, Nobody}
    BY <1>3 DEF Refuse, Verify, Kill, Leave, Ends
  <2>2. NoRun \in Tool /\ NoRun.pc = "idle"
    BY DEF NoRun, NoFile, Ring, Tool
  <2>3. \A u \in Tools : ~Holding(u)'
    BY <2>1, <2>2, KeyringConstants
  <2>4. TypeOK'
    BY <1>1, <2>1, <2>2, <2>3
  <2>5. DocumentInv'
    BY <2>3 DEF DocumentInv
  <2>6. QED
    BY <1>1, <2>4, <2>5, SameFile
<1>4. QED
  BY <1>2, <1>3

(* Processes load the file and write with its primary key.                 *)
LEMMA WebStep ==
  ASSUME Inv, NEW w \in Webs, StartWeb(w) \/ StopWeb(w)
  PROVE  Inv'
<1> USE DEF Inv, TypeOK, Holding
<1>1. UNCHANGED <<ring, lock, tool, job, cred>>
  BY DEF StartWeb, StopWeb
<1>2. /\ web' \in [Webs -> Process]
      /\ \A v \in Webs : web'[v].up => web'[v].ring \in {ring, web[v].ring}
                                     /\ (web'[v].ring # ring => web[v].up)
  <2>1. CASE StartWeb(w)
    <3>1. [up |-> TRUE, ring |-> ring] \in Process
      BY DEF Process
    <3>2. QED
      BY <2>1, <3>1 DEF StartWeb
  <2>2. CASE StopWeb(w)
    <3>1. Down \in Process /\ ~Down.up
      BY DEF Down, Process, NoFile, Ring
    <3>2. QED
      BY <2>2, <3>1 DEF StopWeb
  <2>3. QED
    BY <2>1, <2>2
<1>3. TypeOK'
  BY <1>1, <1>2
<1>4. CredentialsReadable' /\ SourcesInv'
  BY <1>1, <1>2 DEF CredentialsReadable, SourcesInv, Usable, Readable
<1>5. QED
  BY <1>1, <1>3, <1>4 DEF DocumentInv

LEMMA SaveStep ==
  ASSUME Inv, NEW w \in Webs, NEW m \in Mailboxes, SavePassword(w, m)
  PROVE  Inv'
<1> USE DEF Inv, TypeOK, Holding
<1>1. UNCHANGED <<ring, lock, tool, web, job>>
  BY DEF SavePassword
<1>2. web[w].ring.primary \in Keys \union {Untagged} /\ Usable(web[w].ring)
  BY DEF SavePassword, Process, Ring, SourcesInv
<1>3. TypeOK'
  BY <1>1, <1>2 DEF SavePassword
<1>4. CredentialsReadable' /\ SourcesInv'
  BY <1>1, <1>2 DEF SavePassword, CredentialsReadable, SourcesInv, Usable, Readable
<1>5. QED
  BY <1>1, <1>3, <1>4 DEF DocumentInv

LEMMA JobStep ==
  ASSUME Inv, NEW j \in Jobs, StartJob(j) \/ RunJob(j)
  PROVE  Inv'
<1> USE DEF Inv, TypeOK, Holding
<1>1. UNCHANGED <<ring, lock, tool, web>>
  BY DEF StartJob, RunJob
<1>2. CASE StartJob(j)
  <2>1. [up |-> TRUE, ring |-> ring] \in Process
    BY DEF Process
  <2>2. TypeOK'
    BY <1>1, <1>2, <2>1 DEF StartJob
  <2>3. CredentialsReadable' /\ SourcesInv'
    BY <1>1, <1>2 DEF StartJob, CredentialsReadable, SourcesInv, Usable, Readable
  <2>4. QED
    BY <1>1, <2>2, <2>3 DEF DocumentInv
<1>3. CASE RunJob(j)
  <2>1. /\ job[j].ring.primary \in Keys \union {Untagged}
        /\ Usable(job[j].ring)
    BY <1>3 DEF RunJob, Process, Ring, SourcesInv
  <2>2. job' \in [Jobs -> Process] /\ \A i \in Jobs : job'[i].up => job'[i] = job[i]
    <3>1. Down \in Process /\ ~Down.up
      BY DEF Down, Process, NoFile, Ring
    <3>2. QED
      BY <1>3, <3>1 DEF RunJob
  <2>3. TypeOK'
    BY <1>1, <1>3, <2>1, <2>2 DEF RunJob
  <2>4. CredentialsReadable' /\ SourcesInv'
    BY <1>1, <1>3, <2>1, <2>2
       DEF RunJob, CredentialsReadable, SourcesInv, Usable, Readable
  <2>5. QED
    BY <1>1, <2>3, <2>4 DEF DocumentInv
<1>4. QED
  BY <1>2, <1>3

LEMMA OperatorStep ==
  ASSUME Inv, RemoveStaleLock \/ \E k \in Keys : Retire(k)
  PROVE  Inv'
<1> USE DEF Inv, TypeOK, Holding
<1>1. CASE RemoveStaleLock
  BY <1>1, SameFile DEF RemoveStaleLock, DocumentInv
<1>2. ASSUME NEW k \in Keys, Retire(k)
      PROVE  Inv'
  <2>1. TypeOK'
    BY <1>2 DEF Retire, Ring
  <2>2. CredentialsReadable' /\ SourcesInv'
    BY <1>2 DEF Retire, Ring, CredentialsReadable, SourcesInv, Usable, Readable
  <2>3. DocumentInv'
    BY <1>2 DEF Retire, DocumentInv
  <2>4. QED
    BY <2>1, <2>2, <2>3
<1>3. QED
  BY <1>1, <1>2

LEMMA InvStep ==
  ASSUME Inv, [Next]_vars
  PROVE  Inv'
<1>1. CASE UNCHANGED vars
  BY <1>1, SameFile DEF vars, Inv, TypeOK, Holding, DocumentInv
<1>2. QED
  BY <1>1, PrepareStep, WriteStep, ToolStep, WebStep, SaveStep, JobStep,
     OperatorStep
     DEF Next

(* However runs of the tool, processes with older files and jobs interleave *)
(* or die, every stored credential can be read with the keyring file.      *)
THEOREM CredentialsStayReadable == Spec => []CredentialsReadable
<1>1. Inv => CredentialsReadable
  BY DEF Inv
<1>2. QED
  BY InitInv, InvStep, <1>1, PTL DEF Spec

(* The state keeps its shape, and only the holder of the lock file works.  *)
THEOREM KeyringTypeCorrect == Spec => []TypeOK
<1>1. Inv => TypeOK
  BY DEF Inv
<1>2. QED
  BY InitInv, InvStep, <1>1, PTL DEF Spec

-----------------------------------------------------------------------------
(* The tool, the processes and the jobs implement Vault.                   *)

(* What a run is about to write is one rotation away from the file, which  *)
(* nobody else replaces while the run holds the lock.                      *)
OneRotation(doc) ==
    /\ doc.primary \in Keys /\ doc.primary # ring.primary
    /\ \E legacy \in Keys :
         /\ ring.keys = {} \/ legacy = doc.primary
         /\ doc.keys = ring.keys \union {doc.primary, legacy}

PlanInv == \A t \in Tools : tool[t].pc = "prepared" => OneRotation(tool[t].doc)

LEMMA PlanKept ==
  ASSUME PlanInv, ring' = ring,
         \A t \in Tools : tool'[t].pc = "prepared" => tool'[t] = tool[t]
  PROVE  PlanInv'
BY DEF PlanInv, OneRotation

LEMMA PlanPrepare ==
  ASSUME Inv, PlanInv, NEW t \in Tools, Prepare(t)
  PROVE  PlanInv'
<1> DEFINE k == tool[t].target
<1> USE DEF Inv, TypeOK, Holding
<1>1. PICK d \in Documents(t) :
        /\ IF k \in d.keys
           THEN tool[t].activate /\ d.primary # k
           ELSE Cardinality(d.keys) < MaximumKeys
        /\ tool' = [tool EXCEPT ![t].pc = "prepared",
                        ![t].doc = [primary |-> k, keys |-> d.keys \union {k}]]
  BY DEF Prepare
<1>2. tool[t].pc = "locked" /\ ring' = ring
  BY DEF Prepare
<1>3. k \in Keys
  BY <1>2
<1>4. OneRotation([primary |-> k, keys |-> d.keys \union {k}])
  <2>1. CASE ring = NoFile
    <3>1. ring.keys = {} /\ ring.primary = Untagged
      BY <2>1 DEF NoFile
    <3>2. PICK legacy \in Keys : d = [primary |-> legacy, keys |-> {legacy}]
      BY <1>1, <2>1 DEF Documents, Converted
    <3>3. d.keys \union {k} = ring.keys \union {k, legacy}
      BY <3>1, <3>2
    <3>4. k # ring.primary
      BY <1>3, <3>1, KeyringConstants
    <3>5. QED
      BY <1>3, <3>1, <3>3, <3>4 DEF OneRotation
  <2>2. CASE ring # NoFile
    <3>1. d = ring
      BY <1>1, <2>2 DEF Documents
    <3>2. ring.primary \in ring.keys \union {Untagged}
      BY DEF SourcesInv, Usable, Readable
    <3>3. k # ring.primary
      BY <1>1, <1>3, <3>1, <3>2, KeyringConstants
    <3>4. d.keys \union {k} = ring.keys \union {k, k}
      BY <3>1
    <3>5. QED
      BY <1>3, <3>3, <3>4 DEF OneRotation
  <2>3. QED
    BY <2>1, <2>2
<1>5. ASSUME NEW u \in Tools, tool'[u].pc = "prepared"
      PROVE  OneRotation(tool'[u].doc)
  <2>1. CASE u = t
    <3>1. tool'[t].doc = [primary |-> k, keys |-> d.keys \union {k}]
      BY <1>1 DEF Tool
    <3>2. QED
      BY <1>4, <2>1, <3>1
  <2>2. CASE u # t
    <3>1. tool'[u] = tool[u]
      BY <1>1, <2>2
    <3>2. QED
      BY <1>5, <3>1 DEF PlanInv
  <2>3. QED
    BY <2>1, <2>2
<1> HIDE DEF k
<1>6. QED
  BY <1>2, <1>5 DEF PlanInv, OneRotation

(* After a replacement no run is about to write.                           *)
LEMMA PlanWrite ==
  ASSUME Inv, NEW t \in Tools, Write(t) \/ WriteFails(t)
  PROVE  PlanInv'
<1>1. \A u \in Tools : tool'[u].pc # "prepared"
  BY KeyringConstants
     DEF Inv, TypeOK, Holding, Write, WriteFails, Leave, Ends, ToolAt, NoRun, Tool
<1>2. QED
  BY <1>1 DEF PlanInv

LEMMA PlanStep ==
  ASSUME Inv, PlanInv, [Next]_vars
  PROVE  PlanInv'
<1> USE DEF Inv, TypeOK, Holding
<1>1. ASSUME NEW t \in Tools, Acquire(t) \/ Refuse(t) \/ Verify(t) \/ Kill(t)
      PROVE  PlanInv'
  <2>1. PICK run \in [pc : {"locked", "idle"}, target : Keys \union {Untagged},
                      activate : BOOLEAN, doc : {NoFile}] :
          tool' = [tool EXCEPT ![t] = run]
    BY <1>1 DEF Acquire, Refuse, Verify, Kill, Leave, Ends, NoRun
  <2>2. \A u \in Tools : tool'[u].pc = "prepared" => tool'[u] = tool[u]
    BY <2>1
  <2>3. QED
    BY <1>1, <2>2, PlanKept DEF Acquire, Refuse, Verify, Kill
<1>2. ASSUME NEW k \in Keys, Retire(k)
      PROVE  PlanInv'
  <2>1. \A u \in Tools : tool'[u].pc # "prepared"
    BY <1>2 DEF Retire
  <2>2. QED
    BY <2>1 DEF PlanInv
<1>3. CASE ring' = ring /\ tool' = tool
  BY <1>3, PlanKept
<1>4. QED
  BY PlanPrepare, PlanWrite, <1>1, <1>2, <1>3
     DEF Next, StartWeb, StopWeb, SavePassword, StartJob, RunJob, RemoveStaleLock, vars

LEMMA VaultStutter ==
  ASSUME ring' = ring, cred' = cred
  PROVE  UNCHANGED TheVault!vars
BY DEF TheVault!vars, Readable

LEMMA WriteIsRotate ==
  ASSUME Inv, PlanInv, NEW t \in Tools, tool[t].pc = "prepared",
         ring' = tool[t].doc, cred' = cred
  PROVE  TheVault!Next
<1> DEFINE k == tool[t].doc.primary
<1>1. PICK legacy \in Keys :
        /\ ring.keys = {} \/ legacy = k
        /\ tool[t].doc.keys = ring.keys \union {k, legacy}
  BY DEF PlanInv, OneRotation
<1>2. k \in Keys /\ k # ring.primary
  BY DEF PlanInv, OneRotation
<1>3. Readable(ring') = Readable(ring) \union {k, legacy} /\ ring'.primary = k
  BY <1>1 DEF Readable
<1>4. ring.keys = {} => Readable(ring) = {Untagged}
  BY DEF Readable
<1>5. Readable(ring)' = Readable(ring')
  BY DEF Readable
<1>6. TheVault!Rotate(k, legacy)
  <2> HIDE DEF k
  <2>1. QED
    BY <1>1, <1>2, <1>3, <1>4, <1>5 DEF TheVault!Rotate
<1>7. QED
  BY <1>2, <1>6 DEF TheVault!Next

LEMMA VaultStep ==
  ASSUME Inv, PlanInv, [Next]_vars
  PROVE  [TheVault!Next]_(TheVault!vars)
<1> USE DEF Inv, TypeOK, Holding
<1>1. ASSUME NEW t \in Tools, Write(t) \/ WriteFails(t)
      PROVE  [TheVault!Next]_(TheVault!vars)
  <2>1. /\ tool[t].pc = "prepared" /\ cred' = cred
        /\ ring' \in {ring, tool[t].doc}
    BY <1>1 DEF Write, WriteFails
  <2>2. QED
    BY <2>1, WriteIsRotate, VaultStutter
<1>2. ASSUME NEW w \in Webs, NEW m \in Mailboxes, SavePassword(w, m)
      PROVE  TheVault!Next
  <2>1. web[w].ring.primary \in Readable(ring)
    BY <1>2 DEF SavePassword, SourcesInv, Usable
  <2>2. TheVault!Encrypt(m, web[w].ring.primary)
    BY <1>2, <2>1 DEF SavePassword, TheVault!Encrypt, Readable
  <2>3. QED
    BY <2>1, <2>2 DEF TheVault!Next
<1>3. ASSUME NEW j \in Jobs, RunJob(j)
      PROVE  [TheVault!Next]_(TheVault!vars)
  <2>1. /\ ring' = ring
        /\ cred' \in {cred, [m \in Mailboxes |-> job[j].ring.primary]}
    BY <1>3 DEF RunJob
  <2>2. job[j].ring.primary \in Readable(ring)
    BY <1>3 DEF RunJob, SourcesInv, Usable
  <2>3. CASE cred' = [m \in Mailboxes |-> job[j].ring.primary]
    <3>1. TheVault!EncryptAll(job[j].ring.primary)
      BY <2>1, <2>2, <2>3 DEF TheVault!EncryptAll, Readable
    <3>2. QED
      BY <2>2, <3>1 DEF TheVault!Next
  <2>4. QED
    BY <2>1, <2>3, VaultStutter
<1>4. ASSUME NEW k \in Keys, Retire(k)
      PROVE  TheVault!Next
  <2>1. /\ k \in ring.keys /\ k # ring.primary /\ k # Untagged
        /\ \A m \in Mailboxes : cred[m] # k
        /\ ring' = [ring EXCEPT !.keys = @ \ {k}] /\ cred' = cred
    BY <1>4, KeyringConstants DEF Retire
  <2>2. ring'.primary = ring.primary /\ ring'.keys = ring.keys \ {k}
    BY <2>1 DEF Ring
  <2>3. Readable(ring)' = Readable(ring) \ {k}
    BY <2>1, <2>2 DEF Readable
  <2>4. TheVault!Retire(k) /\ k \in Readable(ring)
    BY <2>1, <2>2, <2>3 DEF TheVault!Retire, Readable
  <2>5. QED
    BY <2>4 DEF TheVault!Next
<1>5. CASE ring' = ring /\ cred' = cred
  BY <1>5, VaultStutter
<1>6. QED
  BY <1>1, <1>2, <1>3, <1>4, <1>5
     DEF Next, Acquire, Prepare, Refuse, Verify, Kill, StartWeb, StopWeb, StartJob,
         RemoveStaleLock, vars

(* Whatever runs, processes and jobs interleave or die, the stored keys    *)
(* and credentials change only by whole rotations, encryptions with a key  *)
(* that is in the file, and removals of keys that no credential uses.      *)
THEOREM KeyringImplementsVault == Spec => ImplementsVault
<1>1. Init => PlanInv
  BY DEF Init, PlanInv, NoRun
<1>2. Init => TheVault!Init
  <2> SUFFICES ASSUME Init PROVE TheVault!Init
    OBVIOUS
  <2>1. CASE ring = NoFile
    BY <2>1 DEF Init, TheVault!Init, NoFile, Readable
  <2>2. ASSUME NEW k \in Keys, ring = [primary |-> k, keys |-> {k}]
        PROVE  TheVault!Init
    BY <2>2 DEF Init, TheVault!Init, Readable
  <2>3. QED
    BY <2>1, <2>2 DEF Init
<1>3. QED
  BY <1>1, <1>2, InitInv, InvStep, PlanStep, VaultStep, PTL
     DEF Spec, TheVault!Spec, ImplementsVault

=============================================================================
