------------------------ MODULE AdminRotationProofs ------------------------
(* Theorems about AdminRotation, for any number of runs. *)
EXTENDS AdminRotation, TLAPS

(* What a run that holds the lock knows about database and file.           *)
StageInv ==
    \A r \in Runs :
      /\ pc[r] = "ready" => db = file /\ file = old[r]
      /\ pc[r] = "read" => file = old[r]
      /\ pc[r] \in {"changed", "written", "verified"} => db = r
      /\ pc[r] \in {"written", "verified", "retained"} => file = r
      /\ pc[r] \in {"restoring", "restored_file"} => db = old[r]
      /\ pc[r] = "restored_file" => file = old[r]
      /\ pc[r] \in Changing \ {"ready"} => writer = r

Inv == TypeOK /\ StageInv /\ NoSilentMismatch

LEMMA InitInv == Init => Inv
BY DEF Init, Inv, TypeOK, StageInv, NoSilentMismatch, Holding, Passwords,
       Preflight, Changing, Outcomes

(* A step of one run keeps the invariant and reports only what is so. *)
LEMMA RunStep ==
  ASSUME Inv, NEW r \in Runs, NEW ok \in BOOLEAN,
         \/ Acquire(r) \/ ReadSecret(r) \/ Check(r) \/ Refuse(r) \/ Kill(r)
         \/ ChangeDatabase(r, ok) \/ WriteNew(r, ok) \/ VerifyNew(r, ok)
         \/ Bootstrap(r, ok) \/ RollbackDatabase(r, ok) \/ RestoreFile(r, ok)
         \/ VerifyRestored(r, ok) \/ KeepNew(r, ok) \/ VerifyKept(r, ok)
  PROVE  Inv'
<1> USE DEF Inv, TypeOK, StageInv, NoSilentMismatch, Holding, Preflight, Changing,
            Outcomes, Goto, Leave
<1>0. /\ Nobody \notin Runs /\ Initial \notin Runs
      /\ r \in Passwords /\ old[r] \in Passwords
  BY RotationConstants DEF Passwords
<1>1. CASE Acquire(r)
  BY <1>0, <1>1 DEF Acquire
<1>2. CASE ReadSecret(r)
  BY <1>0, <1>2 DEF ReadSecret
<1>3. CASE Check(r)
  BY <1>0, <1>3 DEF Check
<1>4. CASE Refuse(r)
  BY <1>0, <1>4 DEF Refuse
<1>5. CASE Kill(r)
  BY <1>0, <1>5 DEF Kill
<1>6. CASE ChangeDatabase(r, ok)
  BY <1>0, <1>6 DEF ChangeDatabase, SetDatabase
<1>7. CASE WriteNew(r, ok)
  BY <1>0, <1>7 DEF WriteNew, WriteSecret
<1>8. CASE VerifyNew(r, ok)
  BY <1>0, <1>8 DEF VerifyNew, Login
<1>9. CASE Bootstrap(r, ok)
  BY <1>0, <1>9 DEF Bootstrap, Login
<1>10. CASE RollbackDatabase(r, ok)
  BY <1>0, <1>10 DEF RollbackDatabase, SetDatabase
<1>11. CASE RestoreFile(r, ok)
  BY <1>0, <1>11 DEF RestoreFile, WriteSecret
<1>12. CASE VerifyRestored(r, ok)
  BY <1>0, <1>12 DEF VerifyRestored, Login
<1>13. CASE KeepNew(r, ok)
  BY <1>0, <1>13 DEF KeepNew, WriteSecret
<1>14. CASE VerifyKept(r, ok)
  BY <1>0, <1>14 DEF VerifyKept, Login
<1>15. QED
  BY <1>1, <1>2, <1>3, <1>4, <1>5, <1>6, <1>7, <1>8, <1>9, <1>10, <1>11, <1>12,
     <1>13, <1>14

LEMMA InvStep ==
  ASSUME Inv, [Next]_vars
  PROVE  Inv'
<1>1. CASE RemoveStaleLock
  BY <1>1 DEF RemoveStaleLock, Inv, TypeOK, StageInv, NoSilentMismatch, Holding
<1>2. CASE Recover
  BY <1>2, RotationConstants
     DEF Recover, Inv, TypeOK, StageInv, NoSilentMismatch, Holding, Preflight, Changing
<1>3. CASE UNCHANGED vars
  BY <1>3 DEF vars, Inv, TypeOK, StageInv, NoSilentMismatch, Holding
<1>4. QED
  BY <1>1, <1>2, <1>3, RunStep DEF Next

(* Database and file never disagree without a run that is at work or that  *)
(* reported trouble, was prevented from reporting, or was killed.          *)
THEOREM MismatchIsReported == Spec => []NoSilentMismatch
<1>1. Inv => NoSilentMismatch
  BY DEF Inv
<1>2. QED
  BY InitInv, InvStep, <1>1, PTL DEF Spec

THEOREM RotationTypeCorrect == Spec => []TypeOK
<1>1. Inv => TypeOK
  BY DEF Inv
<1>2. QED
  BY InitInv, InvStep, <1>1, PTL DEF Spec

-----------------------------------------------------------------------------
LEMMA ClaimStep ==
  ASSUME Inv, Next, NEW r \in Runs, pc'[r] # pc[r]
  PROVE  /\ pc'[r] \in {"rotated", "kept_new"} => db' = r /\ file' = r
         /\ pc'[r] = "restored" => db' = old[r] /\ file' = old[r]
<1> USE DEF Inv, TypeOK, StageInv, Goto, Leave
<1>1. CASE RemoveStaleLock \/ Recover
  BY <1>1 DEF RemoveStaleLock, Recover
<1>2. ASSUME NEW q \in Runs,
             Acquire(q) \/ ReadSecret(q) \/ Check(q) \/ Refuse(q) \/ Kill(q)
      PROVE  pc'[r] \notin {"rotated", "kept_new", "restored"}
  BY <1>2 DEF Acquire, ReadSecret, Check, Refuse, Kill
<1>3. ASSUME NEW q \in Runs, NEW ok \in BOOLEAN,
             \/ ChangeDatabase(q, ok) \/ WriteNew(q, ok) \/ VerifyNew(q, ok)
             \/ RollbackDatabase(q, ok) \/ RestoreFile(q, ok) \/ KeepNew(q, ok)
      PROVE  pc'[r] \notin {"rotated", "kept_new", "restored"}
  BY <1>3 DEF ChangeDatabase, WriteNew, VerifyNew, RollbackDatabase, RestoreFile,
              KeepNew
<1>4. ASSUME NEW q \in Runs, NEW ok \in BOOLEAN,
             Bootstrap(q, ok) \/ VerifyRestored(q, ok) \/ VerifyKept(q, ok)
      PROVE  /\ pc'[r] \in {"rotated", "kept_new"} => db' = r /\ file' = r
             /\ pc'[r] = "restored" => db' = old[r] /\ file' = old[r]
  BY <1>4 DEF Bootstrap, VerifyRestored, VerifyKept, Login
<1>5. QED
  BY <1>1, <1>2, <1>3, <1>4 DEF Next

(* The three reports that database and file agree are true when made. *)
THEOREM ReportsAreTrue == Spec => ClaimsAreTrue
<1>1. ASSUME Inv, [Next]_vars
      PROVE  [\A r \in Runs : pc'[r] # pc[r] =>
                 /\ pc'[r] \in {"rotated", "kept_new"} => db' = r /\ file' = r
                 /\ pc'[r] = "restored" => db' = old[r] /\ file' = old[r]]_vars
  BY <1>1, ClaimStep
<1>2. QED
  BY InitInv, InvStep, <1>1, PTL DEF Spec, ClaimsAreTrue

=============================================================================
