-------------------------- MODULE OwnerSetupProofs --------------------------
(* Theorems about OwnerSetup, for any number of requests and names. *)
EXTENDS OwnerSetup, FiniteSetTheorems, TLAPS

(* Whoever saw no owner under the lock still sees none until it commits. *)
LockInv ==
    /\ \A r \in Requests : stage[r] \in {"clear", "saved"} => owners = {}
    /\ owners = {} \/ \E n \in Names : owners = {n}
    /\ owners \subseteq audited

Inv == TypeOK /\ LockInv

LEMMA InitInv == Init => Inv
BY DEF Init, Inv, TypeOK, LockInv, InTransaction, Stages

LEMMA InvStep ==
  ASSUME Inv, [Next]_vars
  PROVE  Inv'
<1> USE DEF Inv, TypeOK, LockInv, InTransaction, Goto
<1>0. \A r \in Requests : r # Nobody
  BY SetupConstants
<1>1. ASSUME NEW r \in Requests, Arrive(r) PROVE Inv'
  BY <1>1 DEF Arrive, Stages
<1>2. ASSUME NEW r \in Requests, Validate(r) PROVE Inv'
  BY <1>2 DEF Validate, Stages
<1>3. ASSUME NEW r \in Requests, Lock(r) PROVE Inv'
  BY <1>0, <1>3 DEF Lock, Stages
<1>4. ASSUME NEW r \in Requests, Recheck(r) PROVE Inv'
  BY <1>4 DEF Recheck, Stages
<1>5. ASSUME NEW r \in Requests, OwnerExists(r) PROVE Inv'
  BY <1>0, <1>5 DEF OwnerExists, Stages
<1>6. ASSUME NEW r \in Requests, Save(r) PROVE Inv'
  BY <1>6 DEF Save, Stages
<1>7. ASSUME NEW r \in Requests, Commit(r) PROVE Inv'
  <2>1. owners = {} /\ name[r] \in Names
    BY <1>7 DEF Commit
  <2>2. \A q \in Requests : q # r => ~InTransaction(q)
    BY <1>7 DEF Commit
  <2>3. QED
    BY <1>7, <2>1, <2>2 DEF Commit, Stages
<1>8. ASSUME NEW r \in Requests, Fail(r) PROVE Inv'
  BY <1>0, <1>8 DEF Fail, Stages
<1>9. CASE UNCHANGED vars
  BY <1>9 DEF vars
<1>10. QED
  BY <1>1, <1>2, <1>3, <1>4, <1>5, <1>6, <1>7, <1>8, <1>9 DEF Next

(* Requests, the lock and the owners keep their shape in every order of    *)
(* setup requests, failures included (setup_owner and OwnerCreationForm).  *)
THEOREM SetupTypeCorrect == Spec => []TypeOK
<1>1. Inv => TypeOK
  BY DEF Inv
<1>2. QED
  BY InitInv, InvStep, <1>1, PTL DEF Spec

(* Any number of concurrent setup requests create at most one owner, with  *)
(* its audit event: the second look under the lock stays true until the    *)
(* commit, because only the holder of the lock commits.                    *)
THEOREM AtMostOneOwner == Spec => []SingleAuditedOwner
<1>1. ASSUME Inv PROVE SingleAuditedOwner
  <2>1. CASE owners = {}
    <3>1. Cardinality(owners) = 0
      BY <2>1, FS_EmptySet
    <3>2. QED
      BY <1>1, <3>1 DEF Inv, LockInv, SingleAuditedOwner
  <2>2. ASSUME NEW n \in Names, owners = {n} PROVE SingleAuditedOwner
    <3>1. Cardinality(owners) = 1
      BY <2>2, FS_Singleton
    <3>2. QED
      BY <1>1, <3>1 DEF Inv, LockInv, SingleAuditedOwner
  <2>3. QED
    BY <1>1, <2>1, <2>2 DEF Inv, LockInv
<1>2. QED
  BY InitInv, InvStep, <1>1, PTL DEF Spec

=============================================================================
