---------------------------- MODULE RegWriteProofs ----------------------------
(***************************************************************************)
(* The G request is all or nothing for any number of registers and any     *)
(* values, whichever read or write of the target fails.                    *)
(***************************************************************************)
EXTENDS RegWrite, TLAPS

\* Before the first request there is nothing to show.
LEMMA InitIInv == Init => IInv
  BY RegNumAssumption
     DEF Init, IInv, TypeOK, BackupInv, LoopInv, AllOrNothing, Reg

\* Every step of the handler preserves the invariant.
LEMMA NextIInv == IInv /\ [Next]_vars => IInv'
<1> SUFFICES ASSUME IInv, [Next]_vars PROVE IInv'
  OBVIOUS
<1> USE RegNumAssumption DEF IInv, TypeOK, Reg
<1>1. CASE \E v \in [Reg -> Value], lenOK \in BOOLEAN : Request(v, lenOK)
  <2> PICK v \in [Reg -> Value], lenOK \in BOOLEAN : Request(v, lenOK)
    BY <1>1
  <2>1. TypeOK'
    BY DEF Request, Reply
  <2>2. BackupInv' /\ LoopInv'
    BY DEF Request, Reply, BackupInv, LoopInv
  <2>3. AllOrNothing'
    BY DEF Request, Reply, AllOrNothing
  <2> QED
    BY <2>1, <2>2, <2>3
<1>2. CASE Save
  <2>1. TypeOK'
    BY <1>2 DEF Save, Reply
  <2>2. BackupInv' /\ LoopInv'
    BY <1>2 DEF Save, Reply, BackupInv, LoopInv
  <2>3. AllOrNothing'
    BY <1>2 DEF Save, Reply, LoopInv, AllOrNothing
  <2> QED
    BY <2>1, <2>2, <2>3
<1>3. CASE SaveDone
  <2>1. TypeOK' /\ AllOrNothing'
    BY <1>3 DEF SaveDone, AllOrNothing
  <2>2. backup_values = before
    BY <1>3 DEF SaveDone, BackupInv
  <2>3. BackupInv' /\ LoopInv'
    BY <1>3, <2>2 DEF SaveDone, BackupInv, LoopInv
  <2> QED
    BY <2>1, <2>3
<1>4. CASE Commit
  <2>1. TypeOK' /\ BackupInv' /\ AllOrNothing'
    BY <1>4 DEF Commit, BackupInv, AllOrNothing
  <2>2. LoopInv'
    BY <1>4 DEF Commit, LoopInv
  <2> QED
    BY <2>1, <2>2
<1>5. CASE CommitFails
  <2>1. TypeOK' /\ BackupInv' /\ AllOrNothing'
    BY <1>5 DEF CommitFails, BackupInv, AllOrNothing
  <2>2. LoopInv'
    BY <1>5 DEF CommitFails, LoopInv
  <2> QED
    BY <2>1, <2>2
<1>6. CASE CommitDone
  <2>1. TypeOK' /\ BackupInv' /\ LoopInv'
    BY <1>6 DEF CommitDone, Reply, BackupInv, LoopInv
  <2>2. regs = new_values
    BY <1>6 DEF CommitDone, LoopInv
  <2>3. AllOrNothing'
    BY <1>6, <2>2 DEF CommitDone, Reply, AllOrNothing
  <2> QED
    BY <2>1, <2>3
<1>7. CASE Restore
  <2>1. spoilt' \/ (regs' = [regs EXCEPT ![i] = before[i]] /\ ~spoilt)
    BY <1>7 DEF Restore, BackupInv
  <2>2. TypeOK' /\ BackupInv' /\ AllOrNothing'
    BY <1>7, <2>1 DEF Restore, BackupInv, LoopInv, AllOrNothing
  <2>3. LoopInv'
    BY <1>7, <2>1 DEF Restore, LoopInv
  <2> QED
    BY <2>2, <2>3
<1>8. CASE RestoreDone
  <2>1. TypeOK' /\ BackupInv' /\ LoopInv'
    BY <1>8 DEF RestoreDone, Reply, BackupInv, LoopInv
  <2>2. spoilt \/ regs = before
    BY <1>8 DEF RestoreDone, LoopInv
  <2>3. AllOrNothing'
    BY <1>8, <2>2 DEF RestoreDone, Reply, AllOrNothing
  <2> QED
    BY <2>1, <2>3
<1>9. CASE UNCHANGED vars
  BY <1>9 DEF vars, BackupInv, LoopInv, AllOrNothing
<1> QED
  BY <1>1, <1>2, <1>3, <1>4, <1>5, <1>6, <1>7, <1>8, <1>9 DEF Next

(***************************************************************************)
(* The loop invariant of process_reg_write holds throughout.               *)
(***************************************************************************)
THEOREM Invariance == Spec => []IInv
<1>1. Init => IInv
  BY InitIInv
<1>2. IInv /\ [Next]_vars => IInv'
  BY NextIInv
<1> QED
  BY <1>1, <1>2, PTL DEF Spec

(***************************************************************************)
(* "Commit all registers atomically": an OK reply to G means that every    *)
(* register holds its new value; after an error reply every register holds *)
(* its old value, unless a failing write changed its register or a write   *)
(* of the rollback failed.                                                 *)
(***************************************************************************)
THEOREM GIsAtomic == Spec => []AllOrNothing
<1>1. IInv => AllOrNothing
  BY DEF IInv
<1> QED
  BY <1>1, Invariance, PTL
==============================================================================
