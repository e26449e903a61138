------------------------------- MODULE RegWrite -------------------------------
(***************************************************************************)
(* process_reg_write (src/gdbstub.c): the G request, which writes all      *)
(* registers through ops->read_reg and ops->write_reg, one at a time, and  *)
(* undoes what it has written when a write fails.  The target is outside   *)
(* the stub: any call of its may fail.  A register is a value; where its   *)
(* bytes lie in the payload and in the two arrays is left out.             *)
(***************************************************************************)
EXTENDS Integers

CONSTANTS RegNum,  \* arch.reg_num
          Value    \* what a register may hold

ASSUME RegNumAssumption == RegNum \in Nat

Reg == 0 .. RegNum - 1

VARIABLES regs,           \* the target's registers
          new_values, backup_values,
          pc, i,          \* which loop the handler is in, and its index
          failed_regno,
          reply,          \* the last reply sent
          before,         \* history: the registers when the request came
          spoilt          \* history: a failing write changed its register, or
                          \* a write of the rollback failed

vars == <<regs, new_values, backup_values, pc, i, failed_regno, reply, before,
          spoilt>>

Init ==
    /\ regs \in [Reg -> Value]
    /\ new_values = regs /\ backup_values = regs /\ before = regs
    /\ pc = "idle" /\ i = 0 /\ failed_regno = -1
    /\ reply = "none" /\ spoilt = FALSE

\* conn_send_pktstr and return
Reply(r) ==
    /\ reply' = r
    /\ pc' = "idle"
    /\ UNCHANGED <<regs, backup_values, i, failed_regno>>

----------------------------------------------------------------------------
\* A G request with the values v, of the expected length or not.
Request(v, lenOK) ==
    /\ pc = "idle"
    /\ new_values' = v
    /\ before' = regs
    /\ spoilt' = FALSE
    /\ \/ RegNum = 0 /\ Reply("OK")
       \/ RegNum # 0 /\ ~lenOK /\ Reply("E22")
       \/ RegNum # 0 /\ lenOK /\ Reply("E12")   \* malloc fails
       \/ /\ RegNum # 0 /\ lenOK
          /\ pc' = "save" /\ i' = 0 /\ failed_regno' = -1
          /\ UNCHANGED <<regs, backup_values, reply>>

\* The first loop: read_reg into the backup; a failure ends the request.
Save ==
    /\ pc = "save"
    /\ i < RegNum
    /\ \/ /\ backup_values' = [backup_values EXCEPT ![i] = regs[i]]
          /\ i' = i + 1
          /\ UNCHANGED <<regs, pc, failed_regno, reply>>
       \/ Reply("Eret")
    /\ UNCHANGED <<new_values, before, spoilt>>

SaveDone ==
    /\ pc = "save" /\ i = RegNum
    /\ pc' = "commit" /\ i' = 0
    /\ UNCHANGED <<regs, new_values, backup_values, failed_regno, reply, before,
                   spoilt>>

\* "Commit all registers atomically"
Commit ==
    /\ pc = "commit"
    /\ i < RegNum
    /\ regs' = [regs EXCEPT ![i] = new_values[i]]
    /\ i' = i + 1
    /\ UNCHANGED <<new_values, backup_values, pc, failed_regno, reply, before,
                   spoilt>>

CommitFails ==
    /\ pc = "commit"
    /\ i < RegNum
    /\ \/ UNCHANGED <<regs, spoilt>>
       \/ /\ \E v \in Value : regs' = [regs EXCEPT ![i] = v]
          /\ spoilt' = TRUE
    /\ failed_regno' = i
    /\ pc' = "restore" /\ i' = 0
    /\ UNCHANGED <<new_values, backup_values, reply, before>>

CommitDone ==
    /\ pc = "commit" /\ i = RegNum
    /\ Reply("OK")
    /\ UNCHANGED <<new_values, before, spoilt>>

\* Mutant: the loop of the rollback ends one register too early.
RestoreTooFew ==
    /\ pc = "restore"
    /\ i < failed_regno
    /\ regs' = IF i = failed_regno - 1 THEN regs
               ELSE [regs EXCEPT ![i] = backup_values[i]]
    /\ i' = i + 1
    /\ UNCHANGED <<new_values, backup_values, pc, failed_regno, reply, before,
                   spoilt>>

\* The rollback, of the registers before the one that failed; the result of
\* write_reg is ignored.
Restore ==
    /\ pc = "restore"
    /\ i < failed_regno
    /\ \/ regs' = [regs EXCEPT ![i] = backup_values[i]] /\ UNCHANGED spoilt
       \/ UNCHANGED regs /\ spoilt' = TRUE
    /\ i' = i + 1
    /\ UNCHANGED <<new_values, backup_values, pc, failed_regno, reply, before>>

RestoreDone ==
    /\ pc = "restore" /\ i = failed_regno
    /\ Reply("Eret")
    /\ UNCHANGED <<new_values, before, spoilt>>

Next ==
    \/ \E v \in [Reg -> Value], lenOK \in BOOLEAN : Request(v, lenOK)
    \/ Save \/ SaveDone
    \/ Commit \/ CommitFails \/ CommitDone
    \/ Restore \/ RestoreDone

Spec == Init /\ [][Next]_vars

----------------------------------------------------------------------------
(***************************************************************************)
(* "Commit all registers atomically": once the request is answered, the    *)
(* registers hold all the new values if the answer was OK, and what they   *)
(* held before the request if it was an error, whichever call of the       *)
(* target failed.  The error case relies on the target: a write that fails *)
(* leaves the register alone, and the writes of the rollback, whose        *)
(* results the code ignores, succeed.                                      *)
(***************************************************************************)
AllOrNothing ==
    pc = "idle" /\ reply # "none" =>
       IF reply = "OK" THEN regs = new_values ELSE spoilt \/ regs = before

TypeOK ==
    /\ regs \in [Reg -> Value]
    /\ new_values \in [Reg -> Value]
    /\ backup_values \in [Reg -> Value]
    /\ before \in [Reg -> Value]
    /\ pc \in {"idle", "save", "commit", "restore"}
    /\ i \in 0 .. RegNum
    /\ failed_regno \in -1 .. RegNum - 1
    /\ reply \in {"none", "OK", "E22", "E12", "Eret"}

\* The backup is the state before the request, as far as it has been taken.
BackupInv ==
    /\ pc = "save" => \A r \in Reg : r < i => backup_values[r] = before[r]
    /\ pc \in {"commit", "restore"} => backup_values = before

\* How far each loop has got, register by register.
LoopInv ==
    /\ pc = "save" => regs = before
    /\ pc = "commit" =>
         \A r \in Reg : regs[r] = IF r < i THEN new_values[r] ELSE before[r]
    /\ pc = "restore" =>
         /\ failed_regno \in Reg /\ i <= failed_regno
         /\ ~spoilt =>
              \A r \in Reg : regs[r] = IF i <= r /\ r < failed_regno
                                         THEN new_values[r] ELSE before[r]

(***************************************************************************)
(* The invariant behind AllOrNothing: in every loop each register holds    *)
(* its new or its old value according to the loop's index, and the backup  *)
(* that the rollback writes is what the registers held.                    *)
(***************************************************************************)
IInv == TypeOK /\ BackupInv /\ LoopInv /\ AllOrNothing
==============================================================================
