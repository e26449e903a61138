------------------------------- MODULE Target --------------------------------
(***************************************************************************)
(* What gdbstub_run relies on in a target (struct target_ops): cont runs   *)
(* until it stops by itself, and stops when on_interrupt, which is called  *)
(* on another thread, has halted it.  Starting forgets an earlier halt.    *)
(***************************************************************************)
VARIABLES running, halt

Init == running = FALSE /\ halt = TRUE

cont  == ~running /\ running' = TRUE /\ halt' = FALSE
stepi == ~running /\ halt' = FALSE /\ UNCHANGED running
on_interrupt == halt' = TRUE /\ UNCHANGED running
Stop == running /\ running' = FALSE /\ UNCHANGED halt

Next == cont \/ stepi \/ on_interrupt \/ Stop

Steps == Init /\ [][Next]_<<running, halt>>

\* Once halted, cont returns.
Spec == Steps /\ WF_<<running, halt>>(halt /\ Stop)
==============================================================================
