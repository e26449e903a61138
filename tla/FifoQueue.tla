------------------------------ MODULE FifoQueue ------------------------------
(***************************************************************************)
(* What include/pktqueue.h promises of the packet queue: every operation   *)
(* is one atomic step on a sequence of packets and two flags.  The reader  *)
(* thread pushes and signals, the main thread pops.  PktQueue (linked      *)
(* list, mutex, condition variable) is shown to implement this module, and *)
(* Gdbstub composes the two threads from the operations below.             *)
(***************************************************************************)
EXTENDS Sequences

CONSTANTS Packet,   \* the packets that may be queued
          NULL      \* what pktqueue_pop returns when there is no packet

ASSUME NullIsNoPacket == NULL \notin Packet

VARIABLES queue,        \* the packets pushed and not yet popped
          shutdown,     \* pktqueue_t.shutdown
          interrupted,  \* pktqueue_t.interrupted
          waiting,      \* the main thread sleeps in pthread_cond_wait
          pkt           \* what the main thread's last pop returned

queueVars == <<queue, shutdown, interrupted, waiting, pkt>>

\* pktqueue_init
QueueInit ==
    /\ queue = <<>>
    /\ shutdown = FALSE
    /\ interrupted = FALSE
    /\ waiting = FALSE
    /\ pkt = NULL

\* The predicate of pop's while loop: nothing to return yet.
MustWait == queue = <<>> /\ ~shutdown /\ ~interrupted

\* Mutant: push without pthread_cond_signal.
PushNoSignal(p) ==
    /\ queue' = Append(queue, p)
    /\ UNCHANGED <<shutdown, interrupted, waiting, pkt>>

\* pktqueue_push with a successful malloc; the signal wakes a sleeping pop.
Push(p) ==
    /\ queue' = Append(queue, p)
    /\ waiting' = FALSE
    /\ UNCHANGED <<shutdown, interrupted, pkt>>

SignalShutdown ==
    /\ shutdown' = TRUE
    /\ waiting' = FALSE
    /\ UNCHANGED <<queue, interrupted, pkt>>

SignalInterrupt ==
    /\ interrupted' = TRUE
    /\ waiting' = FALSE
    /\ UNCHANGED <<queue, shutdown, pkt>>

\* pop finds nothing and goes to sleep.
PopWait ==
    /\ ~waiting
    /\ MustWait
    /\ waiting' = TRUE
    /\ UNCHANGED <<queue, shutdown, interrupted, pkt>>

\* pthread_cond_wait may return without a signal.
SpuriousWakeup ==
    /\ waiting
    /\ waiting' = FALSE
    /\ UNCHANGED <<queue, shutdown, interrupted, pkt>>

\* Mutant: pop gives up on shutdown even with packets in the queue.
PopNullOnShutdown ==
    /\ ~waiting
    /\ shutdown \/ (interrupted /\ queue = <<>>)
    /\ pkt' = NULL
    /\ UNCHANGED <<queue, shutdown, interrupted, waiting>>

\* pop returns NULL: shutdown or interrupted, and no packet.
PopNull ==
    /\ ~waiting
    /\ ~MustWait
    /\ queue = <<>>
    /\ pkt' = NULL
    /\ UNCHANGED <<queue, shutdown, interrupted, waiting>>

\* pop returns the oldest packet, whatever the flags say.
PopTake ==
    /\ ~waiting
    /\ queue # <<>>
    /\ pkt' = Head(queue)
    /\ queue' = Tail(queue)
    /\ UNCHANGED <<shutdown, interrupted, waiting>>

\* pktqueue_check_interrupt: test and clear (gdbstub_run ignores the result).
CheckInterrupt ==
    /\ interrupted' = FALSE
    /\ UNCHANGED <<queue, shutdown, waiting, pkt>>

\* pktqueue_destroy frees the pending packets.
Destroy ==
    /\ queue' = <<>>
    /\ UNCHANGED <<shutdown, interrupted, waiting, pkt>>

QueueNext ==
    \/ \E p \in Packet : Push(p)
    \/ SignalShutdown \/ SignalInterrupt
    \/ PopWait \/ SpuriousWakeup \/ PopNull \/ PopTake
    \/ CheckInterrupt \/ Destroy

QueueSpec == QueueInit /\ [][QueueNext]_queueVars

(***************************************************************************)
(* No lost wake-up: while the main thread sleeps in pktqueue_pop there is  *)
(* nothing for it to return, so no packet, interrupt or shutdown can be    *)
(* left behind a sleeping consumer.                                        *)
(***************************************************************************)
NoLostWakeup == waiting => MustWait
==============================================================================
