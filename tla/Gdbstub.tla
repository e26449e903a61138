------------------------------- MODULE Gdbstub -------------------------------
(***************************************************************************)
(* The two threads of a debugging session (src/gdbstub.c): the reader      *)
(* thread (socket_reader), sole owner of recv(), and the main thread       *)
(* (gdbstub_run, gdbstub_close), which handles the requests.  They share   *)
(* the packet queue, the send mutex of the connection and the flags        *)
(* async_io_enable and thread_stop; with the emulator's cont they share    *)
(* the halt flag (emu/src/emu.c).                                          *)
(*                                                                         *)
(* One action is one step between two points where the other thread can    *)
(* observe a difference.  The GDB client is the environment: each read     *)
(* brings some interrupt characters and completes some packets, in any     *)
(* combination.  How bytes become packets is the subject of Pktbuf, how    *)
(* the queue works inside is the subject of PktQueue.                      *)
(***************************************************************************)
EXTENDS FifoQueue, Integers

CONSTANTS MaxFailures,  \* CONN_MAX_FAILURES
          MaxIntr,      \* bound: interrupt characters the client sends
          MaxRuns       \* bound: calls of gdbstub_run on one gdbstub_t

(***************************************************************************)
(* What the session distinguishes of a request: continue ("c", vCont;c),   *)
(* step ("s", vCont;s), detach ("D"), QStartNoAckMode ("Q"), and anything  *)
(* that is answered at once ("m").                                         *)
(***************************************************************************)
Request == {"c", "s", "D", "Q", "m"}

ASSUME PacketAssumption ==
    Packet \subseteq [id : Nat, ok : BOOLEAN, req : Request]
ASSUME BoundAssumption ==
    /\ MaxFailures \in Nat \ {0}
    /\ MaxIntr \in Nat
    /\ MaxRuns \in Nat

VARIABLES
    rpc, rintrs, rpkt,   \* reader: where it is, the interrupt characters of
                         \* its last read still to handle, its packet
    mpc, call, act, ret, \* main: where it is, the send in progress and its
                         \* continuation, what cont returned, what run returned
    reader_running, thread_stop, async_io_enable,  \* struct gdbstub_private
    no_ack_mode, failure_count, send_mutex,        \* conn_t
    halt,                \* struct emu
    nread, nintr, runs,  \* how much the environment has done so far
    popped, wire         \* history: packets popped, sends carried out

readerVars == <<rpc, rintrs, rpkt>>
mainVars == <<mpc, call, act, ret>>
privVars == <<reader_running, thread_stop, async_io_enable>>
connVars == <<no_ack_mode, failure_count, send_mutex>>
envVars == <<nread, nintr, runs>>
histVars == <<popped, wire>>
vars == <<queueVars, readerVars, mainVars, privVars, connVars, halt, envVars,
          histVars>>

Token == [kind : {"ack", "nack", "reply", "stop"}, by : {"reader", "main"},
          id : Nat]
NoToken == [kind |-> "ack", by |-> "main", id |-> 0]
SendCall == [tok : Token, next : {"pop", "process", "reject", "detach"}]
NoCall == [tok |-> NoToken, next |-> "pop"]

\* gdbstub_init has succeeded; no thread has been started.
Init ==
    /\ QueueInit
    /\ rpc = "off" /\ rintrs = 0 /\ rpkt = NULL
    /\ mpc = "init" /\ call = NoCall /\ act = "none" /\ ret = "none"
    /\ reader_running = FALSE /\ thread_stop = FALSE /\ async_io_enable = FALSE
    /\ no_ack_mode = FALSE /\ failure_count = 0 /\ send_mutex = "free"
    /\ halt = TRUE
    /\ nread = 0 /\ nintr = 0 /\ runs = 0
    /\ popped = <<>> /\ wire = <<>>

----------------------------------------------------------------------------
(* The reader thread.                                                      *)

\* Mutant: the loop does not look at thread_stop.
ReaderCheckNever ==
    /\ rpc = "check"
    /\ rpc' = "poll"
    /\ UNCHANGED <<queueVars, rintrs, rpkt, mainVars, privVars, connVars, halt,
                   envVars, histVars>>

\* while (!thread_stop)
ReaderCheck ==
    /\ rpc = "check"
    /\ rpc' = IF thread_stop THEN "exit" ELSE "poll"
    /\ UNCHANGED <<queueVars, rintrs, rpkt, mainVars, privVars, connVars, halt,
                   envVars, histVars>>

\* poll times out or is interrupted, or there is nothing to read after all.
ReaderTimeout ==
    /\ rpc = "poll"
    /\ rpc' = "check"
    /\ UNCHANGED <<queueVars, rintrs, rpkt, mainVars, privVars, connVars, halt,
                   envVars, histVars>>

\* poll or read fails for good, or read reports EOF.
ReaderDisconnect ==
    /\ rpc = "poll"
    /\ rpc' = "exit"
    /\ UNCHANGED <<queueVars, rintrs, rpkt, mainVars, privVars, connVars, halt,
                   envVars, histVars>>

\* read returns some bytes, k of them interrupt characters.
ReaderRead(k) ==
    /\ rpc = "poll"
    /\ nintr + k <= MaxIntr
    /\ nintr' = nintr + k
    /\ rintrs' = k
    /\ rpc' = "scan"
    /\ UNCHANGED <<queueVars, rpkt, mainVars, privVars, connVars, halt, nread,
                   runs, histVars>>

\* Mutant: the scan runs one character too far.
ReaderScanTooFar ==
    /\ rpc = "scan"
    /\ rpc' = CASE rintrs >= 0 /\ async_io_enable  -> "callback"
                [] rintrs >= 0 /\ ~async_io_enable -> "signal"
                [] OTHER                           -> "next"
    /\ UNCHANGED <<queueVars, rintrs, rpkt, mainVars, privVars, connVars, halt,
                   envVars, histVars>>

\* The next INTR_CHAR: load async_io_enable.  None left: go on to the packets.
ReaderScan ==
    /\ rpc = "scan"
    /\ rpc' = CASE rintrs > 0 /\ async_io_enable  -> "callback"
                [] rintrs > 0 /\ ~async_io_enable -> "signal"
                [] OTHER                          -> "next"
    /\ UNCHANGED <<queueVars, rintrs, rpkt, mainVars, privVars, connVars, halt,
                   envVars, histVars>>

\* ops->on_interrupt: emu_on_interrupt stores halt.
OnInterrupt ==
    /\ rpc = "callback"
    /\ halt' = TRUE
    /\ rpc' = "signal"
    /\ UNCHANGED <<queueVars, rintrs, rpkt, mainVars, privVars, connVars,
                   envVars, histVars>>

ReaderSignal ==
    /\ rpc = "signal"
    /\ SignalInterrupt
    /\ rintrs' = rintrs - 1
    /\ rpc' = "scan"
    /\ UNCHANGED <<rpkt, mainVars, privVars, connVars, halt, envVars, histVars>>

\* while (pktbuf_is_complete) pktbuf_pop_packet: the buffer holds a complete
\* packet p, or none is left.
ReaderNext(p) ==
    /\ rpc = "next"
    /\ p # NULL => p.id = nread + 1
    /\ nread' = IF p = NULL THEN nread ELSE nread + 1
    /\ rpkt' = p
    /\ rpc' = IF p = NULL THEN "check" ELSE "push"
    /\ UNCHANGED <<queueVars, rintrs, mainVars, privVars, connVars, halt, nintr,
                   runs, histVars>>

ReaderPush ==
    /\ rpc = "push"
    /\ Push(rpkt)
    /\ rpc' = "ack"
    /\ UNCHANGED <<rintrs, rpkt, mainVars, privVars, connVars, halt, envVars,
                   histVars>>

\* malloc fails in pktqueue_push: the packet is freed and not acknowledged.
ReaderPushFails ==
    /\ rpc = "push"
    /\ rpc' = "next"
    /\ rpkt' = NULL
    /\ UNCHANGED <<queueVars, rintrs, mainVars, privVars, connVars, halt,
                   envVars, histVars>>

\* conn_try_send_str(STR_ACK): trylock, and no ACK if main holds the mutex.
ReaderTryLock ==
    /\ rpc = "ack"
    /\ IF send_mutex = "free"
         THEN send_mutex' = "reader" /\ rpc' = "ack_write"
         ELSE UNCHANGED send_mutex /\ rpc' = "next"
    /\ UNCHANGED <<queueVars, rintrs, rpkt, mainVars, privVars, no_ack_mode,
                   failure_count, halt, envVars, histVars>>

\* The byte is written, or the socket is not writable within 100 ms; unlock.
ReaderAckWrite ==
    /\ rpc = "ack_write"
    /\ wire' = Append(wire, [kind |-> "ack", by |-> "reader", id |-> rpkt.id])
    /\ send_mutex' = "free"
    /\ rpc' = "next"
    /\ UNCHANGED <<queueVars, rintrs, rpkt, mainVars, privVars, no_ack_mode,
                   failure_count, halt, envVars, popped>>

\* Mutant: the thread ends without telling the queue.
ReaderExitSilent ==
    /\ rpc = "exit"
    /\ rpc' = "done"
    /\ UNCHANGED <<queueVars, rintrs, rpkt, mainVars, privVars, connVars, halt,
                   envVars, histVars>>

\* pktbuf_destroy, pktqueue_signal_shutdown, return
ReaderExit ==
    /\ rpc = "exit"
    /\ SignalShutdown
    /\ rpc' = "done"
    /\ UNCHANGED <<rintrs, rpkt, mainVars, privVars, connVars, halt, envVars,
                   histVars>>

ReaderStep ==
    \/ ReaderCheck \/ ReaderTimeout \/ ReaderDisconnect
    \/ \E k \in 0..MaxIntr : ReaderRead(k)
    \/ ReaderScan \/ OnInterrupt \/ ReaderSignal
    \/ \E p \in Packet \cup {NULL} : ReaderNext(p)
    \/ ReaderPush \/ ReaderPushFails \/ ReaderTryLock \/ ReaderAckWrite
    \/ ReaderExit

----------------------------------------------------------------------------
(* The main thread: gdbstub_run.                                           *)

Goto(l) == mpc' = l /\ UNCHANGED <<call, act, ret>>

\* conn_send_str(tok) and then l
SendThen(kind, l) ==
    /\ call' = [tok |-> [kind |-> kind, by |-> "main", id |-> pkt.id],
                next |-> l]
    /\ mpc' = "send"
    /\ UNCHANGED <<act, ret>>

Return(why) == mpc' = "returned" /\ ret' = why /\ UNCHANGED <<call, act>>

\* Entry of gdbstub_run when no reader thread runs: pthread_create succeeds.
RunStart ==
    /\ mpc \in {"init", "returned"} /\ ~reader_running
    /\ runs < MaxRuns
    /\ runs' = runs + 1
    /\ thread_stop' = FALSE
    /\ async_io_enable' = FALSE
    /\ reader_running' = TRUE
    /\ rpc' = "check"
    /\ Goto("pop")
    /\ UNCHANGED <<queueVars, rintrs, rpkt, connVars, halt, nread, nintr,
                   histVars>>

RunStartFails ==
    /\ mpc \in {"init", "returned"} /\ ~reader_running
    /\ runs < MaxRuns
    /\ runs' = runs + 1
    /\ thread_stop' = FALSE
    /\ async_io_enable' = FALSE
    /\ Return("nothread")
    /\ UNCHANGED <<queueVars, readerVars, reader_running, connVars, halt, nread,
                   nintr, histVars>>

\* gdbstub_run is called again while the reader thread of an earlier call is
\* still there (running or finished).
RunAgain ==
    /\ mpc = "returned" /\ reader_running
    /\ runs < MaxRuns
    /\ runs' = runs + 1
    /\ Goto("pop")
    /\ UNCHANGED <<queueVars, readerVars, privVars, connVars, halt, nread,
                   nintr, histVars>>

\* pktqueue_pop
MainPop ==
    /\ mpc = "pop"
    /\ \/ PopWait /\ Goto("pop") /\ UNCHANGED popped
       \/ PopNull /\ Goto("null") /\ UNCHANGED popped
       \/ /\ PopTake
          /\ Goto("verify")
          /\ popped' = Append(popped, Head(queue))
    /\ UNCHANGED <<readerVars, privVars, connVars, halt, envVars, wire>>

MainSpurious ==
    /\ SpuriousWakeup
    /\ UNCHANGED <<readerVars, mainVars, privVars, connVars, halt, envVars,
                   histVars>>

\* pop returned NULL: shutdown, or just an interrupt?
MainNull ==
    /\ mpc = "null"
    /\ IF shutdown THEN Return("shutdown") ELSE Goto("clear")
    /\ UNCHANGED <<queueVars, readerVars, privVars, connVars, halt, envVars,
                   histVars>>

\* Mutant: the flag stays set.
MainClearNot ==
    /\ mpc = "clear"
    /\ Goto("pop")
    /\ UNCHANGED <<queueVars, readerVars, privVars, connVars, halt, envVars,
                   histVars>>

MainClear ==
    /\ mpc = "clear"
    /\ CheckInterrupt
    /\ Goto("pop")
    /\ UNCHANGED <<readerVars, privVars, connVars, halt, envVars, histVars>>

\* Mutant: the acknowledgement does not depend on no_ack_mode.
MainVerifyAlwaysAcks ==
    /\ mpc = "verify"
    /\ LET next == IF pkt.ok THEN "process" ELSE "reject"
       IN SendThen(IF pkt.ok THEN "ack" ELSE "nack", next)
    /\ UNCHANGED <<queueVars, readerVars, privVars, connVars, halt, envVars,
                   histVars>>

\* Mutant: a packet is processed whatever its checksum.
MainVerifyProcessesAll ==
    /\ mpc = "verify"
    /\ IF no_ack_mode THEN Goto("process")
       ELSE SendThen(IF pkt.ok THEN "ack" ELSE "nack", "process")
    /\ UNCHANGED <<queueVars, readerVars, privVars, connVars, halt, envVars,
                   histVars>>

\* packet_csum_verify; ACK or NACK unless in no-ack mode
MainVerify ==
    /\ mpc = "verify"
    /\ LET next == IF pkt.ok THEN "process" ELSE "reject"
       IN IF no_ack_mode THEN Goto(next)
          ELSE SendThen(IF pkt.ok THEN "ack" ELSE "nack", next)
    /\ UNCHANGED <<queueVars, readerVars, privVars, connVars, halt, envVars,
                   histVars>>

\* Bad checksum: count it, and give up after MaxFailures in a row.
MainReject ==
    /\ mpc = "reject"
    /\ failure_count' = failure_count + 1
    /\ IF failure_count + 1 >= MaxFailures THEN Return("failures")
       ELSE Goto("pop")
    /\ UNCHANGED <<queueVars, readerVars, privVars, no_ack_mode, send_mutex,
                   halt, envVars, histVars>>

\* Mutant: "conn->failure_count = 0" is missing.
MainProcessKeepsCount ==
    /\ mpc = "process"
    /\ \/ pkt.req = "c" /\ Goto("cont_enable") /\ UNCHANGED no_ack_mode
       \/ pkt.req = "s" /\ Goto("step") /\ UNCHANGED no_ack_mode
       \/ pkt.req = "D" /\ SendThen("reply", "detach") /\ UNCHANGED no_ack_mode
       \/ pkt.req = "Q" /\ SendThen("reply", "pop") /\ no_ack_mode' = TRUE
       \/ pkt.req = "m" /\ SendThen("reply", "pop") /\ UNCHANGED no_ack_mode
    /\ UNCHANGED <<queueVars, readerVars, privVars, failure_count, send_mutex,
                   halt, envVars, histVars>>

\* gdbstub_process_packet, and the branch gdbstub_handle_event takes
MainProcess ==
    /\ mpc = "process"
    /\ failure_count' = 0
    /\ \/ pkt.req = "c" /\ Goto("cont_enable") /\ UNCHANGED no_ack_mode
       \/ pkt.req = "s" /\ Goto("step") /\ UNCHANGED no_ack_mode
       \/ pkt.req = "D" /\ SendThen("reply", "detach") /\ UNCHANGED no_ack_mode
       \/ pkt.req = "Q" /\ SendThen("reply", "pop") /\ no_ack_mode' = TRUE
       \/ pkt.req = "m" /\ SendThen("reply", "pop") /\ UNCHANGED no_ack_mode
    /\ UNCHANGED <<queueVars, readerVars, privVars, send_mutex, halt, envVars,
                   histVars>>

\* EVENT_DETACH is ACT_SHUTDOWN
MainDetach ==
    /\ mpc = "detach"
    /\ Return("act")
    /\ UNCHANGED <<queueVars, readerVars, privVars, connVars, halt, envVars,
                   histVars>>

----------------------------------------------------------------------------
(* EVENT_CONT and EVENT_STEP: the target runs in the main thread.          *)

\* Mutant: "async_io_enable(priv)" is missing.
ContEnableNot ==
    /\ mpc = "cont_enable"
    /\ Goto("cont_start")
    /\ UNCHANGED <<queueVars, readerVars, privVars, connVars, halt, envVars,
                   histVars>>

ContEnable ==
    /\ mpc = "cont_enable"
    /\ async_io_enable' = TRUE
    /\ Goto("cont_start")
    /\ UNCHANGED <<queueVars, readerVars, reader_running, thread_stop, connVars,
                   halt, envVars, histVars>>

\* Mutant: emu_start_run is left out.
ContStartHalted ==
    /\ mpc = "cont_start"
    /\ Goto("cont_loop")
    /\ UNCHANGED <<queueVars, readerVars, privVars, connVars, halt, envVars, histVars>>

\* emu_cont starts with emu_start_run
ContStart ==
    /\ mpc = "cont_start"
    /\ halt' = FALSE
    /\ Goto("cont_loop")
    /\ UNCHANGED <<queueVars, readerVars, privVars, connVars, envVars, histVars>>

\* The loop of emu_cont sees the halt flag.
ContHalted ==
    /\ mpc = "cont_loop"
    /\ halt
    /\ mpc' = "cont_disable" /\ act' = "resume" /\ UNCHANGED <<call, ret>>
    /\ UNCHANGED <<queueVars, readerVars, privVars, connVars, halt, envVars,
                   histVars>>

\* The program stops by itself: breakpoint, end of code or bad instruction
\* (ACT_RESUME), or a store to the tohost address (ACT_SHUTDOWN).
ContStops(a) ==
    /\ mpc = "cont_loop"
    /\ mpc' = "cont_disable" /\ act' = a /\ UNCHANGED <<call, ret>>
    /\ UNCHANGED <<queueVars, readerVars, privVars, connVars, halt, envVars,
                   histVars>>

\* async_io_disable, then the action: a stop reply, or the end of the run
ContDisable ==
    /\ mpc = "cont_disable"
    /\ async_io_enable' = FALSE
    /\ IF act = "resume" THEN SendThen("stop", "pop") ELSE Return("act")
    /\ UNCHANGED <<queueVars, readerVars, reader_running, thread_stop, connVars,
                   halt, envVars, histVars>>

\* Mutant: a step is not followed by a stop reply.
MainStepiSilent ==
    /\ mpc = "step"
    /\ halt' = FALSE
    /\ Goto("pop")
    /\ UNCHANGED <<queueVars, readerVars, privVars, connVars, envVars, histVars>>

\* emu_stepi clears halt, executes one instruction and returns ACT_RESUME
MainStepi ==
    /\ mpc = "step"
    /\ halt' = FALSE
    /\ SendThen("stop", "pop")
    /\ UNCHANGED <<queueVars, readerVars, privVars, connVars, envVars, histVars>>

----------------------------------------------------------------------------
(* conn_send_str: blocking lock, write, unlock.  Whether the write went     *)
(* through (Conn) makes no difference to the main thread.                  *)

SendLock ==
    /\ mpc = "send"
    /\ send_mutex = "free"
    /\ send_mutex' = "main"
    /\ UNCHANGED <<queueVars, readerVars, mainVars, privVars, no_ack_mode,
                   failure_count, halt, envVars, histVars>>

SendWrite ==
    /\ mpc = "send"
    /\ send_mutex = "main"
    /\ wire' = Append(wire, call.tok)
    /\ send_mutex' = "free"
    /\ Goto(call.next)
    /\ UNCHANGED <<queueVars, readerVars, privVars, no_ack_mode, failure_count,
                   halt, envVars, popped>>

----------------------------------------------------------------------------
(* gdbstub_close.                                                          *)

CloseStop ==
    /\ mpc = "returned"
    /\ IF reader_running
         THEN thread_stop' = TRUE /\ Goto("close_signal")
         ELSE UNCHANGED thread_stop /\ Goto("close_destroy")
    /\ UNCHANGED <<queueVars, readerVars, reader_running, async_io_enable,
                   connVars, halt, envVars, histVars>>

CloseSignal ==
    /\ mpc = "close_signal"
    /\ SignalShutdown
    /\ Goto("close_join")
    /\ UNCHANGED <<readerVars, privVars, connVars, halt, envVars, histVars>>

\* Mutant: gdbstub_close does not wait for the reader thread.
CloseJoinNot ==
    /\ mpc = "close_join"
    /\ reader_running' = FALSE
    /\ Goto("close_destroy")
    /\ UNCHANGED <<queueVars, readerVars, thread_stop, async_io_enable,
                   connVars, halt, envVars, histVars>>

\* pthread_join
CloseJoin ==
    /\ mpc = "close_join"
    /\ rpc = "done"
    /\ rpc' = "off"
    /\ reader_running' = FALSE
    /\ Goto("close_destroy")
    /\ UNCHANGED <<queueVars, rintrs, rpkt, thread_stop, async_io_enable,
                   connVars, halt, envVars, histVars>>

\* pktqueue_destroy, regbuf_destroy, conn_close, free(priv)
CloseDestroy ==
    /\ mpc = "close_destroy"
    /\ Destroy
    /\ Goto("closed")
    /\ UNCHANGED <<readerVars, privVars, connVars, halt, envVars, histVars>>

----------------------------------------------------------------------------
\* What the embedding program decides: to run, to run again, to close.
Embedder == RunStart \/ RunStartFails \/ RunAgain \/ CloseStop

\* What the program under debug decides.
Program == \E a \in {"resume", "shutdown"} : ContStops(a)

MainStep ==
    \/ MainPop \/ MainNull \/ MainClear \/ MainVerify \/ MainReject
    \/ MainProcess \/ MainDetach
    \/ ContEnable \/ ContStart \/ ContHalted \/ ContDisable \/ MainStepi
    \/ SendLock \/ SendWrite
    \/ CloseSignal \/ CloseJoin \/ CloseDestroy

\* gdbstub_close has returned; the gdbstub_t is gone.
Closed == mpc = "closed" /\ UNCHANGED vars

Next == ReaderStep \/ MainStep \/ MainSpurious \/ Embedder \/ Program \/ Closed

Spec == Init /\ [][Next]_vars

\* Both threads are scheduled; nothing is assumed of the client, of the
\* program under debug, or of the embedding program.
FairSpec == Spec /\ WF_vars(ReaderStep) /\ WF_vars(MainStep)

----------------------------------------------------------------------------
(* Types.                                                                  *)

MainPC == {"init", "pop", "null", "clear", "verify", "reject", "process",
           "detach", "cont_enable", "cont_start", "cont_loop", "cont_disable",
           "step", "send", "returned", "close_signal", "close_join",
           "close_destroy", "closed"}
ReaderPC == {"off", "check", "poll", "scan", "callback", "signal", "next", "push",
             "ack", "ack_write", "exit", "done"}

ReaderTypeOK ==
    /\ rpc \in ReaderPC
    /\ rintrs \in Nat
    /\ rpkt \in Packet \cup {NULL}

MainTypeOK ==
    /\ mpc \in MainPC
    /\ call \in SendCall
    /\ act \in {"none", "resume", "shutdown"}
    /\ ret \in {"none", "shutdown", "act", "failures", "nothread"}

StubTypeOK ==
    /\ failure_count \in Nat
    /\ send_mutex \in {"free", "main", "reader"}

FlagTypeOK ==
    /\ shutdown \in BOOLEAN /\ interrupted \in BOOLEAN /\ waiting \in BOOLEAN
    /\ reader_running \in BOOLEAN /\ thread_stop \in BOOLEAN
    /\ async_io_enable \in BOOLEAN
    /\ no_ack_mode \in BOOLEAN
    /\ halt \in BOOLEAN

QueueTypeOK ==
    /\ queue \in Seq(Packet)
    /\ pkt \in Packet \cup {NULL}

EnvTypeOK ==
    /\ nread \in Nat /\ nintr \in Nat /\ runs \in Nat
    /\ popped \in Seq(Packet)
    /\ wire \in Seq(Token)

TypeOK ==
    /\ QueueTypeOK /\ FlagTypeOK /\ ReaderTypeOK
    /\ MainTypeOK /\ StubTypeOK /\ EnvTypeOK

----------------------------------------------------------------------------
(* Safety.                                                                 *)

Closing == {"close_signal", "close_join", "close_destroy", "closed"}
Running == {"cont_start", "cont_loop", "cont_disable"}

(***************************************************************************)
(* No use after free: once gdbstub_close is about to free the queue, the   *)
(* connection and the private state, and ever after, the reader thread has *)
(* ended and been joined.                                                  *)
(***************************************************************************)
NoUseAfterFree == mpc \in {"close_destroy", "closed"} => rpc = "off"

(***************************************************************************)
(* A session that ends because the client went away has handled everything *)
(* it was sent: gdbstub_run returns on shutdown only with an empty queue,  *)
(* however many interrupts it has dealt with before.  The exception is the *)
(* one it has not: pop and the test for shutdown are two critical          *)
(* sections, and behind pop's NULL for an interrupt a packet can be pushed *)
(* before the shutdown; the interrupt is then still pending.               *)
(***************************************************************************)
DrainedWithoutInterrupt ==
    mpc = "returned" /\ ret = "shutdown" /\ ~interrupted => queue = <<>>

(***************************************************************************)
(* What the main thread puts on the wire follows the order of the          *)
(* requests: nothing for an earlier packet comes after something for a     *)
(* later one, a packet is acknowledged before it is answered and answered  *)
(* at most once, and a refused packet is not answered at all.              *)
(***************************************************************************)
MainInOrder ==
    \A i, j \in DOMAIN wire :
       i < j /\ wire[i].by = "main" /\ wire[j].by = "main" =>
          \/ wire[i].id < wire[j].id
          \/ /\ wire[i].id = wire[j].id
             /\ wire[i].kind = "ack"
             /\ wire[j].kind \in {"reply", "stop"}

(***************************************************************************)
(* The reader acknowledges a packet once, before anything is sent for a    *)
(* later one; but main, which has the packet already, may be faster and    *)
(* have answered it.                                                       *)
(***************************************************************************)
AcksInOrder ==
    \A i, j \in DOMAIN wire :
       i < j /\ wire[j].by = "reader" =>
          \/ wire[i].id < wire[j].id
          \/ wire[i].id = wire[j].id /\ wire[i].by = "main"

(***************************************************************************)
(* The two threads together: whatever the client receives is in the order  *)
(* of its packets.                                                         *)
(***************************************************************************)
AnswersInOrder == MainInOrder /\ AcksInOrder

\* The answers the main thread has sent, or tried to send, to packet p.
AnswersTo(p) ==
    {j \in DOMAIN wire : /\ wire[j].by = "main" /\ wire[j].id = p.id
                         /\ wire[j].kind \in {"reply", "stop"}}

(***************************************************************************)
(* Whenever the main loop is back at pktqueue_pop in its first run, every  *)
(* packet popped so far has got its answer: a stop reply for continue and  *)
(* step, a plain reply for the rest, none if its checksum was bad.         *)
(***************************************************************************)
EveryRequestAnswered ==
    mpc = "pop" /\ runs = 1 =>
       \A i \in DOMAIN popped :
          LET p == popped[i] IN
          IF p.ok
            THEN \E j \in AnswersTo(p) :
                    wire[j].kind = IF p.req \in {"c", "s"} THEN "stop" ELSE "reply"
            ELSE AnswersTo(p) = {}

(***************************************************************************)
(* failure_count at pktqueue_pop is the number of bad checksums since the  *)
(* last good packet, so gdbstub_run gives up only after MaxFailures bad    *)
(* packets in a row; the first run gives up at exactly that number, and is *)
(* never back at pop with as many.                                         *)
(***************************************************************************)
FailuresAreConsecutive ==
    LET n == Len(popped) IN
    mpc = "pop" \/ (mpc = "returned" /\ ret = "failures") =>
       /\ failure_count <= n
       /\ \A i \in n - failure_count + 1 .. n : ~popped[i].ok
       /\ failure_count < n => popped[n - failure_count].ok
       /\ mpc = "returned" => failure_count >= MaxFailures
       /\ runs = 1 => IF mpc = "pop" THEN failure_count < MaxFailures
                      ELSE failure_count = MaxFailures

\* The request of a packet that was popped, by its number.
IsNoAckRequest(id) ==
    \E i \in DOMAIN popped :
       popped[i].id = id /\ popped[i].ok /\ popped[i].req = "Q"

(***************************************************************************)
(* Once QStartNoAckMode has been answered, the main thread acknowledges no *)
(* later packet.  (The reader goes on to: it never looks at no_ack_mode.)  *)
(***************************************************************************)
MainHonoursNoAck ==
    \A i, j \in DOMAIN wire :
       /\ i < j
       /\ wire[i].kind = "reply" /\ IsNoAckRequest(wire[i].id)
       /\ wire[j].by = "main"
       => wire[j].kind \notin {"ack", "nack"}

----------------------------------------------------------------------------
(* The inductive invariant behind NoLostWakeup, NoUseAfterFree and         *)
(* DrainedWithoutInterrupt (see GdbstubProofs).                            *)

\* A thread that is about to use its packet has one.
PacketInv ==
    /\ mpc \in {"verify", "process", "step", "cont_enable"} \cup Running
         => pkt \in Packet
    /\ mpc = "send" /\ call.next = "process" => pkt \in Packet
    /\ rpc \in {"push", "ack", "ack_write"} => rpkt \in Packet

\* Main sleeps only inside pop, and only while there is nothing to return.
WaitInv == waiting => mpc = "pop" /\ MustWait

\* reader_running tells whether there is a thread to join, and the thread is
\* joined before anything is freed.
ThreadInv ==
    /\ reader_running <=> rpc # "off"
    /\ mpc = "init" => rpc = "off"
    /\ mpc \in {"close_signal", "close_join"} => rpc # "off"
    /\ mpc \in {"close_destroy", "closed"} => rpc = "off"

\* With no interrupt pending pop returns NULL only on shutdown, and outside
\* gdbstub_close shutdown means that the reader will push nothing more.
DrainInv ==
    /\ shutdown => rpc = "done" \/ mpc \in Closing
    /\ rpc \in {"callback", "signal"} => rintrs > 0
    /\ (mpc = "null" \/ (mpc = "returned" /\ ret = "shutdown")) /\ ~interrupted
         => shutdown /\ queue = <<>>

IInv == TypeOK /\ PacketInv /\ WaitInv /\ ThreadInv /\ DrainInv

----------------------------------------------------------------------------
(* Refinement.                                                             *)

Contract == INSTANCE Target WITH running <- mpc = "cont_loop", halt <- halt

(***************************************************************************)
(* The session uses its target as Target says and relies on no more than   *)
(* that, with gdbstub_handle_event on one thread and on_interrupt on the   *)
(* other.  Emu shows that the emulator is such a target.                   *)
(***************************************************************************)
UsesTarget == Contract!Spec

----------------------------------------------------------------------------
(* Liveness.                                                               *)

(***************************************************************************)
(* gdbstub_close always returns: the reader thread notices thread_stop, or *)
(* ends by itself, whatever it was doing.                                  *)
(***************************************************************************)
CloseTerminates == mpc = "close_signal" ~> mpc = "closed"

(***************************************************************************)
(* An interrupt character read while the target's loop is running makes    *)
(* cont return: the reader sees async_io_enable, on_interrupt sets halt,   *)
(* and the loop sees halt.                                                 *)
(***************************************************************************)
InterruptStopsLoop ==
    (rpc = "scan" /\ rintrs > 0 /\ mpc = "cont_loop") ~> mpc # "cont_loop"

(***************************************************************************)
(* The interrupt flag does not keep pktqueue_pop from blocking for ever    *)
(* (a busy loop): it is cleared, unless the target is running or           *)
(* gdbstub_run has returned.                                               *)
(***************************************************************************)
InterruptFlagIsCleared ==
    interrupted ~> (~interrupted \/ mpc \in {"cont_loop", "returned"} \cup Closing)

(***************************************************************************)
(* When the connection is gone gdbstub_run returns, unless the target      *)
(* keeps running: nothing halts the target on a disconnect.                *)
(***************************************************************************)
DisconnectEndsRun ==
    rpc = "exit" ~> mpc \in {"cont_loop", "returned"} \cup Closing

----------------------------------------------------------------------------
(* What the comments and the documentation say, and the code does not do.  *)

(***************************************************************************)
(* README on on_interrupt: "Do something when receiving interrupt from GDB *)
(* client".  An interrupt read once the continue request is being carried  *)
(* out ends the run of the target.                                         *)
(***************************************************************************)
InterruptReachesTarget ==
    (/\ rpc = "scan" /\ rintrs > 0
     /\ mpc \in {"cont_enable", "cont_start", "cont_loop"})
       ~> mpc \notin {"cont_enable", "cont_start", "cont_loop"}
==============================================================================
