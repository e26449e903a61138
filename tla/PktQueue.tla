------------------------------- MODULE PktQueue -------------------------------
(***************************************************************************)
(* src/pktqueue.c: the queue between the reader thread and the main thread *)
(* as a singly linked list of malloc'ed nodes under a mutex and a          *)
(* condition variable.  Each operation is split where another thread can   *)
(* run: before the mutex is taken, while it is held, after it is released. *)
(***************************************************************************)
EXTENDS Sequences, Naturals

CONSTANTS Packet,  \* packets the reader may push
          Addr,    \* addresses malloc may return for a pktqueue_node_t
          NULL     \* the null pointer

ASSUME NullAssumption == NULL \notin Packet /\ NULL \notin Addr

VARIABLES mem,          \* node contents by address: [pkt, next]
          allocated,    \* addresses malloc'ed and not freed
          head, tail,   \* pktqueue_t.head, pktqueue_t.tail
          shutdown, interrupted,
          mutex,        \* the thread that holds pktqueue_t.mutex, or "free"
          waiting,      \* main sleeps in pthread_cond_wait
          op,           \* the operation each thread is in
          rnode,        \* reader: the node push has filled and not yet linked
          mnode,        \* main: the node pop has unlinked and not yet freed
          pkt,          \* main: what the last pop returned
          order         \* history: the linked nodes, oldest first

vars == <<mem, allocated, head, tail, shutdown, interrupted, mutex, waiting,
          op, rnode, mnode, pkt, order>>

Thread == {"reader", "main"}
Node == [pkt : Packet \cup {NULL}, next : Addr \cup {NULL}]
EmptyNode == [pkt |-> NULL, next |-> NULL]

Init ==
    /\ mem = [a \in Addr |-> EmptyNode]
    /\ allocated = {}
    /\ head = NULL /\ tail = NULL
    /\ shutdown = FALSE /\ interrupted = FALSE
    /\ mutex = "free"
    /\ waiting = FALSE
    /\ op = [t \in Thread |-> "idle"]
    /\ rnode = NULL /\ mnode = NULL
    /\ pkt = NULL
    /\ order = <<>>

list == <<mem, allocated, head, tail, order>>
flags == <<shutdown, interrupted>>
locals == <<rnode, mnode, pkt>>

----------------------------------------------------------------------------
(* Entering and leaving the critical section.                              *)

\* A thread calls an operation that needs no preparation.
Call(t, o) ==
    /\ op[t] = "idle"
    /\ t = "main" => mnode = NULL
    /\ op' = [op EXCEPT ![t] = o]
    /\ UNCHANGED <<list, flags, mutex, waiting, locals>>

\* pthread_mutex_lock; a thread asleep in cond_wait does not contend.
Lock(t) ==
    /\ op[t] \notin {"idle", "leave", "gone"}
    /\ t = "main" => ~waiting
    /\ mutex = "free"
    /\ mutex' = t
    /\ UNCHANGED <<list, flags, waiting, op, locals>>

Unlock(t) ==
    /\ mutex = t
    /\ op[t] = "leave"
    /\ mutex' = "free"
    /\ op' = [op EXCEPT ![t] = "idle"]
    /\ UNCHANGED <<list, flags, waiting, locals>>

\* Inside the critical section t carries out o; Unlock follows.
Inside(t, o) ==
    /\ mutex = t
    /\ op[t] = o
    /\ op' = [op EXCEPT ![t] = "leave"]
    /\ UNCHANGED mutex

----------------------------------------------------------------------------
(* pktqueue_push, by the reader thread.                                    *)

\* node = malloc(...); node->pkt = pkt; node->next = NULL, before the lock.  (If
\* malloc fails push returns at once and nothing has changed.)
PushAlloc(p) ==
    /\ op["reader"] = "idle"
    /\ \E a \in Addr \ allocated :
         /\ allocated' = allocated \cup {a}
         /\ mem' = [mem EXCEPT ![a] = [pkt |-> p, next |-> NULL]]
         /\ rnode' = a
    /\ op' = [op EXCEPT !["reader"] = "push"]
    /\ UNCHANGED <<head, tail, order, flags, mutex, waiting, mnode, pkt>>

\* Mutant: the new node is put in front of the list.
PushLinkFront ==
    /\ Inside("reader", "push")
    /\ mem' = [mem EXCEPT ![rnode].next = head]
    /\ head' = rnode
    /\ tail' = IF tail = NULL THEN rnode ELSE tail
    /\ order' = <<rnode>> \o order
    /\ rnode' = NULL
    /\ waiting' = FALSE
    /\ UNCHANGED <<allocated, flags, mnode, pkt>>

\* Append behind tail, or start the list; then pthread_cond_signal.
PushLink ==
    /\ Inside("reader", "push")
    /\ IF tail # NULL
         THEN mem' = [mem EXCEPT ![tail].next = rnode] /\ UNCHANGED head
         ELSE head' = rnode /\ UNCHANGED mem
    /\ tail' = rnode
    /\ order' = Append(order, rnode)
    /\ rnode' = NULL
    /\ waiting' = FALSE
    /\ UNCHANGED <<allocated, flags, mnode, pkt>>

----------------------------------------------------------------------------
(* The flags: set by either thread, each with a wake-up.                   *)

pktqueue_signal_shutdown(t) ==
    /\ Inside(t, "shutdown")
    /\ shutdown' = TRUE
    /\ waiting' = FALSE
    /\ UNCHANGED <<list, interrupted, locals>>

pktqueue_signal_interrupt ==
    /\ Inside("reader", "interrupt")
    /\ interrupted' = TRUE
    /\ waiting' = FALSE
    /\ UNCHANGED <<list, shutdown, locals>>

pktqueue_check_interrupt ==
    /\ Inside("main", "check")
    /\ interrupted' = FALSE
    /\ UNCHANGED <<list, shutdown, waiting, locals>>

----------------------------------------------------------------------------
(* pktqueue_pop, by the main thread.                                       *)

\* while (!head && !shutdown && !interrupted) pthread_cond_wait(...)
PopWait ==
    /\ mutex = "main" /\ op["main"] = "pop"
    /\ head = NULL /\ ~shutdown /\ ~interrupted
    /\ waiting' = TRUE
    /\ mutex' = "free"
    /\ UNCHANGED <<list, flags, op, locals>>

SpuriousWakeup ==
    /\ waiting
    /\ waiting' = FALSE
    /\ UNCHANGED <<list, flags, mutex, op, locals>>

PopNull ==
    /\ Inside("main", "pop")
    /\ head = NULL /\ (shutdown \/ interrupted)
    /\ pkt' = NULL
    /\ UNCHANGED <<list, flags, waiting, rnode, mnode>>

\* Mutant: "if (!queue->head) queue->tail = NULL" is missing.
PopUnlinkKeepsTail ==
    /\ Inside("main", "pop")
    /\ head # NULL
    /\ mnode' = head
    /\ head' = mem[head].next
    /\ order' = Tail(order)
    /\ UNCHANGED <<mem, allocated, tail, flags, waiting, rnode, pkt>>

\* node = head; head = node->next; if (!head) tail = NULL
PopUnlink ==
    /\ Inside("main", "pop")
    /\ head # NULL
    /\ mnode' = head
    /\ head' = mem[head].next
    /\ tail' = IF mem[head].next = NULL THEN NULL ELSE tail
    /\ order' = Tail(order)
    /\ UNCHANGED <<mem, allocated, flags, waiting, rnode, pkt>>

\* Mutant: free(node) is missing.
PopReturnLeaks ==
    /\ op["main"] = "idle"
    /\ mnode # NULL
    /\ pkt' = mem[mnode].pkt
    /\ mnode' = NULL
    /\ UNCHANGED <<mem, allocated, head, tail, order, flags, mutex, waiting,
                   op, rnode>>

\* After the unlock: pkt = node->pkt; free(node); return pkt
PopReturn ==
    /\ op["main"] = "idle"
    /\ mnode # NULL
    /\ pkt' = mem[mnode].pkt
    /\ allocated' = allocated \ {mnode}
    /\ mnode' = NULL
    /\ UNCHANGED <<mem, head, tail, order, flags, mutex, waiting, op, rnode>>

----------------------------------------------------------------------------
\* The reader thread ends; only then does gdbstub_close reach destroy.
ReaderEnds ==
    /\ op["reader"] = "idle"
    /\ op' = [op EXCEPT !["reader"] = "gone"]
    /\ UNCHANGED <<list, flags, mutex, waiting, locals>>

\* The nodes on the chain that starts at head: the least set that holds head
\* and is closed under next.
Chain ==
    {a \in Addr :
       \A S \in SUBSET Addr :
          (/\ head \in S \cup {NULL}
           /\ \A b \in S : mem[b].next \in S \cup {NULL}) => a \in S}

\* pktqueue_destroy walks the chain and frees every node; the main thread
\* uses the queue no more.
pktqueue_destroy ==
    /\ mutex = "main" /\ op["main"] = "destroy"
    /\ allocated' = allocated \ Chain
    /\ head' = NULL /\ tail' = NULL
    /\ order' = <<>>
    /\ mutex' = "free"
    /\ op' = [op EXCEPT !["main"] = "gone"]
    /\ UNCHANGED <<mem, flags, waiting, locals>>

Reader ==
    \/ \E p \in Packet : PushAlloc(p)
    \/ \E o \in {"interrupt", "shutdown"} : Call("reader", o)
    \/ Lock("reader") \/ Unlock("reader")
    \/ PushLink \/ pktqueue_signal_interrupt
    \/ pktqueue_signal_shutdown("reader")
    \/ ReaderEnds

Main ==
    \/ \E o \in {"pop", "check", "shutdown"} : Call("main", o)
    \/ op["reader"] = "gone" /\ Call("main", "destroy")
    \/ Lock("main") \/ Unlock("main")
    \/ PopWait \/ SpuriousWakeup \/ PopNull \/ PopUnlink \/ PopReturn
    \/ pktqueue_check_interrupt
    \/ pktqueue_signal_shutdown("main")
    \/ pktqueue_destroy

\* The queue has been destroyed: nothing more happens to it.
Destroyed == op["main"] = "gone" /\ UNCHANGED vars

Next == Reader \/ Main \/ Destroyed

Spec == Init /\ [][Next]_vars

----------------------------------------------------------------------------
TypeOK ==
    /\ mem \in [Addr -> Node]
    /\ allocated \in SUBSET Addr
    /\ {head, tail, rnode, mnode} \subseteq Addr \cup {NULL}
    /\ shutdown \in BOOLEAN /\ interrupted \in BOOLEAN /\ waiting \in BOOLEAN
    /\ mutex \in Thread \cup {"free"}
    /\ op \in [Thread -> {"idle", "push", "interrupt", "shutdown", "pop",
                          "check", "destroy", "leave", "gone"}]
    /\ pkt \in Packet \cup {NULL}
    /\ order \in Seq(Addr)

(***************************************************************************)
(* The pointers and the list agree: head and tail are the ends of one      *)
(* NULL-terminated chain of live, distinct nodes, so neither push (through *)
(* tail) nor pop (through head) touches a freed node.                      *)
(***************************************************************************)
ListShape ==
    LET n == Len(order) IN
    /\ TypeOK
    /\ head = IF n = 0 THEN NULL ELSE order[1]
    /\ tail = IF n = 0 THEN NULL ELSE order[n]
    /\ \A i \in 1..n : /\ order[i] \in allocated
                       /\ mem[order[i]].next = IF i = n THEN NULL ELSE order[i + 1]
    /\ \A i, j \in 1..n : order[i] = order[j] => i = j

(***************************************************************************)
(* Every live node has exactly one owner: the list, the push that filled   *)
(* it, or the pop that unlinked it.  In particular nothing is leaked, also *)
(* after pktqueue_destroy has freed the pending nodes.                     *)
(***************************************************************************)
OneOwner ==
    LET linked == {order[i] : i \in DOMAIN order} IN
    /\ allocated = linked \cup ({rnode, mnode} \ {NULL})
    /\ rnode \notin linked /\ mnode \notin linked
    /\ rnode # NULL => rnode # mnode

(***************************************************************************)
(* The linked list under its mutex and condition variable implements the   *)
(* atomic queue of FifoQueue.  pop takes effect when it unlinks the node;  *)
(* from then on the packet in the node is what it returns.                 *)
(***************************************************************************)
Fifo == INSTANCE FifoQueue WITH
          queue <- [i \in 1..Len(order) |-> mem[order[i]].pkt],
          pkt <- IF mnode # NULL THEN mem[mnode].pkt ELSE pkt

\* Refinement: every behaviour of pktqueue.c is one of the atomic FIFO.
ImplementsFifo == Fifo!QueueSpec
==============================================================================
