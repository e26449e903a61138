---------------------------- MODULE PktQueueProofs ----------------------------
(***************************************************************************)
(* The packet queue, for any packets and any supply of nodes: the list is  *)
(* well formed, every node has one owner and is freed once, and the linked *)
(* list under its mutex implements the atomic queue of FifoQueue.          *)
(***************************************************************************)
EXTENDS PktQueue, SequenceTheorems, WellFoundedInduction, TLAPS

\* The nodes on the list.
Linked == {order[i] : i \in DOMAIN order}

\* Each thread is in an operation of its own, and main destroys the queue only
\* when the reader has gone.
OpInv ==
    /\ op["reader"] \in {"idle", "push", "interrupt", "shutdown", "leave", "gone"}
    /\ op["main"] \in {"idle", "pop", "check", "shutdown", "destroy", "leave", "gone"}
    /\ op["main"] \in {"destroy", "gone"} => op["reader"] = "gone"

\* The reader has a node of its own exactly while it pushes, main only between
\* the unlinking and the free.
NodeInv ==
    /\ op["reader"] = "push" <=> rnode # NULL
    /\ mnode # NULL => op["main"] \in {"leave", "idle"}
    /\ rnode # NULL => mem[rnode].next = NULL

\* The nodes in use hold packets.
PktInv ==
    /\ \A i \in 1..Len(order) : mem[order[i]].pkt \in Packet
    /\ rnode # NULL => mem[rnode].pkt \in Packet
    /\ mnode # NULL => mem[mnode].pkt \in Packet

\* Main does not hold the mutex while it sleeps.
SleepInv == mutex = "main" => ~waiting

IInv == ListShape /\ OneOwner /\ OpInv /\ NodeInv /\ PktInv /\ SleepInv
----------------------------------------------------------------------------
\* Every nonempty set of numbers has a least element.
LEMMA LeastElement ==
  ASSUME NEW T \in SUBSET Nat, T # {}
  PROVE  \E m \in T : \A y \in T : m <= y
<1> DEFINE R == OpToRel(<, Nat)
<1>1. IsWellFoundedOn(R, Nat)
  BY NatLessThanWellFounded
<1>2. \A y, m \in Nat : <<y, m>> \in R <=> y < m
  BY DEF OpToRel
<1> HIDE DEF R
<1>3. PICK m \in T : \A y \in T : ~(<<y, m>> \in R)
  BY <1>1, WFMin
<1>4. ASSUME NEW y \in T PROVE m <= y
  <2>1. y \in Nat /\ m \in Nat
    OBVIOUS
  <2>2. ~(<<y, m>> \in R)
    BY <1>3
  <2>3. ~(y < m)
    BY <1>2, <2>1, <2>2
  <2> QED
    BY <2>1, <2>3
<1> QED
  BY <1>4

\* The walk of pktqueue_destroy along next reaches the nodes of the list, all
\* of them and no others.
LEMMA ChainIsList == ListShape => Chain = Linked
<1> SUFFICES ASSUME ListShape PROVE Chain = Linked
  OBVIOUS
<1> DEFINE n == Len(order)
<1>1. /\ order \in Seq(Addr) /\ n \in Nat /\ DOMAIN order = 1..n
      /\ head = IF n = 0 THEN NULL ELSE order[1]
      /\ \A i \in 1..n : mem[order[i]].next = IF i = n THEN NULL ELSE order[i + 1]
  BY DEF ListShape, TypeOK
<1> HIDE DEF n
<1>2. Linked \in SUBSET Addr
  BY <1>1 DEF Linked
<1>3. ASSUME NEW a \in Chain PROVE a \in Linked
  <2>1. head \in Linked \cup {NULL}
    BY <1>1 DEF Linked
  <2>2. \A b \in Linked : mem[b].next \in Linked \cup {NULL}
    <3> TAKE b \in Linked
    <3>1. PICK i \in 1..n : b = order[i]
      BY <1>1 DEF Linked
    <3>2. i = n \/ i + 1 \in 1..n
      BY <1>1
    <3> QED
      BY <1>1, <3>1, <3>2 DEF Linked
  <2> QED
    BY <1>2, <2>1, <2>2 DEF Chain
<1>4. ASSUME NEW S \in SUBSET Addr, head \in S \cup {NULL},
             \A b \in S : mem[b].next \in S \cup {NULL},
             NEW k \in 1..n
      PROVE  order[k] \in S
  <2> DEFINE T == {i \in 1..n : order[i] \notin S}
  <2> SUFFICES ASSUME T # {} PROVE FALSE
    OBVIOUS
  <2>1. T \in SUBSET Nat
    BY <1>1
  <2>2. PICK m \in T : \A y \in T : m <= y
    BY <2>1, LeastElement
  <2>3. order[1] \in S
    <3>1. order[1] \in Addr /\ head = order[1]
      BY <1>1
    <3> QED
      BY <1>4, <3>1, NullAssumption
  <2>4. m - 1 \in 1..n /\ m - 1 \notin T
    BY <1>1, <2>2, <2>3
  <2>5. mem[order[m - 1]].next = order[m] /\ order[m - 1] \in S /\ order[m] \in Addr
    BY <1>1, <2>4
  <2> QED
    BY <1>4, <2>5, NullAssumption
<1>5. ASSUME NEW a \in Linked PROVE a \in Chain
  <2>1. PICK k \in 1..n : a = order[k]
    BY <1>1 DEF Linked
  <2>2. \A S \in SUBSET Addr :
          (/\ head \in S \cup {NULL}
           /\ \A b \in S : mem[b].next \in S \cup {NULL}) => a \in S
    BY <1>4, <2>1
  <2> QED
    BY <1>2, <2>2 DEF Chain
<1> QED
  BY <1>3, <1>5

----------------------------------------------------------------------------
\* pktqueue_init leaves an empty list and no thread in the queue.
LEMMA InitIInv == Init => IInv
<1> SUFFICES ASSUME Init PROVE IInv
  OBVIOUS
<1>1. TypeOK
  <2>1. EmptyNode \in Node
    BY DEF EmptyNode, Node
  <2>2. mem \in [Addr -> Node]
    BY <2>1 DEF Init
  <2>3. order \in Seq(Addr) /\ allocated \in SUBSET Addr
    BY DEF Init
  <2> QED
    BY <2>2, <2>3 DEF Init, TypeOK, Thread
<1>2. Len(order) = 0 /\ DOMAIN order = {}
  BY DEF Init
<1>3. ListShape /\ OneOwner
  BY <1>1, <1>2 DEF Init, ListShape, OneOwner
<1>4. OpInv /\ NodeInv /\ PktInv /\ SleepInv
  BY <1>2 DEF Init, OpInv, NodeInv, PktInv, SleepInv, Thread
<1> QED
  BY <1>3, <1>4 DEF IInv

\* A step that leaves the list and the nodes of the threads alone.
LEMMA ControlStep ==
  ASSUME IInv, TypeOK', OpInv', SleepInv',
         UNCHANGED <<mem, allocated, head, tail, order, rnode, mnode>>,
         op'["reader"] = "push" <=> op["reader"] = "push",
         mnode # NULL => op'["main"] \in {"leave", "idle"}
  PROVE  IInv'
<1>1. ListShape' /\ OneOwner'
  BY DEF IInv, ListShape, OneOwner
<1>2. NodeInv' /\ PktInv'
  BY DEF IInv, NodeInv, PktInv
<1> QED
  BY <1>1, <1>2 DEF IInv
\* malloc: the new node is neither on the list nor in the hands of main.
LEMMA PushAllocIInv ==
  ASSUME IInv, NEW p \in Packet, PushAlloc(p)
  PROVE  IInv'
<1> DEFINE n == Len(order)
<1>1. PICK a \in Addr \ allocated :
        /\ allocated' = allocated \cup {a}
        /\ mem' = [mem EXCEPT ![a] = [pkt |-> p, next |-> NULL]]
        /\ rnode' = a
  BY DEF PushAlloc
<1>2. /\ op["reader"] = "idle" /\ op' = [op EXCEPT !["reader"] = "push"]
      /\ UNCHANGED <<head, tail, order, shutdown, interrupted, mutex, waiting, mnode, pkt>>
  BY DEF PushAlloc, flags
<1>3. TypeOK /\ rnode = NULL
  BY <1>2 DEF IInv, ListShape, NodeInv
<1>4. /\ a # NULL /\ a # mnode
      /\ \A i \in 1..n : order[i] # a
  BY <1>1, NullAssumption DEF IInv, ListShape, OneOwner
<1>5. mem'[a] = [pkt |-> p, next |-> NULL] /\ \A b \in Addr \ {a} : mem'[b] = mem[b]
  BY <1>1, <1>3 DEF TypeOK
<1>6. TypeOK'
  <2>1. [pkt |-> p, next |-> NULL] \in Node
    BY DEF Node
  <2>2. mem' \in [Addr -> Node]
    BY <1>1, <1>3, <2>1 DEF TypeOK
  <2>3. op' \in [Thread -> {"idle", "push", "interrupt", "shutdown", "pop",
                          "check", "destroy", "leave", "gone"}]
    BY <1>2, <1>3 DEF TypeOK, Thread
  <2> QED
    BY <1>1, <1>2, <1>3, <2>2, <2>3 DEF TypeOK
<1>7. \A i \in 1..n : order[i] \in Addr
  BY <1>3 DEF TypeOK
<1>8. \A i \in 1..n : mem'[order[i]] = mem[order[i]]
  BY <1>4, <1>5, <1>7
<1>9. ListShape'
  BY <1>1, <1>2, <1>6, <1>8 DEF IInv, ListShape
<1>10. OneOwner'
  <2>1. DOMAIN order = 1..n
    BY <1>3 DEF TypeOK
  <2>2. \A b : b \in Linked => b # a
    BY <1>4, <2>1 DEF Linked
  <2> QED
    BY <1>1, <1>2, <1>3, <1>4, <2>2 DEF IInv, OneOwner, Linked
<1>11. OpInv' /\ SleepInv'
  BY <1>2, <1>3 DEF IInv, OpInv, SleepInv, TypeOK, Thread
<1>12. NodeInv'
  BY <1>1, <1>2, <1>3, <1>4, <1>5 DEF IInv, NodeInv, TypeOK, Thread
<1>13. mnode # NULL => mem'[mnode] = mem[mnode]
  BY <1>3, <1>4, <1>5 DEF TypeOK
<1>14. PktInv'
  BY <1>1, <1>2, <1>5, <1>8, <1>13 DEF IInv, PktInv
<1> QED
  BY <1>9, <1>10, <1>11, <1>12, <1>14 DEF IInv
\* The list, its length and its nodes, as the proofs below use them.
LEMMA ListFacts ==
  ASSUME IInv
  PROVE  /\ TypeOK /\ Len(order) \in Nat /\ DOMAIN order = 1..Len(order)
         /\ \A i \in 1..Len(order) : order[i] \in Addr /\ order[i] # NULL
         /\ tail # NULL <=> Len(order) > 0
         /\ head # NULL <=> Len(order) > 0
         /\ Linked = {order[i] : i \in 1..Len(order)}
<1>1. TypeOK
  BY DEF IInv, ListShape
<1>2. Len(order) \in Nat /\ DOMAIN order = 1..Len(order)
  BY <1>1 DEF TypeOK
<1>3. \A i \in 1..Len(order) : order[i] \in Addr /\ order[i] # NULL
  BY <1>1, NullAssumption DEF TypeOK
<1>4. /\ tail # NULL <=> Len(order) > 0
      /\ head # NULL <=> Len(order) > 0
  <2> DEFINE n == Len(order)
  <2>1. head = (IF n = 0 THEN NULL ELSE order[1]) /\ tail = (IF n = 0 THEN NULL ELSE order[n])
    BY DEF IInv, ListShape
  <2>2. n \in Nat /\ \A i \in 1..n : order[i] # NULL
    BY <1>2, <1>3
  <2> HIDE DEF n
  <2>3. n > 0 => 1 \in 1..n /\ n \in 1..n
    BY <2>2
  <2>4. /\ tail # NULL <=> n > 0
        /\ head # NULL <=> n > 0
    BY <2>1, <2>2, <2>3
  <2> QED
    BY <2>4 DEF n
<1>5. Linked = {order[i] : i \in 1..Len(order)}
  BY <1>2 DEF Linked
<1> QED
  BY <1>1, <1>2, <1>3, <1>4, <1>5

\* Linking: the node goes behind the last one.
LEMMA PushLinkIInv ==
  ASSUME IInv, PushLink
  PROVE  IInv'
<1> DEFINE n == Len(order)
<1>1. /\ mutex = "reader" /\ op["reader"] = "push" /\ op' = [op EXCEPT !["reader"] = "leave"]
      /\ tail' = rnode /\ order' = Append(order, rnode) /\ rnode' = NULL /\ waiting' = FALSE
      /\ UNCHANGED <<mutex, allocated, shutdown, interrupted, mnode, pkt>>
  BY DEF PushLink, Inside, flags
<1>2. IF tail # NULL
      THEN mem' = [mem EXCEPT ![tail].next = rnode] /\ head' = head
      ELSE head' = rnode /\ mem' = mem
  BY DEF PushLink
<1>3. /\ TypeOK /\ n \in Nat /\ DOMAIN order = 1..n
      /\ \A i \in 1..n : order[i] \in Addr /\ order[i] # NULL
      /\ tail # NULL <=> n > 0
  BY ListFacts
<1>4. rnode \in Addr /\ rnode # NULL /\ rnode # mnode /\ \A i \in 1..n : order[i] # rnode
  <2>1. rnode # NULL
    BY <1>1 DEF IInv, NodeInv
  <2>2. rnode # mnode /\ rnode \notin {order[i] : i \in DOMAIN order}
    BY <2>1 DEF IInv, OneOwner
  <2> QED
    BY <1>3, <2>1, <2>2 DEF TypeOK
<1>5. /\ Len(order') = n + 1 /\ order'[n + 1] = rnode /\ order' \in Seq(Addr)
      /\ \A i \in 1..n : order'[i] = order[i]
  BY <1>1, <1>3, <1>4 DEF TypeOK
<1> HIDE DEF n
<1>6. tail = IF n = 0 THEN NULL ELSE order[n]
  BY DEF IInv, ListShape, n
<1>7. /\ mem' \in [Addr -> Node]
      /\ \A b \in Addr : mem'[b].pkt = mem[b].pkt
      /\ \A b \in Addr : mem'[b].next = IF b = tail THEN rnode ELSE mem[b].next
  <2>1. CASE tail # NULL
    <3>1. tail \in Addr
      BY <1>3, <2>1 DEF TypeOK
    <3>2. [mem[tail] EXCEPT !.next = rnode] \in Node
      BY <1>3, <1>4, <3>1 DEF TypeOK, Node
    <3>3. mem' = [mem EXCEPT ![tail] = [mem[tail] EXCEPT !.next = rnode]]
      BY <1>2, <2>1
    <3>4. mem[tail] \in Node
      BY <1>3, <3>1 DEF TypeOK
    <3>5. mem'[tail].next = rnode /\ mem'[tail].pkt = mem[tail].pkt
      BY <1>3, <3>1, <3>3, <3>4 DEF TypeOK, Node
    <3>6. \A b \in Addr \ {tail} : mem'[b] = mem[b]
      BY <1>3, <3>1, <3>3 DEF TypeOK
    <3>7. mem' \in [Addr -> Node]
      BY <1>3, <3>2, <3>3 DEF TypeOK
    <3> QED
      BY <3>5, <3>6, <3>7
  <2>2. CASE tail = NULL
    BY <1>2, <1>3, <2>2, NullAssumption DEF TypeOK
  <2> QED
    BY <2>1, <2>2
<1>8. TypeOK'
  <2>1. op' \in [Thread -> {"idle", "push", "interrupt", "shutdown", "pop",
                          "check", "destroy", "leave", "gone"}]
    BY <1>1, <1>3 DEF TypeOK, Thread
  <2>2. {head', tail', rnode', mnode'} \subseteq Addr \cup {NULL}
    BY <1>1, <1>2, <1>3, <1>4 DEF TypeOK
  <2> QED
    BY <1>1, <1>3, <1>5, <1>7, <2>1, <2>2 DEF TypeOK
<1>9. /\ head' = order'[1] /\ tail' = order'[n + 1]
  BY <1>1, <1>2, <1>3, <1>5 DEF IInv, ListShape, n
<1>10. ASSUME NEW i \in 1..(n + 1)
       PROVE  /\ order'[i] \in allocated'
              /\ mem'[order'[i]].next = IF i = n + 1 THEN NULL ELSE order'[i + 1]
  <2>1. CASE i = n + 1
    <3>1. rnode # tail /\ mem[rnode].next = NULL /\ rnode \in allocated
      BY <1>3, <1>4, <1>6 DEF IInv, NodeInv, OneOwner
    <3> QED
      BY <1>1, <1>4, <1>5, <1>7, <2>1, <3>1
  <2>2. CASE i \in 1..n
    <3>1. order'[i] = order[i] /\ order[i] \in allocated /\ order[i] \in Addr
      BY <1>3, <1>5, <2>2 DEF IInv, ListShape, n
    <3>2. CASE i = n
      BY <1>1, <1>3, <1>5, <1>6, <1>7, <2>2, <3>1, <3>2
    <3>3. CASE i # n
      <4>1. order[i] # order[n] /\ tail = order[n] /\ i + 1 \in 1..n
        <5>1. \A k, j \in 1..n : order[k] = order[j] => k = j
          BY DEF IInv, ListShape, n
        <5>2. n \in 1..n /\ i + 1 \in 1..n
          BY <1>3, <2>2, <3>3
        <5> QED
          BY <1>6, <2>2, <3>3, <5>1, <5>2
      <4>2. mem[order[i]].next = order[i + 1]
        BY <2>2, <3>3 DEF IInv, ListShape, n
      <4> QED
        BY <1>1, <1>3, <1>5, <1>7, <2>2, <3>1, <3>3, <4>1, <4>2
    <3> QED
      BY <3>2, <3>3
  <2> QED
    BY <1>3, <2>1, <2>2
<1>11. \A i, j \in 1..(n + 1) : order'[i] = order'[j] => i = j
  <2>1. \A i, j \in 1..n : order[i] = order[j] => i = j
    BY DEF IInv, ListShape, n
  <2> QED
    BY <1>3, <1>4, <1>5, <2>1
<1>12. ListShape'
  BY <1>3, <1>5, <1>8, <1>9, <1>10, <1>11 DEF ListShape
<1>13. OneOwner'
  <2>1. DOMAIN order' = 1..(n + 1)
    BY <1>5
  <2>2. \A b : b \in Linked' <=> b \in Linked \/ b = rnode
    BY <1>3, <1>5, <2>1 DEF Linked
  <2>3. /\ allocated = Linked \cup ({rnode, mnode} \ {NULL})
        /\ mnode \notin Linked
    BY DEF IInv, OneOwner, Linked
  <2>4. NULL \notin Linked
    BY <1>3 DEF Linked
  <2>5. allocated' = Linked' \cup ({rnode', mnode'} \ {NULL})
    BY <1>1, <1>4, <2>2, <2>3
  <2>6. rnode' \notin Linked' /\ mnode' \notin Linked'
    BY <1>1, <1>4, <2>2, <2>3, <2>4
  <2> QED
    BY <1>1, <2>5, <2>6 DEF OneOwner, Linked
<1>14. OpInv' /\ SleepInv'
  BY <1>1, <1>3 DEF IInv, OpInv, SleepInv, TypeOK, Thread
<1>15. NodeInv'
  BY <1>1, <1>3 DEF IInv, NodeInv, TypeOK, Thread
<1>16. PktInv'
  <2>1. mem'[rnode].pkt \in Packet
    BY <1>4, <1>7 DEF IInv, PktInv
  <2>2. \A i \in 1..n : mem'[order[i]].pkt \in Packet
    BY <1>3, <1>7 DEF IInv, PktInv, n
  <2>3. mnode # NULL => mem'[mnode].pkt \in Packet
    BY <1>3, <1>7 DEF IInv, PktInv, TypeOK
  <2> QED
    BY <1>1, <1>3, <1>5, <2>1, <2>2, <2>3 DEF PktInv
<1> QED
  BY <1>12, <1>13, <1>14, <1>15, <1>16 DEF IInv
\* Unlinking: the first node goes from the list to main.
LEMMA PopUnlinkIInv ==
  ASSUME IInv, PopUnlink
  PROVE  IInv'
<1> DEFINE n == Len(order)
<1>1. /\ mutex = "main" /\ op["main"] = "pop" /\ op' = [op EXCEPT !["main"] = "leave"]
      /\ head # NULL /\ mnode' = head /\ head' = mem[head].next
      /\ tail' = (IF mem[head].next = NULL THEN NULL ELSE tail)
      /\ order' = Tail(order)
      /\ UNCHANGED <<mutex, mem, allocated, shutdown, interrupted, waiting, rnode, pkt>>
  BY DEF PopUnlink, Inside, flags
<1>2. /\ TypeOK /\ n \in Nat /\ DOMAIN order = 1..n /\ n > 0 /\ order \in Seq(Addr)
      /\ \A i \in 1..n : order[i] \in Addr /\ order[i] # NULL
  BY <1>1, ListFacts DEF TypeOK
<1>3. /\ Len(order') = n - 1 /\ order' \in Seq(Addr)
      /\ \A i \in 1..(n - 1) : order'[i] = order[i + 1]
  BY <1>1, <1>2
<1>4. /\ head = order[1] /\ tail = order[n]
      /\ \A i \in 1..n : /\ order[i] \in allocated
                         /\ mem[order[i]].next = IF i = n THEN NULL ELSE order[i + 1]
      /\ \A i, j \in 1..n : order[i] = order[j] => i = j
  <2>1. /\ head = (IF n = 0 THEN NULL ELSE order[1])
        /\ tail = (IF n = 0 THEN NULL ELSE order[n])
    BY DEF IInv, ListShape
  <2>2. \A i \in 1..n : /\ order[i] \in allocated
                         /\ mem[order[i]].next = IF i = n THEN NULL ELSE order[i + 1]
    BY DEF IInv, ListShape
  <2>3. \A i, j \in 1..n : order[i] = order[j] => i = j
    BY DEF IInv, ListShape
  <2>4. n # 0
    BY <1>2
  <2> QED
    BY <2>1, <2>2, <2>3, <2>4
<1>5. mnode = NULL
  BY <1>1 DEF IInv, NodeInv
<1>6. /\ allocated = Linked \cup ({rnode, mnode} \ {NULL})
      /\ rnode \notin Linked
  BY DEF IInv, OneOwner, Linked
<1>7. \A i \in 1..n : mem[order[i]].pkt \in Packet
  BY DEF IInv, PktInv
<1>8. DOMAIN order' = 1..(n - 1)
  BY <1>3
<1> HIDE DEF n
<1>9. /\ 1 \in 1..n /\ n \in 1..n
      /\ \A i \in 1..(n - 1) : i \in 1..n /\ i + 1 \in 1..n
  BY <1>2
<1>10. mem[head].next = IF n = 1 THEN NULL ELSE order[2]
  <2>1. mem[order[1]].next = IF 1 = n THEN NULL ELSE order[1 + 1]
    BY <1>4, <1>9
  <2>2. 1 + 1 = 2
    OBVIOUS
  <2> QED
    BY <1>4, <2>1, <2>2
<1>11. /\ head' = IF n = 1 THEN NULL ELSE order'[1]
       /\ tail' = IF n = 1 THEN NULL ELSE order'[n - 1]
  <2>1. CASE n = 1
    BY <1>1, <1>10, <2>1
  <2>2. CASE n # 1
    <3>1. 1 \in 1..(n - 1) /\ n - 1 \in 1..(n - 1) /\ 2 \in 1..n
      BY <1>2, <2>2
    <3>2. order'[1] = order[2] /\ order'[n - 1] = order[n] /\ order[2] # NULL
      BY <1>2, <1>3, <3>1
    <3> QED
      BY <1>1, <1>4, <1>10, <2>2, <3>2
  <2> QED
    BY <2>1, <2>2
<1>12. TypeOK'
  <2>1. op' \in [Thread -> {"idle", "push", "interrupt", "shutdown", "pop",
                          "check", "destroy", "leave", "gone"}]
    BY <1>1, <1>2 DEF TypeOK, Thread
  <2>2. {head', tail', rnode', mnode'} \subseteq Addr \cup {NULL}
    <3>1. mem[head].next \in Addr \cup {NULL}
      BY <1>2, <1>4, <1>9 DEF TypeOK, Node
    <3> QED
      BY <1>1, <1>2, <3>1 DEF TypeOK
  <2> QED
    BY <1>1, <1>2, <1>3, <2>1, <2>2 DEF TypeOK
<1>13. ASSUME NEW i \in 1..(n - 1)
       PROVE  /\ order'[i] \in allocated
              /\ mem[order'[i]].next = IF i = n - 1 THEN NULL ELSE order'[i + 1]
  <2>1. order'[i] = order[i + 1] /\ i + 1 \in 1..n /\ i \in Nat
    BY <1>3, <1>9
  <2>2. i # n - 1 => i + 1 \in 1..(n - 1)
    BY <1>2
  <2>3. i # n - 1 => order'[i + 1] = order[(i + 1) + 1]
    BY <1>3, <2>2
  <2>4. i = n - 1 <=> i + 1 = n
    BY <1>2
  <2> QED
    BY <1>4, <2>1, <2>3, <2>4
<1>14. \A i, j \in 1..(n - 1) : order'[i] = order'[j] => i = j
  <2> SUFFICES ASSUME NEW i \in 1..(n - 1), NEW j \in 1..(n - 1), order'[i] = order'[j]
               PROVE  i = j
    OBVIOUS
  <2>1. order[i + 1] = order[j + 1] /\ i + 1 \in 1..n /\ j + 1 \in 1..n
    BY <1>3, <1>9
  <2>2. i + 1 = j + 1
    BY <1>4, <2>1
  <2> QED
    BY <2>2
<1>15. ListShape'
  <2>1. n - 1 = 0 <=> n = 1
    BY <1>2
  <2> QED
    BY <1>1, <1>3, <1>11, <1>12, <1>13, <1>14, <2>1 DEF ListShape
<1>16. OneOwner'
  <2>1. \A b : b \in Linked' <=> b \in Linked /\ b # head
    <3>1. ASSUME NEW b \in Linked' PROVE b \in Linked /\ b # head
      <4>1. PICK i \in 1..(n - 1) : b = order'[i]
        BY <1>8 DEF Linked
      <4>2. b = order[i + 1] /\ i + 1 \in 1..n /\ i + 1 # 1
        BY <1>3, <1>9, <4>1
      <4> QED
        BY <1>2, <1>4, <1>9, <4>2 DEF Linked
    <3>2. ASSUME NEW b \in Linked, b # head PROVE b \in Linked'
      <4>1. PICK i \in 1..n : b = order[i]
        BY <1>2 DEF Linked
      <4>2. i - 1 \in 1..(n - 1) /\ (i - 1) + 1 = i
        BY <1>2, <1>4, <3>2, <4>1
      <4>3. order'[i - 1] = b
        BY <1>3, <4>1, <4>2
      <4> QED
        BY <1>8, <4>2, <4>3 DEF Linked
    <3> QED
      BY <3>1, <3>2
  <2>2. head \in Linked
    BY <1>2, <1>4, <1>9 DEF Linked
  <2>3. allocated' = Linked' \cup ({rnode', mnode'} \ {NULL})
    BY <1>1, <1>5, <1>6, <2>1, <2>2
  <2>4. rnode' \notin Linked' /\ mnode' \notin Linked' /\ rnode' # mnode'
    BY <1>1, <1>6, <2>1, <2>2
  <2> QED
    BY <2>3, <2>4 DEF OneOwner, Linked
<1>17. OpInv' /\ SleepInv'
  BY <1>1, <1>2 DEF IInv, OpInv, SleepInv, TypeOK, Thread
<1>18. NodeInv'
  BY <1>1, <1>2 DEF IInv, NodeInv, TypeOK, Thread
<1>19. PktInv'
  <2>1. \A i \in 1..(n - 1) : mem[order'[i]].pkt \in Packet
    BY <1>3, <1>7, <1>9
  <2>2. mem[head].pkt \in Packet
    BY <1>4, <1>7, <1>9
  <2> QED
    BY <1>1, <1>3, <2>1, <2>2 DEF IInv, PktInv
<1> QED
  BY <1>15, <1>16, <1>17, <1>18, <1>19 DEF IInv

\* free(node): no one else has a pointer to it.
LEMMA PopReturnIInv ==
  ASSUME IInv, PopReturn
  PROVE  IInv'
<1>1. /\ op["main"] = "idle" /\ mnode # NULL /\ pkt' = mem[mnode].pkt
      /\ allocated' = allocated \ {mnode} /\ mnode' = NULL
      /\ UNCHANGED <<mem, head, tail, order, shutdown, interrupted, mutex, waiting, op, rnode>>
  BY DEF PopReturn, flags
<1>2. TypeOK /\ NULL \notin Linked
  BY ListFacts DEF Linked
<1>3. /\ allocated = Linked \cup ({rnode, mnode} \ {NULL})
      /\ rnode \notin Linked /\ mnode \notin Linked /\ (rnode # NULL => rnode # mnode)
  BY DEF IInv, OneOwner, Linked
<1>4. TypeOK'
  BY <1>1, <1>2 DEF TypeOK, Node
<1>5. OneOwner'
  <2>1. Linked' = Linked
    BY <1>1 DEF Linked
  <2>2. allocated' = Linked \cup ({rnode, NULL} \ {NULL})
    BY <1>1, <1>3
  <2> QED
    BY <1>1, <1>2, <1>3, <2>1, <2>2 DEF OneOwner, Linked
<1>6. ListShape'
  <2>1. \A i \in 1..Len(order) : order[i] \in Linked
    BY ListFacts DEF Linked
  <2>2. \A i \in 1..Len(order) : order[i] \in allocated'
    BY <1>1, <1>3, <2>1
  <2> QED
    BY <1>1, <1>4, <2>2 DEF IInv, ListShape
<1>7. OpInv' /\ NodeInv' /\ PktInv' /\ SleepInv'
  BY <1>1 DEF IInv, OpInv, NodeInv, PktInv, SleepInv
<1> QED
  BY <1>5, <1>6, <1>7 DEF IInv

\* pktqueue_destroy frees what is pending, and nothing else is left by then.
LEMMA DestroyIInv ==
  ASSUME IInv, pktqueue_destroy
  PROVE  IInv'
<1>1. /\ mutex = "main" /\ op["main"] = "destroy" /\ allocated' = allocated \ Chain
      /\ head' = NULL /\ tail' = NULL /\ order' = <<>> /\ mutex' = "free"
      /\ op' = [op EXCEPT !["main"] = "gone"]
      /\ UNCHANGED <<mem, shutdown, interrupted, waiting, rnode, mnode, pkt>>
  BY DEF pktqueue_destroy, flags, locals
<1>2. TypeOK /\ Chain = Linked
  BY ChainIsList DEF IInv, ListShape
<1>3. rnode = NULL /\ mnode = NULL
  BY <1>1 DEF IInv, OpInv, NodeInv
<1>4. allocated' = {}
  <2>1. allocated = Linked \cup ({rnode, mnode} \ {NULL})
    BY DEF IInv, OneOwner, Linked
  <2> QED
    BY <1>1, <1>2, <1>3, <2>1
<1>5. TypeOK'
  <2>1. op' \in [Thread -> {"idle", "push", "interrupt", "shutdown", "pop",
                          "check", "destroy", "leave", "gone"}]
    BY <1>1, <1>2 DEF TypeOK, Thread
  <2> QED
    BY <1>1, <1>2, <1>4, <2>1 DEF TypeOK
<1>6. Len(order') = 0 /\ DOMAIN order' = {}
  BY <1>1
<1>7. ListShape' /\ OneOwner' /\ PktInv'
  BY <1>1, <1>3, <1>4, <1>5, <1>6 DEF ListShape, OneOwner, PktInv
<1>8. OpInv' /\ NodeInv' /\ SleepInv'
  BY <1>1, <1>2, <1>3 DEF IInv, OpInv, NodeInv, SleepInv, TypeOK, Thread
<1> QED
  BY <1>7, <1>8 DEF IInv
\* Every step of the two threads preserves the invariant.
LEMMA NextIInv == IInv /\ [Next]_vars => IInv'
<1> SUFFICES ASSUME IInv, [Next]_vars PROVE IInv'
  OBVIOUS
<1> DEFINE Ops == {"idle", "push", "interrupt", "shutdown", "pop",
                   "check", "destroy", "leave", "gone"}
<1>0. TypeOK
  BY DEF IInv, ListShape
<1> USE <1>0 DEF list, flags, locals
<1>1. ASSUME NEW p \in Packet, PushAlloc(p) PROVE IInv'
  BY <1>1, PushAllocIInv
<1>2. ASSUME NEW t \in Thread, NEW o \in Ops, Call(t, o),
             t = "reader" => o \in {"interrupt", "shutdown"},
             t = "main" => o \in {"pop", "check", "shutdown", "destroy"},
             o = "destroy" => op["reader"] = "gone"
      PROVE  IInv'
  <2>1. TypeOK'
    BY <1>2 DEF Call, TypeOK, Thread
  <2>2. OpInv' /\ SleepInv'
    BY <1>2 DEF Call, IInv, OpInv, SleepInv, TypeOK, Thread
  <2>3. /\ UNCHANGED <<mem, allocated, head, tail, order, rnode, mnode>>
        /\ op'["reader"] = "push" <=> op["reader"] = "push"
        /\ mnode # NULL => op'["main"] \in {"leave", "idle"}
    BY <1>2 DEF Call, IInv, NodeInv, TypeOK, Thread
  <2> QED
    BY <2>1, <2>2, <2>3, ControlStep
<1>3. ASSUME NEW t \in Thread, Lock(t) PROVE IInv'
  <2>1. TypeOK' /\ OpInv' /\ SleepInv'
    BY <1>3 DEF Lock, IInv, TypeOK, OpInv, SleepInv, Thread
  <2>2. UNCHANGED <<mem, allocated, head, tail, order, rnode, mnode, op>>
    BY <1>3 DEF Lock
  <2> QED
    BY <2>1, <2>2, ControlStep DEF IInv, NodeInv
<1>4. ASSUME NEW t \in Thread, Unlock(t) PROVE IInv'
  <2>1. TypeOK'
    BY <1>4 DEF Unlock, TypeOK, Thread
  <2>2. OpInv' /\ SleepInv'
    BY <1>4 DEF Unlock, IInv, OpInv, SleepInv, TypeOK, Thread
  <2>3. /\ UNCHANGED <<mem, allocated, head, tail, order, rnode, mnode>>
        /\ op'["reader"] = "push" <=> op["reader"] = "push"
        /\ mnode # NULL => op'["main"] \in {"leave", "idle"}
    BY <1>4 DEF Unlock, IInv, NodeInv, TypeOK, Thread
  <2> QED
    BY <2>1, <2>2, <2>3, ControlStep
<1>5. CASE PushLink
  BY <1>5, PushLinkIInv
<1>6. ASSUME NEW t \in Thread, NEW o \in {"interrupt", "shutdown", "check", "pop"},
             Inside(t, o), TypeOK', waiting' \in {waiting, FALSE},
             UNCHANGED <<mem, allocated, head, tail, order, rnode, mnode>>
      PROVE  IInv'
  <2>1. OpInv' /\ SleepInv'
    BY <1>6 DEF Inside, IInv, OpInv, SleepInv, TypeOK, Thread
  <2>2. /\ op'["reader"] = "push" <=> op["reader"] = "push"
        /\ mnode # NULL => op'["main"] \in {"leave", "idle"}
    BY <1>6 DEF Inside, IInv, NodeInv, TypeOK, Thread
  <2> QED
    BY <1>6, <2>1, <2>2, ControlStep
<1>7. ASSUME NEW t \in Thread, pktqueue_signal_shutdown(t) PROVE IInv'
  <2>1. TypeOK'
    BY <1>7 DEF pktqueue_signal_shutdown, Inside, TypeOK, Thread
  <2> QED
    BY <1>6, <1>7, <2>1 DEF pktqueue_signal_shutdown
<1>8. CASE pktqueue_signal_interrupt
  <2>1. TypeOK'
    BY <1>8 DEF pktqueue_signal_interrupt, Inside, TypeOK, Thread
  <2> QED
    BY <1>6, <1>8, <2>1 DEF pktqueue_signal_interrupt, Thread
<1>9. CASE pktqueue_check_interrupt
  <2>1. TypeOK'
    BY <1>9 DEF pktqueue_check_interrupt, Inside, TypeOK, Thread
  <2> QED
    BY <1>6, <1>9, <2>1 DEF pktqueue_check_interrupt, Thread
<1>10. CASE PopNull
  <2>1. TypeOK'
    BY <1>10 DEF PopNull, Inside, TypeOK, Thread
  <2> QED
    BY <1>6, <1>10, <2>1 DEF PopNull, Thread
<1>11. CASE PopWait \/ SpuriousWakeup
  <2>1. TypeOK' /\ OpInv' /\ SleepInv'
    BY <1>11 DEF PopWait, SpuriousWakeup, IInv, TypeOK, OpInv, SleepInv, Thread
  <2>2. UNCHANGED <<mem, allocated, head, tail, order, rnode, mnode, op>>
    BY <1>11 DEF PopWait, SpuriousWakeup
  <2> QED
    BY <2>1, <2>2, ControlStep DEF IInv, NodeInv
<1>12. CASE PopUnlink
  BY <1>12, PopUnlinkIInv
<1>13. CASE PopReturn
  BY <1>13, PopReturnIInv
<1>14. CASE ReaderEnds
  <2>1. TypeOK'
    BY <1>14 DEF ReaderEnds, TypeOK, Thread
  <2>2. OpInv' /\ SleepInv'
    BY <1>14 DEF ReaderEnds, IInv, OpInv, SleepInv, TypeOK, Thread
  <2>3. /\ UNCHANGED <<mem, allocated, head, tail, order, rnode, mnode>>
        /\ op'["reader"] = "push" <=> op["reader"] = "push"
        /\ mnode # NULL => op'["main"] \in {"leave", "idle"}
    BY <1>14 DEF ReaderEnds, IInv, NodeInv, TypeOK, Thread
  <2> QED
    BY <2>1, <2>2, <2>3, ControlStep
<1>15. CASE pktqueue_destroy
  BY <1>15, DestroyIInv
<1>16. CASE Destroyed \/ UNCHANGED vars
  <2>1. UNCHANGED vars
    BY <1>16 DEF Destroyed
  <2>2. TypeOK' /\ OpInv' /\ SleepInv'
    BY <2>1 DEF vars, IInv, TypeOK, OpInv, SleepInv
  <2>3. UNCHANGED <<mem, allocated, head, tail, order, rnode, mnode, op>>
    BY <2>1 DEF vars
  <2> QED
    BY <2>2, <2>3, ControlStep DEF IInv, NodeInv
<1>17. CASE Reader
  BY <1>1, <1>2, <1>3, <1>4, <1>5, <1>7, <1>8, <1>14, <1>17 DEF Reader, Thread
<1>18. CASE Main
  BY <1>2, <1>3, <1>4, <1>7, <1>9, <1>10, <1>11, <1>12, <1>13, <1>15, <1>18
     DEF Main, Thread
<1> QED
  BY <1>16, <1>17, <1>18 DEF Next

(***************************************************************************)
(* The list, the owners of its nodes and the operations of the two threads *)
(* agree throughout.                                                       *)
(***************************************************************************)
THEOREM Invariance == Spec => []IInv
<1>1. Init => IInv
  BY InitIInv
<1>2. IInv /\ [Next]_vars => IInv'
  BY NextIInv
<1> QED
  BY <1>1, <1>2, PTL DEF Spec

(***************************************************************************)
(* pktqueue_push and pktqueue_pop keep head, tail and the next pointers    *)
(* those of one chain of live, distinct nodes.                             *)
(***************************************************************************)
THEOREM ListWellFormed == Spec => []ListShape
<1>1. IInv => ListShape
  BY DEF IInv
<1> QED
  BY <1>1, Invariance, PTL

(***************************************************************************)
(* No node leaks, none is freed while the list or the other thread has it, *)
(* and pktqueue_destroy frees all that is pending.                         *)
(***************************************************************************)
THEOREM NodesOwnedOnce == Spec => []OneOwner
<1>1. IInv => OneOwner
  BY DEF IInv
<1> QED
  BY <1>1, Invariance, PTL
----------------------------------------------------------------------------
(* The refinement: what FifoQueue calls queue and pkt.                     *)

Queue == [i \in 1..Len(order) |-> mem[order[i]].pkt]
Popped == IF mnode # NULL THEN mem[mnode].pkt ELSE pkt

\* A function on 1..n is a sequence.
LEMMA FunctionIsSeq ==
  ASSUME NEW n \in Nat, NEW f \in [1..n -> Packet]
  PROVE  f \in Seq(Packet) /\ Len(f) = n
  OBVIOUS

\* The packets of the linked nodes are a sequence, empty when head is NULL.
LEMMA QueueFacts ==
  ASSUME IInv
  PROVE  /\ Queue \in Seq(Packet) /\ Len(Queue) = Len(order)
         /\ \A i \in 1..Len(order) : Queue[i] = mem[order[i]].pkt
         /\ Queue = <<>> <=> head = NULL
<1> DEFINE n == Len(order)
           f == [i \in 1..n |-> mem[order[i]].pkt]
<1>1. n \in Nat /\ (head # NULL <=> n > 0)
  BY ListFacts
<1>2. \A i \in 1..n : mem[order[i]].pkt \in Packet
  BY DEF IInv, PktInv
<1> HIDE DEF n
<1>3. f \in [1..n -> Packet]
  BY <1>2
<1>4. f \in Seq(Packet) /\ Len(f) = n
  BY <1>1, <1>3, FunctionIsSeq
<1>5. f = <<>> <=> n = 0
  <2> HIDE DEF f
  <2> QED
    BY <1>1, <1>4, EmptySeq, SeqEqual
<1> QED
  BY <1>1, <1>4, <1>5 DEF Queue, n

\* A step that leaves the list alone, and the packets of its nodes.
LEMMA SameQueue ==
  ASSUME IInv, order' = order, \A i \in 1..Len(order) : mem'[order[i]] = mem[order[i]]
  PROVE  Queue' = Queue
  BY DEF Queue

\* pktqueue_push takes effect when it links the node.
LEMMA PushLinkRefines ==
  ASSUME IInv, IInv', PushLink
  PROVE  \E p \in Packet : /\ Queue' = Append(Queue, p) /\ waiting' = FALSE
                           /\ UNCHANGED <<shutdown, interrupted, Popped>>
<1> DEFINE n == Len(order)
           p == mem[rnode].pkt
<1>1. /\ op["reader"] = "push" /\ order' = Append(order, rnode) /\ waiting' = FALSE
      /\ UNCHANGED <<shutdown, interrupted, mnode, pkt>>
  BY DEF PushLink, Inside, flags
<1>2. /\ TypeOK /\ n \in Nat /\ \A i \in 1..n : order[i] \in Addr
      /\ (tail # NULL => tail \in Addr)
  BY ListFacts DEF TypeOK
<1>3. rnode # NULL /\ rnode \in Addr /\ p \in Packet
  BY <1>1, <1>2 DEF IInv, NodeInv, PktInv, TypeOK
<1>4. Len(order') = n + 1 /\ order'[n + 1] = rnode /\ \A i \in 1..n : order'[i] = order[i]
  BY <1>1, <1>2, <1>3 DEF TypeOK
<1>5. \A b \in Addr : mem'[b].pkt = mem[b].pkt
  <2>1. CASE tail # NULL
    <3>1. mem' = [mem EXCEPT ![tail] = [mem[tail] EXCEPT !.next = rnode]]
      BY <2>1 DEF PushLink
    <3>2. mem[tail] \in Node
      BY <1>2, <2>1 DEF TypeOK
    <3>3. mem'[tail].pkt = mem[tail].pkt
      BY <1>2, <2>1, <3>1, <3>2 DEF TypeOK, Node
    <3> QED
      BY <1>2, <2>1, <3>1, <3>3 DEF TypeOK
  <2>2. CASE tail = NULL
    BY <2>2 DEF PushLink
  <2> QED
    BY <2>1, <2>2
<1>6. Queue' = Append(Queue, p)
  <2>1. /\ Queue \in Seq(Packet) /\ Len(Queue) = n
        /\ \A i \in 1..n : Queue[i] = mem[order[i]].pkt
    BY QueueFacts
  <2>2. /\ Queue' \in Seq(Packet) /\ Len(Queue') = n + 1
        /\ \A i \in 1..(n + 1) : Queue'[i] = mem'[order'[i]].pkt
    <3>1. Queue' = [i \in 1..(n + 1) |-> mem'[order'[i]].pkt]
      BY <1>4 DEF Queue
    <3>2. Queue' \in [1..(n + 1) -> Packet]
      BY <1>4, <3>1 DEF IInv, PktInv
    <3>3. n + 1 \in Nat
      BY <1>2
    <3> QED
      BY <3>1, <3>2, <3>3, FunctionIsSeq
  <2> HIDE DEF n, p
  <2>3. /\ Append(Queue, p) \in Seq(Packet) /\ Len(Append(Queue, p)) = n + 1
        /\ Append(Queue, p)[n + 1] = p
        /\ \A i \in 1..n : Append(Queue, p)[i] = Queue[i]
    BY <1>3, <2>1
  <2>4. \A i \in 1..(n + 1) : Queue'[i] = Append(Queue, p)[i]
    <3> TAKE i \in 1..(n + 1)
    <3>1. CASE i = n + 1
      BY <1>3, <1>4, <1>5, <2>2, <2>3, <3>1 DEF p
    <3>2. CASE i \in 1..n
      BY <1>2, <1>4, <1>5, <2>1, <2>2, <2>3, <3>2
    <3>3. n \in Nat
      BY <1>2
    <3>4. i = n + 1 \/ i \in 1..n
      BY <3>3
    <3> QED
      BY <3>1, <3>2, <3>4
  <2> QED
    BY <2>2, <2>3, <2>4, SeqEqual
<1>7. Popped' = Popped
  BY <1>1, <1>2, <1>5 DEF Popped, TypeOK
<1> QED
  BY <1>1, <1>3, <1>6, <1>7
\* pktqueue_pop takes effect when it unlinks the node.
LEMMA PopUnlinkRefines ==
  ASSUME IInv, IInv', PopUnlink
  PROVE  /\ Queue # <<>> /\ Queue' = Tail(Queue) /\ Popped' = Head(Queue)
         /\ ~waiting /\ UNCHANGED <<shutdown, interrupted, waiting>>
<1> DEFINE n == Len(order)
<1>1. /\ mutex = "main" /\ op["main"] = "pop"
      /\ head # NULL /\ mnode' = head /\ order' = Tail(order)
      /\ UNCHANGED <<mem, shutdown, interrupted, waiting>>
  BY DEF PopUnlink, Inside, flags
<1>2. /\ n \in Nat /\ n > 0 /\ order \in Seq(Addr) /\ TypeOK
  BY <1>1, ListFacts DEF TypeOK
<1>3. head = order[1]
  BY <1>2 DEF IInv, ListShape
<1>4. Len(order') = n - 1 /\ \A i \in 1..(n - 1) : order'[i] = order[i + 1]
  BY <1>1, <1>2
<1>5. /\ Queue \in Seq(Packet) /\ Len(Queue) = n /\ Queue # <<>>
      /\ \A i \in 1..n : Queue[i] = mem[order[i]].pkt
  BY <1>1, QueueFacts
<1>6. /\ Queue' = [i \in 1..(n - 1) |-> mem[order'[i]].pkt]
      /\ \A i \in 1..(n - 1) : mem[order'[i]].pkt \in Packet
  BY <1>1, <1>4 DEF IInv, PktInv, Queue
<1> HIDE DEF n
<1>7. Queue' \in Seq(Packet) /\ Len(Queue') = n - 1
  <2>1. Queue' \in [1..(n - 1) -> Packet] /\ n - 1 \in Nat
    BY <1>2, <1>6
  <2> QED
    BY <2>1, FunctionIsSeq
<1>8. Queue' = Tail(Queue)
  <2>1. /\ Tail(Queue) \in Seq(Packet) /\ Len(Tail(Queue)) = n - 1
        /\ \A i \in 1..(n - 1) : Tail(Queue)[i] = Queue[i + 1]
    BY <1>5, HeadTailProperties
  <2>2. \A i \in 1..(n - 1) : Queue'[i] = Tail(Queue)[i]
    <3> TAKE i \in 1..(n - 1)
    <3>1. i + 1 \in 1..n
      BY <1>2
    <3> QED
      BY <1>4, <1>5, <1>6, <2>1, <3>1
  <2> QED
    BY <1>7, <2>1, <2>2, SeqEqual
<1>9. Popped' = Head(Queue)
  <2>1. Popped' = mem[order[1]].pkt
    BY <1>1, <1>3 DEF Popped
  <2>2. Head(Queue) = Queue[1] /\ 1 \in 1..n
    BY <1>2, <1>5
  <2> QED
    BY <1>5, <2>1, <2>2
<1> QED
  BY <1>1, <1>5, <1>8, <1>9 DEF IInv, SleepInv

(***************************************************************************)
(* The linked list of pktqueue.c, under its mutex and condition variable,  *)
(* implements the atomic FIFO queue of FifoQueue: push, pop, the signals   *)
(* and destroy take effect in one step each, and no other step is seen.    *)
(***************************************************************************)
THEOREM RefinesFifo == Spec => ImplementsFifo
<1>1. Init => Fifo!QueueInit
  <2> SUFFICES ASSUME Init PROVE Fifo!QueueInit
    OBVIOUS
  <2>1. Queue = <<>>
    BY DEF Init, Queue
  <2> QED
    BY <2>1 DEF Init, Queue, Fifo!QueueInit
<1>2. IInv /\ IInv' /\ [Next]_vars => [Fifo!QueueNext]_(Fifo!queueVars)
  <2> SUFFICES ASSUME IInv, IInv', [Next]_vars
               PROVE  \/ Fifo!QueueNext
                      \/ UNCHANGED <<Queue, shutdown, interrupted, waiting, Popped>>
    BY DEF Fifo!queueVars, Queue, Popped
  <2> USE DEF Fifo!QueueNext
  <2>0. TypeOK
    BY ListFacts
  <2>1. ASSUME NEW p \in Packet, PushAlloc(p)
        PROVE  UNCHANGED <<Queue, shutdown, interrupted, waiting, Popped>>
    <3>1. PICK a \in Addr \ allocated : mem' = [mem EXCEPT ![a] = [pkt |-> p, next |-> NULL]]
      BY <2>1 DEF PushAlloc
    <3>2. UNCHANGED <<order, shutdown, interrupted, waiting, mnode, pkt>>
      BY <2>1 DEF PushAlloc, flags
    <3>3. a # mnode /\ \A i \in 1..Len(order) : order[i] # a /\ order[i] \in Addr
      BY <2>0, <3>1, NullAssumption DEF IInv, ListShape, OneOwner, TypeOK
    <3>4. /\ \A i \in 1..Len(order) : mem'[order[i]] = mem[order[i]]
          /\ mnode # NULL => mem'[mnode] = mem[mnode]
      BY <2>0, <3>1, <3>3 DEF TypeOK
    <3> QED
      BY <3>2, <3>4, SameQueue DEF Popped
  <2>2. ASSUME UNCHANGED <<mem, order, mnode, pkt>>
        PROVE  Queue' = Queue /\ Popped' = Popped
    BY <2>2 DEF Queue, Popped
  <2>3. ASSUME NEW t, NEW o, Call(t, o) \/ Lock(t) \/ Unlock(t) \/ ReaderEnds
        PROVE  UNCHANGED <<Queue, shutdown, interrupted, waiting, Popped>>
    BY <2>2, <2>3 DEF Call, Lock, Unlock, ReaderEnds, list, flags, locals
  <2>4. CASE PushLink
    BY <2>4, PushLinkRefines DEF Fifo!Push, Queue, Popped
  <2>5. ASSUME NEW t, pktqueue_signal_shutdown(t) PROVE Fifo!SignalShutdown
    BY <2>2, <2>5 DEF pktqueue_signal_shutdown, list, locals, Fifo!SignalShutdown, Queue, Popped
  <2>6. CASE pktqueue_signal_interrupt
    BY <2>2, <2>6 DEF pktqueue_signal_interrupt, list, locals, Fifo!SignalInterrupt, Queue, Popped
  <2>7. CASE pktqueue_check_interrupt
    BY <2>2, <2>7 DEF pktqueue_check_interrupt, list, locals, Fifo!CheckInterrupt, Queue, Popped
  <2>8. CASE PopWait
    BY <2>2, <2>8, QueueFacts
       DEF PopWait, list, flags, locals, IInv, SleepInv, Fifo!PopWait, Fifo!MustWait, Queue, Popped
  <2>9. CASE SpuriousWakeup
    BY <2>2, <2>9 DEF SpuriousWakeup, list, flags, locals, Fifo!SpuriousWakeup, Queue, Popped
  <2>10. CASE PopNull
    <3>1. mnode = NULL /\ ~waiting
      BY <2>10 DEF PopNull, Inside, IInv, NodeInv, SleepInv
    <3>2. Queue' = Queue /\ Queue = <<>>
      BY <2>10, QueueFacts DEF PopNull, list, Queue
    <3>3. Popped' = NULL
      BY <2>10, <3>1 DEF PopNull, Popped
    <3> QED
      BY <2>10, <3>1, <3>2, <3>3
         DEF PopNull, flags, Fifo!PopNull, Fifo!MustWait, Queue, Popped
  <2>11. CASE PopUnlink
    BY <2>11, PopUnlinkRefines DEF Fifo!PopTake, Queue, Popped
  <2>12. CASE PopReturn
    BY <2>12 DEF PopReturn, flags, Queue, Popped
  <2>13. CASE pktqueue_destroy
    <3>1. Queue' = <<>>
      BY <2>13 DEF pktqueue_destroy, Queue
    <3>2. Popped' = Popped
      BY <2>13 DEF pktqueue_destroy, locals, Popped
    <3> QED
      BY <2>13, <3>1, <3>2 DEF pktqueue_destroy, flags, Fifo!Destroy, Queue, Popped
  <2>14. CASE Destroyed \/ UNCHANGED vars
    BY <2>2, <2>14 DEF Destroyed, vars
  <2> QED
    BY <2>1, <2>3, <2>4, <2>5, <2>6, <2>7, <2>8, <2>9, <2>10, <2>11, <2>12, <2>13, <2>14
       DEF Next, Reader, Main
<1> QED
  BY <1>1, <1>2, Invariance, PTL DEF Spec, ImplementsFifo, Fifo!QueueSpec
==============================================================================
