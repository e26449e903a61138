------------------------------ MODULE ConnProofs ------------------------------
(***************************************************************************)
(* The send mutex keeps strings whole, for any size of the socket's        *)
(* buffer, any lengths and numbers of strings, any timeout and any number  *)
(* of signals.                                                             *)
(***************************************************************************)
EXTENDS Conn, TLAPS

Byte == [by : Thread, send : Nat, left : Nat]

\* Types of what the argument is about.
TypeInv ==
    /\ pc \in [Thread -> {"idle", "lock", "poll", "write", "unlock"}]
    /\ left \in [Thread -> Nat]
    /\ sends \in [Thread -> Nat]
    /\ send_mutex \in Thread \cup {"free"}
    /\ wire \in Seq(Byte)

\* Byte i of the wire belongs to the string that t is sending.
OfCurrent(t, i) == wire[i].by = t /\ wire[i].send = sends[t]

\* No string is on the wire before it has begun.
Numbered == \A i \in 1..Len(wire) : wire[i].send <= sends[wire[i].by]

\* A thread that waits for the mutex has sent nothing of its string.  One that
\* holds it and has sent something has sent the last byte, and its next byte
\* is the one behind that.
AtTheEnd ==
    \A t \in Thread :
      /\ pc[t] = "lock" => \A i \in 1..Len(wire) : ~OfCurrent(t, i)
      /\ pc[t] \in {"poll", "write"} =>
           \A i \in 1..Len(wire) : OfCurrent(t, i) =>
               /\ OfCurrent(t, Len(wire))
               /\ wire[Len(wire)].left = left[t] + 1

IInv == TypeInv /\ MutexMatches /\ Numbered /\ AtTheEnd /\ StringsIntact
----------------------------------------------------------------------------
\* Nothing is on its way before the first send.
LEMMA InitIInv == Init => IInv
  BY DEF Init, IInv, TypeInv, MutexMatches, Numbered, AtTheEnd, StringsIntact,
         NotInterleaved, BytesInOrder, Thread

\* A step inside a send that puts nothing on the wire: it neither begins a
\* string nor counts down the bytes left, and t stays in the send.
LEMMA QuietStep ==
  ASSUME IInv, NEW t \in Thread,
         pc[t] \in {"poll", "write"},
         NEW l \in {"poll", "write", "unlock"}, Goto(t, l),
         UNCHANGED <<left, sends, send_mutex, wire>>
  PROVE  IInv'
<1>1. TypeInv'
  BY DEF IInv, TypeInv, Goto
<1>2. MutexMatches'
  BY DEF IInv, TypeInv, MutexMatches, Goto
<1>3. Numbered' /\ StringsIntact'
  BY DEF IInv, Numbered, StringsIntact, NotInterleaved, BytesInOrder, SameString
<1>4. AtTheEnd'
  BY DEF IInv, TypeInv, AtTheEnd, OfCurrent, Goto
<1> QED
  BY <1>1, <1>2, <1>3, <1>4 DEF IInv

\* The byte that write copies continues the thread's own string.
LEMMA WriteByteIInv ==
  ASSUME IInv, NEW t \in Thread, WriteByte(t)
  PROVE  IInv'
<1> DEFINE n == Len(wire)
           b == [by |-> t, send |-> sends[t], left |-> left[t]]
<1>1. /\ pc[t] = "write" /\ left[t] > 0 /\ wire' = Append(wire, b)
      /\ left' = [left EXCEPT ![t] = left[t] - 1]
      /\ UNCHANGED <<pc, sends, send_mutex>>
  BY DEF WriteByte, At
<1>2. b \in Byte /\ n \in Nat /\ wire \in Seq(Byte)
  BY DEF IInv, TypeInv, Byte
<1>3. /\ Len(wire') = n + 1 /\ wire'[n + 1] = b
      /\ \A i \in 1..n : wire'[i] = wire[i] /\ i \in DOMAIN wire
      /\ DOMAIN wire' = 1..(n + 1)
  BY <1>1, <1>2
<1>4. \A i \in 1..n : wire[i] \in Byte
  BY <1>2
<1>5. TypeInv'
  BY <1>1, <1>2 DEF IInv, TypeInv
<1>6. MutexMatches'
  BY <1>1 DEF IInv, MutexMatches
<1>7. \A u \in Thread : pc[u] \in {"poll", "write"} => u = t
  BY <1>1 DEF IInv, MutexMatches
<1>8. Numbered'
  BY <1>1, <1>2, <1>3, <1>4 DEF IInv, TypeInv, Numbered
<1>9. AtTheEnd'
  <2>1. ASSUME NEW u \in Thread, pc'[u] = "lock", NEW i \in 1..Len(wire')
        PROVE  ~OfCurrent(u, i)'
    BY <1>1, <1>2, <1>3, <2>1 DEF IInv, AtTheEnd, OfCurrent
  <2>2. ASSUME NEW u \in Thread, pc'[u] \in {"poll", "write"}
        PROVE  OfCurrent(u, Len(wire))' /\ wire'[Len(wire')].left = left'[u] + 1
    BY <1>1, <1>2, <1>3, <1>7, <2>2 DEF IInv, TypeInv, OfCurrent
  <2> QED
    BY <2>1, <2>2 DEF AtTheEnd
<1>10. \A i \in 1..n : OfCurrent(t, i) =>
          OfCurrent(t, n) /\ wire[n].left = left[t] + 1
  BY <1>1 DEF IInv, AtTheEnd
<1>11. NotInterleaved'
  <2> SUFFICES ASSUME NEW i \in 1..(n + 1), NEW k \in 1..(n + 1), i < k,
                      wire'[i].by = wire'[k].by, wire'[i].send = wire'[k].send,
                      NEW j \in i..k
               PROVE  wire'[i].by = wire'[j].by /\ wire'[i].send = wire'[j].send
    BY <1>3 DEF NotInterleaved, SameString
  <2>1. CASE k = n + 1
    <3>1. i \in 1..n /\ OfCurrent(t, i)
      BY <1>2, <1>3, <2>1 DEF OfCurrent
    <3>2. OfCurrent(t, n) /\ n \in 1..n
      BY <1>2, <1>10, <3>1
    <3>3. j \in i..n => SameString(i, j)
      BY <1>2, <1>3, <3>1, <3>2 DEF IInv, StringsIntact, NotInterleaved, SameString,
                                     OfCurrent
    <3> QED
      BY <1>2, <1>3, <2>1, <3>1, <3>3 DEF SameString
  <2>2. CASE k \in 1..n
    BY <1>2, <1>3, <2>2 DEF IInv, StringsIntact, NotInterleaved, SameString
  <2> QED
    BY <1>2, <2>1, <2>2
<1>12. BytesInOrder'
  <2> SUFFICES ASSUME NEW i \in 1..(n + 1), i > 1, SameString(i - 1, i)'
               PROVE  wire'[i].left = wire'[i - 1].left - 1
    BY <1>3 DEF BytesInOrder
  <2>1. CASE i = n + 1
    <3>1. n \in 1..n /\ OfCurrent(t, n)
      BY <1>2, <1>3, <2>1 DEF SameString, OfCurrent
    <3> QED
      <4>1. wire'[i - 1] = wire[n] /\ wire'[i].left = left[t]
        BY <1>2, <1>3, <2>1, <3>1
      <4>2. wire[n].left = left[t] + 1 /\ left[t] \in Nat
        BY <1>10, <3>1 DEF IInv, TypeInv
      <4> QED
        BY <4>1, <4>2
  <2>2. CASE i \in 1..n
    <3>1. i - 1 \in 1..n
      BY <1>2, <2>2
    <3>2. wire'[i] = wire[i] /\ wire'[i - 1] = wire[i - 1] /\ i \in DOMAIN wire
      BY <1>3, <2>2, <3>1
    <3> QED
      BY <3>2 DEF IInv, StringsIntact, BytesInOrder, SameString
  <2> QED
    BY <1>2, <2>1, <2>2
<1> QED
  BY <1>5, <1>6, <1>8, <1>9, <1>11, <1>12 DEF IInv, StringsIntact

\* Every step of the two threads and of the client preserves the invariant.
LEMMA NextIInv == IInv /\ [Next]_vars => IInv'
<1> SUFFICES ASSUME IInv, [Next]_vars PROVE IInv'
  OBVIOUS
<1> USE DEF At, Goto
<1>1. ASSUME NEW n \in 1..MaxLen, conn_send_str(n) PROVE IInv'
  <2> USE <1>1 DEF conn_send_str, Begin
  <2>1. TypeInv'
    BY DEF IInv, TypeInv, Thread
  <2>2. MutexMatches'
    BY DEF IInv, TypeInv, MutexMatches, Thread
  <2>3. StringsIntact'
    BY DEF IInv, StringsIntact, NotInterleaved, BytesInOrder, SameString
  <2>4. \A i \in 1..Len(wire) : wire[i] \in Byte
    BY DEF IInv, TypeInv
  <2>5. Numbered'
    BY <2>4 DEF IInv, TypeInv, Numbered, Thread, Byte
  <2>6. AtTheEnd'
    <3>1. \A i \in 1..Len(wire) : ~OfCurrent("main", i)'
      BY <2>4 DEF IInv, TypeInv, Numbered, OfCurrent, Thread, Byte
    <3>2. \A i \in 1..Len(wire) : OfCurrent("reader", i)' <=> OfCurrent("reader", i)
      BY DEF IInv, TypeInv, OfCurrent, Thread
    <3>3. Len(wire) > 0 => Len(wire) \in 1..Len(wire)
      BY DEF IInv, TypeInv
    <3> QED
      BY <3>1, <3>2, <3>3 DEF IInv, TypeInv, AtTheEnd, Thread
  <2> QED
    BY <2>1, <2>2, <2>3, <2>5, <2>6 DEF IInv
<1>2. CASE conn_try_send_str
  <2> USE <1>2 DEF conn_try_send_str, Begin
  <2>1. TypeInv'
    BY DEF IInv, TypeInv, Thread
  <2>2. MutexMatches'
    BY DEF IInv, TypeInv, MutexMatches, Thread
  <2>3. StringsIntact'
    BY DEF IInv, StringsIntact, NotInterleaved, BytesInOrder, SameString
  <2>4. \A i \in 1..Len(wire) : wire[i] \in Byte
    BY DEF IInv, TypeInv
  <2>5. Numbered'
    BY <2>4 DEF IInv, TypeInv, Numbered, Thread, Byte
  <2>6. AtTheEnd'
    <3>1. \A i \in 1..Len(wire) : ~OfCurrent("reader", i)'
      BY <2>4 DEF IInv, TypeInv, Numbered, OfCurrent, Thread, Byte
    <3>2. \A i \in 1..Len(wire) : OfCurrent("main", i)' <=> OfCurrent("main", i)
      BY DEF IInv, TypeInv, OfCurrent, Thread
    <3>3. Len(wire) > 0 => Len(wire) \in 1..Len(wire)
      BY DEF IInv, TypeInv
    <3> QED
      BY <3>1, <3>2, <3>3 DEF IInv, TypeInv, AtTheEnd, Thread
  <2> QED
    BY <2>1, <2>2, <2>3, <2>5, <2>6 DEF IInv
<1>3. ASSUME NEW t \in Thread, Lock(t) PROVE IInv'
  <2> USE <1>3 DEF Lock
  <2>1. TypeInv' /\ MutexMatches'
    BY DEF IInv, TypeInv, MutexMatches, Thread
  <2>2. Numbered' /\ StringsIntact'
    BY DEF IInv, Numbered, StringsIntact, NotInterleaved, BytesInOrder, SameString
  <2>3. AtTheEnd'
    BY DEF IInv, TypeInv, AtTheEnd, OfCurrent
  <2> QED
    BY <2>1, <2>2, <2>3 DEF IInv
<1>4. ASSUME NEW t \in Thread, SendDone(t) PROVE IInv'
  BY <1>4, QuietStep DEF SendDone
<1>5. ASSUME NEW t \in Thread, PollWritable(t) PROVE IInv'
  BY <1>5, QuietStep DEF PollWritable
<1>6. ASSUME NEW t \in Thread, PollTimeout(t) PROVE IInv'
  <2>1. PICK l \in {"poll", "unlock"} : Goto(t, l)
    BY <1>6 DEF PollTimeout
  <2> QED
    BY <1>6, <2>1, QuietStep DEF PollTimeout
<1>7. ASSUME NEW t \in Thread, WriteByte(t) PROVE IInv'
  BY <1>7, WriteByteIInv
<1>8. ASSUME NEW t \in Thread, WriteReturns(t) PROVE IInv'
  BY <1>8, QuietStep DEF WriteReturns
<1>9. ASSUME NEW t \in Thread, WriteFails(t) PROVE IInv'
  BY <1>9, QuietStep DEF WriteFails
<1>10. ASSUME NEW t \in Thread, WriteInterrupted(t) PROVE IInv'
  BY <1>10, QuietStep DEF WriteInterrupted
<1>11. ASSUME NEW t \in Thread, Unlock(t) PROVE IInv'
  <2> USE <1>11 DEF Unlock
  <2>1. TypeInv' /\ MutexMatches'
    BY DEF IInv, TypeInv, MutexMatches, Thread
  <2>2. Numbered' /\ StringsIntact'
    BY DEF IInv, Numbered, StringsIntact, NotInterleaved, BytesInOrder, SameString
  <2>3. AtTheEnd'
    BY DEF IInv, TypeInv, AtTheEnd, OfCurrent
  <2> QED
    BY <2>1, <2>2, <2>3 DEF IInv
<1>12. CASE ClientReads \/ ClientLeaves \/ UNCHANGED vars
  <2>1. UNCHANGED <<pc, left, sends, send_mutex, wire>>
    BY <1>12 DEF ClientReads, ClientLeaves, vars, local
  <2> QED
    BY <2>1 DEF IInv, TypeInv, MutexMatches, Numbered, AtTheEnd, OfCurrent,
                StringsIntact, NotInterleaved, BytesInOrder, SameString
<1> QED
  BY <1>1, <1>2, <1>3, <1>4, <1>5, <1>6, <1>7, <1>8, <1>9, <1>10, <1>11, <1>12
     DEF Next, Sending

(***************************************************************************)
(* The bytes of the current sender are the last ones on the wire.          *)
(***************************************************************************)
THEOREM Invariance == Spec => []IInv
<1>1. Init => IInv
  BY InitIInv
<1>2. IInv /\ [Next]_vars => IInv'
  BY NextIInv
<1> QED
  BY <1>1, <1>2, PTL DEF Spec

(***************************************************************************)
(* "Serialize socket writes" (conn.c): what conn_send_str and              *)
(* conn_try_send_str put on the socket is one string, or the beginning of  *)
(* one, after another, across partial writes, signals, timeouts and errors.*)
(***************************************************************************)
THEOREM StringsStayIntact == Spec => []StringsIntact
<1>1. IInv => StringsIntact
  BY DEF IInv
<1> QED
  BY <1>1, Invariance, PTL

(***************************************************************************)
(* Each return path of __conn_send_str gives the send mutex back, and only *)
(* a thread inside it holds the mutex.                                     *)
(***************************************************************************)
THEOREM MutexHeldInside == Spec => []MutexMatches
<1>1. IInv => MutexMatches
  BY DEF IInv
<1> QED
  BY <1>1, Invariance, PTL
==============================================================================
