---------------------------- MODULE GdbstubProofs ----------------------------
(***************************************************************************)
(* Proofs about Gdbstub for every set of packets and every bound.  IInv is *)
(* inductive (InitIInv, NextIInv) and gives the hand-over between the      *)
(* threads and the use of the target.  SessionInv, inductive relative to   *)
(* it, gives what the main thread says to the client.                      *)
(***************************************************************************)
EXTENDS Gdbstub, SequenceTheorems, TLAPS

\* A send that the main thread starts is well typed: it has a packet.
LEMMA CallType ==
    ASSUME NEW q \in Packet,
           NEW k \in {"ack", "nack", "reply", "stop"},
           NEW l \in {"pop", "process", "reject", "detach"}
    PROVE  [tok |-> [kind |-> k, by |-> "main", id |-> q.id], next |-> l]
             \in SendCall
  BY PacketAssumption DEF SendCall, Token

\* gdbstub_init leaves a state that satisfies the inductive invariant.
LEMMA InitIInv == Init => IInv
<1> SUFFICES ASSUME Init PROVE IInv
  OBVIOUS
<1> USE DEF Init, QueueInit
<1>1. FlagTypeOK
  BY DEF FlagTypeOK
<1>2. QueueTypeOK /\ ReaderTypeOK /\ StubTypeOK /\ EnvTypeOK
  BY DEF QueueTypeOK, ReaderTypeOK, ReaderPC, StubTypeOK, EnvTypeOK
<1>3. NoCall \in SendCall
  BY DEF NoCall, NoToken, SendCall, Token
<1>4. MainTypeOK
  BY <1>3 DEF MainTypeOK, MainPC
<1>5. PacketInv /\ WaitInv /\ ThreadInv /\ DrainInv
  BY DEF PacketInv, Running, WaitInv, ThreadInv, DrainInv, Closing
<1> QED
  BY <1>1, <1>2, <1>4, <1>5 DEF IInv, TypeOK

(***************************************************************************)
(* Every step of either thread, of the embedding program and of the        *)
(* program under debug preserves the invariant.  In each case the flags    *)
(* (1), the other types (2, 3) and the four parts of the invariant (4, 5)  *)
(* are steps of their own.                                                 *)
(***************************************************************************)
LEMMA NextIInv == IInv /\ [Next]_vars => IInv'
<1> SUFFICES ASSUME IInv, [Next]_vars PROVE IInv'
  OBVIOUS
<1> USE DEF IInv, TypeOK
<1> USE DEF vars, queueVars, readerVars, mainVars, privVars, connVars, envVars,
            histVars, Goto, SendThen, Return
<1>1. CASE ReaderCheck
  <2>1. FlagTypeOK'
    BY <1>1 DEF FlagTypeOK, ReaderCheck
  <2>2. QueueTypeOK' /\ ReaderTypeOK' /\ StubTypeOK'
    BY <1>1 DEF QueueTypeOK, ReaderTypeOK, ReaderPC, StubTypeOK, ReaderCheck
  <2>3. MainTypeOK' /\ EnvTypeOK'
    BY <1>1 DEF MainTypeOK, MainPC, EnvTypeOK, ReaderCheck
  <2>4. PacketInv' /\ WaitInv' /\ ThreadInv'
    BY <1>1 DEF PacketInv, WaitInv, MustWait, ThreadInv, Running, FlagTypeOK,
       QueueTypeOK, ReaderCheck
  <2>5. DrainInv'
    BY <1>1 DEF DrainInv, ThreadInv, MustWait, Closing, EnvTypeOK,
       ReaderTypeOK, ReaderCheck
  <2> QED
    BY <2>1, <2>2, <2>3, <2>4, <2>5
<1>2. CASE ReaderTimeout
  <2>1. FlagTypeOK'
    BY <1>2 DEF FlagTypeOK, ReaderTimeout
  <2>2. QueueTypeOK' /\ ReaderTypeOK' /\ StubTypeOK'
    BY <1>2 DEF QueueTypeOK, ReaderTypeOK, ReaderPC, StubTypeOK, ReaderTimeout
  <2>3. MainTypeOK' /\ EnvTypeOK'
    BY <1>2 DEF MainTypeOK, MainPC, EnvTypeOK, ReaderTimeout
  <2>4. PacketInv' /\ WaitInv' /\ ThreadInv'
    BY <1>2 DEF PacketInv, WaitInv, MustWait, ThreadInv, Running, FlagTypeOK,
       QueueTypeOK, ReaderTimeout
  <2>5. DrainInv'
    BY <1>2 DEF DrainInv, ThreadInv, MustWait, Closing, EnvTypeOK,
       ReaderTypeOK, ReaderTimeout
  <2> QED
    BY <2>1, <2>2, <2>3, <2>4, <2>5
<1>3. CASE ReaderDisconnect
  <2>1. FlagTypeOK'
    BY <1>3 DEF FlagTypeOK, ReaderDisconnect
  <2>2. QueueTypeOK' /\ ReaderTypeOK' /\ StubTypeOK'
    BY <1>3 DEF QueueTypeOK, ReaderTypeOK, ReaderPC, StubTypeOK,
       ReaderDisconnect
  <2>3. MainTypeOK' /\ EnvTypeOK'
    BY <1>3 DEF MainTypeOK, MainPC, EnvTypeOK, ReaderDisconnect
  <2>4. PacketInv' /\ WaitInv' /\ ThreadInv'
    BY <1>3 DEF PacketInv, WaitInv, MustWait, ThreadInv, Running, FlagTypeOK,
       QueueTypeOK, ReaderDisconnect
  <2>5. DrainInv'
    BY <1>3 DEF DrainInv, ThreadInv, MustWait, Closing, EnvTypeOK,
       ReaderTypeOK, ReaderDisconnect
  <2> QED
    BY <2>1, <2>2, <2>3, <2>4, <2>5
<1>4. CASE \E k \in 0..MaxIntr : ReaderRead(k)
  <2>0. PICK k \in 0..MaxIntr : ReaderRead(k)
    BY <1>4
  <2>1. FlagTypeOK'
    BY <2>0 DEF FlagTypeOK, ReaderRead
  <2>2. QueueTypeOK' /\ ReaderTypeOK' /\ StubTypeOK'
    BY <2>0 DEF QueueTypeOK, ReaderTypeOK, ReaderPC, StubTypeOK, ReaderRead
  <2>3. MainTypeOK' /\ EnvTypeOK'
    BY <2>0 DEF MainTypeOK, MainPC, EnvTypeOK, ReaderRead
  <2>4. PacketInv' /\ WaitInv' /\ ThreadInv'
    BY <2>0 DEF PacketInv, WaitInv, MustWait, ThreadInv, Running, FlagTypeOK,
       QueueTypeOK, ReaderRead
  <2>5. DrainInv'
    BY <2>0 DEF DrainInv, ThreadInv, MustWait, Closing, EnvTypeOK,
       ReaderTypeOK, ReaderRead
  <2> QED
    BY <2>1, <2>2, <2>3, <2>4, <2>5
<1>5. CASE ReaderScan
  <2>1. FlagTypeOK'
    BY <1>5 DEF FlagTypeOK, ReaderScan
  <2>2. QueueTypeOK' /\ ReaderTypeOK' /\ StubTypeOK'
    BY <1>5 DEF QueueTypeOK, ReaderTypeOK, ReaderPC, StubTypeOK, ReaderScan
  <2>3. MainTypeOK' /\ EnvTypeOK'
    BY <1>5 DEF MainTypeOK, MainPC, EnvTypeOK, ReaderScan
  <2>4. PacketInv' /\ WaitInv' /\ ThreadInv'
    BY <1>5 DEF PacketInv, WaitInv, MustWait, ThreadInv, Running, FlagTypeOK,
       QueueTypeOK, ReaderScan
  <2>5. DrainInv'
    BY <1>5 DEF DrainInv, ThreadInv, MustWait, Closing, EnvTypeOK,
       ReaderTypeOK, ReaderScan
  <2> QED
    BY <2>1, <2>2, <2>3, <2>4, <2>5
<1>6. CASE OnInterrupt
  <2>1. FlagTypeOK'
    BY <1>6 DEF FlagTypeOK, OnInterrupt
  <2>2. QueueTypeOK' /\ ReaderTypeOK' /\ StubTypeOK'
    BY <1>6 DEF QueueTypeOK, ReaderTypeOK, ReaderPC, StubTypeOK, OnInterrupt
  <2>3. MainTypeOK' /\ EnvTypeOK'
    BY <1>6 DEF MainTypeOK, MainPC, EnvTypeOK, OnInterrupt
  <2>4. PacketInv' /\ WaitInv' /\ ThreadInv'
    BY <1>6 DEF PacketInv, WaitInv, MustWait, ThreadInv, Running, FlagTypeOK,
       QueueTypeOK, OnInterrupt
  <2>5. DrainInv'
    BY <1>6 DEF DrainInv, ThreadInv, MustWait, Closing, EnvTypeOK,
       ReaderTypeOK, OnInterrupt
  <2> QED
    BY <2>1, <2>2, <2>3, <2>4, <2>5
<1>7. CASE ReaderSignal
  <2>1. FlagTypeOK'
    BY <1>7 DEF FlagTypeOK, ReaderSignal, SignalInterrupt
  <2>2. QueueTypeOK' /\ ReaderTypeOK' /\ StubTypeOK'
    BY <1>7 DEF QueueTypeOK, ReaderTypeOK, ReaderPC, StubTypeOK, ReaderSignal,
       SignalInterrupt, DrainInv
  <2>3. MainTypeOK' /\ EnvTypeOK'
    BY <1>7 DEF MainTypeOK, MainPC, EnvTypeOK, ReaderSignal, SignalInterrupt
  <2>4. PacketInv' /\ WaitInv' /\ ThreadInv'
    BY <1>7 DEF PacketInv, WaitInv, MustWait, ThreadInv, Running, FlagTypeOK,
       QueueTypeOK, ReaderSignal, SignalInterrupt
  <2>5. DrainInv'
    BY <1>7 DEF DrainInv, ThreadInv, MustWait, Closing, EnvTypeOK,
       ReaderTypeOK, ReaderSignal, SignalInterrupt
  <2> QED
    BY <2>1, <2>2, <2>3, <2>4, <2>5
<1>8. CASE \E p \in Packet \cup {NULL} : ReaderNext(p)
  <2>0. PICK p \in Packet \cup {NULL} : ReaderNext(p)
    BY <1>8
  <2>1. FlagTypeOK'
    BY <2>0 DEF FlagTypeOK, ReaderNext
  <2>2. QueueTypeOK' /\ ReaderTypeOK' /\ StubTypeOK'
    BY <2>0 DEF QueueTypeOK, ReaderTypeOK, ReaderPC, StubTypeOK, ReaderNext
  <2>3. MainTypeOK' /\ EnvTypeOK'
    BY <2>0 DEF MainTypeOK, MainPC, EnvTypeOK, ReaderNext
  <2>4. PacketInv' /\ WaitInv' /\ ThreadInv'
    BY <2>0 DEF PacketInv, WaitInv, MustWait, ThreadInv, Running, FlagTypeOK,
       QueueTypeOK, ReaderNext
  <2>5. DrainInv'
    BY <2>0 DEF DrainInv, ThreadInv, MustWait, Closing, EnvTypeOK,
       ReaderTypeOK, ReaderNext
  <2> QED
    BY <2>1, <2>2, <2>3, <2>4, <2>5
<1>9. CASE ReaderPush
  <2>1. FlagTypeOK'
    BY <1>9 DEF FlagTypeOK, ReaderPush, Push
  <2>2. QueueTypeOK' /\ ReaderTypeOK' /\ StubTypeOK'
    BY <1>9 DEF QueueTypeOK, ReaderTypeOK, ReaderPC, StubTypeOK, ReaderPush,
       Push, PacketInv
  <2>3. MainTypeOK' /\ EnvTypeOK'
    BY <1>9 DEF MainTypeOK, MainPC, EnvTypeOK, ReaderPush, Push
  <2>4. PacketInv' /\ WaitInv' /\ ThreadInv'
    BY <1>9 DEF PacketInv, WaitInv, MustWait, ThreadInv, Running, FlagTypeOK,
       QueueTypeOK, ReaderPush, Push
  <2>5. DrainInv'
    BY <1>9 DEF DrainInv, ThreadInv, MustWait, Closing, EnvTypeOK,
       ReaderTypeOK, ReaderPush, Push
  <2> QED
    BY <2>1, <2>2, <2>3, <2>4, <2>5
<1>10. CASE ReaderPushFails
  <2>1. FlagTypeOK'
    BY <1>10 DEF FlagTypeOK, ReaderPushFails
  <2>2. QueueTypeOK' /\ ReaderTypeOK' /\ StubTypeOK'
    BY <1>10 DEF QueueTypeOK, ReaderTypeOK, ReaderPC, StubTypeOK,
       ReaderPushFails
  <2>3. MainTypeOK' /\ EnvTypeOK'
    BY <1>10 DEF MainTypeOK, MainPC, EnvTypeOK, ReaderPushFails
  <2>4. PacketInv' /\ WaitInv' /\ ThreadInv'
    BY <1>10 DEF PacketInv, WaitInv, MustWait, ThreadInv, Running, FlagTypeOK,
       QueueTypeOK, ReaderPushFails
  <2>5. DrainInv'
    BY <1>10 DEF DrainInv, ThreadInv, MustWait, Closing, EnvTypeOK,
       ReaderTypeOK, ReaderPushFails
  <2> QED
    BY <2>1, <2>2, <2>3, <2>4, <2>5
<1>11. CASE ReaderTryLock
  <2>1. FlagTypeOK'
    BY <1>11 DEF FlagTypeOK, ReaderTryLock
  <2>2. QueueTypeOK' /\ ReaderTypeOK' /\ StubTypeOK'
    BY <1>11 DEF QueueTypeOK, ReaderTypeOK, ReaderPC, StubTypeOK,
       ReaderTryLock
  <2>3. MainTypeOK' /\ EnvTypeOK'
    BY <1>11 DEF MainTypeOK, MainPC, EnvTypeOK, ReaderTryLock
  <2>4. PacketInv' /\ WaitInv' /\ ThreadInv'
    BY <1>11 DEF PacketInv, WaitInv, MustWait, ThreadInv, Running, FlagTypeOK,
       QueueTypeOK, ReaderTryLock
  <2>5. DrainInv'
    BY <1>11 DEF DrainInv, ThreadInv, MustWait, Closing, EnvTypeOK,
       ReaderTypeOK, ReaderTryLock
  <2> QED
    BY <2>1, <2>2, <2>3, <2>4, <2>5
<1>12. CASE ReaderAckWrite
  <2>1. FlagTypeOK'
    BY <1>12 DEF FlagTypeOK, ReaderAckWrite
  <2>2. QueueTypeOK' /\ ReaderTypeOK' /\ StubTypeOK'
    BY <1>12 DEF QueueTypeOK, ReaderTypeOK, ReaderPC, StubTypeOK,
       ReaderAckWrite
  <2>3. MainTypeOK' /\ EnvTypeOK'
    BY <1>12, PacketAssumption DEF MainTypeOK, MainPC, EnvTypeOK,
       ReaderAckWrite, PacketInv, Token
  <2>4. PacketInv' /\ WaitInv' /\ ThreadInv'
    BY <1>12 DEF PacketInv, WaitInv, MustWait, ThreadInv, Running, FlagTypeOK,
       QueueTypeOK, ReaderAckWrite
  <2>5. DrainInv'
    BY <1>12 DEF DrainInv, ThreadInv, MustWait, Closing, EnvTypeOK,
       ReaderTypeOK, ReaderAckWrite
  <2> QED
    BY <2>1, <2>2, <2>3, <2>4, <2>5
<1>13. CASE ReaderExit
  <2>1. FlagTypeOK'
    BY <1>13 DEF FlagTypeOK, ReaderExit, SignalShutdown
  <2>2. QueueTypeOK' /\ ReaderTypeOK' /\ StubTypeOK'
    BY <1>13 DEF QueueTypeOK, ReaderTypeOK, ReaderPC, StubTypeOK, ReaderExit,
       SignalShutdown
  <2>3. MainTypeOK' /\ EnvTypeOK'
    BY <1>13 DEF MainTypeOK, MainPC, EnvTypeOK, ReaderExit, SignalShutdown
  <2>4. PacketInv' /\ WaitInv' /\ ThreadInv'
    BY <1>13 DEF PacketInv, WaitInv, MustWait, ThreadInv, Running, FlagTypeOK,
       QueueTypeOK, ReaderExit, SignalShutdown
  <2>5. DrainInv'
    BY <1>13 DEF DrainInv, ThreadInv, MustWait, Closing, EnvTypeOK,
       ReaderTypeOK, ReaderExit, SignalShutdown
  <2> QED
    BY <2>1, <2>2, <2>3, <2>4, <2>5
<1>14. CASE MainPop
  <2>1. FlagTypeOK'
    BY <1>14 DEF FlagTypeOK, MainPop, PopWait, PopNull, PopTake
  <2>2. QueueTypeOK' /\ ReaderTypeOK' /\ StubTypeOK'
    BY <1>14, HeadTailProperties DEF QueueTypeOK, ReaderTypeOK, ReaderPC,
       StubTypeOK, MainPop, PopWait, PopNull, PopTake
  <2>3. MainTypeOK' /\ EnvTypeOK'
    <3>1. MainTypeOK'
      BY <1>14 DEF MainTypeOK, MainPC, MainPop
    <3>2. queue # <<>> => Append(popped, Head(queue)) \in Seq(Packet)
      BY HeadTailProperties, AppendProperties DEF QueueTypeOK, EnvTypeOK
    <3>3. EnvTypeOK'
      BY <1>14, <3>2 DEF EnvTypeOK, MainPop, PopTake
    <3> QED
      BY <3>1, <3>3
  <2>4. PacketInv' /\ WaitInv' /\ ThreadInv'
    BY <1>14, HeadTailProperties DEF PacketInv, WaitInv, MustWait, ThreadInv,
       Running, FlagTypeOK, QueueTypeOK, MainPop, PopWait, PopNull, PopTake
  <2>5. DrainInv'
    BY <1>14 DEF DrainInv, ThreadInv, MustWait, Closing, EnvTypeOK,
       ReaderTypeOK, MainPop, PopWait, PopNull, PopTake
  <2> QED
    BY <2>1, <2>2, <2>3, <2>4, <2>5
<1>15. CASE MainNull
  <2>1. FlagTypeOK'
    BY <1>15 DEF FlagTypeOK, MainNull
  <2>2. QueueTypeOK' /\ ReaderTypeOK' /\ StubTypeOK'
    BY <1>15 DEF QueueTypeOK, ReaderTypeOK, ReaderPC, StubTypeOK, MainNull
  <2>3. MainTypeOK' /\ EnvTypeOK'
    BY <1>15 DEF MainTypeOK, MainPC, EnvTypeOK, MainNull
  <2>4. PacketInv' /\ WaitInv' /\ ThreadInv'
    BY <1>15 DEF PacketInv, WaitInv, MustWait, ThreadInv, Running, FlagTypeOK,
       QueueTypeOK, MainNull
  <2>5. DrainInv'
    BY <1>15 DEF DrainInv, ThreadInv, MustWait, Closing, EnvTypeOK,
       ReaderTypeOK, MainNull
  <2> QED
    BY <2>1, <2>2, <2>3, <2>4, <2>5
<1>16. CASE MainClear
  <2>1. FlagTypeOK'
    BY <1>16 DEF FlagTypeOK, MainClear, CheckInterrupt
  <2>2. QueueTypeOK' /\ ReaderTypeOK' /\ StubTypeOK'
    BY <1>16 DEF QueueTypeOK, ReaderTypeOK, ReaderPC, StubTypeOK, MainClear,
       CheckInterrupt
  <2>3. MainTypeOK' /\ EnvTypeOK'
    BY <1>16 DEF MainTypeOK, MainPC, EnvTypeOK, MainClear, CheckInterrupt
  <2>4. PacketInv' /\ WaitInv' /\ ThreadInv'
    BY <1>16 DEF PacketInv, WaitInv, MustWait, ThreadInv, Running, FlagTypeOK,
       QueueTypeOK, MainClear, CheckInterrupt
  <2>5. DrainInv'
    BY <1>16 DEF DrainInv, ThreadInv, MustWait, Closing, EnvTypeOK,
       ReaderTypeOK, MainClear, CheckInterrupt
  <2> QED
    BY <2>1, <2>2, <2>3, <2>4, <2>5
<1>17. CASE MainVerify
  <2>1. FlagTypeOK'
    BY <1>17 DEF FlagTypeOK, MainVerify
  <2>2. QueueTypeOK' /\ ReaderTypeOK' /\ StubTypeOK'
    BY <1>17 DEF QueueTypeOK, ReaderTypeOK, ReaderPC, StubTypeOK, MainVerify
  <2>3. MainTypeOK' /\ EnvTypeOK'
    BY <1>17, CallType DEF MainTypeOK, MainPC, EnvTypeOK, MainVerify,
       PacketInv, Running
  <2>4. PacketInv' /\ WaitInv' /\ ThreadInv'
    BY <1>17 DEF PacketInv, WaitInv, MustWait, ThreadInv, Running, FlagTypeOK,
       QueueTypeOK, MainVerify
  <2>5. DrainInv'
    BY <1>17 DEF DrainInv, ThreadInv, MustWait, Closing, EnvTypeOK,
       ReaderTypeOK, MainVerify
  <2> QED
    BY <2>1, <2>2, <2>3, <2>4, <2>5
<1>18. CASE MainReject
  <2>1. FlagTypeOK'
    BY <1>18 DEF FlagTypeOK, MainReject
  <2>2. QueueTypeOK' /\ ReaderTypeOK' /\ StubTypeOK'
    BY <1>18 DEF QueueTypeOK, ReaderTypeOK, ReaderPC, StubTypeOK, MainReject
  <2>3. MainTypeOK' /\ EnvTypeOK'
    BY <1>18 DEF MainTypeOK, MainPC, EnvTypeOK, MainReject
  <2>4. PacketInv' /\ WaitInv' /\ ThreadInv'
    BY <1>18 DEF PacketInv, WaitInv, MustWait, ThreadInv, Running, FlagTypeOK,
       QueueTypeOK, MainReject
  <2>5. DrainInv'
    BY <1>18 DEF DrainInv, ThreadInv, MustWait, Closing, EnvTypeOK,
       ReaderTypeOK, MainReject
  <2> QED
    BY <2>1, <2>2, <2>3, <2>4, <2>5
<1>19. CASE MainProcess
  <2>1. FlagTypeOK'
    BY <1>19 DEF FlagTypeOK, MainProcess
  <2>2. QueueTypeOK' /\ ReaderTypeOK' /\ StubTypeOK'
    BY <1>19 DEF QueueTypeOK, ReaderTypeOK, ReaderPC, StubTypeOK, MainProcess
  <2>3. MainTypeOK' /\ EnvTypeOK'
    BY <1>19, CallType DEF MainTypeOK, MainPC, EnvTypeOK, MainProcess,
       PacketInv, Running
  <2>4. PacketInv' /\ WaitInv' /\ ThreadInv'
    BY <1>19 DEF PacketInv, WaitInv, MustWait, ThreadInv, Running, FlagTypeOK,
       QueueTypeOK, MainProcess
  <2>5. DrainInv'
    BY <1>19 DEF DrainInv, ThreadInv, MustWait, Closing, EnvTypeOK,
       ReaderTypeOK, MainProcess
  <2> QED
    BY <2>1, <2>2, <2>3, <2>4, <2>5
<1>20. CASE MainDetach
  <2>1. FlagTypeOK'
    BY <1>20 DEF FlagTypeOK, MainDetach
  <2>2. QueueTypeOK' /\ ReaderTypeOK' /\ StubTypeOK'
    BY <1>20 DEF QueueTypeOK, ReaderTypeOK, ReaderPC, StubTypeOK, MainDetach
  <2>3. MainTypeOK' /\ EnvTypeOK'
    BY <1>20 DEF MainTypeOK, MainPC, EnvTypeOK, MainDetach
  <2>4. PacketInv' /\ WaitInv' /\ ThreadInv'
    BY <1>20 DEF PacketInv, WaitInv, MustWait, ThreadInv, Running, FlagTypeOK,
       QueueTypeOK, MainDetach
  <2>5. DrainInv'
    BY <1>20 DEF DrainInv, ThreadInv, MustWait, Closing, EnvTypeOK,
       ReaderTypeOK, MainDetach
  <2> QED
    BY <2>1, <2>2, <2>3, <2>4, <2>5
<1>21. CASE ContEnable
  <2>1. FlagTypeOK'
    BY <1>21 DEF FlagTypeOK, ContEnable
  <2>2. QueueTypeOK' /\ ReaderTypeOK' /\ StubTypeOK'
    BY <1>21 DEF QueueTypeOK, ReaderTypeOK, ReaderPC, StubTypeOK, ContEnable
  <2>3. MainTypeOK' /\ EnvTypeOK'
    BY <1>21 DEF MainTypeOK, MainPC, EnvTypeOK, ContEnable
  <2>4. PacketInv' /\ WaitInv' /\ ThreadInv'
    BY <1>21 DEF PacketInv, WaitInv, MustWait, ThreadInv, Running, FlagTypeOK,
       QueueTypeOK, ContEnable
  <2>5. DrainInv'
    BY <1>21 DEF DrainInv, ThreadInv, MustWait, Closing, EnvTypeOK,
       ReaderTypeOK, ContEnable
  <2> QED
    BY <2>1, <2>2, <2>3, <2>4, <2>5
<1>22. CASE ContStart
  <2>1. FlagTypeOK'
    BY <1>22 DEF FlagTypeOK, ContStart
  <2>2. QueueTypeOK' /\ ReaderTypeOK' /\ StubTypeOK'
    BY <1>22 DEF QueueTypeOK, ReaderTypeOK, ReaderPC, StubTypeOK, ContStart
  <2>3. MainTypeOK' /\ EnvTypeOK'
    BY <1>22 DEF MainTypeOK, MainPC, EnvTypeOK, ContStart
  <2>4. PacketInv' /\ WaitInv' /\ ThreadInv'
    BY <1>22 DEF PacketInv, WaitInv, MustWait, ThreadInv, Running, FlagTypeOK,
       QueueTypeOK, ContStart
  <2>5. DrainInv'
    BY <1>22 DEF DrainInv, ThreadInv, MustWait, Closing, EnvTypeOK,
       ReaderTypeOK, ContStart
  <2> QED
    BY <2>1, <2>2, <2>3, <2>4, <2>5
<1>23. CASE ContHalted
  <2>1. FlagTypeOK'
    BY <1>23 DEF FlagTypeOK, ContHalted
  <2>2. QueueTypeOK' /\ ReaderTypeOK' /\ StubTypeOK'
    BY <1>23 DEF QueueTypeOK, ReaderTypeOK, ReaderPC, StubTypeOK, ContHalted
  <2>3. MainTypeOK' /\ EnvTypeOK'
    BY <1>23 DEF MainTypeOK, MainPC, EnvTypeOK, ContHalted
  <2>4. PacketInv' /\ WaitInv' /\ ThreadInv'
    BY <1>23 DEF PacketInv, WaitInv, MustWait, ThreadInv, Running, FlagTypeOK,
       QueueTypeOK, ContHalted
  <2>5. DrainInv'
    BY <1>23 DEF DrainInv, ThreadInv, MustWait, Closing, EnvTypeOK,
       ReaderTypeOK, ContHalted
  <2> QED
    BY <2>1, <2>2, <2>3, <2>4, <2>5
<1>24. CASE ContDisable
  <2>1. FlagTypeOK'
    BY <1>24 DEF FlagTypeOK, ContDisable
  <2>2. QueueTypeOK' /\ ReaderTypeOK' /\ StubTypeOK'
    BY <1>24 DEF QueueTypeOK, ReaderTypeOK, ReaderPC, StubTypeOK, ContDisable
  <2>3. MainTypeOK' /\ EnvTypeOK'
    BY <1>24, CallType DEF MainTypeOK, MainPC, EnvTypeOK, ContDisable,
       PacketInv, Running
  <2>4. PacketInv' /\ WaitInv' /\ ThreadInv'
    BY <1>24 DEF PacketInv, WaitInv, MustWait, ThreadInv, Running, FlagTypeOK,
       QueueTypeOK, ContDisable
  <2>5. DrainInv'
    BY <1>24 DEF DrainInv, ThreadInv, MustWait, Closing, EnvTypeOK,
       ReaderTypeOK, ContDisable
  <2> QED
    BY <2>1, <2>2, <2>3, <2>4, <2>5
<1>25. CASE MainStepi
  <2>1. FlagTypeOK'
    BY <1>25 DEF FlagTypeOK, MainStepi
  <2>2. QueueTypeOK' /\ ReaderTypeOK' /\ StubTypeOK'
    BY <1>25 DEF QueueTypeOK, ReaderTypeOK, ReaderPC, StubTypeOK, MainStepi
  <2>3. MainTypeOK' /\ EnvTypeOK'
    BY <1>25, CallType DEF MainTypeOK, MainPC, EnvTypeOK, MainStepi,
       PacketInv, Running
  <2>4. PacketInv' /\ WaitInv' /\ ThreadInv'
    BY <1>25 DEF PacketInv, WaitInv, MustWait, ThreadInv, Running, FlagTypeOK,
       QueueTypeOK, MainStepi
  <2>5. DrainInv'
    BY <1>25 DEF DrainInv, ThreadInv, MustWait, Closing, EnvTypeOK,
       ReaderTypeOK, MainStepi
  <2> QED
    BY <2>1, <2>2, <2>3, <2>4, <2>5
<1>26. CASE SendLock
  <2>1. FlagTypeOK'
    BY <1>26 DEF FlagTypeOK, SendLock
  <2>2. QueueTypeOK' /\ ReaderTypeOK' /\ StubTypeOK'
    BY <1>26 DEF QueueTypeOK, ReaderTypeOK, ReaderPC, StubTypeOK, SendLock
  <2>3. MainTypeOK' /\ EnvTypeOK'
    BY <1>26 DEF MainTypeOK, MainPC, EnvTypeOK, SendLock
  <2>4. PacketInv' /\ WaitInv' /\ ThreadInv'
    BY <1>26 DEF PacketInv, WaitInv, MustWait, ThreadInv, Running, FlagTypeOK,
       QueueTypeOK, SendLock
  <2>5. DrainInv'
    BY <1>26 DEF DrainInv, ThreadInv, MustWait, Closing, EnvTypeOK,
       ReaderTypeOK, SendLock
  <2> QED
    BY <2>1, <2>2, <2>3, <2>4, <2>5
<1>27. CASE SendWrite
  <2>1. FlagTypeOK'
    BY <1>27 DEF FlagTypeOK, SendWrite
  <2>2. QueueTypeOK' /\ ReaderTypeOK' /\ StubTypeOK'
    BY <1>27 DEF QueueTypeOK, ReaderTypeOK, ReaderPC, StubTypeOK, SendWrite
  <2>3. MainTypeOK' /\ EnvTypeOK'
    BY <1>27 DEF MainTypeOK, MainPC, EnvTypeOK, SendWrite, SendCall
  <2>4. PacketInv' /\ WaitInv' /\ ThreadInv'
    BY <1>27 DEF PacketInv, WaitInv, MustWait, ThreadInv, Running, FlagTypeOK,
       QueueTypeOK, SendWrite, MainTypeOK, SendCall
  <2>5. DrainInv'
    BY <1>27 DEF DrainInv, ThreadInv, MustWait, Closing, EnvTypeOK,
       ReaderTypeOK, SendWrite, MainTypeOK, SendCall
  <2> QED
    BY <2>1, <2>2, <2>3, <2>4, <2>5
<1>28. CASE CloseSignal
  <2>1. FlagTypeOK'
    BY <1>28 DEF FlagTypeOK, CloseSignal, SignalShutdown
  <2>2. QueueTypeOK' /\ ReaderTypeOK' /\ StubTypeOK'
    BY <1>28 DEF QueueTypeOK, ReaderTypeOK, ReaderPC, StubTypeOK, CloseSignal,
       SignalShutdown
  <2>3. MainTypeOK' /\ EnvTypeOK'
    BY <1>28 DEF MainTypeOK, MainPC, EnvTypeOK, CloseSignal, SignalShutdown
  <2>4. PacketInv' /\ WaitInv' /\ ThreadInv'
    BY <1>28 DEF PacketInv, WaitInv, MustWait, ThreadInv, Running, FlagTypeOK,
       QueueTypeOK, CloseSignal, SignalShutdown
  <2>5. DrainInv'
    BY <1>28 DEF DrainInv, ThreadInv, MustWait, Closing, EnvTypeOK,
       ReaderTypeOK, CloseSignal, SignalShutdown
  <2> QED
    BY <2>1, <2>2, <2>3, <2>4, <2>5
<1>29. CASE CloseJoin
  <2>1. FlagTypeOK'
    BY <1>29 DEF FlagTypeOK, CloseJoin
  <2>2. QueueTypeOK' /\ ReaderTypeOK' /\ StubTypeOK'
    BY <1>29 DEF QueueTypeOK, ReaderTypeOK, ReaderPC, StubTypeOK, CloseJoin
  <2>3. MainTypeOK' /\ EnvTypeOK'
    BY <1>29 DEF MainTypeOK, MainPC, EnvTypeOK, CloseJoin
  <2>4. PacketInv' /\ WaitInv' /\ ThreadInv'
    BY <1>29 DEF PacketInv, WaitInv, MustWait, ThreadInv, Running, FlagTypeOK,
       QueueTypeOK, CloseJoin
  <2>5. DrainInv'
    BY <1>29 DEF DrainInv, ThreadInv, MustWait, Closing, EnvTypeOK,
       ReaderTypeOK, CloseJoin
  <2> QED
    BY <2>1, <2>2, <2>3, <2>4, <2>5
<1>30. CASE CloseDestroy
  <2>1. FlagTypeOK'
    BY <1>30 DEF FlagTypeOK, CloseDestroy, Destroy
  <2>2. QueueTypeOK' /\ ReaderTypeOK' /\ StubTypeOK'
    BY <1>30 DEF QueueTypeOK, ReaderTypeOK, ReaderPC, StubTypeOK,
       CloseDestroy, Destroy
  <2>3. MainTypeOK' /\ EnvTypeOK'
    BY <1>30 DEF MainTypeOK, MainPC, EnvTypeOK, CloseDestroy, Destroy
  <2>4. PacketInv' /\ WaitInv' /\ ThreadInv'
    BY <1>30 DEF PacketInv, WaitInv, MustWait, ThreadInv, Running, FlagTypeOK,
       QueueTypeOK, CloseDestroy, Destroy
  <2>5. DrainInv'
    BY <1>30 DEF DrainInv, ThreadInv, MustWait, Closing, EnvTypeOK,
       ReaderTypeOK, CloseDestroy, Destroy
  <2> QED
    BY <2>1, <2>2, <2>3, <2>4, <2>5
<1>31. CASE MainSpurious
  <2>1. FlagTypeOK'
    BY <1>31 DEF FlagTypeOK, MainSpurious, SpuriousWakeup
  <2>2. QueueTypeOK' /\ ReaderTypeOK' /\ StubTypeOK'
    BY <1>31 DEF QueueTypeOK, ReaderTypeOK, ReaderPC, StubTypeOK,
       MainSpurious, SpuriousWakeup
  <2>3. MainTypeOK' /\ EnvTypeOK'
    BY <1>31 DEF MainTypeOK, MainPC, EnvTypeOK, MainSpurious, SpuriousWakeup
  <2>4. PacketInv' /\ WaitInv' /\ ThreadInv'
    BY <1>31 DEF PacketInv, WaitInv, MustWait, ThreadInv, Running, FlagTypeOK,
       QueueTypeOK, MainSpurious, SpuriousWakeup
  <2>5. DrainInv'
    BY <1>31 DEF DrainInv, ThreadInv, MustWait, Closing, EnvTypeOK,
       ReaderTypeOK, MainSpurious, SpuriousWakeup
  <2> QED
    BY <2>1, <2>2, <2>3, <2>4, <2>5
<1>32. CASE RunStart
  <2>1. FlagTypeOK'
    BY <1>32 DEF FlagTypeOK, RunStart
  <2>2. QueueTypeOK' /\ ReaderTypeOK' /\ StubTypeOK'
    BY <1>32 DEF QueueTypeOK, ReaderTypeOK, ReaderPC, StubTypeOK, RunStart
  <2>3. MainTypeOK' /\ EnvTypeOK'
    BY <1>32 DEF MainTypeOK, MainPC, EnvTypeOK, RunStart
  <2>4. PacketInv' /\ WaitInv' /\ ThreadInv'
    BY <1>32 DEF PacketInv, WaitInv, MustWait, ThreadInv, Running, FlagTypeOK,
       QueueTypeOK, RunStart
  <2>5. DrainInv'
    BY <1>32 DEF DrainInv, ThreadInv, MustWait, Closing, EnvTypeOK,
       ReaderTypeOK, RunStart
  <2> QED
    BY <2>1, <2>2, <2>3, <2>4, <2>5
<1>33. CASE RunStartFails
  <2>1. FlagTypeOK'
    BY <1>33 DEF FlagTypeOK, RunStartFails
  <2>2. QueueTypeOK' /\ ReaderTypeOK' /\ StubTypeOK'
    BY <1>33 DEF QueueTypeOK, ReaderTypeOK, ReaderPC, StubTypeOK,
       RunStartFails
  <2>3. MainTypeOK' /\ EnvTypeOK'
    BY <1>33 DEF MainTypeOK, MainPC, EnvTypeOK, RunStartFails
  <2>4. PacketInv' /\ WaitInv' /\ ThreadInv'
    BY <1>33 DEF PacketInv, WaitInv, MustWait, ThreadInv, Running, FlagTypeOK,
       QueueTypeOK, RunStartFails
  <2>5. DrainInv'
    BY <1>33 DEF DrainInv, ThreadInv, MustWait, Closing, EnvTypeOK,
       ReaderTypeOK, RunStartFails
  <2> QED
    BY <2>1, <2>2, <2>3, <2>4, <2>5
<1>34. CASE RunAgain
  <2>1. FlagTypeOK'
    BY <1>34 DEF FlagTypeOK, RunAgain
  <2>2. QueueTypeOK' /\ ReaderTypeOK' /\ StubTypeOK'
    BY <1>34 DEF QueueTypeOK, ReaderTypeOK, ReaderPC, StubTypeOK, RunAgain
  <2>3. MainTypeOK' /\ EnvTypeOK'
    BY <1>34 DEF MainTypeOK, MainPC, EnvTypeOK, RunAgain
  <2>4. PacketInv' /\ WaitInv' /\ ThreadInv'
    BY <1>34 DEF PacketInv, WaitInv, MustWait, ThreadInv, Running, FlagTypeOK,
       QueueTypeOK, RunAgain
  <2>5. DrainInv'
    BY <1>34 DEF DrainInv, ThreadInv, MustWait, Closing, EnvTypeOK,
       ReaderTypeOK, RunAgain
  <2> QED
    BY <2>1, <2>2, <2>3, <2>4, <2>5
<1>35. CASE CloseStop
  <2>1. FlagTypeOK'
    BY <1>35 DEF FlagTypeOK, CloseStop
  <2>2. QueueTypeOK' /\ ReaderTypeOK' /\ StubTypeOK'
    BY <1>35 DEF QueueTypeOK, ReaderTypeOK, ReaderPC, StubTypeOK, CloseStop
  <2>3. MainTypeOK' /\ EnvTypeOK'
    BY <1>35 DEF MainTypeOK, MainPC, EnvTypeOK, CloseStop
  <2>4. PacketInv' /\ WaitInv' /\ ThreadInv'
    BY <1>35 DEF PacketInv, WaitInv, MustWait, ThreadInv, Running, FlagTypeOK,
       QueueTypeOK, CloseStop
  <2>5. DrainInv'
    BY <1>35 DEF DrainInv, ThreadInv, MustWait, Closing, EnvTypeOK,
       ReaderTypeOK, CloseStop
  <2> QED
    BY <2>1, <2>2, <2>3, <2>4, <2>5
<1>36. CASE \E a \in {"resume", "shutdown"} : ContStops(a)
  <2>0. PICK a \in {"resume", "shutdown"} : ContStops(a)
    BY <1>36
  <2>1. FlagTypeOK'
    BY <2>0 DEF FlagTypeOK, ContStops
  <2>2. QueueTypeOK' /\ ReaderTypeOK' /\ StubTypeOK'
    BY <2>0 DEF QueueTypeOK, ReaderTypeOK, ReaderPC, StubTypeOK, ContStops
  <2>3. MainTypeOK' /\ EnvTypeOK'
    BY <2>0 DEF MainTypeOK, MainPC, EnvTypeOK, ContStops
  <2>4. PacketInv' /\ WaitInv' /\ ThreadInv'
    BY <2>0 DEF PacketInv, WaitInv, MustWait, ThreadInv, Running, FlagTypeOK,
       QueueTypeOK, ContStops
  <2>5. DrainInv'
    BY <2>0 DEF DrainInv, ThreadInv, MustWait, Closing, EnvTypeOK,
       ReaderTypeOK, ContStops
  <2> QED
    BY <2>1, <2>2, <2>3, <2>4, <2>5
<1>37. CASE UNCHANGED vars
  BY <1>37 DEF FlagTypeOK, QueueTypeOK, ReaderTypeOK, StubTypeOK, MainTypeOK,
     EnvTypeOK, PacketInv, WaitInv, MustWait, ThreadInv, DrainInv
<1>38. CASE Closed
  BY <1>37, <1>38 DEF Closed
<1> QED
  BY <1>1, <1>2, <1>3, <1>4, <1>5, <1>6, <1>7, <1>8, <1>9, <1>10, <1>11,
     <1>12, <1>13, <1>14, <1>15, <1>16, <1>17, <1>18, <1>19, <1>20, <1>21,
     <1>22, <1>23, <1>24, <1>25, <1>26, <1>27, <1>28, <1>29, <1>30, <1>31,
     <1>32, <1>33, <1>34, <1>35, <1>36, <1>37, <1>38 DEF Next, ReaderStep,
     MainStep, Embedder, Program

(***************************************************************************)
(* The inductive invariant holds in every reachable state of a session, in *)
(* particular every thread that uses a packet has one, and reader_running  *)
(* tells exactly whether there is a reader thread to join.                 *)
(***************************************************************************)
THEOREM Invariance == Spec => []IInv
<1>1. Init => IInv
  BY InitIInv
<1>2. IInv /\ [Next]_vars => IInv'
  BY NextIInv
<1> QED
  BY <1>1, <1>2, PTL DEF Spec

(***************************************************************************)
(* Type correctness of the state of gdbstub_run, socket_reader and         *)
(* gdbstub_close: among others the reader's count of interrupt characters  *)
(* never goes below zero and everything sent answers a numbered packet.    *)
(***************************************************************************)
THEOREM TypeCorrect == Spec => []TypeOK
<1>1. IInv => TypeOK
  BY DEF IInv
<1> QED
  BY <1>1, Invariance, PTL

(***************************************************************************)
(* The main thread never sleeps in pktqueue_pop while there is a packet,   *)
(* an interrupt or a shutdown for it to return, for any number of packets  *)
(* and interrupts.                                                         *)
(***************************************************************************)
THEOREM NeverLosesWakeup == Spec => []NoLostWakeup
<1>1. IInv => NoLostWakeup
  BY DEF IInv, WaitInv, NoLostWakeup
<1> QED
  BY <1>1, Invariance, PTL

(***************************************************************************)
(* gdbstub_close frees the queue, the connection and the private state     *)
(* only after the reader thread has ended, however often gdbstub_run was   *)
(* called before and for whatever reason it returned.                      *)
(***************************************************************************)
THEOREM CloseIsSafe == Spec => []NoUseAfterFree
<1>1. IInv => NoUseAfterFree
  BY DEF IInv, ThreadInv, NoUseAfterFree
<1> QED
  BY <1>1, Invariance, PTL

(***************************************************************************)
(* A gdbstub_run that returns because the client went away leaves no       *)
(* packet behind, unless an interrupt is pending: however many interrupts  *)
(* and packets came before, in whatever order.                             *)
(***************************************************************************)
THEOREM Drained == Spec => []DrainedWithoutInterrupt
<1>1. IInv => DrainedWithoutInterrupt
  BY DEF IInv, DrainInv, DrainedWithoutInterrupt
<1> QED
  BY <1>1, Invariance, PTL

(***************************************************************************)
(* gdbstub_run starts the target only when it is not running and starts it *)
(* afresh, and on_interrupt on the reader thread does nothing but halt it: *)
(* the safety part of UsesTarget.                                          *)
(***************************************************************************)
THEOREM KeepsToContract == Spec => Contract!Steps
<1>1. Init => Contract!Init
  BY DEF Init, Contract!Init
<1>2. IInv /\ [Next]_vars => [Contract!Next]_<<mpc = "cont_loop", halt>>
  <2> SUFFICES ASSUME IInv, [Next]_vars
               PROVE  Contract!Next \/ UNCHANGED <<mpc = "cont_loop", halt>>
    OBVIOUS
  <2> USE DEF Contract!Next, Contract!cont, Contract!stepi, Contract!on_interrupt,
              Contract!Stop, vars, queueVars, readerVars, mainVars, privVars, connVars,
              envVars, histVars, Goto, SendThen, Return
  <2>1. CASE OnInterrupt
    BY <2>1 DEF OnInterrupt
  <2>2. CASE ReaderStep /\ ~OnInterrupt
    BY <2>2 DEF ReaderStep, ReaderCheck, ReaderTimeout, ReaderDisconnect, ReaderRead,
       ReaderScan, ReaderSignal, ReaderNext, ReaderPush, ReaderPushFails, ReaderTryLock,
       ReaderAckWrite, ReaderExit
  <2>3. CASE ContStart
    BY <2>3 DEF ContStart
  <2>4. CASE MainStepi
    BY <2>4 DEF MainStepi
  <2>5. CASE ContHalted \/ Program
    BY <2>5 DEF ContHalted, Program, ContStops
  <2>6. CASE MainPop \/ MainNull \/ MainClear \/ MainVerify \/ MainReject \/ MainProcess \/ MainDetach
    BY <2>6 DEF MainPop, MainNull, MainClear, MainVerify, MainReject, MainProcess, MainDetach
  <2>7. CASE ContEnable \/ ContDisable \/ SendLock
    BY <2>7 DEF ContEnable, ContDisable, SendLock
  <2>8. CASE SendWrite
    <3>1. call.next \in {"pop", "process", "reject", "detach"}
      BY DEF IInv, TypeOK, MainTypeOK, SendCall
    <3> QED
      BY <2>8, <3>1 DEF SendWrite
  <2>9. CASE CloseSignal \/ CloseJoin \/ CloseDestroy \/ Embedder
    BY <2>9 DEF CloseSignal, CloseJoin, CloseDestroy, Embedder, RunStart, RunStartFails,
       RunAgain, CloseStop
  <2>10. CASE MainSpurious \/ Closed \/ UNCHANGED vars
    BY <2>10 DEF MainSpurious, Closed
  <2> QED
    BY <2>1, <2>2, <2>3, <2>4, <2>5, <2>6, <2>7, <2>8, <2>9, <2>10 DEF Next, MainStep
<1> QED
  BY <1>1, <1>2, Invariance, PTL DEF Spec, Contract!Steps

----------------------------------------------------------------------------
(***************************************************************************)
(* The inductive invariant of the conversation: which packet the main      *)
(* thread is at, what it has sent for it, and what it has still to send.   *)
(***************************************************************************)

\* The number of the last packet popped.
LastId == IF popped = <<>> THEN 0 ELSE popped[Len(popped)].id

\* The packets on their way are numbered in the order in which they were sent:
\* those popped, those queued, the one the reader is about to push.
Pipeline ==
    /\ LastId <= nread
    /\ \A i, j \in DOMAIN popped : i < j => popped[i].id < popped[j].id
    /\ \A i \in DOMAIN queue : LastId < queue[i].id /\ queue[i].id <= nread
    /\ \A i, j \in DOMAIN queue : i < j => queue[i].id < queue[j].id
    /\ rpc = "push" => /\ rpkt.id = nread /\ LastId < nread
                       /\ \A i \in DOMAIN queue : queue[i].id < nread

\* The main thread has not yet settled whether the last packet is accepted.
Unsettled ==
    \/ mpc \in {"verify", "process", "reject"}
    \/ mpc = "send" /\ call.next \in {"process", "reject"}

\* It carries out the last packet and has not answered it.
Pending ==
    \/ mpc \in {"process", "cont_enable", "step"} \cup Running
    \/ mpc = "send" /\ call.next \in {"pop", "detach"}

\* While main is busy with a packet, it is the last one popped; where main is
\* agrees with what the packet asks for, and the send with both.
StageInv ==
    /\ mpc \in {"reject", "detach", "send"} \/ Unsettled \/ Pending
         => popped # <<>> /\ pkt = popped[Len(popped)]
    /\ mpc = "reject" => ~pkt.ok
    /\ mpc = "detach" \/ Pending => pkt.ok
    /\ mpc \in {"cont_enable"} \cup Running => pkt.req = "c"
    /\ mpc = "step" => pkt.req = "s"

CallInv ==
    mpc = "send" =>
       /\ call.tok.by = "main" /\ call.tok.id = pkt.id
       /\ \/ /\ ~no_ack_mode /\ call.next = "process"
             /\ call.tok.kind = "ack" /\ pkt.ok
          \/ /\ ~no_ack_mode /\ call.next = "reject"
             /\ call.tok.kind = "nack" /\ ~pkt.ok
          \/ /\ call.next \in {"pop", "detach"}
             /\ call.tok.kind = IF pkt.req \in {"c", "s"} THEN "stop" ELSE "reply"
             /\ pkt.req = "Q" => no_ack_mode

\* What is on the wire for the last packet.
WireInv ==
    \A j \in DOMAIN wire :
       /\ wire[j].by = "reader" => wire[j].kind = "ack"
       /\ wire[j].by = "main" =>
            /\ wire[j].id <= LastId
            /\ wire[j].id = LastId /\ Unsettled => mpc \in {"process", "reject"}
            /\ wire[j].id = LastId /\ Pending => wire[j].kind = "ack"

\* The packets main has done with: all but the one it is at.
DoneWith(i) == i < Len(popped) \/ mpc \in {"pop", "null", "clear"}

\* The packet has got the answer it asks for; it has got none.
Answered(i) ==
    \E j \in AnswersTo(popped[i]) :
       wire[j].kind = IF popped[i].req \in {"c", "s"} THEN "stop" ELSE "reply"
Unanswered(i) == AnswersTo(popped[i]) = {}

\* In the first run, what main has done with is answered; what was refused is not.
AnswerInv ==
    /\ mpc = "init" => popped = <<>>
    /\ mpc # "init" => runs > 0
    /\ runs = 1 /\ mpc \notin {"init", "returned"} \cup Closing =>
         \A i \in DOMAIN popped : popped[i].ok /\ DoneWith(i) => Answered(i)
    /\ \A i \in DOMAIN popped : ~popped[i].ok => Unanswered(i)

\* failure_count is the number of refused packets since the last good one.
CountInv ==
    LET s == IF Unsettled THEN Len(popped) - 1 ELSE Len(popped) IN
    /\ failure_count <= s
    /\ \A i \in s - failure_count + 1 .. s : ~popped[i].ok
    /\ failure_count < s => popped[s - failure_count].ok
    /\ mpc = "returned" /\ ret = "failures" =>
         failure_count >= MaxFailures /\ (runs = 1 => failure_count = MaxFailures)
    /\ runs = 1 /\ mpc \notin {"init", "returned"} \cup Closing => failure_count < MaxFailures

\* QStartNoAckMode has been answered only if no_ack_mode is set.
NoAckInv ==
    \A i \in DOMAIN wire :
       wire[i].kind = "reply" /\ IsNoAckRequest(wire[i].id) => no_ack_mode

Conversation ==
    /\ StageInv /\ CallInv /\ WireInv /\ AnswerInv /\ CountInv /\ NoAckInv
    /\ MainInOrder /\ MainHonoursNoAck

\* The reader acknowledges the packet it read last, once.
Acknowledging == {"push", "ack", "ack_write"}
AckInv ==
    /\ rpc \in {"ack", "ack_write"} => rpkt.id = nread
    /\ \A j \in DOMAIN wire :
         /\ wire[j].id <= nread
         /\ wire[j].by = "reader" /\ rpc \in Acknowledging => wire[j].id < nread
    /\ AcksInOrder

SessionInv == Pipeline /\ Conversation /\ AckInv

----------------------------------------------------------------------------
\* What Append does, index by index.
LEMMA AppendFacts ==
  ASSUME NEW S, NEW s \in Seq(S), NEW e \in S
  PROVE  /\ Append(s, e) \in Seq(S) /\ Len(Append(s, e)) = Len(s) + 1 /\ Len(s) \in Nat
         /\ DOMAIN s = 1..Len(s) /\ DOMAIN Append(s, e) = 1..(Len(s) + 1)
         /\ \A i \in 1..Len(s) : Append(s, e)[i] = s[i]
         /\ Append(s, e)[Len(s) + 1] = e
  OBVIOUS

\* Types the proofs below keep using: the histories are indexed from 1, and
\* packets and tokens carry numbers.
LEMMA SessionTypes ==
  ASSUME IInv
  PROVE  /\ popped \in Seq(Packet) /\ wire \in Seq(Token) /\ queue \in Seq(Packet)
         /\ Len(popped) \in Nat /\ Len(wire) \in Nat /\ Len(queue) \in Nat
         /\ DOMAIN popped = 1..Len(popped) /\ DOMAIN wire = 1..Len(wire)
         /\ DOMAIN queue = 1..Len(queue)
         /\ \A i \in 1..Len(popped) : popped[i] \in Packet /\ popped[i].id \in Nat
         /\ \A i \in 1..Len(queue) : queue[i] \in Packet /\ queue[i].id \in Nat
         /\ \A i \in 1..Len(wire) : wire[i] \in Token /\ wire[i].id \in Nat
         /\ popped # <<>> <=> Len(popped) > 0
         /\ LastId \in Nat /\ nread \in Nat /\ failure_count \in Nat
<1>1. /\ popped \in Seq(Packet) /\ wire \in Seq(Token) /\ queue \in Seq(Packet)
      /\ nread \in Nat /\ failure_count \in Nat
  BY DEF IInv, TypeOK, EnvTypeOK, QueueTypeOK, StubTypeOK
<1>2. \A p \in Packet : p.id \in Nat
  BY PacketAssumption
<1>3. \A t \in Token : t.id \in Nat
  BY DEF Token
<1>4. /\ Len(popped) \in Nat /\ DOMAIN popped = 1..Len(popped)
      /\ \A i \in 1..Len(popped) : popped[i] \in Packet
      /\ popped # <<>> <=> Len(popped) > 0
  BY <1>1
<1>5. /\ Len(wire) \in Nat /\ DOMAIN wire = 1..Len(wire)
      /\ \A i \in 1..Len(wire) : wire[i] \in Token
  BY <1>1
<1>6. /\ Len(queue) \in Nat /\ DOMAIN queue = 1..Len(queue)
      /\ \A i \in 1..Len(queue) : queue[i] \in Packet
  BY <1>1
<1>7. LastId \in Nat
  BY <1>2, <1>4 DEF LastId
<1> QED
  BY <1>1, <1>2, <1>3, <1>4, <1>5, <1>6, <1>7

\* The session starts with nothing popped and nothing sent.
LEMMA InitSession == Init => SessionInv
<1> SUFFICES ASSUME Init PROVE SessionInv
  OBVIOUS
<1> USE DEF Init, QueueInit
<1>1. Pipeline
  BY DEF Pipeline, LastId
<1>2. StageInv /\ CallInv
  BY DEF StageInv, CallInv, Unsettled, Pending, Running
<1>3. WireInv /\ NoAckInv /\ MainInOrder /\ MainHonoursNoAck
  BY DEF WireInv, NoAckInv, MainInOrder, MainHonoursNoAck
<1>4. AnswerInv
  BY DEF AnswerInv
<1>5. CountInv
  BY DEF CountInv, Unsettled
<1>6. AckInv
  BY DEF AckInv, AcksInOrder
<1> QED
  BY <1>1, <1>2, <1>3, <1>4, <1>5, <1>6 DEF SessionInv, Conversation
----------------------------------------------------------------------------
\* pktqueue_pop takes the oldest packet.
LEMMA PopTakeFacts ==
  ASSUME IInv, Pipeline, MainPop, queue # <<>>
  PROVE  /\ pkt' = queue[1] /\ popped' = Append(popped, queue[1])
         /\ queue' = Tail(queue) /\ mpc' = "verify" /\ Len(queue) > 0
         /\ queue[1] \in Packet /\ LastId' = queue[1].id
         /\ mpc = "pop"
         /\ UNCHANGED <<readerVars, privVars, connVars, envVars, wire, call, act, ret>>
<1>1. PopTake /\ mpc' = "verify" /\ popped' = Append(popped, Head(queue))
      /\ mpc = "pop" /\ UNCHANGED <<readerVars, privVars, connVars, envVars, wire, call, act, ret>>
  BY DEF MainPop, PopWait, MustWait, PopNull, Goto
<1>2. Len(queue) > 0 /\ Head(queue) = queue[1] /\ queue[1] \in Packet
  BY SessionTypes
<1>3. popped' # <<>> /\ popped'[Len(popped')] = queue[1]
  <2>1. Len(popped') = Len(popped) + 1 /\ Len(popped) \in Nat /\ popped'[Len(popped) + 1] = queue[1]
    BY <1>1, <1>2, SessionTypes, AppendFacts
  <2> QED
    BY <2>1, <1>1, <1>2, SessionTypes
<1>4. LastId' = queue[1].id
  BY <1>3 DEF LastId
<1> QED
  BY <1>1, <1>2, <1>4 DEF PopTake

\* The numbers stay in order along the way of a packet.
LEMMA PipelineStep == IInv /\ Pipeline /\ [Next]_vars => Pipeline'
<1> SUFFICES ASSUME IInv, Pipeline, [Next]_vars PROVE Pipeline'
  OBVIOUS
<1> USE DEF vars, queueVars, readerVars, mainVars, privVars, connVars, envVars,
            histVars
<1>1. ASSUME UNCHANGED <<popped, queue, nread>>,
             rpc' = "push" => UNCHANGED <<rpc, rpkt>>
      PROVE  Pipeline'
  BY <1>1 DEF Pipeline, LastId
<1>2. ASSUME NEW p \in Packet \cup {NULL}, ReaderNext(p) PROVE Pipeline'
  <2>1. CASE p = NULL
    BY <1>1, <1>2, <2>1 DEF ReaderNext
  <2>2. CASE p \in Packet
    <3>1. /\ p.id = nread + 1 /\ nread' = nread + 1 /\ rpkt' = p
          /\ UNCHANGED <<popped, queue>>
      BY <1>2, <2>2, NullIsNoPacket DEF ReaderNext
    <3> QED
      BY <3>1, SessionTypes DEF Pipeline, LastId
  <2> QED
    BY <2>1, <2>2
<1>3. CASE ReaderPush
  <2>1. /\ rpc = "push" /\ rpc' = "ack" /\ queue' = Append(queue, rpkt)
        /\ rpkt \in Packet /\ UNCHANGED <<popped, nread>>
    BY <1>3 DEF ReaderPush, Push, IInv, PacketInv
  <2>2. /\ DOMAIN queue' = 1..(Len(queue) + 1) /\ queue'[Len(queue) + 1] = rpkt
        /\ \A i \in 1..Len(queue) : queue'[i] = queue[i]
    BY <2>1, SessionTypes, AppendFacts
  <2>3. LastId' = LastId
    BY <2>1 DEF LastId
  <2> HIDE DEF LastId
  <2>4. /\ DOMAIN queue = 1..Len(queue) /\ Len(queue) \in Nat
        /\ rpkt.id = nread /\ LastId < nread /\ nread \in Nat
        /\ \A i \in 1..Len(queue) : queue[i].id < nread
    BY <2>1, SessionTypes DEF Pipeline
  <2>5. \A i \in DOMAIN queue' : LastId < queue'[i].id /\ queue'[i].id <= nread
    <3>1. \A i \in 1..Len(queue) : LastId < queue[i].id /\ queue[i].id <= nread
      BY <2>4 DEF Pipeline
    <3>2. \A i \in 1..(Len(queue) + 1) : i \in 1..Len(queue) \/ i = Len(queue) + 1
      BY ONLY <2>4
    <3> QED
      BY ONLY <2>2, <2>4, <3>1, <3>2
  <2>6. ASSUME NEW i \in 1..(Len(queue) + 1), NEW j \in 1..(Len(queue) + 1), i < j
        PROVE  queue'[i].id < queue'[j].id
    <3>1. i \in 1..Len(queue) /\ (j \in 1..Len(queue) \/ j = Len(queue) + 1)
      BY ONLY <2>4, <2>6
    <3>2. CASE j \in 1..Len(queue)
      BY <2>2, <2>4, <2>6, <3>1, <3>2 DEF Pipeline
    <3>3. CASE j = Len(queue) + 1
      BY ONLY <2>2, <2>4, <3>1, <3>3
    <3> QED
      BY ONLY <3>1, <3>2, <3>3
  <2>7. \A i, j \in DOMAIN queue' : i < j => queue'[i].id < queue'[j].id
    BY ONLY <2>2, <2>6, Zenon
  <2> QED
    BY <2>1, <2>3, <2>4, <2>5, <2>7 DEF Pipeline
<1>4. CASE MainPop
  <2>1. CASE queue = <<>>
    BY <1>1, <1>4, <2>1 DEF MainPop, PopWait, PopNull, PopTake
  <2>2. CASE queue # <<>>
    <3>1. /\ popped' = Append(popped, queue[1]) /\ queue' = Tail(queue) /\ Len(queue) > 0
          /\ LastId' = queue[1].id /\ queue[1] \in Packet
          /\ UNCHANGED <<rpc, rpkt, nread>>
      BY <1>4, <2>2, PopTakeFacts
    <3> DEFINE n == Len(popped)
               m == Len(queue)
    <3>2. /\ n \in Nat /\ m \in Nat /\ m > 0
          /\ DOMAIN popped = 1..n /\ DOMAIN queue = 1..m
          /\ \A i \in 1..n : popped[i].id \in Nat
          /\ \A i \in 1..m : queue[i].id \in Nat
          /\ n > 0 => LastId = popped[n].id
          /\ LastId \in Nat /\ nread \in Nat
      BY <3>1, SessionTypes DEF LastId
    <3>3. /\ DOMAIN popped' = 1..(n + 1) /\ popped'[n + 1] = queue[1]
          /\ \A i \in 1..n : popped'[i] = popped[i]
      <4>1. popped \in Seq(Packet)
        BY SessionTypes
      <4> QED
        BY <3>1, <4>1, AppendFacts
    <3>4. /\ DOMAIN queue' = 1..(m - 1)
          /\ \A i \in 1..(m - 1) : queue'[i] = queue[i + 1]
      <4>1. queue \in Seq(Packet)
        BY SessionTypes
      <4> QED
        BY <3>1, <4>1
    <3> HIDE DEF n, m, LastId
    <3>5. /\ LastId <= nread
          /\ \A i, j \in 1..n : i < j => popped[i].id < popped[j].id
          /\ \A i \in 1..m : LastId < queue[i].id /\ queue[i].id <= nread
          /\ \A i, j \in 1..m : i < j => queue[i].id < queue[j].id
          /\ rpc = "push" => /\ rpkt.id = nread /\ LastId < nread
                             /\ \A i \in 1..m : queue[i].id < nread
      BY <3>2 DEF Pipeline
    <3>6. \A i, j \in DOMAIN popped' : i < j => popped'[i].id < popped'[j].id
      <4>0. n \in Nat
        BY <3>2
      <4>1. ASSUME NEW i \in 1..n PROVE popped[i].id < queue[1].id
        <5>1. n \in 1..n /\ (i = n \/ i < n) /\ n > 0
          BY <4>0
        <5>2. popped[i].id <= LastId
          BY <3>2, <3>5, <5>1
        <5>3. 1 \in 1..m
          BY <3>2
        <5>4. LastId < queue[1].id /\ queue[1].id \in Nat
          BY <3>2, <3>5, <5>3
        <5> QED
          BY <3>2, <5>2, <5>4
      <4>2. ASSUME NEW i \in 1..(n + 1), NEW j \in 1..(n + 1), i < j
            PROVE  popped'[i].id < popped'[j].id
        <5>1. i \in 1..n /\ (j = n + 1 \/ j \in 1..n)
          BY <4>0, <4>2
        <5> QED
          BY <3>3, <3>5, <4>1, <4>2, <5>1
      <4> QED
        BY <3>3, <4>2
    <3>7. /\ \A i \in DOMAIN queue' : LastId' < queue'[i].id /\ queue'[i].id <= nread
          /\ \A i, j \in DOMAIN queue' : i < j => queue'[i].id < queue'[j].id
      <4>1. \A i \in 1..(m - 1) : i + 1 \in 1..m /\ 1 \in 1..m /\ 1 < i + 1
        BY <3>2
      <4>2. LastId' = queue[1].id
        BY <3>1
      <4>3. /\ \A i \in 1..(m - 1) : LastId' < queue[i + 1].id /\ queue[i + 1].id <= nread
            /\ \A i, j \in 1..(m - 1) : i < j => queue[i + 1].id < queue[j + 1].id
        BY <3>5, <4>1, <4>2
      <4> QED
        BY <3>4, <4>3
    <3>8. rpc = "push" => /\ rpkt.id = nread /\ LastId' < nread
                          /\ \A i \in DOMAIN queue' : queue'[i].id < nread
      BY <3>1, <3>2, <3>4, <3>5
    <3>9. LastId' <= nread
      BY <3>1, <3>2, <3>5
    <3> QED
      BY <3>1, <3>6, <3>7, <3>8, <3>9 DEF Pipeline
  <2> QED
    BY <2>1, <2>2
<1>5. CASE CloseDestroy
  BY <1>5 DEF CloseDestroy, Destroy, Pipeline, LastId
<1>6. CASE ReaderStep
  <2>1. CASE ReaderCheck \/ ReaderTimeout \/ ReaderDisconnect \/ \E k \in 0..MaxIntr : ReaderRead(k)
    BY <1>1, <2>1 DEF ReaderCheck, ReaderTimeout, ReaderDisconnect, ReaderRead
  <2>2. CASE ReaderScan \/ OnInterrupt \/ ReaderSignal \/ ReaderExit
    BY <1>1, <2>2 DEF ReaderScan, OnInterrupt, ReaderSignal, SignalInterrupt,
                      ReaderExit, SignalShutdown
  <2>3. CASE ReaderPushFails \/ ReaderTryLock \/ ReaderAckWrite
    BY <1>1, <2>3 DEF ReaderPushFails, ReaderTryLock, ReaderAckWrite
  <2> QED
    BY <1>2, <1>3, <1>6, <2>1, <2>2, <2>3 DEF ReaderStep
<1>7. CASE Embedder \/ Program \/ Closed \/ MainSpurious \/ UNCHANGED vars
  <2>1. CASE Embedder
    BY <1>1, <2>1 DEF Embedder, RunStart, RunStartFails, RunAgain, CloseStop
  <2> QED
    BY <1>1, <1>7, <2>1 DEF Program, ContStops, Closed, MainSpurious, SpuriousWakeup
<1>8. CASE MainStep
  <2>1. CASE MainNull \/ MainClear \/ MainVerify \/ MainReject \/ MainProcess \/ MainDetach
    BY <1>1, <2>1 DEF MainNull, MainClear, CheckInterrupt, MainVerify, MainReject,
                      MainProcess, MainDetach
  <2>2. CASE ContEnable \/ ContStart \/ ContHalted \/ ContDisable \/ MainStepi
    BY <1>1, <2>2 DEF ContEnable, ContStart, ContHalted, ContDisable, MainStepi
  <2>3. CASE SendLock \/ SendWrite \/ CloseSignal \/ CloseJoin
    BY <1>1, <2>3 DEF SendLock, SendWrite, CloseSignal, SignalShutdown, CloseJoin
  <2> QED
    BY <1>4, <1>5, <1>8, <2>1, <2>2, <2>3 DEF MainStep
<1> QED
  BY <1>6, <1>7, <1>8 DEF Next
----------------------------------------------------------------------------
\* The main thread is between two packets, or outside gdbstub_run.
Idle == {"init", "pop", "null", "clear", "returned"} \cup Closing

\* The parts about the histories alone survive every step that adds nothing to
\* them.
LEMMA HistoryKept ==
  ASSUME Conversation, UNCHANGED <<popped, wire>>, no_ack_mode => no_ack_mode'
  PROVE  NoAckInv' /\ MainInOrder' /\ MainHonoursNoAck'
  BY DEF Conversation, NoAckInv, IsNoAckRequest, MainInOrder, MainHonoursNoAck

\* A step that neither moves the main thread nor adds to the histories.
LEMMA SameConversation ==
  ASSUME Conversation,
         UNCHANGED <<mainVars, pkt, popped, wire, no_ack_mode, failure_count, runs>>
  PROVE  Conversation'
<1>1. UNCHANGED <<mpc, call, ret>> /\ Unsettled' = Unsettled /\ Pending' = Pending /\ LastId' = LastId
  BY DEF mainVars, Unsettled, Pending, LastId
<1>2. StageInv' /\ CallInv' /\ WireInv'
  BY <1>1 DEF Conversation, StageInv, CallInv, WireInv
<1>3. AnswerInv'
  BY <1>1 DEF Conversation, AnswerInv, DoneWith, Answered, Unanswered, AnswersTo
<1>4. CountInv'
  BY <1>1 DEF Conversation, CountInv
<1> QED
  BY <1>2, <1>3, <1>4, HistoryKept DEF Conversation

\* The main thread moves between two packets, or between two runs.
LEMMA IdleStep ==
  ASSUME IInv, Conversation, UNCHANGED <<popped, wire, no_ack_mode, failure_count>>,
         mpc \in Idle, mpc' \in Idle \ {"init"},
         runs' > 0, mpc' = "returned" => ret' # "failures",
         runs' = 1 /\ mpc' \in {"pop", "null", "clear"} =>
            mpc = "init" \/ (runs = 1 /\ mpc \in {"pop", "null", "clear"})
  PROVE  Conversation'
<1>1. ~Unsettled /\ ~Unsettled' /\ ~Pending' /\ mpc' \notin {"reject", "detach", "send"}
  BY DEF Idle, Closing, Unsettled, Pending, Running
<1>2. LastId' = LastId
  BY DEF LastId
<1>3. StageInv' /\ CallInv' /\ WireInv'
  BY <1>1, <1>2 DEF Conversation, StageInv, CallInv, WireInv, Pending, Running
<1>4. AnswerInv'
  <2>1. \A i \in DOMAIN popped : Answered(i)' = Answered(i) /\ Unanswered(i)' = Unanswered(i)
    BY DEF Answered, Unanswered, AnswersTo
  <2>2. ASSUME runs' = 1, mpc' \notin {"init", "returned"} \cup Closing,
               NEW i \in DOMAIN popped, popped[i].ok
        PROVE  Answered(i)
    <3>1. mpc' \in {"pop", "null", "clear"}
      BY <2>2 DEF Idle
    <3>2. CASE mpc = "init"
      BY <2>2, <3>2 DEF Conversation, AnswerInv
    <3>3. CASE runs = 1 /\ mpc \in {"pop", "null", "clear"}
      BY <2>2, <3>3 DEF Conversation, AnswerInv, DoneWith, Closing
    <3> QED
      BY <2>2, <3>1, <3>2, <3>3
  <2> QED
    BY <2>1, <2>2 DEF Conversation, AnswerInv
<1>5. CountInv'
  <2>1. runs' = 1 /\ mpc' \notin {"init", "returned"} \cup Closing => failure_count < MaxFailures
    <3> SUFFICES ASSUME runs' = 1, mpc' \in {"pop", "null", "clear"}
                 PROVE  failure_count < MaxFailures
      BY DEF Idle
    <3>1. CASE mpc = "init"
      <4>1. popped = <<>> /\ failure_count \in Nat
        BY <3>1, SessionTypes DEF Conversation, AnswerInv
      <4>2. failure_count = 0
        BY <1>1, <4>1 DEF Conversation, CountInv
      <4> QED
        BY <4>2, BoundAssumption
    <3>2. CASE runs = 1 /\ mpc \in {"pop", "null", "clear"}
      BY <3>2 DEF Conversation, CountInv, Closing
    <3> QED
      BY <3>1, <3>2
  <2> QED
    BY <1>1, <2>1 DEF Conversation, CountInv
<1> QED
  BY <1>3, <1>4, <1>5, HistoryKept DEF Conversation

\* The target is started, runs and stops.
LEMMA RunningStep ==
  ASSUME IInv, Conversation,
         UNCHANGED <<popped, wire, no_ack_mode, failure_count, pkt, call, runs>>,
         mpc \in {"cont_enable"} \cup Running, mpc' \in Running
  PROVE  Conversation'
<1>1. /\ ~Unsettled /\ ~Unsettled' /\ Pending /\ Pending' /\ LastId' = LastId
      /\ mpc' \notin {"reject", "detach", "send", "step", "init", "returned"} \cup Closing
      /\ mpc \notin {"reject", "detach", "send", "step", "init", "returned"} \cup Closing
      /\ mpc \notin {"pop", "null", "clear"} /\ mpc' \notin {"pop", "null", "clear"}
  BY DEF Running, Closing, Unsettled, Pending, LastId
<1>2. StageInv' /\ CallInv' /\ WireInv'
  BY <1>1 DEF Conversation, StageInv, CallInv, WireInv
<1>3. AnswerInv'
  BY <1>1 DEF Conversation, AnswerInv, DoneWith, Answered, Unanswered, AnswersTo
<1>4. CountInv'
  BY <1>1 DEF Conversation, CountInv
<1> QED
  BY <1>2, <1>3, <1>4, HistoryKept DEF Conversation
----------------------------------------------------------------------------
\* Where the main thread is, in terms of the packet.
LEMMA Stages ==
  /\ mpc = "verify" => Unsettled /\ ~Pending
  /\ mpc = "reject" => Unsettled /\ ~Pending
  /\ mpc = "process" => Unsettled /\ Pending
  /\ mpc = "detach" => ~Unsettled /\ ~Pending
  /\ mpc \in {"cont_enable", "cont_start", "cont_loop", "cont_disable", "step"}
       => ~Unsettled /\ Pending
  /\ mpc = "send" /\ call.next \in {"process", "reject"} => Unsettled /\ ~Pending
  /\ mpc = "send" /\ call.next \in {"pop", "detach"} => ~Unsettled /\ Pending
  /\ mpc \in Idle => ~Unsettled /\ ~Pending
  BY DEF Unsettled, Pending, Running, Idle, Closing

\* The same after a step.
LEMMA StagesNext ==
  /\ mpc' = "reject" => Unsettled' /\ ~Pending'
  /\ mpc' = "verify" => Unsettled' /\ ~Pending'
  /\ mpc' = "process" => Unsettled' /\ Pending'
  /\ mpc' = "detach" => ~Unsettled' /\ ~Pending'
  /\ mpc' \in {"cont_enable", "cont_start", "cont_loop", "cont_disable", "step"}
       => ~Unsettled' /\ Pending'
  /\ mpc' = "send" /\ call'.next \in {"process", "reject"} => Unsettled' /\ ~Pending'
  /\ mpc' = "send" /\ call'.next \in {"pop", "detach"} => ~Unsettled' /\ Pending'
  /\ mpc' \in Idle => ~Unsettled' /\ ~Pending'
  BY DEF Unsettled, Pending, Running, Idle, Closing

\* Checksum verified: acknowledge or refuse, or go on at once in no-ack mode.
LEMMA VerifyStep ==
  ASSUME IInv, Conversation, MainVerify
  PROVE  Conversation'
<1>1. /\ mpc = "verify" /\ UNCHANGED <<popped, wire, pkt, failure_count, runs, no_ack_mode>>
      /\ LastId' = LastId /\ pkt.ok \in BOOLEAN
  <2>1. pkt \in Packet /\ mpc = "verify"
    BY DEF MainVerify, IInv, PacketInv
  <2> QED
    BY <2>1, PacketAssumption
       DEF MainVerify, queueVars, connVars, envVars, histVars, LastId
<1>2. \/ mpc' = "process" /\ pkt.ok
      \/ mpc' = "reject" /\ ~pkt.ok
      \/ /\ mpc' = "send" /\ ~no_ack_mode
         /\ call'.tok.by = "main" /\ call'.tok.id = pkt.id
         /\ \/ call'.next = "process" /\ call'.tok.kind = "ack" /\ pkt.ok
            \/ call'.next = "reject" /\ call'.tok.kind = "nack" /\ ~pkt.ok
  BY <1>1 DEF MainVerify, Goto, SendThen
<1>3. Unsettled /\ ~Pending /\ Unsettled'
      /\ (Pending' => mpc' = "process")
      /\ mpc' \notin {"pop", "null", "clear", "init", "returned", "detach", "step", "cont_enable"} \cup Running
  BY <1>1, <1>2, Stages, StagesNext DEF Running
<1>4. popped # <<>> /\ pkt = popped[Len(popped)]
  BY <1>3 DEF Conversation, StageInv
<1>5. StageInv'
  BY <1>1, <1>2, <1>3, <1>4 DEF StageInv
<1>6. CallInv'
  BY <1>1, <1>2, <1>3 DEF CallInv
<1>7. WireInv'
  BY <1>1, <1>3, SessionTypes DEF Conversation, WireInv
<1>8. AnswerInv'
  BY <1>1, <1>3 DEF Conversation, AnswerInv, DoneWith, Answered, Unanswered, AnswersTo, Closing
<1>9. CountInv'
  BY <1>1, <1>3 DEF Conversation, CountInv, Closing
<1> QED
  BY <1>1, <1>5, <1>6, <1>7, <1>8, <1>9, HistoryKept DEF Conversation

\* A packet with a bad checksum is counted.
LEMMA RejectStep ==
  ASSUME IInv, Conversation, MainReject
  PROVE  Conversation'
<1>1. /\ mpc = "reject" /\ UNCHANGED <<popped, wire, pkt, runs, no_ack_mode>>
      /\ failure_count' = failure_count + 1 /\ LastId' = LastId
      /\ \/ mpc' = "pop" /\ ~(failure_count + 1 >= MaxFailures)
         \/ mpc' = "returned" /\ ret' = "failures" /\ failure_count + 1 >= MaxFailures
  BY DEF MainReject, Goto, Return, queueVars, envVars, histVars, LastId
<1>2. Unsettled /\ ~Unsettled' /\ ~Pending' /\ mpc' \in Idle
  BY <1>1, Stages, StagesNext DEF Idle
<1>3. popped # <<>> /\ pkt = popped[Len(popped)] /\ ~pkt.ok
  BY <1>1, <1>2 DEF Conversation, StageInv
<1>4. StageInv' /\ CallInv' /\ WireInv'
  BY <1>1, <1>2 DEF Conversation, StageInv, CallInv, WireInv, Idle, Closing, Running
<1>5. AnswerInv'
  <2>1. \A i \in DOMAIN popped : Answered(i)' = Answered(i) /\ Unanswered(i)' = Unanswered(i)
    BY <1>1 DEF Answered, Unanswered, AnswersTo
  <2>2. ASSUME runs = 1, mpc' = "pop", NEW i \in DOMAIN popped, popped[i].ok
        PROVE  Answered(i)
    <3>1. i < Len(popped)
      BY <1>3, <2>2, SessionTypes
    <3> QED
      BY <1>1, <2>2, <3>1 DEF Conversation, AnswerInv, DoneWith, Closing
  <2> QED
    BY <1>1, <2>1, <2>2 DEF Conversation, AnswerInv
<1>6. CountInv'
  <2> DEFINE n == Len(popped)
             c == failure_count
  <2>1. /\ n \in Nat /\ n > 0 /\ c \in Nat /\ ~popped[n].ok
        /\ c <= n - 1
        /\ \A i \in (n - 1) - c + 1 .. n - 1 : ~popped[i].ok
        /\ c < n - 1 => popped[(n - 1) - c].ok
    BY <1>2, <1>3, SessionTypes DEF Conversation, CountInv
  <2> HIDE DEF n, c
  <2>2. /\ c + 1 <= n
        /\ \A i \in n - (c + 1) + 1 .. n : ~popped[i].ok
        /\ c + 1 < n => popped[n - (c + 1)].ok
    BY <2>1
  <2>3. MaxFailures \in Nat /\ (runs = 1 => c < MaxFailures)
    BY <1>1, BoundAssumption DEF Conversation, CountInv, Closing, c
  <2>4. /\ mpc' = "returned" => c + 1 >= MaxFailures /\ (runs = 1 => c + 1 = MaxFailures)
        /\ mpc' # "returned" => c + 1 < MaxFailures
    <3>1. \/ mpc' = "pop" /\ ~(c + 1 >= MaxFailures)
          \/ mpc' = "returned" /\ c + 1 >= MaxFailures
      BY <1>1 DEF c
    <3> QED
      BY <2>1, <2>3, <3>1
  <2> QED
    BY <1>1, <1>2, <2>2, <2>4 DEF CountInv, n, c
<1> QED
  BY <1>1, <1>4, <1>5, <1>6, HistoryKept DEF Conversation

\* A good packet resets the count and is carried out, or answered at once.
LEMMA ProcessStep ==
  ASSUME IInv, Conversation, MainProcess
  PROVE  Conversation'
<1>1. /\ mpc = "process" /\ UNCHANGED <<popped, wire, pkt, runs>>
      /\ failure_count' = 0 /\ LastId' = LastId
  BY DEF MainProcess, queueVars, envVars, histVars, LastId
<1>2. Unsettled /\ Pending
  BY <1>1, Stages
<1>3. popped # <<>> /\ pkt = popped[Len(popped)] /\ pkt.ok
  BY <1>1, <1>2 DEF Conversation, StageInv
<1>4. /\ no_ack_mode => no_ack_mode'
      /\ \/ mpc' = "cont_enable" /\ pkt.req = "c"
         \/ mpc' = "step" /\ pkt.req = "s"
         \/ /\ mpc' = "send" /\ pkt.req \notin {"c", "s"}
            /\ call'.tok.by = "main" /\ call'.tok.id = pkt.id /\ call'.tok.kind = "reply"
            /\ call'.next \in {"pop", "detach"} /\ (pkt.req = "Q" => no_ack_mode')
  <2>1. no_ack_mode \in BOOLEAN
    BY DEF IInv, TypeOK, FlagTypeOK
  <2> QED
    BY <2>1 DEF MainProcess, Goto, SendThen
<1>5. ~Unsettled' /\ Pending' /\ mpc' \notin {"reject", "detach", "pop", "null", "clear", "init", "returned"} \cup Running \cup Closing
  BY <1>4, StagesNext DEF Running, Closing
<1>6. StageInv' /\ CallInv'
  BY <1>1, <1>3, <1>4, <1>5 DEF StageInv, CallInv
<1>7. WireInv'
  BY <1>1, <1>2, <1>5, SessionTypes DEF Conversation, WireInv
<1>8. AnswerInv'
  BY <1>1, <1>5 DEF Conversation, AnswerInv, DoneWith, Answered, Unanswered, AnswersTo, Closing
<1>9. CountInv'
  <2>1. Len(popped) \in Nat /\ Len(popped) > 0
    BY <1>3, SessionTypes
  <2>2. 0 < MaxFailures
    BY BoundAssumption
  <2> QED
    BY <1>1, <1>3, <1>5, <2>1, <2>2 DEF CountInv
<1> QED
  BY <1>1, <1>4, <1>6, <1>7, <1>8, <1>9, HistoryKept DEF Conversation

\* The target has stopped, or was stepped: a stop reply is due; or it has shut
\* down, and gdbstub_run returns; or the client has detached.
LEMMA StopStep ==
  ASSUME IInv, Conversation, ContDisable \/ MainStepi \/ MainDetach
  PROVE  Conversation'
<1>1. /\ mpc \in {"cont_disable", "step", "detach"}
      /\ UNCHANGED <<popped, wire, pkt, runs, no_ack_mode, failure_count>>
      /\ LastId' = LastId
  BY DEF ContDisable, MainStepi, MainDetach, queueVars, envVars, histVars, connVars, LastId
<1>2. \/ mpc' = "returned" /\ ret' = "act"
      \/ /\ mpc' = "send" /\ mpc # "detach"
         /\ call'.tok.by = "main" /\ call'.tok.id = pkt.id /\ call'.tok.kind = "stop"
         /\ call'.next = "pop"
  BY DEF ContDisable, MainStepi, MainDetach, SendThen, Return
<1>3. popped # <<>> /\ pkt = popped[Len(popped)] /\ pkt.ok /\ ~Unsettled
      /\ (mpc # "detach" => Pending /\ pkt.req \in {"c", "s"})
  BY <1>1, Stages DEF Conversation, StageInv, Running
<1>4. ~Unsettled' /\ (mpc' = "send" <=> Pending') /\ mpc' \notin {"reject", "detach", "pop", "null", "clear", "init", "cont_enable", "step"} \cup Running \cup Closing
  BY <1>2, StagesNext DEF Running, Closing, Idle
<1>5. StageInv' /\ CallInv'
  <2>1. mpc' = "send" => pkt.req # "Q"
    BY <1>2, <1>3
  <2> QED
    BY <1>1, <1>2, <1>3, <1>4, <2>1 DEF StageInv, CallInv
<1>6. WireInv'
  BY <1>1, <1>2, <1>3, <1>4, SessionTypes DEF Conversation, WireInv
<1>7. AnswerInv'
  BY <1>1, <1>2, <1>4 DEF Conversation, AnswerInv, DoneWith, Answered, Unanswered, AnswersTo, Closing
<1>8. CountInv'
  BY <1>1, <1>2, <1>3, <1>4 DEF Conversation, CountInv, Closing
<1> QED
  BY <1>1, <1>5, <1>6, <1>7, <1>8, HistoryKept DEF Conversation

\* pktqueue_pop hands the main thread the next packet.
LEMMA TakeStep ==
  ASSUME IInv, Pipeline, Conversation, MainPop, queue # <<>>
  PROVE  Conversation'
<1> DEFINE n == Len(popped)
<1>1. /\ mpc = "pop" /\ mpc' = "verify" /\ pkt' = queue[1] /\ queue[1] \in Packet
      /\ popped' = Append(popped, queue[1]) /\ LastId' = queue[1].id
      /\ UNCHANGED <<wire, no_ack_mode, failure_count, runs>>
  BY PopTakeFacts DEF connVars, envVars
<1>2. /\ n \in Nat /\ Len(popped') = n + 1 /\ popped' # <<>>
      /\ DOMAIN popped = 1..n /\ DOMAIN popped' = 1..(n + 1)
      /\ popped'[n + 1] = queue[1] /\ \A i \in 1..n : popped'[i] = popped[i]
  <2>1. popped \in Seq(Packet)
    BY SessionTypes
  <2>2. /\ n \in Nat /\ Len(popped') = n + 1
        /\ DOMAIN popped = 1..n /\ DOMAIN popped' = 1..(n + 1)
        /\ popped'[n + 1] = queue[1] /\ \A i \in 1..n : popped'[i] = popped[i]
    BY <1>1, <2>1, AppendFacts
  <2> QED
    BY <2>2
<1>3. ~Unsettled /\ ~Pending /\ Unsettled' /\ ~Pending'
  BY <1>1, Stages, StagesNext DEF Idle
<1>4. LastId < LastId' /\ LastId \in Nat /\ LastId' \in Nat
  <2>1. 1 \in DOMAIN queue /\ queue[1].id \in Nat
    BY <1>1, SessionTypes
  <2> QED
    BY <1>1, <2>1, SessionTypes DEF Pipeline
<1>5. \A j \in DOMAIN wire : wire[j].by = "main" => wire[j].id < LastId' /\ wire[j].id \in Nat
  BY <1>4, SessionTypes DEF Conversation, WireInv
<1> HIDE DEF n
<1>6. StageInv' /\ CallInv'
  BY <1>1, <1>2, <1>3 DEF StageInv, CallInv, Running
<1>7. WireInv'
  BY <1>1, <1>4, <1>5 DEF Conversation, WireInv
<1>8. AnswerInv'
  <2>1. \A i \in 1..n : Answered(i)' = Answered(i) /\ Unanswered(i)' = Unanswered(i)
    BY <1>1, <1>2 DEF Answered, Unanswered, AnswersTo
  <2>3. \A i \in 1..n : ~popped[i].ok => Unanswered(i)
    BY <1>2 DEF Conversation, AnswerInv
  <2>4. runs = 1 => \A i \in 1..n : popped[i].ok => Answered(i)
    BY <1>1, <1>2 DEF Conversation, AnswerInv, DoneWith, Closing
  <2>5. ASSUME NEW i \in 1..(n + 1)
        PROVE  /\ ~popped'[i].ok => Unanswered(i)'
               /\ runs' = 1 /\ popped'[i].ok /\ DoneWith(i)' => Answered(i)'
    <3>1. CASE i = n + 1
      <4>1. ~DoneWith(i)'
        BY <1>1, <1>2, <3>1 DEF DoneWith
      <4>2. popped'[i] = queue[1] /\ queue[1].id = LastId'
        BY <1>1, <1>2, <3>1
      <4>3. Unanswered(i)'
        BY <1>1, <1>4, <1>5, <4>2 DEF Unanswered, AnswersTo
      <4> QED
        BY <4>1, <4>3
    <3>2. CASE i \in 1..n
      BY <1>1, <1>2, <2>1, <2>3, <2>4, <3>2
    <3>3. n \in Nat
      BY <1>2
    <3>4. i = n + 1 \/ i \in 1..n
      BY <3>3
    <3> QED
      BY <3>1, <3>2, <3>4
  <2>6. runs > 0
    BY <1>1 DEF Conversation, AnswerInv
  <2>7. mpc' # "init" /\ runs' > 0 /\ DOMAIN popped' = 1..(n + 1)
    BY <1>1, <1>2, <2>6
  <2> QED
    BY <2>5, <2>7 DEF AnswerInv
<1>9. CountInv'
  <2>1. /\ failure_count <= n
        /\ \A i \in n - failure_count + 1 .. n : ~popped[i].ok
        /\ failure_count < n => popped[n - failure_count].ok
        /\ failure_count \in Nat
        /\ runs = 1 => failure_count < MaxFailures
    BY <1>1, <1>3, SessionTypes DEF Conversation, CountInv, n, Closing
  <2>2. /\ \A i \in n - failure_count + 1 .. n : ~popped'[i].ok
        /\ failure_count < n => popped'[n - failure_count].ok
    BY <1>2, <2>1
  <2>3. (n + 1) - 1 = n
    BY <1>2
  <2> QED
    BY <1>1, <1>2, <1>3, <2>1, <2>2, <2>3 DEF CountInv
<1>10. \A j \in DOMAIN wire : wire[j].kind = "reply" /\ IsNoAckRequest(wire[j].id)' => IsNoAckRequest(wire[j].id)
  <2> SUFFICES ASSUME NEW j \in DOMAIN wire, wire[j].kind = "reply", IsNoAckRequest(wire[j].id)'
               PROVE  IsNoAckRequest(wire[j].id)
    OBVIOUS
  <2>1. wire[j].by = "main"
    <3>1. wire[j] \in Token
      BY SessionTypes
    <3>2. wire[j].by \in {"main", "reader"}
      BY <3>1 DEF Token
    <3> QED
      BY <3>2 DEF Conversation, WireInv
  <2>2. wire[j].id # queue[1].id
    BY <1>1, <1>4, <1>5, <2>1
  <2>3. PICK i \in 1..(n + 1) : popped'[i].id = wire[j].id /\ popped'[i].ok /\ popped'[i].req = "Q"
    BY <1>1, <1>2 DEF IsNoAckRequest
  <2>4. i \in 1..n
    BY <1>2, <2>2, <2>3
  <2> QED
    BY <1>2, <2>3, <2>4 DEF IsNoAckRequest
<1>11. NoAckInv' /\ MainInOrder' /\ MainHonoursNoAck'
  BY <1>1, <1>10 DEF Conversation, NoAckInv, MainInOrder, MainHonoursNoAck
<1> QED
  BY <1>6, <1>7, <1>8, <1>9, <1>11 DEF Conversation

\* The reader's ACK changes nothing of the conversation of the main thread.
LEMMA AckStep ==
  ASSUME IInv, Conversation, ReaderAckWrite
  PROVE  Conversation'
<1> DEFINE m == Len(wire)
<1>1. PICK t \in Token : wire' = Append(wire, t) /\ t.by = "reader" /\ t.kind = "ack"
  <2>1. rpkt \in Packet
    BY DEF ReaderAckWrite, IInv, PacketInv
  <2>2. [kind |-> "ack", by |-> "reader", id |-> rpkt.id] \in Token
    BY <2>1, PacketAssumption DEF Token
  <2> QED
    BY <2>2 DEF ReaderAckWrite
<1>2. /\ m \in Nat /\ DOMAIN wire = 1..m /\ DOMAIN wire' = 1..(m + 1)
      /\ wire'[m + 1] = t /\ \A j \in 1..m : wire'[j] = wire[j]
  <2>1. wire \in Seq(Token)
    BY SessionTypes
  <2> QED
    BY <1>1, <2>1, AppendFacts
<1> HIDE DEF m
<1>3. \A j \in 1..(m + 1) : j \in 1..m \/ j = m + 1
  <2>1. m \in Nat
    BY <1>2
  <2> QED
    BY <2>1
<1>4. /\ UNCHANGED <<mpc, call, ret, pkt, popped, no_ack_mode, failure_count, runs>>
      /\ Unsettled' = Unsettled /\ Pending' = Pending /\ LastId' = LastId
  BY DEF ReaderAckWrite, queueVars, mainVars, connVars, envVars, Unsettled, Pending, LastId
<1>5. StageInv' /\ CallInv' /\ CountInv'
  BY <1>4 DEF Conversation, StageInv, CallInv, CountInv
<1>6. ASSUME NEW j \in 1..(m + 1), wire'[j].by = "main" \/ wire'[j].kind # "ack"
      PROVE  j \in 1..m /\ wire'[j] = wire[j]
  BY <1>1, <1>2, <1>3, <1>6
<1>7. WireInv'
  <2>1. ASSUME NEW j \in 1..(m + 1), wire'[j].by = "reader" PROVE wire'[j].kind = "ack"
    BY <1>1, <1>2, <1>3, <2>1 DEF Conversation, WireInv
  <2> QED
    BY <1>2, <1>4, <1>6, <2>1 DEF Conversation, WireInv
<1>8. AnswerInv'
  <2>1. \A p : AnswersTo(p)' = AnswersTo(p)
    BY <1>1, <1>2, <1>6 DEF AnswersTo
  <2>2. \A p : \A j \in AnswersTo(p) : wire'[j] = wire[j]
    BY <1>2 DEF AnswersTo
  <2>3. \A i \in DOMAIN popped : Answered(i)' = Answered(i) /\ Unanswered(i)' = Unanswered(i)
    BY <1>4, <2>1, <2>2 DEF Answered, Unanswered
  <2> QED
    BY <1>4, <2>3 DEF Conversation, AnswerInv, DoneWith
<1>9. NoAckInv'
  <2>1. \A id : IsNoAckRequest(id)' = IsNoAckRequest(id)
    BY <1>4 DEF IsNoAckRequest
  <2> QED
    BY <1>2, <1>4, <1>6, <2>1 DEF Conversation, NoAckInv, IsNoAckRequest
<1>10. MainInOrder'
  BY <1>2, <1>6 DEF Conversation, MainInOrder
<1>11. MainHonoursNoAck'
  BY <1>2, <1>4, <1>6 DEF Conversation, MainHonoursNoAck, IsNoAckRequest
<1> QED
  BY <1>5, <1>7, <1>8, <1>9, <1>10, <1>11 DEF Conversation

\* conn_send_str puts the token on the wire and the main thread goes on.
LEMMA SendStep ==
  ASSUME IInv, Pipeline, Conversation, SendWrite
  PROVE  Conversation'
<1> DEFINE m == Len(wire)
           t == call.tok
<1>1. /\ mpc = "send" /\ mpc' = call.next /\ wire' = Append(wire, t)
      /\ UNCHANGED <<call, ret, pkt, popped, no_ack_mode, failure_count, runs>>
      /\ LastId' = LastId /\ t \in Token
  <2>1. call \in SendCall
    BY DEF IInv, TypeOK, MainTypeOK
  <2> QED
    BY <2>1 DEF SendWrite, Goto, queueVars, connVars, envVars, SendCall, LastId
<1>2. /\ m \in Nat /\ DOMAIN wire = 1..m /\ DOMAIN wire' = 1..(m + 1)
      /\ wire'[m + 1] = t /\ \A j \in 1..m : wire'[j] = wire[j]
  <2>1. wire \in Seq(Token)
    BY SessionTypes
  <2> QED
    BY <1>1, <2>1, AppendFacts
<1>3. /\ popped # <<>> /\ pkt = popped[Len(popped)] /\ LastId = pkt.id
      /\ t.by = "main" /\ t.id = LastId /\ LastId \in Nat
  BY <1>1, SessionTypes DEF Conversation, StageInv, CallInv, LastId
<1>4. \/ /\ call.next = "process" /\ t.kind = "ack" /\ pkt.ok /\ ~no_ack_mode
      \/ /\ call.next = "reject" /\ t.kind = "nack" /\ ~pkt.ok /\ ~no_ack_mode
      \/ /\ call.next \in {"pop", "detach"} /\ pkt.ok
         /\ t.kind = IF pkt.req \in {"c", "s"} THEN "stop" ELSE "reply"
         /\ pkt.req = "Q" => no_ack_mode
  <2>1. call.next \in {"pop", "detach"} => pkt.ok
    BY <1>1, Stages DEF Conversation, StageInv
  <2> QED
    BY <1>1, <2>1 DEF Conversation, CallInv
<1> HIDE DEF m, t
<1>5. \A j \in 1..(m + 1) : j \in 1..m \/ j = m + 1
  <2>1. m \in Nat
    BY <1>2
  <2> QED
    BY <2>1
<1>6. /\ Unsettled <=> call.next \in {"process", "reject"}
      /\ Unsettled' <=> call.next \in {"process", "reject"}
      /\ Pending <=> call.next \in {"pop", "detach"}
      /\ Pending' <=> call.next = "process"
  BY <1>1, <1>4, Stages, StagesNext DEF Idle
\* What was on the wire for this packet before.
<1>7. ASSUME NEW j \in 1..m, wire[j].by = "main"
      PROVE  /\ wire[j].id <= LastId /\ wire[j].id \in Nat
             /\ wire[j].id = LastId => wire[j].kind = "ack" /\ call.next \in {"pop", "detach"}
  <2>1. wire[j].id \in Nat
    BY <1>2, SessionTypes DEF m
  <2> QED
    BY <1>1, <1>2, <1>4, <1>6, <1>7, <2>1 DEF Conversation, WireInv
<1>8. mpc' \notin {"init", "returned", "send", "cont_enable", "step", "verify", "null", "clear"} \cup Running \cup Closing
  BY <1>1, <1>4 DEF Running, Closing
<1>9. StageInv' /\ CallInv'
  BY <1>1, <1>3, <1>4, <1>6, <1>8 DEF StageInv, CallInv
<1>10. CountInv'
  BY <1>1, <1>6, <1>8 DEF Conversation, CountInv, Closing
<1>11. WireInv'
  <2>1. ASSUME NEW j \in 1..m
        PROVE  /\ wire'[j].by = "reader" => wire'[j].kind = "ack"
               /\ wire'[j].by = "main" =>
                    /\ wire'[j].id <= LastId
                    /\ wire'[j].id = LastId => ~Unsettled' /\ ~Pending'
    <3>1. wire'[j] = wire[j] /\ (wire[j].by = "reader" => wire[j].kind = "ack")
      BY <1>2 DEF Conversation, WireInv
    <3>2. call.next \in {"pop", "detach"} => ~Unsettled' /\ ~Pending'
      BY <1>6
    <3> QED
      BY <1>7, <3>1, <3>2
  <2>2. /\ t.by # "reader" /\ t.id <= LastId
        /\ Unsettled' => mpc' \in {"process", "reject"}
        /\ Pending' => t.kind = "ack"
    BY <1>1, <1>3, <1>4, <1>6
  <2>3. ASSUME NEW j \in 1..(m + 1)
        PROVE  /\ wire'[j].by = "reader" => wire'[j].kind = "ack"
               /\ wire'[j].by = "main" =>
                    /\ wire'[j].id <= LastId'
                    /\ wire'[j].id = LastId' /\ Unsettled' => mpc' \in {"process", "reject"}
                    /\ wire'[j].id = LastId' /\ Pending' => wire'[j].kind = "ack"
    BY <1>1, <1>2, <1>5, <2>1, <2>2
  <2> QED
    BY <1>2, <2>3 DEF WireInv
<1>12. MainInOrder'
  <2>1. ASSUME NEW i \in 1..(m + 1), NEW j \in 1..(m + 1), i < j,
               wire'[i].by = "main", wire'[j].by = "main"
        PROVE  \/ wire'[i].id < wire'[j].id
               \/ /\ wire'[i].id = wire'[j].id /\ wire'[i].kind = "ack"
                  /\ wire'[j].kind \in {"reply", "stop"}
    <3>1. i \in 1..m /\ wire'[i] = wire[i]
      BY <1>2, <1>5, <2>1
    <3>2. CASE j \in 1..m
      BY <1>2, <2>1, <3>1, <3>2 DEF Conversation, MainInOrder
    <3>3. CASE j = m + 1
      <4>1. wire'[j] = t
        BY <1>2, <3>3
      <4>2. wire[i].id < LastId \/ (wire[i].id = LastId /\ wire[i].kind = "ack" /\ call.next \in {"pop", "detach"})
        BY <1>3, <1>7, <2>1, <3>1
      <4> QED
        BY <1>3, <1>4, <3>1, <4>1, <4>2
    <3> QED
      BY <1>5, <3>2, <3>3
  <2> QED
    BY <1>2, <2>1 DEF MainInOrder
\* The numbers of the packets popped are distinct.
<1>13. ASSUME NEW i \in DOMAIN popped, popped[i].id = LastId
       PROVE  i = Len(popped) /\ popped[i] = pkt
  <2> DEFINE n == Len(popped)
  <2>1. n \in Nat /\ DOMAIN popped = 1..n /\ n > 0 /\ popped[n].id = LastId
    BY <1>3, SessionTypes
  <2> HIDE DEF n
  <2>2. n \in DOMAIN popped /\ (i < n \/ i = n)
    BY <2>1
  <2>3. i < n => popped[i].id < popped[n].id
    BY <2>2 DEF Pipeline
  <2> QED
    BY <1>3, <1>13, <2>1, <2>2, <2>3 DEF n
<1>14. NoAckInv'
  <2>1. \A id : IsNoAckRequest(id)' = IsNoAckRequest(id)
    BY <1>1 DEF IsNoAckRequest
  <2>2. ASSUME NEW j \in 1..(m + 1), wire'[j].kind = "reply", IsNoAckRequest(wire'[j].id)
        PROVE  no_ack_mode
    <3>1. CASE j \in 1..m
      BY <1>2, <2>2, <3>1 DEF Conversation, NoAckInv
    <3>2. CASE j = m + 1
      <4>1. t.kind = "reply" /\ IsNoAckRequest(LastId)
        BY <1>2, <1>3, <2>2, <3>2
      <4>2. pkt.req = "Q"
        BY <1>13, <4>1 DEF IsNoAckRequest
      <4> QED
        BY <1>4, <4>1, <4>2
    <3> QED
      BY <1>5, <3>1, <3>2
  <2> QED
    BY <1>1, <1>2, <2>2 DEF NoAckInv, IsNoAckRequest
<1>15. MainHonoursNoAck'
  <2>1. ASSUME NEW i \in 1..(m + 1), NEW j \in 1..(m + 1), i < j,
               wire'[i].kind = "reply", IsNoAckRequest(wire'[i].id), wire'[j].by = "main"
        PROVE  wire'[j].kind \notin {"ack", "nack"}
    <3>1. i \in 1..m /\ wire'[i] = wire[i]
      BY <1>2, <1>5, <2>1
    <3>2. CASE j \in 1..m
      BY <1>2, <2>1, <3>1, <3>2 DEF Conversation, MainHonoursNoAck
    <3>3. CASE j = m + 1
      <4>1. no_ack_mode
        BY <1>2, <2>1, <3>1 DEF Conversation, NoAckInv
      <4> QED
        BY <1>2, <1>4, <3>3, <4>1
    <3> QED
      BY <1>5, <3>2, <3>3
  <2> QED
    BY <1>1, <1>2, <2>1 DEF MainHonoursNoAck, IsNoAckRequest
<1>16. AnswerInv'
  <2>1. \A p : /\ AnswersTo(p) \subseteq AnswersTo(p)'
               /\ \A j \in AnswersTo(p) : wire'[j] = wire[j]
    BY <1>2, <1>5 DEF AnswersTo
  <2>2. \A i \in DOMAIN popped : Answered(i) => Answered(i)'
    BY <1>1, <2>1 DEF Answered
  <2>3. ASSUME NEW i \in DOMAIN popped, ~popped[i].ok PROVE Unanswered(i)'
    <3>1. Unanswered(i)
      BY <2>3 DEF Conversation, AnswerInv
    <3>2. ~(t.id = popped[i].id /\ t.kind \in {"reply", "stop"})
      BY <1>3, <1>4, <1>13, <2>3
    <3> QED
      BY <1>1, <1>2, <1>5, <3>1, <3>2 DEF Unanswered, AnswersTo
  <2>4. ASSUME NEW i \in DOMAIN popped, i = Len(popped), mpc' = "pop" PROVE Answered(i)'
    <3>1. /\ popped[i] = pkt /\ t.id = popped[i].id
          /\ t.kind = IF popped[i].req \in {"c", "s"} THEN "stop" ELSE "reply"
      BY <1>1, <1>3, <1>4, <2>4
    <3>2. m + 1 \in DOMAIN wire' /\ wire'[m + 1] = t
      BY <1>2
    <3> QED
      BY <1>1, <1>3, <3>1, <3>2 DEF Answered, AnswersTo
  <2>5. ASSUME runs = 1, NEW i \in DOMAIN popped, popped[i].ok, DoneWith(i)'
        PROVE  Answered(i)'
    <3>1. CASE i < Len(popped)
      BY <1>1, <2>2, <2>5, <3>1 DEF Conversation, AnswerInv, DoneWith, Closing
    <3>2. CASE ~(i < Len(popped))
      <4>1. i = Len(popped) /\ mpc' = "pop"
        BY <1>1, <1>8, <2>5, <3>2, SessionTypes DEF DoneWith
      <4> QED
        BY <2>4, <4>1
    <3> QED
      BY <3>1, <3>2
  <2>6. runs > 0 /\ mpc' # "init"
    BY <1>1, <1>8 DEF Conversation, AnswerInv
  <2> QED
    BY <1>1, <2>3, <2>5, <2>6 DEF AnswerInv
<1> QED
  BY <1>9, <1>10, <1>11, <1>12, <1>14, <1>15, <1>16 DEF Conversation
----------------------------------------------------------------------------
\* The reader's ACKs stay in order, too.
LEMMA AckInvStep ==
  ASSUME IInv, Pipeline, Conversation, AckInv, [Next]_vars
  PROVE  AckInv'
<1> USE DEF vars, queueVars, readerVars, mainVars, privVars, connVars, envVars,
            histVars
<1> DEFINE m == Len(wire)
<1>1. ASSUME UNCHANGED <<wire, nread>>,
             rpc' \in Acknowledging => rpc \in Acknowledging /\ UNCHANGED rpkt
      PROVE  AckInv'
  BY <1>1 DEF AckInv, AcksInOrder, Pipeline, Acknowledging
<1>2. ASSUME NEW p \in Packet \cup {NULL}, ReaderNext(p) PROVE AckInv'
  <2>1. CASE p = NULL
    BY <1>1, <1>2, <2>1 DEF ReaderNext, Acknowledging
  <2>2. CASE p # NULL
    <3>1. nread' = nread + 1 /\ rpc' = "push" /\ UNCHANGED wire
      BY <1>2, <2>2 DEF ReaderNext
    <3>2. \A j \in DOMAIN wire : wire[j].id < nread' /\ wire[j].id <= nread'
      BY <3>1, SessionTypes DEF AckInv
    <3> QED
      BY <3>1, <3>2 DEF AckInv, AcksInOrder
  <2> QED
    BY <2>1, <2>2
<1>3. ASSUME NEW t \in Token, wire' = Append(wire, t), UNCHANGED nread, t.id <= nread,
             \/ t.by = "main" /\ UNCHANGED <<rpc, rpkt>>
             \/ t.by = "reader" /\ t.id = nread /\ rpc \in Acknowledging /\ rpc' = "next"
      PROVE  AckInv'
  <2>1. /\ m \in Nat /\ DOMAIN wire = 1..m /\ DOMAIN wire' = 1..(m + 1)
        /\ wire'[m + 1] = t /\ \A j \in 1..m : wire'[j] = wire[j]
    <3>1. wire \in Seq(Token)
      BY SessionTypes
    <3> QED
      BY <1>3, <3>1, AppendFacts
  <2> HIDE DEF m
  <2>2. \A j \in 1..(m + 1) : j \in 1..m \/ j = m + 1
    <3>1. m \in Nat
      BY <2>1
    <3> QED
      BY <3>1
  <2>3. \A i \in 1..(m + 1), j \in 1..(m + 1) : i < j => i \in 1..m
    <3>1. m \in Nat
      BY <2>1
    <3> QED
      BY <3>1
  <2>4. \A j \in 1..m : /\ wire[j].id \in Nat /\ wire[j].id <= nread /\ nread \in Nat
                        /\ wire[j].by \in {"main", "reader"}
                        /\ wire[j].by = "reader" /\ rpc \in Acknowledging => wire[j].id < nread
    <3>1. \A j \in 1..m : wire[j] \in Token /\ wire[j].id \in Nat /\ nread \in Nat
      BY <2>1, SessionTypes DEF m
    <3>2. \A j \in 1..m : wire[j].by \in {"main", "reader"}
      BY <3>1 DEF Token
    <3> QED
      BY <2>1, <3>1, <3>2 DEF AckInv
  <2>5. rpc' \in {"ack", "ack_write"} => rpkt'.id = nread'
    BY <1>3 DEF AckInv
  <2>6. ASSUME NEW j \in 1..(m + 1)
        PROVE  /\ wire'[j].id <= nread'
               /\ wire'[j].by = "reader" /\ rpc' \in Acknowledging => wire'[j].id < nread'
    BY <1>3, <2>1, <2>2, <2>4 DEF Acknowledging
  <2>7. ASSUME NEW i \in 1..(m + 1), NEW j \in 1..(m + 1), i < j, wire'[j].by = "reader"
        PROVE  wire'[i].id < wire'[j].id \/ (wire'[i].id = wire'[j].id /\ wire'[i].by = "main")
    <3>1. i \in 1..m /\ wire'[i] = wire[i]
      BY <2>1, <2>3, <2>7
    <3>2. CASE j \in 1..m
      BY <2>1, <2>7, <3>1, <3>2 DEF AckInv, AcksInOrder
    <3>3. CASE j = m + 1
      <4>1. wire'[j] = t /\ t.id = nread /\ rpc \in Acknowledging
        BY <1>3, <2>1, <2>7, <3>3
      <4>2. wire[i].id < nread \/ wire[i].id = nread
        BY <2>4, <3>1
      <4> QED
        BY <2>4, <3>1, <4>1, <4>2
    <3> QED
      BY <2>2, <3>2, <3>3
  <2> QED
    BY <2>1, <2>5, <2>6, <2>7 DEF AckInv, AcksInOrder
<1>4. CASE ReaderAckWrite
  <2> DEFINE t == [kind |-> "ack", by |-> "reader", id |-> rpkt.id]
  <2>1. /\ wire' = Append(wire, t) /\ UNCHANGED nread /\ rpc = "ack_write" /\ rpc' = "next"
        /\ rpkt \in Packet
    BY <1>4 DEF ReaderAckWrite, IInv, PacketInv
  <2>2. t \in Token /\ t.by = "reader" /\ t.id = nread
    BY <2>1, PacketAssumption DEF Token, AckInv
  <2>3. nread <= nread
    BY SessionTypes
  <2> QED
    BY <1>3, <2>1, <2>2, <2>3 DEF Acknowledging
<1>5. CASE SendWrite
  <2>1. /\ wire' = Append(wire, call.tok) /\ UNCHANGED <<nread, rpc, rpkt>> /\ mpc = "send"
        /\ call.tok \in Token
    BY <1>5 DEF SendWrite, IInv, TypeOK, MainTypeOK, SendCall
  <2>2. call.tok.by = "main" /\ call.tok.id = LastId
    BY <2>1 DEF Conversation, StageInv, CallInv, LastId
  <2>3. LastId <= nread
    BY DEF Pipeline
  <2> QED
    BY <1>3, <2>1, <2>2, <2>3
<1>6. CASE ReaderStep
  <2>1. CASE ReaderCheck \/ ReaderTimeout \/ ReaderDisconnect \/ \E k \in 0..MaxIntr : ReaderRead(k)
    BY <1>1, <2>1 DEF ReaderCheck, ReaderTimeout, ReaderDisconnect, ReaderRead, Acknowledging
  <2>2. CASE ReaderScan \/ OnInterrupt \/ ReaderSignal \/ ReaderExit
    BY <1>1, <2>2 DEF ReaderScan, OnInterrupt, ReaderSignal, ReaderExit, Acknowledging
  <2>3. CASE ReaderPush \/ ReaderPushFails \/ ReaderTryLock
    BY <1>1, <2>3 DEF ReaderPush, ReaderPushFails, ReaderTryLock, Acknowledging
  <2> QED
    BY <1>2, <1>4, <1>6, <2>1, <2>2, <2>3 DEF ReaderStep
<1>7. CASE Embedder \/ Program \/ Closed \/ MainSpurious \/ UNCHANGED vars
  <2>1. CASE Embedder
    BY <1>1, <2>1 DEF Embedder, RunStart, RunStartFails, RunAgain, CloseStop, Acknowledging
  <2> QED
    BY <1>1, <1>7, <2>1 DEF Program, ContStops, Closed, MainSpurious
<1>8. CASE MainStep
  <2>1. CASE MainPop \/ MainNull \/ MainClear \/ MainVerify \/ MainReject \/ MainProcess \/ MainDetach
    BY <1>1, <2>1 DEF MainPop, MainNull, MainClear, MainVerify, MainReject,
                      MainProcess, MainDetach
  <2>2. CASE ContEnable \/ ContStart \/ ContHalted \/ ContDisable \/ MainStepi
    BY <1>1, <2>2 DEF ContEnable, ContStart, ContHalted, ContDisable, MainStepi
  <2>3. CASE SendLock \/ CloseSignal \/ CloseJoin \/ CloseDestroy
    BY <1>1, <2>3 DEF SendLock, CloseSignal, CloseJoin, CloseDestroy, Acknowledging
  <2> QED
    BY <1>5, <1>8, <2>1, <2>2, <2>3 DEF MainStep
<1> QED
  BY <1>6, <1>7, <1>8 DEF Next

----------------------------------------------------------------------------
\* Every step keeps the conversation in order.
LEMMA NextSession == IInv /\ SessionInv /\ [Next]_vars => SessionInv'
<1> SUFFICES ASSUME IInv, SessionInv, [Next]_vars PROVE SessionInv'
  OBVIOUS
<1> USE DEF queueVars, mainVars, connVars, envVars, histVars
<1>0. Pipeline /\ Conversation /\ runs \in Nat
  BY DEF SessionInv, IInv, TypeOK, EnvTypeOK
<1>1. Pipeline' /\ AckInv'
  BY <1>0, PipelineStep, AckInvStep DEF SessionInv
<1> SUFFICES Conversation'
  BY <1>1 DEF SessionInv
<1>2. CASE ReaderStep
  <2>1. CASE ReaderCheck \/ ReaderTimeout \/ ReaderDisconnect \/ ReaderScan
             \/ OnInterrupt \/ ReaderPushFails
    BY <1>0, <2>1, SameConversation DEF ReaderCheck, ReaderTimeout,
       ReaderDisconnect, ReaderScan, OnInterrupt, ReaderPushFails
  <2>2. CASE \E k \in 0..MaxIntr : ReaderRead(k)
    BY <1>0, <2>2, SameConversation DEF ReaderRead
  <2>3. CASE \E p \in Packet \cup {NULL} : ReaderNext(p)
    BY <1>0, <2>3, SameConversation DEF ReaderNext
  <2>4. CASE ReaderSignal \/ ReaderPush \/ ReaderTryLock \/ ReaderExit
    BY <1>0, <2>4, SameConversation DEF ReaderSignal, SignalInterrupt, ReaderPush,
       Push, ReaderTryLock, ReaderExit, SignalShutdown
  <2> QED
    BY <1>0, <1>2, <2>1, <2>2, <2>3, <2>4, AckStep DEF ReaderStep
<1>3. CASE MainPop
  <2>1. CASE queue # <<>>
    BY <1>0, <1>3, <2>1, TakeStep
  <2>2. CASE queue = <<>>
    <3>1. /\ mpc = "pop" /\ mpc' \in {"pop", "null"}
          /\ UNCHANGED <<popped, wire, no_ack_mode, failure_count, runs>>
      BY <1>3, <2>2 DEF MainPop, PopTake, Goto
    <3>2. runs' > 0
      BY <1>0, <3>1 DEF Conversation, AnswerInv
    <3> QED
      BY <1>0, <3>1, <3>2, IdleStep DEF Idle
  <2> QED
    BY <2>1, <2>2
<1>4. CASE MainNull \/ MainClear
  <2>1. /\ mpc \in {"null", "clear"}
        /\ \/ mpc' \in {"pop", "clear"}
           \/ mpc' = "returned" /\ ret' = "shutdown"
        /\ UNCHANGED <<popped, wire, no_ack_mode, failure_count, runs>>
    BY <1>4 DEF MainNull, MainClear, Goto, Return
  <2>2. runs' > 0
    BY <1>0, <2>1 DEF Conversation, AnswerInv
  <2> QED
    BY <1>0, <2>1, <2>2, IdleStep DEF Idle
<1>5. CASE CloseStop \/ CloseSignal \/ CloseJoin \/ CloseDestroy
  <2>1. /\ mpc \in {"returned"} \cup Closing /\ mpc' \in Closing
        /\ UNCHANGED <<popped, wire, no_ack_mode, failure_count, runs>>
    BY <1>5 DEF CloseStop, CloseSignal, CloseJoin, CloseDestroy, Goto, Closing
  <2>2. runs' > 0
    BY <1>0, <2>1 DEF Conversation, AnswerInv, Closing
  <2> QED
    BY <1>0, <2>1, <2>2, IdleStep DEF Idle, Closing
<1>6. CASE RunStart \/ RunStartFails \/ RunAgain
  <2>1. /\ mpc \in {"init", "returned"} /\ runs' = runs + 1
        /\ mpc' = "pop" \/ (mpc' = "returned" /\ ret' = "nothread")
        /\ UNCHANGED <<popped, wire, no_ack_mode, failure_count>>
    BY <1>6 DEF RunStart, RunStartFails, RunAgain, Goto, Return
  <2>2. mpc = "init" \/ runs > 0
    BY <1>0 DEF Conversation, AnswerInv
  <2>3. runs' > 0 /\ (runs' = 1 => mpc = "init")
    BY <1>0, <2>1, <2>2
  <2> QED
    BY <1>0, <2>1, <2>3, IdleStep DEF Idle
<1>7. CASE ContEnable \/ ContStart \/ ContHalted \/ Program
  BY <1>0, <1>7, RunningStep
     DEF ContEnable, ContStart, ContHalted, Program, ContStops, Goto, Running
<1>8. CASE SendLock \/ MainSpurious \/ Closed \/ UNCHANGED vars
  BY <1>0, <1>8, SameConversation DEF SendLock, MainSpurious, SpuriousWakeup, Closed, vars
<1>9. CASE MainVerify \/ MainReject \/ MainProcess
  BY <1>0, <1>9, VerifyStep, RejectStep, ProcessStep
<1>10. CASE MainDetach \/ ContDisable \/ MainStepi
  BY <1>0, <1>10, StopStep
<1>11. CASE SendWrite
  BY <1>0, <1>11, SendStep
<1> QED
  BY <1>2, <1>3, <1>4, <1>5, <1>6, <1>7, <1>8, <1>9, <1>10, <1>11
     DEF Next, MainStep, Embedder

(***************************************************************************)
(* The conversation invariant holds throughout: the numbers of the packets *)
(* popped, queued and about to be pushed are in the order in which the     *)
(* client sent them, and what the main thread has sent and is about to     *)
(* send agrees with where gdbstub_run is in handling the last one.         *)
(***************************************************************************)
THEOREM SessionInvariance == Spec => []SessionInv
<1>1. Init => SessionInv
  BY InitSession
<1>2. IInv /\ SessionInv /\ [Next]_vars => SessionInv'
  BY NextSession
<1> QED
  BY <1>1, <1>2, Invariance, PTL DEF Spec

(***************************************************************************)
(* The main thread answers the requests in the order in which they came,   *)
(* acknowledging before it answers and answering once, and the reader's    *)
(* ACKs, which race with it, are never late by a packet: for any number of *)
(* packets, interrupts and runs.                                           *)
(***************************************************************************)
THEOREM RequestsAnsweredInOrder == Spec => []AnswersInOrder
<1>1. SessionInv => AnswersInOrder
  BY DEF SessionInv, Conversation, AckInv, AnswersInOrder
<1> QED
  BY <1>1, SessionInvariance, PTL

(***************************************************************************)
(* Back at pktqueue_pop, the first gdbstub_run has answered every good     *)
(* packet as its request demands and no packet with a bad checksum.        *)
(***************************************************************************)
THEOREM NoRequestForgotten == Spec => []EveryRequestAnswered
<1>1. SessionInv => EveryRequestAnswered
  <2> SUFFICES ASSUME SessionInv, mpc = "pop", runs = 1, NEW i \in DOMAIN popped
               PROVE  IF popped[i].ok THEN Answered(i) ELSE Unanswered(i)
    BY DEF EveryRequestAnswered, Answered, Unanswered
  <2> QED
    BY DEF SessionInv, Conversation, AnswerInv, DoneWith, Closing
<1> QED
  BY <1>1, SessionInvariance, PTL

(***************************************************************************)
(* gdbstub_run gives up only after CONN_MAX_FAILURES packets in a row with *)
(* a bad checksum: failure_count is exact, also across calls, and the      *)
(* first call never goes beyond the limit.                                 *)
(***************************************************************************)
THEOREM GivesUpOnlyInARow == Spec => []FailuresAreConsecutive
<1>1. SessionInv => FailuresAreConsecutive
  <2> SUFFICES ASSUME SessionInv PROVE FailuresAreConsecutive
    OBVIOUS
  <2>1. mpc \in {"pop", "returned"} => ~Unsettled
    BY Stages DEF Idle
  <2> QED
    BY <2>1 DEF SessionInv, Conversation, CountInv, FailuresAreConsecutive, Closing
<1> QED
  BY <1>1, SessionInvariance, PTL

(***************************************************************************)
(* After the answer to QStartNoAckMode the main thread acknowledges        *)
(* nothing any more, in this run or a later one.                           *)
(***************************************************************************)
THEOREM NoAckModeHonoured == Spec => []MainHonoursNoAck
<1>1. SessionInv => MainHonoursNoAck
  BY DEF SessionInv, Conversation
<1> QED
  BY <1>1, SessionInvariance, PTL
==============================================================================
