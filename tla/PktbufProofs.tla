----------------------------- MODULE PktbufProofs -----------------------------
(***************************************************************************)
(* The packet buffer, for any messages, any initial capacity and however   *)
(* the stream is cut into reads: the valid bytes stay within the buffer    *)
(* through every enlargement and every move, what is handed on as a packet *)
(* is framed as its users take it to be, and every interrupt is signalled. *)
(* And for a client that waits for its answers, which sends at most one    *)
(* packet at a time: the packets handed on are the ones it sent.           *)
(***************************************************************************)
EXTENDS Pktbuf, WellFoundedInduction, SequenceTheorems, FunctionTheorems, FiniteSetTheorems, TLAPS

\* What is in front and behind the buffer: bytes to read, packets taken.
StreamInv == pending \in Seq(Byte) /\ out \in Seq(Seq(Byte))

\* Between pktbuf_is_complete and pktbuf_pop_packet the packet lies at the front
\* of the buffer, and end_pos is two behind its first '#', at most one byte
\* behind the valid ones.
CompleteInv ==
    pc = "pop" =>
       /\ end_pos \in CSUM_SIZE .. size
       /\ data[0] = "$"
       /\ data[end_pos - CSUM_SIZE] = "#"
       /\ \A i \in 0 .. end_pos - CSUM_SIZE - 1 : data[i] # "#"

IInv == WellFramed /\ StreamInv /\ CompleteInv

\* What the reference decoder can be.
Modes == {"between", "body", "csum1", "csum2"}
Decoders == [mode : Modes, cur : Seq(Byte), frames : Seq(Seq(Byte)), intrs : Nat, inside : Nat]

\* The bytes 0x03 among the first k bytes, and among all.
IntrsUpTo(bytes, k) == {i \in 1 .. k : bytes[i] = "^C"}
Intrs(bytes) == Cardinality(IntrsUpTo(bytes, Len(bytes)))

\* Each 0x03 sent has been signalled or is still to be read.
CountInv ==
    /\ {ref, whole} \subseteq Decoders /\ intrs \in Nat
    /\ whole.intrs + whole.inside = intrs + Intrs(pending)

\* At most one packet in w, nothing behind it, and no '$' but its own.
Lone(w) == \A s \in 1 .. Len(w) : w[s] = "$" =>
    /\ s + 3 <= Len(w) /\ w[Len(w) - 2] = "#"
    /\ \A t \in s .. Len(w) - 3 : w[t] # "#"
    /\ \A t \in 1 .. Len(w) : w[t] = "$" => t = s

\* The bytes from the front of the buffer to the last one sent.
StreamOf(d, z, p) == [i \in 1 .. z + Len(p) |-> IF i <= z THEN d[i - 1] ELSE p[i - z]]
Stream == StreamOf(data, size, pending)

\* Where decoder d is after k bytes of w, the packets before w being o.
Progress(d, w, k, o) ==
  \/ /\ \A t \in 1 .. k : w[t] # "$"
     /\ d.mode = "between" /\ d.cur = <<>> /\ d.frames = o
  \/ \E s \in 1 .. k :
       /\ w[s] = "$" /\ k < Len(w)
       /\ d.frames = o /\ d.cur = SubSeq(w, s, k)
       /\ d.mode = IF k < Len(w) - 2 THEN "body" ELSE IF k = Len(w) - 2 THEN "csum1" ELSE "csum2"
  \/ \E s \in 1 .. k :
       /\ w[s] = "$" /\ k = Len(w)
       /\ d.mode = "between" /\ d.cur = <<>> /\ d.frames = Append(o, SubSeq(w, s, k))

\* In lock step, and with no read that ended between two checksum digits: the
\* buffer and what is still to be read hold at most one packet, the decoder is
\* where the valid bytes end, and the buffer takes the packet for complete
\* exactly when the decoder does.
FrameInv == lockstep /\ uncut =>
   /\ Lone(Stream)
   /\ ref.mode # "csum2"
   /\ Progress(ref, Stream, size, out)
   /\ pc = "fill" => out = ref.frames
   /\ pc = "pop" => pending = <<>> /\ Stream[1] = "$" /\ end_pos + 1 = size
   /\ pc # "crashed"

\* No message holds more than one packet, nor anything behind a packet.
SinglePackets == \A m \in Message : Lone(m)
----------------------------------------------------------------------------
\* Min is the least element, for every nonempty set of numbers.
LEMMA MinIsLeast ==
  ASSUME NEW T \in SUBSET Nat, T # {}
  PROVE  Min(T) \in T /\ \A y \in T : Min(T) <= y
<1> DEFINE R == OpToRel(<, Nat)
<1>1. IsWellFoundedOn(R, Nat)
  BY NatLessThanWellFounded
<1>2. \A y, m \in Nat : <<y, m>> \in R <=> y < m
  BY DEF OpToRel
<1> HIDE DEF R
<1>3. PICK m \in T : \A y \in T : ~(<<y, m>> \in R)
  BY <1>1, WFMin
<1>4. ASSUME NEW y \in T PROVE m <= y
  <2>1. y \in Nat /\ m \in Nat /\ ~(<<y, m>> \in R)
    BY <1>3
  <2> QED
    BY <1>2, <2>1
<1>5. \E x \in T : \A y \in T : x <= y
  BY <1>4
<1> QED
  BY <1>5 DEF Min

\* The ends of a sequence are sequences.
LEMMA Chunk ==
  ASSUME NEW S, NEW s \in Seq(S), NEW n \in 1..Len(s)
  PROVE  /\ SubSeq(s, 1, n) \in Seq(S) /\ Len(SubSeq(s, 1, n)) = n
         /\ \A i \in 1..n : SubSeq(s, 1, n)[i] \in S
         /\ SubSeq(s, n + 1, Len(s)) \in Seq(S)
  OBVIOUS

\* pktbuf_init.
LEMMA InitIInv == Init => IInv
<1> SUFFICES ASSUME Init PROVE IInv
  OBVIOUS
<1>1. TypeOK
  BY CapAssumption DEF Init, TypeOK, Byte
<1>2. out = <<>> /\ pending = <<>> /\ pc = "fill"
  BY DEF Init
<1> QED
  BY <1>1, <1>2 DEF IInv, WellFramed, StreamInv, CompleteInv

\* pktbuf_fill_from_file stays within the buffer, enlarged if it was full.
LEMMA FillIInv ==
  ASSUME IInv, NEW n \in 1..Len(pending), pktbuf_fill_from_file(n)
  PROVE  IInv'
<1> DEFINE chunk == SubSeq(pending, 1, n)
<1>1. /\ data \in [0 .. cap - 1 -> Byte] /\ cap \in Nat /\ cap >= DefaultCap
      /\ size \in 0 .. cap /\ end_pos \in Nat \cup {-1} /\ pending \in Seq(Byte)
  BY DEF IInv, WellFramed, TypeOK, StreamInv
<1>2. /\ n \in 1 .. NewCap - size /\ cap' = NewCap /\ size' = size + n
      /\ data' = [i \in 0 .. NewCap - 1 |->
                    IF size <= i /\ i < size + n THEN chunk[i - size + 1]
                    ELSE IF i < cap THEN data[i] ELSE "?"]
      /\ pending' = SubSeq(pending, n + 1, Len(pending))
      /\ pc' = "parse" /\ UNCHANGED <<end_pos, out>>
  BY DEF pktbuf_fill_from_file, ReadSizes
<1>3. NewCap \in Nat /\ NewCap >= cap
  BY <1>1 DEF NewCap
<1>4. \A i \in 1..n : chunk[i] \in Byte
  BY <1>1, Chunk
<1>5. pending' \in Seq(Byte)
  BY <1>1, <1>2, Chunk
<1> HIDE DEF chunk
<1>6. data' \in [0 .. cap' - 1 -> Byte]
  <2>1. ASSUME NEW i \in 0 .. NewCap - 1
        PROVE  (IF size <= i /\ i < size + n THEN chunk[i - size + 1]
                ELSE IF i < cap THEN data[i] ELSE "?") \in Byte
    <3>1. size <= i /\ i < size + n => i - size + 1 \in 1..n
      BY <1>1, <1>3
    <3>2. i < cap => i \in 0 .. cap - 1
      BY <1>1, <1>3
    <3>3. "?" \in Byte
      BY DEF Byte
    <3> QED
      BY <1>1, <1>4, <3>1, <3>2, <3>3
  <2> QED
    BY <1>2, <2>1
<1>7. cap' \in Nat /\ cap' >= DefaultCap /\ size' \in 0 .. cap'
  BY <1>1, <1>2, <1>3, CapAssumption
<1>8. TypeOK'
  BY <1>1, <1>2, <1>6, <1>7 DEF TypeOK
<1>9. WellFramed' /\ StreamInv'
  BY <1>2, <1>5, <1>8 DEF IInv, WellFramed, StreamInv
<1> QED
  BY <1>2, <1>9 DEF IInv, CompleteInv

\* pktbuf_is_complete moves the packet to the front and finds its end.
LEMMA HasHeadIInv ==
  ASSUME IInv, HasHead
  PROVE  IInv'
<1>1. /\ data \in [0 .. cap - 1 -> Byte] /\ cap \in Nat /\ cap >= DefaultCap
      /\ size \in 0 .. cap /\ end_pos \in Nat \cup {-1}
  BY DEF IInv, WellFramed, TypeOK
<1>2. /\ Offsets("$") # {} /\ data' = Moved /\ size' = MovedSize
      /\ \/ IsComplete /\ end_pos' = EndPos /\ pc' = "pop"
         \/ UNCHANGED end_pos /\ pc' = "fill"
      /\ UNCHANGED <<cap, out, pending>>
  BY DEF HasHead
<1>3. head \in 0 .. size - 1 /\ data[head] = "$"
  <2>1. Offsets("$") \in SUBSET Nat
    BY DEF Offsets
  <2>2. head \in Offsets("$")
    BY <1>2, <2>1, MinIsLeast DEF head
  <2> QED
    BY <2>2 DEF Offsets
<1>4. MovedSize \in 1 .. size
  BY <1>1, <1>3 DEF MovedSize
<1>5. /\ Moved \in [0 .. cap - 1 -> Byte]
      /\ \A i \in 0 .. MovedSize - 1 : Moved[i] = data[head + i]
  <2>1. DOMAIN data = 0 .. cap - 1
    BY <1>1
  <2>2. ASSUME NEW i \in 0 .. cap - 1, i < MovedSize PROVE head + i \in 0 .. cap - 1
    BY <1>1, <1>3, <2>2 DEF MovedSize
  <2>3. \A i \in 0 .. MovedSize - 1 : i \in 0 .. cap - 1 /\ i < MovedSize
    BY <1>1, <1>4
  <2> QED
    BY <1>1, <2>1, <2>2, <2>3 DEF Moved, MoveDown
<1>6. Moved[0] = "$"
  <2>1. 0 \in 0 .. MovedSize - 1 /\ head + 0 = head
    BY <1>3, <1>4
  <2> QED
    BY <1>3, <1>5, <2>1
<1>7. TypeOK'
  <2>1. size' \in 0 .. cap
    BY <1>1, <1>2, <1>4
  <2>2. IsComplete => EndPos \in Nat
    <3>1. HashAt \in SUBSET Nat
      BY DEF HashAt
    <3>2. IsComplete => Min(HashAt) \in Nat
      BY <3>1, MinIsLeast DEF IsComplete
    <3> QED
      BY <3>2 DEF EndPos, CSUM_SIZE
  <2> QED
    BY <1>1, <1>2, <1>5, <2>1, <2>2 DEF TypeOK
<1>8. CompleteInv'
  <2> SUFFICES ASSUME pc' = "pop"
               PROVE  /\ EndPos \in CSUM_SIZE .. MovedSize /\ Moved[0] = "$"
                      /\ Moved[EndPos - CSUM_SIZE] = "#"
                      /\ \A i \in 0 .. EndPos - CSUM_SIZE - 1 : Moved[i] # "#"
    BY <1>2 DEF CompleteInv
  <2> DEFINE h == Min(HashAt)
  <2>1. IsComplete
    BY <1>2
  <2>2. h \in HashAt /\ \A y \in HashAt : h <= y
    <3>1. HashAt \in SUBSET Nat
      BY DEF HashAt
    <3> QED
      BY <2>1, <3>1, MinIsLeast DEF IsComplete
  <2>3. /\ EndPos = h + 2 /\ h \in 0 .. MovedSize - 1 /\ Moved[h] = "#"
        /\ EndPos <= MovedSize
    BY <2>1, <2>2 DEF EndPos, CSUM_SIZE, HashAt, IsComplete
  <2> HIDE DEF h
  <2>4. EndPos - CSUM_SIZE = h /\ EndPos \in CSUM_SIZE .. MovedSize
    BY <1>4, <2>3 DEF CSUM_SIZE
  <2>5. ASSUME NEW i \in 0 .. h - 1, Moved[i] = "#" PROVE FALSE
    <3>1. i \in 0 .. MovedSize - 1 /\ ~(h <= i)
      BY <1>4, <2>3
    <3>2. i \in HashAt
      BY <2>5, <3>1 DEF HashAt
    <3> QED
      BY <2>2, <3>1, <3>2
  <2> QED
    BY <1>6, <2>3, <2>4, <2>5
<1>9. WellFramed' /\ StreamInv'
  BY <1>2, <1>7 DEF IInv, WellFramed, StreamInv
<1> QED
  BY <1>8, <1>9 DEF IInv

\* pktbuf_pop_packet copies the packet out and moves the rest to the front.
LEMMA PopIInv ==
  ASSUME IInv, pktbuf_pop_packet
  PROVE  IInv'
<1> DEFINE e == end_pos
           p == [i \in 1 .. e + 1 |-> data[i - 1]]
<1>1. /\ data \in [0 .. cap - 1 -> Byte] /\ cap \in Nat /\ cap >= DefaultCap
      /\ size \in 0 .. cap /\ out \in Seq(Seq(Byte))
  BY DEF IInv, WellFramed, TypeOK, StreamInv
<1>2. /\ e \in 2 .. size /\ e + 1 <= size /\ data[0] = "$" /\ data[e - 2] = "#"
      /\ \A i \in 0 .. e - 3 : data[i] # "#"
  <2>1. pc = "pop" /\ e + 1 <= size
    BY DEF pktbuf_pop_packet, old_pkt_size
  <2>2. /\ e \in 2 .. size /\ data[0] = "$" /\ data[e - 2] = "#"
        /\ \A i \in 0 .. e - 2 - 1 : data[i] # "#"
    BY <2>1 DEF IInv, CompleteInv, CSUM_SIZE
  <2>3. e - 2 - 1 = e - 3
    BY <1>1, <2>2
  <2> QED
    BY <2>1, <2>2, <2>3
<1>3. /\ out' = Append(out, p) /\ size' = size - (e + 1) /\ end_pos' = -1
      /\ pc' = "parse" /\ UNCHANGED <<cap, pending>>
  BY DEF pktbuf_pop_packet, old_pkt_size
<1> HIDE DEF e
<1>4. p \in Seq(Byte) /\ Len(p) = e + 1 /\ \A i \in 1 .. e + 1 : p[i] = data[i - 1]
  <2>1. \A i \in 1 .. e + 1 : data[i - 1] \in Byte
    <3>1. \A i \in 1 .. e + 1 : i - 1 \in 0 .. cap - 1
      BY <1>1, <1>2
    <3> QED
      BY <1>1, <3>1
  <2>2. e + 1 \in Nat /\ p \in [1 .. e + 1 -> Byte]
    BY <1>1, <1>2, <2>1
  <2> QED
    BY <2>2
<1>5. /\ p[1] = "$" /\ p[Len(p) - CSUM_SIZE] = "#"
      /\ \A i \in 1 .. Len(p) - CSUM_SIZE - 1 : p[i] # "#"
  <2>1. /\ Len(p) - CSUM_SIZE = e - 1 /\ Len(p) - CSUM_SIZE - 1 = e - 2
        /\ 1 \in 1 .. e + 1 /\ e - 1 \in 1 .. e + 1 /\ 1 - 1 = 0 /\ (e - 1) - 1 = e - 2
    BY <1>1, <1>2, <1>4 DEF CSUM_SIZE
  <2>2. \A i \in 1 .. e - 2 : i \in 1 .. e + 1 /\ i - 1 \in 0 .. e - 3
    BY <1>1, <1>2
  <2> HIDE DEF p
  <2> QED
    BY <1>2, <1>4, <2>1, <2>2
<1> HIDE DEF p
<1>6. data' \in [0 .. cap - 1 -> Byte]
  <2>1. PICK b \in (IF size < cap THEN {data[size]} ELSE Byte) :
          LET mem == [i \in 0 .. cap |-> IF i < cap THEN data[i] ELSE b]
              moved == IF e + 1 = size THEN mem
                       ELSE MoveDown(mem, e + 1 + 1, size - (e + 1))
          IN data' = [i \in DOMAIN data |-> moved[i]]
    BY DEF pktbuf_pop_packet, old_pkt_size, e
  <2> DEFINE mem == [i \in 0 .. cap |-> IF i < cap THEN data[i] ELSE b]
             moved == IF e + 1 = size THEN mem
                      ELSE MoveDown(mem, e + 1 + 1, size - (e + 1))
  <2>2. b \in Byte
    <3>1. size < cap => size \in 0 .. cap - 1
      BY <1>1
    <3> QED
      BY <1>1, <3>1
  <2>3. mem \in [0 .. cap -> Byte]
    <3>1. \A i \in 0 .. cap : i < cap => i \in 0 .. cap - 1
      BY <1>1
    <3> QED
      BY <1>1, <2>2, <3>1
  <2>4. data' = [i \in 0 .. cap - 1 |-> moved[i]]
    BY <1>1, <2>1
  <2> HIDE DEF mem
  <2>5. moved \in [0 .. cap -> Byte]
    <3>1. ASSUME NEW i \in 0 .. cap, i < size - (e + 1)
          PROVE  e + 1 + 1 + i \in 0 .. cap
      BY <1>1, <1>2, <3>1
    <3> QED
      BY <2>3, <3>1 DEF MoveDown
  <2> HIDE DEF moved
  <2>6. \A i \in 0 .. cap - 1 : i \in 0 .. cap
    BY <1>1
  <2> QED
    BY <2>4, <2>5, <2>6
<1>7. TypeOK'
  <2>1. size' \in 0 .. cap
    BY <1>1, <1>2, <1>3
  <2> QED
    BY <1>1, <1>3, <1>6, <2>1 DEF TypeOK
<1>8. /\ out' \in Seq(Seq(Byte)) /\ DOMAIN out = 1 .. Len(out) /\ Len(out) \in Nat
      /\ DOMAIN out' = 1 .. Len(out) + 1 /\ out'[Len(out) + 1] = p
      /\ \A k \in 1 .. Len(out) : out'[k] = out[k]
  BY <1>1, <1>3, <1>4
<1>9. WellFramed'
  <2>1. ASSUME NEW k \in DOMAIN out'
        PROVE  /\ out'[k][1] = "$"
               /\ out'[k][Len(out'[k]) - CSUM_SIZE] = "#"
               /\ \A i \in 1 .. Len(out'[k]) - CSUM_SIZE - 1 : out'[k][i] # "#"
    <3>1. CASE k = Len(out) + 1
      BY <1>5, <1>8, <3>1
    <3>2. CASE k \in 1 .. Len(out)
      BY <1>8, <3>2 DEF IInv, WellFramed
    <3>3. k = Len(out) + 1 \/ k \in 1 .. Len(out)
      BY <1>8
    <3> QED
      BY <3>1, <3>2, <3>3
  <2> QED
    BY <1>7, <2>1 DEF WellFramed
<1> QED
  BY <1>3, <1>8, <1>9 DEF IInv, StreamInv, CompleteInv

\* Every step of the reader and of the client preserves the invariant.
LEMMA NextIInv == IInv /\ [Next]_vars => IInv'
<1> SUFFICES ASSUME IInv, [Next]_vars PROVE IInv'
  OBVIOUS
<1>1. ASSUME NEW n \in 1..Len(pending), pktbuf_fill_from_file(n) PROVE IInv'
  BY <1>1, FillIInv
<1>2. CASE NoHead
  <2>1. TypeOK'
    BY <1>2 DEF NoHead, IInv, WellFramed, TypeOK
  <2> QED
    BY <1>2, <2>1 DEF NoHead, IInv, WellFramed, StreamInv, CompleteInv
<1>3. CASE PopCrashes
  <2>1. TypeOK'
    BY <1>3 DEF PopCrashes, bufVars, IInv, WellFramed, TypeOK
  <2> QED
    BY <1>3, <2>1 DEF PopCrashes, bufVars, IInv, WellFramed, StreamInv, CompleteInv
<1>4. ASSUME NEW m \in Message, ClientSend(m) PROVE IInv'
  <2>1. TypeOK'
    BY <1>4 DEF ClientSend, bufVars, IInv, WellFramed, TypeOK
  <2>2. pending' \in Seq(Byte)
    <3>1. m \in Seq(Byte) /\ pending \in Seq(Byte)
      BY MessageAssumption DEF IInv, StreamInv
    <3> QED
      BY <1>4, <3>1 DEF ClientSend
  <2> QED
    BY <1>4, <2>1, <2>2 DEF ClientSend, bufVars, IInv, WellFramed, StreamInv, CompleteInv
<1>5. CASE UNCHANGED vars
  <2>1. TypeOK'
    BY <1>5 DEF vars, bufVars, IInv, WellFramed, TypeOK
  <2> QED
    BY <1>5, <2>1 DEF vars, bufVars, IInv, WellFramed, StreamInv, CompleteInv
<1> QED
  BY <1>1, <1>2, <1>3, <1>4, <1>5, HasHeadIInv, PopIInv DEF Next, Reader

(***************************************************************************)
(* The invariant of the packet buffer: besides WellFramed, a packet that   *)
(* pktbuf_is_complete has accepted lies at the front of the buffer and     *)
(* end_pos is two behind its first '#', at most one byte past the valid    *)
(* ones (the last checksum digit may be missing, no more than that).       *)
(***************************************************************************)
THEOREM Invariance == Spec => []IInv
<1>1. Init => IInv
  BY InitIInv
<1>2. IInv /\ [Next]_vars => IInv'
  BY NextIInv
<1> QED
  BY <1>1, <1>2, PTL DEF Spec

(***************************************************************************)
(* pktbuf_fill_from_file, pktbuf_is_complete and pktbuf_pop_packet keep    *)
(* within the capacity, and every packet that reaches the queue starts     *)
(* with '$' and has its first '#' where packet_csum_verify and             *)
(* gdbstub_process_packet take it to be.                                   *)
(***************************************************************************)
THEOREM PacketsWellFramed == Spec => []WellFramed
<1>1. IInv => WellFramed
  BY DEF IInv
<1> QED
  BY <1>1, Invariance, PTL
----------------------------------------------------------------------------
(* Loops, and the reference decoder.                                       *)

\* Sets of numbers have a least element.
LEMMA LeastElement ==
  ASSUME NEW F \in SUBSET Nat, F # {}
  PROVE  \E m \in F : \A y \in F : m <= y
  BY MinIsLeast

\* Induction up to n: what holds of 0 and carries over to the next number.
LEMMA UpTo ==
  ASSUME NEW n \in Nat, NEW T, 0 \in T,
         \A i \in 0 .. n - 1 : i \in T => i + 1 \in T
  PROVE  \A i \in 0 .. n : i \in T
<1> DEFINE F == {i \in 0 .. n : i \notin T}
<1>1. SUFFICES ASSUME F # {} PROVE FALSE
  OBVIOUS
<1>2. F \in SUBSET Nat
  OBVIOUS
<1>3. PICK m \in F : \A y \in F : m <= y
  BY <1>1, <1>2, LeastElement
<1>4. m \in 1 .. n
  BY <1>3
<1>5. m - 1 \in 0 .. n - 1 /\ m - 1 \in 0 .. n /\ m - 1 + 1 = m /\ ~(m <= m - 1)
  BY <1>4
<1>6. m - 1 \in T
  BY <1>3, <1>5
<1> QED
  BY <1>3, <1>5, <1>6

\* The runs of a loop of n steps from x, step i being function h[i].
Loops(n, S, x, h) ==
    {f \in [0 .. n -> S] : f[0] = x /\ \A i \in 1 .. n : f[i] = h[i][f[i - 1]]}

\* A loop has a run: what a recursive function defines is there.
LEMMA LoopExists ==
  ASSUME NEW n \in Nat, NEW S, NEW x \in S, NEW h \in [1 .. n -> [S -> S]]
  PROVE  Loops(n, S, x, h) # {}
<1> DEFINE Runs(k) == {f \in [0 .. k -> S] : f[0] = x /\ \A i \in 1 .. k : f[i] = h[i][f[i - 1]]}
           T == {k \in 0 .. n : Runs(k) # {}}
<1>1. 0 \in T
  <2>1. [i \in 0 .. 0 |-> x] \in Runs(0)
    OBVIOUS
  <2> QED
    BY <2>1
<1>2. ASSUME NEW k \in 0 .. n - 1, k \in T PROVE k + 1 \in T
  <2>1. PICK f \in [0 .. k -> S] : f[0] = x /\ \A i \in 1 .. k : f[i] = h[i][f[i - 1]]
    BY <1>2
  <2>2. k \in Nat /\ k + 1 \in 1 .. n /\ k \in 0 .. k
    OBVIOUS
  <2> DEFINE y == h[k + 1][f[k]]
             g == [i \in 0 .. k + 1 |-> IF i = k + 1 THEN y ELSE f[i]]
  <2>3. y \in S
    BY <2>1, <2>2
  <2>4. g \in [0 .. k + 1 -> S] /\ g[0] = x
    BY <2>1, <2>2, <2>3
  <2>5. ASSUME NEW i \in 1 .. k + 1 PROVE g[i] = h[i][g[i - 1]]
    <3>1. i - 1 \in 0 .. k /\ i - 1 # k + 1 /\ i - 1 \in 0 .. k + 1 /\ g[i - 1] = f[i - 1]
      BY <2>2
    <3>2. CASE i = k + 1
      BY <2>2, <3>1, <3>2
    <3>3. CASE i # k + 1
      <4>1. i \in 1 .. k
        BY <2>2, <3>3
      <4> QED
        BY <2>1, <3>1, <3>3, <4>1
    <3> QED
      BY <3>2, <3>3
  <2> HIDE DEF g
  <2>6. g \in Runs(k + 1)
    BY <2>4, <2>5
  <2>7. k + 1 \in 0 .. n
    BY ONLY <2>2, n \in Nat
  <2> HIDE DEF Runs
  <2> QED
    BY ONLY <2>6, <2>7
<1>3. n \in T
  <2>1. \A i \in 0 .. n : i \in T
    <3> HIDE DEF T
    <3> QED
      BY <1>1, <1>2, UpTo
  <2> QED
    BY <2>1
<1> QED
  BY <1>3 DEF Loops

\* One byte keeps the decoder a decoder, and counts it if it is an interrupt.
LEMMA DecodeStep ==
  ASSUME NEW d \in Decoders, NEW b \in Byte
  PROVE  /\ Decode(d, b) \in Decoders
         /\ Decode(d, b).intrs + Decode(d, b).inside
              = d.intrs + d.inside + (IF b = "^C" THEN 1 ELSE 0)
<1> DEFINE e == Decode(d, b)
<1>1. /\ d.mode \in Modes /\ d.cur \in Seq(Byte) /\ d.frames \in Seq(Seq(Byte))
      /\ d.intrs \in Nat /\ d.inside \in Nat
  BY DEF Decoders
<1>2. Append(d.cur, b) \in Seq(Byte) /\ <<>> \in Seq(Byte)
  BY <1>1
<1>3. Append(d.frames, Append(d.cur, b)) \in Seq(Seq(Byte))
  BY <1>1, <1>2
<1>4. e.mode \in Modes
  BY <1>1 DEF Decode, Modes
<1>5. e.cur \in Seq(Byte) /\ e.frames \in Seq(Seq(Byte))
  BY <1>1, <1>2, <1>3 DEF Decode
<1>6. e.intrs \in Nat /\ e.inside \in Nat
  BY <1>1 DEF Decode
<1>7. \E m, c, f, i, k : e = [mode |-> m, cur |-> c, frames |-> f, intrs |-> i, inside |-> k]
  BY Zenon DEF Decode
<1>8. e.intrs + e.inside = d.intrs + d.inside + (IF b = "^C" THEN 1 ELSE 0)
  BY <1>1 DEF Decode
<1> HIDE DEF e
<1>9. e \in Decoders
  BY <1>4, <1>5, <1>6, <1>7 DEF Decoders
<1> QED
  BY <1>8, <1>9 DEF e

\* The decoder goes through the bytes one after the other.
LEMMA DecodeRuns ==
  ASSUME NEW d \in Decoders, NEW bytes \in Seq(Byte)
  PROVE  \E f \in [0 .. Len(bytes) -> Decoders] :
            /\ f[0] = d
            /\ \A i \in 1 .. Len(bytes) : f[i] = Decode(f[i - 1], bytes[i])
            /\ DecodeAll(d, bytes) = f[Len(bytes)]
<1> DEFINE n == Len(bytes)
           G(u) == [i \in 0 .. n |-> IF i = 0 THEN d ELSE Decode(u[i - 1], bytes[i])]
           v == CHOOSE u : u = G(u)
           h == [i \in 1 .. n |-> [s \in Decoders |-> Decode(s, bytes[i])]]
<1>1. n \in Nat /\ \A i \in 1 .. n : bytes[i] \in Byte
  OBVIOUS
<1>2. DecodeAll(d, bytes) = v[n]
  BY DEF DecodeAll
<1> HIDE DEF n
<1>4. h \in [1 .. n -> [Decoders -> Decoders]]
  BY <1>1, DecodeStep
<1>5. \A i \in 1 .. n : \A s \in Decoders : h[i][s] = Decode(s, bytes[i])
  OBVIOUS
<1> HIDE DEF h
<1>6. PICK f \in [0 .. n -> Decoders] : f[0] = d /\ \A i \in 1 .. n : f[i] = h[i][f[i - 1]]
  <2>1. Loops(n, Decoders, d, h) # {}
    BY ONLY <1>1, <1>4, d \in Decoders, LoopExists
  <2> QED
    BY <2>1 DEF Loops
<1>7. ASSUME NEW i \in 1 .. n PROVE f[i] = Decode(f[i - 1], bytes[i])
  <2>1. i - 1 \in 0 .. n
    BY <1>1
  <2> QED
    BY <1>5, <1>6, <2>1
<1>8. f = G(f)
  BY <1>1, <1>6, <1>7
<1>9. v = G(v)
  BY <1>8
<1> HIDE DEF v
<1>10. v[0] = d /\ \A i \in 1 .. n : v[i] = Decode(v[i - 1], bytes[i])
  BY <1>1, <1>9
<1> DEFINE T == {i \in 0 .. n : v[i] = f[i]}
<1>11. \A i \in 0 .. n : i \in T
  <2>1. 0 \in T
    BY <1>1, <1>6, <1>10
  <2>2. ASSUME NEW i \in 0 .. n - 1, i \in T PROVE i + 1 \in T
    <3>1. i + 1 \in 1 .. n /\ i + 1 \in 0 .. n /\ (i + 1) - 1 = i
      BY <1>1
    <3>2. /\ v[i + 1] = Decode(v[(i + 1) - 1], bytes[i + 1])
          /\ f[i + 1] = Decode(f[(i + 1) - 1], bytes[i + 1])
      BY <1>7, <1>10, <3>1, Zenon
    <3>3. v[i] = f[i]
      BY <2>2
    <3>4. v[i + 1] = f[i + 1]
      BY ONLY <3>1, <3>2, <3>3
    <3> QED
      BY <3>1, <3>4
  <2> HIDE DEF T
  <2> QED
    BY <1>1, <2>1, <2>2, UpTo
<1>12. v[n] = f[n]
  BY <1>1, <1>11
<1> QED
  BY <1>2, <1>6, <1>7, <1>12 DEF n

\* The number of bytes 0x03 grows with k as the scan goes on.
LEMMA IntrsCounted ==
  ASSUME NEW bytes \in Seq(Byte), NEW k \in 0 .. Len(bytes)
  PROVE  /\ Cardinality(IntrsUpTo(bytes, k)) \in Nat
         /\ Cardinality(IntrsUpTo(bytes, 0)) = 0
         /\ k < Len(bytes) => Cardinality(IntrsUpTo(bytes, k + 1))
              = Cardinality(IntrsUpTo(bytes, k)) + (IF bytes[k + 1] = "^C" THEN 1 ELSE 0)
<1> DEFINE A == IntrsUpTo(bytes, k)
           B == IntrsUpTo(bytes, k + 1)
<1>1. IsFiniteSet(A)
  <2>1. IsFiniteSet(1 .. k)
    BY FS_Interval
  <2>2. A \subseteq 1 .. k
    BY DEF IntrsUpTo
  <2> QED
    BY ONLY <2>1, <2>2, FS_Subset
<1>2. Cardinality(A) \in Nat
  BY ONLY <1>1, FS_CardinalityType
<1>3. IntrsUpTo(bytes, 0) = {}
  BY DEF IntrsUpTo
<1>4. Cardinality(IntrsUpTo(bytes, 0)) = 0
  BY <1>3, FS_EmptySet
<1>5. k + 1 \notin A
  BY DEF IntrsUpTo
<1>6. CASE bytes[k + 1] = "^C"
  <2>1. B = A \cup {k + 1}
    BY <1>6 DEF IntrsUpTo
  <2> HIDE DEF A, B
  <2>2. Cardinality(B) = Cardinality(A) + 1
    BY <1>1, <1>5, <2>1, FS_AddElement
  <2> QED
    BY <1>2, <1>4, <1>6, <2>2 DEF A, B
<1>7. CASE bytes[k + 1] # "^C"
  <2>1. B = A
    BY <1>7 DEF IntrsUpTo
  <2> QED
    BY <1>2, <1>4, <1>7, <2>1
<1> QED
  BY <1>6, <1>7

\* The decoder counts every byte 0x03, inside a packet or outside.
LEMMA DecodeCounts ==
  ASSUME NEW d \in Decoders, NEW bytes \in Seq(Byte)
  PROVE  /\ DecodeAll(d, bytes) \in Decoders /\ Intrs(bytes) \in Nat
         /\ DecodeAll(d, bytes).intrs + DecodeAll(d, bytes).inside
              = d.intrs + d.inside + Intrs(bytes)
<1> DEFINE n == Len(bytes)
           c(k) == Cardinality(IntrsUpTo(bytes, k))
           s == d.intrs + d.inside
<1>1. n \in Nat /\ \A i \in 1 .. n : bytes[i] \in Byte
  OBVIOUS
<1>2. PICK f \in [0 .. n -> Decoders] :
            /\ f[0] = d
            /\ \A i \in 1 .. n : f[i] = Decode(f[i - 1], bytes[i])
            /\ DecodeAll(d, bytes) = f[n]
  BY DecodeRuns
<1>3. Intrs(bytes) = c(n)
  BY DEF Intrs
<1>4. /\ c(0) = 0 /\ \A k \in 0 .. n : c(k) \in Nat
      /\ \A k \in 0 .. n - 1 : c(k + 1) = c(k) + (IF bytes[k + 1] = "^C" THEN 1 ELSE 0)
  <2>1. \A k \in 0 .. n - 1 : k \in 0 .. n /\ k < n
    BY <1>1
  <2>2. 0 \in 0 .. n
    BY <1>1
  <2> QED
    BY <2>1, <2>2, IntrsCounted
<1>5. s \in Nat
  BY DEF Decoders
<1> HIDE DEF n, c, s
<1> DEFINE T == {k \in 0 .. n : f[k].intrs + f[k].inside = s + c(k)}
<1>6. \A k \in 0 .. n : k \in T
  <2>1. 0 \in T
    <3>1. d.intrs + d.inside = s + c(0)
      BY <1>4, <1>5 DEF s
    <3> QED
      BY <1>1, <1>2, <3>1
  <2>2. ASSUME NEW k \in 0 .. n - 1, k \in T PROVE k + 1 \in T
    <3> DEFINE y == IF bytes[k + 1] = "^C" THEN 1 ELSE 0
    <3>1. k + 1 \in 1 .. n /\ k + 1 \in 0 .. n /\ (k + 1) - 1 = k /\ k \in 0 .. n
      BY <1>1
    <3>2. f[k + 1] = Decode(f[(k + 1) - 1], bytes[k + 1]) /\ bytes[k + 1] \in Byte
      BY <1>1, <1>2, <3>1, Zenon
    <3>3. f[k + 1] = Decode(f[k], bytes[k + 1])
      BY ONLY <3>1, <3>2
    <3>4. f[k] \in Decoders
      BY <1>2, <3>1
    <3>5. f[k + 1].intrs + f[k + 1].inside = f[k].intrs + f[k].inside + y
      BY <3>2, <3>3, <3>4, DecodeStep
    <3>6. f[k].intrs + f[k].inside = s + c(k)
      BY <2>2
    <3>7. c(k + 1) = c(k) + y /\ c(k) \in Nat
      BY <1>4, <3>1
    <3>8. y \in Nat
      OBVIOUS
    <3> HIDE DEF y
    <3>9. f[k + 1].intrs + f[k + 1].inside = s + c(k + 1)
      BY ONLY <1>5, <3>5, <3>6, <3>7, <3>8
    <3> QED
      BY <3>1, <3>9
  <2> HIDE DEF T
  <2> QED
    BY <1>1, <2>1, <2>2, UpTo
<1>7. n \in 0 .. n
  BY <1>1
<1>8. f[n].intrs + f[n].inside = s + c(n) /\ f[n] \in Decoders
  BY <1>2, <1>6, <1>7
<1>9. c(n) \in Nat
  BY <1>4, <1>7
<1> QED
  BY <1>2, <1>3, <1>8, <1>9 DEF s

----------------------------------------------------------------------------
(* The decoder and the buffer, byte by byte.                                *)

\* As many numbers when each is moved by c.
LEMMA Shifted ==
  ASSUME NEW A \in SUBSET Int, IsFiniteSet(A), NEW c \in Int
  PROVE  LET B == {a + c : a \in A}
         IN  IsFiniteSet(B) /\ Cardinality(B) = Cardinality(A)
<1> DEFINE B == {a + c : a \in A}
           g == [a \in A |-> a + c]
<1>1. g \in [A -> B] /\ (\A b \in B : \E a \in A : g[a] = b)
  OBVIOUS
<1>2. \A a, b \in A : g[a] = g[b] => a = b
  OBVIOUS
<1> HIDE DEF B, g
<1>3. g \in Bijection(A, B)
  BY <1>1, <1>2, Fun_IsBij
<1>4. ExistsBijection(A, B)
  BY <1>3 DEF ExistsBijection
<1> QED
  BY <1>4, FS_Bijection DEF B

\* Two pieces of the stream have as many as the whole.
LEMMA IntrsSplit ==
  ASSUME NEW s \in Seq(Byte), NEW t \in Seq(Byte)
  PROVE  Intrs(s \o t) = Intrs(s) + Intrs(t)
<1> DEFINE A == IntrsUpTo(s, Len(s))
           B == IntrsUpTo(t, Len(t))
           C == {b + Len(s) : b \in B}
           U == IntrsUpTo(s \o t, Len(s \o t))
<1>1. IsFiniteSet(A) /\ IsFiniteSet(B)
  <2>1. IsFiniteSet(1 .. Len(s)) /\ IsFiniteSet(1 .. Len(t))
    BY FS_Interval
  <2>2. A \subseteq 1 .. Len(s) /\ B \subseteq 1 .. Len(t)
    BY DEF IntrsUpTo
  <2> HIDE DEF A, B
  <2> QED
    BY <2>1, <2>2, FS_Subset
<1>2. B \in SUBSET Int /\ Len(s) \in Int
  BY DEF IntrsUpTo
<1>3. U = A \cup C
  <2>1. ASSUME NEW u \in U PROVE u \in A \cup C
    <3>1. CASE u <= Len(s)
      BY <3>1 DEF IntrsUpTo
    <3>2. CASE u > Len(s)
      <4>1. u - Len(s) \in B /\ u = (u - Len(s)) + Len(s)
        BY <3>2 DEF IntrsUpTo
      <4> QED
        BY <4>1
    <3> QED
      BY <3>1, <3>2 DEF IntrsUpTo
  <2>2. ASSUME NEW a \in A PROVE a \in U
    BY DEF IntrsUpTo
  <2>3. ASSUME NEW b \in B PROVE b + Len(s) \in U
    BY DEF IntrsUpTo
  <2> QED
    BY <2>1, <2>2, <2>3
<1>4. A \cap C = {}
  BY DEF IntrsUpTo
<1> HIDE DEF A, B, U
<1>5. IsFiniteSet(C) /\ Cardinality(C) = Cardinality(B)
  BY <1>1, <1>2, Shifted
<1> HIDE DEF C
<1>6. Cardinality(A \cup C) = Cardinality(A) + Cardinality(C) - Cardinality(A \cap C)
  BY <1>1, <1>5, FS_Union
<1>7. /\ Cardinality(A) \in Nat /\ Cardinality(C) \in Nat
      /\ Cardinality(A \cap C) = 0
  BY <1>1, <1>4, <1>5, FS_CardinalityType, FS_EmptySet
<1> QED
  BY <1>3, <1>5, <1>6, <1>7 DEF Intrs, A, B, U

\* The scan of socket_reader looks at the bytes just read, wherever they lie.
LEMMA ScanCounts ==
  ASSUME IInv, NEW n \in 1 .. Len(pending), pktbuf_fill_from_file(n)
  PROVE  intrs' = intrs + Intrs(SubSeq(pending, 1, n))
<1> DEFINE chunk == SubSeq(pending, 1, n)
           A == {i \in 0 .. n - 1 : data'[(size' - n) + i] = "^C"}
           B == IntrsUpTo(chunk, Len(chunk))
<1>1. /\ n \in 1 .. NewCap - size /\ size' = size + n
      /\ data' = [i \in 0 .. NewCap - 1 |->
                    IF size <= i /\ i < size + n THEN chunk[i - size + 1]
                    ELSE IF i < cap THEN data[i] ELSE "?"]
      /\ intrs' = intrs + Cardinality(A)
  BY DEF pktbuf_fill_from_file, ReadSizes, IntrCount
<1>2. /\ size \in Nat /\ NewCap \in Nat /\ pending \in Seq(Byte)
      /\ chunk \in Seq(Byte) /\ Len(chunk) = n
  BY Chunk DEF IInv, WellFramed, TypeOK, StreamInv, NewCap
<1> HIDE DEF chunk
<1>3. \A i \in 0 .. n - 1 : data'[(size' - n) + i] = chunk[i + 1]
  BY <1>1, <1>2
<1>4. A = {i \in 0 .. n - 1 : chunk[i + 1] = "^C"}
  BY <1>3
<1>5. B = {a + 1 : a \in A}
  <2>1. ASSUME NEW b \in B PROVE b - 1 \in A /\ b = (b - 1) + 1
    BY <1>2, <1>4 DEF IntrsUpTo
  <2>2. ASSUME NEW a \in A PROVE a + 1 \in B
    BY <1>2, <1>4 DEF IntrsUpTo
  <2> QED
    BY <2>1, <2>2
<1>6. IsFiniteSet(A) /\ A \in SUBSET Int
  <2>1. A \subseteq 0 .. n - 1 /\ n \in Int
    OBVIOUS
  <2>2. IsFiniteSet(0 .. n - 1)
    BY <2>1, FS_Interval
  <2> HIDE DEF A
  <2>3. IsFiniteSet(A)
    BY <2>1, <2>2, FS_Subset
  <2>4. A \in SUBSET Int
    BY <2>1
  <2> QED
    BY <2>3, <2>4
<1> HIDE DEF A, B
<1>7. Cardinality(B) = Cardinality(A)
  <2>1. Cardinality({a + 1 : a \in A}) = Cardinality(A)
    <3>1. 1 \in Int
      OBVIOUS
    <3> QED
      BY ONLY <1>6, <3>1, Shifted, Zenon
  <2> QED
    BY <1>5, <2>1
<1> QED
  BY <1>1, <1>7 DEF Intrs, B, chunk

\* Every step keeps the balance.
LEMMA CountStep ==
  ASSUME IInv, CountInv, [Next]_vars
  PROVE  CountInv'
<1> DEFINE left == Intrs(pending)
<1>1. /\ ref \in Decoders /\ whole \in Decoders /\ intrs \in Nat
      /\ pending \in Seq(Byte) /\ whole.intrs + whole.inside = intrs + left
  BY DEF CountInv, IInv, StreamInv
<1>2. ASSUME NEW n \in 1 .. Len(pending), pktbuf_fill_from_file(n) PROVE CountInv'
  <2> DEFINE chunk == SubSeq(pending, 1, n)
             rest  == SubSeq(pending, n + 1, Len(pending))
  <2>1. chunk \in Seq(Byte) /\ rest \in Seq(Byte)
    BY <1>1, Chunk
  <2>2. pending = chunk \o rest
    BY <1>1
  <2>3. intrs' = intrs + Intrs(chunk)
    BY <1>2, ScanCounts
  <2>4. ref' = DecodeAll(ref, chunk) /\ whole' = whole /\ pending' = rest
    BY <1>2 DEF pktbuf_fill_from_file
  <2> HIDE DEF chunk, rest
  <2>5. ref' \in Decoders /\ Intrs(chunk) \in Nat /\ Intrs(rest) \in Nat
    BY <1>1, <2>1, <2>4, DecodeCounts
  <2>6. left = Intrs(chunk) + Intrs(rest)
    BY <2>1, <2>2, IntrsSplit
  <2>7. whole'.intrs + whole'.inside = intrs' + Intrs(pending')
    BY <1>1, <2>3, <2>4, <2>5, <2>6
  <2> QED
    BY <1>1, <2>3, <2>4, <2>5, <2>7 DEF CountInv
<1>3. ASSUME NEW m \in Message, ClientSend(m) PROVE CountInv'
  <2>1. /\ m \in Seq(Byte) /\ UNCHANGED <<ref, intrs>>
        /\ whole' = DecodeAll(whole, m) /\ pending' = pending \o m
    BY <1>3, MessageAssumption DEF ClientSend
  <2>2. /\ whole' \in Decoders /\ Intrs(m) \in Nat /\ left \in Nat
        /\ whole'.intrs + whole'.inside = whole.intrs + whole.inside + Intrs(m)
    BY <1>1, <2>1, DecodeCounts
  <2>3. Intrs(pending') = left + Intrs(m)
    BY <1>1, <2>1, IntrsSplit
  <2>4. whole'.intrs + whole'.inside = intrs' + Intrs(pending')
    BY <1>1, <2>1, <2>2, <2>3
  <2> QED
    BY <1>1, <2>1, <2>2, <2>4 DEF CountInv
<1>4. UNCHANGED <<ref, whole, pending, intrs>> => CountInv'
  BY DEF CountInv
<1>5. NoHead \/ HasHead \/ pktbuf_pop_packet \/ PopCrashes
        => UNCHANGED <<ref, whole, pending, intrs>>
  BY DEF NoHead, HasHead, pktbuf_pop_packet, PopCrashes
<1>6. UNCHANGED vars => UNCHANGED <<ref, whole, pending, intrs>>
  BY DEF vars
<1> QED
  BY <1>2, <1>3, <1>4, <1>5, <1>6 DEF Next, Reader

\* A part of a sequence, and one more byte.
LEMMA SubSeqGrows ==
  ASSUME NEW w \in Seq(Byte), NEW k \in 0 .. Len(w) - 1, NEW s \in 1 .. k + 1
  PROVE  Append(SubSeq(w, s, k), w[k + 1]) = SubSeq(w, s, k + 1)
  OBVIOUS

\* One more byte.
LEMMA ProgressByte ==
  ASSUME NEW w \in Seq(Byte), Lone(w), NEW k \in 0 .. Len(w) - 1,
         NEW d \in Decoders, NEW o, Progress(d, w, k, o)
  PROVE  Progress(Decode(d, w[k + 1]), w, k + 1, o)
<1> DEFINE L == Len(w)
           b == w[k + 1]
           e == Decode(d, b)
           inside == d.mode # "between" \/ b = "$"
<1>1. L \in Nat /\ k \in Nat /\ k < L /\ k + 1 \in 1 .. L
  OBVIOUS
<1>2. /\ e.mode = CASE d.mode = "between" -> IF b = "$" THEN "body" ELSE "between"
                    [] d.mode = "body"    -> IF b = "#" THEN "csum1" ELSE "body"
                    [] d.mode = "csum1"   -> "csum2"
                    [] d.mode = "csum2"   -> "between"
      /\ e.cur = IF d.mode = "csum2" THEN <<>> ELSE IF inside THEN Append(d.cur, b) ELSE d.cur
      /\ e.frames = IF d.mode = "csum2" THEN Append(d.frames, Append(d.cur, b)) ELSE d.frames
  BY DEF Decode
<1> HIDE DEF e
<1>3. CASE /\ \A t \in 1 .. k : w[t] # "$"
           /\ d.mode = "between" /\ d.cur = <<>> /\ d.frames = o
  <2>1. CASE b # "$"
    <3>1. \A t \in 1 .. k + 1 : t \in 1 .. k \/ t = k + 1
      BY <1>1
    <3>2. \A t \in 1 .. k + 1 : w[t] # "$"
      BY <1>3, <2>1, <3>1
    <3>3. e.mode = "between" /\ e.cur = <<>> /\ e.frames = o
      BY <1>2, <1>3, <2>1
    <3> QED
      BY <3>2, <3>3 DEF Progress, e
  <2>2. CASE b = "$"
    <3>1. k + 1 + 3 <= L
      BY <1>1, <2>2 DEF Lone
    <3>2. k + 1 \in 1 .. k + 1 /\ k + 1 < L /\ k + 1 < L - 2
      BY <1>1, <3>1
    <3>3. Append(SubSeq(w, k + 1, k), b) = SubSeq(w, k + 1, k + 1) /\ SubSeq(w, k + 1, k) = <<>>
      BY <1>1, SubSeqGrows
    <3>4. e.mode = "body" /\ e.cur = SubSeq(w, k + 1, k + 1) /\ e.frames = o
      BY <1>2, <1>3, <2>2, <3>3
    <3> QED
      BY <2>2, <3>2, <3>4 DEF Progress, e
  <2> QED
    BY <2>1, <2>2
<1>4. ASSUME NEW s \in 1 .. k, w[s] = "$", d.frames = o, d.cur = SubSeq(w, s, k),
             d.mode = IF k < L - 2 THEN "body" ELSE IF k = L - 2 THEN "csum1" ELSE "csum2"
      PROVE  Progress(e, w, k + 1, o)
  <2>1. s \in 1 .. k + 1 /\ s \in 1 .. L
    BY <1>1
  <2>2. /\ s + 3 <= L /\ w[L - 2] = "#"
        /\ \A t \in s .. L - 3 : w[t] # "#"
    BY <1>4, <2>1 DEF Lone
  <2>3. Append(d.cur, b) = SubSeq(w, s, k + 1)
    BY <1>4, <2>1, SubSeqGrows
  <2>4. CASE k < L - 2
    <3>1. d.mode = "body"
      BY <1>4, <2>4
    <3>2. k + 1 < L - 2 => k + 1 \in s .. L - 3
      BY <1>1
    <3>3. ~(k + 1 < L - 2) => k + 1 = L - 2
      BY <1>1, <2>4
    <3>4. e.mode = IF k + 1 < L - 2 THEN "body" ELSE "csum1"
      BY <1>2, <2>2, <3>1, <3>2, <3>3
    <3>5. e.cur = SubSeq(w, s, k + 1) /\ e.frames = o
      BY <1>2, <1>4, <2>3, <3>1
    <3>6. k + 1 < L
      BY <1>1, <2>4
    <3> QED
      BY <1>4, <2>1, <3>3, <3>4, <3>5, <3>6 DEF Progress
  <2>5. CASE k = L - 2
    <3>1. d.mode = "csum1"
      BY <1>1, <1>4, <2>5
    <3>2. e.mode = "csum2" /\ e.cur = SubSeq(w, s, k + 1) /\ e.frames = o
      BY <1>2, <1>4, <2>3, <3>1
    <3>3. k + 1 < L /\ ~(k + 1 < L - 2) /\ k + 1 # L - 2
      BY <1>1, <2>5
    <3> QED
      BY <1>4, <2>1, <3>2, <3>3 DEF Progress
  <2>6. CASE k = L - 1
    <3>1. d.mode = "csum2"
      BY <1>1, <1>4, <2>6
    <3>2. e.mode = "between" /\ e.cur = <<>> /\ e.frames = Append(o, SubSeq(w, s, k + 1))
      BY <1>2, <1>4, <2>3, <3>1
    <3>3. k + 1 = L
      BY <1>1, <2>6
    <3> QED
      BY <1>4, <2>1, <3>2, <3>3 DEF Progress
  <2>7. k < L - 2 \/ k = L - 2 \/ k = L - 1
    BY <1>1
  <2> QED
    BY <2>4, <2>5, <2>6, <2>7
<1>5. k # L
  BY <1>1
<1> QED
  BY <1>3, <1>4, <1>5 DEF Progress, e

\* And all the bytes of a read.
LEMMA ProgressRead ==
  ASSUME NEW w \in Seq(Byte), Lone(w), NEW k \in 0 .. Len(w), NEW d \in Decoders, NEW o,
         Progress(d, w, k, o), NEW bytes \in Seq(Byte), k + Len(bytes) <= Len(w),
         \A i \in 1 .. Len(bytes) : bytes[i] = w[k + i]
  PROVE  Progress(DecodeAll(d, bytes), w, k + Len(bytes), o)
<1> DEFINE n == Len(bytes)
<1>1. n \in Nat /\ k \in Nat /\ Len(w) \in Nat /\ k + n <= Len(w)
  OBVIOUS
<1>2. PICK f \in [0 .. n -> Decoders] :
            /\ f[0] = d
            /\ \A i \in 1 .. n : f[i] = Decode(f[i - 1], bytes[i])
            /\ DecodeAll(d, bytes) = f[n]
  BY DecodeRuns
<1>3. \A i \in 1 .. n : bytes[i] = w[k + i]
  OBVIOUS
<1> HIDE DEF n
<1> DEFINE T == {i \in 0 .. n : Progress(f[i], w, k + i, o)}
<1>4. \A i \in 0 .. n : i \in T
  <2>1. 0 \in T
    <3>1. 0 \in 0 .. n /\ k + 0 = k
      BY <1>1
    <3>2. Progress(f[0], w, k + 0, o)
      BY ONLY <1>2, <3>1, Progress(d, w, k, o)
    <3> QED
      BY <3>1, <3>2
  <2>2. ASSUME NEW i \in 0 .. n - 1, i \in T PROVE i + 1 \in T
    <3>1. /\ i + 1 \in 1 .. n /\ i + 1 \in 0 .. n /\ (i + 1) - 1 = i /\ i \in 0 .. n
          /\ k + i \in 0 .. Len(w) - 1 /\ k + (i + 1) = (k + i) + 1
      BY <1>1
    <3>2. f[i + 1] = Decode(f[(i + 1) - 1], bytes[i + 1]) /\ bytes[i + 1] = w[k + (i + 1)]
      BY <1>2, <1>3, <3>1, Zenon
    <3>3. f[i + 1] = Decode(f[i], w[(k + i) + 1])
      BY ONLY <3>1, <3>2
    <3>4. f[i] \in Decoders
      BY <1>2, <3>1
    <3>5. Progress(f[i], w, k + i, o)
      BY <2>2
    <3>6. Progress(Decode(f[i], w[(k + i) + 1]), w, (k + i) + 1, o)
      BY ONLY w \in Seq(Byte), Lone(w), <3>1, <3>4, <3>5, ProgressByte
    <3>7. Progress(f[i + 1], w, k + (i + 1), o)
      BY ONLY <3>1, <3>3, <3>6
    <3> QED
      BY <3>1, <3>7
  <2> HIDE DEF T
  <2> QED
    BY <1>1, <2>1, <2>2, UpTo
<1>5. n \in T
  BY <1>1, <1>4
<1> QED
  BY <1>2, <1>5 DEF n

\* v is w without its first a bytes.
Rest(v, w, a) == Len(v) = Len(w) - a /\ \A i \in 1 .. Len(v) : v[i] = w[a + i]

\* What is left of a stream with at most one packet is one.
LEMMA LoneRest ==
  ASSUME NEW w \in Seq(Byte), Lone(w), NEW a \in 0 .. Len(w), NEW v \in Seq(Byte), Rest(v, w, a)
  PROVE  Lone(v)
<1>1. Len(v) \in Nat /\ Len(w) \in Nat /\ Len(v) = Len(w) - a
  BY DEF Rest
<1>2. \A i \in 1 .. Len(v) : v[i] = w[a + i] /\ a + i \in 1 .. Len(w)
  BY <1>1 DEF Rest
<1> SUFFICES ASSUME NEW s \in 1 .. Len(v), v[s] = "$"
             PROVE  /\ s + 3 <= Len(v) /\ v[Len(v) - 2] = "#"
                    /\ \A t \in s .. Len(v) - 3 : v[t] # "#"
                    /\ \A t \in 1 .. Len(v) : v[t] = "$" => t = s
  BY DEF Lone
<1>3. /\ a + s + 3 <= Len(w) /\ w[Len(w) - 2] = "#"
      /\ \A t \in a + s .. Len(w) - 3 : w[t] # "#"
      /\ \A t \in 1 .. Len(w) : w[t] = "$" => t = a + s
  BY <1>2 DEF Lone
<1>4. s + 3 <= Len(v)
  BY <1>1, <1>3
<1>5. Len(v) - 2 \in 1 .. Len(v) /\ a + (Len(v) - 2) = Len(w) - 2
  BY <1>1, <1>4
<1>6. v[Len(v) - 2] = "#"
  BY <1>2, <1>3, <1>5
<1>7. ASSUME NEW t \in s .. Len(v) - 3 PROVE v[t] # "#"
  <2>1. t \in 1 .. Len(v) /\ a + t \in a + s .. Len(w) - 3
    BY <1>1
  <2> QED
    BY <1>2, <1>3, <2>1
<1>8. ASSUME NEW t \in 1 .. Len(v), v[t] = "$" PROVE t = s
  <2>1. a + t = a + s
    BY <1>2, <1>3, <1>8
  <2> QED
    BY <1>1, <2>1
<1> QED
  BY <1>4, <1>6, <1>7, <1>8

\* Dropping what is in front of a packet leaves the decoder where it is.
LEMMA ProgressRest ==
  ASSUME NEW w \in Seq(Byte), Lone(w), NEW a \in 0 .. Len(w), NEW v \in Seq(Byte), Rest(v, w, a),
         NEW k \in a + 1 .. Len(w), w[a + 1] = "$", NEW d, NEW o, Progress(d, w, k, o)
  PROVE  Progress(d, v, k - a, o)
<1>1. Len(v) \in Nat /\ Len(w) \in Nat /\ Len(v) = Len(w) - a
  BY DEF Rest
<1>2. a + 1 \in 1 .. k /\ a + 1 \in 1 .. Len(w) /\ 1 \in 1 .. k - a /\ 1 \in 1 .. Len(v)
  BY <1>1
<1>3. \A s \in 1 .. k : w[s] = "$" => s = a + 1
  <2>1. \A s \in 1 .. k : s \in 1 .. Len(w)
    BY <1>1
  <2>2. \A t \in 1 .. Len(w) : w[t] = "$" => t = a + 1
    BY <1>2 DEF Lone
  <2> QED
    BY <2>1, <2>2
<1>4. v[1] = "$"
  BY <1>2 DEF Rest
<1>5. SubSeq(v, 1, k - a) = SubSeq(w, a + 1, k)
  <2>1. \A i \in 1 .. k - a : v[i] = w[a + i] /\ i \in 1 .. Len(v) /\ a + i \in 1 .. Len(w)
    BY <1>1 DEF Rest
  <2>2. /\ SubSeq(v, 1, k - a) = [i \in 1 .. k - a |-> v[i]]
        /\ SubSeq(w, a + 1, k) = [i \in 1 .. k - a |-> w[a + i]]
    <3>1. /\ SubSeq(v, 1, k - a) = [i \in 1 .. (k - a) - 1 + 1 |-> v[1 + i - 1]]
          /\ SubSeq(w, a + 1, k) = [i \in 1 .. k - (a + 1) + 1 |-> w[a + 1 + i - 1]]
      BY <1>1, <1>2, SubSeqProperties
    <3>2. (k - a) - 1 + 1 = k - a /\ k - (a + 1) + 1 = k - a
      BY <1>1
    <3>3. \A i \in 1 .. k - a : 1 + i - 1 = i /\ a + 1 + i - 1 = a + i
      BY <1>1
    <3> QED
      BY ONLY <3>1, <3>2, <3>3
  <2> QED
    BY <2>1, <2>2
<1>6. \/ /\ k < Len(w) /\ d.frames = o /\ d.cur = SubSeq(w, a + 1, k)
         /\ d.mode = IF k < Len(w) - 2 THEN "body" ELSE IF k = Len(w) - 2 THEN "csum1" ELSE "csum2"
      \/ /\ k = Len(w) /\ d.mode = "between" /\ d.cur = <<>>
         /\ d.frames = Append(o, SubSeq(w, a + 1, k))
  BY <1>2, <1>3 DEF Progress
<1>7. /\ k < Len(w) <=> k - a < Len(v)
      /\ k = Len(w) <=> k - a = Len(v)
      /\ k < Len(w) - 2 <=> k - a < Len(v) - 2
      /\ k = Len(w) - 2 <=> k - a = Len(v) - 2
  BY <1>1
<1> QED
  BY <1>2, <1>4, <1>5, <1>6, <1>7 DEF Progress

\* The stream is the valid bytes and then those still to be read.
StreamIs(w, d, z, p) ==
    /\ z \in Nat /\ Len(p) \in Nat /\ p \in Seq(Byte)
    /\ w \in Seq(Byte) /\ Len(w) = z + Len(p)
    /\ \A i \in 1 .. z : w[i] = d[i - 1]
    /\ \A i \in 1 .. Len(p) : w[z + i] = p[i]

\* So is what Stream is defined as.
LEMMA StreamFacts ==
  ASSUME NEW c \in Nat, NEW d \in [0 .. c - 1 -> Byte], NEW z \in 0 .. c, NEW p \in Seq(Byte)
  PROVE  StreamIs(StreamOf(d, z, p), d, z, p)
<1> DEFINE n == z + Len(p)
           w == StreamOf(d, z, p)
<1>1. n \in Nat /\ z \in Nat /\ Len(p) \in Nat
  OBVIOUS
<1>3. \A i \in 1 .. n : (IF i <= z THEN d[i - 1] ELSE p[i - z]) \in Byte
  <2> TAKE i \in 1 .. n
  <2>1. i <= z => i - 1 \in 0 .. c - 1
    OBVIOUS
  <2>2. ~(i <= z) => i - z \in 1 .. Len(p)
    BY <1>1
  <2> QED
    BY <2>1, <2>2
<1>4. w \in [1 .. n -> Byte]
  BY <1>3 DEF StreamOf
<1>6. \A i \in 1 .. z : w[i] = d[i - 1]
  BY <1>1 DEF StreamOf
<1>7. ASSUME NEW i \in 1 .. Len(p) PROVE w[z + i] = p[i]
  <2>1. z + i \in 1 .. n /\ ~(z + i <= z) /\ (z + i) - z = i
    BY <1>1
  <2> QED
    BY <2>1 DEF StreamOf
<1> HIDE DEF w
<1>5. w \in Seq(Byte) /\ Len(w) = n
  BY <1>1, <1>4
<1> QED
  BY <1>1, <1>5, <1>6, <1>7 DEF StreamIs, w

\* Before and after a step.
LEMMA StreamNow ==
  /\ IInv => StreamIs(Stream, data, size, pending)
  /\ IInv' => StreamIs(Stream', data', size', pending')
<1>1. ASSUME IInv PROVE StreamIs(Stream, data, size, pending)
  <2>1. /\ cap \in Nat /\ data \in [0 .. cap - 1 -> Byte] /\ size \in 0 .. cap
        /\ pending \in Seq(Byte)
    BY <1>1 DEF IInv, WellFramed, TypeOK, StreamInv
  <2> QED
    BY <2>1, StreamFacts DEF Stream
<1>2. ASSUME IInv' PROVE StreamIs(Stream', data', size', pending')
  <2>1. /\ cap' \in Nat /\ data' \in [0 .. cap' - 1 -> Byte] /\ size' \in 0 .. cap'
        /\ pending' \in Seq(Byte)
    BY <1>2 DEF IInv, WellFramed, TypeOK, StreamInv
  <2> QED
    BY <2>1, StreamFacts DEF Stream
<1> QED
  BY <1>1, <1>2

\* A packet that is complete has not been taken yet.
LEMMA Fresh ==
  ASSUME NEW o \in Seq(Seq(Byte)), NEW f
  PROVE  Append(o, f) # o
  OBVIOUS

----------------------------------------------------------------------------
(* The steps.                                                              *)

\* pktbuf_init.
LEMMA InitFrame == Init => FrameInv /\ CountInv
<1> SUFFICES ASSUME Init PROVE FrameInv /\ CountInv
  OBVIOUS
<1>1. /\ size = 0 /\ pending = <<>> /\ out = <<>> /\ pc = "fill" /\ intrs = 0
      /\ whole = ref
      /\ ref = [mode |-> "between", cur |-> <<>>, frames |-> <<>>, intrs |-> 0, inside |-> 0]
  BY DEF Init, DecoderInit
<1>2. IInv
  BY InitIInv
<1>3. Len(Stream) = 0
  <2>1. Len(Stream) = size + Len(pending)
    BY <1>2, StreamNow DEF StreamIs
  <2> QED
    BY <1>1, <2>1
<1>4. Lone(Stream)
  BY <1>3 DEF Lone
<1>5. Progress(ref, Stream, size, out)
  BY <1>1 DEF Progress
<1>6. CountInv
  <2>1. ref \in Decoders
    <3>1. <<>> \in Seq(Byte) /\ <<>> \in Seq(Seq(Byte))
      OBVIOUS
    <3> QED
      BY <1>1, <3>1 DEF Decoders, Modes
  <2>2. pending \in Seq(Byte) /\ Len(pending) = 0 /\ 0 \in 0 .. Len(pending)
    BY <1>1
  <2>3. Intrs(pending) = 0
    BY <2>2, IntrsCounted DEF Intrs
  <2> QED
    BY <1>1, <2>1, <2>3 DEF CountInv
<1> QED
  BY <1>1, <1>4, <1>5, <1>6 DEF FrameInv

\* A read: the stream stays as it is, the decoder goes on through it.
LEMMA FillFrame ==
  ASSUME IInv, IInv', CountInv, FrameInv, NEW n \in 1 .. Len(pending), pktbuf_fill_from_file(n)
  PROVE  FrameInv'
<1> DEFINE chunk == SubSeq(pending, 1, n)
<1>1. /\ uncut' = (uncut /\ ref'.mode # "csum2") /\ lockstep' = lockstep /\ pc' = "parse"
      /\ size' = size + n /\ ref' = DecodeAll(ref, chunk) /\ out' = out
      /\ pending' = SubSeq(pending, n + 1, Len(pending))
      /\ data' = [i \in 0 .. NewCap - 1 |->
                    IF size <= i /\ i < size + n THEN chunk[i - size + 1]
                    ELSE IF i < cap THEN data[i] ELSE "?"]
      /\ cap' = NewCap /\ size + n <= NewCap
  <2>1. n \in 1 .. NewCap - size
    BY DEF pktbuf_fill_from_file, ReadSizes
  <2>2. size \in Nat /\ NewCap \in Nat
    BY DEF NewCap, IInv, WellFramed, TypeOK
  <2>3. size + n <= NewCap
    BY <2>1, <2>2
  <2> QED
    BY <2>3 DEF pktbuf_fill_from_file
<1> SUFFICES ASSUME lockstep', uncut'
             PROVE  Lone(Stream') /\ Progress(ref', Stream', size', out')
  BY <1>1 DEF FrameInv
<1>2. lockstep /\ uncut /\ Lone(Stream) /\ Progress(ref, Stream, size, out)
  BY <1>1 DEF FrameInv
<1>3. StreamIs(Stream, data, size, pending) /\ StreamIs(Stream', data', size', pending')
  BY StreamNow
<1>4. /\ size \in Nat /\ Len(pending) \in Nat /\ pending \in Seq(Byte)
      /\ Stream \in Seq(Byte) /\ Len(Stream) = size + Len(pending)
      /\ \A i \in 1 .. size : Stream[i] = data[i - 1]
      /\ \A i \in 1 .. Len(pending) : Stream[size + i] = pending[i]
  BY <1>3 DEF StreamIs
<1>5. /\ Stream' \in Seq(Byte) /\ Len(Stream') = size' + Len(pending')
      /\ \A i \in 1 .. size' : Stream'[i] = data'[i - 1]
      /\ \A i \in 1 .. Len(pending') : Stream'[size' + i] = pending'[i]
  BY <1>3 DEF StreamIs
<1>6. /\ chunk \in Seq(Byte) /\ Len(chunk) = n /\ \A i \in 1 .. n : chunk[i] = pending[i]
      /\ Len(pending') = Len(pending) - n
      /\ \A i \in 1 .. Len(pending) - n : pending'[i] = pending[n + i]
  BY <1>1, <1>4
<1>7. size <= cap /\ cap \in Nat /\ NewCap \in Nat
  BY DEF NewCap, IInv, WellFramed, TypeOK
<1> HIDE DEF chunk
<1>8. Len(Stream') = Len(Stream)
  <2>1. size' = size + n /\ Len(Stream') = size' + Len(pending')
    BY <1>1, <1>5
  <2>2. Len(Stream') = (size + n) + (Len(pending) - n)
    BY ONLY <1>6, <2>1
  <2> QED
    BY ONLY <1>4, <2>2, n \in 1 .. Len(pending)
<1>9. ASSUME NEW i \in 1 .. Len(Stream) PROVE Stream'[i] = Stream[i]
  <2>1. CASE i <= size
    <3>1. i \in 1 .. size' /\ i - 1 \in 0 .. NewCap - 1 /\ ~(size <= i - 1) /\ i - 1 < cap
      BY <1>1, <1>4, <1>7, <2>1
    <3>2. Stream'[i] = data'[i - 1] /\ data'[i - 1] = data[i - 1]
      BY <1>1, <1>5, <3>1
    <3> QED
      BY <1>4, <2>1, <3>2
  <2>2. CASE size < i /\ i <= size + n
    <3> DEFINE j == i - size
    <3>1. /\ i \in 1 .. size' /\ i - 1 \in 0 .. NewCap - 1 /\ size <= i - 1 /\ i - 1 < size + n
          /\ i - 1 - size + 1 = j /\ j \in 1 .. n /\ j \in 1 .. Len(pending) /\ size + j = i
      BY <1>1, <1>4, <1>7, <2>2
    <3>2. Stream'[i] = data'[i - 1] /\ data'[i - 1] = chunk[i - 1 - size + 1]
      BY <1>1, <1>5, <3>1
    <3> HIDE DEF j
    <3> QED
      BY <1>4, <1>6, <3>1, <3>2
  <2>3. CASE size + n < i
    <3> DEFINE j == i - (size + n)
    <3>1. /\ j \in 1 .. Len(pending) - n /\ size' + j = i /\ n + j \in 1 .. Len(pending)
          /\ size + (n + j) = i
      BY <1>1, <1>4, <2>3
    <3> HIDE DEF j
    <3>2. Stream'[i] = pending'[j] /\ pending'[j] = pending[n + j]
      BY <1>5, <1>6, <3>1
    <3> QED
      BY <1>4, <3>1, <3>2
  <2>4. i <= size \/ (size < i /\ i <= size + n) \/ size + n < i
    BY <1>4
  <2> QED
    BY <2>1, <2>2, <2>3, <2>4
<1>10. Stream' = Stream
  BY ONLY <1>4, <1>5, <1>8, <1>9, SeqEqual
<1>11. Progress(DecodeAll(ref, chunk), Stream, size + Len(chunk), out)
  <2>1. size \in 0 .. Len(Stream) /\ size + Len(chunk) <= Len(Stream)
    BY <1>4, <1>6
  <2>2. \A i \in 1 .. Len(chunk) : chunk[i] = Stream[size + i]
    <3>1. \A i \in 1 .. n : i \in 1 .. Len(pending)
      BY <1>4
    <3> QED
      BY <1>4, <1>6, <3>1
  <2>3. ref \in Decoders
    BY DEF CountInv
  <2> QED
    BY <1>2, <1>4, <1>6, <2>1, <2>2, <2>3, ProgressRead
<1> QED
  BY <1>1, <1>2, <1>6, <1>10, <1>11

\* pktbuf_clear drops what belongs to no packet.
LEMMA NoHeadFrame ==
  ASSUME IInv, IInv', FrameInv, NoHead
  PROVE  FrameInv'
<1>1. /\ Offsets("$") = {} /\ size' = 0 /\ pc' = "fill"
      /\ UNCHANGED <<out, pending, ref, lockstep, uncut>>
  BY DEF NoHead
<1> SUFFICES ASSUME lockstep, uncut
             PROVE  /\ Lone(Stream') /\ Progress(ref, Stream', 0, out)
                    /\ out = ref.frames /\ ref.mode # "csum2"
  BY <1>1 DEF FrameInv
<1>2. Lone(Stream) /\ Progress(ref, Stream, size, out) /\ ref.mode # "csum2"
  BY DEF FrameInv
<1>3. StreamIs(Stream, data, size, pending) /\ StreamIs(Stream', data', 0, pending)
  BY <1>1, StreamNow
<1>4. ASSUME NEW s \in 1 .. size, Stream[s] = "$" PROVE FALSE
  <2>1. size \in Nat /\ data[s - 1] = "$"
    BY <1>3, <1>4 DEF StreamIs
  <2>2. s - 1 \in 0 .. size - 1
    BY <2>1
  <2> QED
    BY <1>1, <2>1, <2>2 DEF Offsets
<1>5. ref.mode = "between" /\ ref.cur = <<>> /\ ref.frames = out
  BY <1>2, <1>4 DEF Progress
<1>6. Progress(ref, Stream', 0, out)
  BY <1>5 DEF Progress
<1>7. Rest(Stream', Stream, size) /\ size \in 0 .. Len(Stream)
  <2>1. /\ size \in Nat /\ Len(pending) \in Nat /\ Len(Stream) = size + Len(pending)
        /\ \A i \in 1 .. Len(pending) : Stream[size + i] = pending[i]
    BY <1>3 DEF StreamIs
  <2>2. /\ Len(Stream') = 0 + Len(pending)
        /\ \A i \in 1 .. Len(pending) : Stream'[0 + i] = pending[i]
    BY <1>3 DEF StreamIs
  <2>3. \A i \in 1 .. Len(pending) : 0 + i = i
    BY <2>1
  <2>4. Len(Stream') = Len(pending) /\ Len(pending) = Len(Stream) - size
    BY <2>1, <2>2
  <2> QED
    BY <2>1, <2>2, <2>3, <2>4 DEF Rest
<1>8. Lone(Stream')
  BY <1>2, <1>3, <1>7, LoneRest DEF StreamIs
<1> QED
  BY <1>2, <1>5, <1>6, <1>8

\* pktbuf_is_complete: what is in front of the packet goes, and the packet is
\* taken for complete exactly when the decoder is through with it.
LEMMA HasHeadFrame ==
  ASSUME IInv, IInv', FrameInv, HasHead
  PROVE  FrameInv'
<1> DEFINE h == head
           v == Stream'
<1>1. /\ Offsets("$") # {} /\ data' = Moved /\ size' = size - h
      /\ IF IsComplete THEN end_pos' = EndPos /\ pc' = "pop"
         ELSE UNCHANGED end_pos /\ pc' = "fill"
      /\ UNCHANGED <<out, pending, ref, lockstep, uncut>>
  BY DEF HasHead, MovedSize
<1> SUFFICES ASSUME lockstep, uncut
             PROVE  /\ Lone(v) /\ ref.mode # "csum2" /\ Progress(ref, v, size', out)
                    /\ IF IsComplete THEN pending = <<>> /\ v[1] = "$" /\ EndPos + 1 = size'
                       ELSE out = ref.frames
  BY <1>1 DEF FrameInv
<1>2. Lone(Stream) /\ Progress(ref, Stream, size, out) /\ ref.mode # "csum2"
  BY DEF FrameInv
<1>3. StreamIs(Stream, data, size, pending) /\ StreamIs(v, data', size', pending)
  BY <1>1, StreamNow
<1>4. /\ size \in Nat /\ Len(pending) \in Nat /\ pending \in Seq(Byte)
      /\ Stream \in Seq(Byte) /\ Len(Stream) = size + Len(pending)
      /\ \A i \in 1 .. size : Stream[i] = data[i - 1]
      /\ \A i \in 1 .. Len(pending) : Stream[size + i] = pending[i]
  BY <1>3 DEF StreamIs
<1>5. /\ v \in Seq(Byte) /\ Len(v) = size' + Len(pending) /\ size' \in Nat
      /\ \A i \in 1 .. size' : v[i] = data'[i - 1]
      /\ \A i \in 1 .. Len(pending) : v[size' + i] = pending[i]
  BY <1>3 DEF StreamIs
<1>6. h \in 0 .. size - 1 /\ data[h] = "$"
  <2>1. Offsets("$") \in SUBSET Nat
    BY <1>4 DEF Offsets
  <2>2. h \in Offsets("$")
    BY <1>1, <2>1, MinIsLeast DEF head
  <2> QED
    BY <2>2 DEF Offsets
<1>7. MovedSize = size' /\ size' \in 1 .. size
  BY <1>1, <1>4, <1>6 DEF MovedSize
<1>8. \A i \in 0 .. size' - 1 : data'[i] = data[h + i]
  <2>1. DOMAIN data = 0 .. cap - 1 /\ size <= cap /\ cap \in Nat
    BY DEF IInv, WellFramed, TypeOK
  <2>2. \A i \in 0 .. size' - 1 : i \in 0 .. cap - 1 /\ i < size'
    <3>1. PICK z \in Nat : z = size'
      BY <1>5
    <3>2. z \in 1 .. size
      BY <1>7, <3>1
    <3>3. \A i \in 0 .. z - 1 : i \in 0 .. cap - 1 /\ i < z
      BY ONLY <1>4, <2>1, <3>2
    <3> QED
      BY ONLY <3>1, <3>3
  <2>3. Moved = [i \in DOMAIN data |-> IF i < size' THEN data[h + i] ELSE data[i]]
    BY <1>7 DEF Moved, MoveDown
  <2> QED
    BY <1>1, <2>1, <2>2, <2>3
<1> HIDE DEF h, v
<1>9. Rest(v, Stream, h)
  <2>1. Len(v) = Len(Stream) - h
    BY <1>1, <1>4, <1>5, <1>6
  <2>2. ASSUME NEW i \in 1 .. Len(v) PROVE v[i] = Stream[h + i]
    <3>1. CASE i <= size'
      <4>1. /\ i \in 1 .. size' /\ i - 1 \in 0 .. size' - 1 /\ h + i \in 1 .. size
            /\ h + (i - 1) = (h + i) - 1
        BY <1>1, <1>4, <1>5, <1>6, <3>1
      <4>2. v[i] = data[h + (i - 1)]
        BY <1>5, <1>8, <4>1
      <4>3. Stream[h + i] = data[(h + i) - 1]
        BY <1>4, <4>1
      <4> QED
        BY ONLY <4>1, <4>2, <4>3
    <3>2. CASE i > size'
      <4> DEFINE j == i - size'
      <4>1. j \in 1 .. Len(pending) /\ i = size' + j /\ h + i = size + j
        BY <1>1, <1>4, <1>5, <1>6, <3>2
      <4> HIDE DEF j
      <4> QED
        BY <1>4, <1>5, <4>1
    <3> QED
      BY <1>5, <3>1, <3>2
  <2> QED
    BY <2>1, <2>2 DEF Rest
<1>10. h \in 0 .. Len(Stream) /\ h + 1 \in 1 .. size /\ size \in h + 1 .. Len(Stream)
  BY <1>4, <1>6
<1>11. Lone(v)
  BY ONLY <1>2, <1>4, <1>5, <1>9, <1>10, LoneRest
<1>12. Stream[h + 1] = "$"
  <2>1. (h + 1) - 1 = h
    BY <1>6
  <2> QED
    BY <1>4, <1>6, <1>10, <2>1
<1>13. Progress(ref, v, size', out)
  <2>1. Progress(ref, v, size - h, out)
    BY ONLY <1>2, <1>4, <1>5, <1>9, <1>10, <1>12, ProgressRest
  <2> QED
    BY <1>1, <2>1
<1>14. v[1] = "$" /\ 1 \in 1 .. size' /\ 1 \in 1 .. Len(v)
  <2>1. 1 \in 1 .. Len(v) /\ 1 \in 1 .. size'
    BY <1>4, <1>5, <1>7
  <2> QED
    BY <1>9, <1>12, <2>1 DEF Rest
<1> DEFINE L == Len(v)
<1>15. /\ L \in Nat /\ 1 + 3 <= L /\ v[L - 2] = "#"
       /\ \A t \in 1 .. L - 3 : v[t] # "#"
       /\ \A t \in 1 .. L : v[t] = "$" => t = 1
  BY <1>5, <1>11, <1>14 DEF Lone
<1>16. \/ size' = L /\ ref.frames # out
       \/ size' < L - 1 /\ ref.frames = out
  <2>1. out \in Seq(Seq(Byte))
    BY DEF IInv, StreamInv
  <2>2. \A f : Append(out, f) # out
    BY <2>1, Fresh
  <2>3. size' <= L
    BY <1>4, <1>5
  <2>4. \/ size' < L /\ ref.frames = out /\ (size' < L - 2 \/ size' = L - 2)
        \/ size' = L /\ ref.frames # out
    BY <1>2, <1>13, <1>14, <2>2 DEF Progress
  <2> QED
    BY <1>5, <1>15, <2>3, <2>4
<1>17. HashAt = {i \in 0 .. size' - 1 : v[i + 1] = "#"}
  <2>1. \A i \in 0 .. size' - 1 : i + 1 \in 1 .. size' /\ (i + 1) - 1 = i
    <3>1. PICK z \in Nat : z = size'
      BY <1>5
    <3>2. \A i \in 0 .. z - 1 : i + 1 \in 1 .. z /\ (i + 1) - 1 = i
      BY ONLY z \in Nat
    <3> QED
      BY ONLY <3>1, <3>2
  <2>2. \A i \in 0 .. size' - 1 : v[i + 1] = data'[i]
    BY <1>5, <2>1
  <2> QED
    BY <1>1, <1>7, <2>2 DEF HashAt
<1>18. HashAt \in SUBSET Nat
  BY <1>5, <1>17
<1>19. CASE size' = L /\ ref.frames # out
  <2> DEFINE m == Min(HashAt)
  <2>1. L - 3 \in HashAt
    <3>1. L - 3 \in 0 .. size' - 1 /\ (L - 3) + 1 = L - 2
      BY <1>15, <1>19
    <3> QED
      BY <1>15, <1>17, <3>1
  <2>2. m \in HashAt /\ m <= L - 3
    BY <1>18, <2>1, MinIsLeast
  <2> HIDE DEF m
  <2>3. m \in 0 .. L - 1 /\ v[m + 1] = "#"
    BY <1>17, <1>19, <2>2
  <2>4. m = L - 3
    <3>1. m + 1 \in 1 .. L - 3 \/ m = L - 3
      BY <1>15, <2>2, <2>3
    <3> QED
      BY <1>15, <2>3, <3>1
  <2>5. EndPos = L - 1
    BY <1>15, <2>4 DEF EndPos, CSUM_SIZE, m
  <2>6. IsComplete /\ EndPos + 1 = size'
    BY <1>7, <1>15, <1>19, <2>1, <2>5 DEF IsComplete
  <2>7. pending = <<>>
    <3>1. Len(pending) = 0
      BY <1>4, <1>5, <1>19
    <3> QED
      BY <1>4, <3>1
  <2> QED
    BY <1>2, <1>11, <1>13, <1>14, <2>6, <2>7
<1>20. CASE size' < L - 1 /\ ref.frames = out
  <2>1. ASSUME IsComplete PROVE FALSE
    <3> DEFINE m == Min(HashAt)
    <3>1. HashAt # {} /\ m + 2 <= size'
      BY <1>7, <2>1 DEF IsComplete, EndPos, CSUM_SIZE
    <3>2. m \in HashAt
      BY <1>18, <3>1, MinIsLeast
    <3> HIDE DEF m
    <3>3. m \in 0 .. size' - 1 /\ v[m + 1] = "#"
      BY <1>17, <3>2
    <3>4. m + 1 \in 1 .. L - 3
      BY <1>5, <1>15, <1>20, <3>1, <3>3
    <3> QED
      BY <1>15, <3>3, <3>4
  <2> QED
    BY <1>2, <1>11, <1>13, <1>20, <2>1
<1> QED
  BY <1>16, <1>19, <1>20

\* pktbuf_pop_packet hands on the frame of the decoder.
LEMMA PopFrame ==
  ASSUME IInv, IInv', FrameInv, pktbuf_pop_packet
  PROVE  FrameInv'
<1> DEFINE p == [i \in 1 .. end_pos + 1 |-> data[i - 1]]
<1>1. /\ pc = "pop" /\ out' = Append(out, p) /\ size' = size - (end_pos + 1) /\ pc' = "parse"
      /\ UNCHANGED <<pending, ref, lockstep, uncut>>
  BY DEF pktbuf_pop_packet, old_pkt_size
<1> SUFFICES ASSUME lockstep, uncut
             PROVE  /\ Lone(Stream') /\ ref.mode # "csum2" /\ Progress(ref, Stream', size', out')
  BY <1>1 DEF FrameInv
<1>2. /\ Lone(Stream) /\ Progress(ref, Stream, size, out) /\ ref.mode # "csum2"
      /\ pending = <<>> /\ Stream[1] = "$" /\ end_pos + 1 = size
  BY <1>1 DEF FrameInv
<1>3. StreamIs(Stream, data, size, pending) /\ StreamIs(Stream', data', size', pending)
  BY <1>1, StreamNow
<1>4. /\ size \in Nat /\ Stream \in Seq(Byte) /\ Len(Stream) = size + Len(pending)
      /\ \A i \in 1 .. size : Stream[i] = data[i - 1]
  BY <1>3 DEF StreamIs
<1>5. Len(Stream) = size /\ size \in 1 .. size
  <2>1. Len(Stream) = size
    BY <1>2, <1>4
  <2>2. end_pos \in CSUM_SIZE .. size
    BY <1>1 DEF IInv, CompleteInv
  <2> QED
    BY <1>4, <2>1, <2>2 DEF CSUM_SIZE
<1>6. p = SubSeq(Stream, 1, size)
  <2>1. SubSeq(Stream, 1, size) = Stream
    BY <1>4, <1>5
  <2>2. Stream = [i \in 1 .. size |-> Stream[i]]
    BY <1>4, <1>5
  <2> QED
    BY <1>2, <1>4, <2>1, <2>2
<1>7. \A s \in 1 .. size : Stream[s] = "$" => s = 1
  <2>1. 1 \in 1 .. size
    BY <1>4, <1>5
  <2> QED
    BY <1>2, <1>5, <2>1 DEF Lone
<1> HIDE DEF p
<1>8. ref.mode = "between" /\ ref.cur = <<>> /\ ref.frames = Append(out, p)
  <2>1. 1 \in 1 .. size /\ ~(size < Len(Stream))
    BY <1>4, <1>5
  <2> QED
    BY <1>2, <1>6, <1>7, <2>1 DEF Progress
<1>9. size' = 0 /\ Len(Stream') = 0
  <2>1. size' = 0
    BY <1>1, <1>2, <1>4
  <2>2. Len(Stream') = size' + Len(pending)
    BY <1>3 DEF StreamIs
  <2> QED
    BY <1>2, <2>1, <2>2
<1>10. Lone(Stream')
  BY <1>9 DEF Lone
<1>11. Progress(ref, Stream', size', out')
  BY <1>1, <1>8, <1>9 DEF Progress
<1> QED
  BY <1>2, <1>10, <1>11

\* A message of a client that waits comes behind bytes that belong to no packet.
LEMMA SendFrame ==
  ASSUME SinglePackets, IInv, IInv', FrameInv, NEW m \in Message, ClientSend(m)
  PROVE  FrameInv'
<1>1. /\ pending' = pending \o m
      /\ lockstep' = (lockstep /\ pending = <<>> /\ pc = "fill" /\ Len(out) = Len(ref.frames))
      /\ UNCHANGED <<data, size, end_pos, pc, out, ref, uncut>>
  BY DEF ClientSend, bufVars
<1> SUFFICES ASSUME lockstep, pending = <<>>, pc = "fill", uncut
             PROVE  Lone(Stream') /\ Progress(ref, Stream', size, out)
  BY <1>1 DEF FrameInv
<1>2. /\ Lone(Stream) /\ Progress(ref, Stream, size, out) /\ ref.mode # "csum2"
      /\ out = ref.frames
  BY <1>1 DEF FrameInv
<1>3. m \in Seq(Byte) /\ pending' = m /\ Lone(m)
  <2>1. m \in Seq(Byte)
    BY MessageAssumption
  <2> QED
    BY <1>1, <2>1 DEF SinglePackets
<1>4. StreamIs(Stream, data, size, pending) /\ StreamIs(Stream', data, size, m)
  BY <1>1, <1>3, StreamNow
<1>5. /\ size \in Nat /\ Len(Stream) = size
      /\ \A i \in 1 .. size : Stream[i] = data[i - 1]
  <2>1. Len(Stream) = size + Len(pending) /\ size \in Nat
    BY <1>4 DEF StreamIs
  <2> QED
    BY <1>4, <2>1 DEF StreamIs
<1> DEFINE v == Stream'
<1>6. /\ v \in Seq(Byte) /\ Len(v) = size + Len(m) /\ Len(m) \in Nat
      /\ \A i \in 1 .. size : v[i] = data[i - 1]
      /\ \A i \in 1 .. Len(m) : v[size + i] = m[i]
  BY <1>4 DEF StreamIs
<1> HIDE DEF v
<1>7. /\ \A s \in 1 .. size : Stream[s] # "$"
      /\ ref.mode = "between" /\ ref.cur = <<>> /\ ref.frames = out
  <2>1. out \in Seq(Seq(Byte))
    BY DEF IInv, StreamInv
  <2>2. \A f : Append(out, f) # out
    BY <2>1, Fresh
  <2>3. ~(size < Len(Stream))
    BY <1>5
  <2> QED
    BY <1>2, <2>2, <2>3 DEF Progress
<1>8. \A s \in 1 .. size : v[s] # "$"
  BY <1>5, <1>6, <1>7
<1>9. Progress(ref, v, size, out)
  BY <1>7, <1>8 DEF Progress
<1>10. Lone(v)
  <2> SUFFICES ASSUME NEW s \in 1 .. Len(v), v[s] = "$"
               PROVE  /\ s + 3 <= Len(v) /\ v[Len(v) - 2] = "#"
                      /\ \A t \in s .. Len(v) - 3 : v[t] # "#"
                      /\ \A t \in 1 .. Len(v) : v[t] = "$" => t = s
    BY DEF Lone
  <2> DEFINE r == s - size
  <2>1. ASSUME NEW t \in 1 .. Len(v), v[t] = "$" PROVE t - size \in 1 .. Len(m)
    <3>1. t \notin 1 .. size
      BY <1>8, <2>1
    <3> QED
      BY <1>5, <1>6, <3>1
  <2>2. r \in 1 .. Len(m) /\ size + r = s
    BY <1>5, <1>6, <2>1
  <2> HIDE DEF r
  <2>3. m[r] = "$"
    BY <1>6, <2>2
  <2>4. /\ r + 3 <= Len(m) /\ m[Len(m) - 2] = "#"
        /\ \A t \in r .. Len(m) - 3 : m[t] # "#"
        /\ \A t \in 1 .. Len(m) : m[t] = "$" => t = r
    BY <1>3, <2>2, <2>3 DEF Lone
  <2>5. s + 3 <= Len(v) /\ Len(m) - 2 \in 1 .. Len(m) /\ size + (Len(m) - 2) = Len(v) - 2
    BY <1>5, <1>6, <2>2, <2>4
  <2>6. v[Len(v) - 2] = "#"
    BY <1>6, <2>4, <2>5
  <2>7. ASSUME NEW t \in s .. Len(v) - 3 PROVE v[t] # "#"
    <3> DEFINE q == t - size
    <3>1. q \in r .. Len(m) - 3 /\ q \in 1 .. Len(m) /\ size + q = t
      BY <1>5, <1>6, <2>2
    <3> HIDE DEF q
    <3> QED
      BY <1>6, <2>4, <3>1
  <2>8. ASSUME NEW t \in 1 .. Len(v), v[t] = "$" PROVE t = s
    <3> DEFINE q == t - size
    <3>1. q \in 1 .. Len(m) /\ size + q = t
      BY <1>5, <1>6, <2>1, <2>8
    <3> HIDE DEF q
    <3>2. m[q] = "$"
      BY <1>6, <2>8, <3>1
    <3> QED
      BY <2>2, <2>4, <3>1, <3>2
  <2> QED
    BY <2>5, <2>6, <2>7, <2>8
<1> QED
  BY <1>9, <1>10 DEF v

\* Every step of the reader and of the client preserves FrameInv.
LEMMA NextFrame ==
  ASSUME SinglePackets, IInv, CountInv, FrameInv, [Next]_vars
  PROVE  FrameInv'
<1>1. IInv'
  BY NextIInv
<1>2. ASSUME NEW n \in 1..Len(pending), pktbuf_fill_from_file(n) PROVE FrameInv'
  BY <1>1, <1>2, FillFrame
<1>3. CASE PopCrashes
  <2>1. pc = "pop" /\ old_pkt_size > size /\ UNCHANGED <<lockstep, uncut>>
    BY <1>3 DEF PopCrashes
  <2>2. lockstep /\ uncut => end_pos + 1 = size
    BY <2>1 DEF FrameInv
  <2>3. size \in Nat
    BY DEF IInv, WellFramed, TypeOK
  <2>4. ~(lockstep /\ uncut)
    BY <2>1, <2>2, <2>3 DEF old_pkt_size
  <2> QED
    BY <2>1, <2>4 DEF FrameInv
<1>4. ASSUME NEW m \in Message, ClientSend(m) PROVE FrameInv'
  BY <1>1, <1>4, SendFrame
<1>5. CASE UNCHANGED vars
  BY <1>5 DEF vars, bufVars, FrameInv, Stream
<1>6. CASE NoHead
  BY <1>1, <1>6, NoHeadFrame
<1>7. CASE HasHead
  BY <1>1, <1>7, HasHeadFrame
<1>8. CASE pktbuf_pop_packet
  BY <1>1, <1>8, PopFrame
<1> QED
  BY <1>2, <1>3, <1>4, <1>5, <1>6, <1>7, <1>8 DEF Next, Reader

(***************************************************************************)
(* Whatever the client sends and however it is cut into reads: no byte but *)
(* 0x03 is ever taken for an interrupt, and when everything sent has been  *)
(* read each 0x03 has been signalled exactly once, although the buffer     *)
(* keeps bytes from one read to the next, moves them and may lose packets. *)
(***************************************************************************)
THEOREM EveryInterruptSignalled == Spec => []InterruptsExact
<1>1. Init => CountInv
  BY InitFrame
<1>2. IInv /\ CountInv /\ [Next]_vars => CountInv'
  BY CountStep
<1>3. ASSUME IInv, CountInv PROVE InterruptsExact
  <2>1. /\ intrs \in Nat /\ whole.intrs \in Nat /\ whole.inside \in Nat
        /\ whole.intrs + whole.inside = intrs + Intrs(pending)
    BY <1>3 DEF CountInv, Decoders
  <2>2. pending \in Seq(Byte) /\ Intrs(pending) \in Nat
    <3>1. pending \in Seq(Byte) /\ Len(pending) \in 0 .. Len(pending)
      BY <1>3 DEF IInv, StreamInv
    <3> QED
      BY <3>1, IntrsCounted DEF Intrs
  <2>3. pending = <<>> => Intrs(pending) = 0
    <3>1. pending = <<>> => Len(pending) = 0 /\ 0 \in 0 .. Len(pending)
      OBVIOUS
    <3> QED
      BY <2>2, <3>1, IntrsCounted DEF Intrs
  <2> QED
    BY <2>1, <2>2, <2>3 DEF InterruptsExact
<1> QED
  BY <1>1, <1>2, <1>3, Invariance, PTL DEF Spec

(***************************************************************************)
(* For messages with at most one packet and nothing behind it: a client    *)
(* that waits for its answers is served exactly what it sent, byte for     *)
(* byte, in every capacity of the buffer, however the stream is cut into   *)
(* reads, unless a read ends between two checksum digits.                  *)
(***************************************************************************)
THEOREM PacketsAsSent ==
  ASSUME SinglePackets
  PROVE  Spec => []FramesExact
<1>1. Init => IInv /\ CountInv /\ FrameInv
  BY InitFrame, InitIInv
<1>2. IInv /\ CountInv /\ FrameInv /\ [Next]_vars => IInv' /\ CountInv' /\ FrameInv'
  BY SinglePackets, NextIInv, CountStep, NextFrame
<1>3. FrameInv => FramesExact
  BY DEF FrameInv, FramesExact
<1> QED
  BY <1>1, <1>2, <1>3, PTL DEF Spec

(***************************************************************************)
(* For the same client pktbuf_is_complete is right: a packet is taken only *)
(* when both checksum digits are there, and the memmove of                 *)
(* pktbuf_pop_packet never gets a negative size.                           *)
(***************************************************************************)
THEOREM WaitingClientSafe ==
  ASSUME SinglePackets
  PROVE  Spec => [](lockstep /\ uncut => OnlyCompletePackets /\ pc # "crashed")
<1>1. Init => IInv /\ CountInv /\ FrameInv
  BY InitFrame, InitIInv
<1>2. IInv /\ CountInv /\ FrameInv /\ [Next]_vars => IInv' /\ CountInv' /\ FrameInv'
  BY SinglePackets, NextIInv, CountStep, NextFrame
<1>3. ASSUME IInv, FrameInv, lockstep, uncut PROVE OnlyCompletePackets /\ pc # "crashed"
  <2>1. pc # "crashed" /\ (pc = "pop" => end_pos + 1 = size)
    BY <1>3 DEF FrameInv
  <2>2. end_pos \in Nat \cup {-1}
    BY <1>3 DEF IInv, WellFramed, TypeOK
  <2> QED
    BY <2>1, <2>2 DEF OnlyCompletePackets
<1>4. IInv /\ FrameInv => (lockstep /\ uncut => OnlyCompletePackets /\ pc # "crashed")
  BY <1>3
<1> QED
  BY <1>1, <1>2, <1>4, PTL DEF Spec
==============================================================================
