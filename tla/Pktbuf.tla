-------------------------------- MODULE Pktbuf --------------------------------
(***************************************************************************)
(* src/packet.c with the part of socket_reader that drives it: how the     *)
(* bytes of the connection become packets.  The buffer is modelled byte    *)
(* for byte, the memory behind the valid bytes included, because           *)
(* pktbuf_pop_packet moves one byte too many and so brings some of it      *)
(* back.  The reference is a decoder that looks at one byte at a time.     *)
(***************************************************************************)
EXTENDS Integers, Sequences, FiniteSetsExt

CONSTANTS
    Message,     \* what the client may send in one go: sequences of bytes
    MaxMessages, \* bound: messages sent
    DefaultCap   \* the bytes the buffer starts with, 1 << DEFAULT_CAP

\* "h" is a checksum digit, "x" any payload byte, "+" an acknowledgement, "^C"
\* INTR_CHAR, "0" what calloc leaves and "?" what realloc leaves.
Byte == {"$", "#", "h", "x", "+", "^C", "0", "?"}

ASSUME MessageAssumption == Message \subseteq Seq(Byte)
ASSUME CapAssumption == DefaultCap \in Nat \ {0} /\ MaxMessages \in Nat

VARIABLES data, size, end_pos,  \* pktbuf_t
          cap,       \* the bytes allocated, 1 << pktbuf_t.cap
          pc,        \* socket_reader: "fill", "parse", "pop", or "crashed"
          intrs,     \* calls of pktqueue_signal_interrupt
          out,       \* packets pushed, as byte sequences
          pending,   \* bytes sent and not yet read
          sent,      \* messages sent
          ref,       \* history: the reference decoder, fed with the bytes read
          whole,     \* history: the same decoder, fed with all the client has sent
          lockstep,  \* history: nothing was sent behind a packet not yet taken
          uncut      \* history: no read ended between two checksum digits

bufVars == <<data, size, end_pos, cap>>
vars == <<bufVars, pc, intrs, out, pending, sent, ref, whole,
          lockstep, uncut>>

CSUM_SIZE == 2

----------------------------------------------------------------------------
(* The reference: "$", a body up to the first "#", two checksum digits;    *)
(* anything between two packets is skipped, except interrupts.             *)

DecoderInit ==
    [mode |-> "between", cur |-> <<>>, frames |-> <<>>, intrs |-> 0, inside |-> 0]

Decode(d, b) ==
    LET inside == d.mode # "between" \/ b = "$"
        last   == d.mode = "csum2"
        intr   == IF b = "^C" THEN 1 ELSE 0
    IN [mode   |-> CASE d.mode = "between" -> IF b = "$" THEN "body" ELSE "between"
                     [] d.mode = "body"    -> IF b = "#" THEN "csum1" ELSE "body"
                     [] d.mode = "csum1"   -> "csum2"
                     [] d.mode = "csum2"   -> "between",
        cur    |-> IF last THEN <<>> ELSE IF inside THEN Append(d.cur, b) ELSE d.cur,
        frames |-> IF last THEN Append(d.frames, Append(d.cur, b)) ELSE d.frames,
        intrs  |-> IF inside THEN d.intrs ELSE d.intrs + intr,
        inside |-> IF inside THEN d.inside + intr ELSE d.inside]

DecodeAll(d, bytes) ==
    LET loop[i \in 0 .. Len(bytes)] ==
          IF i = 0 THEN d ELSE Decode(loop[i - 1], bytes[i])
    IN loop[Len(bytes)]

----------------------------------------------------------------------------
(* Memory.                                                                 *)

\* memmove(d + 0, d + from, n)
MoveDown(d, from, n) == [i \in DOMAIN d |-> IF i < n THEN d[from + i] ELSE d[i]]

\* The valid bytes equal to b, as offsets.
Offsets(b) == {i \in 0 .. size - 1 : data[i] = b}

\* pktbuf_init
Init ==
    /\ cap = DefaultCap
    /\ data = [i \in 0 .. DefaultCap - 1 |-> "0"]
    /\ size = 0 /\ end_pos = -1
    /\ pc = "fill" /\ intrs = 0 /\ out = <<>>
    /\ pending = <<>> /\ sent = <<>>
    /\ ref = DecoderInit /\ whole = DecoderInit
    /\ lockstep = TRUE /\ uncut = TRUE

\* The client sends, in lock step or not: a client that waits for its answers
\* sends only when all it sent has been read and each packet been taken.
ClientSend(m) ==
    /\ Len(sent) < MaxMessages
    /\ pending' = pending \o m
    /\ sent' = Append(sent, m)
    /\ whole' = DecodeAll(whole, m)
    /\ lockstep' = /\ lockstep
                   /\ pending = <<>> /\ pc = "fill" /\ Len(out) = Len(ref.frames)
    /\ UNCHANGED <<bufVars, pc, intrs, out, ref, uncut>>

----------------------------------------------------------------------------
(* pktbuf_fill_from_file and the interrupt scan of socket_reader.          *)

\* cap++ doubles the buffer.
NewCap == IF size = cap THEN 2 * cap ELSE cap

\* read(fd, buf, left) returns at most what is left.
ReadSizes == 1 .. NewCap - size

\* Mutant: the scan starts at the front of the buffer.
IntrCountFront(d, from, n) == Cardinality({i \in 0 .. n - 1 : d[i] = "^C"})

\* The scan of socket_reader: n bytes of the buffer from buf_start on.
IntrCount(d, from, n) == Cardinality({i \in 0 .. n - 1 : d[from + i] = "^C"})

pktbuf_fill_from_file(n) ==
    /\ pc = "fill"
    /\ n \in ReadSizes /\ n <= Len(pending)
    /\ LET chunk == SubSeq(pending, 1, n) IN
       /\ cap' = NewCap
       /\ data' = [i \in 0 .. NewCap - 1 |->
                     IF size <= i /\ i < size + n THEN chunk[i - size + 1]
                     ELSE IF i < cap THEN data[i] ELSE "?"]
       /\ size' = size + n
       /\ intrs' = intrs + IntrCount(data', size' - n, n)
       /\ ref' = DecodeAll(ref, chunk)
    /\ uncut' = (uncut /\ ref'.mode # "csum2")
    /\ pending' = SubSeq(pending, n + 1, Len(pending))
    /\ pc' = "parse"
    /\ UNCHANGED <<end_pos, out, sent, whole, lockstep>>

----------------------------------------------------------------------------
(* pktbuf_is_complete.                                                     *)

\* No head: pktbuf_clear.
NoHead ==
    /\ pc = "parse"
    /\ Offsets("$") = {}
    /\ size' = 0 /\ end_pos' = -1
    /\ pc' = "fill"
    /\ UNCHANGED <<data, cap, intrs, out, pending, sent, ref,
                   whole, lockstep, uncut>>

\* The data once the packet has been moved to the front.
head == Min(Offsets("$"))
MovedSize == size - head

\* Mutant: the bytes in front of the packet are not removed.
MovedNot == data

Moved == MoveDown(data, head, MovedSize)

\* memchr(data, '#', size), and the position of the last checksum digit
HashAt == {i \in 0 .. MovedSize - 1 : Moved[i] = "#"}
EndPos == Min(HashAt) + CSUM_SIZE

\* Mutant: the comparison is off by one the other way.
IsCompleteLate == HashAt # {} /\ EndPos + 1 < MovedSize

\* Is the packet complete?  (end_pos = size passes: see OnlyCompletePackets.)
IsComplete == HashAt # {} /\ EndPos <= MovedSize

HasHead ==
    /\ pc = "parse"
    /\ Offsets("$") # {}
    /\ data' = Moved
    /\ size' = MovedSize
    /\ IF IsComplete THEN end_pos' = EndPos /\ pc' = "pop"
                     ELSE UNCHANGED end_pos /\ pc' = "fill"
    /\ UNCHANGED <<cap, intrs, out, pending, sent, ref,
                   whole, lockstep, uncut>>

----------------------------------------------------------------------------
(* pktbuf_pop_packet.                                                      *)

old_pkt_size == end_pos + 1

\* The packet is copied out; the rest is moved to the front from one byte too
\* far, so that the byte behind the packet is lost and the byte behind the
\* valid ones comes in (b: whatever lies there if the buffer is full).
pktbuf_pop_packet ==
    /\ pc = "pop"
    /\ old_pkt_size <= size
    /\ out' = Append(out, [i \in 1 .. old_pkt_size |-> data[i - 1]])
    /\ \E b \in IF size < cap THEN {data[size]} ELSE Byte :
          LET mem == [i \in 0 .. cap |-> IF i < cap THEN data[i] ELSE b]
              moved == IF old_pkt_size = size THEN mem
                       ELSE MoveDown(mem, old_pkt_size + 1, size - old_pkt_size)
          IN data' = [i \in DOMAIN data |-> moved[i]]
    /\ size' = size - old_pkt_size
    /\ end_pos' = -1
    /\ pc' = "parse"
    /\ UNCHANGED <<cap, intrs, pending, sent, ref,
                   whole, lockstep, uncut>>

\* The last digit has not been read: memmove gets the size (size_t) -1.
PopCrashes ==
    /\ pc = "pop"
    /\ old_pkt_size > size
    /\ pc' = "crashed"
    /\ UNCHANGED <<bufVars, intrs, out, pending, sent, ref,
                   whole, lockstep, uncut>>

----------------------------------------------------------------------------
Reader ==
    \/ \E n \in 1..Len(pending) : pktbuf_fill_from_file(n)
    \/ NoHead \/ HasHead \/ pktbuf_pop_packet \/ PopCrashes

Next == Reader \/ \E m \in Message : ClientSend(m)

Spec == Init /\ [][Next]_vars

----------------------------------------------------------------------------
(***************************************************************************)
(* Types, with the assertion of pktbuf_fill_from_file: the valid bytes fit *)
(* the buffer.                                                             *)
(***************************************************************************)
TypeOK ==
    /\ data \in [0 .. cap - 1 -> Byte]
    /\ cap \in Nat /\ cap >= DefaultCap /\ size \in 0 .. cap
    /\ end_pos \in Nat \cup {-1}
    /\ pc \in {"fill", "parse", "pop", "crashed"}

(***************************************************************************)
(* Every packet handed to the queue starts with '$' (asserted by           *)
(* gdbstub_process_packet) and has its first '#' two bytes before its end, *)
(* where packet_csum_verify and gdbstub_process_packet take it to be; and  *)
(* the buffer it comes from has kept within its capacity.                  *)
(***************************************************************************)
WellFramed ==
    /\ TypeOK
    /\ \A k \in DOMAIN out :
         LET p == out[k] IN
         /\ p[1] = "$"
         /\ p[Len(p) - CSUM_SIZE] = "#"
         /\ \A i \in 1 .. Len(p) - CSUM_SIZE - 1 : p[i] # "#"

(***************************************************************************)
(* Whenever socket_reader goes back to poll, the packets it has pushed are *)
(* those of the byte-at-a-time decoder: none lost, invented, changed or    *)
(* reordered, however the stream was cut into reads and through every      *)
(* enlargement of the buffer.  This much holds for a client that waits     *)
(* for its answers, as long as no read ends between two checksum digits;   *)
(* an interrupt may follow its packet, unless the two fill the buffer to   *)
(* the last byte.                                                          *)
(***************************************************************************)
FramesExact == pc = "fill" /\ lockstep /\ uncut => out = ref.frames

(***************************************************************************)
(* If the client sends 0x03 only as an interrupt, between packets, then no *)
(* byte is ever taken for an interrupt that is none, and once everything   *)
(* sent has been read each interrupt has been signalled, exactly once: the *)
(* bytes that stay in the buffer for a later read, those that              *)
(* pktbuf_is_complete and pktbuf_pop_packet move or bring back, and        *)
(* packets that get lost make no difference.  A 0x03 inside a packet (an   *)
(* escaped '#' in the binary data of an X request is one) counts as an     *)
(* interrupt too, once, but nothing else does.                             *)
(***************************************************************************)
InterruptsExact ==
    /\ whole.inside = 0 => intrs <= whole.intrs
    /\ pending = <<>> => intrs = whole.intrs + whole.inside

(***************************************************************************)
(* socket_reader: "assembles complete packets".  A packet is taken only    *)
(* when both checksum digits are there.                                    *)
(***************************************************************************)
OnlyCompletePackets == pc = "pop" => end_pos < size

(***************************************************************************)
(* socket_reader: "Process complete packets", in a loop.  No packet that   *)
(* has been read completely is lost.                                       *)
(***************************************************************************)
NoPacketLost == pc = "fill" /\ uncut => Len(out) >= Len(ref.frames)
==============================================================================
