------------------------------ MODULE Requests -------------------------------
(***************************************************************************)
(* gdbstub_process_packet and its handlers (src/gdbstub.c), src/regbuf.c:  *)
(* which request gets which answer, for a target any of whose callbacks    *)
(* may be missing and, where they return a result, may refuse.  A request  *)
(* is handled by the main thread alone and is one step.  The client is GDB *)
(* as the protocol describes it: it sends well-formed requests, stays      *)
(* within the advertised packet size and believes what it is told.         *)
(*                                                                         *)
(* Texts are sequences of character codes.                                 *)
(***************************************************************************)
EXTENDS Codec, FiniteSetsExt

CONSTANTS Config,       \* targets: [ops, sizes, desc, smp]
          Byte,         \* the byte values a client writes
          MemSize,      \* the target's memory, which repeats beyond its end
          ReadLen,      \* lengths of the memory reads the client may want
          Window,       \* lengths of the qXfer reads
          Errno,        \* what a callback that refuses returns
          RegbufSize,   \* the size regbuf_init starts with (8 in the code)
          MAX_SEND_PACKET_SIZE,
          PacketSize    \* the number qSupported advertises

MAX_DATA_PAYLOAD == MAX_SEND_PACKET_SIZE - (2 + CSUM_SIZE + 2)

\* struct target_ops; get_reg_bytes is always there.
Op == {"cont", "stepi", "read_reg", "write_reg", "read_mem", "write_mem",
       "set_bp", "del_bp", "set_cpu", "get_cpu"}

Char == 1 .. 255   \* a character of a string

\* The bytes of the registers before register i
Before(sizes, i) ==
    LET sum[j \in 0 .. i] == IF j = 0 THEN 0 ELSE sum[j - 1] + sizes[j - 1] IN sum[i]

\* The packet, of 4096 characters in the code, holds the answer to qSupported;
\* all registers and all threads need not fit it.  Errors have one or two digits.
ASSUME SizesAssumption ==
    /\ MemSize \in Nat \ {0} /\ RegbufSize \in Nat \ {0}
    /\ Byte \subseteq 0 .. 255 /\ Byte # {} /\ Errno \subseteq 1 .. 99
    /\ ReadLen \subseteq Nat /\ Window \subseteq Nat /\ \A w \in Window : w >= 2
    /\ MAX_SEND_PACKET_SIZE \in 59 .. 4096 /\ PacketSize \in Nat
    /\ \A c \in Config :
         LET n == Cardinality(DOMAIN c.sizes)
         IN /\ c.ops \subseteq Op /\ c.desc \in Seq(Char) /\ c.smp \in Nat
            /\ n \in Nat \ {0} /\ c.sizes \in [0 .. n - 1 -> Nat \ {0}]

VARIABLES conf,     \* the target: fixed
          regs, mem, cpu,    \* its state: registers, memory, selected CPU
          regbuf,   \* regbuf.sz
          widest,   \* history: the widest register asked of regbuf_get
          req,      \* the last request
          reply,    \* the text of its answer
          event,    \* what gdbstub_process_packet returned for it
          called,   \* the callbacks it called
          end,      \* "no"; or how the stub ended: "detach", an "assert"ion, a "null"
                    \* call, an "overrun" of packet_str (not followed further)
          view,     \* the client's belief of [regs, mem, thread, threads]
          cause,    \* history: what entitles the client's belief to be wrong
          advert,   \* what the client was told the stub can do
          xfer      \* the client's transfer of the description: [got, done]

target == <<regs, mem, cpu>>
belief == <<view, cause>>
client == <<view, cause, advert, xfer>>
vars   == <<conf, target, regbuf, widest, req, reply, event, called, end, client>>

RegNum == Cardinality(DOMAIN conf.sizes)
Reg    == 0 .. RegNum - 1
Smp    == IF conf.smp = 0 THEN 1 ELSE conf.smp
Has(op) == op \in conf.ops
Bytes(n) == [1 .. n -> Byte]

----------------------------------------------------------------------------
\* Texts

Ok    == <<79, 75>>
EPERM == <<69, 48, 49>>    \* "E01"
EINVAL == <<69, 50, 50>>   \* "E22"

Opaque(n) == [k \in 1 .. n |-> 61]   \* a fixed text that nobody looks into

\* The four digits of a number, and the number of four digits
Digits(n, base) ==
    <<(n \div (base * base * base)) % base, (n \div (base * base)) % base,
      (n \div base) % base, n % base>>
Value(d, base) == base * (base * (base * d[1] + d[2]) + d[3]) + d[4]

\* The last k of them, as text
Decimal(n, k) == [j \in 1 .. k |-> 48 + Digits(n, 10)[4 - k + j]]

\* sprintf(packet_str, "E%d", ret), for an errno value of one or two digits
ErrText(ret) == <<69>> \o Decimal(ret, IF ret < 10 THEN 1 ELSE 2)

Result(ret) == IF ret = 0 THEN Ok ELSE ErrText(ret)

\* GDB: an error is 'E' and two hexadecimal digits; anything else is not.
IsError(text) == Len(text) = 3 /\ text[1] = 69

\* GDB: hexadecimal digits, here also the upper-case ones other clients send.
ClientHex(bytes, upper) ==
    [k \in 1 .. 2 * Len(bytes) |->
       LET ch == hex_to_str(bytes)[k] IN IF upper /\ ch > 96 THEN ch - 32 ELSE ch]

\* GDB: '#', '$', '*' and '}' are escaped in binary data.
ClientEscape(bytes) ==
    FlattenSeq([k \in DOMAIN bytes |->
                  IF bytes[k] \in {35, 36, 42, ESC} THEN <<ESC, FlipBit5(bytes[k])>>
                  ELSE <<bytes[k]>>])

----------------------------------------------------------------------------
\* Sending: conn_send_pktstr asserts that the text fits.

\* Mutant: the assertion counts the terminating 0 of the checksum as well.
FitsOneLess(text) == Len(text) + 2 + CSUM_SIZE + 1 + 1 < MAX_SEND_PACKET_SIZE

Fits(text) == Len(text) + 2 + CSUM_SIZE + 1 < MAX_SEND_PACKET_SIZE

conn_send_pktstr(text) ==
    /\ reply' = IF Fits(text) THEN text ELSE <<>>
    /\ end' = IF Fits(text) THEN "no" ELSE "assert"

\* The same for a text that the handler has put together in its own array,
\* packet_str, of as many characters: ends are the ones where it has put a 0.
SendWritten(ends, text) ==
    IF \A e \in ends : e <= MAX_SEND_PACKET_SIZE THEN conn_send_pktstr(text)
    ELSE reply' = <<>> /\ end' = "overrun"

Init ==
    /\ conf \in Config
    /\ regs = [i \in Reg |-> [k \in 1 .. conf.sizes[i] |-> Min(Byte)]]
    /\ mem = [a \in 0 .. MemSize - 1 |-> Min(Byte)]
    /\ cpu = 0
    /\ regbuf = RegbufSize /\ widest = 0
    /\ req = "none" /\ reply = <<>> /\ event = "NONE" /\ called = {} /\ end = "no"
    /\ view = [regs |-> regs, mem |-> mem, thread |-> 0, threads |-> {0}]
    /\ cause = {} /\ advert = {}
    /\ xfer = [got |-> <<>>, done |-> FALSE]

\* What is common to the requests that reach a handler: r is the request,
\* calls the callbacks the handler calls.  A session is followed until the
\* client is entitled to be wrong.
Request(r, calls) ==
    /\ end = "no" /\ cause = {}
    /\ req' = r
    /\ called' = calls
    /\ UNCHANGED conf

\* The client takes a refusal for a success, or its number for data, when the
\* text of the error is not one.
Misread(ret) == IF ret # 0 /\ ~IsError(ErrText(ret)) THEN {"errno"} ELSE {}

----------------------------------------------------------------------------
\* The switch of gdbstub_process_packet.

\* Mutant: the branch of X tests the callback of m.
NeedsSwapped(r) == IF r = "X" THEN "read_mem" ELSE
    CASE r \in {"g", "p"} -> "read_reg" [] r \in {"G", "P"} -> "write_reg"
      [] r = "m" -> "read_mem" [] r = "M" -> "write_mem"
      [] r = "Z" -> "set_bp" [] r = "z" -> "del_bp" [] r = "H" -> "set_cpu"

\* The callback a request's branch tests before it calls the handler.
Needs(r) ==
    CASE r \in {"g", "p"} -> "read_reg"   [] r \in {"G", "P"} -> "write_reg"
      [] r = "m" -> "read_mem"            [] r \in {"M", "X"} -> "write_mem"
      [] r = "Z" -> "set_bp"              [] r = "z" -> "del_bp"
      [] r = "H" -> "set_cpu"

Guarded == {"g", "p", "G", "P", "m", "M", "X", "Z", "z", "H"}

\* SEND_EPERM
Denied ==
    \E r \in Guarded :
      /\ Request(r, {})
      /\ ~Has(Needs(r))
      /\ conn_send_pktstr(EPERM) /\ event' = "NONE"
      /\ UNCHANGED <<target, regbuf, widest, client>>

Granted(r, calls) ==
    /\ Request(r, calls)
    /\ Has(Needs(r))
    /\ event' = "NONE"

\* The requests whose answer depends on nothing, and those no branch knows.
FixedAnswer ==
    [r \in {"?", "T", "D", "qAttached", "qSymbol", "qsThreadInfo", "unknown"} |->
       CASE r = "?"            -> <<83, 48, 53>>   \* "S05"
         [] r = "qAttached"    -> <<49>>
         [] r = "qsThreadInfo" -> <<108>>
         [] r = "unknown"      -> <<>>
         [] OTHER              -> Ok]

\* D ends the session after its answer.
Fixed ==
    \E r \in DOMAIN FixedAnswer :
      /\ Request(r, {})
      /\ IF r = "D" THEN event' = "DETACH" /\ reply' = Ok /\ end' = "detach"
         ELSE event' = "NONE" /\ conn_send_pktstr(FixedAnswer[r])
      /\ UNCHANGED <<target, regbuf, widest, client>>

\* process_cont, process_stepi and process_vcont.  Other actions of vCont
\* are refused.
Resume ==
    /\ \E r \in {"c", "s", "vCont;c", "vCont;s", "vCont;C"} :
         LET op == IF r \in {"c", "vCont;c"} THEN "cont" ELSE "stepi"
         IN /\ Request(r, {})
            /\ IF r # "vCont;C" /\ Has(op)
               THEN event' = (IF op = "cont" THEN "CONT" ELSE "STEP")
                    /\ reply' = <<>> /\ end' = "no"
               ELSE event' = "NONE" /\ conn_send_pktstr(EPERM)
    /\ UNCHANGED <<target, regbuf, widest, client>>

\* process_vcont_support: the letters of the actions that have a callback
VContActions == {a \in {"c", "s"} : Has(IF a = "c" THEN "cont" ELSE "stepi")}

\* process_vcont_support, and the branch of process_query for qSupported
Features ==
    /\ \/ /\ Request("vCont?", {})
          /\ advert' = advert \cup VContActions
          /\ conn_send_pktstr(Opaque(6 + 2 * Cardinality(VContActions)))
       \/ /\ Request("qSupported", {})
          /\ advert' = advert \cup {"noack"} \cup IF conf.desc # <<>> THEN {"xfer"} ELSE {}
          /\ conn_send_pktstr(Opaque(IF conf.desc # <<>> THEN 53 ELSE 32))
    /\ event' = "NONE"
    /\ UNCHANGED <<target, regbuf, widest, belief, xfer>>

\* Nothing but QStartNoAckMode can be set; the mode it sets is a variable of
\* module Gdbstub.
process_general_set ==
    \E r \in {"QStartNoAckMode", "Q"} :
      /\ Request(r, {})
      /\ conn_send_pktstr(IF r = "Q" THEN <<>> ELSE Ok)
      /\ event' = "NONE"
      /\ UNCHANGED <<target, regbuf, widest, client>>

----------------------------------------------------------------------------
\* Registers

\* Mutant: the buffer is doubled once.
RegbufOnce(sz, reg_sz) == IF reg_sz <= sz THEN sz ELSE 2 * sz

Doubled(sz, reg_sz) == IF reg_sz > sz THEN 2 * sz ELSE sz

\* regbuf_get doubles the size until the register fits, reg_sz times at most.
regbuf_get(sz, reg_sz) ==
    LET grown[k \in 0 .. reg_sz] == IF k = 0 THEN sz ELSE Doubled(grown[k - 1], reg_sz)
    IN grown[reg_sz]

UseRegbuf(sizes) ==
    LET sz[j \in 0 .. Len(sizes)] ==
            IF j = 0 THEN regbuf ELSE regbuf_get(sz[j - 1], sizes[j])
    IN /\ regbuf' = sz[Len(sizes)]
       /\ widest' = Max({widest} \cup Range(sizes))

\* Mutant: register i is found as if all were of its size.
OffsetUniform(i) == i * conf.sizes[i]

\* Where register i lies in the text of G, in bytes: payload_offset / 2
Offset(i) == Before(conf.sizes, i)

\* process_reg_read puts register i at i * reg_sz * 2, with a 0 behind it, which
\* is character RegEnd(i) of packet_str.
RegEnd(i) == 2 * (i + 1) * conf.sizes[i] + 1

\* Only for RegEnd(i) <= MAX_SEND_PACKET_SIZE, so that every character written
\* is one of buf.
PutReg(buf, i) ==
    LET at == 2 * i * conf.sizes[i]  hex == hex_to_str(regs[i])
    IN [k \in DOMAIN buf |-> IF k - at \in 1 .. Len(hex) THEN hex[k - at]
                             ELSE IF k - at = Len(hex) + 1 THEN 0 ELSE buf[k]]

\* The text is sent up to the first 0.  (Gaps between the registers are not
\* initialized, and come behind a 0.)
RegText ==
    LET loop[i \in 0 .. RegNum] ==
            IF i = 0 THEN [k \in 1 .. MAX_SEND_PACKET_SIZE |-> 0] ELSE PutReg(loop[i - 1], i - 1)
        buf == loop[RegNum]
    IN SubSeq(buf, 1, Min({k \in DOMAIN buf : buf[k] = 0}) - 1)

\* The client takes the registers that are wholly in the text, one after
\* another.
Learnt(text) ==
    [i \in Reg |->
       LET o == 2 * Before(conf.sizes, i)
           n == conf.sizes[i]
       IN IF o + 2 * n <= Len(text) THEN str_to_hex(SubSeq(text, o + 1, o + 2 * n), n)
          ELSE view.regs[i]]

MixedSizes == \E i, j \in Reg : conf.sizes[i] # conf.sizes[j]

\* process_reg_read; register f cannot be read, or (f = RegNum) all can.
process_reg_read ==
    \E f \in 0 .. RegNum, ret \in Errno :
      LET text == IF f = RegNum THEN RegText ELSE ErrText(ret)
      IN /\ Granted("g", {"read_reg"})
         /\ UseRegbuf([j \in 1 .. Min({f + 1, RegNum}) |-> conf.sizes[j - 1]])
         /\ SendWritten({RegEnd(i) : i \in 0 .. f - 1}, text)
         /\ view' = IF end' # "no" \/ IsError(text) THEN view
                    ELSE [view EXCEPT !.regs = Learnt(text)]
         /\ cause' = (IF f < RegNum THEN Misread(ret) ELSE {})
                           \cup (IF f = RegNum /\ MixedSizes THEN {"mixed"} ELSE {})
         /\ UNCHANGED <<target, advert, xfer>>

process_reg_read_one ==
    \E i \in Reg, ret \in Errno \cup {0} :
      LET text == IF ret = 0 THEN hex_to_str(regs[i]) ELSE ErrText(ret)
      IN /\ Granted("p", {"read_reg"})
         /\ UseRegbuf(<<conf.sizes[i]>>)
         /\ SendWritten({Len(text) + 1}, text)
         /\ view' = IF end' # "no" \/ Len(text) # 2 * conf.sizes[i] THEN view
                    ELSE [view EXCEPT !.regs[i] = str_to_hex(text, conf.sizes[i])]
         /\ cause' = Misread(ret)
         /\ UNCHANGED <<target, advert, xfer>>

process_reg_write_one ==
    Has("write_reg") /\
    \E i \in Reg, upper \in BOOLEAN, ret \in Errno \cup {0} :
    \E v \in Bytes(conf.sizes[i]) :
      /\ Granted("P", {"write_reg"})
      /\ UseRegbuf(<<conf.sizes[i]>>)
      /\ regs' = IF ret # 0 THEN regs
                 ELSE [regs EXCEPT ![i] = str_to_hex(ClientHex(v, upper), conf.sizes[i])]
      /\ conn_send_pktstr(Result(ret))
      /\ view' = IF IsError(Result(ret)) THEN view ELSE [view EXCEPT !.regs[i] = v]
      /\ cause' = Misread(ret)
      /\ UNCHANGED <<mem, cpu, advert, xfer>>

\* process_reg_write for a text of the right length (module RegWrite has its
\* steps and its other exits).  It reads every register first, without asking
\* whether there is a read_reg; register f refuses the write (RegNum: none
\* does), and keep are the registers that then refuse to be restored.
process_reg_write ==
    Has("write_reg") /\
    \E v \in [Reg -> UNION {Bytes(conf.sizes[i]) : i \in Reg}],
       f \in 0 .. RegNum, ret \in Errno :
    \E keep \in SUBSET (0 .. (IF f = RegNum THEN -1 ELSE f - 1)), unread \in BOOLEAN :
      LET payload == FlattenSeq([j \in 1 .. RegNum |-> ClientHex(v[j - 1], FALSE)])
          sent(i) == str_to_hex(SubSeq(payload, 2 * Offset(i) + 1,
                                       2 * (Offset(i) + conf.sizes[i])), conf.sizes[i])
          res == IF unread \/ f < RegNum THEN ret ELSE 0
      IN /\ \A i \in Reg : Len(v[i]) = conf.sizes[i]
         /\ Granted("G", {"read_reg", "write_reg"})
         /\ IF Has("read_reg")
            THEN conn_send_pktstr(Result(res))
            ELSE end' = "null" /\ reply' = <<>>
         /\ regs' = IF unread \/ ~Has("read_reg") THEN regs
                    ELSE [i \in Reg |-> IF f = RegNum \/ i \in keep THEN sent(i) ELSE regs[i]]
         /\ view' = IF IsError(Result(res)) \/ ~Has("read_reg") THEN view
                    ELSE [view EXCEPT !.regs = v]
         /\ cause' = Misread(res)
                           \cup (IF keep # {} /\ ~unread THEN {"rollback"} ELSE {})
         /\ UNCHANGED <<mem, cpu, regbuf, widest, advert, xfer>>

----------------------------------------------------------------------------
\* Memory

Cell(a, k) == (a + k - 1) % MemSize
Read(m, a, len) == [k \in 1 .. len |-> m[Cell(a, k)]]
Write(m, a, v) ==
    [c \in DOMAIN m |-> IF \E k \in DOMAIN v : Cell(a, k) = c
                        THEN v[CHOOSE k \in DOMAIN v : Cell(a, k) = c] ELSE m[c]]

\* The client asks for no more than fits a packet of the advertised size.
process_mem_read ==
    \E a \in DOMAIN mem, len \in ReadLen, ret \in Errno \cup {0} :
      LET text == IF ret = 0 THEN hex_to_str(Read(mem, a, len)) ELSE ErrText(ret)
      IN /\ 2 * len + 2 + CSUM_SIZE <= PacketSize
         /\ Granted("m", {"read_mem"})
         /\ SendWritten({Len(text) + 1}, text)
         /\ view' = IF end' # "no" \/ Len(text) # 2 * len THEN view
                    ELSE [view EXCEPT !.mem = Write(@, a, str_to_hex(text, len))]
         /\ cause' = Misread(ret)
         /\ UNCHANGED <<target, regbuf, widest, advert, xfer>>

\* The two forms of a memory write: what the target gets, and the answer.
MemWrite(r, a, v, sent, ret, text) ==
    /\ Granted(r, {"write_mem"})
    /\ mem' = IF ret = 0 THEN Write(mem, a, sent) ELSE mem
    /\ conn_send_pktstr(text)
    /\ view' = IF IsError(text) THEN view ELSE [view EXCEPT !.mem = Write(@, a, v)]
    /\ UNCHANGED <<regs, cpu, regbuf, widest, advert, xfer>>

process_mem_write ==
    \E a \in DOMAIN mem, len \in 1 .. MemSize, upper \in BOOLEAN, ret \in Errno \cup {0} :
    \E v \in Bytes(len) :
      /\ MemWrite("M", a, v, str_to_hex(ClientHex(v, upper), len), ret, Result(ret))
      /\ cause' = Misread(ret)

\* The result of write_mem is dropped.
process_mem_xwrite ==
    \E a \in DOMAIN mem, len \in 0 .. MemSize, ret \in Errno \cup {0} :
    \E v \in Bytes(len) :
      LET content == unescape(ClientEscape(v))
      IN IF Len(content) = len
         THEN /\ MemWrite("X", a, v, content, ret, Ok)
              /\ cause' = IF ret # 0 THEN {"xwrite"} ELSE {}
         ELSE /\ Granted("X", {}) /\ reply' = <<>> /\ end' = "assert"
              /\ UNCHANGED <<target, regbuf, widest, client>>

\* process_set_break_points, process_del_break_points
BreakPoint ==
    \E r \in {"Z", "z"}, ret \in BOOLEAN :
      /\ Granted(r, {Needs(r)})
      /\ conn_send_pktstr(IF ret THEN Ok ELSE EINVAL)
      /\ UNCHANGED <<target, regbuf, widest, client>>

----------------------------------------------------------------------------
\* The description of the target, in windows.

\* Mutant: 'l' is decided by what snprintf could hold without its 0.
LastTooEarly(rest, payload_length) == rest <= payload_length

IsLast(rest, payload_length) == rest < payload_length

\* The characters snprintf(buf + 1, payload_length, ...) can write
Carried(payload_length) == payload_length - 1

\* process_xfer.  The client asks from where it is, until it has seen an 'l'.
process_xfer ==
    \E length \in Window :
      LET rest == Len(conf.desc) - Len(xfer.got)
          payload_length == Min({MAX_DATA_PAYLOAD, length})
          data == SubSeq(conf.desc, Len(xfer.got) + 1,
                         Len(xfer.got) + Min({Carried(payload_length), rest}))
          last == IsLast(rest, payload_length)
      IN /\ Request("qXfer", {})
         /\ ~xfer.done
         /\ IF conf.desc = <<>>
            THEN conn_send_pktstr(<<>>) /\ UNCHANGED xfer
            ELSE conn_send_pktstr(<<IF last THEN 108 ELSE 109>> \o data)
                 /\ xfer' = [got |-> xfer.got \o data, done |-> last]
         /\ event' = "NONE"
         /\ UNCHANGED <<target, regbuf, widest, belief, advert>>

----------------------------------------------------------------------------
\* Threads.  The stub writes the number of a CPU in decimal digits, four of
\* them, and reads it with "%d"; GDB reads and writes it as hexadecimal.

\* What GDB makes of the number in a text behind position from
ClientId(text, from) == Value([k \in 1 .. 4 |-> text[from + k] - 48], 16)

ThreadText == <<109>> \o FlattenSeq([c \in 1 .. Smp |-> Decimal(c - 1, 4) \o <<44>>])
CpuText == <<81, 67>> \o Decimal(cpu, 4)   \* "QC%04d"

\* Mutant: only the last digit is read.
ScanOneDigit(digits) == digits[4]

\* sscanf(payload, "g%d", &cpuid); the client writes no leading zeros, which
\* makes no difference here.
ScanCpu(digits) == Value(digits, 10)

\* process_set_cpu; nothing but Hg reaches the target.
process_set_cpu ==
    /\ \/ \E t \in view.threads :
            /\ Granted("H", {"set_cpu"})
            /\ cpu' = ScanCpu(Digits(t, 16))
            /\ view' = [view EXCEPT !.thread = t]
       \/ Granted("H", {}) /\ UNCHANGED <<cpu, view>>   \* Hc
    /\ conn_send_pktstr(Ok)
    /\ UNCHANGED <<regs, mem, regbuf, widest, cause, advert, xfer>>

\* The branches of process_query for qC and qfThreadInfo, which asserts that four
\* digits are enough for a CPU
ThreadQuery ==
    /\ \/ /\ Request("qC", IF Has("get_cpu") THEN {"get_cpu"} ELSE {})
          /\ conn_send_pktstr(IF Has("get_cpu") THEN CpuText ELSE <<>>)
          /\ view' = IF Has("get_cpu") THEN [view EXCEPT !.thread = ClientId(CpuText, 2)]
                     ELSE view
       \/ /\ Request("qfThreadInfo", {})
          /\ IF Smp < 10000 THEN SendWritten({5 * Smp + 2}, ThreadText)
             ELSE reply' = <<>> /\ end' = "assert"
          /\ view' = IF end' # "no" THEN view
                     ELSE [view EXCEPT !.threads =
                             {ClientId(ThreadText, 5 * c + 1) : c \in 0 .. Smp - 1}]
    /\ event' = "NONE"
    /\ UNCHANGED <<target, regbuf, widest, cause, advert, xfer>>

\* The stub has ended, or the session is not followed further.
Gone == (end # "no" \/ cause # {}) /\ UNCHANGED vars

Next ==
    \/ Denied \/ Fixed \/ Resume \/ Features \/ process_general_set
    \/ process_reg_read \/ process_reg_read_one
    \/ process_reg_write_one \/ process_reg_write
    \/ process_mem_read \/ process_mem_write \/ process_mem_xwrite
    \/ BreakPoint \/ process_xfer \/ process_set_cpu \/ ThreadQuery
    \/ Gone

Spec == Init /\ [][Next]_vars

----------------------------------------------------------------------------
\* Properties

\* Registers keep the size the target gives them, every text is one of
\* character codes, the CPU selected exists, and the buffer regbuf_get has
\* returned holds the widest register read or written through it.
TypeOK ==
    /\ conf \in Config
    /\ \A i \in Reg : regs[i] \in [1 .. conf.sizes[i] -> 0 .. 255]
    /\ mem \in [0 .. MemSize - 1 -> 0 .. 255]
    /\ cpu \in 0 .. Smp - 1
    /\ widest \in Nat /\ regbuf \in Nat /\ widest <= regbuf
    /\ \A k \in DOMAIN reply : reply[k] \in Char
    /\ event \in {"NONE", "CONT", "STEP", "DETACH"}
    /\ end \in {"no", "detach", "assert", "null", "overrun"}
    /\ cause \subseteq {"errno", "xwrite", "mixed", "rollback"}
    /\ advert \subseteq {"c", "s", "xfer", "noack"}

\* What the client believes of the memory after any sequence of m, M and X is
\* what the target holds, except after an X the target refused (its result is
\* dropped, gdbstub.c:484) and after a refusal whose errno has one digit
\* ("E%d" is then not an error to GDB).
MemoryViewExact == cause \cap {"xwrite", "errno"} = {} => view.mem = mem

\* The same for the registers and g, p, P and G, except after a g on a target
\* whose registers differ in size (gdbstub.c:249 places register i as if all
\* had its size), a restore that failed in G, and one-digit errnos.
RegisterViewExact == cause \cap {"mixed", "rollback", "errno"} = {} => view.regs = regs

\* The thread the client has selected, or was told of, is the CPU the target
\* has selected, although the one side counts in hexadecimal (gdbstub.c:739).
ThreadViewExact == view.thread = ClientId(CpuText, 2)

\* A handler calls only callbacks the target has.  The one exception is G,
\* which reads the registers of a target it has only asked for write_reg
\* (gdbstub.c:326 against 825).
NoNullCall == called \subseteq conf.ops \/ (req = "G" /\ ~Has("read_reg"))

\* What vCont? and qSupported have told the client works when it is used.
AdvertisedWorks ==
    /\ req = "vCont;c" /\ "c" \in advert => event = "CONT"
    /\ req = "vCont;s" /\ "s" \in advert => event = "STEP"
    /\ req = "QStartNoAckMode" /\ "noack" \in advert => reply = Ok
    /\ req = "qXfer" /\ "xfer" \in advert => reply # <<>>

\* The stub keeps to the callbacks the target has: it calls no other, over all
\* branches of gdbstub_process_packet, and what it has promised the client it
\* does.
CallbacksRespected == NoNullCall /\ AdvertisedWorks

\* What the client has of the description is a beginning of it, and all of it
\* when the stub has said 'l' (gdbstub.c:516); and every window before that
\* brings it further.
TransferExact ==
    /\ req = "qXfer" /\ conf.desc # <<>> => xfer.done \/ Len(reply) > 1
    /\ IsPrefix(xfer.got, conf.desc)
    /\ xfer.done => xfer.got = conf.desc

\* The receiver of an answer verifies its checksum, and notices it when a
\* character arrives that is larger by 1 or by 16: a change of either digit of
\* the checksum.
ChangedByteNoticed ==
    /\ packet_csum_verify(Frame(reply))
    /\ \A k \in DOMAIN reply : \A d \in {1, 16} :
         ~packet_csum_verify([Frame(reply) EXCEPT ![k + 1] = (@ + d) % 256])

\* What a request may ask for and the packet cannot hold: memory, if the size
\* that qSupported advertises is larger than the packet (gdbstub.c:550 has 0x1024
\* for 4096 characters); registers, if together, or one of them, they need more
\* than a packet, or if they differ in size and one is placed beyond it although
\* they need less (gdbstub.c:249); threads, if there are too many CPUs
\* (gdbstub.c:570 is satisfied with less than 10000).
TooLong(r) ==
    LET over(n) == n + 2 + CSUM_SIZE + 2 > MAX_SEND_PACKET_SIZE
    IN CASE r = "m" -> over(PacketSize - (2 + CSUM_SIZE))
         [] r = "g" -> \/ over(2 * Before(conf.sizes, RegNum))
                       \/ MixedSizes /\ \E i \in Reg : RegEnd(i) > MAX_SEND_PACKET_SIZE
         [] r = "p" -> \E i \in Reg : over(2 * conf.sizes[i])
         [] r = "qfThreadInfo" -> over(5 * Smp + 1)
         [] OTHER -> FALSE

\* No handler writes beyond its packet_str or fails an assertion, but for those
\* four requests and what is too long there: windows of the description always
\* fit, to the last character, and what unescape returns has the length the
\* client announced.
AnswersFit == end \in {"assert", "overrun"} => TooLong(req)
==============================================================================
