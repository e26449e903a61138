---------------------------- MODULE RequestsProofs ----------------------------
(***************************************************************************)
(* The handlers, for any target and any client: no callback is called that *)
(* the target does not have, what is advertised works, and the description *)
(* of the target arrives complete; what the client believes of the memory, *)
(* the registers and the thread is true; only a long memory read gets an   *)
(* answer that does not fit.  And the conversions of Codec, for every text: *)
(* hexadecimal digits, thread ids, escaping and the checksum.              *)
(***************************************************************************)
EXTENDS Requests, WellFoundedInduction, SequenceTheorems, FiniteSetTheorems, TLAPS

\* The client was told of what the target has.
AdvertInv ==
    /\ "c" \in advert => Has("cont")
    /\ "s" \in advert => Has("stepi")
    /\ "xfer" \in advert => conf.desc # <<>>

\* What the client has of the description, character by character.
XferInv ==
    /\ xfer.got \in Seq(Char) /\ Len(xfer.got) <= Len(conf.desc)
    /\ \A i \in 1 .. Len(xfer.got) : xfer.got[i] = conf.desc[i]
    /\ xfer.done => Len(xfer.got) = Len(conf.desc)
    /\ req = "qXfer" /\ conf.desc # <<>> => xfer.done \/ Len(reply) > 1

IInv == conf \in Config /\ AdvertInv /\ CallbacksRespected /\ XferInv

\* The requests whose answers AdvertisedWorks and XferInv speak of.
Promised == {"vCont;c", "vCont;s", "QStartNoAckMode", "qXfer"}
----------------------------------------------------------------------------
\* What the assumptions say of the target.
LEMMA ConfFacts ==
  ASSUME conf \in Config
  PROVE  /\ conf.desc \in Seq(Char) /\ Len(conf.desc) \in Nat
         /\ conf.desc # <<>> <=> Len(conf.desc) > 0
<1>1. conf.desc \in Seq(Char)
  BY SizesAssumption
<1> QED
  BY <1>1

\* The minimum of two numbers
LEMMA MinOfTwo ==
  ASSUME NEW a \in Int, NEW b \in Int
  PROVE  Min({a, b}) = IF a <= b THEN a ELSE b
<1> DEFINE m == IF a <= b THEN a ELSE b
<1>1. m \in {a, b} /\ \A y \in {a, b} : m <= y
  OBVIOUS
<1>2. \A x \in {a, b} : (\A y \in {a, b} : x <= y) => x = m
  OBVIOUS
<1> HIDE DEF m
<1>3. Min({a, b}) = m
  BY <1>1, <1>2 DEF Min
<1> QED
  BY <1>3 DEF m

\* What a window of a text holds
LEMMA WindowOf ==
  ASSUME NEW S, NEW s \in Seq(S), NEW g \in Nat, NEW k \in Nat, g + k <= Len(s),
         NEW w, w = SubSeq(s, g + 1, g + k)
  PROVE  /\ w \in Seq(S) /\ Len(w) = k
         /\ \A i \in 1 .. k : w[i] = s[g + i]
<1> DEFINE m == g + 1
           n == g + k
<1>1. m \in Int /\ n \in Int /\ \A i \in m .. n : i \in 1 .. Len(s)
  OBVIOUS
<1>2. \A i \in 1 .. Len(s) : s[i] \in S
  OBVIOUS
<1>3. \A i \in m .. n : s[i] \in S
  BY <1>1, <1>2
<1>4. (IF m <= n THEN n - m + 1 ELSE 0) = k
  OBVIOUS
<1> QED
  BY <1>1, <1>3, <1>4 DEF m, n

\* The same for a window at the beginning
LEMMA FirstOf ==
  ASSUME NEW S, NEW s \in Seq(S), NEW n \in Nat, n <= Len(s)
  PROVE  /\ SubSeq(s, 1, n) \in Seq(S) /\ Len(SubSeq(s, 1, n)) = n
         /\ \A i \in 1 .. n : SubSeq(s, 1, n)[i] = s[i]
<1>1. \A i \in 1 .. n : i \in 1 .. Len(s) /\ s[i] \in S
  OBVIOUS
<1>2. n - 1 + 1 = n /\ \A i \in 1 .. n : 1 + i - 1 = i
  OBVIOUS
<1>3. (IF 1 <= n THEN n - 1 + 1 ELSE 0) = n
  OBVIOUS
<1> QED
  BY <1>1, <1>2, <1>3, SubSeqProperties

\* Two texts, one after the other
LEMMA Joined ==
  ASSUME NEW S, NEW s \in Seq(S), NEW t \in Seq(S)
  PROVE  /\ s \o t \in Seq(S) /\ Len(s \o t) = Len(s) + Len(t)
         /\ \A i \in 1 .. Len(s) + Len(t) :
               (s \o t)[i] = IF i <= Len(s) THEN s[i] ELSE t[i - Len(s)]
BY ConcatProperties

\* Most requests neither are promised nor change what the client was told; they
\* call what their branch has tested for.
LEMMA OtherRequests ==
  ASSUME \/ Denied \/ Fixed
         \/ process_reg_read \/ process_reg_read_one \/ process_reg_write_one
         \/ process_reg_write \/ process_mem_read \/ process_mem_write
         \/ process_mem_xwrite \/ BreakPoint \/ process_set_cpu \/ ThreadQuery
  PROVE  /\ UNCHANGED <<conf, advert, xfer>>
         /\ req' \notin Promised
         /\ called' \subseteq conf.ops \/ (req' = "G" /\ ~Has("read_reg"))
<1> USE DEF Promised, Request, Granted, Has
<1>1. CASE Denied
  BY <1>1 DEF Denied, Guarded, client
<1>2. CASE Fixed
  BY <1>2 DEF Fixed, FixedAnswer, client
<1>3. CASE process_reg_read
  BY <1>3 DEF process_reg_read, Needs
<1>4. CASE process_reg_read_one
  BY <1>4 DEF process_reg_read_one, Needs
<1>5. CASE process_reg_write_one
  BY <1>5 DEF process_reg_write_one, Needs
<1>6. CASE process_reg_write
  BY <1>6 DEF process_reg_write, Needs
<1>7. CASE process_mem_read
  BY <1>7 DEF process_mem_read, Needs
<1>8. CASE process_mem_write
  BY <1>8 DEF process_mem_write, MemWrite, Needs
<1>9. CASE process_mem_xwrite
  BY <1>9 DEF process_mem_xwrite, MemWrite, Needs, client
<1>10. CASE BreakPoint
  BY <1>10 DEF BreakPoint, Needs, client
<1>11. CASE process_set_cpu
  BY <1>11 DEF process_set_cpu, Needs
<1>12. CASE ThreadQuery
  <2>1. /\ UNCHANGED <<advert, xfer>>
        /\ \/ Request("qC", IF Has("get_cpu") THEN {"get_cpu"} ELSE {})
           \/ Request("qfThreadInfo", {})
    BY <1>12 DEF ThreadQuery
  <2> QED
    BY <2>1
<1> QED
  BY <1>1, <1>2, <1>3, <1>4, <1>5, <1>6, <1>7, <1>8, <1>9, <1>10, <1>11, <1>12

\* A step that is none of the promised requests keeps the invariant.
LEMMA QuietStep ==
  ASSUME IInv, UNCHANGED <<conf, xfer>>, AdvertInv', req' \notin Promised,
         called' \subseteq conf.ops \/ (req' = "G" /\ ~Has("read_reg"))
  PROVE  IInv'
<1>1. CallbacksRespected'
  BY DEF CallbacksRespected, NoNullCall, AdvertisedWorks, Promised, Has
<1> QED
  BY <1>1 DEF IInv, XferInv, Promised

\* process_xfer: the window continues where the client is, and is the last one
\* exactly when it takes the rest.
LEMMA XferStep ==
  ASSUME IInv, process_xfer
  PROVE  IInv' /\ reply' \in Seq(Char) /\ end' = "no"
<1> DEFINE desc == conf.desc
           d == Len(desc)
           g == Len(xfer.got)
<1>1. PICK length \in Window :
        LET rest == Len(conf.desc) - Len(xfer.got)
            payload_length == Min({MAX_DATA_PAYLOAD, length})
            data == SubSeq(conf.desc, Len(xfer.got) + 1,
                           Len(xfer.got) + Min({Carried(payload_length), rest}))
            last == IsLast(rest, payload_length)
        IN /\ Request("qXfer", {})
           /\ ~xfer.done
           /\ IF conf.desc = <<>>
              THEN conn_send_pktstr(<<>>) /\ UNCHANGED xfer
              ELSE conn_send_pktstr(<<IF last THEN 108 ELSE 109>> \o data)
                   /\ xfer' = [got |-> xfer.got \o data, done |-> last]
           /\ event' = "NONE"
           /\ UNCHANGED <<target, regbuf, widest, belief, advert>>
  BY DEF process_xfer
<1> DEFINE rest == d - g
           pl == Min({MAX_DATA_PAYLOAD, length})
           k == Min({Carried(pl), rest})
           data == SubSeq(desc, g + 1, g + k)
           last == IsLast(rest, pl)
           text == <<IF last THEN 108 ELSE 109>> \o data
<1>2. /\ req' = "qXfer" /\ called' = {} /\ UNCHANGED <<conf, advert>> /\ ~xfer.done
      /\ conf.desc = <<>> => conn_send_pktstr(<<>>) /\ UNCHANGED xfer
      /\ conf.desc # <<>> =>
           /\ conn_send_pktstr(text)
           /\ xfer' = [got |-> xfer.got \o data, done |-> last]
  BY <1>1 DEF Request
<1>3. /\ desc \in Seq(Char) /\ d \in Nat /\ xfer.got \in Seq(Char) /\ g \in Nat
      /\ g <= d /\ \A i \in 1 .. g : xfer.got[i] = desc[i]
  BY ConfFacts DEF IInv, XferInv
<1>4. /\ pl \in Nat /\ pl >= 2 /\ pl <= MAX_SEND_PACKET_SIZE - 6
      /\ MAX_SEND_PACKET_SIZE \in Nat
  <2>1. /\ length \in Nat /\ length >= 2 /\ MAX_DATA_PAYLOAD = MAX_SEND_PACKET_SIZE - 6
        /\ MAX_SEND_PACKET_SIZE \in Nat /\ MAX_SEND_PACKET_SIZE > 7
    <3>1. MAX_SEND_PACKET_SIZE \in 59 .. 4096
      BY SizesAssumption
    <3>2. length \in Nat /\ length >= 2
      BY SizesAssumption
    <3> QED
      BY ONLY <3>1, <3>2 DEF MAX_DATA_PAYLOAD, CSUM_SIZE
  <2>2. pl = IF MAX_DATA_PAYLOAD <= length THEN MAX_DATA_PAYLOAD ELSE length
    BY <2>1, MinOfTwo
  <2> QED
    BY <2>1, <2>2
<1> HIDE DEF desc, d, g, pl
<1>5. /\ k \in Nat /\ k <= rest /\ k <= pl - 1 /\ last \in BOOLEAN
      /\ last => k = rest
      /\ ~last => k >= 1
  <2>1. k = IF pl - 1 <= rest THEN pl - 1 ELSE rest
    BY <1>3, <1>4, MinOfTwo DEF Carried
  <2>2. last <=> rest < pl
    BY DEF IsLast
  <2> QED
    BY <1>3, <1>4, <2>1, <2>2 DEF IsLast
<1> HIDE DEF k, last
<1>6. /\ data \in Seq(Char) /\ Len(data) = k
      /\ \A i \in 1 .. k : data[i] = desc[g + i]
  <2>1. g + k <= d
    BY <1>3, <1>5
  <2>2. /\ desc \in Seq(Char) /\ g \in Nat /\ k \in Nat
        /\ g + k <= Len(desc)
    BY <1>3, <1>5, <2>1 DEF d
  <2>3. data = SubSeq(desc, g + 1, g + k)
    OBVIOUS
  <2> HIDE DEF data
  <2> QED
    BY ONLY <2>2, <2>3, WindowOf
<1> HIDE DEF data
<1>7. /\ xfer.got \o data \in Seq(Char) /\ Len(xfer.got \o data) = g + k
      /\ \A i \in 1 .. g + k : (xfer.got \o data)[i] = desc[i]
  <2>1. /\ xfer.got \o data \in Seq(Char) /\ Len(xfer.got \o data) = g + k
        /\ \A i \in 1 .. g + k : (xfer.got \o data)[i] = IF i <= g THEN xfer.got[i] ELSE data[i - g]
    <3>1. /\ xfer.got \in Seq(Char) /\ data \in Seq(Char)
          /\ Len(xfer.got) = g /\ Len(data) = k
      BY <1>3, <1>6 DEF g
    <3>2. /\ xfer.got \o data \in Seq(Char)
          /\ Len(xfer.got \o data) = Len(xfer.got) + Len(data)
          /\ \A i \in 1 .. Len(xfer.got) + Len(data) :
                (xfer.got \o data)[i] = IF i <= Len(xfer.got) THEN xfer.got[i]
                                        ELSE data[i - Len(xfer.got)]
      BY ONLY <3>1, Joined
    <3> QED
      BY ONLY <3>1, <3>2
  <2>2. ASSUME NEW i \in 1 .. g + k PROVE (xfer.got \o data)[i] = desc[i]
    <3>1. CASE i <= g
      BY <1>3, <2>1, <3>1
    <3>2. CASE ~(i <= g)
      <4>1. i - g \in 1 .. k /\ g + (i - g) = i
        BY <1>3, <1>5, <3>2
      <4> QED
        BY <1>6, <2>1, <3>2, <4>1
    <3> QED
      BY <3>1, <3>2
  <2> QED
    BY <2>1, <2>2
<1>8. Len(text) = k + 1 /\ Fits(text)
  <2>1. Len(text) = k + 1
    BY <1>5, <1>6
  <2> QED
    BY <1>4, <1>5, <2>1 DEF Fits, CSUM_SIZE
<1>9. conf.desc # <<>> => reply' = text /\ reply' # <<>>
  <2>1. text # <<>>
    BY <1>5, <1>8
  <2> QED
    BY <1>2, <1>8, <2>1 DEF conn_send_pktstr
<1>10. XferInv'
  <2>1. CASE conf.desc = <<>>
    BY <1>2, <2>1 DEF IInv, XferInv
  <2>2. CASE conf.desc # <<>>
    <3>1. xfer'.got = xfer.got \o data /\ xfer'.done = last /\ reply' = text /\ conf' = conf
      BY <1>2, <1>9, <2>2
    <3>2. g + k <= d /\ (last => g + k = d) /\ (~last => k + 1 > 1)
      BY <1>3, <1>5
    <3> HIDE DEF text
    <3> QED
      BY <1>7, <1>8, <3>1, <3>2 DEF XferInv, d, desc
  <2> QED
    BY <2>1, <2>2
<1>11. AdvertInv'
  BY <1>2 DEF IInv, AdvertInv, Has
<1>12. CallbacksRespected'
  BY <1>2, <1>9 DEF IInv, AdvertInv, CallbacksRespected, NoNullCall, AdvertisedWorks
<1>13. reply' \in Seq(Char) /\ end' = "no"
  <2>1. CASE conf.desc = <<>>
    <3>1. Fits(<<>>)
      BY <1>4 DEF Fits, CSUM_SIZE
    <3> QED
      BY <1>2, <2>1, <3>1 DEF conn_send_pktstr
  <2>2. CASE conf.desc # <<>>
    <3>1. text \in Seq(Char)
      <4> DEFINE mark == <<IF last THEN 108 ELSE 109>>
      <4>1. mark \in Seq(Char)
        BY DEF Char
      <4> HIDE DEF mark
      <4>2. mark \o data \in Seq(Char)
        BY <1>6, <4>1
      <4> QED
        BY <4>2 DEF mark
    <3> QED
      BY <1>2, <1>8, <2>2, <3>1 DEF conn_send_pktstr
  <2> QED
    BY <2>1, <2>2
<1> QED
  BY <1>2, <1>10, <1>11, <1>12, <1>13 DEF IInv

\* No callback is called and nothing is promised before the first request.
LEMMA InitIInv == Init => IInv
<1> SUFFICES ASSUME Init PROVE IInv
  OBVIOUS
<1>1. conf \in Config /\ Len(conf.desc) \in Nat
  BY ConfFacts DEF Init
<1>2. xfer.got = <<>> /\ ~xfer.done /\ req = "none" /\ called = {} /\ advert = {}
  BY DEF Init
<1>3. XferInv
  BY <1>1, <1>2 DEF XferInv
<1> QED
  BY <1>1, <1>2, <1>3 DEF IInv, AdvertInv, CallbacksRespected, NoNullCall, AdvertisedWorks

\* Resume: a callback that was advertised is there, and is what the request asks for.
LEMMA ResumeStep ==
  ASSUME IInv, Resume
  PROVE  IInv'
<1>1. /\ called' = {} /\ UNCHANGED <<conf, advert, xfer>>
      /\ req' \in {"c", "s", "vCont;c", "vCont;s", "vCont;C"}
      /\ req' = "vCont;c" /\ Has("cont") => event' = "CONT"
      /\ req' = "vCont;s" /\ Has("stepi") => event' = "STEP"
  BY DEF Resume, Request, client
<1>2. CallbacksRespected'
  BY <1>1 DEF IInv, AdvertInv, CallbacksRespected, NoNullCall, AdvertisedWorks, Has
<1> QED
  BY <1>1, <1>2 DEF IInv, AdvertInv, XferInv, Has

\* process_general_set: "OK" is short enough to be sent.
LEMMA SetStep ==
  ASSUME IInv, process_general_set
  PROVE  IInv'
<1>1. Fits(Ok)
  BY SizesAssumption DEF Fits, Ok, CSUM_SIZE
<1>2. /\ called' = {} /\ UNCHANGED <<conf, advert, xfer>>
      /\ req' \in {"QStartNoAckMode", "Q"}
      /\ req' = "QStartNoAckMode" => reply' = Ok
  BY <1>1 DEF process_general_set, Request, client, conn_send_pktstr
<1>3. CallbacksRespected'
  BY <1>2 DEF IInv, CallbacksRespected, NoNullCall, AdvertisedWorks, Has
<1> QED
  BY <1>2, <1>3 DEF IInv, AdvertInv, XferInv, Has

\* Features: what the answer says is what the target has.
LEMMA FeaturesStep ==
  ASSUME IInv, Features
  PROVE  IInv'
<1>1. /\ called' = {} /\ UNCHANGED <<conf, xfer>> /\ req' \in {"vCont?", "qSupported"}
      /\ \/ advert' = advert \cup VContActions
         \/ advert' = advert \cup {"noack"} \cup IF conf.desc # <<>> THEN {"xfer"} ELSE {}
  BY DEF Features, Request
<1>2. AdvertInv'
  <2>1. CASE advert' = advert \cup VContActions
    BY <1>1, <2>1 DEF IInv, AdvertInv, VContActions, Has
  <2>2. CASE advert' = advert \cup {"noack"} \cup IF conf.desc # <<>> THEN {"xfer"} ELSE {}
    BY <1>1, <2>2 DEF IInv, AdvertInv, Has
  <2> QED
    BY <1>1, <2>1, <2>2
<1>3. req' \notin Promised
  BY <1>1 DEF Promised
<1> QED
  BY <1>1, <1>2, <1>3, QuietStep

\* Every request preserves the invariant.
LEMMA NextIInv == IInv /\ [Next]_vars => IInv'
<1> SUFFICES ASSUME IInv, [Next]_vars PROVE IInv'
  OBVIOUS
<1>1. CASE \/ Denied \/ Fixed
           \/ process_reg_read \/ process_reg_read_one \/ process_reg_write_one
           \/ process_reg_write \/ process_mem_read \/ process_mem_write
           \/ process_mem_xwrite \/ BreakPoint \/ process_set_cpu \/ ThreadQuery
  <2>1. /\ UNCHANGED <<conf, advert, xfer>> /\ req' \notin Promised
        /\ called' \subseteq conf.ops \/ (req' = "G" /\ ~Has("read_reg"))
    BY <1>1, OtherRequests
  <2>2. AdvertInv'
    BY <2>1 DEF IInv, AdvertInv, Has
  <2> QED
    BY <2>1, <2>2, QuietStep
<1>2. CASE Resume
  BY <1>2, ResumeStep
<1>3. CASE Features
  BY <1>3, FeaturesStep
<1>4. CASE process_general_set
  BY <1>4, SetStep
<1>5. CASE process_xfer
  BY <1>5, XferStep
<1>6. CASE Gone \/ UNCHANGED vars
  BY <1>6 DEF Gone, vars, client, IInv, AdvertInv, CallbacksRespected, NoNullCall,
              AdvertisedWorks, XferInv, Has
<1> QED
  BY <1>1, <1>2, <1>3, <1>4, <1>5, <1>6 DEF Next

\* The invariant holds for every target, every size of the packet and every
\* window a client may ask for.
THEOREM Invariance == Spec => []IInv
  BY InitIInv, NextIInv, PTL DEF Spec

\* gdbstub_process_packet calls no callback the target lacks, but for the reads
\* of G; and what vCont? and qSupported have told works.
THEOREM OnlyKnownCallbacks == Spec => []CallbacksRespected
<1>1. IInv => CallbacksRespected
  BY DEF IInv
<1> QED
  BY <1>1, Invariance, PTL

\* process_xfer: whatever windows the client asks for, it has a beginning of
\* the description at any time, every window brings it further, and the 'l'
\* comes with the last character and not before.
THEOREM DescriptionArrives == Spec => []TransferExact
<1>1. IInv => TransferExact
  <2> SUFFICES ASSUME IInv PROVE TransferExact
    OBVIOUS
  <2> DEFINE desc == conf.desc
             got == xfer.got
             n == Len(xfer.got)
  <2>1. /\ desc \in Seq(Char) /\ Len(desc) \in Nat
        /\ got \in Seq(Char) /\ n \in Nat /\ n <= Len(desc)
        /\ \A i \in 1 .. n : got[i] = desc[i]
        /\ Len(got) = n
    BY ConfFacts DEF IInv, XferInv
  <2>2. xfer.done => n = Len(desc)
    BY DEF IInv, XferInv
  <2>3. req = "qXfer" /\ conf.desc # <<>> => xfer.done \/ Len(reply) > 1
    BY DEF IInv, XferInv
  <2> HIDE DEF desc, got, n
  <2>4. /\ SubSeq(got, 1, n) \in Seq(Char) /\ Len(SubSeq(got, 1, n)) = n
        /\ \A i \in 1 .. n : SubSeq(got, 1, n)[i] = got[i]
    BY <2>1, FirstOf
  <2>5. /\ SubSeq(desc, 1, n) \in Seq(Char) /\ Len(SubSeq(desc, 1, n)) = n
        /\ \A i \in 1 .. n : SubSeq(desc, 1, n)[i] = desc[i]
    BY <2>1, FirstOf
  <2>6. SubSeq(got, 1, n) = SubSeq(desc, 1, n)
    BY <2>1, <2>4, <2>5, SeqEqual
  <2>7. xfer.done => got = desc
    BY <2>1, <2>2, SeqEqual
  <2> QED
    BY <2>1, <2>3, <2>6, <2>7 DEF TransferExact, IsPrefix, desc, got, n
<1> QED
  BY <1>1, Invariance, PTL

----------------------------------------------------------------------------
\* src/utils/translate.c, for every text: hexadecimal digits of either case are
\* read back as the bytes they were written for.

Octet == 0 .. 255

\* A digit, as the client writes it
Digit(n, upper) == IF upper /\ hexchars[n] > 96 THEN hexchars[n] - 32 ELSE hexchars[n]

\* char_to_hex undoes hexchars, for digits of either case.
LEMMA DigitRead ==
  ASSUME NEW n \in 0 .. 15, NEW upper \in BOOLEAN
  PROVE  char_to_hex(Digit(n, upper)) = n
<1>1. hexchars[n] = IF n < 10 THEN 48 + n ELSE 87 + n
  BY DEF hexchars
<1>2. CASE n < 10
  <2>1. Digit(n, upper) = 48 + n
    BY <1>1, <1>2 DEF Digit
  <2>2. (48 + n) \div 64 = 0 /\ (48 + n) % 16 = n
    BY <1>2
  <2> QED
    BY <2>1, <2>2 DEF char_to_hex
<1>3. CASE n >= 10
  <2>1. Digit(n, upper) = IF upper THEN 55 + n ELSE 87 + n
    BY <1>1, <1>3 DEF Digit
  <2>2. (55 + n) \div 64 = 1 /\ (87 + n) \div 64 = 1 /\ 1 % 2 = 1
        /\ (55 + n + 9) % 16 = n /\ (87 + n + 9) % 16 = n
    BY <1>3
  <2> QED
    BY <2>1, <2>2 DEF char_to_hex
<1> QED
  BY <1>2, <1>3

\* What the client writes, digit by digit
LEMMA ClientDigits ==
  ASSUME NEW v \in Seq(Octet), NEW upper \in BOOLEAN, NEW i \in 1 .. Len(v)
  PROVE  /\ ClientHex(v, upper)[2 * i - 1] = Digit(v[i] \div 16, upper)
         /\ ClientHex(v, upper)[2 * i] = Digit(v[i] % 16, upper)
<1> DEFINE n == Len(v)
<1>1. n \in Nat /\ i \in 1 .. n
  OBVIOUS
<1>2. \A k \in 1 .. 2 * n :
        /\ hex_to_str(v)[k] = hexchars[IF k % 2 = 1 THEN v[(k + 1) \div 2] \div 16
                                       ELSE v[(k + 1) \div 2] % 16]
        /\ ClientHex(v, upper)[k] = IF upper /\ hex_to_str(v)[k] > 96
                                    THEN hex_to_str(v)[k] - 32 ELSE hex_to_str(v)[k]
  BY DEF hex_to_str, ClientHex
<1> HIDE DEF n
<1>3. /\ 2 * i - 1 \in 1 .. 2 * n /\ (2 * i - 1) % 2 = 1 /\ (2 * i - 1 + 1) \div 2 = i
      /\ 2 * i \in 1 .. 2 * n /\ (2 * i) % 2 # 1 /\ (2 * i + 1) \div 2 = i
  BY <1>1
<1>4. /\ hex_to_str(v)[2 * i - 1] = hexchars[v[i] \div 16]
      /\ hex_to_str(v)[2 * i] = hexchars[v[i] % 16]
  BY <1>2, <1>3
<1> QED
  BY <1>2, <1>3, <1>4 DEF Digit

\* str_to_hex: a value of any length, written as hexadecimal digits of either
\* case, is read back as it was, whatever its bytes are.
THEOREM HexRoundTrip ==
  ASSUME NEW v \in Seq(Octet), NEW upper \in BOOLEAN
  PROVE  str_to_hex(ClientHex(v, upper), Len(v)) = v
<1> DEFINE back == str_to_hex(ClientHex(v, upper), Len(v))
<1>1. back = [i \in 1 .. Len(v) |-> 16 * char_to_hex(ClientHex(v, upper)[2 * i - 1])
                                    + char_to_hex(ClientHex(v, upper)[2 * i])]
  BY DEF str_to_hex
<1>2. ASSUME NEW i \in 1 .. Len(v) PROVE back[i] = v[i]
  <2>1. v[i] \in Octet
    OBVIOUS
  <2>2. /\ v[i] \div 16 \in 0 .. 15 /\ v[i] % 16 \in 0 .. 15
        /\ 16 * (v[i] \div 16) + (v[i] % 16) = v[i]
    <3>1. \A b \in 0 .. 255 : b \div 16 \in 0 .. 15 /\ b % 16 \in 0 .. 15
                               /\ 16 * (b \div 16) + (b % 16) = b
      OBVIOUS
    <3> QED
      BY ONLY <2>1, <3>1 DEF Octet
  <2>3. /\ char_to_hex(ClientHex(v, upper)[2 * i - 1]) = v[i] \div 16
        /\ char_to_hex(ClientHex(v, upper)[2 * i]) = v[i] % 16
    BY <2>2, ClientDigits, DigitRead
  <2> QED
    BY <1>1, <2>2, <2>3
<1> HIDE DEF back
<1>3. DOMAIN back = 1 .. Len(v) /\ back = [i \in 1 .. Len(v) |-> back[i]]
  BY <1>1
<1>4. v = [i \in 1 .. Len(v) |-> v[i]]
  OBVIOUS
<1> QED
  BY <1>2, <1>3, <1>4 DEF back

----------------------------------------------------------------------------
\* src/utils/csum.c, for every text: the sum is a loop over the bytes, so what
\* it computes is found by induction over the positions.  The library's
\* induction theorems cannot be instantiated, and the least position that
\* fails takes their place.

\* A set of numbers has a least element.
LEMMA LeastElement ==
  ASSUME NEW T \in SUBSET Nat, T # {}
  PROVE  \E m \in T : \A y \in T : m <= y
<1> DEFINE R == OpToRel(<, Nat)
<1>1. IsWellFoundedOn(R, Nat)
  BY NatLessThanWellFounded
<1>2. \A y, m \in Nat : <<y, m>> \in R <=> y < m
  BY DEF OpToRel
<1> HIDE DEF R
<1>3. PICK m \in T : \A y \in T : ~(<<y, m>> \in R)
  BY <1>1, WFMin
<1>4. \A y \in T : y \in Nat /\ m \in Nat /\ ~(y < m)
  BY <1>2, <1>3
<1> QED
  BY <1>3, <1>4

\* A set that holds 0 and, with every number below n, the next one.
LEMMA UpTo ==
  ASSUME NEW n \in Nat, NEW T, 0 \in T,
         \A i \in 0 .. n - 1 : i \in T => i + 1 \in T
  PROVE  \A i \in 0 .. n : i \in T
<1> DEFINE F == {i \in 0 .. n : i \notin T}
<1>1. SUFFICES ASSUME F # {} PROVE FALSE
  OBVIOUS
<1>2. F \in SUBSET Nat
  OBVIOUS
<1>3. PICK m \in F : \A y \in F : m <= y
  BY <1>1, <1>2, LeastElement
<1>4. m \in 1 .. n
  BY <1>3
<1>5. m - 1 \in 0 .. n - 1 /\ m - 1 \in 0 .. n /\ m - 1 + 1 = m /\ ~(m <= m - 1)
  BY <1>4
<1>6. m - 1 \in T
  BY <1>3, <1>5
<1> QED
  BY <1>3, <1>5, <1>6

\* The values of csum in compute_checksum on buf, after each of its first k bytes
Running(buf, k) ==
    {f \in [0 .. k -> Octet] :
       f[0] = 0 /\ \A i \in 1 .. k : f[i] = (f[i - 1] + buf[i]) % 256}

\* Sums of bytes are bytes.
LEMMA ByteSum ==
  ASSUME NEW x \in Octet, NEW a \in Octet
  PROVE  (x + a) % 256 \in Octet
BY DEF Octet

\* A byte that differs by d shifts the sum by d,
LEMMA ByteShift ==
  ASSUME NEW x \in Octet, NEW a \in Octet, NEW b \in Octet
  PROVE  /\ 256 + b - a \in Nat
         /\ (x + b) % 256 = (((x + a) % 256) + (256 + b - a)) % 256
BY DEF Octet

\* which is then another sum,
LEMMA ByteDiffers ==
  ASSUME NEW x \in Octet, NEW a \in Octet, NEW b \in Octet, a # b
  PROVE  (x + (256 + b - a)) % 256 # x
BY DEF Octet

\* and so it is after the bytes that follow.
LEMMA ByteCarry ==
  ASSUME NEW x \in Octet, NEW a \in Octet, NEW d \in Nat
  PROVE  (((x + d) % 256) + a) % 256 = (((x + a) % 256) + d) % 256
BY DEF Octet

\* The loop has such values, and returns the last.
LEMMA ChecksumRuns ==
  ASSUME NEW buf \in Seq(Octet)
  PROVE  \E f \in Running(buf, Len(buf)) : compute_checksum(buf) = f[Len(buf)]
<1> DEFINE n == Len(buf)
           G(u) == [i \in 0 .. n |-> IF i = 0 THEN 0 ELSE (u[i - 1] + buf[i]) % 256]
           v == CHOOSE u : u = G(u)
           T == {k \in 0 .. n : Running(buf, k) # {}}
<1>1. n \in Nat /\ \A i \in 1 .. n : buf[i] \in Octet
  OBVIOUS
<1>2. compute_checksum(buf) = v[n]
  BY DEF compute_checksum, Sum
<1> HIDE DEF n
<1>3. 0 \in T
  <2>1. [i \in 0 .. 0 |-> 0] \in Running(buf, 0)
    BY DEF Running, Octet
  <2> QED
    BY <1>1, <2>1
<1>4. ASSUME NEW k \in 0 .. n - 1, k \in T PROVE k + 1 \in T
  <2>1. PICK f : f \in Running(buf, k)
    BY <1>4
  <2> DEFINE x == (f[k] + buf[k + 1]) % 256
             g == [i \in 0 .. k + 1 |-> IF i = k + 1 THEN x ELSE f[i]]
  <2>2. k \in Nat /\ k + 1 \in 1 .. n /\ buf[k + 1] \in Octet
    BY <1>1
  <2>3. f \in [0 .. k -> Octet] /\ f[0] = 0 /\ \A i \in 1 .. k : f[i] = (f[i - 1] + buf[i]) % 256
    BY <2>1 DEF Running
  <2>4. x \in Octet
    <3>1. f[k] \in Octet
      BY <2>2, <2>3
    <3> QED
      BY <2>2, <3>1, ByteSum
  <2>5. g \in [0 .. k + 1 -> Octet] /\ g[0] = 0
    BY <2>2, <2>3, <2>4
  <2>6. ASSUME NEW i \in 1 .. k + 1 PROVE g[i] = (g[i - 1] + buf[i]) % 256
    <3>1. i - 1 \in 0 .. k /\ i - 1 # k + 1 /\ g[i - 1] = f[i - 1]
      BY <2>2
    <3>2. CASE i = k + 1
      BY <2>2, <3>1, <3>2
    <3>3. CASE i # k + 1
      BY <2>2, <2>3, <3>1, <3>3
    <3> QED
      BY <3>2, <3>3
  <2> HIDE DEF g
  <2>7. g \in Running(buf, k + 1)
    BY <2>5, <2>6 DEF Running
  <2> QED
    BY <2>2, <2>7
<1>5. n \in T
  <2> HIDE DEF T
  <2>1. \A i \in 0 .. n : i \in T
    BY <1>1, <1>3, <1>4, UpTo
  <2> QED
    BY <1>1, <2>1
<1>6. PICK w : w \in Running(buf, n)
  BY <1>5
<1>7. w = G(w)
  BY <1>1, <1>6 DEF Running
<1>8. v = G(v)
  BY <1>7
<1> HIDE DEF v
<1>9. v[0] = 0 /\ \A i \in 1 .. n : v[i] = (v[i - 1] + buf[i]) % 256
  BY <1>1, <1>8
<1>10. v \in [0 .. n -> Octet]
  <2> DEFINE S == {i \in 0 .. n : v[i] \in Octet}
  <2>1. 0 \in S
    BY <1>1, <1>9 DEF Octet
  <2>2. ASSUME NEW k \in 0 .. n - 1, k \in S PROVE k + 1 \in S
    <3>1. k + 1 \in 1 .. n /\ k + 1 \in 0 .. n /\ k + 1 - 1 = k
      BY <1>1
    <3>2. v[k + 1] = (v[k] + buf[k + 1]) % 256 /\ v[k] \in Octet /\ buf[k + 1] \in Octet
      BY <1>1, <1>9, <2>2, <3>1
    <3>3. v[k + 1] \in Octet
      BY ONLY <3>2, ByteSum
    <3> QED
      BY <3>1, <3>3
  <2>3. \A i \in 0 .. n : i \in S
    <3> HIDE DEF S
    <3> QED
      BY <1>1, <2>1, <2>2, UpTo
  <2> QED
    BY <1>8, <2>3
<1>11. v \in Running(buf, n)
  BY <1>9, <1>10 DEF Running
<1> QED
  BY <1>2, <1>11 DEF n

\* One byte that differs shifts the sum by the difference.
LEMMA ChecksumShift ==
  ASSUME NEW s \in Seq(Octet), NEW t \in Seq(Octet), NEW k \in 1 .. Len(s),
         Len(t) = Len(s), \A i \in 1 .. Len(s) : i # k => t[i] = s[i]
  PROVE  /\ compute_checksum(s) \in Octet
         /\ compute_checksum(t) = (compute_checksum(s) + (256 + t[k] - s[k])) % 256
<1> DEFINE n == Len(s)
<1>1. n \in Nat /\ k \in 1 .. n /\ \A i \in 1 .. n : s[i] \in Octet /\ t[i] \in Octet
  OBVIOUS
<1>2. \A i \in 1 .. n : i # k => t[i] = s[i]
  OBVIOUS
<1>3. PICK f : f \in Running(s, n) /\ compute_checksum(s) = f[n]
  BY ChecksumRuns
<1>4. PICK g : g \in Running(t, n) /\ compute_checksum(t) = g[n]
  BY ChecksumRuns
<1> HIDE DEF n
<1>5. PICK a \in Octet : a = s[k]
  BY <1>1
<1>6. PICK b \in Octet : b = t[k]
  BY <1>1
<1> DEFINE c == 256 + b - a
           T == {i \in 0 .. n : g[i] = IF i < k THEN f[i] ELSE (f[i] + c) % 256}
<1>7. c \in Nat
  BY DEF Octet
<1>8. /\ f[0] = 0 /\ \A i \in 1 .. n : f[i] = (f[i - 1] + s[i]) % 256
      /\ g[0] = 0 /\ \A i \in 1 .. n : g[i] = (g[i - 1] + t[i]) % 256
      /\ \A i \in 0 .. n : f[i] \in Octet
  BY <1>3, <1>4 DEF Running
<1>9. 0 \in T
  BY <1>1, <1>8
<1>10. ASSUME NEW i \in 0 .. n - 1, i \in T PROVE i + 1 \in T
  <2>1. i \in 0 .. n /\ i + 1 \in 1 .. n /\ i + 1 \in 0 .. n /\ i + 1 - 1 = i
    BY <1>1
  <2>2. f[i + 1] = (f[i] + s[i + 1]) % 256 /\ g[i + 1] = (g[i] + t[i + 1]) % 256
    BY <1>8, <2>1
  <2>3. f[i] \in Octet /\ s[i + 1] \in Octet /\ t[i + 1] \in Octet
    BY <1>1, <1>8, <2>1
  <2>4. g[i] = IF i < k THEN f[i] ELSE (f[i] + c) % 256
    BY <1>10
  <2>5. CASE i + 1 < k
    <3>1. i < k /\ t[i + 1] = s[i + 1]
      BY <1>1, <1>2, <2>1, <2>5
    <3> QED
      BY <2>1, <2>2, <2>4, <2>5, <3>1
  <2>6. CASE i + 1 = k
    <3>1. i < k /\ ~(i + 1 < k) /\ g[i + 1] = (f[i] + b) % 256 /\ f[i + 1] = (f[i] + a) % 256
      BY <1>1, <1>5, <1>6, <2>2, <2>4, <2>6
    <3>2. PICK x \in Octet : x = f[i]
      BY <2>3
    <3>3. (x + b) % 256 = (((x + a) % 256) + c) % 256
      BY ByteShift
    <3> HIDE DEF c
    <3>4. g[i + 1] = (f[i + 1] + c) % 256
      BY ONLY <3>1, <3>2, <3>3, Zenon
    <3> QED
      BY <2>1, <3>1, <3>4
  <2>7. CASE i + 1 > k
    <3>1. ~(i < k) /\ ~(i + 1 < k) /\ t[i + 1] = s[i + 1]
      BY <1>1, <1>2, <2>1, <2>7
    <3>2. (((f[i] + c) % 256) + s[i + 1]) % 256 = (((f[i] + s[i + 1]) % 256) + c) % 256
      <4> HIDE DEF c
      <4> QED
        BY ONLY <1>7, <2>3, ByteCarry
    <3>3. g[i + 1] = (((f[i] + c) % 256) + s[i + 1]) % 256
      BY <2>2, <2>4, <3>1
    <3> HIDE DEF c
    <3>4. g[i + 1] = (f[i + 1] + c) % 256
      BY ONLY <2>2, <3>2, <3>3, Zenon
    <3> QED
      BY <2>1, <3>1, <3>4
  <2> QED
    BY <1>1, <2>5, <2>6, <2>7
<1> HIDE DEF c, T
<1>11. n \in T
  <2>1. \A i \in 0 .. n : i \in T
    BY <1>1, <1>9, <1>10, UpTo
  <2> QED
    BY <1>1, <2>1
<1>12. g[n] = (f[n] + c) % 256 /\ f[n] \in Octet
  BY <1>1, <1>8, <1>11 DEF T
<1> QED
  BY <1>3, <1>4, <1>5, <1>6, <1>12 DEF c

\* '$', the text s, '#' and the digits of c
Framed(s, c) == <<36>> \o s \o <<35>> \o hex_to_str(<<c>>)

\* The digits of a checksum, and what packet_csum_verify reads of them
LEMMA ChecksumDigits ==
  ASSUME NEW c \in Octet
  PROVE  /\ hex_to_str(<<c>>) \in Seq(Octet) /\ Len(hex_to_str(<<c>>)) = 2
         /\ 16 * char_to_hex(hex_to_str(<<c>>)[1]) + char_to_hex(hex_to_str(<<c>>)[2]) = c
<1> DEFINE h == hex_to_str(<<c>>)
           hi == c \div 16
           lo == c % 16
<1>1. hi \in 0 .. 15 /\ lo \in 0 .. 15 /\ 16 * hi + lo = c
  BY DEF Octet
<1>2. h = [k \in 1 .. 2 |-> hexchars[IF k % 2 = 1 THEN <<c>>[(k + 1) \div 2] \div 16
                                    ELSE <<c>>[(k + 1) \div 2] % 16]]
  <2>1. Len(<<c>>) = 1 /\ 2 * 1 = 2
    OBVIOUS
  <2> QED
    BY <2>1 DEF hex_to_str
<1>3. h[1] = hexchars[hi] /\ h[2] = hexchars[lo]
  <2>1. 1 % 2 = 1 /\ (1 + 1) \div 2 = 1 /\ 2 % 2 # 1 /\ (2 + 1) \div 2 = 1 /\ <<c>>[1] = c
    OBVIOUS
  <2> HIDE DEF h
  <2> QED
    BY <1>2, <2>1
<1> HIDE DEF h, hi, lo
<1>4. \A n \in 0 .. 15 : hexchars[n] \in Octet /\ Digit(n, FALSE) = hexchars[n]
  BY DEF hexchars, Octet, Digit
<1>5. h \in [1 .. 2 -> Octet]
  <2>1. \A k \in 1 .. 2 : h[k] \in Octet
    BY <1>1, <1>3, <1>4
  <2> QED
    BY <1>2, <2>1
<1>6. h \in Seq(Octet) /\ Len(h) = 2
  <2>1. h \in Seq(Octet)
    <3>1. 2 \in Nat /\ Seq(Octet) = UNION {[1 .. n -> Octet] : n \in Nat}
      BY SeqDef
    <3> QED
      BY ONLY <1>5, <3>1, Zenon
  <2>2. Len(h) \in Nat /\ DOMAIN h = 1 .. Len(h) /\ DOMAIN h = 1 .. 2
    BY <1>5, <2>1, LenProperties
  <2>3. \A l \in Nat : (\A i \in Int : i \in 1 .. l <=> i \in 1 .. 2) => l = 2
    <3> TAKE l \in Nat
    <3> HAVE \A i \in Int : i \in 1 .. l <=> i \in 1 .. 2
    <3>1. (2 \in 1 .. l <=> 2 \in 1 .. 2) /\ (3 \in 1 .. l <=> 3 \in 1 .. 2)
      OBVIOUS
    <3> QED
      BY ONLY l \in Nat, <3>1
  <2>4. \A i \in Int : i \in 1 .. Len(h) <=> i \in 1 .. 2
    BY ONLY <2>2, Zenon
  <2> QED
    BY ONLY <2>1, <2>2, <2>3, <2>4, Zenon
<1>7. char_to_hex(h[1]) = hi /\ char_to_hex(h[2]) = lo
  <2>1. char_to_hex(Digit(hi, FALSE)) = hi /\ char_to_hex(Digit(lo, FALSE)) = lo
    BY <1>1, DigitRead
  <2> QED
    BY <1>1, <1>3, <1>4, <2>1
<1> QED
  BY <1>1, <1>6, <1>7 DEF h

\* Where the parts of a packet lie
LEMMA FramedAt ==
  ASSUME NEW s \in Seq(Octet), NEW c \in Octet
  PROVE  /\ Framed(s, c) \in Seq(Octet) /\ Len(Framed(s, c)) = Len(s) + 4
         /\ Framed(s, c)[1] = 36 /\ Framed(s, c)[Len(s) + 2] = 35
         /\ \A i \in 1 .. Len(s) : Framed(s, c)[i + 1] = s[i]
         /\ Framed(s, c)[Len(s) + 3] = hex_to_str(<<c>>)[1]
         /\ Framed(s, c)[Len(s) + 4] = hex_to_str(<<c>>)[2]
<1> DEFINE h == hex_to_str(<<c>>)
           n == Len(s)
           p == <<36>> \o s
           q == p \o <<35>>
           r == q \o h
<1>1. h \in Seq(Octet) /\ Len(h) = 2
  BY ChecksumDigits
<1>2. n \in Nat /\ Len(s) = n
  OBVIOUS
<1>3. /\ <<36>> \in Seq(Octet) /\ Len(<<36>>) = 1 /\ <<36>>[1] = 36
      /\ <<35>> \in Seq(Octet) /\ Len(<<35>>) = 1 /\ <<35>>[1] = 35
  BY DEF Octet
<1>4. Framed(s, c) = r
  BY DEF Framed
<1> HIDE DEF h, n
<1>5. /\ p \in Seq(Octet) /\ Len(p) = n + 1
      /\ \A i \in 1 .. n + 1 : p[i] = IF i <= 1 THEN 36 ELSE s[i - 1]
  <2>1. /\ p \in Seq(Octet) /\ Len(p) = 1 + n
        /\ \A i \in 1 .. 1 + n : p[i] = IF i <= 1 THEN <<36>>[i] ELSE s[i - 1]
    BY <1>2, <1>3, Joined
  <2> HIDE DEF p
  <2>2. \A i \in 1 .. n + 1 : i \in 1 .. 1 + n /\ (i <= 1 => i = 1)
    BY <1>2
  <2>3. 1 + n = n + 1
    BY <1>2
  <2> QED
    BY <1>3, <2>1, <2>2, <2>3
<1> HIDE DEF p
<1>6. /\ q \in Seq(Octet) /\ Len(q) = n + 2
      /\ \A i \in 1 .. n + 2 : q[i] = IF i <= n + 1 THEN p[i] ELSE 35
  <2>1. /\ q \in Seq(Octet) /\ Len(q) = n + 1 + 1
        /\ \A i \in 1 .. n + 1 + 1 : q[i] = IF i <= n + 1 THEN p[i] ELSE <<35>>[i - (n + 1)]
    BY <1>3, <1>5, Joined
  <2> HIDE DEF q
  <2>2. n + 1 + 1 = n + 2 /\ \A i \in 1 .. n + 2 : ~(i <= n + 1) => i - (n + 1) = 1
    BY <1>2
  <2> QED
    BY <1>3, <2>1, <2>2
<1> HIDE DEF q
<1>7. /\ r \in Seq(Octet) /\ Len(r) = n + 4
      /\ \A i \in 1 .. n + 4 : r[i] = IF i <= n + 2 THEN q[i] ELSE h[i - (n + 2)]
  <2>1. /\ r \in Seq(Octet) /\ Len(r) = n + 2 + 2
        /\ \A i \in 1 .. n + 2 + 2 : r[i] = IF i <= n + 2 THEN q[i] ELSE h[i - (n + 2)]
    <3>1. q \in Seq(Octet) /\ h \in Seq(Octet) /\ Len(q) = n + 2 /\ Len(h) = 2
      BY <1>1, <1>6
    <3>2. /\ r \in Seq(Octet) /\ Len(r) = Len(q) + Len(h)
          /\ \A i \in 1 .. Len(q) + Len(h) :
                r[i] = IF i <= Len(q) THEN q[i] ELSE h[i - Len(q)]
      BY ONLY <3>1, Joined
    <3> HIDE DEF r
    <3> QED
      BY ONLY <3>1, <3>2
  <2> HIDE DEF r
  <2>2. n + 2 + 2 = n + 4
    BY <1>2
  <2> QED
    BY <2>1, <2>2
<1> HIDE DEF r
<1>8. r[1] = 36
  <2>1. 1 \in 1 .. n + 4 /\ 1 <= n + 2 /\ 1 \in 1 .. n + 2 /\ 1 <= n + 1 /\ 1 \in 1 .. n + 1 /\ 1 <= 1
    BY <1>2
  <2> QED
    BY <1>5, <1>6, <1>7, <2>1
<1>9. r[n + 2] = 35
  <2>1. n + 2 \in 1 .. n + 4 /\ n + 2 <= n + 2 /\ n + 2 \in 1 .. n + 2 /\ ~(n + 2 <= n + 1)
    BY <1>2
  <2> QED
    BY <1>6, <1>7, <2>1
<1>10. ASSUME NEW i \in 1 .. n PROVE r[i + 1] = s[i]
  <2>1. /\ i + 1 \in 1 .. n + 4 /\ i + 1 <= n + 2 /\ i + 1 \in 1 .. n + 2 /\ i + 1 <= n + 1
        /\ i + 1 \in 1 .. n + 1 /\ ~(i + 1 <= 1) /\ i + 1 - 1 = i
    BY <1>2
  <2>2. r[i + 1] = q[i + 1] /\ q[i + 1] = p[i + 1] /\ p[i + 1] = s[i + 1 - 1]
    BY <1>5, <1>6, <1>7, <2>1
  <2> QED
    BY <2>1, <2>2
<1>11. r[n + 3] = h[1] /\ r[n + 4] = h[2]
  <2>1. /\ n + 3 \in 1 .. n + 4 /\ ~(n + 3 <= n + 2) /\ (n + 3) - (n + 2) = 1
        /\ n + 4 \in 1 .. n + 4 /\ ~(n + 4 <= n + 2) /\ (n + 4) - (n + 2) = 2
    BY <1>2
  <2>2. \A i \in 1 .. n + 4 : ~(i <= n + 2) => r[i] = h[i - (n + 2)]
    BY <1>7
  <2>3. r[n + 3] = h[(n + 3) - (n + 2)]
    BY ONLY <2>1, <2>2, Zenon
  <2>4. r[n + 4] = h[(n + 4) - (n + 2)]
    BY ONLY <2>1, <2>2, Zenon
  <2> QED
    BY ONLY <2>1, <2>3, <2>4, Zenon
<1> QED
  BY <1>2, <1>4, <1>7, <1>8, <1>9, <1>10, <1>11 DEF h

\* packet_csum_verify compares the checksum of the text with the two digits.
LEMMA VerifyFramed ==
  ASSUME NEW s \in Seq(Octet), NEW c \in Octet
  PROVE  packet_csum_verify(Framed(s, c)) <=> compute_checksum(s) = c
<1> DEFINE p == Framed(s, c)
           n == Len(s)
           h == hex_to_str(<<c>>)
           text == SubSeq(p, 1 + 1, 1 + n)
           digits == SubSeq(p, (n + 2) + 1, (n + 2) + 2)
<1>1. /\ n \in Nat /\ p \in Seq(Octet) /\ Len(p) = n + 4
      /\ \A i \in 1 .. n : p[i + 1] = s[i]
      /\ p[n + 3] = h[1] /\ p[n + 4] = h[2]
  <2>1. n \in Nat
    OBVIOUS
  <2>2. /\ p \in Seq(Octet) /\ Len(p) = n + 4
        /\ \A i \in 1 .. n : p[i + 1] = s[i]
        /\ p[n + 3] = h[1] /\ p[n + 4] = h[2]
    BY FramedAt, Zenon
  <2> QED
    BY ONLY <2>1, <2>2, Zenon
<1>2. 16 * char_to_hex(h[1]) + char_to_hex(h[2]) = c
  BY ChecksumDigits
<1>3. Len(s) = n
  OBVIOUS
<1> HIDE DEF n, p, h
<1>4. text = s
  <2>1. 1 + n <= Len(p) /\ 1 \in Nat /\ n \in Nat
    BY <1>1
  <2>2. text \in Seq(Octet) /\ Len(text) = n /\ \A i \in 1 .. n : text[i] = p[1 + i]
    BY <1>1, <2>1, WindowOf
  <2>3. \A i \in 1 .. n : 1 + i = i + 1
    BY <1>1
  <2> HIDE DEF text
  <2>4. \A i \in 1 .. n : text[i] = s[i]
    BY ONLY <1>1, <2>2, <2>3, Zenon
  <2>5. Len(s) = Len(text)
    BY ONLY <1>3, <2>2
  <2>6. \A i \in 1 .. Len(text) : text[i] = s[i]
    BY ONLY <2>2, <2>4, Zenon
  <2> QED
    BY ONLY s \in Seq(Octet), <2>2, <2>5, <2>6, SeqEqual
<1>5. digits[1] = h[1] /\ digits[2] = h[2]
  <2>1. (n + 2) + 2 <= Len(p) /\ n + 2 \in Nat /\ 2 \in Nat /\ 1 \in 1 .. 2 /\ 2 \in 1 .. 2
    BY <1>1
  <2>2. \A i \in 1 .. 2 : digits[i] = p[(n + 2) + i]
    BY <1>1, <2>1, WindowOf
  <2>3. (n + 2) + 1 = n + 3 /\ (n + 2) + 2 = n + 4
    BY <1>1
  <2> HIDE DEF digits
  <2> QED
    BY <1>1, <2>1, <2>2, <2>3
<1>6. /\ SubSeq(p, 2, Len(p) - CSUM_SIZE - 1) = text
      /\ SubSeq(p, Len(p) - CSUM_SIZE + 1, Len(p)) = digits
  <2>1. /\ Len(p) - CSUM_SIZE - 1 = 1 + n /\ 2 = 1 + 1
        /\ Len(p) - CSUM_SIZE + 1 = (n + 2) + 1 /\ Len(p) = (n + 2) + 2
    BY <1>1 DEF CSUM_SIZE
  <2> QED
    BY <2>1
<1> HIDE DEF text, digits
<1>7. str_to_hex(digits, 1)[1] = 16 * char_to_hex(digits[1]) + char_to_hex(digits[2])
  <2>1. 1 \in 1 .. 1 /\ 2 * 1 - 1 = 1 /\ 2 * 1 = 2
    OBVIOUS
  <2> QED
    BY <2>1 DEF str_to_hex
<1>8. str_to_hex(digits, 1)[1] = c
  BY <1>2, <1>5, <1>7
<1>9. packet_csum_verify(p) <=> compute_checksum(s) = c
  BY <1>4, <1>6, <1>8 DEF packet_csum_verify
<1> QED
  BY <1>9 DEF p

\* conn_send_pktstr and packet_csum_verify: the receiver of a packet finds its
\* checksum right; and whichever character of the text arrives changed, and to
\* whatever other byte, it finds the checksum wrong.
THEOREM ChecksumGuardsText ==
  ASSUME NEW s \in Seq(Octet)
  PROVE  /\ packet_csum_verify(Frame(s))
         /\ \A k \in 1 .. Len(s) : \A b \in Octet \ {s[k]} :
              ~packet_csum_verify([Frame(s) EXCEPT ![k + 1] = b])
<1> DEFINE c == compute_checksum(s)
<1>1. c \in Octet
  <2>1. PICK f : f \in Running(s, Len(s)) /\ c = f[Len(s)]
    BY ChecksumRuns
  <2>2. Len(s) \in 0 .. Len(s)
    OBVIOUS
  <2> HIDE DEF c
  <2> QED
    BY <2>1, <2>2 DEF Running
<1>2. Frame(s) = Framed(s, c)
  BY DEF Frame, Framed
<1>3. packet_csum_verify(Frame(s))
  <2> HIDE DEF c
  <2>1. packet_csum_verify(Framed(s, c)) <=> compute_checksum(s) = c
    BY <1>1, VerifyFramed
  <2> QED
    BY <1>2, <2>1 DEF c
<1>4. ASSUME NEW k \in 1 .. Len(s), NEW b \in Octet \ {s[k]}
      PROVE  ~packet_csum_verify([Frame(s) EXCEPT ![k + 1] = b])
  <2> DEFINE n == Len(s)
             t == [s EXCEPT ![k] = b]
             p == Framed(s, c)
             q == Framed(t, c)
             w == [p EXCEPT ![k + 1] = b]
  <2>1. /\ n \in Nat /\ k \in 1 .. n /\ b \in Octet
        /\ t \in Seq(Octet) /\ Len(t) = n /\ t[k] = b
        /\ \A i \in 1 .. n : i # k => t[i] = s[i]
    OBVIOUS
  <2> HIDE DEF c, t
  <2>2. /\ p \in Seq(Octet) /\ Len(p) = n + 4 /\ p[1] = 36 /\ p[n + 2] = 35
        /\ \A i \in 1 .. n : p[i + 1] = s[i]
        /\ p[n + 3] = hex_to_str(<<c>>)[1] /\ p[n + 4] = hex_to_str(<<c>>)[2]
    BY <1>1, FramedAt
  <2>3. /\ q \in Seq(Octet) /\ Len(q) = n + 4 /\ q[1] = 36 /\ q[n + 2] = 35
        /\ \A i \in 1 .. n : q[i + 1] = t[i]
        /\ q[n + 3] = hex_to_str(<<c>>)[1] /\ q[n + 4] = hex_to_str(<<c>>)[2]
    <3>1. t \in Seq(Octet) /\ c \in Octet /\ Len(t) = n
      BY <1>1, <2>1
    <3>2. /\ q \in Seq(Octet) /\ Len(q) = Len(t) + 4 /\ q[1] = 36 /\ q[Len(t) + 2] = 35
          /\ \A i \in 1 .. Len(t) : q[i + 1] = t[i]
          /\ q[Len(t) + 3] = hex_to_str(<<c>>)[1] /\ q[Len(t) + 4] = hex_to_str(<<c>>)[2]
      BY ONLY <3>1, FramedAt, Zenon
    <3> HIDE DEF n, q
    <3> QED
      BY ONLY <3>1, <3>2, Zenon
  <2> HIDE DEF n, p, q
  <2>4. w \in Seq(Octet) /\ Len(w) = n + 4 /\ \A i \in 1 .. n + 4 : w[i] = IF i = k + 1 THEN b ELSE p[i]
    BY <2>1, <2>2
  <2> HIDE DEF w
  <2>5. w = q
    <3>1. ASSUME NEW i \in 1 .. n + 4 PROVE w[i] = q[i]
      <4>1. i = 1 \/ (\E j \in 1 .. n : i = j + 1) \/ i = n + 2 \/ i = n + 3 \/ i = n + 4
        <5>1. i = 1 \/ i - 1 \in 1 .. n \/ i = n + 2 \/ i = n + 3 \/ i = n + 4
          BY <2>1
        <5>2. i = (i - 1) + 1
          OBVIOUS
        <5> QED
          BY <5>1, <5>2
      <4>2. CASE \E j \in 1 .. n : i = j + 1
        <5>1. PICK j \in 1 .. n : i = j + 1
          BY <4>2
        <5>2. q[i] = t[j] /\ p[i] = s[j] /\ (i = k + 1 <=> j = k)
          BY <2>1, <2>2, <2>3, <5>1
        <5> QED
          BY <2>1, <2>4, <5>2
      <4>3. CASE i = 1 \/ i = n + 2 \/ i = n + 3 \/ i = n + 4
        <5>1. i # k + 1
          BY <2>1, <4>3
        <5>2. w[i] = p[i]
          BY <2>4, <5>1
        <5> QED
          BY <2>2, <2>3, <4>3, <5>2
      <4> QED
        BY <4>1, <4>2, <4>3
    <3> QED
      BY <2>3, <2>4, <3>1, SeqEqual
  <2>6. packet_csum_verify(q) <=> compute_checksum(t) = c
    BY <1>1, <2>1, VerifyFramed DEF q
  <2>7. compute_checksum(t) # c
    <3>1. PICK a \in Octet : a = s[k]
      BY <2>1
    <3>2. compute_checksum(t) = (c + (256 + b - a)) % 256
      <4>1. compute_checksum(t) = (compute_checksum(s) + (256 + t[k] - s[k])) % 256
        BY <2>1, ChecksumShift DEF n
      <4> QED
        BY <2>1, <3>1, <4>1 DEF c
    <3>3. (c + (256 + b - a)) % 256 # c
      <4>1. a # b /\ a \in Octet /\ b \in Octet /\ c \in Octet
        BY <1>1, <2>1, <3>1
      <4> QED
        BY ONLY <4>1, ByteDiffers, Zenon
    <3> QED
      BY <3>2, <3>3
  <2>8. [Frame(s) EXCEPT ![k + 1] = b] = w
    BY <1>2 DEF w, p
  <2> QED
    BY <2>5, <2>6, <2>7, <2>8
<1> QED
  BY <1>3, <1>4

\* The same for what a handler sends: an answer that is a string is guarded by
\* its checksum, in every state.
LEMMA AnswersGuarded ==
  ASSUME reply \in Seq(Char)
  PROVE  ChangedByteNoticed
<1> DEFINE s == reply
<1>1. s \in Seq(Octet)
  <2>1. Char \subseteq Octet
    BY DEF Char, Octet
  <2> QED
    BY <2>1, SeqMonotonic
<1>2. DOMAIN s = 1 .. Len(s)
  BY <1>1, LenProperties
<1>3. packet_csum_verify(Frame(s))
  BY <1>1, ChecksumGuardsText
<1>4. ASSUME NEW k \in DOMAIN s, NEW d \in {1, 16}
      PROVE  ~packet_csum_verify([Frame(s) EXCEPT ![k + 1] = (@ + d) % 256])
  <2>1. k \in 1 .. Len(s)
    BY <1>2
  <2>2. PICK a \in Octet : a = s[k]
    BY <1>1, <2>1
  <2>3. (a + d) % 256 \in Octet \ {a}
    BY DEF Octet
  <2>4. compute_checksum(s) \in Octet
    <3>1. PICK f : f \in Running(s, Len(s)) /\ compute_checksum(s) = f[Len(s)]
      BY <1>1, ChecksumRuns
    <3>2. Len(s) \in 0 .. Len(s)
      BY <1>1
    <3> QED
      BY <3>1, <3>2 DEF Running
  <2>5. Frame(s)[k + 1] = a
    <3>1. Frame(s) = Framed(s, compute_checksum(s))
      BY DEF Frame, Framed
    <3>2. \A i \in 1 .. Len(s) : Framed(s, compute_checksum(s))[i + 1] = s[i]
      BY ONLY <1>1, <2>4, FramedAt, Zenon
    <3> QED
      BY ONLY <2>1, <2>2, <3>1, <3>2, Zenon
  <2>6. \A b \in Octet \ {s[k]} : ~packet_csum_verify([Frame(s) EXCEPT ![k + 1] = b])
    BY <1>1, <2>1, ChecksumGuardsText
  <2>7. ~packet_csum_verify([Frame(s) EXCEPT ![k + 1] = (a + d) % 256])
    BY <2>2, <2>3, <2>6
  <2> QED
    BY <2>5, <2>7
<1> QED
  BY <1>3, <1>4 DEF ChangedByteNoticed

----------------------------------------------------------------------------
\* Loops, and sequences put together

\* The runs of a loop of n steps over values of S, from x with step i as h[i]
Loops(n, S, x, h) ==
    {f \in [0 .. n -> S] : f[0] = x /\ \A i \in 1 .. n : f[i] = h[i][f[i - 1]]}

\* Every loop has a run.
LEMMA LoopExists ==
  ASSUME NEW n \in Nat, NEW S, NEW x \in S, NEW h \in [1 .. n -> [S -> S]]
  PROVE  Loops(n, S, x, h) # {}
<1> DEFINE Runs(k) == {f \in [0 .. k -> S] : f[0] = x /\ \A i \in 1 .. k : f[i] = h[i][f[i - 1]]}
           T == {k \in 0 .. n : Runs(k) # {}}
<1>1. 0 \in T
  <2>1. [i \in 0 .. 0 |-> x] \in Runs(0)
    OBVIOUS
  <2> QED
    BY <2>1
<1>2. ASSUME NEW k \in 0 .. n - 1, k \in T PROVE k + 1 \in T
  <2>1. PICK f \in [0 .. k -> S] : f[0] = x /\ \A i \in 1 .. k : f[i] = h[i][f[i - 1]]
    BY <1>2
  <2>2. k \in Nat /\ k + 1 \in 1 .. n /\ k \in 0 .. k
    OBVIOUS
  <2> DEFINE y == h[k + 1][f[k]]
             g == [i \in 0 .. k + 1 |-> IF i = k + 1 THEN y ELSE f[i]]
  <2>3. y \in S
    BY <2>1, <2>2
  <2>4. g \in [0 .. k + 1 -> S] /\ g[0] = x
    BY <2>1, <2>2, <2>3
  <2>5. ASSUME NEW i \in 1 .. k + 1 PROVE g[i] = h[i][g[i - 1]]
    <3>1. i - 1 \in 0 .. k /\ i - 1 # k + 1 /\ i - 1 \in 0 .. k + 1 /\ g[i - 1] = f[i - 1]
      BY <2>2
    <3>2. CASE i = k + 1
      BY <2>2, <3>1, <3>2
    <3>3. CASE i # k + 1
      <4>1. i \in 1 .. k
        BY <2>2, <3>3
      <4> QED
        BY <2>1, <3>1, <3>3, <4>1
    <3> QED
      BY <3>2, <3>3
  <2> HIDE DEF g
  <2>6. g \in Runs(k + 1)
    BY <2>4, <2>5
  <2>7. k + 1 \in 0 .. n
    BY ONLY <2>2, n \in Nat
  <2> HIDE DEF Runs
  <2> QED
    BY ONLY <2>6, <2>7
<1>3. n \in T
  <2>1. \A i \in 0 .. n : i \in T
    <3> HIDE DEF T
    <3> QED
      BY <1>1, <1>2, UpTo
  <2> QED
    BY <2>1
<1> QED
  BY <1>3 DEF Loops

\* What FlattenSeq computes
LEMMA Flattened ==
  ASSUME NEW S, NEW seqs \in Seq(Seq(S))
  PROVE  \E f \in [0 .. Len(seqs) -> Seq(S)] :
            /\ f[0] = <<>> /\ \A i \in 1 .. Len(seqs) : f[i] = f[i - 1] \o seqs[i]
            /\ FlattenSeq(seqs) = f[Len(seqs)]
<1> DEFINE n == Len(seqs)
           Q == Seq(S)
           G(u) == [i \in 1 .. n |-> IF i = 1 THEN seqs[i] ELSE u[i - 1] \o seqs[i]]
           v == CHOOSE u : u = G(u)
           h == [i \in 1 .. n |-> [t \in Q |-> t \o seqs[i]]]
<1>1. n \in Nat /\ \A i \in 1 .. n : seqs[i] \in Q
  OBVIOUS
<1>2. FlattenSeq(seqs) = IF n = 0 THEN seqs ELSE v[n]
  BY DEF FlattenSeq
<1>3. n = 0 => seqs = <<>>
  OBVIOUS
<1>4. /\ <<>> \in Q /\ \A t \in Q : <<>> \o t = t
      /\ \A s, t \in Q : s \o t \in Q
  BY ConcatProperties
<1> HIDE DEF n, Q
<1>5. h \in [1 .. n -> [Q -> Q]]
  BY <1>1, <1>4
<1>6. \A i \in 1 .. n : \A t \in Q : h[i][t] = t \o seqs[i]
  OBVIOUS
<1> HIDE DEF h
<1>7. PICK f \in [0 .. n -> Q] : f[0] = <<>> /\ \A i \in 1 .. n : f[i] = h[i][f[i - 1]]
  <2>1. n \in Nat
    BY <1>1
  <2>2. <<>> \in Q
    BY <1>4
  <2>3. Loops(n, Q, <<>>, h) # {}
    BY ONLY <1>5, <2>1, <2>2, LoopExists
  <2> QED
    BY <2>3 DEF Loops
<1>8. ASSUME NEW i \in 1 .. n
      PROVE  f[i - 1] \in Q /\ f[i] \in Q /\ f[i] = f[i - 1] \o seqs[i]
  <2>1. i - 1 \in 0 .. n /\ i \in 0 .. n
    BY <1>1
  <2> QED
    BY <1>6, <1>7, <2>1
<1>9. CASE n = 0
  BY <1>2, <1>3, <1>7, <1>8, <1>9 DEF n, Q
<1>10. CASE n # 0
  <2> DEFINE w == [i \in 1 .. n |-> f[i]]
  <2>1. ASSUME NEW i \in 1 .. n PROVE w[i] = IF i = 1 THEN seqs[i] ELSE w[i - 1] \o seqs[i]
    <3>1. CASE i = 1
      <4>1. f[1] = <<>> \o seqs[1]
        BY <1>7, <1>8, <3>1, 1 - 1 = 0
      <4> QED
        BY <1>1, <1>4, <3>1, <4>1
    <3>2. CASE i # 1
      <4>1. i - 1 \in 1 .. n
        BY <1>1, <3>2
      <4> QED
        BY <1>8, <3>2, <4>1
    <3> QED
      BY <3>1, <3>2
  <2>2. w = G(w)
    BY <2>1
  <2> HIDE DEF w
  <2>3. v = G(v)
    BY <2>2
  <2> HIDE DEF v
  <2>4. \A i \in 1 .. n : v[i] = IF i = 1 THEN seqs[i] ELSE v[i - 1] \o seqs[i]
    BY <2>3
  <2> DEFINE T == {i \in 0 .. n : i = 0 \/ v[i] = f[i]}
  <2>5. 0 \in T
    BY <1>1
  <2>6. ASSUME NEW i \in 0 .. n - 1, i \in T PROVE i + 1 \in T
    <3>1. i + 1 \in 1 .. n /\ i + 1 \in 0 .. n /\ (i + 1) - 1 = i /\ i \in 0 .. n
      BY <1>1
    <3>2. f[i + 1] = f[i] \o seqs[i + 1]
      <4>1. f[i + 1] = f[(i + 1) - 1] \o seqs[i + 1]
        BY <1>8, <3>1, Zenon
      <4> QED
        BY ONLY <3>1, <4>1
    <3>3. CASE i = 0
      <4>1. v[1] = seqs[1] /\ seqs[1] \in Q
        BY <1>1, <2>4, <3>1, <3>3
      <4>2. f[1] = <<>> \o seqs[1]
        BY <1>7, <3>2, <3>3, 0 + 1 = 1
      <4> QED
        BY <1>4, <3>1, <3>3, <4>1, <4>2
    <3>4. CASE i # 0
      <4>1. i + 1 # 1 /\ v[i] = f[i]
        BY <2>6, <3>1, <3>4
      <4> QED
        <5>1. v[i + 1] = v[(i + 1) - 1] \o seqs[i + 1]
          BY ONLY <2>4, <3>1, <4>1, Zenon
        <5>2. v[i + 1] = f[i + 1]
          BY ONLY <3>1, <3>2, <4>1, <5>1
        <5> QED
          BY <3>1, <5>2
    <3> QED
      BY <3>3, <3>4
  <2>7. v[n] = f[n]
    <3>1. \A i \in 0 .. n : i \in T
      <4> HIDE DEF T
      <4> QED
        BY <1>1, <2>5, <2>6, UpTo
    <3> QED
      BY <1>1, <1>10, <3>1
  <2> QED
    BY <1>2, <1>7, <1>8, <1>10, <2>7 DEF n, Q
<1> QED
  BY <1>9, <1>10

\* Where its pieces lie in a flattened sequence
LEMMA FlattenAt ==
  ASSUME NEW S, NEW seqs \in Seq(Seq(S))
  PROVE  /\ FlattenSeq(seqs) \in Seq(S)
         /\ \E off \in [0 .. Len(seqs) -> Nat] :
              /\ off[0] = 0 /\ Len(FlattenSeq(seqs)) = off[Len(seqs)]
              /\ \A i \in 1 .. Len(seqs) : off[i] = off[i - 1] + Len(seqs[i])
              /\ \A i \in 0 .. Len(seqs) : off[i] <= Len(FlattenSeq(seqs))
              /\ \A i \in 1 .. Len(seqs) : \A k \in 1 .. Len(seqs[i]) :
                    FlattenSeq(seqs)[off[i - 1] + k] = seqs[i][k]
<1> DEFINE n == Len(seqs)
           Q == Seq(S)
<1>1. PICK f \in [0 .. n -> Q] :
         /\ f[0] = <<>> /\ \A i \in 1 .. n : f[i] = f[i - 1] \o seqs[i]
         /\ FlattenSeq(seqs) = f[n]
  BY Flattened
<1>2. n \in Nat /\ \A i \in 1 .. n : seqs[i] \in Q
  OBVIOUS
<1>3. /\ \A t \in Q : Len(t) \in Nat
      /\ Len(<<>>) = 0
      /\ \A s, t \in Q : /\ Len(s \o t) = Len(s) + Len(t)
                          /\ \A i \in 1 .. Len(s) + Len(t) :
                                (s \o t)[i] = IF i <= Len(s) THEN s[i] ELSE t[i - Len(s)]
  BY Joined
<1> HIDE DEF n, Q
<1> DEFINE off == [i \in 0 .. n |-> Len(f[i])]
           T == {j \in 0 .. n : \A i \in 1 .. j :
                   /\ off[i] <= off[j]
                   /\ \A k \in 1 .. Len(seqs[i]) : f[j][off[i - 1] + k] = seqs[i][k]}
<1>4. off \in [0 .. n -> Nat] /\ off[0] = 0 /\ \A i \in 0 .. n : f[i] \in Q /\ Len(f[i]) = off[i]
  BY <1>1, <1>2, <1>3
<1> HIDE DEF off
<1>5. ASSUME NEW i \in 1 .. n
      PROVE  /\ i - 1 \in 0 .. n /\ f[i] = f[i - 1] \o seqs[i]
             /\ Len(seqs[i]) \in Nat /\ off[i] = off[i - 1] + Len(seqs[i])
             /\ off[i] \in Nat /\ off[i - 1] \in Nat
  <2>1. i - 1 \in 0 .. n /\ i \in 0 .. n
    BY <1>2
  <2>2. f[i] = f[i - 1] \o seqs[i] /\ f[i - 1] \in Q /\ seqs[i] \in Q
    BY <1>1, <1>2, <1>4, <2>1
  <2>3. Len(f[i - 1] \o seqs[i]) = Len(f[i - 1]) + Len(seqs[i]) /\ Len(seqs[i]) \in Nat
    BY ONLY <1>3, <2>2, Zenon
  <2>4. Len(f[i]) = Len(f[i - 1]) + Len(seqs[i])
    BY ONLY <2>2, <2>3, Zenon
  <2>5. off[i] = Len(f[i]) /\ off[i - 1] = Len(f[i - 1]) /\ off[i] \in Nat /\ off[i - 1] \in Nat
    BY <1>4, <2>1
  <2>6. off[i] = off[i - 1] + Len(seqs[i])
    BY ONLY <2>4, <2>5, Zenon
  <2> QED
    BY ONLY <2>1, <2>2, <2>3, <2>5, <2>6, Zenon
<1>6. 0 \in T
  BY <1>2
<1>7. ASSUME NEW j \in 0 .. n - 1, j \in T PROVE j + 1 \in T
  <2>1. j + 1 \in 1 .. n /\ j + 1 \in 0 .. n /\ (j + 1) - 1 = j /\ j \in 0 .. n
    BY <1>2
  <2>2. /\ f[j + 1] = f[j] \o seqs[j + 1] /\ off[j + 1] = off[j] + Len(seqs[j + 1])
        /\ off[j] \in Nat /\ Len(seqs[j + 1]) \in Nat
    <3>1. /\ f[j + 1] = f[(j + 1) - 1] \o seqs[j + 1]
          /\ off[j + 1] = off[(j + 1) - 1] + Len(seqs[j + 1])
          /\ off[(j + 1) - 1] \in Nat /\ Len(seqs[j + 1]) \in Nat
      BY <1>5, <2>1, Zenon
    <3> QED
      BY ONLY <2>1, <3>1
  <2>3. /\ f[j] \in Q /\ Len(f[j]) = off[j] /\ seqs[j + 1] \in Q
    BY <1>2, <1>4, <2>1
  <2>4. \A i \in 1 .. off[j] + Len(seqs[j + 1]) :
           f[j + 1][i] = IF i <= off[j] THEN f[j][i] ELSE seqs[j + 1][i - off[j]]
    <3>1. \A i \in 1 .. Len(f[j]) + Len(seqs[j + 1]) :
             (f[j] \o seqs[j + 1])[i] = IF i <= Len(f[j]) THEN f[j][i]
                                        ELSE seqs[j + 1][i - Len(f[j])]
      BY ONLY <1>3, <2>3, Zenon
    <3>2. f[j + 1] = f[j] \o seqs[j + 1] /\ Len(f[j]) = off[j]
      BY <2>2, <2>3
    <3> QED
      BY ONLY <3>1, <3>2, Zenon
  <2>5. ASSUME NEW i \in 1 .. j + 1
        PROVE  /\ off[i] <= off[j + 1]
               /\ \A k \in 1 .. Len(seqs[i]) : f[j + 1][off[i - 1] + k] = seqs[i][k]
    <3>1. CASE i = j + 1
      <4>1. off[i - 1] = off[j] /\ off[i] = off[j + 1] /\ seqs[i] = seqs[j + 1]
        BY <2>1, <3>1
      <4>2. ASSUME NEW k \in 1 .. Len(seqs[j + 1])
            PROVE f[j + 1][off[j] + k] = seqs[j + 1][k]
        <5>1. /\ off[j] + k \in 1 .. off[j] + Len(seqs[j + 1])
              /\ ~(off[j] + k <= off[j]) /\ (off[j] + k) - off[j] = k
          BY <2>2
        <5> QED
          BY <2>4, <5>1
      <4>3. off[j + 1] <= off[j + 1]
        BY <2>2
      <4> QED
        BY ONLY <4>1, <4>2, <4>3, Zenon
    <3>2. CASE i # j + 1
      <4>1. i \in 1 .. j /\ i \in 1 .. n
        BY <1>2, <3>2
      <4>2. /\ off[i] <= off[j] /\ off[i] \in Nat /\ off[i - 1] \in Nat
            /\ off[i] = off[i - 1] + Len(seqs[i]) /\ Len(seqs[i]) \in Nat
            /\ \A k \in 1 .. Len(seqs[i]) : f[j][off[i - 1] + k] = seqs[i][k]
        BY <1>5, <1>7, <4>1
      <4>3. \A a, b, l, m \in Nat : \A k \in 1 .. l :
               a + l <= b => a + k \in 1 .. b + m /\ a + k <= b
        OBVIOUS
      <4>4. ASSUME NEW k \in 1 .. Len(seqs[i]) PROVE f[j + 1][off[i - 1] + k] = seqs[i][k]
        <5>1. /\ off[i - 1] + k \in 1 .. off[j] + Len(seqs[j + 1])
              /\ off[i - 1] + k <= off[j]
          BY ONLY <2>2, <4>2, <4>3
        <5>2. f[j + 1][off[i - 1] + k] = f[j][off[i - 1] + k]
          BY ONLY <2>4, <5>1, Zenon
        <5>3. f[j][off[i - 1] + k] = seqs[i][k]
          BY <4>2, Zenon
        <5> QED
          BY ONLY <5>2, <5>3, Zenon
      <4>5. off[i] <= off[j + 1]
        BY ONLY <2>2, <4>2
      <4> QED
        BY ONLY <4>4, <4>5, Zenon
    <3> QED
      BY <3>1, <3>2
  <2> QED
    BY <2>1, <2>5
<1>8. \A j \in 0 .. n : j \in T
  <2> HIDE DEF T
  <2> QED
    BY <1>2, <1>6, <1>7, UpTo
<1>9. /\ n \in 0 .. n /\ off[n] = Len(f[n]) /\ off[n] \in Nat
      /\ \A i \in 1 .. n : off[i] <= off[n]
      /\ \A i \in 1 .. n : \A k \in 1 .. Len(seqs[i]) : f[n][off[i - 1] + k] = seqs[i][k]
  BY <1>2, <1>4, <1>8
<1>10. \A i \in 0 .. n : off[i] <= off[n]
  BY <1>4, <1>9
<1>11. f[n] \in Q
  BY <1>4, <1>9
<1> HIDE DEF T
<1>12. \A i \in 1 .. n : off[i] = off[i - 1] + Len(seqs[i])
  BY <1>5
<1> QED
  BY <1>1, <1>4, <1>9, <1>10, <1>11, <1>12 DEF n, Q

----------------------------------------------------------------------------
\* unescape, for every message

\* The state of the loop
Unescaping == [esc : BOOLEAN, w : Seq(Octet)]

\* Flipping a bit twice
LEMMA Flipped ==
  ASSUME NEW b \in Octet
  PROVE  FlipBit5(b) \in Octet /\ FlipBit5(FlipBit5(b)) = b
BY DEF FlipBit5, Octet

\* The steps of the loop
LEMMA ReadCharStep ==
  ASSUME NEW s \in Unescaping, NEW ch \in Octet
  PROVE  ReadChar(s, ch) \in Unescaping
<1>1. FlipBit5(ch) \in Octet
  BY Flipped
<1> QED
  BY <1>1 DEF ReadChar, Unescaping

\* The loop of unescape runs over the message, character by character.
LEMMA UnescapeRuns ==
  ASSUME NEW msg \in Seq(Octet)
  PROVE  \E f \in [0 .. Len(msg) -> Unescaping] :
            /\ f[0] = [esc |-> FALSE, w |-> <<>>]
            /\ \A i \in 1 .. Len(msg) : f[i] = ReadChar(f[i - 1], msg[i])
            /\ unescape(msg) = IF f[Len(msg)].esc THEN Append(f[Len(msg)].w, FlipBit5(0))
                               ELSE f[Len(msg)].w
<1> DEFINE n == Len(msg)
           x == [esc |-> FALSE, w |-> <<>>]
           G(u) == [i \in 0 .. n |-> IF i = 0 THEN x ELSE ReadChar(u[i - 1], msg[i])]
           v == CHOOSE u : u = G(u)
           h == [i \in 1 .. n |-> [s \in Unescaping |-> ReadChar(s, msg[i])]]
<1>1. n \in Nat /\ \A i \in 1 .. n : msg[i] \in Octet
  OBVIOUS
<1>2. unescape(msg) = IF v[n].esc THEN Append(v[n].w, FlipBit5(0)) ELSE v[n].w
  BY DEF unescape
<1>3. x \in Unescaping
  BY DEF Unescaping
<1> HIDE DEF n, x
<1>4. h \in [1 .. n -> [Unescaping -> Unescaping]]
  BY <1>1, ReadCharStep
<1>5. \A i \in 1 .. n : \A s \in Unescaping : h[i][s] = ReadChar(s, msg[i])
  OBVIOUS
<1> HIDE DEF h
<1>6. PICK f \in [0 .. n -> Unescaping] : f[0] = x /\ \A i \in 1 .. n : f[i] = h[i][f[i - 1]]
  <2>1. Loops(n, Unescaping, x, h) # {}
    BY ONLY <1>1, <1>3, <1>4, LoopExists
  <2> QED
    BY <2>1 DEF Loops
<1>7. ASSUME NEW i \in 1 .. n PROVE f[i] = ReadChar(f[i - 1], msg[i])
  <2>1. i - 1 \in 0 .. n
    BY <1>1
  <2> QED
    BY <1>5, <1>6, <2>1
<1>8. f = G(f)
  BY <1>1, <1>6, <1>7
<1>9. v = G(v)
  BY <1>8
<1> HIDE DEF v
<1>10. v[0] = x /\ \A i \in 1 .. n : v[i] = ReadChar(v[i - 1], msg[i])
  BY <1>1, <1>9
<1> DEFINE T == {i \in 0 .. n : v[i] = f[i]}
<1>11. \A i \in 0 .. n : i \in T
  <2>1. 0 \in T
    BY <1>1, <1>6, <1>10
  <2>2. ASSUME NEW i \in 0 .. n - 1, i \in T PROVE i + 1 \in T
    <3>1. i + 1 \in 1 .. n /\ i + 1 \in 0 .. n /\ (i + 1) - 1 = i
      BY <1>1
    <3>2. /\ v[i + 1] = ReadChar(v[(i + 1) - 1], msg[i + 1])
          /\ f[i + 1] = ReadChar(f[(i + 1) - 1], msg[i + 1])
      BY <1>7, <1>10, <3>1, Zenon
    <3>3. v[i] = f[i]
      BY <2>2
    <3>4. v[i + 1] = f[i + 1]
      BY ONLY <3>1, <3>2, <3>3
    <3> QED
      BY <3>1, <3>4
  <2> HIDE DEF T
  <2> QED
    BY <1>1, <2>1, <2>2, UpTo
<1>12. v[n] = f[n]
  BY <1>1, <1>11
<1> QED
  BY <1>2, <1>6, <1>7, <1>12 DEF n, x

\* unescape undoes the escaping of the client, for data of any length.
THEOREM EscapeRoundTrip ==
  ASSUME NEW v \in Seq(Octet)
  PROVE  unescape(ClientEscape(v)) = v
<1> DEFINE n == Len(v)
           Special == {35, 36, 42, ESC}
           piece(b) == IF b \in Special THEN <<ESC, FlipBit5(b)>> ELSE <<b>>
           pieces == [k \in DOMAIN v |-> piece(v[k])]
           msg == ClientEscape(v)
<1>1. n \in Nat /\ DOMAIN v = 1 .. n /\ \A i \in 1 .. n : v[i] \in Octet
  OBVIOUS
<1>2. msg = FlattenSeq(pieces)
  BY DEF ClientEscape
<1>3. ASSUME NEW b \in Octet
      PROVE  /\ piece(b) \in Seq(Octet)
             /\ b \in Special => /\ Len(piece(b)) = 2 /\ piece(b)[1] = ESC
                                 /\ piece(b)[2] = FlipBit5(b)
             /\ b \notin Special => Len(piece(b)) = 1 /\ piece(b)[1] = b
  <2>1. ESC \in Octet
    BY DEF ESC, Octet
  <2>2. FlipBit5(b) \in Octet
    BY Flipped
  <2> QED
    BY <2>1, <2>2
<1> HIDE DEF piece, Special, n
<1>4. /\ pieces \in Seq(Seq(Octet)) /\ Len(pieces) = n
      /\ \A i \in 1 .. n : pieces[i] = piece(v[i])
  <2>1. pieces \in [1 .. n -> Seq(Octet)]
    BY <1>1, <1>3
  <2> QED
    BY <1>1, <2>1
<1> HIDE DEF pieces
<1>5. PICK off \in [0 .. n -> Nat] :
         /\ off[0] = 0 /\ Len(msg) = off[n]
         /\ \A i \in 1 .. n : off[i] = off[i - 1] + Len(pieces[i])
         /\ \A i \in 0 .. n : off[i] <= Len(msg)
         /\ \A i \in 1 .. n : \A k \in 1 .. Len(pieces[i]) : msg[off[i - 1] + k] = pieces[i][k]
  <2>1. \E off \in [0 .. Len(pieces) -> Nat] :
           /\ off[0] = 0 /\ Len(FlattenSeq(pieces)) = off[Len(pieces)]
           /\ \A i \in 1 .. Len(pieces) : off[i] = off[i - 1] + Len(pieces[i])
           /\ \A i \in 0 .. Len(pieces) : off[i] <= Len(FlattenSeq(pieces))
           /\ \A i \in 1 .. Len(pieces) : \A k \in 1 .. Len(pieces[i]) :
                 FlattenSeq(pieces)[off[i - 1] + k] = pieces[i][k]
    BY ONLY <1>4, FlattenAt, Zenon
  <2>2. Len(pieces) = n /\ FlattenSeq(pieces) = msg
    BY <1>2, <1>4
  <2> HIDE DEF msg
  <2> QED
    BY ONLY <2>1, <2>2
<1>6. msg \in Seq(Octet) /\ Len(msg) \in Nat
  BY <1>2, <1>4, FlattenAt
<1> HIDE DEF msg
<1>7. PICK f \in [0 .. Len(msg) -> Unescaping] :
         /\ f[0] = [esc |-> FALSE, w |-> <<>>]
         /\ \A i \in 1 .. Len(msg) : f[i] = ReadChar(f[i - 1], msg[i])
         /\ unescape(msg) = IF f[Len(msg)].esc THEN Append(f[Len(msg)].w, FlipBit5(0))
                            ELSE f[Len(msg)].w
  BY <1>6, UnescapeRuns
<1> DEFINE T == {i \in 0 .. n : \E w \in Seq(Octet) :
                   /\ Len(w) = i /\ \A k \in 1 .. i : w[k] = v[k]
                   /\ f[off[i]] = [esc |-> FALSE, w |-> w]}
<1>8. 0 \in T
  <2>1. <<>> \in Seq(Octet) /\ Len(<<>>) = 0 /\ 0 \in 0 .. n
    BY <1>1
  <2>2. f[off[0]] = [esc |-> FALSE, w |-> <<>>]
    BY <1>5, <1>7
  <2>3. \A k \in 1 .. 0 : <<>>[k] = v[k]
    OBVIOUS
  <2> QED
    BY ONLY <2>1, <2>2, <2>3, Zenon
<1>9. ASSUME NEW i \in 0 .. n - 1, i \in T PROVE i + 1 \in T
  <2>1. i + 1 \in 1 .. n /\ i + 1 \in 0 .. n /\ (i + 1) - 1 = i /\ i \in 0 .. n
    BY <1>1
  <2>2. PICK w \in Seq(Octet) :
           /\ Len(w) = i /\ \A k \in 1 .. i : w[k] = v[k]
           /\ f[off[i]] = [esc |-> FALSE, w |-> w]
    BY <1>9
  <2>3. PICK b \in Octet : b = v[i + 1]
    BY <1>1, <2>1
  <2>4. PICK a \in Nat : a = off[i]
    BY <1>5, <2>1
  <2>5. /\ off[i + 1] = a + Len(piece(b)) /\ off[i + 1] <= Len(msg)
        /\ \A k \in 1 .. Len(piece(b)) : msg[a + k] = piece(b)[k]
    <3>1. /\ off[i + 1] = off[(i + 1) - 1] + Len(pieces[i + 1]) /\ off[i + 1] <= Len(msg)
          /\ \A k \in 1 .. Len(pieces[i + 1]) : msg[off[(i + 1) - 1] + k] = pieces[i + 1][k]
      BY ONLY <1>5, <2>1, Zenon
    <3>2. pieces[i + 1] = piece(b) /\ off[(i + 1) - 1] = a
      BY <1>4, <2>1, <2>3, <2>4
    <3> QED
      BY ONLY <3>1, <3>2, Zenon
  <2>6. \A j \in 1 .. Len(msg) : f[j] = ReadChar(f[j - 1], msg[j])
    BY <1>7
  <2> DEFINE y == Append(w, b)
  <2>7. /\ y \in Seq(Octet) /\ Len(y) = i + 1 /\ y[i + 1] = b
        /\ \A k \in 1 .. i : y[k] = w[k]
    BY <2>1, <2>2, AppendProperties
  <2>8. f[off[i + 1]] = [esc |-> FALSE, w |-> y]
    <3>1. CASE b \in Special
      <4>1. /\ Len(piece(b)) = 2 /\ piece(b)[1] = ESC /\ piece(b)[2] = FlipBit5(b)
        BY <1>3, <3>1
      <4>2. /\ off[i + 1] = a + 2 /\ a + 1 \in 1 .. Len(msg) /\ a + 2 \in 1 .. Len(msg)
            /\ (a + 1) - 1 = a /\ (a + 2) - 1 = a + 1
        BY <1>6, <2>5, <4>1
      <4>3. msg[a + 1] = ESC /\ msg[a + 2] = FlipBit5(b)
        BY <2>5, <4>1
      <4>4. f[a + 1] = ReadChar(f[a], ESC) /\ f[a + 2] = ReadChar(f[a + 1], FlipBit5(b))
        <5>1. /\ f[a + 1] = ReadChar(f[(a + 1) - 1], msg[a + 1])
              /\ f[a + 2] = ReadChar(f[(a + 2) - 1], msg[a + 2])
          BY ONLY <2>6, <4>2, Zenon
        <5> QED
          BY ONLY <4>2, <4>3, <5>1
      <4>5. f[a + 1] = [esc |-> TRUE, w |-> w]
        BY <2>2, <2>4, <4>4 DEF ReadChar
      <4>6. FlipBit5(FlipBit5(b)) = b
        BY Flipped
      <4>7. f[a + 2] = [esc |-> FALSE, w |-> y]
        <5>1. ReadChar([esc |-> TRUE, w |-> w], FlipBit5(b))
                 = [esc |-> FALSE, w |-> Append(w, FlipBit5(FlipBit5(b)))]
          BY ONLY TRUE DEF ReadChar
        <5> QED
          BY ONLY <4>4, <4>5, <4>6, <5>1
      <4> QED
        BY <4>2, <4>7
    <3>2. CASE b \notin Special
      <4>1. /\ Len(piece(b)) = 1 /\ piece(b)[1] = b /\ b # ESC
        BY <1>3, <3>2 DEF Special
      <4>2. off[i + 1] = a + 1 /\ a + 1 \in 1 .. Len(msg) /\ (a + 1) - 1 = a
        BY <1>6, <2>5, <4>1
      <4>3. msg[a + 1] = b
        BY <2>5, <4>1
      <4>4. f[a + 1] = ReadChar(f[a], b)
        <5>1. f[a + 1] = ReadChar(f[(a + 1) - 1], msg[a + 1])
          BY ONLY <2>6, <4>2, Zenon
        <5> QED
          BY ONLY <4>2, <4>3, <5>1
      <4>5. f[a + 1] = [esc |-> FALSE, w |-> y]
        BY <2>2, <2>4, <4>1, <4>4 DEF ReadChar
      <4> QED
        BY <4>2, <4>5
    <3> QED
      BY <3>1, <3>2
  <2> HIDE DEF y
  <2>9. \A k \in 1 .. i + 1 : y[k] = v[k]
    <3> SUFFICES ASSUME NEW k \in 1 .. i + 1 PROVE y[k] = v[k]
      OBVIOUS
    <3>1. CASE k = i + 1
      BY ONLY <2>3, <2>7, <3>1, Zenon
    <3>2. CASE k # i + 1
      <4>1. k \in 1 .. i
        BY <2>1, <3>2
      <4> QED
        BY ONLY <2>2, <2>7, <4>1, Zenon
    <3> QED
      BY <3>1, <3>2
  <2> QED
    BY <2>1, <2>7, <2>8, <2>9
<1>10. n \in T
  <2>1. \A i \in 0 .. n : i \in T
    <3> HIDE DEF T
    <3> QED
      BY <1>1, <1>8, <1>9, UpTo
  <2>2. n \in 0 .. n
    BY <1>1
  <2> HIDE DEF T
  <2> QED
    BY ONLY <2>1, <2>2, Zenon
<1>11. PICK w \in Seq(Octet) :
          /\ Len(w) = n /\ \A k \in 1 .. n : w[k] = v[k]
          /\ f[off[n]] = [esc |-> FALSE, w |-> w]
  BY <1>10
<1>12. unescape(msg) = w
  BY <1>5, <1>7, <1>11
<1>13. w = v
  BY <1>11, SeqEqual DEF n
<1> QED
  BY <1>12, <1>13 DEF msg

----------------------------------------------------------------------------
\* Numbers

\* A function on 1 .. n is a sequence.
LEMMA AsSeq ==
  ASSUME NEW S, NEW n \in Nat, NEW f \in [1 .. n -> S]
  PROVE  f \in Seq(S) /\ Len(f) = n
OBVIOUS

\* The decimal digits of a number
LEMMA FourDigits ==
  ASSUME NEW n \in Nat
  PROVE  /\ \A k \in 1 .. 4 : Digits(n, 10)[k] \in 0 .. 9
         /\ n < 10000 => Value(Digits(n, 10), 10) = n
<1> DEFINE a == (n \div 1000) % 10
           b == (n \div 100) % 10
           c == (n \div 10) % 10
           d == n % 10
<1>1. a \in 0 .. 9 /\ b \in 0 .. 9 /\ c \in 0 .. 9 /\ d \in 0 .. 9
  OBVIOUS
<1>2. n < 10000 => 10 * (10 * (10 * a + b) + c) + d = n
  OBVIOUS
<1>3. Digits(n, 10) = <<a, b, c, d>>
  <2>1. /\ (n \div (10 * 10 * 10)) % 10 = a /\ (n \div (10 * 10)) % 10 = b
        /\ (n \div 10) % 10 = c /\ n % 10 = d
    OBVIOUS
  <2> HIDE DEF a, b, c, d
  <2> QED
    BY ONLY <2>1, Zenon DEF Digits
<1> HIDE DEF a, b, c, d
<1> QED
  BY <1>1, <1>2, <1>3 DEF Value

\* What GDB makes of the number of a CPU
Id(n) == Value(Digits(n, 10), 16)

\* process_set_cpu selects the CPU whose digits the client has been given,
\* although the client takes them for hexadecimal.
THEOREM ThreadRoundTrip ==
  ASSUME NEW n \in Nat, n < 10000
  PROVE  ScanCpu(Digits(Id(n), 16)) = n
<1> DEFINE D == Digits(n, 10)
<1>1. \A k \in 1 .. 4 : D[k] \in 0 .. 9
  BY FourDigits
<1>2. Value(D, 10) = n
  BY FourDigits
<1>3. Id(n) = Value(D, 16)
  BY DEF Id
<1> HIDE DEF D
<1>4. PICK a \in 0 .. 9 : a = D[1]
  BY <1>1
<1>5. PICK b \in 0 .. 9 : b = D[2]
  BY <1>1
<1>6. PICK c \in 0 .. 9 : c = D[3]
  BY <1>1
<1>7. PICK d \in 0 .. 9 : d = D[4]
  BY <1>1
<1>8. 10 * (10 * (10 * a + b) + c) + d = n
  BY <1>2, <1>4, <1>5, <1>6, <1>7 DEF Value
<1> DEFINE t == Id(n)
<1>9. t = 16 * (16 * (16 * a + b) + c) + d
  BY <1>3, <1>4, <1>5, <1>6, <1>7 DEF Value
<1> HIDE DEF t
<1>10. t = 4096 * a + 256 * b + 16 * c + d /\ t \in Nat
  BY <1>9
<1>11. t \div 4096 = a /\ t \div 256 = 16 * a + b /\ t \div 16 = 256 * a + 16 * b + c
  BY <1>10
<1>12. /\ (t \div (16 * 16 * 16)) % 16 = a /\ (t \div (16 * 16)) % 16 = b
       /\ (t \div 16) % 16 = c /\ t % 16 = d
  BY <1>10, <1>11
<1>13. Digits(t, 16) = <<a, b, c, d>>
  BY ONLY <1>12, Zenon DEF Digits
<1>14. Value(<<a, b, c, d>>, 10) = n
  BY <1>8 DEF Value
<1> QED
  BY <1>13, <1>14 DEF ScanCpu, t

\* The text of a number, as the client reads it
LEMMA NumberText ==
  ASSUME NEW n \in Nat
  PROVE  /\ Decimal(n, 4) \in Seq(Char) /\ Len(Decimal(n, 4)) = 4
         /\ \A k \in 1 .. 4 : Decimal(n, 4)[k] = 48 + Digits(n, 10)[k]
<1> DEFINE D == Digits(n, 10)
           t == Decimal(n, 4)
<1>1. \A k \in 1 .. 4 : D[k] \in 0 .. 9
  BY FourDigits
<1>2. t = [j \in 1 .. 4 |-> 48 + D[4 - 4 + j]]
  BY DEF Decimal
<1> HIDE DEF D, t
<1>3. \A k \in 1 .. 4 : t[k] = 48 + D[k]
  BY <1>2
<1>4. t \in [1 .. 4 -> Char]
  <2>1. ASSUME NEW k \in 1 .. 4 PROVE t[k] \in Char
    <3>1. PICK a \in 0 .. 9 : a = D[k]
      BY <1>1
    <3>2. t[k] = 48 + a
      BY <1>3, <3>1
    <3> QED
      BY <3>2 DEF Char
  <2> QED
    BY <1>2, <2>1
<1>5. t \in Seq(Char) /\ Len(t) = 4
  <2>1. 4 \in Nat
    OBVIOUS
  <2> QED
    BY ONLY <1>4, <2>1, AsSeq
<1> QED
  BY <1>3, <1>5 DEF t, D

\* An error's text
LEMMA ErrorText ==
  ASSUME NEW ret \in 1 .. 99
  PROVE  /\ ErrText(ret) \in Seq(Char)
         /\ Len(ErrText(ret)) = IF ret < 10 THEN 2 ELSE 3
         /\ ErrText(ret)[1] = 69
<1> DEFINE D == Digits(ret, 10)
           k == IF ret < 10 THEN 1 ELSE 2
           t == Decimal(ret, k)
           e == <<69>>
<1>1. \A i \in 1 .. 4 : D[i] \in 0 .. 9
  BY FourDigits
<1>2. t = [j \in 1 .. k |-> 48 + D[4 - k + j]]
  BY DEF Decimal
<1>3. ErrText(ret) = e \o t
  BY DEF ErrText
<1>4. k \in {1, 2} /\ k = IF ret < 10 THEN 1 ELSE 2
  OBVIOUS
<1> HIDE DEF t, D, k
<1>5. ASSUME NEW j \in 1 .. k PROVE t[j] \in Char
  <2>1. 4 - k + j \in 1 .. 4
    BY <1>4
  <2>2. PICK a \in 0 .. 9 : a = D[4 - k + j]
    BY <1>1, <2>1
  <2>3. t[j] = 48 + a
    BY <1>2, <2>2
  <2> QED
    BY <2>3 DEF Char
<1>6. t \in [1 .. k -> Char]
  BY <1>2, <1>5
<1>7. t \in Seq(Char) /\ Len(t) = k
  <2>1. k \in Nat
    BY <1>4
  <2> QED
    BY ONLY <1>6, <2>1, AsSeq
<1>8. e \in Seq(Char) /\ Len(e) = 1 /\ e[1] = 69
  <2>1. 69 \in Char
    BY DEF Char
  <2> QED
    BY <2>1
<1> HIDE DEF e
<1>9. /\ e \o t \in Seq(Char) /\ Len(e \o t) = Len(e) + Len(t)
      /\ \A i \in 1 .. Len(e) + Len(t) :
            (e \o t)[i] = IF i <= Len(e) THEN e[i] ELSE t[i - Len(e)]
  <2>1. e \in Seq(Char) /\ t \in Seq(Char)
    BY <1>7, <1>8
  <2> QED
    BY ONLY <2>1, Joined
<1>10. 1 \in 1 .. Len(e) + Len(t) /\ 1 <= Len(e) /\ Len(e) + Len(t) = IF ret < 10 THEN 2 ELSE 3
  BY <1>4, <1>7, <1>8
<1> QED
  BY <1>3, <1>8, <1>9, <1>10

----------------------------------------------------------------------------
\* Memory, and the buffer for registers

\* Hexadecimal text, digit by digit
LEMMA HexText ==
  ASSUME NEW v \in Seq(Octet), NEW upper \in BOOLEAN
  PROVE  ClientHex(v, upper) \in Seq(Char) /\ Len(ClientHex(v, upper)) = 2 * Len(v)
<1> DEFINE n == Len(v)
           h == hex_to_str(v)
           t == ClientHex(v, upper)
<1>1. n \in Nat /\ \A i \in 1 .. n : v[i] \in Octet
  OBVIOUS
<1>2. /\ h = [k \in 1 .. 2 * n |-> hexchars[IF k % 2 = 1 THEN v[(k + 1) \div 2] \div 16
                                           ELSE v[(k + 1) \div 2] % 16]]
      /\ t = [k \in 1 .. 2 * n |-> IF upper /\ h[k] > 96 THEN h[k] - 32 ELSE h[k]]
  BY DEF hex_to_str, ClientHex
<1> HIDE DEF n, h, t
<1>3. ASSUME NEW k \in 1 .. 2 * n PROVE t[k] \in Char
  <2>1. (k + 1) \div 2 \in 1 .. n
    BY <1>1
  <2>2. PICK b \in Octet : b = v[(k + 1) \div 2]
    BY <1>1, <2>1
  <2>3. b \div 16 \in 0 .. 15 /\ b % 16 \in 0 .. 15
    BY DEF Octet
  <2>4. PICK d \in 0 .. 15 : h[k] = hexchars[d]
    BY <1>2, <2>2, <2>3
  <2>5. hexchars[d] = IF d < 10 THEN 48 + d ELSE 87 + d
    BY DEF hexchars
  <2>6. PICK x \in 48 .. 102 : x = h[k]
    BY <2>4, <2>5
  <2>7. t[k] = IF upper /\ x > 96 THEN x - 32 ELSE x
    BY <1>2, <2>6
  <2> QED
    BY <2>6, <2>7 DEF Char
<1>4. t \in [1 .. 2 * n -> Char] /\ 2 * n \in Nat
  <2> DEFINE D == 1 .. 2 * n
  <2>1. DOMAIN t = D /\ t = [k \in D |-> t[k]]
    BY <1>2
  <2>2. \A k \in D : t[k] \in Char
    BY <1>3
  <2>3. 2 * n \in Nat
    BY <1>1
  <2> HIDE DEF D
  <2>4. t \in [D -> Char]
    BY ONLY <2>1, <2>2
  <2> QED
    BY <2>3, <2>4 DEF D
<1>5. t \in Seq(Char) /\ Len(t) = 2 * n
  BY ONLY <1>4, AsSeq
<1> QED
  BY <1>5 DEF t, n

\* What the stub writes in lower case
LEMMA StubHex ==
  ASSUME NEW v \in Seq(Octet)
  PROVE  /\ hex_to_str(v) = ClientHex(v, FALSE)
         /\ hex_to_str(v) \in Seq(Char) /\ Len(hex_to_str(v)) = 2 * Len(v)
         /\ str_to_hex(hex_to_str(v), Len(v)) = v
<1>1. hex_to_str(v) = ClientHex(v, FALSE)
  <2>1. \A k \in 1 .. 2 * Len(v) : ClientHex(v, FALSE)[k] = hex_to_str(v)[k]
    BY DEF ClientHex
  <2>2. DOMAIN hex_to_str(v) = 1 .. 2 * Len(v) /\ hex_to_str(v) = [k \in 1 .. 2 * Len(v) |-> hex_to_str(v)[k]]
    BY DEF hex_to_str
  <2> QED
    BY <2>1, <2>2 DEF ClientHex
<1> QED
  BY <1>1, HexText, HexRoundTrip

----------------------------------------------------------------------------
\* The memory

Memory == [0 .. MemSize - 1 -> Octet]

\* An address wraps.
LEMMA CellInside ==
  ASSUME NEW a \in Nat, NEW k \in Nat \ {0}
  PROVE  Cell(a, k) \in 0 .. MemSize - 1
<1>1. MemSize \in Nat \ {0} /\ a + k - 1 \in Nat
  BY SizesAssumption
<1> QED
  BY <1>1 DEF Cell

\* Memory stays memory when it is written,
LEMMA WriteInside ==
  ASSUME NEW m \in Memory, NEW a, NEW v \in Seq(Octet)
  PROVE  Write(m, a, v) \in Memory
<1>1. DOMAIN v = 1 .. Len(v) /\ \A k \in DOMAIN v : v[k] \in Octet
  OBVIOUS
<1>2. DOMAIN m = 0 .. MemSize - 1 /\ \A c \in DOMAIN m : m[c] \in Octet
  BY DEF Memory
<1>3. ASSUME NEW c \in DOMAIN m PROVE Write(m, a, v)[c] \in Octet
  <2>1. CASE \E k \in DOMAIN v : Cell(a, k) = c
    <3> DEFINE k == CHOOSE k \in DOMAIN v : Cell(a, k) = c
    <3>1. k \in DOMAIN v
      BY <2>1
    <3>2. Write(m, a, v)[c] = v[k]
      BY <2>1 DEF Write
    <3> QED
      BY <1>1, <3>1, <3>2
  <2>2. CASE ~ \E k \in DOMAIN v : Cell(a, k) = c
    <3>1. Write(m, a, v)[c] = m[c]
      BY <2>2 DEF Write
    <3> QED
      BY <1>2, <3>1
  <2> QED
    BY <2>1, <2>2
<1>4. DOMAIN Write(m, a, v) = DOMAIN m /\ Write(m, a, v) = [c \in DOMAIN m |-> Write(m, a, v)[c]]
  BY DEF Write
<1> QED
  BY <1>2, <1>3, <1>4 DEF Memory

\* what is read are bytes,
LEMMA ReadBytes ==
  ASSUME NEW m \in Memory, NEW a \in Nat, NEW len \in Nat
  PROVE  /\ Read(m, a, len) \in Seq(Octet) /\ Len(Read(m, a, len)) = len
         /\ \A k \in 1 .. len : Read(m, a, len)[k] = m[Cell(a, k)]
<1>1. \A k \in 1 .. len : Cell(a, k) \in 0 .. MemSize - 1
  BY CellInside
<1>2. Read(m, a, len) \in [1 .. len -> Octet]
  BY <1>1 DEF Read, Memory
<1>3. Read(m, a, len) \in Seq(Octet) /\ Len(Read(m, a, len)) = len
  BY ONLY <1>2, AsSeq
<1> QED
  BY <1>3 DEF Read

\* and writing what was read changes nothing, even where it wraps.
LEMMA WriteRead ==
  ASSUME NEW m \in Memory, NEW a \in Nat, NEW len \in Nat
  PROVE  Write(m, a, Read(m, a, len)) = m
<1> DEFINE v == Read(m, a, len)
<1>1. DOMAIN v = 1 .. len /\ \A k \in 1 .. len : v[k] = m[Cell(a, k)]
  BY DEF Read
<1> HIDE DEF v
<1>2. ASSUME NEW c \in DOMAIN m PROVE Write(m, a, v)[c] = m[c]
  <2>1. CASE \E k \in DOMAIN v : Cell(a, k) = c
    <3> DEFINE k == CHOOSE k \in DOMAIN v : Cell(a, k) = c
    <3>1. k \in DOMAIN v /\ Cell(a, k) = c
      BY <2>1
    <3>2. Write(m, a, v)[c] = v[k]
      BY <2>1 DEF Write
    <3> HIDE DEF k
    <3> QED
      BY <1>1, <3>1, <3>2
  <2>2. CASE ~ \E k \in DOMAIN v : Cell(a, k) = c
    BY <2>2 DEF Write
  <2> QED
    BY <2>1, <2>2
<1>3. DOMAIN Write(m, a, v) = DOMAIN m /\ Write(m, a, v) = [c \in DOMAIN m |-> Write(m, a, v)[c]]
  BY DEF Write
<1>4. m = [c \in DOMAIN m |-> m[c]]
  BY DEF Memory
<1> QED
  BY <1>2, <1>3, <1>4 DEF v

----------------------------------------------------------------------------
\* The buffer for a register

\* regbuf_get: the loop ends with a size that holds the register.
LEMMA RegbufGrows ==
  ASSUME NEW sz \in Nat \ {0}, NEW r \in Nat
  PROVE  /\ regbuf_get(sz, r) \in Nat \ {0}
         /\ regbuf_get(sz, r) >= sz /\ regbuf_get(sz, r) >= r
<1> DEFINE P == Nat \ {0}
           G(u) == [k \in 0 .. r |-> IF k = 0 THEN sz ELSE Doubled(u[k - 1], r)]
           v == CHOOSE u : u = G(u)
           h == [k \in 1 .. r |-> [s \in P |-> Doubled(s, r)]]
<1>1. regbuf_get(sz, r) = v[r]
  BY DEF regbuf_get
<1>2. \A s \in P : /\ Doubled(s, r) \in P /\ Doubled(s, r) >= s
                   /\ Doubled(s, r) >= r \/ Doubled(s, r) > s
  BY DEF Doubled
<1>3. sz \in P
  OBVIOUS
<1> HIDE DEF P
<1>4. h \in [1 .. r -> [P -> P]] /\ \A k \in 1 .. r : \A s \in P : h[k][s] = Doubled(s, r)
  BY <1>2
<1> HIDE DEF h
<1>5. PICK f \in [0 .. r -> P] : f[0] = sz /\ \A k \in 1 .. r : f[k] = h[k][f[k - 1]]
  <2>1. Loops(r, P, sz, h) # {}
    BY ONLY <1>3, <1>4, r \in Nat, LoopExists
  <2> QED
    BY <2>1 DEF Loops
<1>6. ASSUME NEW k \in 1 .. r PROVE f[k] = Doubled(f[k - 1], r)
  <2>1. k - 1 \in 0 .. r
    OBVIOUS
  <2> QED
    BY <1>4, <1>5, <2>1
<1>7. f = G(f)
  BY <1>5, <1>6
<1>8. v = G(v)
  BY <1>7
<1> HIDE DEF v
<1>9. v[0] = sz /\ \A k \in 1 .. r : v[k] = Doubled(v[k - 1], r)
  BY <1>8
<1> DEFINE T == {k \in 0 .. r : v[k] \in P /\ v[k] >= sz /\ (v[k] >= r \/ v[k] > k)}
<1>10. 0 \in T
  BY <1>3, <1>9 DEF P
<1>11. ASSUME NEW k \in 0 .. r - 1, k \in T PROVE k + 1 \in T
  <2>1. k + 1 \in 1 .. r /\ k + 1 \in 0 .. r /\ (k + 1) - 1 = k
    OBVIOUS
  <2>2. v[k + 1] = Doubled(v[k], r)
    <3>1. v[k + 1] = Doubled(v[(k + 1) - 1], r)
      BY ONLY <1>9, <2>1, Zenon
    <3> QED
      BY ONLY <2>1, <3>1
  <2>3. PICK s \in P : s = v[k]
    BY <1>11
  <2>4. s >= sz /\ (s >= r \/ s > k)
    BY <1>11, <2>3
  <2>5. PICK y \in P : y = Doubled(s, r) /\ y >= s /\ (y >= r \/ y > s)
    BY <1>2
  <2>6. y >= sz /\ (y >= r \/ y > k + 1)
    BY <2>4, <2>5 DEF P
  <2>7. v[k + 1] = y
    BY <2>2, <2>3, <2>5
  <2> QED
    BY <2>1, <2>6, <2>7
<1>12. r \in T
  <2>1. \A k \in 0 .. r : k \in T
    <3> HIDE DEF T
    <3> QED
      BY <1>10, <1>11, UpTo
  <2> QED
    BY <2>1
<1>13. v[r] \in P /\ v[r] >= sz /\ v[r] >= r
  BY <1>12 DEF P
<1> QED
  BY <1>1, <1>13 DEF P

\* A finite set of numbers below a bound has a greatest element.
LEMMA MaxBounded ==
  ASSUME NEW b \in Nat, NEW S, S # {}, \A y \in S : y \in Nat /\ y <= b
  PROVE  Max(S) \in S /\ \A y \in S : y <= Max(S)
<1> DEFINE T == {d \in 0 .. b : b - d \in S}
<1>1. T # {}
  <2>1. PICK y \in S : TRUE
    OBVIOUS
  <2>2. b - y \in 0 .. b /\ b - (b - y) = y
    BY <2>1
  <2> QED
    BY <2>1, <2>2
<1>2. PICK d \in T : \A e \in T : d <= e
  <2>1. T \in SUBSET Nat
    OBVIOUS
  <2> HIDE DEF T
  <2> QED
    BY ONLY <1>1, <2>1, LeastElement
<1>3. b - d \in S /\ d \in 0 .. b
  BY <1>2
<1>4. ASSUME NEW y \in S PROVE b - d >= y
  <2>1. b - y \in 0 .. b /\ b - (b - y) = y /\ y \in Nat
    OBVIOUS
  <2>2. b - y \in T
    BY <2>1
  <2>3. d <= b - y
    BY <1>2, <2>2
  <2> QED
    BY <1>3, <2>1, <2>3
<1>5. \E x \in S : \A y \in S : x >= y
  BY <1>3, <1>4
<1> DEFINE m == CHOOSE x \in S : \A y \in S : x >= y
<1>6. m \in S /\ \A y \in S : m >= y
  BY <1>5
<1>7. Max(S) = m
  BY DEF Max
<1> HIDE DEF m
<1> QED
  BY <1>6, <1>7

\* A buffer that has held what was asked of it still does after more requests.
BufferInv == regbuf \in Nat \ {0} /\ widest \in Nat /\ widest <= regbuf

\* UseRegbuf: the buffer never shrinks, and holds every register it was got for.
LEMMA RegbufHolds ==
  ASSUME BufferInv, NEW sizes \in Seq(Nat), UseRegbuf(sizes)
  PROVE  BufferInv'
<1> DEFINE n == Len(sizes)
           P == Nat \ {0}
           G(u) == [j \in 0 .. n |-> IF j = 0 THEN regbuf ELSE regbuf_get(u[j - 1], sizes[j])]
           v == CHOOSE u : u = G(u)
           h == [j \in 1 .. n |-> [s \in P |-> regbuf_get(s, sizes[j])]]
<1>1. regbuf' = v[n] /\ widest' = Max({widest} \cup Range(sizes))
  BY DEF UseRegbuf
<1>2. n \in Nat /\ \A j \in 1 .. n : sizes[j] \in Nat
  OBVIOUS
<1>3. Range(sizes) = {sizes[j] : j \in 1 .. n}
  BY DEF Range
<1>4. regbuf \in P /\ widest \in Nat /\ widest <= regbuf
  BY DEF BufferInv
<1> HIDE DEF n
<1>5. \A s \in P : \A j \in 1 .. n : /\ regbuf_get(s, sizes[j]) \in P
                                      /\ regbuf_get(s, sizes[j]) >= s
                                      /\ regbuf_get(s, sizes[j]) >= sizes[j]
  BY <1>2, RegbufGrows
<1>6. h \in [1 .. n -> [P -> P]] /\ \A j \in 1 .. n : \A s \in P : h[j][s] = regbuf_get(s, sizes[j])
  BY <1>5
<1> HIDE DEF P, h
<1>7. PICK f \in [0 .. n -> P] : f[0] = regbuf /\ \A j \in 1 .. n : f[j] = h[j][f[j - 1]]
  <2>1. Loops(n, P, regbuf, h) # {}
    BY ONLY <1>2, <1>4, <1>6, LoopExists
  <2> QED
    BY <2>1 DEF Loops
<1>8. ASSUME NEW j \in 1 .. n PROVE f[j] = regbuf_get(f[j - 1], sizes[j])
  <2>1. j - 1 \in 0 .. n
    BY <1>2
  <2> QED
    BY <1>6, <1>7, <2>1
<1>9. f = G(f)
  BY <1>2, <1>7, <1>8
<1>10. v = G(v)
  BY <1>9
<1> HIDE DEF v
<1>11. v[0] = regbuf /\ \A j \in 1 .. n : v[j] = regbuf_get(v[j - 1], sizes[j])
  BY <1>2, <1>10
<1> DEFINE T == {j \in 0 .. n : /\ v[j] \in P /\ v[j] >= widest
                                /\ \A i \in 1 .. j : v[j] >= sizes[i]}
<1>12. 0 \in T
  BY <1>2, <1>4, <1>11 DEF P
<1>13. ASSUME NEW j \in 0 .. n - 1, j \in T PROVE j + 1 \in T
  <2>1. j + 1 \in 1 .. n /\ j + 1 \in 0 .. n /\ (j + 1) - 1 = j
    BY <1>2
  <2>2. v[j + 1] = regbuf_get(v[j], sizes[j + 1])
    <3>1. v[j + 1] = regbuf_get(v[(j + 1) - 1], sizes[j + 1])
      BY ONLY <1>11, <2>1, Zenon
    <3> QED
      BY ONLY <2>1, <3>1
  <2>3. PICK s \in P : s = v[j]
    BY <1>13
  <2>4. s >= widest /\ \A i \in 1 .. j : s >= sizes[i]
    BY <1>13, <2>3
  <2>5. PICK y \in P : y = regbuf_get(s, sizes[j + 1]) /\ y >= s /\ y >= sizes[j + 1]
    BY <1>5, <2>1
  <2>6. v[j + 1] = y
    BY <2>2, <2>3, <2>5
  <2>7. y >= widest
    BY <1>4, <2>4, <2>5 DEF P
  <2>8. ASSUME NEW i \in 1 .. j + 1 PROVE y >= sizes[i]
    <3>1. CASE i = j + 1
      BY <2>5, <3>1
    <3>2. CASE i # j + 1
      <4>1. i \in 1 .. j /\ i \in 1 .. n
        BY <1>2, <3>2
      <4>2. s >= sizes[i] /\ sizes[i] \in Nat
        BY <1>2, <2>4, <4>1
      <4> QED
        BY <2>5, <4>2 DEF P
    <3> QED
      BY <3>1, <3>2
  <2> QED
    BY <2>1, <2>6, <2>7, <2>8
<1>14. n \in T
  <2>1. \A j \in 0 .. n : j \in T
    <3> HIDE DEF T
    <3> QED
      BY <1>2, <1>12, <1>13, UpTo
  <2>2. n \in 0 .. n
    BY <1>2
  <2> HIDE DEF T
  <2> QED
    BY ONLY <2>1, <2>2, Zenon
<1>15. regbuf' \in P /\ regbuf' >= widest /\ \A i \in 1 .. n : regbuf' >= sizes[i]
  BY <1>1, <1>14
<1> DEFINE S == {widest} \cup Range(sizes)
<1>16. S # {} /\ regbuf' \in Nat /\ \A y \in S : y \in Nat /\ y <= regbuf'
  BY <1>2, <1>3, <1>4, <1>15 DEF P
<1> HIDE DEF S
<1>17. PICK b \in Nat : b = regbuf'
  BY <1>16
<1>18. Max(S) \in S
  BY ONLY <1>16, <1>17, MaxBounded
<1> QED
  BY <1>1, <1>15, <1>16, <1>18 DEF BufferInv, S, P

----------------------------------------------------------------------------
\* Where registers lie

\* The bytes before a register, one register after another
LEMMA BeforeSteps ==
  ASSUME NEW m \in Nat, NEW sizes \in [0 .. m - 1 -> Nat]
  PROVE  /\ Before(sizes, 0) = 0
         /\ \A i \in 0 .. m : Before(sizes, i) \in Nat
         /\ \A i \in 1 .. m : Before(sizes, i) = Before(sizes, i - 1) + sizes[i - 1]
<1> DEFINE h == [i \in 1 .. m |-> [s \in Nat |-> s + sizes[i - 1]]]
<1>1. \A i \in 1 .. m : i - 1 \in 0 .. m - 1 /\ sizes[i - 1] \in Nat
  OBVIOUS
<1>2. h \in [1 .. m -> [Nat -> Nat]] /\ \A i \in 1 .. m : \A s \in Nat : h[i][s] = s + sizes[i - 1]
  BY <1>1
<1> HIDE DEF h
<1>3. PICK f \in [0 .. m -> Nat] : f[0] = 0 /\ \A i \in 1 .. m : f[i] = h[i][f[i - 1]]
  <2>1. Loops(m, Nat, 0, h) # {}
    BY ONLY <1>2, m \in Nat, 0 \in Nat, LoopExists
  <2> QED
    BY <2>1 DEF Loops
<1>4. ASSUME NEW i \in 1 .. m PROVE f[i] = f[i - 1] + sizes[i - 1]
  <2>1. i - 1 \in 0 .. m
    OBVIOUS
  <2> QED
    BY <1>2, <1>3, <2>1
<1>5. ASSUME NEW i \in 0 .. m PROVE Before(sizes, i) = f[i]
  <2> DEFINE G(u) == [j \in 0 .. i |-> IF j = 0 THEN 0 ELSE u[j - 1] + sizes[j - 1]]
             v == CHOOSE u : u = G(u)
             g == [j \in 0 .. i |-> f[j]]
  <2>1. Before(sizes, i) = v[i]
    BY DEF Before
  <2>2. g = G(g)
    <3>1. ASSUME NEW j \in 0 .. i PROVE g[j] = IF j = 0 THEN 0 ELSE g[j - 1] + sizes[j - 1]
      <4>1. CASE j = 0
        BY <1>3, <4>1
      <4>2. CASE j # 0
        <5>1. j \in 1 .. m /\ j - 1 \in 0 .. i
          BY <4>2
        <5>2. f[j] = f[j - 1] + sizes[j - 1]
          BY <1>4, <5>1, Zenon
        <5>3. g[j] = f[j] /\ g[j - 1] = f[j - 1]
          BY <5>1
        <5> QED
          BY ONLY <4>2, <5>2, <5>3
      <4> QED
        BY <4>1, <4>2
    <3> QED
      BY <3>1
  <2> HIDE DEF g
  <2>3. v = G(v)
    BY <2>2
  <2> HIDE DEF v
  <2>4. v[0] = 0 /\ \A j \in 1 .. i : v[j] = v[j - 1] + sizes[j - 1]
    BY <2>3
  <2> DEFINE T == {j \in 0 .. i : v[j] = f[j]}
  <2>5. 0 \in T
    BY <1>3, <2>4
  <2>6. ASSUME NEW j \in 0 .. i - 1, j \in T PROVE j + 1 \in T
    <3>1. j + 1 \in 1 .. i /\ j + 1 \in 1 .. m /\ j + 1 \in 0 .. i /\ (j + 1) - 1 = j
      OBVIOUS
    <3>2. v[j + 1] = v[(j + 1) - 1] + sizes[(j + 1) - 1]
      BY ONLY <2>4, <3>1, Zenon
    <3>3. f[j + 1] = f[(j + 1) - 1] + sizes[(j + 1) - 1]
      BY <1>4, <3>1, Zenon
    <3>4. v[j] = f[j]
      BY <2>6
    <3>5. v[j + 1] = f[j + 1]
      BY ONLY <3>1, <3>2, <3>3, <3>4
    <3> QED
      BY <3>1, <3>5
  <2>7. v[i] = f[i]
    <3>1. \A j \in 0 .. i : j \in T
      <4>1. i \in Nat
        OBVIOUS
      <4> HIDE DEF T
      <4> QED
        BY <2>5, <2>6, <4>1, UpTo
    <3> QED
      BY <3>1
  <2> QED
    BY <2>1, <2>7
<1>6. ASSUME NEW i \in 1 .. m PROVE Before(sizes, i) = Before(sizes, i - 1) + sizes[i - 1]
  <2>1. i \in 0 .. m /\ i - 1 \in 0 .. m
    OBVIOUS
  <2>2. Before(sizes, i) = f[i] /\ Before(sizes, i - 1) = f[i - 1]
    BY ONLY <1>5, <2>1, Zenon
  <2>3. f[i] = f[i - 1] + sizes[i - 1]
    BY <1>4, Zenon
  <2> QED
    BY ONLY <2>2, <2>3, Zenon
<1> QED
  BY <1>3, <1>5, <1>6

\* The same for a later register
LEMMA BeforeGrows ==
  ASSUME NEW m \in Nat, NEW sizes \in [0 .. m - 1 -> Nat], NEW i \in 0 .. m
  PROVE  Before(sizes, i) <= Before(sizes, m)
<1> DEFINE B(j) == Before(sizes, j)
<1>1. /\ \A j \in 0 .. m : B(j) \in Nat
      /\ \A j \in 1 .. m : B(j) = B(j - 1) + sizes[j - 1]
  BY BeforeSteps
<1> HIDE DEF B
<1> DEFINE T == {d \in 0 .. m - i : B(i) <= B(i + d)}
<1>2. 0 \in T
  <2>1. i + 0 = i /\ B(i) <= B(i) /\ 0 \in 0 .. m - i
    BY <1>1
  <2> QED
    BY <2>1
<1>3. ASSUME NEW d \in 0 .. (m - i) - 1, d \in T PROVE d + 1 \in T
  <2>1. /\ i + (d + 1) \in 1 .. m /\ (i + (d + 1)) - 1 = i + d /\ i + d \in 0 .. m - 1
        /\ d + 1 \in 0 .. m - i /\ i + d \in 0 .. m /\ i + (d + 1) \in 0 .. m
    OBVIOUS
  <2>2. B(i + (d + 1)) = B((i + (d + 1)) - 1) + sizes[(i + (d + 1)) - 1]
    BY ONLY <1>1, <2>1, Zenon
  <2>3. B(i + (d + 1)) = B(i + d) + sizes[i + d] /\ sizes[i + d] \in Nat
    BY <2>1, <2>2
  <2>4. B(i) <= B(i + d)
    BY <1>3
  <2>5. B(i + d) \in Nat /\ B(i) \in Nat
    BY <1>1, <2>1
  <2>6. B(i) <= B(i + (d + 1))
    BY ONLY <2>3, <2>4, <2>5
  <2> QED
    BY ONLY <2>1, <2>6
<1>4. m - i \in Nat /\ i + (m - i) = m
  OBVIOUS
<1>5. \A d \in 0 .. m - i : d \in T
  <2> HIDE DEF T
  <2> DEFINE n == m - i
  <2>1. n \in Nat /\ \A d \in 0 .. n - 1 : d \in T => d + 1 \in T
    BY <1>3, <1>4
  <2>2. \A d \in 0 .. n : d \in T
    <3> HIDE DEF n
    <3> QED
      BY ONLY <1>2, <2>1, UpTo
  <2> QED
    BY <2>2
<1>6. B(i) <= B(m)
  <2>1. m - i \in T
    BY <1>4, <1>5
  <2> QED
    BY <1>4, <2>1
<1> QED
  BY <1>6 DEF B

\* Registers of one size
LEMMA BeforeUniform ==
  ASSUME NEW m \in Nat, NEW z \in Nat, NEW sizes \in [0 .. m - 1 -> Nat],
         \A i \in 0 .. m - 1 : sizes[i] = z
  PROVE  \A i \in 0 .. m : Before(sizes, i) = i * z
<1> DEFINE B(j) == Before(sizes, j)
           T == {j \in 0 .. m : B(j) = j * z}
<1>1. /\ B(0) = 0 /\ \A j \in 1 .. m : B(j) = B(j - 1) + sizes[j - 1]
  BY BeforeSteps
<1> HIDE DEF B
<1>2. 0 \in T
  BY <1>1
<1>3. ASSUME NEW j \in 0 .. m - 1, j \in T PROVE j + 1 \in T
  <2>1. j + 1 \in 1 .. m /\ j + 1 \in 0 .. m /\ (j + 1) - 1 = j
    OBVIOUS
  <2>2. B(j + 1) = B((j + 1) - 1) + sizes[(j + 1) - 1]
    BY ONLY <1>1, <2>1, Zenon
  <2>3. B(j + 1) = j * z + z
    BY <1>3, <2>1, <2>2
  <2>4. (j + 1) * z = j * z + z
    OBVIOUS
  <2> QED
    BY <2>1, <2>3, <2>4
<1>4. \A i \in 0 .. m : i \in T
  <2> HIDE DEF T
  <2> QED
    BY <1>2, <1>3, UpTo
<1> QED
  BY <1>4 DEF B

----------------------------------------------------------------------------
\* The text of all registers

\* Registers of the sizes the target gives them
RegFile == {r \in [Reg -> Seq(Octet)] : \A i \in Reg : Len(r[i]) = conf.sizes[i]}

\* What the assumptions say of the registers, the threads and the packet
LEMMA TargetFacts ==
  ASSUME conf \in Config
  PROVE  /\ RegNum \in Nat \ {0} /\ conf.sizes \in [0 .. RegNum - 1 -> Nat]
         /\ \A i \in Reg : conf.sizes[i] \in Nat \ {0}
         /\ MAX_SEND_PACKET_SIZE \in 59 .. 4096
         /\ Smp \in Nat \ {0}
<1> DEFINE n == Cardinality(DOMAIN conf.sizes)
<1>1. /\ conf.smp \in Nat /\ n \in Nat \ {0} /\ conf.sizes \in [0 .. n - 1 -> Nat \ {0}]
  BY SizesAssumption
<1>2. MAX_SEND_PACKET_SIZE \in 59 .. 4096
  BY SizesAssumption
<1>3. RegNum = n /\ Reg = 0 .. n - 1
  BY DEF RegNum, Reg
<1> HIDE DEF n
<1>4. conf.sizes \in [0 .. n - 1 -> Nat] /\ \A i \in 0 .. n - 1 : conf.sizes[i] \in Nat \ {0}
  BY <1>1
<1>5. Smp \in Nat \ {0}
  <2>1. PICK s \in Nat : s = conf.smp
    BY <1>1
  <2>2. Smp = IF s = 0 THEN 1 ELSE s
    BY <2>1 DEF Smp
  <2> QED
    BY ONLY <2>2
<1>6. /\ RegNum \in Nat \ {0} /\ conf.sizes \in [0 .. RegNum - 1 -> Nat]
      /\ \A i \in Reg : conf.sizes[i] \in Nat \ {0}
  <2>1. n \in Nat \ {0}
    BY <1>1
  <2> QED
    BY ONLY <1>3, <1>4, <2>1, Zenon
<1> QED
  BY ONLY <1>2, <1>5, <1>6

\* process_reg_read has stayed within its array.
RegsWithin == \A i \in Reg : RegEnd(i) <= MAX_SEND_PACKET_SIZE

\* The array a handler formats its answer in
Buffer == [1 .. MAX_SEND_PACKET_SIZE -> Octet]

\* PutReg, position by position
LEMMA PutRegAt ==
  ASSUME conf \in Config, regs \in RegFile, NEW buf \in Buffer, NEW i \in Reg,
         NEW at, at = 2 * i * conf.sizes[i]
  PROVE  /\ PutReg(buf, i) \in Buffer
         /\ \A k \in 1 .. MAX_SEND_PACKET_SIZE :
              PutReg(buf, i)[k] =
                IF k - at \in 1 .. 2 * conf.sizes[i] THEN hex_to_str(regs[i])[k - at]
                ELSE IF k - at = 2 * conf.sizes[i] + 1 THEN 0 ELSE buf[k]
<1> DEFINE hex == hex_to_str(regs[i])
           l == 2 * conf.sizes[i]
           D == 1 .. MAX_SEND_PACKET_SIZE
           p == PutReg(buf, i)
<1>1. regs[i] \in Seq(Octet) /\ Len(regs[i]) = conf.sizes[i]
  BY DEF RegFile
<1>2. hex \in Seq(Char) /\ Len(hex) = l
  BY <1>1, StubHex
<1>3. DOMAIN buf = D /\ \A k \in D : buf[k] \in Octet
  BY DEF Buffer
<1>4. p = [k \in D |-> IF k - at \in 1 .. l THEN hex[k - at]
                       ELSE IF k - at = l + 1 THEN 0 ELSE buf[k]]
  BY <1>2, <1>3 DEF PutReg
<1>5. \A j \in 1 .. l : hex[j] \in Char
  BY <1>2
<1>6. Char \subseteq Octet /\ 0 \in Octet
  BY DEF Char, Octet
<1> HIDE DEF hex, l, D, p
<1>7. \A k \in D : p[k] = IF k - at \in 1 .. l THEN hex[k - at]
                          ELSE IF k - at = l + 1 THEN 0 ELSE buf[k]
  BY <1>4
<1>8. \A k \in D : p[k] \in Octet
  BY <1>3, <1>5, <1>6, <1>7
<1>9. p \in [D -> Octet]
  BY <1>4, <1>8
<1> QED
  BY <1>7, <1>9 DEF hex, l, D, p, Buffer

\* The runs of the loop of process_reg_read
RegRuns == {f \in [0 .. RegNum -> Buffer] :
              /\ f[0] = [k \in 1 .. MAX_SEND_PACKET_SIZE |-> 0]
              /\ \A i \in 1 .. RegNum : f[i] = PutReg(f[i - 1], i - 1)}

\* Its steps, and the text that is sent
LEMMA RegTextRuns ==
  ASSUME conf \in Config, regs \in RegFile
  PROVE  \E f \in RegRuns :
            RegText = SubSeq(f[RegNum], 1,
                                Min({k \in 1 .. MAX_SEND_PACKET_SIZE : f[RegNum][k] = 0}) - 1)
<1> DEFINE n == RegNum
           x == [k \in 1 .. MAX_SEND_PACKET_SIZE |-> 0]
           G(u) == [i \in 0 .. n |-> IF i = 0 THEN x ELSE PutReg(u[i - 1], i - 1)]
           v == CHOOSE u : u = G(u)
           h == [i \in 1 .. n |-> [b \in Buffer |-> PutReg(b, i - 1)]]
<1>1. n \in Nat /\ Reg = 0 .. n - 1
  BY TargetFacts DEF Reg
<1>2. x \in Buffer
  BY DEF Buffer, Octet
<1>3. RegText = SubSeq(v[n], 1, Min({k \in DOMAIN v[n] : v[n][k] = 0}) - 1)
  BY DEF RegText
<1> HIDE DEF n, x
<1>4. ASSUME NEW i \in 1 .. n, NEW b \in Buffer PROVE PutReg(b, i - 1) \in Buffer
  <2>1. i - 1 \in Reg
    BY <1>1
  <2> QED
    BY <2>1, PutRegAt
<1>5. h \in [1 .. n -> [Buffer -> Buffer]] /\ \A i \in 1 .. n : \A b \in Buffer : h[i][b] = PutReg(b, i - 1)
  BY <1>4
<1> HIDE DEF h
<1>6. PICK f \in [0 .. n -> Buffer] : f[0] = x /\ \A i \in 1 .. n : f[i] = h[i][f[i - 1]]
  <2>1. Loops(n, Buffer, x, h) # {}
    BY ONLY <1>1, <1>2, <1>5, LoopExists
  <2> QED
    BY <2>1 DEF Loops
<1>7. ASSUME NEW i \in 1 .. n PROVE f[i] = PutReg(f[i - 1], i - 1)
  <2>1. i - 1 \in 0 .. n
    BY <1>1
  <2> QED
    BY <1>5, <1>6, <2>1
<1>8. f = G(f)
  BY <1>1, <1>6, <1>7
<1>9. v = G(v)
  BY <1>8
<1> HIDE DEF v
<1>10. v[0] = x /\ \A i \in 1 .. n : v[i] = PutReg(v[i - 1], i - 1)
  BY <1>1, <1>9
<1> DEFINE T == {i \in 0 .. n : v[i] = f[i]}
<1>11. \A i \in 0 .. n : i \in T
  <2>1. 0 \in T
    BY <1>1, <1>6, <1>10
  <2>2. ASSUME NEW i \in 0 .. n - 1, i \in T PROVE i + 1 \in T
    <3>1. i + 1 \in 1 .. n /\ i + 1 \in 0 .. n
      BY <1>1
    <3>2. /\ v[i + 1] = PutReg(v[(i + 1) - 1], (i + 1) - 1)
          /\ f[i + 1] = PutReg(f[(i + 1) - 1], (i + 1) - 1)
      BY <1>7, <1>10, <3>1, Zenon
    <3>3. v[(i + 1) - 1] = f[(i + 1) - 1]
      <4>1. (i + 1) - 1 = i /\ v[i] = f[i]
        BY <2>2
      <4> QED
        BY ONLY <4>1
    <3>4. v[i + 1] = f[i + 1]
      BY ONLY <3>2, <3>3, Zenon
    <3> QED
      BY ONLY <3>1, <3>4
  <2> HIDE DEF T
  <2> QED
    BY ONLY <1>1, <2>1, <2>2, UpTo
<1>12. v[n] = f[n] /\ f[n] \in Buffer
  BY <1>1, <1>6, <1>11
<1>13. DOMAIN v[n] = 1 .. MAX_SEND_PACKET_SIZE
  BY <1>12 DEF Buffer
<1>14. RegText = SubSeq(f[n], 1, Min({k \in 1 .. MAX_SEND_PACKET_SIZE : f[n][k] = 0}) - 1)
  BY ONLY <1>3, <1>12, <1>13, Zenon
<1>15. f \in RegRuns
  BY <1>6, <1>7 DEF n, x, RegRuns
<1> QED
  BY <1>14, <1>15 DEF n

\* A text and the 0 behind it, at the beginning of an array
StringIn(buf, text) ==
    (\A k \in 1 .. Len(text) : text[k] = buf[k]) /\ buf[Len(text) + 1] = 0

\* A 0 ends a text: the positions before the first one hold the text.
LEMMA FirstZero ==
  ASSUME NEW N \in Nat, NEW buf \in [1 .. N -> Octet], NEW b \in Nat, b < N,
         \A L \in 0 .. N : (\A k \in 1 .. L : buf[k] # 0) => L <= b,
         NEW text, text = SubSeq(buf, 1, Min({k \in 1 .. N : buf[k] = 0}) - 1)
  PROVE  /\ text \in Seq(Char) /\ Len(text) <= b
         /\ StringIn(buf, text)
<1> DEFINE Z == {k \in 1 .. N : buf[k] = 0}
<1>1. Z # {}
  <2>1. SUFFICES ASSUME Z = {} PROVE FALSE
    OBVIOUS
  <2>2. \A k \in 1 .. N : buf[k] # 0
    BY <2>1
  <2>3. N \in 0 .. N /\ ~(N <= b)
    OBVIOUS
  <2> QED
    BY <2>2, <2>3
<1>2. PICK m \in Z : \A y \in Z : m <= y
  <2>1. Z \in SUBSET Nat
    OBVIOUS
  <2> HIDE DEF Z
  <2> QED
    BY ONLY <1>1, <2>1, LeastElement
<1>3. m \in 1 .. N /\ buf[m] = 0 /\ \A k \in 1 .. m - 1 : buf[k] # 0
  <2>1. m \in 1 .. N /\ buf[m] = 0
    BY <1>2
  <2>2. ASSUME NEW k \in 1 .. m - 1 PROVE buf[k] # 0
    <3>1. k \in 1 .. N /\ ~(m <= k)
      BY <2>1
    <3> QED
      BY <1>2, <3>1
  <2> QED
    BY <2>1, <2>2
<1>4. Min(Z) = m
  <2>1. \A x \in Z : (\A y \in Z : x <= y) => x = m
    BY <1>2
  <2> HIDE DEF Z
  <2> QED
    BY ONLY <1>2, <2>1 DEF Min
<1> DEFINE l == m - 1
<1>5. text = SubSeq(buf, 1, l)
  BY <1>4
<1>6. l \in Nat /\ l + 1 = m /\ l <= N /\ l \in 0 .. N
  BY <1>3
<1>7. l <= b
  BY <1>3, <1>6
<1>8. buf \in Seq(Octet) /\ Len(buf) = N
  BY ONLY N \in Nat, buf \in [1 .. N -> Octet], AsSeq
<1> HIDE DEF l
<1>9. /\ SubSeq(buf, 1, l) \in Seq(Octet) /\ Len(SubSeq(buf, 1, l)) = l
      /\ \A i \in 1 .. l : SubSeq(buf, 1, l)[i] = buf[i]
  BY ONLY <1>6, <1>8, FirstOf
<1>10. /\ text \in Seq(Octet) /\ Len(text) = l
      /\ \A i \in 1 .. l : text[i] = buf[i]
  BY ONLY <1>5, <1>9, Zenon
<1>11. ASSUME NEW k \in 1 .. l PROVE text[k] \in Char
  <2>1. k \in 1 .. N /\ k \in 1 .. m - 1
    BY ONLY <1>3, <1>6, N \in Nat, k \in 1 .. l
  <2>2. PICK c \in Octet : c = buf[k]
    BY <2>1
  <2>3. c # 0 /\ text[k] = c
    BY ONLY <1>10, <1>3, <2>1, <2>2, k \in 1 .. l
  <2>4. c \in Char
    BY ONLY <2>3, c \in Octet DEF Char, Octet
  <2> QED
    BY ONLY <2>3, <2>4
<1>12. text \in [1 .. l -> Char]
  <2>1. text \in [1 .. l -> Octet]
    BY ONLY <1>10
  <2> QED
    BY ONLY <1>11, <2>1
<1>13. text \in Seq(Char) /\ Len(text) = l
  BY ONLY <1>6, <1>12, AsSeq
<1>14. StringIn(buf, text)
  BY <1>3, <1>6, <1>10 DEF StringIn
<1> QED
  BY <1>7, <1>13, <1>14

\* process_reg_read: the text of the registers is one, and no longer than their
\* digits, even when registers of different sizes overlap.
LEMMA RegTextFits ==
  ASSUME conf \in Config, regs \in RegFile, RegsWithin
  PROVE  /\ RegText \in Seq(Char) /\ Len(RegText) <= 2 * Before(conf.sizes, RegNum)
         /\ \E f \in RegRuns : StringIn(f[RegNum], RegText)
<1> DEFINE n == RegNum
           N == MAX_SEND_PACKET_SIZE
           B(i) == Before(conf.sizes, i)
<1>1. /\ n \in Nat /\ N \in Nat /\ Reg = 0 .. n - 1 /\ N > 0
      /\ \A i \in 0 .. n - 1 : 2 * (i + 1) * conf.sizes[i] + 1 <= N
      /\ \A i \in 0 .. n - 1 : conf.sizes[i] \in Nat
      /\ \A i \in 0 .. n : B(i) \in Nat
      /\ \A i \in 1 .. n : B(i) = B(i - 1) + conf.sizes[i - 1]
  <2>1. /\ n \in Nat /\ conf.sizes \in [0 .. n - 1 -> Nat]
    BY TargetFacts
  <2>2. N \in Nat /\ N > 0
    <3>1. N \in 59 .. 4096
      BY SizesAssumption
    <3> HIDE DEF N
    <3> QED
      BY ONLY <3>1
  <2>3. Reg = 0 .. n - 1
    BY DEF Reg
  <2>4. \A i \in 0 .. n - 1 : conf.sizes[i] \in Nat
    BY <2>1
  <2>5. \A i \in 0 .. n - 1 : 2 * (i + 1) * conf.sizes[i] + 1 <= N
    BY <2>3 DEF RegsWithin, RegEnd
  <2> HIDE DEF n
  <2>6. /\ \A i \in 0 .. n : B(i) \in Nat
        /\ \A i \in 1 .. n : B(i) = B(i - 1) + conf.sizes[i - 1]
    BY ONLY <2>1, BeforeSteps
  <2> QED
    BY ONLY <2>1, <2>2, <2>3, <2>4, <2>5, <2>6
<1>2. PICK f \in RegRuns : RegText = SubSeq(f[n], 1, Min({k \in 1 .. N : f[n][k] = 0}) - 1)
  BY RegTextRuns
<1>3. /\ f \in [0 .. n -> Buffer]
      /\ f[0] = [k \in 1 .. N |-> 0]
      /\ \A i \in 1 .. n : f[i] = PutReg(f[i - 1], i - 1)
  BY DEF RegRuns
<1> HIDE DEF n, N, B
<1> DEFINE T == {i \in 0 .. n : \A L \in 0 .. N :
                                  (\A k \in 1 .. L : f[i][k] # 0) => L <= 2 * B(i) /\ L < N}
<1>4. 0 \in T
  <2>1. ASSUME NEW L \in 0 .. N, \A k \in 1 .. L : f[0][k] # 0
        PROVE  L <= 2 * B(0) /\ L < N
    <3>1. CASE L = 0
      BY <1>1, <3>1
    <3>2. CASE L # 0
      <4>1. 1 \in 1 .. L /\ 1 \in 1 .. N
        BY <1>1, <3>2
      <4> QED
        BY <1>3, <2>1, <4>1
    <3> QED
      BY <3>1, <3>2
  <2> QED
    BY <1>1, <2>1
<1>5. ASSUME NEW i \in 0 .. n - 1, i \in T PROVE i + 1 \in T
  <2>1. i + 1 \in 1 .. n /\ i + 1 \in 0 .. n /\ (i + 1) - 1 = i /\ i \in 0 .. n
    BY <1>1
  <2>2. f[i + 1] = PutReg(f[i], i) /\ B(i + 1) = B(i) + conf.sizes[i]
    <3>1. /\ f[i + 1] = PutReg(f[(i + 1) - 1], (i + 1) - 1)
          /\ B(i + 1) = B((i + 1) - 1) + conf.sizes[(i + 1) - 1]
      BY ONLY <1>1, <1>3, <2>1, Zenon
    <3> QED
      BY ONLY <2>1, <3>1
  <2>3. PICK z \in Nat : z = conf.sizes[i]
    BY <1>1
  <2>4. PICK at \in Nat : at = 2 * i * conf.sizes[i]
    <3>1. 2 * i * z \in Nat
      OBVIOUS
    <3> QED
      BY <2>3, <3>1
  <2>5. PICK b \in Nat : b = B(i)
    BY <1>1, <2>1
  <2>6. B(i + 1) = b + z
    BY ONLY <2>2, <2>3, <2>5
  <2>7. \A k \in 1 .. N : f[i + 1][k] = IF k - at \in 1 .. 2 * z THEN hex_to_str(regs[i])[k - at]
                                        ELSE IF k - at = 2 * z + 1 THEN 0 ELSE f[i][k]
    <3>1. f[i] \in Buffer /\ i \in Reg
      BY <1>1, <1>3, <2>1
    <3>2. \A k \in 1 .. N : PutReg(f[i], i)[k] =
             IF k - at \in 1 .. 2 * conf.sizes[i] THEN hex_to_str(regs[i])[k - at]
             ELSE IF k - at = 2 * conf.sizes[i] + 1 THEN 0 ELSE f[i][k]
      BY <2>4, <3>1, PutRegAt DEF N
    <3> QED
      BY ONLY <2>2, <2>3, <3>2, Zenon
  <2>8. at + 2 * z + 1 <= N
    <3>1. 2 * (i + 1) * z + 1 <= N /\ at = 2 * i * z
      BY <1>1, <2>3, <2>4
    <3>2. 2 * (i + 1) * z = 2 * i * z + 2 * z
      OBVIOUS
    <3> QED
      BY <3>1, <3>2
  <2>9. ASSUME NEW L \in 0 .. N, \A k \in 1 .. L : f[i + 1][k] # 0
        PROVE  L <= 2 * B(i + 1) /\ L < N
    <3>1. L <= at + 2 * z
      <4>1. SUFFICES ASSUME L > at + 2 * z PROVE FALSE
        BY <1>1
      <4> DEFINE k == at + 2 * z + 1
      <4>2. k \in 1 .. L /\ k \in 1 .. N /\ k - at = 2 * z + 1 /\ k - at \notin 1 .. 2 * z
        BY <1>1, <4>1
      <4> HIDE DEF k
      <4>3. f[i + 1][k] = 0
        BY ONLY <2>7, <4>2, Zenon
      <4> QED
        BY <2>9, <4>2, <4>3
    <3>2. ASSUME NEW k \in 1 .. L, k <= at PROVE f[i][k] # 0
      <4>1. k \in 1 .. N /\ k - at \notin 1 .. 2 * z /\ k - at # 2 * z + 1
        BY <1>1, <3>2
      <4>2. f[i + 1][k] = f[i][k]
        BY ONLY <2>7, <4>1, Zenon
      <4> QED
        BY <2>9, <4>2
    <3>3. \A M \in 0 .. N : (\A k \in 1 .. M : f[i][k] # 0) => M <= 2 * b /\ M < N
      BY <1>5, <2>5
    <3>4. CASE L <= at
      <4>1. \A k \in 1 .. L : f[i][k] # 0
        <5>1. \A k \in 1 .. L : k <= at
          BY ONLY <1>1, <3>4, at \in Nat, L \in 0 .. N
        <5> QED
          BY ONLY <3>2, <5>1
      <4>2. L <= 2 * b /\ L < N
        BY <3>3, <4>1
      <4> QED
        BY ONLY <2>6, <4>2, b \in Nat, z \in Nat, L \in 0 .. N
    <3>5. CASE ~(L <= at)
      <4>1. at \in 0 .. N /\ \A k \in 1 .. at : k \in 1 .. L /\ k <= at
        BY <1>1, <3>5
      <4>2. \A k \in 1 .. at : f[i][k] # 0
        BY <3>2, <4>1
      <4>3. at <= 2 * b
        BY <3>3, <4>1, <4>2
      <4> QED
        BY ONLY <1>1, <2>6, <2>8, <3>1, <4>3, b \in Nat, z \in Nat, at \in Nat, L \in 0 .. N
    <3> QED
      BY <3>4, <3>5
  <2> QED
    BY <2>1, <2>9
<1>6. n \in T
  <2>1. \A i \in 0 .. n : i \in T
    <3> HIDE DEF T
    <3> QED
      BY <1>1, <1>4, <1>5, UpTo
  <2>2. n \in 0 .. n
    BY <1>1
  <2> HIDE DEF T
  <2> QED
    BY ONLY <2>1, <2>2, Zenon
<1> DEFINE buf == f[n]
           b == IF 2 * B(n) < N THEN 2 * B(n) ELSE N - 1
<1>7. \A L \in 0 .. N : (\A k \in 1 .. L : buf[k] # 0) => L <= b
  <2>1. PICK c \in Nat : c = B(n)
    BY <1>1
  <2>2. \A L \in 0 .. N : (\A k \in 1 .. L : buf[k] # 0) => L <= 2 * c /\ L < N
    BY <1>6, <2>1
  <2>3. b = IF 2 * c < N THEN 2 * c ELSE N - 1
    BY <2>1
  <2> HIDE DEF buf, b
  <2>4. ASSUME NEW L \in 0 .. N, \A k \in 1 .. L : buf[k] # 0 PROVE L <= b
    <3>1. L <= 2 * c /\ L < N
      BY <2>2, <2>4
    <3> QED
      BY ONLY <1>1, <2>3, <3>1, c \in Nat, L \in 0 .. N
  <2> QED
    BY <2>4
<1>8. b \in Nat /\ b < N /\ N \in Nat /\ b <= 2 * B(n) /\ B(n) \in Nat
  <2>1. PICK c \in Nat : c = B(n)
    BY <1>1
  <2> QED
    BY <1>1, <2>1
<1>9. buf \in [1 .. N -> Octet]
  BY <1>1, <1>3 DEF Buffer, N
<1>10. RegText = SubSeq(buf, 1, Min({k \in 1 .. N : buf[k] = 0}) - 1)
  BY <1>2
<1> HIDE DEF buf, b
<1> DEFINE text == RegText
<1>11. text = SubSeq(buf, 1, Min({k \in 1 .. N : buf[k] = 0}) - 1)
  BY <1>10
<1> HIDE DEF text
<1>12. text \in Seq(Char) /\ Len(text) <= b /\ StringIn(buf, text)
  BY ONLY <1>7, <1>8, <1>9, <1>11, FirstZero
<1>13. f \in RegRuns
  OBVIOUS
<1>14. Len(text) <= 2 * B(n)
  <2>1. PICK l \in Nat : l = Len(text)
    BY <1>12
  <2>2. PICK c \in Nat : c = B(n)
    BY <1>8
  <2>3. l <= b /\ b <= 2 * c /\ b \in Nat
    BY <1>8, <1>12, <2>1, <2>2
  <2>4. l <= 2 * c
    BY ONLY <2>3, l \in Nat, c \in Nat
  <2> QED
    BY ONLY <2>1, <2>2, <2>4
<1> QED
  BY <1>12, <1>13, <1>14 DEF buf, B, n, text

\* Where all registers are of one size, each lies behind the one before.
LEMMA RegTextExact ==
  ASSUME conf \in Config, regs \in RegFile, RegsWithin,
         NEW z \in Nat, \A i \in Reg : conf.sizes[i] = z
  PROVE  /\ Len(RegText) = 2 * Before(conf.sizes, RegNum)
         /\ \A i \in Reg : \A k \in 1 .. 2 * z :
              RegText[2 * Before(conf.sizes, i) + k] = hex_to_str(regs[i])[k]
<1> DEFINE n == RegNum
           N == MAX_SEND_PACKET_SIZE
           B(i) == Before(conf.sizes, i)
           hex(i) == hex_to_str(regs[i])
<1>1. /\ n \in Nat /\ N \in Nat /\ Reg = 0 .. n - 1 /\ conf.sizes \in [0 .. n - 1 -> Nat]
      /\ \A i \in 0 .. n - 1 : 2 * (i + 1) * z + 1 <= N
  <2>1. n \in Nat /\ conf.sizes \in [0 .. n - 1 -> Nat]
    BY TargetFacts
  <2>2. N \in 59 .. 4096
    BY SizesAssumption
  <2>3. Reg = 0 .. n - 1
    BY DEF Reg
  <2>4. \A i \in 0 .. n - 1 : 2 * (i + 1) * z + 1 <= N
    BY <2>3 DEF RegsWithin, RegEnd
  <2> HIDE DEF N
  <2>5. N \in Nat
    BY ONLY <2>2
  <2> QED
    BY ONLY <2>1, <2>3, <2>4, <2>5
<1>2. /\ B(0) = 0 /\ \A i \in 0 .. n : B(i) \in Nat
      /\ \A i \in 1 .. n : B(i) = B(i - 1) + conf.sizes[i - 1]
  <2> HIDE DEF n
  <2> QED
    BY ONLY <1>1, BeforeSteps
<1>3. \A i \in 0 .. n : B(i) = i * z
  <2>1. \A i \in 0 .. n - 1 : conf.sizes[i] = z
    BY <1>1
  <2> HIDE DEF n
  <2> QED
    BY ONLY <1>1, <2>1, z \in Nat, BeforeUniform
<1>4. /\ RegText \in Seq(Char) /\ Len(RegText) <= 2 * B(n)
      /\ \E f \in RegRuns : StringIn(f[n], RegText)
  BY RegTextFits
<1>5. PICK f \in RegRuns :
           /\ \A k \in 1 .. Len(RegText) : RegText[k] = f[n][k]
           /\ f[n][Len(RegText) + 1] = 0
  BY <1>4 DEF StringIn
<1>6. f \in [0 .. n -> Buffer] /\ \A i \in 1 .. n : f[i] = PutReg(f[i - 1], i - 1)
  BY DEF RegRuns
<1>7. ASSUME NEW i \in Reg PROVE hex(i) \in Seq(Char) /\ Len(hex(i)) = 2 * z
  <2>1. regs[i] \in Seq(Octet) /\ Len(regs[i]) = z
    BY DEF RegFile
  <2> QED
    BY <2>1, StubHex
<1>8. \A i \in Reg : \A k \in 1 .. 2 * z : hex(i)[k] # 0
  <2>1. \A c \in Char : c # 0
    BY DEF Char
  <2>2. ASSUME NEW i \in Reg, NEW k \in 1 .. 2 * z PROVE hex(i)[k] # 0
    <3>1. hex(i) \in Seq(Char) /\ Len(hex(i)) = 2 * z
      BY <1>7
    <3> HIDE DEF hex
    <3>2. hex(i)[k] \in Char
      BY ONLY <3>1, k \in 1 .. 2 * z
    <3> QED
      BY ONLY <2>1, <3>2, Zenon
  <2> QED
    BY <2>2
<1> HIDE DEF n, N, B, hex
<1> DEFINE T == {i \in 0 .. n :
                   /\ \A j \in 0 .. i - 1 :
                        /\ B(j) + z <= B(i)
                        /\ \A k \in 1 .. 2 * z : f[i][2 * B(j) + k] = hex(j)[k]
                   /\ \A k \in 1 .. 2 * B(i) : f[i][k] # 0}
<1>9. 0 \in T
  BY <1>1, <1>2
<1>10. ASSUME NEW i \in 0 .. n - 1, i \in T PROVE i + 1 \in T
  <2>1. i + 1 \in 1 .. n /\ i + 1 \in 0 .. n /\ (i + 1) - 1 = i /\ i \in 0 .. n /\ i \in Reg /\ i \in Nat
    BY <1>1
  <2>2. f[i + 1] = PutReg(f[i], i) /\ conf.sizes[i] = z
    <3>1. f[i + 1] = PutReg(f[(i + 1) - 1], (i + 1) - 1)
      BY ONLY <1>6, <2>1, Zenon
    <3> QED
      BY <2>1, <3>1
  <2>3. PICK b \in Nat : b = B(i)
    BY <1>2, <2>1
  <2>4. B(i + 1) = b + z /\ 2 * (b + z) + 1 <= N /\ b = i * z
    <3>1. B(i + 1) = B((i + 1) - 1) + conf.sizes[(i + 1) - 1]
      BY ONLY <1>2, <2>1, Zenon
    <3>2. B(i + 1) = b + z
      BY ONLY <2>1, <2>2, <2>3, <3>1
    <3>3. 2 * (i + 1) * z + 1 <= N
      BY <1>1
    <3>4. b = i * z
      BY <1>3, <2>1, <2>3
    <3>5. 2 * (i + 1) * z = 2 * (b + z)
      BY <2>1, <3>4
    <3> QED
      BY ONLY <3>2, <3>3, <3>4, <3>5
  <2> DEFINE at == 2 * b
  <2>5. at = 2 * i * conf.sizes[i] /\ at \in Nat
    BY <2>1, <2>2, <2>4
  <2> HIDE DEF at
  <2>6. \A k \in 1 .. N : f[i + 1][k] = IF k - at \in 1 .. 2 * z THEN hex(i)[k - at]
                                        ELSE IF k - at = 2 * z + 1 THEN 0 ELSE f[i][k]
    <3>1. f[i] \in Buffer
      BY <1>6, <2>1
    <3>2. \A k \in 1 .. N : PutReg(f[i], i)[k] =
             IF k - at \in 1 .. 2 * conf.sizes[i] THEN hex(i)[k - at]
             ELSE IF k - at = 2 * conf.sizes[i] + 1 THEN 0 ELSE f[i][k]
      BY <2>1, <2>5, <3>1, PutRegAt DEF N, hex
    <3> QED
      BY ONLY <2>2, <3>2, Zenon
  <2>7. ASSUME NEW k \in 1 .. 2 * z PROVE f[i + 1][at + k] = hex(i)[k]
    <3>1. at + k \in 1 .. N /\ (at + k) - at = k
      <4>1. N \in Nat
        BY <1>1
      <4> QED
        BY ONLY <2>4, <4>1, b \in Nat, z \in Nat, k \in 1 .. 2 * z DEF at
    <3>2. f[i + 1][at + k] = hex(i)[(at + k) - at]
      BY ONLY <2>6, <3>1, k \in 1 .. 2 * z
    <3> QED
      BY ONLY <3>1, <3>2
  <2>8. ASSUME NEW k \in 1 .. 2 * b PROVE f[i + 1][k] = f[i][k] /\ f[i + 1][k] # 0
    <3>1. k \in 1 .. N /\ k - at \notin 1 .. 2 * z /\ k - at # 2 * z + 1
      BY <1>1, <2>4, <2>5 DEF at
    <3>2. f[i + 1][k] = f[i][k]
      BY ONLY <2>6, <3>1, Zenon
    <3>3. f[i][k] # 0
      BY <1>10, <2>3
    <3> QED
      BY ONLY <3>2, <3>3
  <2>9. ASSUME NEW k \in 1 .. 2 * (b + z) PROVE f[i + 1][k] # 0
    <3>1. CASE k <= 2 * b
      <4>1. k \in 1 .. 2 * b
        BY <3>1
      <4> QED
        BY <2>8, <4>1
    <3>2. CASE ~(k <= 2 * b)
      <4> DEFINE l == k - at
      <4>1. l \in 1 .. 2 * z /\ at + l = k
        BY <2>5, <3>2 DEF at
      <4> HIDE DEF l
      <4>2. f[i + 1][k] = hex(i)[l]
        BY <2>7, <4>1
      <4>3. hex(i)[l] # 0
        BY <1>8, <2>1, <4>1
      <4> QED
        BY ONLY <4>2, <4>3
    <3> QED
      BY <3>1, <3>2
  <2>10. ASSUME NEW j \in 0 .. (i + 1) - 1
         PROVE  /\ B(j) + z <= B(i + 1)
                /\ \A k \in 1 .. 2 * z : f[i + 1][2 * B(j) + k] = hex(j)[k]
    <3>1. CASE j = i
      <4>1. B(j) = b /\ B(i + 1) = b + z
        BY ONLY <2>3, <2>4, <3>1, Zenon
      <4>2. 2 * B(j) = at /\ B(j) + z <= B(i + 1)
        BY ONLY <4>1, b \in Nat, z \in Nat DEF at
      <4> QED
        BY <2>7, <3>1, <4>2
    <3>2. CASE j # i
      <4>1. j \in 0 .. i - 1 /\ j \in 0 .. n
        BY <1>1, <3>2
      <4>2. PICK c \in Nat : c = B(j)
        BY <1>2, <4>1
      <4>3. c + z <= b /\ \A k \in 1 .. 2 * z : f[i][2 * c + k] = hex(j)[k]
        BY <1>10, <2>3, <4>1, <4>2
      <4>4. ASSUME NEW k \in 1 .. 2 * z PROVE f[i + 1][2 * c + k] = hex(j)[k]
        <5>1. 2 * c + k \in 1 .. 2 * b
          BY <4>3
        <5>2. f[i + 1][2 * c + k] = f[i][2 * c + k]
          BY ONLY <2>8, <5>1
        <5> QED
          BY <4>3, <5>2
      <4>5. B(j) + z <= B(i + 1)
        BY ONLY <2>4, <4>2, <4>3, b \in Nat, c \in Nat, z \in Nat
      <4> QED
        BY ONLY <4>2, <4>4, <4>5
    <3> QED
      BY <3>1, <3>2
  <2>11. \A k \in 1 .. 2 * B(i + 1) : f[i + 1][k] # 0
    BY ONLY <2>4, <2>9
  <2> QED
    BY ONLY <2>1, <2>10, <2>11
<1>11. n \in T
  <2>1. \A i \in 0 .. n : i \in T
    <3> HIDE DEF T
    <3> QED
      BY <1>1, <1>9, <1>10, UpTo
  <2>2. n \in 0 .. n
    BY <1>1
  <2> HIDE DEF T
  <2> QED
    BY ONLY <2>1, <2>2, Zenon
<1>12. PICK c \in Nat : c = B(n)
  BY <1>1, <1>2
<1>13. PICK l \in Nat : l = Len(RegText)
  BY <1>4
<1>14. l = 2 * c
  <2>1. l <= 2 * c
    BY <1>4, <1>12, <1>13
  <2>2. \A k \in 1 .. 2 * c : f[n][k] # 0
    BY <1>11, <1>12
  <2>3. l + 1 \notin 1 .. 2 * c
    BY <1>5, <1>13, <2>2
  <2> QED
    BY ONLY <2>1, <2>3, l \in Nat, c \in Nat
<1>15. ASSUME NEW i \in 0 .. n - 1, NEW k \in 1 .. 2 * z
       PROVE  RegText[2 * B(i) + k] = hex(i)[k]
  <2>1. PICK b \in Nat : b = B(i)
    BY <1>1, <1>2
  <2>2. b + z <= c /\ f[n][2 * b + k] = hex(i)[k]
    BY <1>11, <1>12, <2>1
  <2>3. 2 * b + k \in 1 .. l
    BY <1>14, <2>2
  <2>4. RegText[2 * b + k] = f[n][2 * b + k]
    BY <1>5, <1>13, <2>3
  <2> QED
    BY ONLY <2>1, <2>2, <2>4
<1> QED
  BY <1>1, <1>12, <1>13, <1>14, <1>15 DEF n, B, hex

\* A window that holds the digits of some bytes is read as those bytes.
LEMMA WindowRead ==
  ASSUME NEW text \in Seq(Char), NEW v \in Seq(Octet), NEW g \in Nat, NEW z \in Nat,
         Len(v) = z, g + 2 * z <= Len(text),
         \A k \in 1 .. 2 * z : text[g + k] = hex_to_str(v)[k]
  PROVE  str_to_hex(SubSeq(text, g + 1, g + 2 * z), z) = v
<1> DEFINE l == 2 * z
           w == SubSeq(text, g + 1, g + l)
           hex == hex_to_str(v)
<1>1. l \in Nat /\ g + l <= Len(text)
  OBVIOUS
<1>2. hex \in Seq(Char) /\ Len(hex) = l /\ str_to_hex(hex, z) = v
  BY StubHex
<1>3. \A k \in 1 .. l : text[g + k] = hex[k]
  OBVIOUS
<1>4. w = SubSeq(text, g + 1, g + l)
  OBVIOUS
<1> HIDE DEF w, hex, l
<1>5. w \in Seq(Char) /\ Len(w) = l /\ \A i \in 1 .. l : w[i] = text[g + i]
  BY ONLY text \in Seq(Char), g \in Nat, <1>1, <1>4, WindowOf
<1>6. w = hex
  BY ONLY <1>1, <1>2, <1>3, <1>5, SeqEqual
<1>7. str_to_hex(w, z) = v
  BY ONLY <1>2, <1>6
<1> QED
  BY ONLY <1>7 DEF w, l

\* process_reg_read and the client: on a target whose registers are all of one
\* size, the client learns the registers the target has.
LEMMA UniformLearnt ==
  ASSUME conf \in Config, regs \in RegFile, RegsWithin,
         \A i, j \in Reg : conf.sizes[i] = conf.sizes[j]
  PROVE  Learnt(RegText) = regs
<1> DEFINE text == RegText
           B(i) == Before(conf.sizes, i)
<1>1. RegNum \in Nat \ {0} /\ Reg = 0 .. RegNum - 1 /\ conf.sizes \in [0 .. RegNum - 1 -> Nat]
  BY TargetFacts DEF Reg
<1>2. PICK z \in Nat : \A i \in Reg : conf.sizes[i] = z
  <2>1. 0 \in Reg /\ conf.sizes[0] \in Nat
    BY <1>1
  <2> QED
    BY <2>1
<1>3. text \in Seq(Char)
  BY RegTextFits
<1>4. Len(text) = 2 * B(RegNum) /\ \A i \in Reg : \A k \in 1 .. 2 * z : text[2 * B(i) + k] = hex_to_str(regs[i])[k]
  BY <1>2, RegTextExact
<1>5. ASSUME NEW i \in Reg PROVE Learnt(text)[i] = regs[i]
  <2>1. regs[i] \in Seq(Octet) /\ Len(regs[i]) = z
    BY <1>2 DEF RegFile
  <2>2. \A j \in 0 .. RegNum : B(j) = j * z
    <3> DEFINE n == RegNum
    <3>1. n \in Nat /\ conf.sizes \in [0 .. n - 1 -> Nat] /\ \A j \in 0 .. n - 1 : conf.sizes[j] = z
      BY <1>1, <1>2
    <3> HIDE DEF n
    <3>2. \A j \in 0 .. n : Before(conf.sizes, j) = j * z
      BY ONLY <3>1, z \in Nat, BeforeUniform
    <3> QED
      BY ONLY <3>2 DEF n
  <2> DEFINE g == 2 * B(i)
  <2>3. g \in Nat /\ g + 2 * z <= Len(text)
    <3>1. i \in 0 .. RegNum /\ RegNum \in 0 .. RegNum /\ i \in Nat /\ RegNum \in Nat /\ i + 1 <= RegNum
      BY <1>1
    <3>2. B(i) = i * z /\ B(RegNum) = RegNum * z
      BY ONLY <2>2, <3>1
    <3>3. PICK d \in Nat : RegNum = i + 1 + d
      <4>1. RegNum - (i + 1) \in Nat /\ RegNum = i + 1 + (RegNum - (i + 1))
        BY ONLY <3>1
      <4> QED
        BY ONLY <4>1
    <3>4. /\ RegNum * z = i * z + z + d * z /\ i * z \in Nat /\ d * z \in Nat
      BY ONLY <3>1, <3>3, z \in Nat
    <3>5. Len(text) = 2 * (i * z + z + d * z) /\ g = 2 * (i * z)
      BY ONLY <1>4, <3>2, <3>4
    <3> QED
      BY ONLY <3>4, <3>5, z \in Nat
  <2>4. \A k \in 1 .. 2 * z : text[g + k] = hex_to_str(regs[i])[k]
    BY <1>4
  <2> HIDE DEF g, text, B
  <2>5. str_to_hex(SubSeq(text, g + 1, g + 2 * z), z) = regs[i]
    BY ONLY <1>3, <2>1, <2>3, <2>4, z \in Nat, WindowRead
  <2>6. Learnt(text)[i] = IF g + 2 * conf.sizes[i] <= Len(text)
                          THEN str_to_hex(SubSeq(text, g + 1, g + 2 * conf.sizes[i]), conf.sizes[i])
                          ELSE view.regs[i]
    BY DEF Learnt, g, B
  <2>7. conf.sizes[i] = z
    BY <1>2
  <2> QED
    BY ONLY <2>3, <2>5, <2>6, <2>7
<1>6. Learnt(text) = [i \in Reg |-> Learnt(text)[i]]
  BY DEF Learnt
<1>7. regs = [i \in Reg |-> regs[i]]
  BY DEF RegFile
<1> HIDE DEF text
<1>8. Learnt(text) = regs
  BY ONLY <1>5, <1>6, <1>7
<1> QED
  BY <1>8 DEF text

\* The text of G: all registers, one after another
AllRegs(v) == FlattenSeq([j \in 1 .. RegNum |-> ClientHex(v[j - 1], FALSE)])

\* process_reg_write finds every register in the text the client sends.
LEMMA SentRegs ==
  ASSUME conf \in Config, NEW v \in RegFile, NEW i \in Reg
  PROVE  str_to_hex(SubSeq(AllRegs(v), 2 * Offset(i) + 1, 2 * (Offset(i) + conf.sizes[i])),
                    conf.sizes[i]) = v[i]
<1> DEFINE n == RegNum
           pieces == [j \in 1 .. n |-> ClientHex(v[j - 1], FALSE)]
           B(j) == Before(conf.sizes, j)
           text == AllRegs(v)
<1>1. n \in Nat /\ Reg = 0 .. n - 1 /\ conf.sizes \in [0 .. n - 1 -> Nat]
  BY TargetFacts DEF Reg
<1>2. /\ B(0) = 0 /\ \A j \in 0 .. n : B(j) \in Nat
      /\ \A j \in 1 .. n : B(j) = B(j - 1) + conf.sizes[j - 1]
  <2> HIDE DEF n
  <2> QED
    BY ONLY <1>1, BeforeSteps
<1>3. ASSUME NEW j \in 1 .. n
      PROVE  /\ j - 1 \in Reg /\ ClientHex(v[j - 1], FALSE) \in Seq(Char)
             /\ Len(ClientHex(v[j - 1], FALSE)) = 2 * conf.sizes[j - 1]
  <2>1. j - 1 \in Reg
    BY <1>1
  <2>2. v[j - 1] \in Seq(Octet) /\ Len(v[j - 1]) = conf.sizes[j - 1]
    BY <2>1 DEF RegFile
  <2> QED
    BY <2>1, <2>2, HexText
<1>4. text = FlattenSeq(pieces)
  BY DEF AllRegs
<1> HIDE DEF n, text
<1>5. pieces \in Seq(Seq(Char)) /\ Len(pieces) = n /\ \A j \in 1 .. n : pieces[j] = ClientHex(v[j - 1], FALSE)
  <2>1. pieces \in [1 .. n -> Seq(Char)]
    BY <1>3
  <2>2. \A j \in 1 .. n : pieces[j] = ClientHex(v[j - 1], FALSE)
    OBVIOUS
  <2>3. n \in Nat
    BY <1>1
  <2> HIDE DEF pieces
  <2>4. pieces \in Seq(Seq(Char)) /\ Len(pieces) = n
    BY ONLY <2>1, <2>3, AsSeq
  <2> QED
    BY ONLY <2>2, <2>4
<1> HIDE DEF pieces
<1>6. text \in Seq(Char)
  BY <1>4, <1>5, FlattenAt
<1>7. PICK off \in [0 .. n -> Nat] :
           /\ off[0] = 0 /\ Len(text) = off[n]
           /\ \A j \in 1 .. n : off[j] = off[j - 1] + Len(pieces[j])
           /\ \A j \in 0 .. n : off[j] <= Len(text)
           /\ \A j \in 1 .. n : \A k \in 1 .. Len(pieces[j]) : text[off[j - 1] + k] = pieces[j][k]
  <2>1. \E off \in [0 .. Len(pieces) -> Nat] :
           /\ off[0] = 0 /\ Len(FlattenSeq(pieces)) = off[Len(pieces)]
           /\ \A j \in 1 .. Len(pieces) : off[j] = off[j - 1] + Len(pieces[j])
           /\ \A j \in 0 .. Len(pieces) : off[j] <= Len(FlattenSeq(pieces))
           /\ \A j \in 1 .. Len(pieces) : \A k \in 1 .. Len(pieces[j]) :
                 FlattenSeq(pieces)[off[j - 1] + k] = pieces[j][k]
    BY ONLY <1>5, FlattenAt, Zenon
  <2>2. Len(pieces) = n /\ FlattenSeq(pieces) = text
    BY <1>4, <1>5
  <2> QED
    BY ONLY <2>1, <2>2
<1> HIDE DEF B
<1> DEFINE T == {j \in 0 .. n : off[j] = 2 * B(j)}
<1>8. 0 \in T
  BY <1>1, <1>2, <1>7
<1>9. ASSUME NEW j \in 0 .. n - 1, j \in T PROVE j + 1 \in T
  <2>1. j + 1 \in 1 .. n /\ j + 1 \in 0 .. n /\ (j + 1) - 1 = j /\ j \in 0 .. n /\ j \in 0 .. n - 1
    BY <1>1
  <2>2. /\ off[j + 1] = off[(j + 1) - 1] + Len(pieces[j + 1])
        /\ B(j + 1) = B((j + 1) - 1) + conf.sizes[(j + 1) - 1]
        /\ Len(pieces[j + 1]) = 2 * conf.sizes[(j + 1) - 1]
    <3>1. off[j + 1] = off[(j + 1) - 1] + Len(pieces[j + 1])
      BY ONLY <1>7, <2>1, Zenon
    <3>2. B(j + 1) = B((j + 1) - 1) + conf.sizes[(j + 1) - 1]
      BY ONLY <1>2, <2>1, Zenon
    <3>3. pieces[j + 1] = ClientHex(v[(j + 1) - 1], FALSE)
      BY ONLY <1>5, <2>1, Zenon
    <3>4. Len(ClientHex(v[(j + 1) - 1], FALSE)) = 2 * conf.sizes[(j + 1) - 1]
      BY ONLY <1>3, <2>1, Zenon
    <3> QED
      BY ONLY <3>1, <3>2, <3>3, <3>4, Zenon
  <2>3. PICK z \in Nat : z = conf.sizes[j]
    BY <1>1
  <2>4. PICK b \in Nat : b = B(j)
    BY <1>2, <2>1
  <2>5. off[j] = 2 * b
    BY <1>9, <2>4
  <2>6. off[j + 1] = 2 * b + 2 * z /\ B(j + 1) = b + z
    BY ONLY <2>1, <2>2, <2>3, <2>4, <2>5
  <2>7. off[j + 1] = 2 * B(j + 1)
    BY ONLY <2>6, b \in Nat, z \in Nat
  <2> QED
    BY ONLY <2>1, <2>7
<1>10. \A j \in 0 .. n : j \in T
  <2> HIDE DEF T
  <2> QED
    BY ONLY <1>1, <1>8, <1>9, UpTo
<1>11. i + 1 \in 1 .. n /\ i + 1 \in 0 .. n /\ (i + 1) - 1 = i /\ i \in 0 .. n
  BY <1>1
<1>12. PICK z \in Nat : z = conf.sizes[i]
  BY <1>1
<1>13. PICK b \in Nat : b = B(i)
  BY <1>2, <1>11
<1> DEFINE g == 2 * b
<1>14. off[i] = g /\ g \in Nat
  BY <1>10, <1>11, <1>13
<1>15. v[i] \in Seq(Octet) /\ Len(v[i]) = z
  BY <1>12 DEF RegFile
<1> HIDE DEF T, g
<1>16. pieces[i + 1] = hex_to_str(v[i]) /\ Len(hex_to_str(v[i])) = 2 * z
  <2>1. pieces[i + 1] = ClientHex(v[(i + 1) - 1], FALSE)
    BY ONLY <1>5, <1>11, Zenon
  <2>2. hex_to_str(v[i]) = ClientHex(v[i], FALSE) /\ Len(hex_to_str(v[i])) = 2 * Len(v[i])
    BY <1>15, StubHex
  <2> QED
    BY ONLY <1>11, <1>15, <2>1, <2>2
<1>17. \A k \in 1 .. 2 * z : text[g + k] = hex_to_str(v[i])[k]
  <2>1. \A k \in 1 .. Len(pieces[i + 1]) : text[off[(i + 1) - 1] + k] = pieces[i + 1][k]
    BY ONLY <1>7, <1>11, Zenon
  <2> QED
    BY ONLY <1>11, <1>14, <1>16, <2>1
<1>18. g + 2 * z <= Len(text)
  <2>1. off[i + 1] = off[(i + 1) - 1] + Len(pieces[i + 1]) /\ off[i + 1] <= Len(text)
    BY ONLY <1>7, <1>11, Zenon
  <2> QED
    BY ONLY <1>11, <1>14, <1>16, <2>1
<1>19. str_to_hex(SubSeq(text, g + 1, g + 2 * z), z) = v[i]
  BY ONLY <1>6, <1>14, <1>15, <1>17, <1>18, z \in Nat, WindowRead
<1>20. Offset(i) = b
  BY <1>13 DEF Offset, B
<1>21. 2 * (b + z) = g + 2 * z
  BY DEF g
<1>22. str_to_hex(SubSeq(text, 2 * b + 1, 2 * (b + z)), z) = v[i]
  BY ONLY <1>19, <1>21 DEF g
<1> QED
  BY ONLY <1>12, <1>20, <1>22 DEF text

----------------------------------------------------------------------------
\* The text of threads

\* GDB reads the decimal digits of a number as hexadecimal ones.
LEMMA IdRead ==
  ASSUME NEW text, NEW from \in Nat, NEW n \in Nat,
         \A k \in 1 .. 4 : text[from + k] = 48 + Digits(n, 10)[k]
  PROVE  ClientId(text, from) = Id(n)
<1> DEFINE d == [k \in 1 .. 4 |-> text[from + k] - 48]
           e == Digits(n, 10)
<1>1. \A k \in 1 .. 4 : e[k] \in 0 .. 9
  BY FourDigits
<1> HIDE DEF e
<1>2. ASSUME NEW k \in 1 .. 4 PROVE d[k] = e[k]
  <2>1. PICK x \in 0 .. 9 : x = e[k]
    BY <1>1
  <2>2. text[from + k] = 48 + x
    BY <2>1 DEF e
  <2> QED
    BY <2>1, <2>2
<1> HIDE DEF d
<1>3. d[1] = e[1] /\ d[2] = e[2] /\ d[3] = e[3] /\ d[4] = e[4]
  BY <1>2
<1>4. Value(d, 16) = Value(e, 16)
  BY <1>3 DEF Value
<1> QED
  BY <1>4 DEF ClientId, Id, d, e

\* The answer to qC
LEMMA CpuRead ==
  ASSUME cpu \in Nat
  PROVE  CpuText \in Seq(Char) /\ Len(CpuText) = 6 /\ ClientId(CpuText, 2) = Id(cpu)
<1> DEFINE q == <<81, 67>>
           t == Decimal(cpu, 4)
           s == q \o t
<1>1. q \in Seq(Char) /\ Len(q) = 2
  BY DEF Char
<1>2. t \in Seq(Char) /\ Len(t) = 4 /\ \A k \in 1 .. 4 : t[k] = 48 + Digits(cpu, 10)[k]
  BY NumberText
<1> HIDE DEF q, t
<1>3. q \in Seq(Char) /\ t \in Seq(Char)
  BY <1>1, <1>2
<1>4. /\ s \in Seq(Char) /\ Len(s) = Len(q) + Len(t)
      /\ \A i \in 1 .. Len(q) + Len(t) : s[i] = IF i <= Len(q) THEN q[i] ELSE t[i - Len(q)]
  BY ONLY <1>3, Joined
<1> HIDE DEF s
<1>5. /\ s \in Seq(Char) /\ Len(s) = 6
      /\ \A i \in 1 .. 6 : s[i] = IF i <= 2 THEN q[i] ELSE t[i - 2]
  BY ONLY <1>1, <1>2, <1>4
<1>6. ASSUME NEW k \in 1 .. 4 PROVE s[2 + k] = 48 + Digits(cpu, 10)[k]
  <2>1. 2 + k \in 1 .. 6 /\ ~(2 + k <= 2) /\ (2 + k) - 2 = k
    OBVIOUS
  <2> QED
    BY <1>2, <1>5, <2>1
<1>7. ClientId(s, 2) = Id(cpu)
  BY <1>6, IdRead
<1>8. CpuText = s
  BY DEF CpuText, s, q, t
<1> QED
  BY ONLY <1>5, <1>7, <1>8

\* The answer to qfThreadInfo
LEMMA ThreadsRead ==
  ASSUME conf \in Config
  PROVE  /\ ThreadText \in Seq(Char) /\ Len(ThreadText) = 5 * Smp + 1
         /\ \A c \in 0 .. Smp - 1 : ClientId(ThreadText, 5 * c + 1) = Id(c)
<1> DEFINE n == Smp
           piece(c) == Decimal(c - 1, 4) \o <<44>>
           pieces == [c \in 1 .. n |-> piece(c)]
           text == FlattenSeq(pieces)
<1>1. n \in Nat
  <2>1. Smp \in Nat \ {0}
    BY TargetFacts
  <2> QED
    BY ONLY <2>1
<1>2. ASSUME NEW c \in 1 .. n
      PROVE  /\ piece(c) \in Seq(Char) /\ Len(piece(c)) = 5
             /\ \A k \in 1 .. 4 : piece(c)[k] = 48 + Digits(c - 1, 10)[k]
  <2> DEFINE t == Decimal(c - 1, 4)
             u == <<44>>
             s == t \o u
  <2>1. c - 1 \in Nat
    BY <1>1
  <2>2. t \in Seq(Char) /\ Len(t) = 4 /\ \A k \in 1 .. 4 : t[k] = 48 + Digits(c - 1, 10)[k]
    BY <2>1, NumberText
  <2>3. u \in Seq(Char) /\ Len(u) = 1
    BY DEF Char
  <2> HIDE DEF t, u
  <2>4. t \in Seq(Char) /\ u \in Seq(Char)
    BY <2>2, <2>3
  <2>5. /\ s \in Seq(Char) /\ Len(s) = Len(t) + Len(u)
        /\ \A i \in 1 .. Len(t) + Len(u) : s[i] = IF i <= Len(t) THEN t[i] ELSE u[i - Len(t)]
    BY ONLY <2>4, Joined
  <2> HIDE DEF s
  <2>6. Len(s) = 5 /\ \A k \in 1 .. 4 : s[k] = t[k]
    BY ONLY <2>2, <2>3, <2>5
  <2>7. piece(c) = s
    BY DEF s, t, u
  <2> QED
    BY ONLY <2>2, <2>5, <2>6, <2>7
<1> HIDE DEF piece, n
<1>3. /\ pieces \in Seq(Seq(Char)) /\ Len(pieces) = n
      /\ \A c \in 1 .. n : pieces[c] = piece(c)
  <2>1. pieces \in [1 .. n -> Seq(Char)]
    BY <1>2
  <2>2. \A c \in 1 .. n : pieces[c] = piece(c)
    OBVIOUS
  <2> HIDE DEF pieces
  <2>3. pieces \in Seq(Seq(Char)) /\ Len(pieces) = n
    BY ONLY <1>1, <2>1, AsSeq
  <2> QED
    BY ONLY <2>2, <2>3
<1>4. ThreadText = <<109>> \o text
  BY DEF ThreadText, n, piece
<1> HIDE DEF pieces
<1>5. text \in Seq(Char)
  BY <1>3, FlattenAt
<1>6. PICK off \in [0 .. n -> Nat] :
           /\ off[0] = 0 /\ Len(text) = off[n]
           /\ \A j \in 1 .. n : off[j] = off[j - 1] + Len(pieces[j])
           /\ \A j \in 0 .. n : off[j] <= Len(text)
           /\ \A j \in 1 .. n : \A k \in 1 .. Len(pieces[j]) : text[off[j - 1] + k] = pieces[j][k]
  <2>1. \E off \in [0 .. Len(pieces) -> Nat] :
           /\ off[0] = 0 /\ Len(FlattenSeq(pieces)) = off[Len(pieces)]
           /\ \A j \in 1 .. Len(pieces) : off[j] = off[j - 1] + Len(pieces[j])
           /\ \A j \in 0 .. Len(pieces) : off[j] <= Len(FlattenSeq(pieces))
           /\ \A j \in 1 .. Len(pieces) : \A k \in 1 .. Len(pieces[j]) :
                 FlattenSeq(pieces)[off[j - 1] + k] = pieces[j][k]
    BY ONLY <1>3, FlattenAt, Zenon
  <2>2. Len(pieces) = n /\ FlattenSeq(pieces) = text
    BY <1>3
  <2> HIDE DEF text
  <2> QED
    BY ONLY <2>1, <2>2
<1> HIDE DEF text
<1> DEFINE T == {j \in 0 .. n : off[j] = 5 * j}
<1>7. 0 \in T
  BY <1>1, <1>6
<1>8. ASSUME NEW j \in 0 .. n - 1, j \in T PROVE j + 1 \in T
  <2>1. j + 1 \in 1 .. n /\ j + 1 \in 0 .. n /\ (j + 1) - 1 = j
    BY <1>1
  <2>2. off[j + 1] = off[(j + 1) - 1] + Len(pieces[j + 1])
    BY ONLY <1>6, <2>1, Zenon
  <2>3. Len(pieces[j + 1]) = 5
    <3>1. pieces[j + 1] = piece(j + 1) /\ Len(piece(j + 1)) = 5
      BY ONLY <1>2, <1>3, <2>1, Zenon
    <3> QED
      BY ONLY <3>1
  <2>4. off[j] = 5 * j
    BY <1>8
  <2>5. off[j + 1] = 5 * j + 5
    BY ONLY <2>1, <2>2, <2>3, <2>4
  <2>6. off[j + 1] = 5 * (j + 1)
    BY <1>1, <2>5
  <2> QED
    BY ONLY <2>1, <2>6
<1>9. \A j \in 0 .. n : off[j] = 5 * j
  <2>1. \A j \in 0 .. n : j \in T
    <3> HIDE DEF T
    <3> QED
      BY ONLY <1>1, <1>7, <1>8, UpTo
  <2> QED
    BY <2>1
<1> HIDE DEF T
<1>10. Len(text) = 5 * n
  BY ONLY <1>1, <1>6, <1>9
<1> DEFINE m == <<109>>
           s == m \o text
<1>11. m \in Seq(Char) /\ Len(m) = 1
  BY DEF Char
<1> HIDE DEF m
<1>12. /\ s \in Seq(Char) /\ Len(s) = Len(m) + Len(text)
       /\ \A i \in 1 .. Len(m) + Len(text) : s[i] = IF i <= Len(m) THEN m[i] ELSE text[i - Len(m)]
  <2>1. m \in Seq(Char) /\ text \in Seq(Char)
    BY <1>5, <1>11
  <2> QED
    BY ONLY <2>1, Joined
<1> HIDE DEF s
<1>13. Len(s) = 5 * n + 1 /\ \A i \in 2 .. 5 * n + 1 : s[i] = text[i - 1]
  BY ONLY <1>1, <1>10, <1>11, <1>12
<1>14. ASSUME NEW c \in 0 .. n - 1 PROVE ClientId(s, 5 * c + 1) = Id(c)
  <2>1. c + 1 \in 1 .. n /\ (c + 1) - 1 = c /\ c \in 0 .. n /\ c \in Nat
    BY <1>1
  <2>2. \A k \in 1 .. 4 : text[5 * c + k] = 48 + Digits(c, 10)[k]
    <3>1. \A k \in 1 .. Len(pieces[c + 1]) : text[off[(c + 1) - 1] + k] = pieces[c + 1][k]
      BY ONLY <1>6, <2>1, Zenon
    <3>2. /\ pieces[c + 1] = piece(c + 1) /\ Len(piece(c + 1)) = 5
          /\ \A k \in 1 .. 4 : piece(c + 1)[k] = 48 + Digits((c + 1) - 1, 10)[k]
      BY ONLY <1>2, <1>3, <2>1, Zenon
    <3>3. off[c] = 5 * c
      BY ONLY <1>9, <2>1
    <3>4. \A k \in 1 .. 4 : k \in 1 .. 5
      OBVIOUS
    <3>5. \A k \in 1 .. 4 : text[off[(c + 1) - 1] + k] = 48 + Digits((c + 1) - 1, 10)[k]
      BY ONLY <3>1, <3>2, <3>4
    <3> QED
      BY ONLY <2>1, <3>3, <3>5
  <2> DEFINE from == 5 * c + 1
  <2>3. ASSUME NEW k \in 1 .. 4 PROVE s[from + k] = 48 + Digits(c, 10)[k]
    <3>1. from + k \in 2 .. 5 * n + 1 /\ (from + k) - 1 = 5 * c + k
      BY <1>1
    <3>2. s[from + k] = text[(from + k) - 1]
      BY ONLY <1>13, <3>1
    <3> QED
      BY ONLY <2>2, <3>1, <3>2, k \in 1 .. 4
  <2>4. from \in Nat
    BY <2>1
  <2> HIDE DEF from
  <2>5. ClientId(s, from) = Id(c)
    BY ONLY <2>1, <2>3, <2>4, IdRead
  <2> QED
    BY ONLY <2>5 DEF from
<1>15. ThreadText = s
  BY <1>4 DEF s, m
<1> QED
  BY ONLY <1>12, <1>13, <1>14, <1>15 DEF n

----------------------------------------------------------------------------
\* What the client believes

\* The CPUs whose numbers have four digits: nobody hears of the others.
Cpus == {c \in 0 .. Smp - 1 : c < 10000}

\* The target keeps the shape its description gives it, and the buffer of
\* regbuf.c holds every register that went through it.
StateInv ==
    /\ conf \in Config /\ regs \in RegFile /\ mem \in Memory /\ cpu \in Cpus
    /\ BufferInv

\* Every answer is a text, and it fits unless the request is for too much.
AnswerInv ==
    /\ reply \in Seq(Char)
    /\ event \in {"NONE", "CONT", "STEP", "DETACH"}
    /\ end \in {"no", "detach", "assert", "null", "overrun"}
    /\ advert \subseteq {"c", "s", "xfer", "noack"}
    /\ AnswersFit

\* What the client believes: it knows of no thread but the CPUs.
BeliefInv ==
    /\ DOMAIN view = {"regs", "mem", "thread", "threads"}
    /\ view.thread = Id(cpu)
    /\ view.threads \subseteq {Id(c) : c \in Cpus}
    /\ cause \subseteq {"errno", "xwrite", "mixed", "rollback"}
    /\ MemoryViewExact /\ RegisterViewExact

ViewInv == StateInv /\ AnswerInv /\ BeliefInv

\* A text that fits is sent.
LEMMA Sent ==
  ASSUME NEW text \in Seq(Char), Len(text) + 6 <= MAX_SEND_PACKET_SIZE,
         conn_send_pktstr(text)
  PROVE  reply' = text /\ reply' \in Seq(Char) /\ end' = "no"
<1>1. MAX_SEND_PACKET_SIZE \in 59 .. 4096
  BY SizesAssumption
<1>2. Len(text) \in Nat
  OBVIOUS
<1>3. Fits(text)
  BY ONLY <1>1, <1>2, Len(text) + 6 <= MAX_SEND_PACKET_SIZE DEF Fits, CSUM_SIZE
<1> QED
  BY <1>3 DEF conn_send_pktstr

\* The texts that are no longer than the answer to qSupported
Short == {text \in Seq(Char) : Len(text) <= 53}

\* They fit.
LEMMA ShortSent ==
  ASSUME NEW text \in Short, conn_send_pktstr(text)
  PROVE  reply' = text /\ reply' \in Seq(Char) /\ end' = "no"
<1>1. MAX_SEND_PACKET_SIZE \in 59 .. 4096
  BY SizesAssumption
<1>2. text \in Seq(Char) /\ Len(text) \in Nat /\ Len(text) <= 53
  BY DEF Short
<1>3. Len(text) + 6 <= MAX_SEND_PACKET_SIZE
  <2>1. PICK l \in Nat : l = Len(text)
    BY <1>2
  <2>2. l <= 53
    BY <1>2, <2>1
  <2>3. l + 6 <= MAX_SEND_PACKET_SIZE
    BY ONLY <1>1, <2>2, l \in Nat
  <2> QED
    BY ONLY <2>1, <2>3
<1> QED
  BY <1>2, <1>3, Sent

\* They fit the array of a handler, too.
LEMMA ShortWritten ==
  ASSUME NEW text \in Short, SendWritten({Len(text) + 1}, text)
  PROVE  reply' = text /\ reply' \in Seq(Char) /\ end' = "no"
<1>1. PICK l \in Nat : l = Len(text) /\ l <= 53
  BY DEF Short
<1>2. MAX_SEND_PACKET_SIZE \in 59 .. 4096
  BY SizesAssumption
<1>3. l + 1 <= MAX_SEND_PACKET_SIZE
  <2>1. l <= 53
    BY <1>1
  <2> QED
    BY ONLY <1>2, <2>1, l \in Nat
<1>4. conn_send_pktstr(text)
  BY <1>1, <1>3 DEF SendWritten
<1> QED
  BY <1>4, ShortSent

\* The constant texts
LEMMA ShortTexts ==
  <<>> \in Short /\ Ok \in Short /\ EPERM \in Short /\ EINVAL \in Short
BY DEF Short, Ok, EPERM, EINVAL, Char

\* The texts nobody looks into
LEMMA OpaqueShort ==
  ASSUME NEW n \in 0 .. 53
  PROVE  Opaque(n) \in Short
<1>1. Opaque(n) \in [1 .. n -> Char]
  BY DEF Opaque, Char
<1>2. Opaque(n) \in Seq(Char) /\ Len(Opaque(n)) = n
  <2>1. n \in Nat
    OBVIOUS
  <2> QED
    BY ONLY <1>1, <2>1, AsSeq
<1> QED
  BY <1>2 DEF Short

\* What a refusal is answered with, and what the client makes of it
LEMMA Refusals ==
  ASSUME NEW ret \in Errno
  PROVE  /\ ErrText(ret) \in Short /\ Result(ret) = ErrText(ret) /\ ret # 0
         /\ Len(ErrText(ret)) \in {2, 3}
         /\ IsError(ErrText(ret)) <=> Len(ErrText(ret)) = 3
         /\ Misread(ret) = IF IsError(ErrText(ret)) THEN {} ELSE {"errno"}
<1>1. ret \in 1 .. 99
  BY SizesAssumption
<1> DEFINE text == ErrText(ret)
<1>2. /\ text \in Seq(Char) /\ Len(text) = (IF ret < 10 THEN 2 ELSE 3) /\ text[1] = 69
  BY <1>1, ErrorText
<1>3. ret # 0
  BY <1>1
<1>4. Result(ret) = text
  BY <1>3 DEF Result
<1>5. Misread(ret) = IF IsError(text) THEN {} ELSE {"errno"}
  BY <1>3 DEF Misread
<1> HIDE DEF text
<1>6. text \in Short /\ Len(text) \in {2, 3}
  <2>1. Len(text) = 2 \/ Len(text) = 3
    BY ONLY <1>2
  <2>2. Len(text) <= 53
    <3>1. PICK l \in {2, 3} : l = Len(text)
      BY ONLY <2>1
    <3>2. l <= 53
      OBVIOUS
    <3> QED
      BY ONLY <3>1, <3>2
  <2> QED
    BY <1>2, <2>1, <2>2 DEF Short
<1>7. IsError(text) <=> Len(text) = 3
  BY <1>2 DEF IsError
<1> QED
  BY ONLY <1>3, <1>4, <1>5, <1>6, <1>7 DEF text

\* A success is answered with "OK", which is no error.
LEMMA Successes ==
  /\ Result(0) = Ok /\ ~IsError(Ok) /\ Misread(0) = {}
BY DEF Result, Ok, IsError, Misread

\* A step that leaves the target and the client's belief alone
LEMMA Unmoved ==
  ASSUME StateInv, BeliefInv, UNCHANGED <<conf, regs, mem, cpu, regbuf, widest, view, cause>>
  PROVE  StateInv' /\ BeliefInv'
<1>1. StateInv'
  BY DEF StateInv, RegFile, Reg, RegNum, Memory, Smp, Cpus, BufferInv
<1>2. BeliefInv'
  BY DEF BeliefInv, MemoryViewExact, RegisterViewExact, Smp, Cpus
<1> QED
  BY <1>1, <1>2

\* The requests that concern registers leave the rest of the belief alone.
LEMMA RegBelief ==
  ASSUME BeliefInv, cause = {}, UNCHANGED <<conf, mem, cpu>>,
         view' = view \/ \E r : view' = [view EXCEPT !.regs = r],
         cause' \subseteq {"errno", "mixed", "rollback"},
         cause' = {} => view'.regs = regs'
  PROVE  BeliefInv'
<1>1. /\ DOMAIN view' = {"regs", "mem", "thread", "threads"} /\ view'.mem = view.mem
      /\ view'.thread = view.thread /\ view'.threads = view.threads
  BY DEF BeliefInv
<1>2. view.mem = mem
  BY DEF BeliefInv, MemoryViewExact
<1>3. MemoryViewExact'
  BY <1>1, <1>2 DEF MemoryViewExact
<1>4. RegisterViewExact'
  BY DEF RegisterViewExact
<1>5. Cpus' = Cpus
  BY DEF Smp, Cpus
<1> QED
  BY <1>1, <1>3, <1>4, <1>5 DEF BeliefInv

\* The same for the requests that concern memory
LEMMA MemBelief ==
  ASSUME BeliefInv, cause = {}, UNCHANGED <<conf, regs, cpu>>,
         view' = view \/ \E m : view' = [view EXCEPT !.mem = m],
         cause' \subseteq {"errno", "xwrite"},
         cause' = {} => view'.mem = mem'
  PROVE  BeliefInv'
<1>1. /\ DOMAIN view' = {"regs", "mem", "thread", "threads"} /\ view'.regs = view.regs
      /\ view'.thread = view.thread /\ view'.threads = view.threads
  BY DEF BeliefInv
<1>2. view.regs = regs
  BY DEF BeliefInv, RegisterViewExact
<1>3. RegisterViewExact'
  BY <1>1, <1>2 DEF RegisterViewExact
<1>4. MemoryViewExact'
  BY DEF MemoryViewExact
<1>5. Cpus' = Cpus
  BY DEF Smp, Cpus
<1> QED
  BY <1>1, <1>3, <1>4, <1>5 DEF BeliefInv

\* Registers that keep their sizes
LEMMA RegState ==
  ASSUME StateInv, UNCHANGED <<conf, mem, cpu>>, regs' \in RegFile, BufferInv'
  PROVE  StateInv'
<1>1. RegFile' = RegFile /\ Memory' = Memory /\ Cpus' = Cpus
  BY DEF RegFile, Reg, RegNum, Memory, Smp, Cpus
<1> QED
  BY <1>1 DEF StateInv

\* Memory that keeps its size
LEMMA MemState ==
  ASSUME StateInv, UNCHANGED <<conf, regs, cpu, regbuf, widest>>, mem' \in Memory
  PROVE  StateInv'
<1>1. RegFile' = RegFile /\ Memory' = Memory /\ Cpus' = Cpus /\ BufferInv' = BufferInv
  BY DEF RegFile, Reg, RegNum, Memory, Smp, Cpus, BufferInv
<1> QED
  BY <1>1 DEF StateInv

\* An answer that was sent
LEMMA Answered ==
  ASSUME AnswerInv, reply' \in Seq(Char), event' \in {"NONE", "CONT", "STEP", "DETACH"},
         end' \in {"no", "detach", "null"}, advert' \subseteq {"c", "s", "xfer", "noack"}
  PROVE  AnswerInv'
BY DEF AnswerInv, AnswersFit

\* An answer the handler has written into its array, if that can be too much
LEMMA LongAnswered ==
  ASSUME AnswerInv, NEW text \in Seq(Char), NEW ends, SendWritten(ends, text),
         event' = "NONE", advert' \subseteq {"c", "s", "xfer", "noack"},
         TooLong(req)' \/ /\ Len(text) + 6 <= MAX_SEND_PACKET_SIZE
                          /\ \A e \in ends : e <= MAX_SEND_PACKET_SIZE
  PROVE  AnswerInv'
<1>1. reply' \in Seq(Char) /\ end' \in {"no", "assert", "overrun"}
  <2>1. conn_send_pktstr(text) \/ (reply' = <<>> /\ end' = "overrun")
    BY DEF SendWritten
  <2>2. ASSUME conn_send_pktstr(text) PROVE reply' \in Seq(Char) /\ end' \in {"no", "assert"}
    BY <2>2 DEF conn_send_pktstr
  <2>3. <<>> \in Seq(Char)
    OBVIOUS
  <2> QED
    BY <2>1, <2>2, <2>3, Zenon
<1>2. CASE TooLong(req)'
  BY <1>1, <1>2 DEF AnswerInv, AnswersFit
<1>3. CASE /\ Len(text) + 6 <= MAX_SEND_PACKET_SIZE
           /\ \A e \in ends : e <= MAX_SEND_PACKET_SIZE
  <2>1. conn_send_pktstr(text)
    BY <1>3 DEF SendWritten
  <2>2. reply' \in Seq(Char) /\ end' = "no"
    BY <1>3, <2>1, Sent
  <2> QED
    BY <2>2, Answered
<1> QED
  BY <1>2, <1>3

\* The requests that touch neither the target nor the client's belief
LEMMA QuietAnswers ==
  ASSUME ViewInv, Denied \/ Fixed \/ Resume \/ process_general_set \/ BreakPoint \/ Features
  PROVE  ViewInv'
<1>1. /\ UNCHANGED <<conf, regs, mem, cpu, regbuf, widest, view, cause>>
  BY DEF Denied, Fixed, Resume, process_general_set, BreakPoint, Features,
         Request, Granted, target, client, belief
<1>2. StateInv' /\ BeliefInv'
  BY <1>1, Unmoved DEF ViewInv
<1>3. AnswerInv /\ advert \subseteq {"c", "s", "xfer", "noack"}
  BY DEF ViewInv, AnswerInv
<1>4. CASE Denied
  <2>1. conn_send_pktstr(EPERM) /\ event' = "NONE" /\ advert' = advert
    BY <1>4 DEF Denied, client
  <2>2. reply' \in Seq(Char) /\ end' = "no"
    BY <2>1, ShortTexts, ShortSent
  <2> QED
    BY <1>2, <1>3, <2>1, <2>2, Answered DEF ViewInv
<1>5. CASE Fixed
  <2>1. PICK r \in DOMAIN FixedAnswer :
           /\ IF r = "D" THEN event' = "DETACH" /\ reply' = Ok /\ end' = "detach"
              ELSE event' = "NONE" /\ conn_send_pktstr(FixedAnswer[r])
           /\ advert' = advert
    BY <1>5 DEF Fixed, client
  <2>2. Ok \in Seq(Char)
    BY ShortTexts DEF Short
  <2>3. FixedAnswer[r] \in Short
    <3>1. <<83, 48, 53>> \in Short /\ <<49>> \in Short /\ <<108>> \in Short
      BY DEF Short, Char
    <3> QED
      BY <3>1, ShortTexts DEF FixedAnswer
  <2>4. reply' \in Seq(Char) /\ end' \in {"no", "detach"} /\ event' \in {"NONE", "DETACH"}
    <3>1. CASE r = "D"
      BY <2>1, <2>2, <3>1
    <3>2. CASE r # "D"
      <4>1. conn_send_pktstr(FixedAnswer[r]) /\ event' = "NONE"
        BY <2>1, <3>2
      <4> QED
        BY <2>3, <4>1, ShortSent
    <3> QED
      BY <3>1, <3>2
  <2> QED
    BY <1>2, <1>3, <2>1, <2>4, Answered DEF ViewInv
<1>6. CASE Resume
  <2>1. /\ advert' = advert
        /\ \/ event' \in {"CONT", "STEP"} /\ reply' = <<>> /\ end' = "no"
           \/ event' = "NONE" /\ conn_send_pktstr(EPERM)
    BY <1>6 DEF Resume, client
  <2>2. reply' \in Seq(Char) /\ end' = "no" /\ event' \in {"NONE", "CONT", "STEP"}
    <3>1. CASE event' = "NONE" /\ conn_send_pktstr(EPERM)
      BY <3>1, ShortTexts, ShortSent
    <3>2. CASE event' \in {"CONT", "STEP"} /\ reply' = <<>> /\ end' = "no"
      BY <3>2
    <3> QED
      BY <2>1, <3>1, <3>2
  <2> QED
    BY <1>2, <1>3, <2>1, <2>2, Answered DEF ViewInv
<1>7. CASE process_general_set
  <2>1. PICK text \in {<<>>, Ok} : conn_send_pktstr(text) /\ event' = "NONE" /\ advert' = advert
    BY <1>7 DEF process_general_set, client
  <2>2. text \in Short
    BY ShortTexts
  <2>3. reply' \in Seq(Char) /\ end' = "no"
    BY <2>1, <2>2, ShortSent
  <2> QED
    BY <1>2, <1>3, <2>1, <2>3, Answered DEF ViewInv
<1>8. CASE BreakPoint
  <2>1. PICK text \in {EINVAL, Ok} : conn_send_pktstr(text) /\ event' = "NONE" /\ advert' = advert
    BY <1>8 DEF BreakPoint, client, Granted
  <2>2. text \in Short
    BY ShortTexts
  <2>3. reply' \in Seq(Char) /\ end' = "no"
    BY <2>1, <2>2, ShortSent
  <2> QED
    BY <1>2, <1>3, <2>1, <2>3, Answered DEF ViewInv
<1>9. CASE Features
  <2> DEFINE n == Cardinality(VContActions)
  <2>1. /\ event' = "NONE"
        /\ \/ advert' = advert \cup VContActions /\ conn_send_pktstr(Opaque(6 + 2 * n))
           \/ /\ advert' \subseteq advert \cup {"noack", "xfer"}
              /\ conn_send_pktstr(Opaque(53)) \/ conn_send_pktstr(Opaque(32))
    <3>1. \/ advert' = advert \cup VContActions /\ conn_send_pktstr(Opaque(6 + 2 * n))
          \/ /\ advert' = advert \cup {"noack"} \cup IF conf.desc # <<>> THEN {"xfer"} ELSE {}
             /\ conn_send_pktstr(Opaque(IF conf.desc # <<>> THEN 53 ELSE 32))
      BY <1>9 DEF Features
    <3>2. event' = "NONE"
      BY <1>9 DEF Features
    <3>3. CASE conf.desc # <<>>
      BY <3>1, <3>2, <3>3
    <3>4. CASE conf.desc = <<>>
      BY <3>1, <3>2, <3>4
    <3> QED
      BY <3>3, <3>4
  <2>2. VContActions \subseteq {"c", "s"} /\ n \in 0 .. 2
    <3>1. VContActions \subseteq {"c", "s"}
      BY DEF VContActions
    <3>2. n \in Nat /\ n <= 2
      <4>1. IsFiniteSet({"c", "s"}) /\ Cardinality({"c", "s"}) <= 2
        <5>1. IsFiniteSet({"c"}) /\ Cardinality({"c"}) = 1
          BY FS_Singleton
        <5>2. {"c"} \cup {"s"} = {"c", "s"}
          OBVIOUS
        <5>3. IsFiniteSet({"c"} \cup {"s"}) /\ Cardinality({"c"} \cup {"s"}) = Cardinality({"c"}) + 1
          BY <5>1, FS_AddElement, "c" # "s"
        <5> QED
          BY <5>1, <5>2, <5>3
      <4>2. Cardinality(VContActions) \in Nat /\ Cardinality(VContActions) <= Cardinality({"c", "s"})
        BY <3>1, <4>1, FS_Subset, FS_CardinalityType
      <4> QED
        BY <4>1, <4>2, FS_CardinalityType
    <3> QED
      BY <3>1, <3>2
  <2>3. /\ Opaque(6 + 2 * n) \in Short /\ Opaque(53) \in Short /\ Opaque(32) \in Short
    <3>1. 6 + 2 * n \in 0 .. 53 /\ 53 \in 0 .. 53 /\ 32 \in 0 .. 53
      BY <2>2
    <3> QED
      BY ONLY <3>1, OpaqueShort
  <2>4. reply' \in Seq(Char) /\ end' = "no"
    BY <2>1, <2>3, ShortSent
  <2>5. advert' \subseteq {"c", "s", "xfer", "noack"}
    BY <1>3, <2>1, <2>2
  <2> QED
    BY <1>2, <1>3, <2>1, <2>4, <2>5, Answered DEF ViewInv
<1> QED
  BY <1>4, <1>5, <1>6, <1>7, <1>8, <1>9

\* The sizes regbuf_get is asked for
LEMMA OneSize ==
  ASSUME StateInv, NEW i \in Reg, UseRegbuf(<<conf.sizes[i]>>)
  PROVE  BufferInv'
<1>1. conf.sizes[i] \in Nat
  BY TargetFacts DEF StateInv
<1>2. <<conf.sizes[i]>> \in Seq(Nat) /\ BufferInv
  BY <1>1 DEF StateInv
<1> QED
  BY <1>2, RegbufHolds

\* The digits of one register.
LEMMA RegFits ==
  ASSUME conf \in Config, regs \in RegFile, NEW i \in Reg
  PROVE  /\ hex_to_str(regs[i]) \in Seq(Char)
         /\ Len(hex_to_str(regs[i])) = 2 * conf.sizes[i] /\ conf.sizes[i] \in Nat
         /\ str_to_hex(hex_to_str(regs[i]), conf.sizes[i]) = regs[i]
<1> DEFINE hex == hex_to_str(regs[i])
<1>1. regs[i] \in Seq(Octet) /\ Len(regs[i]) = conf.sizes[i]
  BY DEF RegFile
<1>2. hex \in Seq(Char) /\ Len(hex) = 2 * Len(regs[i]) /\ str_to_hex(hex, Len(regs[i])) = regs[i]
  BY <1>1, StubHex
<1>3. conf.sizes[i] \in Nat
  BY TargetFacts
<1> QED
  BY <1>1, <1>2, <1>3

\* p
LEMMA ReadOneStep ==
  ASSUME ViewInv, process_reg_read_one
  PROVE  ViewInv'
<1>1. PICK i \in Reg, ret \in Errno \cup {0} :
        LET text == IF ret = 0 THEN hex_to_str(regs[i]) ELSE ErrText(ret)
        IN /\ Granted("p", {"read_reg"})
           /\ UseRegbuf(<<conf.sizes[i]>>)
           /\ SendWritten({Len(text) + 1}, text)
           /\ view' = IF end' # "no" \/ Len(text) # 2 * conf.sizes[i] THEN view
                      ELSE [view EXCEPT !.regs[i] = str_to_hex(text, conf.sizes[i])]
           /\ cause' = Misread(ret)
           /\ UNCHANGED <<target, advert, xfer>>
  BY DEF process_reg_read_one
<1> DEFINE text == IF ret = 0 THEN hex_to_str(regs[i]) ELSE ErrText(ret)
           x == str_to_hex(text, conf.sizes[i])
<1>2. /\ StateInv /\ AnswerInv /\ BeliefInv /\ conf \in Config /\ regs \in RegFile
      /\ advert \subseteq {"c", "s", "xfer", "noack"}
  BY DEF ViewInv, StateInv, AnswerInv
<1>3. /\ cause = {} /\ UNCHANGED <<conf, regs, mem, cpu, advert>> /\ event' = "NONE"
      /\ UseRegbuf(<<conf.sizes[i]>>) /\ SendWritten({Len(text) + 1}, text)
      /\ cause' = Misread(ret) /\ req' = "p"
      /\ view' = IF end' # "no" \/ Len(text) # 2 * conf.sizes[i] THEN view
                 ELSE [view EXCEPT !.regs[i] = x]
  BY <1>1 DEF Granted, Request, target
<1>4. BufferInv'
  BY <1>2, <1>3, OneSize
<1>5. StateInv'
  BY <1>2, <1>3, <1>4, RegState
<1>6. view.regs = regs
  BY <1>2, <1>3 DEF BeliefInv, RegisterViewExact
<1>7. view' = view \/ \E r : view' = [view EXCEPT !.regs = r]
  BY <1>3
<1>8. CASE ret = 0
  <2>1. text = hex_to_str(regs[i])
    BY <1>8
  <2>2. /\ text \in Seq(Char) /\ Len(text) = 2 * conf.sizes[i]
        /\ x = regs[i] /\ conf.sizes[i] \in Nat
    BY <1>2, <2>1, RegFits
  <2> HIDE DEF text, x
  <2>3. \/ TooLong(req)'
        \/ Len(text) + 6 <= MAX_SEND_PACKET_SIZE /\ Len(text) + 1 <= MAX_SEND_PACKET_SIZE
    <3>1. PICK z \in Nat : z = conf.sizes[i]
      BY <2>2
    <3>2. MAX_SEND_PACKET_SIZE \in 59 .. 4096
      BY SizesAssumption
    <3>3. Reg' = Reg /\ conf' = conf /\ i \in Reg
      BY <1>3 DEF Reg, RegNum
    <3>4. CASE 2 * z + 6 > MAX_SEND_PACKET_SIZE
      <4>1. \E j \in Reg' : 2 * conf'.sizes[j] + 2 + CSUM_SIZE + 2 > MAX_SEND_PACKET_SIZE
        BY <3>1, <3>2, <3>3, <3>4 DEF CSUM_SIZE
      <4> QED
        BY <1>3, <4>1 DEF TooLong
    <3>5. CASE 2 * z + 6 <= MAX_SEND_PACKET_SIZE
      <4>1. 2 * z + 1 <= MAX_SEND_PACKET_SIZE
        BY ONLY <3>2, <3>5, z \in Nat
      <4> QED
        BY ONLY <2>2, <3>1, <3>5, <4>1
    <3> QED
      BY <3>2, <3>4, <3>5
  <2>4. AnswerInv'
    BY <1>2, <1>3, <2>2, <2>3, LongAnswered
  <2>5. view'.regs = regs'
    <3> SUFFICES ASSUME end' = "no" PROVE view'.regs = regs'
      BY <1>3, <1>6
    <3>1. view' = [view EXCEPT !.regs = [view.regs EXCEPT ![i] = regs[i]]]
      BY <1>3, <2>2
    <3>2. [regs EXCEPT ![i] = regs[i]] = regs
      BY <1>2 DEF RegFile
    <3> QED
      BY <1>2, <1>3, <1>6, <3>1, <3>2 DEF BeliefInv
  <2>6. cause' = {}
    BY <1>3, <1>8, Successes
  <2>7. BeliefInv'
    BY <1>2, <1>3, <1>7, <2>5, <2>6, RegBelief
  <2> QED
    BY <1>5, <2>4, <2>7 DEF ViewInv
<1>9. CASE ret # 0
  <2>1. text = ErrText(ret) /\ ret \in Errno
    BY <1>9
  <2>2. /\ text \in Short /\ (IsError(text) <=> Len(text) = 3)
        /\ Misread(ret) = IF IsError(text) THEN {} ELSE {"errno"}
    BY <2>1, Refusals
  <2> HIDE DEF text, x
  <2>3. reply' \in Seq(Char) /\ end' = "no"
    BY <1>3, <2>2, ShortWritten
  <2>4. AnswerInv'
    BY <1>2, <1>3, <2>3, Answered
  <2>5. cause' = {} => view'.regs = regs'
    <3>1. SUFFICES ASSUME Len(text) = 3 PROVE view' = view
      BY <1>3, <1>6, <2>2
    <3>2. PICK z \in Nat : z = conf.sizes[i]
      BY <1>2, RegFits
    <3>3. 3 # 2 * z
      OBVIOUS
    <3> QED
      BY <1>3, <3>1, <3>2, <3>3
  <2>6. cause' \subseteq {"errno"}
    BY <1>3, <2>2
  <2>7. BeliefInv'
    BY <1>2, <1>3, <1>7, <2>5, <2>6, RegBelief
  <2> QED
    BY <1>5, <2>4, <2>7 DEF ViewInv
<1> QED
  BY <1>8, <1>9

\* What a client writes is a sequence of bytes.
LEMMA BytesSeq ==
  ASSUME NEW n \in Nat, NEW v \in Bytes(n)
  PROVE  v \in Seq(Octet) /\ Len(v) = n
<1>1. v \in [1 .. n -> Octet]
  <2>1. Byte \subseteq Octet
    BY SizesAssumption DEF Octet
  <2> QED
    BY <2>1 DEF Bytes
<1> QED
  BY ONLY <1>1, n \in Nat, AsSeq

\* P
LEMMA WriteOneStep ==
  ASSUME ViewInv, process_reg_write_one
  PROVE  ViewInv'
<1>1. PICK i \in Reg, upper \in BOOLEAN, ret \in Errno \cup {0} :
      \E v \in Bytes(conf.sizes[i]) :
        /\ Granted("P", {"write_reg"})
        /\ UseRegbuf(<<conf.sizes[i]>>)
        /\ regs' = IF ret # 0 THEN regs
                   ELSE [regs EXCEPT ![i] = str_to_hex(ClientHex(v, upper), conf.sizes[i])]
        /\ conn_send_pktstr(Result(ret))
        /\ view' = IF IsError(Result(ret)) THEN view ELSE [view EXCEPT !.regs[i] = v]
        /\ cause' = Misread(ret)
        /\ UNCHANGED <<mem, cpu, advert, xfer>>
  BY DEF process_reg_write_one
<1>2. PICK v \in Bytes(conf.sizes[i]) :
        /\ Granted("P", {"write_reg"})
        /\ UseRegbuf(<<conf.sizes[i]>>)
        /\ regs' = IF ret # 0 THEN regs
                   ELSE [regs EXCEPT ![i] = str_to_hex(ClientHex(v, upper), conf.sizes[i])]
        /\ conn_send_pktstr(Result(ret))
        /\ view' = IF IsError(Result(ret)) THEN view ELSE [view EXCEPT !.regs[i] = v]
        /\ cause' = Misread(ret)
        /\ UNCHANGED <<mem, cpu, advert, xfer>>
  BY <1>1
<1>3. /\ StateInv /\ AnswerInv /\ BeliefInv /\ conf \in Config /\ regs \in RegFile
      /\ advert \subseteq {"c", "s", "xfer", "noack"}
  BY DEF ViewInv, StateInv, AnswerInv
<1>4. cause = {} /\ UNCHANGED <<conf, mem, cpu, advert>> /\ event' = "NONE"
  BY <1>2 DEF Granted, Request
<1>5. BufferInv'
  BY <1>2, <1>3, OneSize
<1>6. view.regs = regs
  BY <1>3, <1>4 DEF BeliefInv, RegisterViewExact
<1>7. view' = view \/ \E r : view' = [view EXCEPT !.regs = r]
  BY <1>2
<1>8. CASE ret = 0
  <2>1. v \in Seq(Octet) /\ Len(v) = conf.sizes[i]
    <3>1. conf.sizes[i] \in Nat
      BY <1>3, RegFits
    <3> QED
      BY <3>1, BytesSeq
  <2>2. str_to_hex(ClientHex(v, upper), conf.sizes[i]) = v
    BY <2>1, HexRoundTrip
  <2>3. regs' = [regs EXCEPT ![i] = v]
    BY <1>2, <1>8, <2>2
  <2>4. regs' \in RegFile
    BY <1>3, <2>1, <2>3 DEF RegFile
  <2>5. /\ view' = [view EXCEPT !.regs[i] = v] /\ conn_send_pktstr(Ok) /\ cause' = {}
    BY <1>2, <1>8, Successes
  <2>6. view'.regs = regs'
    <3>1. view' = [view EXCEPT !.regs = [view.regs EXCEPT ![i] = v]]
      BY <2>5
    <3> QED
      BY <1>3, <1>6, <2>3, <3>1 DEF BeliefInv
  <2>7. reply' \in Seq(Char) /\ end' = "no"
    BY <2>5, ShortTexts, ShortSent
  <2>8. AnswerInv'
    BY <1>3, <1>4, <2>7, Answered
  <2>9. BeliefInv'
    BY <1>3, <1>4, <1>7, <2>5, <2>6, RegBelief
  <2>10. StateInv'
    BY <1>3, <1>4, <1>5, <2>4, RegState
  <2> QED
    BY <2>8, <2>9, <2>10 DEF ViewInv
<1>9. CASE ret # 0
  <2> DEFINE text == ErrText(ret)
  <2>1. ret \in Errno
    BY <1>9
  <2>2. /\ text \in Short /\ Result(ret) = text
        /\ Misread(ret) = IF IsError(text) THEN {} ELSE {"errno"}
    BY <2>1, Refusals
  <2> HIDE DEF text
  <2>3. regs' = regs /\ conn_send_pktstr(text) /\ (IsError(text) => view' = view)
    BY <1>2, <1>9, <2>2
  <2>4. reply' \in Seq(Char) /\ end' = "no"
    BY <2>2, <2>3, ShortSent
  <2>5. AnswerInv'
    BY <1>3, <1>4, <2>4, Answered
  <2>6. cause' \subseteq {"errno"} /\ (cause' = {} => view'.regs = regs')
    BY <1>2, <1>6, <2>2, <2>3
  <2>7. BeliefInv'
    BY <1>3, <1>4, <1>7, <2>6, RegBelief
  <2>8. StateInv'
    BY <1>3, <1>4, <1>5, <2>3, RegState
  <2> QED
    BY <2>5, <2>7, <2>8 DEF ViewInv
<1> QED
  BY <1>8, <1>9

\* Registers of one size whose digits fit a packet stay within the array.
LEMMA AllRegsFit ==
  ASSUME conf \in Config, ~MixedSizes,
         2 * Before(conf.sizes, RegNum) + 6 <= MAX_SEND_PACKET_SIZE
  PROVE  RegsWithin
<1> DEFINE n == RegNum
           sz == conf.sizes
<1>1. n \in Nat \ {0} /\ sz \in [0 .. n - 1 -> Nat] /\ Reg = 0 .. n - 1
  BY TargetFacts DEF Reg
<1>2. MAX_SEND_PACKET_SIZE \in 59 .. 4096
  BY SizesAssumption
<1>3. \A i, j \in 0 .. n - 1 : sz[i] = sz[j]
  BY <1>1 DEF MixedSizes
<1> HIDE DEF n, sz
<1>4. PICK z \in Nat : \A i \in 0 .. n - 1 : sz[i] = z
  <2>1. 0 \in 0 .. n - 1
    BY <1>1
  <2> QED
    BY <1>1, <1>3, <2>1
<1>5. \A i \in 0 .. n : Before(sz, i) = i * z
  BY <1>1, <1>4, BeforeUniform
<1>6. ASSUME NEW i \in Reg PROVE RegEnd(i) <= MAX_SEND_PACKET_SIZE
  <2>1. i \in Nat /\ i + 1 \in 0 .. n /\ n \in 0 .. n /\ n \in Nat /\ i \in 0 .. n - 1
    BY <1>1, <1>6
  <2>2. Before(sz, i + 1) <= Before(sz, n)
    BY <1>1, <2>1, BeforeGrows
  <2>3. Before(sz, i + 1) = (i + 1) * z /\ Before(sz, n) = n * z
    BY <1>5, <2>1
  <2>4. PICK e \in Nat : e = (i + 1) * z
    BY <2>1
  <2>5. PICK all \in Nat : all = n * z
    BY <2>1
  <2>6. e <= all
    BY ONLY <2>2, <2>3, <2>4, <2>5
  <2>7. 2 * all + 6 <= MAX_SEND_PACKET_SIZE
    <3>1. 2 * Before(sz, n) + 6 <= MAX_SEND_PACKET_SIZE
      BY DEF sz, n
    <3> QED
      BY ONLY <2>3, <2>5, <3>1
  <2>8. 2 * e + 1 <= MAX_SEND_PACKET_SIZE
    BY ONLY <1>2, <2>6, <2>7, e \in Nat, all \in Nat
  <2>9. RegEnd(i) = 2 * (i + 1) * z + 1
    BY <1>4, <2>1 DEF RegEnd, sz
  <2>10. 2 * (i + 1) * z = 2 * e
    BY ONLY <2>1, <2>4, z \in Nat
  <2> QED
    BY ONLY <2>8, <2>9, <2>10
<1> QED
  BY <1>6 DEF RegsWithin

\* g
LEMMA ReadAllStep ==
  ASSUME ViewInv, process_reg_read
  PROVE  ViewInv'
<1>1. PICK f \in 0 .. RegNum, ret \in Errno :
        LET text == IF f = RegNum THEN RegText ELSE ErrText(ret)
        IN /\ Granted("g", {"read_reg"})
           /\ UseRegbuf([j \in 1 .. Min({f + 1, RegNum}) |-> conf.sizes[j - 1]])
           /\ SendWritten({RegEnd(i) : i \in 0 .. f - 1}, text)
           /\ view' = IF end' # "no" \/ IsError(text) THEN view
                      ELSE [view EXCEPT !.regs = Learnt(text)]
           /\ cause' = (IF f < RegNum THEN Misread(ret) ELSE {})
                             \cup (IF f = RegNum /\ MixedSizes THEN {"mixed"} ELSE {})
           /\ UNCHANGED <<target, advert, xfer>>
  BY DEF process_reg_read
<1> DEFINE ends == {RegEnd(i) : i \in 0 .. f - 1}
           all == Before(conf.sizes, RegNum)
<1>2. /\ StateInv /\ AnswerInv /\ BeliefInv /\ conf \in Config /\ regs \in RegFile
      /\ advert \subseteq {"c", "s", "xfer", "noack"} /\ BufferInv
  BY DEF ViewInv, StateInv, AnswerInv
<1>3. /\ cause = {} /\ UNCHANGED <<conf, regs, mem, cpu, advert>> /\ event' = "NONE"
      /\ req' = "g"
  BY <1>1 DEF Granted, Request, target
<1>4. RegNum \in Nat \ {0} /\ conf.sizes \in [0 .. RegNum - 1 -> Nat]
  BY <1>2, TargetFacts
<1>5. BufferInv'
  <2> DEFINE m == Min({f + 1, RegNum})
  <2>1. m \in Nat /\ m <= RegNum
    <3>1. f + 1 \in Int /\ RegNum \in Int /\ f + 1 \in Nat /\ RegNum \in Nat
      BY <1>4
    <3>2. m = IF f + 1 <= RegNum THEN f + 1 ELSE RegNum
      BY ONLY <3>1, MinOfTwo
    <3> HIDE DEF m
    <3> QED
      BY ONLY <3>1, <3>2
  <2> HIDE DEF m
  <2>2. [j \in 1 .. m |-> conf.sizes[j - 1]] \in [1 .. m -> Nat]
    <3>1. \A j \in 1 .. m : j - 1 \in 0 .. RegNum - 1
      BY <1>4, <2>1
    <3> QED
      BY <1>4, <3>1
  <2>3. [j \in 1 .. m |-> conf.sizes[j - 1]] \in Seq(Nat)
    BY ONLY <2>1, <2>2, AsSeq
  <2>4. UseRegbuf([j \in 1 .. m |-> conf.sizes[j - 1]])
    BY <1>1 DEF m
  <2> QED
    BY <1>2, <2>3, <2>4, RegbufHolds
<1>6. StateInv'
  BY <1>2, <1>3, <1>5, RegState
<1>7. view.regs = regs
  BY <1>2, <1>3 DEF BeliefInv, RegisterViewExact
<1>8. view' = view \/ \E r : view' = [view EXCEPT !.regs = r]
  BY <1>1
<1>9. PICK c \in Nat : c = all
  <2> DEFINE n == RegNum
  <2>1. n \in Nat /\ conf.sizes \in [0 .. n - 1 -> Nat] /\ n \in 0 .. n
    BY <1>4
  <2> HIDE DEF n
  <2>2. Before(conf.sizes, n) \in Nat
    BY ONLY <2>1, BeforeSteps
  <2> QED
    BY <2>2 DEF n
<1>10. MAX_SEND_PACKET_SIZE \in 59 .. 4096
  BY SizesAssumption
<1>11. TooLong(req)' \/ ((MixedSizes => RegsWithin) /\ 2 * c + 6 <= MAX_SEND_PACKET_SIZE)
  <2>1. CASE MixedSizes /\ ~RegsWithin
    <3>1. MixedSizes'
      BY <1>3, <2>1 DEF MixedSizes, Reg, RegNum
    <3>2. PICK i \in Reg : ~(RegEnd(i) <= MAX_SEND_PACKET_SIZE)
      BY <2>1 DEF RegsWithin
    <3>3. RegEnd(i) > MAX_SEND_PACKET_SIZE
      <4>1. i \in Nat /\ conf.sizes[i] \in Nat
        BY <1>4 DEF Reg
      <4>2. RegEnd(i) \in Nat
        BY <4>1 DEF RegEnd
      <4> QED
        BY <1>10, <3>2, <4>2
    <3>4. i \in Reg' /\ RegEnd(i)' > MAX_SEND_PACKET_SIZE
      BY <1>3, <3>3 DEF RegEnd, Reg, RegNum
    <3> QED
      BY <1>3, <3>1, <3>4 DEF TooLong
  <2>2. CASE 2 * c + 6 > MAX_SEND_PACKET_SIZE
    <3>1. 2 * c + 2 + 2 + 2 > MAX_SEND_PACKET_SIZE
      BY ONLY <1>10, <2>2, c \in Nat
    <3>2. Before(conf.sizes, RegNum)' = c
      BY <1>3, <1>9 DEF RegNum
    <3>3. (2 * Before(conf.sizes, RegNum) + 2 + CSUM_SIZE + 2 > MAX_SEND_PACKET_SIZE)'
      BY <3>1, <3>2 DEF CSUM_SIZE
    <3> QED
      BY <1>3, <3>3 DEF TooLong
  <2> QED
    BY <1>10, <2>1, <2>2
<1>12. TooLong(req)' \/ RegsWithin
  <2> SUFFICES ASSUME ~MixedSizes, 2 * c + 6 <= MAX_SEND_PACKET_SIZE PROVE RegsWithin
    BY <1>11
  <2>1. 2 * Before(conf.sizes, RegNum) + 6 <= MAX_SEND_PACKET_SIZE
    BY <1>9
  <2> QED
    BY <1>2, <2>1, AllRegsFit
<1>13. RegsWithin => \A e \in ends : e <= MAX_SEND_PACKET_SIZE
  <2>1. \A i \in 0 .. f - 1 : i \in Reg
    BY <1>4 DEF Reg
  <2> QED
    BY <2>1 DEF RegsWithin
<1>14. CASE f = RegNum
  <2>1. /\ SendWritten(ends, RegText) /\ cause' = IF MixedSizes THEN {"mixed"} ELSE {}
        /\ view' = IF end' # "no" \/ IsError(RegText) THEN view
                   ELSE [view EXCEPT !.regs = Learnt(RegText)]
    <3>1. ~(f < RegNum)
      BY <1>4, <1>14
    <3> QED
      BY <1>1, <1>14, <3>1
  <2>2. RegsWithin <=> \A e \in ends : e <= MAX_SEND_PACKET_SIZE
    BY <1>13, <1>14 DEF RegsWithin, Reg
  <2>3. ASSUME RegsWithin PROVE AnswerInv' /\ (cause' = {} => view'.regs = regs')
    <3>1. RegText \in Seq(Char) /\ Len(RegText) <= 2 * c
      BY <1>2, <1>9, <2>3, RegTextFits
    <3>2. 2 * c + 6 <= MAX_SEND_PACKET_SIZE => Len(RegText) + 6 <= MAX_SEND_PACKET_SIZE
      <4>1. PICK l \in Nat : l = Len(RegText)
        BY <3>1
      <4>2. 2 * c + 6 <= MAX_SEND_PACKET_SIZE => l + 6 <= MAX_SEND_PACKET_SIZE
        BY ONLY <1>10, <3>1, <4>1, c \in Nat
      <4> QED
        BY ONLY <4>1, <4>2
    <3> HIDE DEF ends
    <3>3. AnswerInv'
      BY <1>2, <1>3, <1>11, <2>1, <2>2, <2>3, <3>1, <3>2, LongAnswered
    <3>4. ~MixedSizes => Learnt(RegText) = regs
      BY <1>2, <2>3, UniformLearnt DEF MixedSizes
    <3>5. cause' = {} => view'.regs = regs'
      BY <1>2, <1>3, <1>7, <2>1, <3>4 DEF BeliefInv
    <3> QED
      BY <3>3, <3>5
  <2>4. ASSUME ~RegsWithin PROVE AnswerInv' /\ (cause' = {} => view'.regs = regs')
    <3>1. reply' = <<>> /\ end' = "overrun"
      BY <2>1, <2>2, <2>4 DEF SendWritten
    <3>2. reply' \in Seq(Char)
      BY <3>1
    <3>3. AnswerInv'
      BY <1>2, <1>3, <1>12, <2>4, <3>1, <3>2 DEF AnswerInv, AnswersFit
    <3>4. view'.regs = regs'
      BY <1>3, <1>7, <2>1, <3>1
    <3> QED
      BY <3>3, <3>4
  <2>5. AnswerInv' /\ (cause' = {} => view'.regs = regs')
    BY <2>3, <2>4
  <2>6. cause' \subseteq {"mixed"}
    BY <2>1
  <2>7. BeliefInv'
    BY <1>2, <1>3, <1>8, <2>5, <2>6, RegBelief
  <2> QED
    BY <1>6, <2>5, <2>7 DEF ViewInv
<1>15. CASE f # RegNum
  <2> DEFINE err == ErrText(ret)
  <2>1. f < RegNum
    BY <1>4, <1>15
  <2>2. /\ err \in Short /\ Misread(ret) = IF IsError(err) THEN {} ELSE {"errno"}
    BY Refusals
  <2>3. SendWritten(ends, err) /\ cause' = Misread(ret) /\ (IsError(err) => view' = view)
    BY <1>1, <1>15, <2>1
  <2> HIDE DEF err, ends
  <2>4. err \in Seq(Char) /\ Len(err) + 6 <= MAX_SEND_PACKET_SIZE
    <3>1. PICK l \in Nat : l = Len(err) /\ l <= 53
      BY <2>2 DEF Short
    <3>2. l + 6 <= MAX_SEND_PACKET_SIZE
      <4>1. l <= 53
        BY <3>1
      <4> QED
        BY ONLY <1>10, <4>1, l \in Nat
    <3> QED
      BY <2>2, <3>1, <3>2 DEF Short
  <2>5. AnswerInv'
    BY <1>2, <1>3, <1>12, <1>13, <2>3, <2>4, LongAnswered
  <2>6. cause' \subseteq {"errno"} /\ (cause' = {} => view'.regs = regs')
    BY <1>3, <1>7, <2>2, <2>3
  <2>7. BeliefInv'
    BY <1>2, <1>3, <1>8, <2>6, RegBelief
  <2> QED
    BY <1>6, <2>5, <2>7 DEF ViewInv
<1> QED
  BY <1>14, <1>15

\* G
LEMMA WriteAllStep ==
  ASSUME ViewInv, process_reg_write
  PROVE  ViewInv'
<1> DEFINE sentBy(v, i) == str_to_hex(SubSeq(AllRegs(v), 2 * Offset(i) + 1,
                                            2 * (Offset(i) + conf.sizes[i])), conf.sizes[i])
<1>1. PICK v \in [Reg -> UNION {Bytes(conf.sizes[i]) : i \in Reg}],
           f \in 0 .. RegNum, ret \in Errno :
      \E keep \in SUBSET (0 .. (IF f = RegNum THEN -1 ELSE f - 1)), unread \in BOOLEAN :
        LET res == IF unread \/ f < RegNum THEN ret ELSE 0
        IN /\ \A i \in Reg : Len(v[i]) = conf.sizes[i]
           /\ Granted("G", {"read_reg", "write_reg"})
           /\ IF Has("read_reg")
              THEN conn_send_pktstr(Result(res))
              ELSE end' = "null" /\ reply' = <<>>
           /\ regs' = IF unread \/ ~Has("read_reg") THEN regs
                      ELSE [i \in Reg |-> IF f = RegNum \/ i \in keep THEN sentBy(v, i) ELSE regs[i]]
           /\ view' = IF IsError(Result(res)) \/ ~Has("read_reg") THEN view
                      ELSE [view EXCEPT !.regs = v]
           /\ cause' = Misread(res) \cup (IF keep # {} /\ ~unread THEN {"rollback"} ELSE {})
           /\ UNCHANGED <<mem, cpu, regbuf, widest, advert, xfer>>
  BY DEF process_reg_write, AllRegs
<1>2. PICK keep \in SUBSET (0 .. (IF f = RegNum THEN -1 ELSE f - 1)), unread \in BOOLEAN :
        LET res == IF unread \/ f < RegNum THEN ret ELSE 0
        IN /\ \A i \in Reg : Len(v[i]) = conf.sizes[i]
           /\ Granted("G", {"read_reg", "write_reg"})
           /\ IF Has("read_reg")
              THEN conn_send_pktstr(Result(res))
              ELSE end' = "null" /\ reply' = <<>>
           /\ regs' = IF unread \/ ~Has("read_reg") THEN regs
                      ELSE [i \in Reg |-> IF f = RegNum \/ i \in keep THEN sentBy(v, i) ELSE regs[i]]
           /\ view' = IF IsError(Result(res)) \/ ~Has("read_reg") THEN view
                      ELSE [view EXCEPT !.regs = v]
           /\ cause' = Misread(res) \cup (IF keep # {} /\ ~unread THEN {"rollback"} ELSE {})
           /\ UNCHANGED <<mem, cpu, regbuf, widest, advert, xfer>>
  BY <1>1
<1> DEFINE res == IF unread \/ f < RegNum THEN ret ELSE 0
<1> HIDE DEF sentBy
<1>3. /\ \A i \in Reg : Len(v[i]) = conf.sizes[i]
      /\ IF Has("read_reg") THEN conn_send_pktstr(Result(res)) ELSE end' = "null" /\ reply' = <<>>
      /\ regs' = IF unread \/ ~Has("read_reg") THEN regs
                 ELSE [i \in Reg |-> IF f = RegNum \/ i \in keep THEN sentBy(v, i) ELSE regs[i]]
      /\ view' = IF IsError(Result(res)) \/ ~Has("read_reg") THEN view
                 ELSE [view EXCEPT !.regs = v]
      /\ cause' = Misread(res) \cup (IF keep # {} /\ ~unread THEN {"rollback"} ELSE {})
  BY <1>2
<1>4. /\ cause = {} /\ UNCHANGED <<conf, mem, cpu, regbuf, widest, advert>> /\ event' = "NONE"
  BY <1>2 DEF Granted, Request
<1>5. /\ StateInv /\ AnswerInv /\ BeliefInv /\ conf \in Config /\ regs \in RegFile
      /\ advert \subseteq {"c", "s", "xfer", "noack"} /\ BufferInv
  BY DEF ViewInv, StateInv, AnswerInv
<1>6. v \in RegFile
  <2>1. ASSUME NEW i \in Reg PROVE v[i] \in Seq(Octet)
    <3>1. PICK j \in Reg : v[i] \in Bytes(conf.sizes[j])
      OBVIOUS
    <3>2. conf.sizes[j] \in Nat
      BY <1>5, RegFits
    <3> QED
      BY <3>1, <3>2, BytesSeq
  <2> QED
    BY <1>3, <2>1 DEF RegFile
<1>7. \A i \in Reg : sentBy(v, i) = v[i]
  BY <1>5, <1>6, SentRegs DEF sentBy
<1>8. regs' \in RegFile
  <2>1. CASE unread \/ ~Has("read_reg")
    BY <1>3, <1>5, <2>1
  <2>2. CASE ~(unread \/ ~Has("read_reg"))
    <3>1. regs' = [i \in Reg |-> IF f = RegNum \/ i \in keep THEN v[i] ELSE regs[i]]
      BY <1>3, <1>7, <2>2
    <3> QED
      BY <1>5, <1>6, <3>1 DEF RegFile
  <2> QED
    BY <2>1, <2>2
<1>9. StateInv'
  <2>1. BufferInv'
    BY <1>4, <1>5 DEF BufferInv
  <2> QED
    BY <1>4, <1>5, <1>8, <2>1, RegState
<1>10. Result(res) \in Short /\ Misread(res) \subseteq {"errno"}
  <2>1. CASE res = 0
    BY <2>1, Successes, ShortTexts
  <2>2. CASE res # 0
    BY <2>2, Refusals
  <2> QED
    BY <2>1, <2>2
<1>11. AnswerInv'
  <2>1. reply' \in Seq(Char) /\ end' \in {"no", "null"}
    <3>1. CASE Has("read_reg")
      BY <1>3, <1>10, <3>1, ShortSent
    <3>2. CASE ~Has("read_reg")
      BY <1>3, <3>2
    <3> QED
      BY <3>1, <3>2
  <2> QED
    BY <1>4, <1>5, <2>1, Answered
<1>12. view.regs = regs
  BY <1>4, <1>5 DEF BeliefInv, RegisterViewExact
<1>13. cause' = {} => view'.regs = regs'
  <2> SUFFICES ASSUME cause' = {} PROVE view'.regs = regs'
    OBVIOUS
  <2>1. CASE ~Has("read_reg")
    BY <1>3, <1>12, <2>1
  <2>2. CASE Has("read_reg") /\ (unread \/ f < RegNum)
    <3>1. res = ret /\ ret \in Errno
      BY <2>2
    <3>2. IsError(Result(ret))
      <4>1. Misread(ret) = {}
        BY <1>3, <3>1
      <4> QED
        BY <4>1, Refusals
    <3>3. view' = view
      BY <1>3, <3>1, <3>2
    <3>4. regs' = regs
      <4>1. CASE unread
        BY <1>3, <4>1
      <4>2. CASE ~unread
        <5>1. keep = {} /\ f # RegNum
          BY <1>3, <2>2, <4>2
        <5>2. regs' = [i \in Reg |-> regs[i]]
          BY <1>3, <2>2, <4>2, <5>1
        <5> QED
          BY <1>5, <5>2 DEF RegFile
      <4> QED
        BY <4>1, <4>2
    <3> QED
      BY <1>12, <3>3, <3>4
  <2>3. CASE Has("read_reg") /\ ~(unread \/ f < RegNum)
    <3>1. RegNum \in Nat
      BY <1>5, TargetFacts
    <3>2. res = 0 /\ f = RegNum
      BY <2>3, <3>1
    <3>3. view' = [view EXCEPT !.regs = v]
      BY <1>3, <2>3, <3>2, Successes
    <3>4. regs' = [i \in Reg |-> v[i]]
      BY <1>3, <1>7, <2>3, <3>2
    <3>5. regs' = v
      BY <1>6, <3>4 DEF RegFile
    <3> QED
      BY <1>5, <3>3, <3>5 DEF BeliefInv
  <2> QED
    BY <2>1, <2>2, <2>3
<1>14. BeliefInv'
  <2>1. view' = view \/ \E r : view' = [view EXCEPT !.regs = r]
    BY <1>3
  <2>2. cause' \subseteq {"errno", "mixed", "rollback"}
    BY <1>3, <1>10
  <2> QED
    BY <1>4, <1>5, <1>13, <2>1, <2>2, RegBelief
<1> QED
  BY <1>9, <1>11, <1>14 DEF ViewInv

----------------------------------------------------------------------------
\* m
LEMMA MemReadStep ==
  ASSUME ViewInv, process_mem_read
  PROVE  ViewInv'
<1>1. PICK a \in DOMAIN mem, len \in ReadLen, ret \in Errno \cup {0} :
        LET text == IF ret = 0 THEN hex_to_str(Read(mem, a, len)) ELSE ErrText(ret)
        IN /\ 2 * len + 2 + CSUM_SIZE <= PacketSize
           /\ Granted("m", {"read_mem"})
           /\ SendWritten({Len(text) + 1}, text)
           /\ view' = IF end' # "no" \/ Len(text) # 2 * len THEN view
                      ELSE [view EXCEPT !.mem = Write(@, a, str_to_hex(text, len))]
           /\ cause' = Misread(ret)
           /\ UNCHANGED <<target, regbuf, widest, advert, xfer>>
  BY DEF process_mem_read
<1> DEFINE text == IF ret = 0 THEN hex_to_str(Read(mem, a, len)) ELSE ErrText(ret)
           x == Write(view.mem, a, str_to_hex(text, len))
<1>2. /\ cause = {} /\ UNCHANGED <<conf, regs, mem, cpu, regbuf, widest, advert>>
      /\ event' = "NONE" /\ req' = "m"
      /\ SendWritten({Len(text) + 1}, text) /\ cause' = Misread(ret)
      /\ view' = IF end' # "no" \/ Len(text) # 2 * len THEN view ELSE [view EXCEPT !.mem = x]
  BY <1>1 DEF Granted, Request, target
<1>3. /\ StateInv /\ AnswerInv /\ BeliefInv /\ mem \in Memory
      /\ advert \subseteq {"c", "s", "xfer", "noack"}
  BY DEF ViewInv, StateInv, AnswerInv
<1>4. a \in Nat /\ len \in Nat
  BY <1>3, SizesAssumption DEF Memory
<1>5. view.mem = mem
  BY <1>2, <1>3 DEF BeliefInv, MemoryViewExact
<1>6. StateInv'
  BY <1>2, <1>3, MemState
<1>7. /\ text \in Seq(Char) /\ Misread(ret) \subseteq {"errno"}
      /\ Len(text) = 2 * len \/ Len(text) \in {2, 3}
  <2>1. CASE ret = 0
    <3>1. Read(mem, a, len) \in Seq(Octet) /\ Len(Read(mem, a, len)) = len
      BY <1>3, <1>4, ReadBytes
    <3> DEFINE hex == hex_to_str(Read(mem, a, len))
    <3>2. hex \in Seq(Char) /\ Len(hex) = 2 * len
      BY <3>1, StubHex
    <3> QED
      BY <2>1, <3>2, Successes
  <2>2. CASE ret # 0
    BY <2>2, Refusals DEF Short
  <2> QED
    BY <2>1, <2>2
<1>8. cause' = {} => view'.mem = mem'
  <2>1. CASE ret = 0
    <3> DEFINE b == Read(mem, a, len)
    <3>1. b \in Seq(Octet) /\ Len(b) = len
      BY <1>3, <1>4, ReadBytes
    <3>2. Write(mem, a, b) = mem
      BY <1>3, <1>4, WriteRead
    <3>3. text = hex_to_str(b)
      BY <2>1
    <3> HIDE DEF b, text
    <3>4. str_to_hex(text, len) = b
      BY <3>1, <3>3, StubHex
    <3>5. x = mem
      BY <1>5, <3>2, <3>4
    <3> HIDE DEF x
    <3> QED
      BY <1>2, <1>3, <1>5, <3>5 DEF BeliefInv
  <2>2. CASE ret # 0
    <3>1. text = ErrText(ret) /\ ret \in Errno
      BY <2>2
    <3>2. /\ (IsError(text) <=> Len(text) = 3)
          /\ Misread(ret) = IF IsError(text) THEN {} ELSE {"errno"}
      BY <3>1, Refusals
    <3> HIDE DEF text
    <3>3. SUFFICES ASSUME Len(text) = 3 PROVE view' = view
      BY <1>2, <1>5, <3>2
    <3>4. 3 # 2 * len
      BY <1>4
    <3> QED
      BY <1>2, <3>3, <3>4
  <2> QED
    BY <2>1, <2>2
<1> HIDE DEF text, x
<1>9. BeliefInv'
  <2>1. view' = view \/ \E m : view' = [view EXCEPT !.mem = m]
    BY <1>2
  <2>2. cause' \subseteq {"errno", "xwrite"}
    BY <1>2, <1>7
  <2> QED
    BY <1>2, <1>3, <1>8, <2>1, <2>2, MemBelief
<1>10. AnswerInv'
  <2>1. MAX_SEND_PACKET_SIZE \in 59 .. 4096 /\ PacketSize \in Nat
    BY SizesAssumption
  <2>2. PICK l \in Nat : l = Len(text)
    BY <1>7
  <2>3. 2 * len + 2 + 2 <= PacketSize
    BY <1>1 DEF CSUM_SIZE
  <2>4. \/ PacketSize - (2 + 2) + 2 + 2 + 2 > MAX_SEND_PACKET_SIZE
        \/ l + 6 <= MAX_SEND_PACKET_SIZE /\ l + 1 <= MAX_SEND_PACKET_SIZE
    <3>1. l = 2 * len \/ l = 2 \/ l = 3
      BY <1>7, <2>2
    <3> QED
      BY ONLY <1>4, <2>1, <2>3, <3>1, l \in Nat
  <2>5. ASSUME PacketSize - (2 + 2) + 2 + 2 + 2 > MAX_SEND_PACKET_SIZE
        PROVE  TooLong(req)'
    BY <1>2, <2>5 DEF TooLong, CSUM_SIZE
  <2>6. \/ TooLong(req)'
        \/ Len(text) + 6 <= MAX_SEND_PACKET_SIZE /\ Len(text) + 1 <= MAX_SEND_PACKET_SIZE
    BY <2>2, <2>4, <2>5
  <2> QED
    BY <1>2, <1>3, <1>7, <2>6, LongAnswered
<1> QED
  BY <1>6, <1>9, <1>10 DEF ViewInv

\* What M and X have in common: the target gets what the client sends.
LEMMA MemWritten ==
  ASSUME ViewInv, NEW r, NEW a, NEW v \in Seq(Octet), NEW ret \in Errno \cup {0},
         NEW text \in Short, MemWrite(r, a, v, v, ret, text),
         cause' \subseteq {"errno", "xwrite"},
         cause' = {} => (ret = 0 <=> ~IsError(text))
  PROVE  ViewInv'
<1> DEFINE w == Write(mem, a, v)
<1>1. /\ cause = {} /\ UNCHANGED <<conf, regs, cpu, regbuf, widest, advert>> /\ event' = "NONE"
      /\ conn_send_pktstr(text) /\ mem' = (IF ret = 0 THEN w ELSE mem)
      /\ view' = IF IsError(text) THEN view ELSE [view EXCEPT !.mem = Write(view.mem, a, v)]
  BY DEF MemWrite, Granted, Request
<1>2. /\ StateInv /\ AnswerInv /\ BeliefInv /\ mem \in Memory
      /\ advert \subseteq {"c", "s", "xfer", "noack"}
  BY DEF ViewInv, StateInv, AnswerInv
<1>3. view.mem = mem
  BY <1>1, <1>2 DEF BeliefInv, MemoryViewExact
<1>4. w \in Memory
  BY <1>2, WriteInside
<1>5. Write(view.mem, a, v) = w
  BY <1>3
<1> HIDE DEF w
<1>6. StateInv'
  BY <1>1, <1>2, <1>4, MemState
<1>7. AnswerInv'
  <2>1. reply' \in Seq(Char) /\ end' = "no"
    BY <1>1, ShortSent
  <2> QED
    BY <1>1, <1>2, <2>1, Answered
<1>8. cause' = {} => view'.mem = mem'
  BY <1>1, <1>2, <1>3, <1>5 DEF BeliefInv
<1>9. view' = view \/ \E m : view' = [view EXCEPT !.mem = m]
  BY <1>1
<1>10. BeliefInv'
  BY <1>1, <1>2, <1>8, <1>9, MemBelief
<1> QED
  BY <1>6, <1>7, <1>10 DEF ViewInv

\* M
LEMMA MemWriteStep ==
  ASSUME ViewInv, process_mem_write
  PROVE  ViewInv'
<1>1. PICK a \in DOMAIN mem, len \in 1 .. MemSize, upper \in BOOLEAN, ret \in Errno \cup {0} :
        \E v \in Bytes(len) :
          /\ MemWrite("M", a, v, str_to_hex(ClientHex(v, upper), len), ret, Result(ret))
          /\ cause' = Misread(ret)
  BY DEF process_mem_write
<1>2. PICK v \in Bytes(len) :
          /\ MemWrite("M", a, v, str_to_hex(ClientHex(v, upper), len), ret, Result(ret))
          /\ cause' = Misread(ret)
  BY <1>1
<1>3. len \in Nat
  BY SizesAssumption
<1>4. v \in Seq(Octet) /\ Len(v) = len
  BY <1>3, BytesSeq
<1>5. str_to_hex(ClientHex(v, upper), len) = v
  BY <1>4, HexRoundTrip
<1>6. MemWrite("M", a, v, v, ret, Result(ret))
  BY <1>2, <1>5
<1>7. /\ Result(ret) \in Short /\ Misread(ret) \subseteq {"errno"}
      /\ Misread(ret) = {} => (ret = 0 <=> ~IsError(Result(ret)))
  <2>1. CASE ret = 0
    BY <2>1, Successes, ShortTexts
  <2>2. CASE ret # 0
    BY <2>2, Refusals
  <2> QED
    BY <2>1, <2>2
<1> QED
  BY <1>2, <1>4, <1>6, <1>7, MemWritten

\* X
LEMMA MemXWriteStep ==
  ASSUME ViewInv, process_mem_xwrite
  PROVE  ViewInv'
<1>1. PICK a \in DOMAIN mem, len \in 0 .. MemSize, ret \in Errno \cup {0} :
        \E v \in Bytes(len) :
          LET content == unescape(ClientEscape(v))
          IN Len(content) = len =>
               /\ MemWrite("X", a, v, content, ret, Ok)
               /\ cause' = IF ret # 0 THEN {"xwrite"} ELSE {}
  BY DEF process_mem_xwrite
<1>2. PICK v \in Bytes(len) :
          LET content == unescape(ClientEscape(v))
          IN Len(content) = len =>
               /\ MemWrite("X", a, v, content, ret, Ok)
               /\ cause' = IF ret # 0 THEN {"xwrite"} ELSE {}
  BY <1>1
<1>3. len \in Nat
  BY SizesAssumption
<1>4. v \in Seq(Octet) /\ Len(v) = len
  BY <1>3, BytesSeq
<1>5. unescape(ClientEscape(v)) = v
  BY <1>4, EscapeRoundTrip
<1>6. /\ MemWrite("X", a, v, v, ret, Ok)
      /\ cause' = IF ret # 0 THEN {"xwrite"} ELSE {}
  BY <1>2, <1>4, <1>5
<1>7. Ok \in Short /\ ~IsError(Ok)
  BY ShortTexts, Successes
<1>8. cause' \subseteq {"errno", "xwrite"} /\ (cause' = {} => (ret = 0 <=> ~IsError(Ok)))
  BY <1>6, <1>7
<1> QED
  BY <1>4, <1>6, <1>7, <1>8, MemWritten

\* qXfer
LEMMA XferAnswer ==
  ASSUME IInv, ViewInv, process_xfer
  PROVE  ViewInv'
<1>1. reply' \in Seq(Char) /\ end' = "no"
  BY XferStep
<1>2. UNCHANGED <<conf, regs, mem, cpu, regbuf, widest, view, cause, advert>> /\ event' = "NONE"
  BY DEF process_xfer, Request, target, belief
<1>3. StateInv' /\ BeliefInv'
  BY <1>2, Unmoved DEF ViewInv
<1>4. AnswerInv'
  BY <1>1, <1>2, Answered DEF ViewInv, AnswerInv
<1> QED
  BY <1>3, <1>4 DEF ViewInv

\* H
LEMMA SetCpuStep ==
  ASSUME ViewInv, process_set_cpu
  PROVE  ViewInv'
<1>1. /\ UNCHANGED <<conf, regs, mem, regbuf, widest, cause, advert>> /\ event' = "NONE"
      /\ conn_send_pktstr(Ok) /\ cause = {}
      /\ \/ \E t \in view.threads : cpu' = ScanCpu(Digits(t, 16)) /\ view' = [view EXCEPT !.thread = t]
         \/ UNCHANGED <<cpu, view>>
  BY DEF process_set_cpu, Granted, Request
<1>2. /\ StateInv /\ AnswerInv /\ BeliefInv /\ conf \in Config
      /\ advert \subseteq {"c", "s", "xfer", "noack"}
  BY DEF ViewInv, StateInv, AnswerInv
<1>3. AnswerInv'
  <2>1. reply' \in Seq(Char) /\ end' = "no"
    BY <1>1, ShortTexts, ShortSent
  <2> QED
    BY <1>1, <1>2, <2>1, Answered
<1>4. CASE UNCHANGED <<cpu, view>>
  <2>1. StateInv' /\ BeliefInv'
    BY <1>1, <1>2, <1>4, Unmoved
  <2> QED
    BY <1>3, <2>1 DEF ViewInv
<1>5. CASE \E t \in view.threads : cpu' = ScanCpu(Digits(t, 16)) /\ view' = [view EXCEPT !.thread = t]
  <2>1. PICK t \in view.threads : cpu' = ScanCpu(Digits(t, 16)) /\ view' = [view EXCEPT !.thread = t]
    BY <1>5
  <2>2. PICK c \in Cpus : t = Id(c)
    BY <1>2 DEF BeliefInv
  <2>3. Smp \in Nat \ {0}
    BY <1>2, TargetFacts
  <2>4. c \in Nat /\ c < 10000
    BY <2>3 DEF Cpus
  <2>5. cpu' = c
    BY <2>1, <2>2, <2>4, ThreadRoundTrip
  <2>6. Cpus' = Cpus /\ RegFile' = RegFile /\ Memory' = Memory /\ BufferInv' = BufferInv
    BY <1>1 DEF Smp, Cpus, RegFile, Reg, RegNum, Memory, BufferInv
  <2>7. StateInv'
    BY <1>1, <1>2, <2>5, <2>6 DEF StateInv
  <2>8. /\ DOMAIN view' = {"regs", "mem", "thread", "threads"} /\ view'.regs = view.regs
        /\ view'.mem = view.mem /\ view'.threads = view.threads /\ view'.thread = Id(c)
    BY <1>2, <2>1, <2>2 DEF BeliefInv
  <2>9. MemoryViewExact' /\ RegisterViewExact'
    BY <1>1, <1>2, <2>8 DEF BeliefInv, MemoryViewExact, RegisterViewExact
  <2>10. BeliefInv'
    BY <1>1, <1>2, <2>5, <2>6, <2>8, <2>9 DEF BeliefInv
  <2> QED
    BY <1>3, <2>7, <2>10 DEF ViewInv
<1> QED
  BY <1>1, <1>4, <1>5

\* qC and qfThreadInfo
LEMMA ThreadQueryStep ==
  ASSUME ViewInv, ThreadQuery
  PROVE  ViewInv'
<1> DEFINE ids == {ClientId(ThreadText, 5 * c + 1) : c \in 0 .. Smp - 1}
<1>1. /\ UNCHANGED <<conf, regs, mem, cpu, regbuf, widest, cause, advert>> /\ event' = "NONE"
      /\ \/ conn_send_pktstr(<<>>) /\ view' = view
         \/ conn_send_pktstr(CpuText) /\ view' = [view EXCEPT !.thread = ClientId(CpuText, 2)]
         \/ /\ req' = "qfThreadInfo"
            /\ IF Smp < 10000 THEN SendWritten({5 * Smp + 2}, ThreadText)
               ELSE reply' = <<>> /\ end' = "assert"
            /\ view' = IF end' # "no" THEN view ELSE [view EXCEPT !.threads = ids]
  BY DEF ThreadQuery, Request, target
<1>2. /\ StateInv /\ AnswerInv /\ BeliefInv /\ conf \in Config
      /\ advert \subseteq {"c", "s", "xfer", "noack"} /\ cpu \in Cpus
  BY DEF ViewInv, StateInv, AnswerInv
<1>3. Smp \in Nat \ {0}
  BY <1>2, TargetFacts
<1>4. cpu \in Nat
  BY <1>2, <1>3 DEF Cpus
<1>5. CpuText \in Seq(Char) /\ Len(CpuText) = 6 /\ ClientId(CpuText, 2) = Id(cpu)
  BY <1>4, CpuRead
<1>6. /\ ThreadText \in Seq(Char) /\ Len(ThreadText) = 5 * Smp + 1
      /\ \A c \in 0 .. Smp - 1 : ClientId(ThreadText, 5 * c + 1) = Id(c)
  BY <1>2, ThreadsRead
<1>7. Smp < 10000 => ids = {Id(c) : c \in Cpus}
  <2> SUFFICES ASSUME Smp < 10000 PROVE ids = {Id(c) : c \in Cpus}
    OBVIOUS
  <2>1. Cpus = 0 .. Smp - 1
    <3>1. \A c \in 0 .. Smp - 1 : c < 10000
      BY <1>3
    <3> QED
      BY <3>1 DEF Cpus
  <2> QED
    BY <1>6, <2>1
<1> HIDE DEF ids
<1>8. StateInv'
  <2>1. Cpus' = Cpus /\ RegFile' = RegFile /\ Memory' = Memory /\ BufferInv' = BufferInv
    BY <1>1 DEF Smp, Cpus, RegFile, Reg, RegNum, Memory, BufferInv
  <2> QED
    BY <1>1, <1>2, <2>1 DEF StateInv
<1>9. ASSUME \/ view' = view
             \/ view' = [view EXCEPT !.thread = ClientId(CpuText, 2)]
             \/ Smp < 10000 /\ view' = [view EXCEPT !.threads = ids]
      PROVE  BeliefInv'
  <2>1. /\ DOMAIN view = {"regs", "mem", "thread", "threads"} /\ view.thread = Id(cpu)
        /\ view.threads \subseteq {Id(c) : c \in Cpus}
    BY <1>2 DEF BeliefInv
  <2>2. /\ DOMAIN view' = {"regs", "mem", "thread", "threads"} /\ view'.regs = view.regs
        /\ view'.mem = view.mem /\ view'.thread = Id(cpu)
        /\ view'.threads \subseteq {Id(c) : c \in Cpus}
    BY <1>5, <1>7, <1>9, <2>1
  <2>3. MemoryViewExact' /\ RegisterViewExact'
    BY <1>1, <1>2, <2>2 DEF BeliefInv, MemoryViewExact, RegisterViewExact
  <2>4. Cpus' = Cpus
    BY <1>1 DEF Smp, Cpus
  <2> QED
    BY <1>1, <1>2, <2>2, <2>3, <2>4 DEF BeliefInv
<1>10. MAX_SEND_PACKET_SIZE \in 59 .. 4096
  BY SizesAssumption
<1>11. CASE conn_send_pktstr(<<>>) /\ view' = view
  <2>1. reply' \in Seq(Char) /\ end' = "no"
    BY <1>11, ShortTexts, ShortSent
  <2>2. AnswerInv'
    BY <1>1, <1>2, <2>1, Answered
  <2> QED
    BY <1>8, <1>9, <1>11, <2>2 DEF ViewInv
<1>12. CASE conn_send_pktstr(CpuText) /\ view' = [view EXCEPT !.thread = ClientId(CpuText, 2)]
  <2>1. 6 + 6 <= MAX_SEND_PACKET_SIZE
    BY ONLY <1>10
  <2>2. Len(CpuText) + 6 <= MAX_SEND_PACKET_SIZE
    BY ONLY <1>5, <2>1
  <2>3. reply' \in Seq(Char) /\ end' = "no"
    BY <1>5, <1>12, <2>2, Sent
  <2>4. AnswerInv'
    BY <1>1, <1>2, <2>3, Answered
  <2> QED
    BY <1>8, <1>9, <1>12, <2>4 DEF ViewInv
<1>13. CASE /\ req' = "qfThreadInfo"
            /\ IF Smp < 10000 THEN SendWritten({5 * Smp + 2}, ThreadText)
               ELSE reply' = <<>> /\ end' = "assert"
            /\ view' = IF end' # "no" THEN view ELSE [view EXCEPT !.threads = ids]
  <2>1. \/ TooLong(req)' /\ 5 * Smp + 7 > MAX_SEND_PACKET_SIZE
        \/ (5 * Smp + 1) + 6 <= MAX_SEND_PACKET_SIZE /\ 5 * Smp + 2 <= MAX_SEND_PACKET_SIZE
    <3>1. PICK n \in Nat : n = Smp
      BY <1>3
    <3>2. CASE 5 * n + 7 > MAX_SEND_PACKET_SIZE
      <4>1. 5 * n + 1 + 2 + 2 + 2 > MAX_SEND_PACKET_SIZE
        BY ONLY <1>10, <3>2, n \in Nat
      <4>2. Smp' = n
        BY <1>1, <3>1 DEF Smp
      <4>3. (5 * Smp + 1 + 2 + CSUM_SIZE + 2 > MAX_SEND_PACKET_SIZE)'
        BY <4>1, <4>2 DEF CSUM_SIZE
      <4>4. TooLong(req)'
        BY <1>13, <4>3 DEF TooLong
      <4> QED
        BY <3>1, <3>2, <4>4
    <3>3. CASE 5 * n + 7 <= MAX_SEND_PACKET_SIZE
      <4>1. (5 * n + 1) + 6 <= MAX_SEND_PACKET_SIZE /\ 5 * n + 2 <= MAX_SEND_PACKET_SIZE
        BY ONLY <1>10, <3>3, n \in Nat
      <4> QED
        BY ONLY <3>1, <4>1
    <3> QED
      BY ONLY <1>10, <3>2, <3>3, n \in Nat
  <2>2. CASE Smp < 10000
    <3>1. \/ TooLong(req)'
          \/ Len(ThreadText) + 6 <= MAX_SEND_PACKET_SIZE /\ 5 * Smp + 2 <= MAX_SEND_PACKET_SIZE
      BY <1>6, <2>1
    <3>2. AnswerInv'
      BY <1>1, <1>2, <1>6, <1>13, <2>2, <3>1, LongAnswered
    <3> QED
      BY <1>8, <1>9, <1>13, <2>2, <3>2 DEF ViewInv
  <2>3. CASE ~(Smp < 10000)
    <3>1. TooLong(req)'
      <4>1. PICK n \in Nat : n = Smp /\ ~(n < 10000)
        BY <1>3, <2>3
      <4>2. ~((5 * n + 1) + 6 <= MAX_SEND_PACKET_SIZE)
        BY ONLY <1>10, <4>1
      <4> QED
        BY <2>1, <4>1, <4>2
    <3>2. reply' \in Seq(Char) /\ end' = "assert" /\ view' = view
      BY <1>13, <2>3
    <3>3. AnswerInv'
      BY <1>1, <1>2, <3>1, <3>2 DEF AnswerInv, AnswersFit
    <3> QED
      BY <1>8, <1>9, <3>2, <3>3 DEF ViewInv
  <2> QED
    BY <2>2, <2>3
<1> QED
  BY <1>1, <1>11, <1>12, <1>13

\* The client knows the target when the session begins.
LEMMA InitView == Init => ViewInv
<1> SUFFICES ASSUME Init PROVE ViewInv
  OBVIOUS
<1> DEFINE b == Min(Byte)
<1>1. b \in Octet
  <2>1. Byte \in SUBSET Nat /\ Byte # {} /\ Byte \subseteq Octet
    BY SizesAssumption DEF Octet
  <2>2. PICK m \in Byte : \A y \in Byte : m <= y
    BY ONLY <2>1, LeastElement
  <2>3. Min(Byte) \in Byte
    BY <2>2 DEF Min
  <2> QED
    BY <2>1, <2>3
<1> HIDE DEF b
<1>2. conf \in Config
  BY DEF Init
<1>3. Smp \in Nat \ {0} /\ \A i \in Reg : conf.sizes[i] \in Nat
  BY <1>2, TargetFacts
<1>4. regs \in RegFile
  <2>1. regs = [i \in Reg |-> [k \in 1 .. conf.sizes[i] |-> b]]
    BY DEF Init, b
  <2>2. ASSUME NEW i \in Reg PROVE regs[i] \in Seq(Octet) /\ Len(regs[i]) = conf.sizes[i]
    <3>1. conf.sizes[i] \in Nat
      BY <1>3
    <3>2. regs[i] \in [1 .. conf.sizes[i] -> Octet]
      BY <1>1, <2>1
    <3> QED
      BY ONLY <3>1, <3>2, AsSeq
  <2> QED
    BY <2>1, <2>2 DEF RegFile
<1>5. mem \in Memory
  BY <1>1 DEF Init, Memory, b
<1>6. BufferInv
  BY SizesAssumption DEF Init, BufferInv
<1>7. cpu = 0 /\ 0 \in Cpus
  <2>1. 0 \in Cpus
    BY <1>3 DEF Cpus
  <2> QED
    BY <2>1 DEF Init
<1>8. StateInv
  BY <1>2, <1>4, <1>5, <1>6, <1>7 DEF StateInv
<1>9. AnswerInv
  BY DEF Init, AnswerInv, AnswersFit
<1>10. Id(0) = 0
  BY DEF Id, Value, Digits
<1>11. /\ DOMAIN view = {"regs", "mem", "thread", "threads"} /\ view.thread = 0
       /\ view.threads = {0} /\ view.mem = mem /\ view.regs = regs /\ cause = {}
  BY DEF Init
<1>12. BeliefInv
  BY <1>7, <1>10, <1>11 DEF BeliefInv, MemoryViewExact, RegisterViewExact
<1> QED
  BY <1>8, <1>9, <1>12 DEF ViewInv

\* Every request preserves the invariant.
LEMMA NextView == IInv /\ ViewInv /\ [Next]_vars => ViewInv'
<1> SUFFICES ASSUME IInv, ViewInv, [Next]_vars PROVE ViewInv'
  OBVIOUS
<1>1. CASE Denied \/ Fixed \/ Resume \/ process_general_set \/ BreakPoint \/ Features
  BY <1>1, QuietAnswers
<1>2. CASE process_reg_read
  BY <1>2, ReadAllStep
<1>3. CASE process_reg_read_one
  BY <1>3, ReadOneStep
<1>4. CASE process_reg_write_one
  BY <1>4, WriteOneStep
<1>5. CASE process_reg_write
  BY <1>5, WriteAllStep
<1>6. CASE process_mem_read
  BY <1>6, MemReadStep
<1>7. CASE process_mem_write
  BY <1>7, MemWriteStep
<1>8. CASE process_mem_xwrite
  BY <1>8, MemXWriteStep
<1>9. CASE process_xfer
  BY <1>9, XferAnswer
<1>10. CASE process_set_cpu
  BY <1>10, SetCpuStep
<1>11. CASE ThreadQuery
  BY <1>11, ThreadQueryStep
<1>12. CASE Gone \/ UNCHANGED vars
  <2>1. UNCHANGED <<conf, regs, mem, cpu, regbuf, widest, view, cause, req, reply, event, end, advert>>
    BY <1>12 DEF Gone, vars, target, client
  <2>2. StateInv' /\ BeliefInv'
    BY <2>1, Unmoved DEF ViewInv
  <2>3. AnswerInv'
    <3>1. TooLong(req)' = TooLong(req)
      BY <2>1 DEF TooLong, MixedSizes, RegEnd, Reg, RegNum, Smp
    <3> QED
      BY <2>1, <3>1 DEF ViewInv, AnswerInv, AnswersFit
  <2> QED
    BY <2>2, <2>3 DEF ViewInv
<1> QED
  BY <1>1, <1>2, <1>3, <1>4, <1>5, <1>6, <1>7, <1>8, <1>9, <1>10, <1>11, <1>12 DEF Next

\* The invariant, for every target within the assumptions and every session
THEOREM ViewInvariance == Spec => []ViewInv
BY InitView, NextView, Invariance, PTL DEF Spec

\* The registers keep their sizes, the memory, the CPU and every answer are what
\* they should be, and regbuf_get has never returned less than was asked of it.
THEOREM Typing == Spec => []TypeOK
<1>1. ViewInv => TypeOK
  <2> SUFFICES ASSUME ViewInv PROVE TypeOK
    OBVIOUS
  <2>1. /\ conf \in Config /\ regs \in RegFile /\ mem \in Memory /\ cpu \in 0 .. Smp - 1
        /\ widest \in Nat /\ regbuf \in Nat /\ widest <= regbuf
    BY DEF ViewInv, StateInv, BufferInv, Cpus
  <2>2. ASSUME NEW i \in Reg PROVE regs[i] \in [1 .. conf.sizes[i] -> 0 .. 255]
    <3>1. regs[i] \in Seq(Octet) /\ Len(regs[i]) = conf.sizes[i]
      BY <2>1 DEF RegFile
    <3>2. regs[i] \in [1 .. conf.sizes[i] -> Octet]
      BY ONLY <3>1
    <3> QED
      BY <3>2 DEF Octet
  <2>3. mem \in [0 .. MemSize - 1 -> 0 .. 255]
    BY <2>1 DEF Memory, Octet
  <2>4. \A k \in DOMAIN reply : reply[k] \in Char
    <3>1. reply \in Seq(Char)
      BY DEF ViewInv, AnswerInv
    <3> QED
      BY <3>1
  <2>5. /\ event \in {"NONE", "CONT", "STEP", "DETACH"}
        /\ end \in {"no", "detach", "assert", "null", "overrun"}
        /\ cause \subseteq {"errno", "xwrite", "mixed", "rollback"}
        /\ advert \subseteq {"c", "s", "xfer", "noack"}
    BY DEF ViewInv, AnswerInv, BeliefInv
  <2> QED
    BY <2>1, <2>2, <2>3, <2>4, <2>5 DEF TypeOK
<1> QED
  BY <1>1, ViewInvariance, PTL

\* m, M and X: whatever a session reads and writes, the client knows the memory
\* of the target until an X or a one-digit errno has misled it.
THEOREM MemoryKnown == Spec => []MemoryViewExact
<1>1. ViewInv => MemoryViewExact
  BY DEF ViewInv, BeliefInv
<1> QED
  BY <1>1, ViewInvariance, PTL

\* g, p, P and G: the same for the registers, of any number and sizes, until a g
\* on registers of several sizes, a failed restore or a one-digit errno.
THEOREM RegistersKnown == Spec => []RegisterViewExact
<1>1. ViewInv => RegisterViewExact
  BY DEF ViewInv, BeliefInv
<1> QED
  BY <1>1, ViewInvariance, PTL

\* Hg, qC and qfThreadInfo: the thread the client has in mind is the CPU the
\* target has selected, however many CPUs there are.
THEOREM ThreadKnown == Spec => []ThreadViewExact
<1>1. ViewInv => ThreadViewExact
  <2> SUFFICES ASSUME ViewInv PROVE ThreadViewExact
    OBVIOUS
  <2>1. conf \in Config /\ cpu \in 0 .. Smp - 1 /\ view.thread = Id(cpu)
    BY DEF ViewInv, StateInv, BeliefInv, Cpus
  <2>2. Smp \in Nat \ {0}
    BY <2>1, TargetFacts
  <2>3. cpu \in Nat
    BY ONLY <2>1, <2>2
  <2> QED
    BY <2>1, <2>3, CpuRead DEF ThreadViewExact
<1> QED
  BY <1>1, ViewInvariance, PTL

\* conn_send_pktstr and the handlers that write into packet_str: for every number
\* and all sizes of registers, every number of CPUs, every description and every
\* window, no handler leaves the array or fails an assertion but for what TooLong
\* names.
THEOREM AnswersFitPacket == Spec => []AnswersFit
<1>1. ViewInv => AnswersFit
  BY DEF ViewInv, AnswerInv
<1> QED
  BY <1>1, ViewInvariance, PTL

\* conn_send_pktstr and packet_csum_verify: every answer of every session
\* arrives with a checksum that is right, and that is wrong when any one
\* character has changed.
THEOREM ChangesNoticed == Spec => []ChangedByteNoticed
<1>1. ViewInv => ChangedByteNoticed
  BY AnswersGuarded DEF ViewInv, AnswerInv
<1> QED
  BY <1>1, ViewInvariance, PTL
==============================================================================
