-------------------------------- MODULE Codec --------------------------------
(***************************************************************************)
(* The conversions between values and the text of a packet:                *)
(* src/utils/csum.c, src/utils/translate.c, the framing in                 *)
(* conn_send_pktstr and its counterpart packet_csum_verify.  A string is a *)
(* sequence of character codes, without its terminating 0.                 *)
(***************************************************************************)
EXTENDS Integers, Sequences, SequencesExt

CSUM_SIZE == 2

\* "0123456789abcdef"
hexchars == [d \in 0 .. 15 |-> IF d < 10 THEN 48 + d ELSE 87 + d]

hex_to_str(num) ==
    [k \in 1 .. 2 * Len(num) |->
       LET ch == num[(k + 1) \div 2]
       IN hexchars[IF k % 2 = 1 THEN ch \div 16 ELSE ch % 16]]

\* letter is bit 6 of the character; (letter >> 3) | (letter >> 6) is 9 or 0.
char_to_hex(ch) ==
    LET offset == 9 * ((ch \div 64) % 2) IN (ch + offset) % 16

str_to_hex(str, bytes) ==
    [i \in 1 .. bytes |-> 16 * char_to_hex(str[2 * i - 1]) + char_to_hex(str[2 * i])]

Sum(buf, modulus) ==
    LET csum[i \in 0 .. Len(buf)] ==
            IF i = 0 THEN 0 ELSE (csum[i - 1] + buf[i]) % modulus
    IN csum[Len(buf)]

\* Mutant: the sum is of four bits only.
ChecksumNibble(buf) == Sum(buf, 16)

\* uint8_t csum
compute_checksum(buf) == Sum(buf, 256)

----------------------------------------------------------------------------
\* conn_send_pktstr: '$', the text, '#' and the checksum as "%02x"
Frame(pktstr) ==
    <<36>> \o pktstr \o <<35>> \o hex_to_str(<<compute_checksum(pktstr)>>)

\* The text is taken from behind the '$' up to CSUM_SIZE + 1 from the end.
packet_csum_verify(packet) ==
    LET n == Len(packet)
    IN compute_checksum(SubSeq(packet, 2, n - CSUM_SIZE - 1))
         = str_to_hex(SubSeq(packet, n - CSUM_SIZE + 1, n), 1)[1]

----------------------------------------------------------------------------
ESC == 125  \* '}'

\* ch ^ 0x20
FlipBit5(ch) == IF (ch \div 32) % 2 = 1 THEN ch - 32 ELSE ch + 32

\* Mutant: an escaped character is not flipped back.
ReadNoFlip(s, ch) ==
    IF ~s.esc /\ ch = ESC THEN [esc |-> TRUE, w |-> s.w]
    ELSE [esc |-> FALSE, w |-> Append(s.w, ch)]

\* One character of the loop of unescape: esc, it follows a '}'; w, what has
\* been written
ReadChar(s, ch) ==
    IF ~s.esc /\ ch = ESC THEN [esc |-> TRUE, w |-> s.w]
    ELSE [esc |-> FALSE, w |-> Append(s.w, IF s.esc THEN FlipBit5(ch) ELSE ch)]

\* unescape rewrites the message in place; what it writes stays behind what it
\* reads.  A '}' at the very end is combined with the 0 that
\* gdbstub_process_packet has put behind the message.
unescape(msg) ==
    LET loop[i \in 0 .. Len(msg)] ==
            IF i = 0 THEN [esc |-> FALSE, w |-> <<>>] ELSE ReadChar(loop[i - 1], msg[i])
        last == loop[Len(msg)]
    IN IF last.esc THEN Append(last.w, FlipBit5(0)) ELSE last.w
==============================================================================
