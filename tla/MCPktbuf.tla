------------------------------- MODULE MCPktbuf -------------------------------
(***************************************************************************)
(* Pktbuf for TLC: the messages a client may send.                         *)
(***************************************************************************)
EXTENDS Pktbuf

Short == <<"$", "x", "#", "h", "h">>
Long == <<"$", "x", "x", "x", "x", "x", "#", "h", "h">>
Binary == <<"$", "x", "^C", "#", "h", "h">>
Ack == <<"+">>
Interrupt == <<"^C">>

\* Packets alone, after what may precede them, with the interrupt that may
\* follow a continue request, and with binary data.
Messages == {Short, Ack \o Long, Interrupt, Short \o Interrupt, Binary}

OnePacket == {Short}
==============================================================================
