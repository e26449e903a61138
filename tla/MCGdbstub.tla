------------------------------ MODULE MCGdbstub ------------------------------
(***************************************************************************)
(* Gdbstub for TLC: packets numbered in the order the client sends them,   *)
(* with every combination of checksum and request.                         *)
(***************************************************************************)
EXTENDS Gdbstub

CONSTANTS MaxPackets,  \* bound: packets the client sends
          Requests     \* the requests the client uses in this instance

MCPacket == [id : 1..MaxPackets, ok : {TRUE}, req : Requests]
            \cup [id : 1..MaxPackets, ok : {FALSE}, req : {"m"}]
==============================================================================
