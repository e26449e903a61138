----------------------------- MODULE MCRequests ------------------------------
(***************************************************************************)
(* Targets for the run of Requests: with memory only; with registers of    *)
(* two sizes; that can only be read; with equal registers; that can only   *)
(* be written; with threads; with a description; without callbacks; with   *)
(* registers and threads that just fit a packet, that are too long to be   *)
(* sent, and that overrun the array.                                       *)
(***************************************************************************)
EXTENDS Requests

Target(ops, sizes, desc, smp) ==
    [ops |-> ops, sizes |-> [i \in 0 .. Len(sizes) - 1 |-> sizes[i + 1]],
     desc |-> desc, smp |-> smp]

MCDesc == [k \in 1 .. 57 |-> 97 + (k % 26)]

MCConfig ==
    {Target({"read_mem", "write_mem"}, <<1>>, <<>>, 0),
     Target({"read_reg", "write_reg"}, <<2, 1>>, <<>>, 1),
     Target({"read_reg", "read_mem"}, <<3>>, <<>>, 1),
     Target({"read_reg", "write_reg"}, <<1, 1>>, <<>>, 1),
     Target({"write_reg", "write_mem", "set_bp", "cont"}, <<1>>, <<>>, 1),
     Target({"set_cpu", "get_cpu"}, <<1>>, <<>>, 11),
     Target({"cont", "stepi", "set_bp", "del_bp"}, <<1>>, MCDesc, 1),
     Target({}, <<1>>, <<>>, 0),
     Target({"read_reg"}, <<28>>, <<>>, 11),
     Target({"read_reg"}, <<29>>, <<>>, 12),
     Target({"read_reg"}, <<31>>, <<>>, 13),
     Target({"read_reg"}, <<1, 16>>, <<>>, 10000)}
==============================================================================
