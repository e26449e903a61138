-------------------------------- MODULE MCEmu --------------------------------
(***************************************************************************)
(* Programs for the run of Emu: between them every instruction, a loop, a  *)
(* store to tohost, wide stores above the program, an instruction that is  *)
(* not implemented, and a program that init_mem refuses.                   *)
(***************************************************************************)
EXTENDS Emu

I(op, rd, rs1, rs2, imm) == [op |-> op, rd |-> rd, rs1 |-> rs1, rs2 |-> rs2, imm |-> imm]

MCProgram ==
    {<<I("addi", 1, 0, 0, 1), I("sb", 0, 2, 1, 0), Illegal>>,
     <<I("slti", 1, 1, 0, -1), I("jalr", 0, 1, 0, 5)>>,
     <<I("lui", 1, 0, 0, 8), I("jal", 0, 0, 0, -4)>>,
     <<I("auipc", 1, 0, 0, 8), I("jalr", 1, 1, 0, -4), I("jal", 1, 0, 0, 0)>>,
     <<I("sw", 0, 2, 1, 0), I("lw", 1, 2, 0, 0), I("addw", 1, 1, 2, 0)>>,
     <<I("sd", 0, 0, 1, 8), I("ld", 1, 0, 0, 8)>>,
     <<I("add", 0, 1, 2, 0), I("addiw", 1, 0, 0, -3), I("jalr", 0, 0, 0, 4)>>,
     <<I("addi", 1, 1, 0, 1), I("addi", 1, 1, 0, 1), I("addi", 1, 1, 0, 1), Illegal>>}

\* An instruction that ends the run, one that computes, one that jumps and one
\* that stores.
MCTorn == {Illegal, I("slti", 1, 1, 0, 3), I("jal", 0, 0, 0, 3), I("sb", 0, 2, 1, 0)}

MCRegWrite == {<<0, 9>>, <<1, 15>>, <<1, 200>>, <<3, 0>>, <<3, 2>>}
MCAccess == {<<12, 1>>, <<15, 2>>, <<250, 10>>}
==============================================================================
