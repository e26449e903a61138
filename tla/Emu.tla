--------------------------------- MODULE Emu ---------------------------------
(***************************************************************************)
(* The target the repository comes with, src/emu/src/emu.c: a RISC-V       *)
(* machine with one breakpoint, as the main thread drives it through       *)
(* emu_ops and the reader thread through emu_on_interrupt.                 *)
(*                                                                         *)
(* The machine is scaled: a byte has ByteSize values (256 in the code), a  *)
(* word is 4 bytes, a register 8.  An instruction is a record of its       *)
(* decoded fields; the program is not changed while it runs.               *)
(***************************************************************************)
EXTENDS Integers, Sequences

CONSTANTS Program,    \* programs: sequences of instructions
          Torn,       \* the words a fetch between two instructions may give
          RegCount,   \* the registers x[0] .. x[RegCount - 1]
          ByteSize, MEM_SIZE,
          RegWrite,   \* the <<regno, value>> the client writes; RegCount is pc
          Access      \* the <<addr, len>> of the memory requests it sends

ASSUME MachineAssumption ==
    /\ {RegCount, ByteSize, MEM_SIZE} \subseteq Nat
    /\ RegCount > 2 /\ ByteSize > 1 /\ ByteSize % 2 = 0
    /\ MEM_SIZE > 4 /\ MEM_SIZE < ByteSize ^ 8

\* Facts of arithmetic, stated because the provers know nothing about powers.
ASSUME PowerAssumption ==
    /\ \A k \in 0 .. 8 : ByteSize ^ k \in Nat \ {0}
    /\ ByteSize ^ 0 = 1 /\ \A k \in 1 .. 8 : ByteSize ^ k = ByteSize ^ (k - 1) * ByteSize

XMod == ByteSize ^ 8   \* uint64_t
WMod == ByteSize ^ 4   \* uint32_t
TOHOST_ADDR == MEM_SIZE - 4

\* What emu_exec can make of a word; "illegal" is any word it refuses.  An
\* immediate is sign-extended to a register.
Instruction ==
    [op : {"lw", "ld", "addi", "slti", "auipc", "addiw", "sb", "sw", "sd", "add", "lui",
           "addw", "jalr", "jal", "illegal"},
     rd : 0 .. RegCount - 1, rs1 : 0 .. RegCount - 1, rs2 : 0 .. RegCount - 1,
     imm : -(XMod \div 2) .. (XMod - 1) \div 2]

ASSUME InputAssumption ==
    /\ Program \subseteq Seq(Instruction)
    /\ Torn \subseteq Instruction /\ Torn # {}
    /\ RegWrite \subseteq (0 .. RegCount) \X (0 .. XMod - 1)
    /\ Access \subseteq (0 .. XMod - 1) \X (0 .. XMod - 1)

VARIABLES prog, pc, x, mem,
          bp_is_set, bp_addr, halt,
          mode,     \* "idle", or "cont" in the loop of emu_cont
          act,      \* what cont returned last; "STEPPED" for stepi's ACT_RESUME
          inst,     \* history: the instruction of this step, if it executed one
          exec,     \* history: this cont has executed an instruction
          why,      \* history: "illegal" or "intr", what has happened in this cont
          wild,     \* history: memory was accessed outside mem, by what
          client_bps  \* history: the breakpoints the client has been promised

machine == <<prog, pc, x, mem>>
points  == <<bp_is_set, bp_addr, client_bps>>
vars    == <<machine, points, halt, mode, act, inst, exec, why, wild>>

code_size == 4 * Len(prog)
NoInst == [op |-> "none"]
Illegal == [op |-> "illegal", rd |-> 0, rs1 |-> 0, rs2 |-> 0, imm |-> 0]

\* init_mem refuses a program that would reach the last four bytes.
Loadable(p) == 4 * Len(p) <= TOHOST_ADDR

\* emu_init and init_mem
Init ==
    /\ prog \in {p \in Program : Loadable(p)}
    /\ pc = 0
    /\ x = [r \in 0 .. RegCount - 1 |-> IF r = 2 THEN TOHOST_ADDR ELSE 0]
    /\ mem = [a \in 0 .. MEM_SIZE - 1 |-> 0]
    /\ bp_is_set = FALSE /\ bp_addr = XMod - 1 /\ client_bps = {}
    /\ halt = TRUE
    /\ mode = "idle" /\ act = "NONE" /\ inst = NoInst /\ exec = FALSE
    /\ why = {} /\ wild = "no"

----------------------------------------------------------------------------
\* Executing one instruction

Inside(addr, n) == addr + n <= MEM_SIZE

\* read_len and write_len, little endian
Load(m, addr, n) ==
    LET v[k \in 0 .. n] == IF k = 0 THEN 0
                           ELSE v[k - 1] + m[addr + k - 1] * ByteSize ^ (k - 1)
    IN v[n]

Store(m, addr, n, v) ==
    [a \in DOMAIN m |-> IF a \in addr .. addr + n - 1
                        THEN (v \div ByteSize ^ (a - addr)) % ByteSize ELSE m[a]]

\* (int64_t) and (int32_t) of an unsigned value
Signed(v, mod) == IF 2 * v < mod THEN v ELSE v - mod

\* The bytes a load or store transfers.
Width(op) == CASE op = "sb" -> 1 [] op \in {"lw", "sw"} -> 4 [] op \in {"ld", "sd"} -> 8

\* Mutant: the 32-bit result is not sign-extended.
ExtendNot(v) == v % WMod

\* (int32_t) of a 32-bit sum, assigned to a uint64_t
Extend(v) == Signed(v % WMod, WMod) % XMod

\* What an instruction i sees: x[0] is cleared first.
X == [x EXCEPT ![0] = 0]
Imm(i) == i.imm % XMod
Addr(i) == (X[i.rs1] + Imm(i)) % XMod

\* What it leaves behind, p being the pc behind it
SetRd(i, p, v) == [x |-> [X EXCEPT ![i.rd] = v % XMod], pc |-> p, mem |-> mem]

opcode_3(i, p) ==
    SetRd(i, p, IF Inside(Addr(i), Width(i.op)) THEN Load(mem, Addr(i), Width(i.op)) ELSE 0)

opcode_13(i, p) ==
    SetRd(i, p, IF i.op = "addi" THEN X[i.rs1] + Imm(i)
                ELSE IF Signed(X[i.rs1], XMod) < Signed(Imm(i), XMod) THEN 1 ELSE 0)

opcode_17(i, p) == SetRd(i, p, p + Imm(i) - 4)
opcode_1b(i, p) == SetRd(i, p, Extend(X[i.rs1] + Imm(i)))

opcode_23(i, p) ==
    [x |-> X, pc |-> p,
     mem |-> IF Inside(Addr(i), Width(i.op)) THEN Store(mem, Addr(i), Width(i.op), X[i.rs2])
             ELSE mem]

opcode_33(i, p) == SetRd(i, p, X[i.rs1] + X[i.rs2])
opcode_37(i, p) == SetRd(i, p, Imm(i))
opcode_3b(i, p) == SetRd(i, p, Extend(X[i.rs1] + X[i.rs2]))

\* rd is written before rs1 is read; bit 0 of the target is cleared.
opcode_67(i, p) ==
    LET t == (SetRd(i, p, p).x[i.rs1] + Imm(i)) % XMod
    IN [SetRd(i, p, p) EXCEPT !.pc = t - (t % 2)]

opcode_6f(i, p) == [SetRd(i, p, p) EXCEPT !.pc = (p + Imm(i) - 4) % XMod]

emu_exec(i, p) ==
    CASE i.op \in {"lw", "ld"} -> opcode_3(i, p)     [] i.op \in {"addi", "slti"} -> opcode_13(i, p)
      [] i.op = "auipc" -> opcode_17(i, p)           [] i.op = "addiw" -> opcode_1b(i, p)
      [] i.op \in {"sb", "sw", "sd"} -> opcode_23(i, p) [] i.op = "add" -> opcode_33(i, p)
      [] i.op = "lui" -> opcode_37(i, p)             [] i.op = "addw" -> opcode_3b(i, p)
      [] i.op = "jalr" -> opcode_67(i, p)            [] i.op = "jal" -> opcode_6f(i, p)
      [] OTHER -> [x |-> X, pc |-> p, mem |-> mem]

\* A load or store that leaves the memory, or a store into the program: the
\* behaviour is not followed beyond it.
Strays(i) ==
    /\ i.op \in {"lw", "ld", "sb", "sw", "sd"}
    /\ \/ ~Inside(Addr(i), Width(i.op))
       \/ i.op \in {"sb", "sw", "sd"} /\ Addr(i) < code_size

\* The word at pc: an instruction of the program, or bytes of two of them if pc
\* is not aligned.
Fetch == IF pc % 4 = 0 THEN {prog[pc \div 4 + 1]} ELSE Torn

\* Fetch, pc += 4, emu_exec
Execute(i) ==
    /\ inst' = i
    /\ pc' = emu_exec(i, pc + 4).pc
    /\ x' = emu_exec(i, pc + 4).x
    /\ mem' = emu_exec(i, pc + 4).mem
    /\ wild' = IF Strays(i) THEN "program" ELSE wild
    /\ UNCHANGED prog

----------------------------------------------------------------------------
\* emu_cont

\* Between requests, in a session that is not over
Waiting == mode = "idle" /\ wild = "no" /\ act # "SHUTDOWN"

ContBegin ==
    /\ Waiting
    /\ mode' = "cont" /\ halt' = FALSE
    /\ inst' = NoInst /\ act' = "NONE" /\ exec' = FALSE /\ why' = {}
    /\ UNCHANGED <<machine, points, wild>>

\* Mutant: the loop does not look at the halt flag.
RunsUnhalted == pc < code_size /\ pc # bp_addr

\* The condition of the loop
Runs == pc < code_size /\ pc # bp_addr /\ ~halt

\* Mutant: the byte behind tohost is looked at.
TohostHigh == mem'[TOHOST_ADDR + 1] # 0

\* The byte at tohost_addr after the instruction
Tohost == mem'[TOHOST_ADDR] # 0

ContEnds(a) == mode' = "idle" /\ act' = a

\* The body of the loop; an instruction that is not implemented breaks out of
\* it before tohost is looked at.
ContStep ==
    /\ mode = "cont" /\ wild = "no"
    /\ Runs
    /\ \E i \in Fetch :
         /\ Execute(i)
         /\ exec' = TRUE
         /\ \/ i.op = "illegal" /\ ContEnds("RESUME") /\ why' = why \cup {"illegal"}
            \/ i.op # "illegal" /\ Tohost /\ ContEnds("SHUTDOWN") /\ UNCHANGED why
            \/ i.op # "illegal" /\ ~Tohost /\ UNCHANGED <<mode, act, why>>
    /\ UNCHANGED <<points, halt>>

ContReturn ==
    /\ mode = "cont" /\ ~Runs
    /\ ContEnds("RESUME")
    /\ inst' = NoInst
    /\ UNCHANGED <<machine, points, halt, exec, why, wild>>

\* On the reader thread, while cont runs or just before or after it
emu_on_interrupt ==
    /\ halt' = TRUE
    /\ why' = IF mode = "cont" THEN why \cup {"intr"} ELSE why
    /\ inst' = NoInst
    /\ UNCHANGED <<machine, points, mode, act, exec, wild>>

----------------------------------------------------------------------------
\* The requests of an idle target

emu_stepi ==
    /\ Waiting
    /\ halt' = FALSE /\ act' = "STEPPED" /\ exec' = FALSE /\ why' = {}
    /\ IF pc < code_size THEN \E i \in Fetch : Execute(i)
       ELSE inst' = NoInst /\ UNCHANGED <<machine, wild>>
    /\ UNCHANGED <<points, mode>>

Idle ==
    /\ Waiting
    /\ inst' = NoInst /\ act' = "NONE"
    /\ UNCHANGED <<prog, halt, mode, exec, why>>

\* Mutant: a second breakpoint replaces the first.
SetBpReplaces == TRUE

CanSetBp == ~bp_is_set

\* emu_set_bp: of another type than BP_SOFTWARE, or a second one, is refused.
emu_set_bp ==
    /\ Idle
    /\ \E addr \in {4 * (k - 1) : k \in DOMAIN prog}, software \in BOOLEAN :
         IF software /\ CanSetBp
         THEN bp_is_set' = TRUE /\ bp_addr' = addr /\ client_bps' = client_bps \cup {addr}
         ELSE UNCHANGED points
    /\ UNCHANGED <<pc, x, mem, wild>>

\* Mutant: the address stays.
FreedKept == bp_addr

FreedBp == 0

\* emu_del_bp is always content.
emu_del_bp ==
    /\ Idle
    /\ \E addr \in {4 * (k - 1) : k \in DOMAIN prog}, software \in BOOLEAN :
         /\ client_bps' = IF software THEN client_bps \ {addr} ELSE client_bps
         /\ IF software /\ bp_is_set /\ bp_addr = addr
            THEN bp_is_set' = FALSE /\ bp_addr' = FreedBp
            ELSE UNCHANGED <<bp_is_set, bp_addr>>
    /\ UNCHANGED <<pc, x, mem, wild>>

\* emu_write_reg; reading changes nothing.
emu_write_reg ==
    /\ Idle
    /\ \E w \in RegWrite :
         IF w[1] = RegCount THEN pc' = w[2] /\ UNCHANGED x
         ELSE x' = [x EXCEPT ![w[1]] = w[2]] /\ UNCHANGED pc
    /\ UNCHANGED <<mem, points, wild>>

\* Mutant: only the first byte is looked at.
RefusedFirst(addr, len) == addr > MEM_SIZE

\* if (addr + len > MEM_SIZE) return EFAULT, on size_t
Refused(addr, len) == (addr + len) % XMod > MEM_SIZE

\* emu_read_mem and emu_write_mem.  The client does not change the program.
emu_access_mem ==
    /\ Idle
    /\ \E req \in Access, writes \in BOOLEAN, v \in 0 .. ByteSize - 1 :
         LET addr == req[1] len == req[2]
             bytes == addr .. addr + len - 1
         IN /\ ~Refused(addr, len)
            /\ writes => addr >= code_size
            /\ wild' = IF bytes \subseteq DOMAIN mem THEN wild
                       ELSE IF addr + len >= XMod THEN "wrap" ELSE "request"
            /\ mem' = IF writes THEN [a \in DOMAIN mem |-> IF a \in bytes THEN v ELSE mem[a]]
                      ELSE mem
    /\ UNCHANGED <<pc, x, points>>

\* The session is over, or after a wild access nothing is known.
Over == (wild # "no" \/ act = "SHUTDOWN") /\ UNCHANGED vars

Next ==
    \/ ContBegin \/ ContStep \/ ContReturn \/ emu_on_interrupt
    \/ emu_stepi \/ emu_set_bp \/ emu_del_bp \/ emu_write_reg \/ emu_access_mem
    \/ Over

\* The main thread stays in the loop of emu_cont until it is through.
Spec == Init /\ [][Next]_vars /\ WF_vars(ContStep \/ ContReturn)

----------------------------------------------------------------------------
\* Properties

\* Registers, pc and memory hold what their C types can, and a memory request
\* the emulator accepts stays within its memory (wild is never "request"),
\* except when addr + len wraps around (emu.c:418, 428).
TypeOK ==
    /\ pc \in 0 .. XMod - 1 /\ x \in [0 .. RegCount - 1 -> 0 .. XMod - 1]
    /\ mem \in [0 .. MEM_SIZE - 1 -> 0 .. ByteSize - 1]
    /\ bp_is_set \in BOOLEAN /\ bp_addr \in 0 .. XMod - 1 /\ halt \in BOOLEAN
    /\ mode \in {"idle", "cont"} /\ act \in {"NONE", "RESUME", "SHUTDOWN", "STEPPED"}
    /\ wild \in {"no", "program", "wrap"} /\ why \subseteq {"illegal", "intr"}

\* A breakpoint whose insertion was answered with OK, and which has not been
\* removed, is never run over by emu_cont, whatever was set, removed or
\* refused in between.
BreakpointsHonoured ==
    [][mode = "cont" /\ inst' # NoInst => pc \notin client_bps]_vars

\* README.md:30 says of cont "Run the emulator until hitting breakpoint or
\* exit": when emu_cont returns with ACT_RESUME there is a reason the client
\* knows of.  The one exception: pc is 0 and a breakpoint has been removed,
\* which leaves 0 in bp_addr (emu.c:498).
StopsForAReason ==
    mode = "idle" /\ act = "RESUME" =>
        pc >= code_size \/ pc \in client_bps \/ why # {} \/ (pc = 0 /\ ~bp_is_set)

\* "stopped after writing the specific memory address" (emu.c:453): no cont
\* that has executed an instruction goes on, or returns to the client, with
\* the byte at tohost set, unless the instruction was not implemented; and
\* none ends the session without it.
TohostEndsRun ==
    /\ (mode = "cont" \/ act = "RESUME") /\ exec /\ "illegal" \notin why
         => mem[TOHOST_ADDR] = 0
    /\ act = "SHUTDOWN" => mem[TOHOST_ADDR] # 0

\* What RISC-V defines, over the integers: the value of rd and the next pc.
ISA_rd(i) ==
    LET r(k) == IF k = 0 THEN 0 ELSE x[k]
        at == (r(i.rs1) + i.imm) % XMod
    IN CASE i.op = "lw" -> Signed(Load(mem, at, 4), WMod)  [] i.op = "ld" -> Load(mem, at, 8)
         [] i.op = "addi" -> r(i.rs1) + i.imm              [] i.op = "add" -> r(i.rs1) + r(i.rs2)
         [] i.op = "slti" -> IF Signed(r(i.rs1), XMod) < i.imm THEN 1 ELSE 0
         [] i.op = "addiw" -> Signed((r(i.rs1) + i.imm) % WMod, WMod)
         [] i.op = "addw" -> Signed((r(i.rs1) + r(i.rs2)) % WMod, WMod)
         [] i.op = "lui" -> i.imm                          [] i.op = "auipc" -> pc + i.imm
         [] i.op \in {"jal", "jalr"} -> pc + 4

ISA_pc(i) ==
    LET t == IF i.rs1 = 0 THEN i.imm ELSE x[i.rs1] + i.imm
    IN CASE i.op = "jal" -> pc + i.imm [] i.op = "jalr" -> t - (t % 2) [] OTHER -> pc + 4

\* An instruction does to registers, pc and memory what the instruction set
\* says, with x0 read as zero even after the client or an instruction wrote
\* it; except lw of a negative word, which is not sign-extended (emu.c:85),
\* and jalr with rd = rs1, whose target comes from the new rd (emu.c:228).
ExecMatchesISA ==
    [][LET i == inst' IN
       i # NoInst /\ i.op # "illegal" /\ wild' = "no" =>
         \/ i.op = "jalr" /\ i.rd = i.rs1
         \/ i.op = "lw" /\ ISA_rd(i) < 0
         \/ /\ pc' = ISA_pc(i) % XMod
            /\ \A r \in 1 .. RegCount - 1 :
                 x'[r] = IF r = i.rd /\ i.op \notin {"sb", "sw", "sd"}
                         THEN ISA_rd(i) % XMod ELSE x[r]
            /\ i.op \in {"sb", "sw", "sd"} =>
                 LET at == ((IF i.rs1 = 0 THEN 0 ELSE x[i.rs1]) + i.imm) % XMod
                     n == Width(i.op)
                 IN /\ Load(mem', at, n) = (IF i.rs2 = 0 THEN 0 ELSE x[i.rs2]) % ByteSize ^ n
                    /\ \A a \in DOMAIN mem \ (at .. at + n - 1) : mem'[a] = mem[a]]_vars

\* The emulator is a target as gdbstub_run needs it: in particular an interrupt
\* stops any program, looping ones too.
Abstract == INSTANCE Target WITH running <- mode = "cont", halt <- halt
ImplementsTarget == Abstract!Spec
==============================================================================
