# mini-gdbstub in TLA+

mini-gdbstub is a library that lets an emulator be debugged by GDB over the
Remote Serial Protocol. This directory holds TLA+ models of it, translated from
`src/src/*.c` and the example emulator `src/emu/src/emu.c`, the TLC runs that
check them on small instances, and TLAPS proofs of their safety properties for
instances of any size.
`PROJECT.json` maps every definition to the lines it stands for and lists the
runs, mutants, hazards, findings and theorems.

## Inventory

| Component | State | Operations | Interacts with |
|---|---|---|---|
| reader thread (`socket_reader`) | its packet buffer | poll, read, scan for 0x03, assemble, push, acknowledge, exit | queue (push, signal), connection (try-send), `on_interrupt` of the target, flags `thread_stop`, `async_io_enable` |
| main loop (`gdbstub_run`, `gdbstub_handle_event`, `gdbstub_close`) | `reader_running`, `thread_stop`, `async_io_enable`, `args` | pop, verify, acknowledge, dispatch, run the target, stop, join, free | queue, connection, target callbacks |
| packet queue (`pktqueue.c`) | linked list, `shutdown`, `interrupted`, mutex, condition variable | push, pop, two signals, check, destroy | both threads |
| packet buffer (`packet.c`) | `data`, `cap`, `size`, `end_pos` | fill, is_complete, pop_packet | reader thread only |
| connection (`conn.c`) | sockets, `send_mutex`, `no_ack_mode`, `failure_count` | init, send, try-send, framed send, close | both threads send |
| request handlers (`gdbstub.c`) | `regbuf`, `total_reg_bytes` | one per request letter | target callbacks, connection |
| conversions (`utils/`) | none | checksum, hex, unescape | handlers |
| emulator (`emu.c`) | registers, memory, `halt`, one breakpoint | cont, stepi, register and memory access, breakpoints, on_interrupt | called by main; `on_interrupt` by the reader |

What is hard: two threads hand packets, interrupts and the end of the session
over through one queue; interrupts race with the start and the end of `cont`;
both threads write to one socket; TCP cuts the byte stream anywhere; the target
may refuse any access half-way through a request. What makes each part correct:

* queue: FIFO, no lost wake-up, no node leaked or used after free;
* session: each request answered once and in order, failures counted in a row,
  no-ack mode honoured, close waits for the reader, interrupts stop the target,
  a disconnect ends the run;
* buffer: the packets are those in the stream, and framed as their users assume;
* sending: strings not interleaved or garbled, the reader never held up;
* requests: the client's picture of registers, memory and thread is right, what
  it is told works does, handlers call only callbacks that are there and answer
  within their arrays;
* bulk register write: all or nothing;
* conversions: round trip, and a changed character is noticed;
* emulator: breakpoints honoured, stops only for a reason, stops when halted,
  instructions as the instruction set defines them;
* set-up: every error path releases what was acquired, once; a successor can
  bind the address.

## Modules

* **FifoQueue**: the queue as `pktqueue.h` promises it, every operation one
  atomic step. An abstract specification, and the building block of Gdbstub.
* **PktQueue**: `pktqueue.c` itself: nodes with addresses, `head`, `tail`, mutex
  and condition variable, each operation split at lock, unlock and sleep.
  `order` is a history variable (the nodes linked so far). `ImplementsFifo`
  states that it implements FifoQueue: `queue` is mapped to the packets of the
  linked nodes, and pop takes effect when it unlinks the node.
  **PktQueueProofs** has the proofs.
* **Gdbstub**: both threads over FifoQueue. `rpc` and `mpc` are their program
  counters; an action is what happens between two points where the other thread
  can see a difference. A blocking send is a subroutine (`call` holds the string
  and where to go on). The client is the environment: any number of interrupt
  characters and any packets, good or bad, in any order. A request is reduced to
  its effect on the session: continue `c`, step `s`, detach `D`,
  QStartNoAckMode `Q`, and `m` for all that are answered at once (the EPERM
  answers included). The target is the emulator: `cont` clears `halt`, loops,
  and stops when it sees `halt` or by itself. `popped` and `wire` are history.
  **MCGdbstub** builds the packets for TLC; **GdbstubProofs** has the proofs.
* **Pktbuf**: `packet.c` byte by byte, the memory behind the valid bytes
  included; `cap` is the number of bytes allocated (`1 << cap` in the code), which
  doubles. The scan for 0x03 looks at the last `nread` bytes of the buffer after
  the read, as the code does. `ref` and `whole` are history variables: the decoder
  that takes one byte at a time, fed with what was read and with what was sent. `lockstep` and `uncut` record whether the client
  waited for each packet to be taken and whether some read ended between two
  checksum digits. **MCPktbuf** gives the messages, **PktbufProofs** has the proofs.
* **Conn**: `__conn_send_str` under its mutex, on a blocking socket with a buffer
  of `Room` bytes, with partial writes, signals that interrupt `write` or `poll`,
  timeouts, a client that stops reading, and one that leaves. **ConnProofs** has the proofs.
* **RegWrite**: `process_reg_write`, every loop iteration an action, any call of
  the target may fail. **RegWriteProofs** has the proofs.
* **Codec**: `csum.c`, `translate.c`, the framing of `conn_send_pktstr` and
  `packet_csum_verify` as operators on sequences of character codes.
* **Requests**: `gdbstub_process_packet` with all its handlers. One action per
  handler, or per group of requests with one outcome; a request is handled by
  the main thread alone, so it is one step. `conf` is the target (callbacks,
  register sizes, description, CPUs), chosen in the initial state; a callback
  that returns a result may refuse. `view`, `advert` and `xfer` are the client:
  it believes the answers as the protocol tells it to. A handler that writes
  beyond its array ends the session as an overrun, one whose answer is too long for
  `conn_send_pktstr` as a failed assertion; neither is followed further. `cause` records what has
  made its picture wrong; a session is not followed beyond that, which is why
  each exception in a property is one the code has. The mode that
  QStartNoAckMode sets is in Gdbstub; the loops of `G` are in RegWrite, and here
  it is one step with any outcome of those loops. **MCRequests** has the targets; **RequestsProofs** the proofs,
  those about Codec included.
* **Target**: what `gdbstub_run` needs of a target's `cont`, `stepi` and
  `on_interrupt`: starting forgets an earlier halt, and a halted `cont` returns.
  Gdbstub stays within it (`UsesTarget`) and Emu implements it
  (`ImplementsTarget`), so the two compose over this interface. `Steps` is its
  safety part, without fairness.
* **Emu**: `emu.c`. The loop of `emu_cont` is an action per instruction, so that
  `emu_on_interrupt` comes between any two. Instructions are records of decoded
  fields; integers wrap at the width of their scaled types. A fetch at a pc that is
  not aligned gives any word of `Torn`, a constant. Stray loads and
  stores of the program and memory requests outside the memory are recorded in
  `wild` and not followed further. **MCEmu** has the programs, **EmuProofs** the
  proofs.
* **Lifecycle**: the resources of a stub through `gdbstub_init`, `gdbstub_run` and
  `gdbstub_close`. `Step` is the table of the calls that can fail, with the label
  each jumps to; `Release` the table of labels and of the steps of
  `gdbstub_close`, with the next one. The address is a port, a path, or a path
  that does not fit `sun_path` (`mode`); `bound` says whose listening socket has it,
  from `bind` until conn.c closes `listen_fd`, in `conn_close` or at the label
  `fail`. The kernel's side (which binds succeed, lingering connection, path in the
  file system, death of a process) is the environment.
  **LifecycleProofs** has the proofs.

Definitions named as mutants (commented "Mutant:") are not part of any
specification: each is a plausible bug that the named property must detect.

## Runs

| Run | What it asks | Bounds |
|---|---|---|
| `queue` | types and list shape, ownership, refinement of FifoQueue (which includes that no wake-up is lost) | 2 packets, 3 addresses: queue lengths 0 to 3 with a node in each thread's hands and reuse of freed addresses |
| `session` | order and completeness of answers, order of the reader's ACKs, failure count and its limit, no-ack mode in the main thread | 3 packets of 4 kinds, good or bad; `MaxFailures` 2, so that the limit is reached, missed by one and reset |
| `threads` | hand-over safety and liveness of the two threads | 2 packets, 1 interrupt, 2 calls of `gdbstub_run`; `MaxFailures` 1 so that a run also ends by failure and is called again |
| `buffer` | capacity, framing, exactness, interrupts | 3 messages, packets with and without a 0x03 and interrupts between them, a buffer of 8 bytes that must double once; every way to cut the stream |
| `send` | interleaving, partial writes, mutex, reader not held up | 2 strings per thread of up to 3 bytes, a socket buffer of 2, so that strings do not fit; timeout after 2 polls |
| `bulk_write` | all or nothing | 3 registers: first, middle and last can fail |
| `requests` | what a client can believe, answer sizes, callbacks, qXfer, thread ids, checksum | 12 targets; bytes 0x7d (the escape) and 0xaf (hexadecimal letters); memory of 2 bytes; errno values of one and two digits; arrays of 62 with an advertised size of 98, the 36 of difference between 0x1000 and 0x1024 kept; a register buffer that starts at 1 and must double twice for a register of 3; windows smaller than, equal to and larger than the rest of a description of 57 characters; 11 CPUs, so that one number has two decimal digits; registers and CPUs that just fit the array, that fail the assertion by one, that overrun the array, and registers of mixed sizes that overrun it although their sum fits |
| `emulator` | stop conditions, breakpoints, memory bounds, instruction semantics, refinement of Target | 8 programs with every instruction, a loop, a store to tohost and an instruction that is not implemented; four words for a fetch that is not aligned; bytes of 2 values, so registers of 8 and words of 4 bits; memory of 16 bytes; requests at the end of the memory and at the wrap-around |
| `lifecycle` | leaks, double release, restart on the same address | 2 stubs on one address of each of the three kinds, every call failing, death anywhere |
| `lost_interrupt`, `buffer_split`, `buffer_lost` | what a comment or the README says, violated | smallest instance that shows it |

`CHECK_DEADLOCK FALSE` is set where the client may simply stop sending (Pktbuf)
or the threads have no more to send (Conn).

### What the violations show

* `lost_interrupt`: an interrupt read after the continue request was taken but
  before `async_io_enable`, or whose `on_interrupt` precedes `emu_start_run`,
  does not stop the target.
* `buffer_split`: `end_pos > size` should be `>=`; a read that ends between the
  checksum digits leads to a `memmove` of size -1.
* `buffer_lost`: the rest is moved from one byte too far, and the `$` of a packet
  that follows directly is lost.

### Exceptions the passing properties state

Where the code misses what one would expect, the property names the exception
exactly, and would fail if there were another:

* `DrainedWithoutInterrupt`: pop returns NULL for an interrupt; before
  `gdbstub_run` tests for shutdown, the reader pushes a packet and shuts down,
  and the packet stays unhandled. The interrupt is then still pending; earlier
  interrupts that were dealt with do not matter.
* `AnswersInOrder`: the packet is in the queue before the reader acknowledges it,
  so its ACK may come behind main's answer to the same packet; never behind
  anything for a later one.
* `FailuresAreConsecutive`: a second call of `gdbstub_run` starts with the count
  the first has left; the exact limit is stated for the first.
* `MainHonoursNoAck`: holds for the main thread; `socket_reader` never looks at
  `no_ack_mode` and goes on acknowledging.
* `SendReturnsIfRead`: the socket is blocking, so the 5 s timeout of
  `conn.c:104` does not bound a send to a client that stops reading.
* `InterruptsExact`: a byte 0x03 inside a packet counts as an interrupt. Without
  one, no interrupt is signalled that was not sent; and all that were sent have
  been signalled, once, when they have been read.
* `MemoryViewExact`: an `X` the target refuses is answered with OK
  (`gdbstub.c:484`); and `"E%d"` of an errno below 10 has one digit, which is
  not an error to GDB.
* `RegisterViewExact`: the same digits; `g` on a target with registers of mixed
  size (`gdbstub.c:249`); a rollback of `G` that fails itself.
* `CallbacksRespected`: `G` calls `read_reg`, but only `write_reg` was tested for.
* `AnswersFit`: `TooLong` names four requests whose answers may meet the assertion
  of `conn_send_pktstr` or overrun `packet_str`, and from which size on. `m`:
  `PacketSize=1024` is hexadecimal, 4132, and a read may have an answer of 4091
  characters or more. `p` and `g`: nothing limits the size of registers; and `g`
  places register i at i times its own size (`gdbstub.c:249`), which for mixed
  sizes can lie beyond the array although all of them would fit. `qfThreadInfo`:
  `assert(smp < 10000)` lets 9999 CPUs pass where the array holds some 800.
* `StopsForAReason`: a removed breakpoint leaves `bp_addr` 0, so `cont` at pc 0
  returns at once.
* `ExecMatchesISA`: `lw` does not sign-extend, and `jalr` with `rd = rs1` jumps to
  the address it has just written.
* `TypeOK` of Emu: `addr + len` of a memory request can wrap around.
* `TohostEndsRun`: an instruction that is not implemented leaves the loop before
  tohost is looked at.
* `RestartCanBind`: another stub on the same path that binds between `unlink`
  and `bind`; an `unlink` that is refused, which nobody looks at; and a path of
  more than 107 characters, which `strncpy` cuts for `bind` while `unlink` is given
  all of it (`conn.c:66`).

Seen while modelling and not given a run: the reader acknowledges a packet
before its checksum is verified (`+` and then `-` for the same packet);
`on_interrupt` may be called just after `cont` has returned; pop returns NULL
for interrupts although `pktqueue.h` says "on shutdown"; `x0` reads as what the
client or an instruction wrote until the next instruction; windows of `qXfer` of
length 0 and 1 (which GDB does not use) carry nothing; `init_mem` does not close
the file of a program it refuses; the rollback of a G request ignores failing writes
(`spoilt` in RegWrite).

## Fairness

`FairSpec` of Gdbstub has weak fairness for each thread as a whole: both are
ordinary pthreads that are scheduled again and again. Every blocking step of a
thread is either a bounded poll or a wait for the other thread. The lock of the
send mutex needs no strong fairness: the reader only tries it, holds it for one
byte, and after the finitely many packets of an instance lets go of it. Nothing
is assumed of the client, of the program under debug (which may run for ever)
or of the embedding program. A send of the main thread always ends in Gdbstub;
`SendReturnsIfRead` in Conn shows under what condition: main is scheduled and
the client goes on reading, both written as premises of the property.
`ReaderResponsive` assumes fairness of the reader alone (`ReaderFairSpec`). Emu
assumes that the main thread stays scheduled in the loop of `emu_cont`, and
nothing else; Target has the fairness that follows: `cont` returns once halted.

Relaxed atomics (`async_io_enable`, `thread_stop`, `halt`) are modelled as
sequentially consistent single variables: each is read and written on its own,
and the properties do not rely on an order between two of them that the code
would have to enforce by stronger orderings, except that
`InterruptStopsLoop` starts from a state where main is already in the loop.

## Proofs

Every theorem of the form `Spec => []P` rests on an inductive invariant of its
module: a lemma for the initial states, one that goes through the actions, and
the theorem `Invariance`. TLC has checked each of these invariants on the
instance of the module's run. The bounds of the models are constants of the
theorems: nothing is assumed of them but that they are numbers.

| Module | Theorems (properties of runs in parentheses) | From |
|---|---|---|
| GdbstubProofs | `TypeCorrect` (`TypeOK`), `NeverLosesWakeup` (`NoLostWakeup`), `CloseIsSafe` (`NoUseAfterFree`), `Drained` (`DrainedWithoutInterrupt`), `RequestsAnsweredInOrder` (`AnswersInOrder`), `NoRequestForgotten` (`EveryRequestAnswered`), `GivesUpOnlyInARow` (`FailuresAreConsecutive`), `NoAckModeHonoured` (`MainHonoursNoAck`), `KeepsToContract` (`Contract!Steps`) | `PacketAssumption` (packets are records), `BoundAssumption`, `NullIsNoPacket` |
| PktQueueProofs | `ListWellFormed` (`ListShape`), `NodesOwnedOnce` (`OneOwner`), `RefinesFifo` (`ImplementsFifo`) | `NullAssumption` |
| PktbufProofs | `PacketsWellFramed` (`WellFramed`), `EveryInterruptSignalled` (`InterruptsExact`), `PacketsAsSent` (`FramesExact`), `WaitingClientSafe` | `MessageAssumption`, `CapAssumption` (some bytes are allocated); the last two also from `SinglePackets` (below) |
| ConnProofs | `StringsStayIntact` (`StringsIntact`), `MutexHeldInside` (`MutexMatches`) | `ConnAssumption` |
| LifecycleProofs | `NothingLeaks` (`ResourcesBalanced`), `RestartBinds` (`RestartCanBind`) | nothing: any set of stubs |
| RegWriteProofs | `GIsAtomic` (`AllOrNothing`) | `RegNumAssumption` |
| EmuProofs | `TypeCorrect` (`TypeOK`), `AlwaysAReason` (`StopsForAReason`), `TohostIsFinal` (`TohostEndsRun`), `NoBreakpointRunOver` (`BreakpointsHonoured`), `RefinesTarget` (`Abstract!Steps`), `InstructionsAsDefined` (`ExecMatchesISA`) | `MachineAssumption` (the memory has room for tohost and is smaller than the address space, a byte has an even number of values), `InputAssumption` (programs, words of `Torn` and requests are of their C types, so that an immediate fits a register), `PowerAssumption` |
| RequestsProofs | `Typing` (`TypeOK`), `OnlyKnownCallbacks` (`CallbacksRespected`), `DescriptionArrives` (`TransferExact`), `MemoryKnown` (`MemoryViewExact`), `RegistersKnown` (`RegisterViewExact`), `ThreadKnown` (`ThreadViewExact`), `AnswersFitPacket` (`AnswersFit`), `ChangesNoticed` (`ChangedByteNoticed`), `HexRoundTrip`, `EscapeRoundTrip`, `ThreadRoundTrip`, `ChecksumGuardsText` | `SizesAssumption` (bytes are below 256 and errno values 1 to 99; windows have at least 2 characters; a packet has 59 to 4096; a target has a register, and none is empty; any sizes of registers, any number of CPUs, any advertised size) |

The arguments:

* **Session, threads** (`IInv` in Gdbstub): a thread about to use its packet has
  one (`PacketInv`, for the types of what is sent); main sleeps only in pop and
  only while there is nothing to return (`WaitInv`); `reader_running` is true
  exactly while there is a thread to join, and the close sequence passes the
  join (`ThreadInv`); outside close, shutdown means that the reader is done and
  pushes nothing more, and with no interrupt pending a NULL from pop means
  shutdown with an empty queue (`DrainInv`).
* **Session, conversation** (`SessionInv`, inductive relative to `IInv`): packets
  popped, queued and about to be pushed have increasing numbers (`Pipeline`).
  While main is busy, its packet is the last one popped, and where main is
  agrees with the request (`StageInv`), with the send in progress (`CallInv`)
  and with what is already on the wire for this packet (`WireInv`): nothing
  before it is settled, at most an ACK before it is answered. Hence a new token
  on the wire is for the last packet and follows only an ACK for it. `AnswerInv`
  says which packets are answered, `CountInv` counts back from the last settled
  packet (the one in hand is not counted yet), and `NoAckInv` that an answered
  QStartNoAckMode has set the mode; the mode is never reset. `AckInv` is about the
  reader: the packet it is about to acknowledge is the last it has pushed, so
  nothing on the wire is for a later one, and it has not acknowledged it yet.
* **Queue**: `IInv` adds to list shape and ownership which operation each thread
  is in, that only push holds a fresh node and only pop an unlinked one, that
  nodes in use hold packets, and that main does not hold the mutex while it
  sleeps. The refinement maps each step that links or unlinks a node to Push or
  PopTake, and every lock, unlock and malloc to a stutter.
* **Buffer**: between `pktbuf_is_complete` and `pktbuf_pop_packet` a `$` is at the
  front and `end_pos` is two behind the first `#` (`CompleteInv`). `end_pos` may
  be equal to `size`: that is the off-by-one of `buffer_split`, and framing holds
  in spite of it. The bytes of the buffer that `socket_reader` scans are
  those it has just read, whatever was in front of them, so that what
  the scan has counted and the bytes 0x03 still to be read are together those of
  all that was sent, between packets and inside (`CountInv`). This needs nothing of
  the client. For the packets themselves, `FrameInv` takes
  the valid bytes together with those still to be read as one stream: it holds at
  most one packet, the decoder is where the valid bytes end, and
  `pktbuf_is_complete` says yes exactly when the decoder is through. It holds in
  lock step and while no read ends between two checksum digits, for clients whose
  messages hold at most one packet, nothing behind it, and no `$` but its own
  (`SinglePackets`). That nothing is behind the packet is needed:
  `pktbuf_pop_packet` moves the rest from one byte too far, and when the buffer is
  full to the last byte, whatever lies behind it comes in. `WaitingClientSafe`
  adds that for such a client no incomplete packet is taken and the size of that
  `memmove` is never negative.
* **Sending**: a thread that holds the mutex and has sent something has sent the
  last byte of the wire, and continues right behind it (`AtTheEnd`); one that
  waits for the mutex has sent nothing of its string.
* **Set-up**: what a stub holds depends only on the label or call it is at
  (`Holds`), up to the reader thread. One table for all the paths: each failing
  call jumps to the label whose row is what has been acquired so far. The address
  is bound only by a stub that holds its listening socket (`BoundInv`), so every
  path through the table gives it up.
* **Bulk write**: `LoopInv` says for each of the three loops which registers hold
  the new and which the old value, `BackupInv` that the backup is the old state.
* **Emulator**: `client_bps` is exactly the breakpoint that is set; when none is,
  `bp_addr` is what `emu_init` or `emu_del_bp` left (`PointsInv`); in the loop only
  an interrupt sets `halt` (`ContInv`). Type correctness goes through every
  instruction; the loop of `read_len` is unrolled, since it reads 8 bytes at most.
  `PowerAssumption` (powers of the byte size are positive numbers, each the
  previous one times the byte size) is arithmetic that the provers do not know.
  `InstructionsAsDefined` goes through the groups of instructions (`ArithISA`,
  `LoadISA`, `StoreISA`, `JumpISA`) and rests on lemmas about remainders: the code
  cuts a sum to the width of a register at other places than the definition of
  the instruction set does, and converts signs where that takes sign-extended
  fields (`SameMod`, `ModAdd`, `ModDigit`). What `read_len` returns behind a
  `write_len` is shown digit by digit (`LoadStored`).
* **Requests**: what was advertised is what the target has (`AdvertInv`); what the
  client has of the description agrees with it character by character, and a
  window is the last exactly when it takes the rest (`XferInv`). What the client
  believes is in `ViewInv`, inductive relative to that: the target keeps the shape
  its description gives it and the buffer of `regbuf.c` holds every register that
  went through it (`StateInv`), every answer is a text that fits, but for what
  `TooLong` names (`AnswerInv`; `RegTextFits` bounds the text of `g` even where
  registers overlap), and the client's picture is the target's state unless
  `cause` says otherwise, its thread the selected CPU (`BeliefInv`). The loops
  that build answers and take requests apart are recursive functions of the
  position; each is first shown to have a run (`LoopExists`), then followed
  position by position.
* **Conversions**: `HexRoundTrip` goes digit by digit. For the checksum, the
  values the loop of `compute_checksum` takes are shown to exist and, for two
  texts that differ in one byte, to differ by that byte's difference from there
  on, modulo 256 (`ChecksumRuns`, `ChecksumShift`). Both are inductions over the
  position, done as the search for the least position that fails (`UpTo`).
  `ChecksumGuardsText` is more than `ChangedByteNoticed` asks: any text and any
  change of one byte; `ChangesNoticed` ties it to the answers, which are texts by
  `AnswerInv`. `EscapeRoundTrip` says that `unescape` gives back what the client
  escaped, whatever bytes it holds; `ThreadRoundTrip` that `process_set_cpu`
  selects the CPU whose digits the client was given, although the client takes
  them for hexadecimal and the code for decimal.

Only model-checked:

* Liveness, which is beyond the prover: `CloseTerminates`, `InterruptStopsLoop`,
  `InterruptFlagIsCleared`, `DisconnectEndsRun`, `ReaderResponsive`,
  `SendReturnsIfRead`, and the fairness in `UsesTarget` and `ImplementsTarget`
  (their initial states and steps are proved: `KeepsToContract`, `RefinesTarget`).
* `FramesExact` for an interrupt sent right behind a packet. It depends on the
  capacity: the run has it where packet and interrupt do not fill the buffer to
  the last byte, and it fails where they do.

## Not modelled, and the plan

Left out for good: how an instruction word is cut into its fields, the `main` of
the example, logging, build and test scripts, failure of allocations whose
result the code does not test, requests that break the syntax of the protocol
(the handlers assert it), growth of the packet buffer beyond a few doublings,
what a client does about a frame that a timeout has truncated. A client that
retransmits is left out because the code has no notion of it: a packet that
comes twice is two packets, which Gdbstub allows already.

Every property of the passing runs that is not a liveness property is stated by a
theorem. Two things remain. The liveness properties need a prover
for fairness and ENABLED. And `FramesExact` with an interrupt behind a packet
could be proved for messages that leave the buffer a byte to spare, with a
stream in `FrameInv` that may end in interrupts; the capacity then has to be part
of the invariant, since it doubles as the packet grows.
