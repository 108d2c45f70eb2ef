# Verification of mtkcpu

mtkcpu is a RV32I core written in Python with the Amaranth HDL: a multi-cycle CPU
with machine and user mode, a Wishbone bus with memory-mapped devices, optional
Sv32 address translation, and a RISC-V Debug Module reached over JTAG. This
directory holds TLA+ models of it, TLC configurations that check them, and
theorems about them with proofs for TLAPS.

## The system

| part | source | state | operations |
|---|---|---|---|
| CPU main FSM | `cpu/cpu.py` | FSM state, pc, instr, register file, single-step flag, `is_debug_mode` | CHECK_SHOULD_HALT, HALTED, FETCH, DECODE, EXECUTE, WRITEBACK, TRAP; entry to and exit from Debug Mode |
| handshake | `cpu/cpu.py`, `units/debug/cpu_dm_if.py` | two two-state acknowledge FSMs, the checker's delayed signals and `error_sticky` | haltreq/haltack, resumereq/resumeack |
| Debug Module | `units/debug/top.py`, `dmi_handlers.py`, `types.py` | DMI FSM, DMI registers, FSMs inside HandlerDATA and HandlerCOMMAND | DMI read and write, register access, program buffer execution, autoexec |
| debug transport | `units/debug/jtag.py` | TAP state, IR, shift registers | IEEE 1149.1 TAP, DMI scan |
| bus | `units/loadstore.py` | latched requests, slave FSMs | arbitration, address decoding, error signalling |
| address translation | `units/loadstore.py` | page-walk FSM, PTE, level | Sv32 walk |
| load/store unit | `units/loadstore.py` | none (combinational) | shifting, masks, sign extension |
| CSR unit | `units/csr/` | access FSM, CSRs | csrrw, csrrs, csrrc and their immediate forms |
| exception unit | `units/exception.py` | mepc, mcause, mtval, mstatus, privilege mode | trap entry, mret |
| devices | `units/mmio/` | EBR words, GPIO bits, UART shift register and counters | reads and writes, serial output |
| datapath | `cpu/cpu.py`, `cpu/isa.py`, `units/adder.py`, `compare.py`, `shifter.py`, `logic.py`, `upper.py` | active_unit, adder.sub, rdval, pc_addend, new_pc, is_jalr_latch, the ports of the register file | decoding, RV32I operations, write-back |

All parts are one synchronous clock domain: in a cycle every register takes its
next value from the values of all registers in that cycle, through combinational
signals that cross module borders. They interact through

* **requests and acknowledges**: the Debug Module raises haltreq and resumereq and
  waits for the CPU's acknowledge;
* **the bus**: the debug port, the data port and the fetch port compete for it,
  in this order of priority;
* **translation**: in user mode with satp on, an access of any port first makes
  the page walker use the bus for itself;
* **shared registers**: `dpc` is written by the CPU, the CSR unit and the Debug
  Module, `is_debug_mode` by the Debug Module for the CPU, `dcsr.step` by code in
  the program buffer for the CPU.

What makes it hard: the CPU, the Debug Module and the debugger run at the same
time and see each other's state with one or two cycles of delay; the same register
is written from several places; a check made in one state is used in a later one;
the debugger may send anything at any time; a program may trap anywhere, in the
program buffer too. The hazards are listed, with the property that covers each,
under `hazards` in `PROJECT.json`.

What makes the parts correct:

* *run control*: the debugged program does not notice the debugger (below);
* *handshake*: the protocol in the docstring of `cpu_dm_if.py`;
* *Debug Module*: a command does what it was asked for or reports why not, and
  leaves no trace of an unfinished command;
* *bus*: one owner, no starvation, every access is answered or raises an error;
* *translation*: the walk ends, and what it finds is what Sv32 says;
* *CSRs and traps*: an access has its effect once or is refused, a trap saves what
  mret needs;
* *transport*: what is shifted in arrives once and whole, what is captured comes out in order,
  and a debugger that is lost can always reset the port;
* *load/store unit and devices*: an access is an atomic load or store of the bytes it names, a
  GPIO's pins follow its register, a receiver hears the bytes the UART was given;
* *datapath*: an instruction is executed once, with the operands the registers hold when it
  begins and the result the instruction set gives it, or is refused with no effect.

## Modules

| module | what it is |
|---|---|
| `RunControl` | the CPU's main FSM, the handshake, bus ownership and the Debug Module with all its handlers, composed by the clock edge `Edge` |
| `HartContract` | abstract specification: what run control promises |
| `RunControlProps` | the refinement mapping, the inductive invariant and the properties |
| `CheckedRunControl` | `RunControl` with the handshake checker of `cpu_dm_if.py` beside it |
| `MCRunControl`, `MCCheckedRunControl` | instances for TLC |
| `RunControlProofs`, `HartContractProofs`, `CheckedRunControlProofs` | theorems and proofs: the invariants and progress; the refinement; the checker |
| `AddressTranslation` | the memory arbiter with virtual memory: the FSMs of the ports, the page walker, bridge, decoder and slaves, composed with the CPU's and the debugger's use of the bus |
| `AddressTranslationProps` | the algorithm of the privileged specification as a definition, the phases of an access, and the properties |
| `MCAddressTranslation`, `AddressTranslationProofs` | instances for TLC; theorems and proofs |
| `CsrLayout` | the CSRs with their fields, reset values and handlers, the csr functions, the causes |
| `CsrTrap` | CSR unit, exception unit and the CPU's main FSM that drives them, composed by the clock edge `Edge` |
| `PrivContract` | abstract specification: instructions and traps as atomic steps |
| `CsrTrapProps` | the refinement mapping and the properties |
| `MCCsrTrap`, `CsrTrapProofs` | instances for TLC; theorems and proofs |
| `JtagTap` | the TAP, its registers and the FSM of the Debug Module behind its DMI register |
| `DebugTransport` | abstract specification: a port after IEEE 1149.1, with edges of tck and no other clock |
| `JtagTapProps`, `MCJtagTap`, `JtagTapProofs` | the refinement mapping and properties; an instance for TLC; theorems and proofs |
| `Devices` | load/store unit, arbiter, bridge, and the block RAMs, GPIO and UART with its serial line and a receiver |
| `DeviceContract` | abstract specification: bytes with addresses, and accesses that happen at one moment |
| `DevicesProps`, `MCDevices`, `DevicesProofs` | the refinement mapping and properties; an instance for TLC; theorems and proofs |
| `IsaFormat` | words and instructions: the numbers of `cpu/isa.py`, the fields of an instruction |
| `Datapath` | decoder, arithmetic units, the latches of main_fsm and the ports of the register file |
| `IsaContract` | abstract specification: pc, registers, and an instruction that happens at one moment or is refused |
| `DatapathProps`, `MCDatapath`, `DatapathProofs` | the refinement mapping and properties; an instance for TLC; theorems and proofs |

Four of the modules have an abstract specification above them (`HartContract`, `PrivContract`,
`DeviceContract`, `IsaContract`), and the transport has `DebugTransport`: the same core seen by
the debugger, by privileged software, by any software's loads and stores, by its arithmetic, and
from the other end of the cable. Each module leaves to free choice what
another one determines: `Datapath` takes a trap or a halt in any place where `RunControl` and
`CsrTrap` may have one, `RunControl` an answer of the bus whenever `Devices` might give it.

`RunControl` maps to the code as follows. A step is one clock edge. A combinational
signal (`HaltReq`, `ResumeAck`, `JustHalted`, ...) is a state function, a `sync`
assignment a primed variable; a register with one driver is assigned in the action
of the FSM that drives it, one with several (`dpc`, the register file's write
port) in an operator of its own that gives the drivers their priority. The FSM of
the CPU has one action per state and way out of it (`CheckShouldHalt`, `Resume`,
`Fetch`, `Decode`, `ExecuteCsr`, `Trap`, ...), the Debug Module one per state of the
DMI FSM (`DmiUpdate`, `DeassertBusy`) and per handler (`HandleDmcontrol`,
`HandleData`, ..., and for HandlerCOMMAND one per state of its inner FSMs).
`Edge(ans)` conjoins them with the answer of the bus in that cycle.

Chosen freely in each step: the instruction a fetch returns (from `Code[pc]`), how
many cycles a slave needs, the value an instruction writes, and whether and what
the debugger sends over the DMI. No order is assumed between them.

Abstractions:

* Instructions are classes, by what the control of the core tells apart. The next
  pc is computed in WRITEBACK from the instruction, where the code latches
  `pc_addend` and `new_pc` in EXECUTE. `instr` is cleared where its value is dead.
* Traps set pc to `TrapVector`; mret goes to an address of the instruction. The
  contents of mepc, mcause, mtval and mstatus are the matter of `CsrTrap`.
* The hart is in machine mode and address translation is off, as in the default
  configuration; `AddressTranslation` has both.
* `wasHalted` is the register behind `just_halted`/`just_resumed` and the
  DMSTATUS.allhalted bit, which hold the same value.
* The FSMs of the HandlerDATA instances for DATA0 and DATA1 are one variable: the
  DMI FSM activates one handler at a time, and each returns to its first state
  before the DMI FSM leaves WAIT.
* A slave may answer in the first cycle; the Wishbone slaves need two. The model
  has more behaviours than the code.
* `cmderr` is the set of its bits that are set, `rdata` the register a read returned.
* The words of the program buffer are part of `Code`: a write to it changes no
  variable, and a fetch from it may return any instruction of the instance.

The code drives some registers from two modules. Amaranth flattens these, and the
later statement wins: a handler's write of `cmderr` over that of the DMI FSM, the
Debug Module's write of `dpc` over the CPU's.

### Address translation

`AddressTranslation` is the other half of the bus: `RunControl` has all of the CPU's and
the Debug Module's control and a bus that answers when it likes, this module the whole
of the bus and of the CPU what the bus sees: which port is driven in which state, the privilege mode,
and satp. A step is again a clock edge: `Edge` conjoins the step of the CPU (`CpuStep`,
`ModeStep`), of HandlerPROGBUF (`DebugStep`), the request latch (`LatchRequests`), the
FSM of each port (`PortFsms`: TRANSLATE, and REQ with and without `first`), the walker
(`StartWalk`, `ReadPte`, `ProcessPte`, `NextLevel`) and the slaves (`SlavesStep`:
`WishboneSlave` around the FSM of a block RAM). The signals between them (`BusEn`,
`BusAddr`, `Ack`, `StartTranslation`, `TranslationAck`, `BusFree`, `BusError`) are state
functions with the names of the code.

* An address is three indices of ten bits: vpn1 or ppn1, vpn0 or ppn0, and the word in
  the page. The model does arithmetic on none of them, so `Index` is any set. ppn1 has 12 bits in an
  entry and 10 on the bus: the code cuts two, the model has entries whose cut is done.
* A word of memory is a page-table entry; code and data are not read back from it. What a
  fetch returns is any instruction of `Instrs`, and where code goes on is any of `Pcs`: software
  is free to do what it likes, in any order, page faults of its own making included.
* Each slave decodes whole pages (`Decodes`), and a request's answer takes the cycles the
  block RAM takes. A RAM left with half a request shows any word next.
* Of the program buffer there is one word, only its writes matter here. `DebugWindow` says in
  which state of the CPU and in which mode the debugger may begin one: in the `translate` run when the hart is halted, in
  either mode. That a resume
  does not come while a write is under way is HandlerPROGBUF's doing: the DMI FSM
  handles one DMI write at a time.

An access goes through *phases*: direct access, or walk, translated, translated access;
then answered. `AccessPhases` says that exactly one access is in one of
them, and for each phase what the port's FSM, the walker, the slaves and the latches hold. It
is the invariant from which the properties follow.

### CSRs and traps

`CsrTrap` is the third view of the core: here the CSRs have their bits. `Edge` conjoins the
step of the CPU (`CpuStep`, an action per state of main_fsm), that of the CSR unit
(`Idle`, `RegGeneric`, `RegSpecific`, `Finish`), what is assigned to each
register (`RegistersStep`) and the privilege mode (`PrivStep`). A CSR has up to three writers, which
are applied in the order in which the flattened design lets them win: the CPU
(`ByCpu`), its own handler (`ByHandler`), the exception unit (`ByExceptionUnit`).

* A word is the set of its one-bits, and a field a set of bit positions: csrrs is union, csrrc
  difference, a trap puts the mode into `Mpp`. Nothing has to be parsed or shifted, and
  words have all 32 bits.
* Memory is a function from addresses to sets of instructions, from which a fetch takes any:
  a set of programs in one state space. Memory that holds a given program is the special case.
* A csr instruction carries the value of rs1, and whether rs1 is x0.
* Halting, resuming and Debug Mode happen at any time (`Halted`, `DebugModule`); when they do is
  `RunControl`'s matter. The cycles in which the CPU waits for the bus are left out.
* MIE and MIP have the same address. Which of the two is found first depends on the order in which
  Python enumerates a set of classes, that is on the build: `MipFirst`.

`PrivContract` is the same without the clock: an instruction is fetched and then, in one
step, executed, refused by a trap, or an entry to Debug Mode. The effect of a csr instruction is at the end of
REG_SPECIFIC and that of a trap at the edge into TRAP, before pc moves; `ContractPc`,
`ContractTodo` and `ContractCsr` map this.

### Debug transport

`JtagTap` is jtag.py and the FSM of top.py that takes operations from it. A step is an edge of the
system clock, in which tck, as it leaves the synchronizers, may rise, fall or neither (`Edge`);
`tms` and `tdi` are any bits at any time. `FsmStep` is jtag_fsm with its 32 arrows (`OnLow`,
`OnHigh`), `IrStep`, `DrStep`, `TdoStep` and `UpdateStep` assign the registers, `DmStep` is the
DMI FSM (`Idle` with `Read` and `Write`, `DeassertBusy`, `Wait`).

* The contents of the DMI register are words of which only the operation is decoded (`OpOf`) and
  whether their address names a register (`Answered`). What a write does and how long that
  takes is the matter of `RunControl`.
* Registers of any widths share `dr`; IDCODE and DTMCS are `ReadOnly`. An instruction without a
  register shifts nothing, as in the code; the contract has BYPASS there.
* The synchronizers (`FFSynchronizer`, a library) delay tck, tms and tdi alike, so that they come out as they went
  in. Between two edges of tck there are at least `MinHalf` = 2 cycles of the clock: the
  simulation has 4 (`sim_tests.py`, CPU_JTAG_CLK_FACTOR), and a board's tck is far slower.
* `pins`, `parity` and `ones` are history for the properties. The capture strobes and `tck_ctr`,
  which nothing reads, are left out.

`DebugTransport` has no system clock: rising edges of tck, an update after each visit to UPDATE-DR,
ends of writes. That its `Rise` needs `~due` says that the update is over before the next
rising edge, so that the next capture finds its answer. It is written from the standard and the tests,
not from the code: the diagram of states with all its arrows, BYPASS for codes without a register, 0 for reads of
registers that do not exist, no operation lost. The code departs from it in four kinds of steps, which `JtagTapProps` names:
`WrongArrow`, `NoBypass`, `StaleRead` and `MissedUpdate` (Deviations). `StandardUpToDeviations` says that every step
of the port is one of the contract's or one of these, for a debugger that does what it likes.

### Load/store unit and devices

`Devices` is everything between an instruction's access and the pins: `Store` and `Load` of
MemoryUnit (mask, shift, sign), the arbiter as it is without virtual memory (`BusFree`,
`LatchRequests`, `Owns`), and the slaves: the FSM around each (`SlaveStep`), the block RAM with its
cycle of latency, the GPIO, and the UART (`UartStep`) with its transmitter (`TxIdle`,
`TxStart`, `TxShift`, `TxStop`, `CounterStep`). The serial line ends at a receiver (`RxStep`),
which is external: it waits for a falling edge and samples in the middle of each bit.

* A byte is a sequence of `Bits` bits, of which the last is the sign, and a word four bytes: nothing
  is computed with them, so `Bits` is any number.
* Software, the fetch port and the debugger ask for any access of their workload at any time.
  `Legal` keeps software to what is documented: accesses within a RAM, and the two
  registers the UART acknowledges.
* Words of the GPIO's window other than `gpio_output` read what `dat_r` holds from before, as in the code,
  and a store to one is dropped. Pins that are inputs are left out.

### Arithmetic

`Datapath` is the rest of cpu.py: what DECODE selects, what the units compute from the read
ports, what EXECUTE latches and what WRITEBACK does with it. `MainFsm` has an action per state
and way out of it; `WritePort` and `ReadPorts` are the register file. The flags of the adder, and
the comparisons made of them, are modelled by arithmetic on words; `Bitwise` and `Shifted` are
constants for the operators of Amaranth, which the instance defines and checks against the
moves of bits the manual has (`ShiftsMoveBits`).

* An instruction is its fields, `imm` being the immediate of its format. In the I format funct7 and
  rs2 hold bits of the immediate: the instance has immediates that look like SUB.
* Halts, resumes, traps and the time an access takes come at any time (`CheckShouldHalt`,
  `Resume`, `Trap`, `ExecuteWaits`). `Faults` are the addresses whose fetch may be refused.
* A register whose value is dead is cleared.
* The debugger writes any value to any register, as `DebugWrites` says, x0 included.

`IsaContract` is the instruction set: pc, registers, and an instruction that is executed or refused in one step. Which
instruction that is comes from outside (`instr`, the one the code has fetched), so that no other instruction at the same address
can account for its outcome. x0 is zero there and the target of jalr loses its bit 0. Both fail
in the code, in two kinds of steps that `DatapathProps` names, `OddJalr` and `SpoiledZero` (Deviations);
`IsaUpToDeviations` says that every other step is the contract's, those before and after the two included.

### The contract

`HartContract` describes the hart as its debugger sees it: a *place* (the address
the debugged program goes on at), a *mode* and a *budget* for single-stepping. Only
a running hart with budget moves its place, by executing. Halting, resuming and
program buffers keep it, but for code of the debugger that writes `dpc`. The mapping
(`Place`, `Mode`, `Budget` in `RunControlProps`) says where the code keeps the
place: in pc of a running hart, in dpc from the second cycle of HALTED, in HandlerCOMMAND's
`real_dpc` while dpc points to the program buffer, and again in dpc while the
buffer runs. `KeepsHartContract` is the whole of `HartSpec`, checked as a
PROPERTY.

## Runs

The instances of `RunControl` (`MCRunControl`) have two words of user code, a program buffer of two
words, of which the second is an ebreak, a misaligned and an unmapped address. Two
user words are enough to tell a stale from a current place; user code may hold
at each of them every class of instruction, jumps to the bad addresses included.
PROGBUFSIZE is 3; a second word is enough for the buffer to go on, step, jump or fault
after its first. Registers and values are one or two: no property
compares more.

The instances of `AddressTranslation` have one bit per index: four pages of two words. One holds
the root table, one the second level, one code and data, one the program buffer.
With two entries per table, two different accesses walk to different entries
and to different pages, so that a latch left over from one is seen in the other. Addresses
of code, load and store differ in both halves of the page number.

The instance of `CsrTrap` has three mapped addresses (reset, trap handler, program buffer), any
of which holds any instruction of a repertoire, and six repertoires (`MCPrograms`) instead of all
instructions at once: bits of mstatus and changes of mode, the six functions on one register, the
registers with fields of their own, faulting accesses, exceptions, debugging. Each repertoire has what interacts; registers
that no unit but their handler writes need not meet. None sets mstatus.mie together with mie.msie or
mie.meie, and the program buffer has no loads: with these the properties fail (Deviations).
`MipFirst` is FALSE, the order in which csr instructions end.

`JtagTap` is checked with codes of two bits, of which one names no register, a DMI register of two
bits, a wider and a narrower register: what a shift does to the first, a middle and the last
bit can be seen, and what is left of a wide register in a narrow one. `Devices` has bytes of
two bits (one of them the sign), three clock cycles per bit, two words per RAM and four workloads
(`MCWorkloads`): all loads and stores of a RAM's word, the GPIO, the UART beside a
debugger, and all ports at once. `Datapath` has words of four bits and four registers: each of the 16
by 16 pairs of operands that the instructions themselves can produce meets each comparison, and
immediates of four bits reach every flag and both ends of the range. The debugger writes any value to one register and
one value to x0. An address of code holds any instruction of its repertoire, but each is judged as the one that was fetched.

`since` in `JtagTap` counts up to `MinHalf`, `ones` up to 5; no other counter is bounded but by the
code, and every state space is finite and explored completely.

| run | question | instance |
|---|---|---|
| `contract` | does the system implement `HartContract`, and is `is_debug_mode` high for the program buffer only? | debugger polite, program buffer without traps |
| `handshake` | is the protocol of `cpu_dm_if.py` kept, the inductive invariant true, a fault in the program buffer reported? | any debugger, any program and program buffer |
| `commands` | do commands work on the right data, and is one that ends without an error done, its value moved if the hart was halted? | all DMI registers, plain code |
| `liveness` | is everything answered? | any debugger, mtvec unmapped |
| `translate` | does every access of user mode get to the address Sv32 gives, and are its phases kept to? | two-level tables, debugger writes to a hart halted in either mode |
| `privileged` | do CSR unit, exception unit and CPU implement `PrivContract`; is an access to a CSR atomic and does it end; does the mode change with traps and mret alone? | six repertoires of instructions, halts and resumes at any time |
| `transport` | do TAP and DMI FSM implement `DebugTransport`, up to the four named deviations; is an update whole; do five ones reset from every state? | any tms and tdi |
| `devices` | are loads and stores atomic accesses to bytes; do pins and line show what was written; is every access answered? | four workloads |
| `isa` | does the datapath implement `IsaContract`, up to the two named deviations, and do its latches fit? | every opcode, halts and refusals at any time, the debugger's writes to a halted hart, x0 included |
| `staledpc`, `debugmode`, `superpage` | the findings below | |

*Polite* (`PoliteDebugger`) means a debugger that sends a resumereq only when DMSTATUS
shows the hart halted, as the Debug Specification tells it to. The `contract` run
needs it, and needs a program buffer without traps: the findings `staledpc` and
`debugmode` show that the contract breaks without.

**Fairness.** `FairSpec` assumes that the clock does not stop (`WF_vars(Tick)`) and
that a slave which owns a request answers it in the end (`WF_vars(Edge("ack"))`):
`EBR_Wishbone` and `GPIO_Wishbone` take a fixed number of cycles. Nothing is
assumed of the debugger or the program, but that the program buffer ends: in the
instance its last word is an ebreak. `DmiOperationFinishes` depends on that, since
the Debug Module has no timeout. In `AddressTranslation` the clock alone is assumed
(`WF_vars(Edge)`): there the slaves have their own FSM. `CsrTrap` assumes the clock
and, since it leaves the waiting out, slaves that answer. `Devices` assumes the clock alone
(`WF_vars(Edge)`): the debugger, whose port comes first, may ask again and again, but its
request is low in the cycle after an acknowledge, in which the arbiter latches who waits.
`AccessAnswered` there includes an access that waits for the byte the UART is sending.

`CHECK_DEADLOCK` is left on: the clock always has a next edge.

## Findings

Each is a run whose one property TLC finds violated.

1. `staledpc` (`cpu.py` HALTED): a resumereq that is up while the hart enters HALTED
   for another reason (a step, an ebreak) loads pc from dpc in the cycle in which dpc
   is only being written. The comment in `dmi_utils.py:537` says such a request
   "just has no effect".
2. `debugmode` (`dmi_handlers.py` POSTEXEC D): after a trap in the program buffer
   `is_debug_mode` stays high. The debugged program then runs as if it were a
   program buffer.
3. `superpage` (`loadstore.py` PROCESS_PTE): the physical address of a leaf in the root
   table takes ppn0 from the entry, not vpn0 from the address, so that all
   pages of a superpage are one.

### Deviations

Also met while modelling, and visible in the modules, but without a run of their own. Those with a name in a properties module
are the only steps in which the code may leave the contract there:

* the debugger can write x0 (`cpu.py:317`; the first disjunct of `GprStep`), and instructions then read there what
  it wrote (`SpoiledZero` in `DatapathProps`);
* a register access to a running hart reads zero or loses the write without an
  error (`dmi_handlers.py:186` TRANSFER does not look at `halted`), though `types.py:66` has a code for it, HALT_OR_RESUME.
  `NoErrMeansDone` asks for the value only of a hart that was halted;
* with `dcsr.step` set the program buffer ends after one instruction, and this counts as
  success (`dmi_handlers.py:253`, POSTEXEC D, says "CPU executed ebreak");
* any DMI write clears `cmderr` (`top.py` WAIT assigns it in every cycle), where
  `test_debug_unit.py:392` calls it write-one-to-clear;
* no error of a page walk raises a page fault, and r, w and x of a leaf are compared with
  nothing (`loadstore.py` PROCESS_PTE);
* after a bus error in a translated access the port's FSM is still in REQ, and the next
  access of user mode through that port goes to the old `phys_addr` (`loadstore.py:371`);
* in REQ `bus_free_to_latch` has its default 1: a debug write that comes then takes the bus
  from an access that a slave works on (`loadstore.py:307`). `DebugWindow` of
  `translate` has writes to a halted hart only, which has no access under way;
* an interrupt that is enabled raises m_raise in every cycle, pending or not, while the CPU knows of
  none: mepc and mpp are overwritten, the mode rises, mret cannot lower it, and no handler
  is called (`exception.py:91-96`; `IrqRaised`);
* a bus error in the program buffer is notified like one of the debugged program, and overwrites
  mepc, mcause, mtval and mpp (`loadstore.py:333`, where `trap()` of `cpu.py` is silent in Debug Mode; `BusError` in `Raise`);
* mip answers to the address of mie, and to its own address none. If it comes first, a csr instruction
  that writes mie waits for ever in REG_SPECIFIC (`csr_handlers.py:173`; `WriteFinished`);
* csrrwi, csrrsi and csrrci use the value of register rs1, not the immediate (`csr.py:137-142`; `NewValue`);
* mret is taken in every mode (`cpu.py:572`). `MppHoldsMode` shows that it does not raise the mode;
* mret sets mstatus.mie from mpie, but a trap saves neither (`exception.py:108`), so an mret after a
  trap clears mie; and mpp takes any value, that of no mode included;
* mtval keeps its old value over a misaligned fetch, an ebreak and an ecall;
* wfi, sret and uret are decoded as ebreak or ecall, by bit 0 of their immediate (`cpu.py:580`);
* mret in the program buffer loads the mode from mpp, so that a debugger's access may go on in user mode;
* the Debug Module's write to the program buffer of a hart that halted in user mode goes through that
  hart's page tables (`loadstore.py:310`), where `test_debug_unit.py:426` writes it as plain memory. Such writes are part of the `translate` run, whose
  properties treat them as the accesses of user mode that they are;
* a page table at an address no slave decodes keeps the walker on the bus for ever: the trap is taken, but
  no fetch after it gets the bus, which is what the TRAP state was added against (`cpu.py:740`);
* jalr does not clear bit 0 of its target (`cpu.py:699`), so that an odd one, which RV32I rounds, traps
  as misaligned (`OddJalr` in `DatapathProps`);
* slt and sltu are executed with any funct7 (`compare.py:50`; `Reserved`), and SYSTEM with funct3 = 4 is taken for ebreak
  or ecall (`cpu.py:580`);
* a half word at the last byte of a word, or a word off its alignment, is not trapped and reaches one word only
  (the TODO at `loadstore.py:620`);
* tx_busy of the UART never reads 1: the read waits until the byte is sent. Offsets 4 (for writes as well
  as reads) and 8 (for reads) are not acknowledged, and hang the bus (`uart.py:69`);
* two arrows of jtag_fsm are not those of the diagram its comment refers to (`jtag.py:36`): EXIT2-IR stays
  where it is while tms is low (line 231), where the diagram goes back to SHIFT-IR, and UPDATE-IR goes to SELECT-IR-SCAN
  with tms high (line 238), where it goes to SELECT-DR-SCAN. The DR half has both right (`WrongArrow` in `JtagTapProps`);
* an IR code without a register, that of BYPASS included, shifts nothing, where the standard has a
  register of one bit (`NoBypass`); DTMCS is 19 bits wide, and a debugger that scans 32 finds the others shifted through;
* an operation that comes while the Debug Module is in WAIT is dropped, and no dmistat says so (`top.py:147`; `MissedUpdate`);
* a read of a register that does not exist leaves the data of the last read (`top.py:140`), where
  `test_debug_unit.py:197` expects 0 (`StaleRead`).

## Proofs

`RunControlProofs` proves for all values of the constants (any program, program buffer,
set of addresses and registers, any set of DMI operations, polite or not):

* `TypeCorrect`: `Spec => []TypeOK`;
* `RunControlInvariant`: `Spec => []RunControlInv`, the inductive invariant;
* from it `AcksAnswerRequests`, `Quiescence`, `SanityCheckHolds`, `ProgbufEntered`,
  `OneDpcWriter`, and the action properties `RequestsHeld` and `FaultReported`;
* with them, `AutoexecIsOfNewData` and `SuccessIsDone`: a command that ends without an error had its
  transfer made, and that of a halted hart moved the value of the register named. The second needs that the latches of
  the access hold their values from its first cycle to its last (`AccessLatched`, `TransferIsMade`); of a running hart it says nothing, since there
  the code does nothing. And, under the condition that no program buffer takes
  a trap (`[]ProgbufSound`, which excludes the finding `debugmode`), `DebugModeFollowsProgbuf`;
* `SoundProgbufTakesNoTrap`: that condition follows from the code of the program buffer alone
  (`ProgbufIsSound`: there is a set of its addresses, aligned and mapped, which no instruction leaves and in which none
  is refused). TLC evaluates it for the code of the `contract` run (`SoundCodeAssumption`).

`HartContractProofs` proves `ImplementsHartContract`: with a polite debugger and a sound program buffer, the composed
CPU and Debug Module implement `HartContract`. The two conditions are there for the findings `staledpc` and `debugmode`; every
debugged program, every set of DMI operations and every order of them that a polite debugger sends is covered. The proof has three lemmas,
for a running hart, a halted one and one in its program buffer; each says for an edge which of the contract's actions it is,
or that it is a stutter. What they need beyond `RunControlInv` is

* `StepInv`: a hart that leaves HALTED goes to FETCH, and the CSR unit writes dcsr and dpc for code of the debugger
  only (`CsrUnitServes`), so that the debugged program cannot move its own place through `dpc`;
* `HartInv`: a hart that DMSTATUS shows halted has its place in dpc (`HaltedIsNotStale`), and so has one that a resumereq
  takes out of HALTED (`ResumesSavedHart`). Without the polite debugger this is false (`staledpc`).

**Progress.** Liveness is out of the prover's reach, but what it rests on is not: a number that falls. For each of the
liveness properties of run control a theorem gives it, for every program and debugger.

* `HartProgress`: `CpuLeft`, the edges to CHECK_SHOULD_HALT at most, falls with every edge but one in which a slave keeps the bus waiting.
* `HaltProgress`: a haltreq stays up until its haltack, and `HaltLeft` falls with every edge but such a one.
* `ResumeProgress`: a resumereq stays up until its resumeack, which is there two edges after the hart is halted.
* `DmiProgress`: `DmiLeft` falls with every edge, unless the operation awaits the hart or a slave.
* `StepProgress` (`HartContractProofs`): a hart that is to single-step stays so until it halts, and is nearer to that after every
  edge but a wait.

With the fairness stated under Runs, a clock that does not stop and slaves that answer, each becomes the property that the `liveness`
run checks. That last step is the one the prover cannot take. `DmiProgress` does not rank a program buffer that is running, which may not end.

`CheckedRunControlProofs` proves `CheckerStaysSilent`.

`AddressTranslationProofs` proves `TranslationTypes` for every instance, and with

* `DebugOnlyHalted`: the debugger writes the program buffer of a halted hart, in whichever mode it was halted,
* `[]SoundTables`: every access finds a slave, and a walk finds a table of two levels
  (the first excludes a page table no slave decodes and the stale REQ, the second `superpage`),

the theorems `PhasesFollow`, `TranslationIsCorrect`, `RequestsEnd` and
`BusIsNotTaken`, for every index width, memory map, page table and program; and

* `AccessTime`, `AccessTimeBounded`: `AccessLeft`, computed from the FSMs of port, walker and slaves, is how many cycles are left to
  the acknowledge. It falls by exactly one with each, from at most 14 for a translated access and three for a direct one. `AccessAnswered` follows
  with a clock that does not stop;
* `SoundSoftwareKeepsTables`: `[]SoundTables` itself follows from the constants. `SoundSoftware` asks for a memory
  map of tables and frames, all decoded, in which stores are to frames and the tables below every root map every address to
  a frame. Then no store of either mode, translated by these tables or not, changes a table, and no walk or access is without a slave.
  The induction needs `AccessPhases` (where the bus may be) and gives `AccessPhases` its hypothesis. `SoundSoftwareIsServed` states what
  follows, and TLC evaluates `SoundSoftware` for the tables of the `translate` run (`SoundSoftwareAssumption`).

None of the safety properties of run control is inductive. What is missing is said by the parts
of `RunControlInv`:

* `DmShape`: an inner FSM of a handler is away from its first state only while that
  handler is active and the latched command leads to that state. Without it a step
  could start in the middle of a command nobody sent.
* `RequestsStand`: an acknowledge FSM is in B only while the request that took it
  there is up. It is inductive only with `DmShape`, as a request ends when the state of a handler does.
* `EntersProgbuf`: from SANITY_CHECK on, the hart is halted and stays so until state
  C; in C it is halted with dpc at the program buffer, or in its first cycle of
  FETCH there. This gives the single writer of dpc and, with the assumption that the
  first word of the program buffer is aligned and mapped, that no trap comes before state D.

The inductive invariant of `AddressTranslation` is `TypeOK /\ AccessPhases`. None of
its parts could be left out: the address on the bus is right because the walk read what
the tables hold (`WalkReads`, `WalkHasRead`, `WalkHasUsed`), they hold it because nobody
writes under the walk, nobody does because the bus stays with its owner, and it
stays because the CPU and the debugger have no second access (`WritesWhileHalted`) and hold
the one they have until its acknowledge. The proof has a lemma per phase
(`FromNoAccess`, `FromDirectAccess`, `FromWalk...`, ...), each of which says to which phases an edge leads.

`CsrTrapProofs` proves for every program, memory map and order of MIE and MIP

* `CsrTrapTypes` and `MppFollowsMode`;
* with `[]Quiet`, no interrupt is enabled and the program buffer finds its slaves, `SwapsAreAtomic`,
  `ModeIsRaisedByTraps` and `ImplementsPrivContract`. `Quiet` excludes the first two deviations above about traps;
* `QuietProgramsKeepContract`: all three, without that condition, for programs whose code alone shows that they are quiet
  (`QuietPrograms`: no csr instruction sets an enable bit of mie, and the program buffer has a set of mapped addresses
  which it does not leave, loads and stores are to mapped addresses, and it has no mret). TLC evaluates `QuietPrograms` for the repertoires of the `privileged` run;
* `CsrAccessTime`: a csr instruction is refused at once or ends after four cycles, in the build that took MIE before MIP.
  `WriteToMieHangs`: in the other one a write to mie that has begun never ends (the deviation above).

In the refinement a csr instruction is executed at the end of REG_SPECIFIC (`Vld` rises) and any other at the edge into WRITEBACK or
out of DECODE or EXECUTE; the rest of its cycles are stutters. What makes these the same step as the contract's is
that no other unit writes a CSR while the instruction is under way, and that an edge into TRAP leaves nothing of the
instruction behind.

Its inductive invariant `CsrTrapInv` adds to `MppHoldsMode` that the CSR unit works for the instruction
at pc, which it has not refused (`AccessUnderWay`). Without it a csr instruction begun in machine
mode could write mpp in user mode. For the swap, `OnlyTheHandlerWrites` shows that while the unit
is at work no other writer comes: the CPU is in EXECUTE with a csr instruction, raises nothing, and halts nowhere.

`JtagTapProofs` proves, for registers of any widths, `TypeCorrect`, `Resettable`, `UpdatesAreWhole`, and
that for every debugger the port implements `DebugTransport` up to the four named deviations (`Implements`).

* `Resettable` rests on a measure: `Distance(s)` is how many arrows with tms high lie between s and
  TEST-LOGIC-RESET, and `OnesLeft`, `ones + Distance(fsm) <= 5`, is inductive, as every arrow with tms high leads closer
  and every other sets `ones` to 0.
* The refinement has one lemma per visible event: a rising edge (`Rise`, by what it does to registers and
  instruction), the update, the end of a write, and everything else, which is a stutter. `TdoReady`, while the port shifts
  and tck is low tdo is the bit to be sampled, and `UpdateIsWhole` carry it: without the second, the message the
  Debug Module takes could be that of a register still in motion.

`DevicesProofs` proves, for bytes of any length, RAMs of any depth, any divisor of two or more and any workloads,
`DevicesTypeCorrect`, `SlavesAreServing`, `DevicesImplement` and `ReceiverHears`.

* `BusInv` is the inductive invariant of the bus: a slave that is at work has the device of the bus's access
  (`SlavesServe`), the transmitter is busy only while the UART's slave waits (`TxWaits`), and the pins are those of the register
  once it has left REQ (`PinsShown`). From it an access happens when its slave leaves REQ, and the other ports
  wait: this is the mapping. That mask and shift write the bytes the contract names, and that the sign comes from the
  last of them, are lemmas about words.
* `AccessTime` is more than progress: `AccessLeft(p)`, computed from the owner of the bus, the slave, the transmitter and its counter,
  is exactly how many edges are left to the acknowledge of port p. It falls by one with every edge, whatever the other ports do.
  `AccessTimeBounded`: it is at most a frame on the line, `(Bits + 2) * Divisor`, and eight. `AccessAnswered` follows with a clock that
  does not stop, and here nothing is assumed of the slaves.
* `LineInv` says where line and receiver are: `Resting`, `Sending(byte)` in some bit at some cycle
  with the receiver as many cycles behind as it must be, or `Trailing(byte)` in the stop bit, whose end the receiver does
  not wait for. The counter runs freely, and the proof shows that nothing but its position in START matters.

`DatapathProofs` proves, for words and register files of every size, every program and any operators `Bitwise` and
`Shifted`, `LatchesBelong` and `ImplementsIsa`: whatever the debugger writes, x0 included,
every step is one of `IsaContract` or one of the two named deviations.

* `CompletionRefines` is the heart of it: a WRITEBACK with latches that fit is the execution of the fetched instruction
  with the registers that the contract has, unless a source register is x0 and was written (`SameOperands`).

* `LatchesFit` is inductive as it is: its parts (`Fetched`, `UnitFits`, `OperandsStand`, `ResultStands`) say of each state of
  main_fsm what its latches hold. `UnitFits` is why a bit of active_unit left by a trap, or `adder.sub` left by a
  branch, harms nobody; `OperandsStand` is why an access may take any number of cycles.
* `FlagsCompare` is the arithmetic: of the difference of two words, cut off, carry orders them as numbers without a sign,
  and sign and overflow as numbers with one. `Wraps` does the same for sums. `Decoded` and `Refused` show that the
  matchers accept the instructions, write rd for those that have one, and refuse nothing else.

The assumptions on the constants (`AddrAssumption`, `RegAssumption`, `DebuggerAssumption` and those of the other
modules) give the types of the parameters; that the program buffer's address is aligned and decoded by a
slave (0xde88, the `debug_ebr` device); that a half period of tck lasts at least two cycles; that a bit on the line
lasts at least two; that words have at least three bits.

Model-checked only: the liveness properties, as the prover has neither fairness nor ENABLED; what is proved of each is the number that
falls until it holds. All safety and action properties and all refinements that a passing run checks have a theorem.

## Plan

The composition of `JtagTap` with `RunControl` over the DMI, so that the contract of the hart can be stated
for operations as they are shifted in. What it would rest on is proved of each: of the transport that an update arrives whole and is
over before the next rising edge of tck, of run control that an operation comes nearer to its end with every cycle it does not wait.

Not modelled: build-time Python (memory map, BSP generator, command line), which computes constants of the models
and has no state of the running system; firmware; and the simulation tools. Of the core itself `mtime`, which
only counts cycles, the LEDs of the development board, and the GPIO's input pins are left out.
