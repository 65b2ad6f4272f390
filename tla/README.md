# rv32i-core in TLA+

The repository is a five-stage RV32I core, an AXI4-Lite bus with a memory, a
GPIO port, a UART and a timer on it, and the bare-metal programs that use them.
Everything is clocked by one clock, so in every module here **a step is one
rising clock edge**: primed variables are registers after the edge, operators
without a prime are wires in the cycle before it. What makes the system hard is
not asynchrony inside a module but the number of things that may coincide on
one edge: a stall, a redirect, a hold and an interrupt; a response, a reset and
a new request; a receive error and the read that clears it.

Contents: [the system](#the-system), [the modules](#the-modules),
[the runs](#the-runs), [bounds](#bounds-and-why-they-are-enough),
[fairness](#fairness), [proofs](#proofs), [findings](#findings),
[what is left out](#what-is-not-modelled), [the plan](#the-plan).

## The system

### Components

| component | source | state | operations | correct when |
|---|---|---|---|---|
| core pipeline | `rtl/core/core.v`, `csr.v`, `decoder.v`, `regfile.v`, `imem.v`, `branch_cmp.v` | PC, the four pipeline registers, imem's output register, 31 registers, eight CSR fields and the privilege bit | one edge: reset, stall, redirect (trap, interrupt, `mret`, jump, taken branch), load-use hold, advance | it executes the program like a machine that does one instruction at a time; traps and interrupts are precise; reset leaves nothing of the past running; instructions keep executing |
| immediates, ALU, branch conditions, decoder outputs | `immgen.v`, `alu.v`, `branch_cmp.v`, `decoder.v` | none | combinational | each equals the arithmetic it stands for, and the decoder drives what the pipeline's model assumes |
| bus master | `rtl/soc/axil_master.v` | FSM state, five channel flags, `aw_done`, `w_done`, `phase2`, `word_lo_reg` | one edge of each FSM state; the combinational byte lanes, `bus_stall` and read data | each access is atomic to the MEM stage, makes one transaction per word it touches, keeps to the channel protocol, and ends |
| interconnect | vendored `axil_interconnect.v`, `arbiter.v`, `priority_encoder.v` | FSM state, latched address and data, grant | decode, forward, drop, wait for the grant to fall | each transaction reaches the device whose window holds its address, once, and its response comes back |
| register interface | vendored `axil_reg_if_wr.v`, `axil_reg_if_rd.v` | channel flags, address and data, timeout counter | accept, strobe, wait, acknowledge or time out, respond | one strobe per transaction; no register that asks for time is cut off |
| data memory | `axil_mem.v`, `dmem.v` | the memory, `rd_pending` | byte-enabled write; registered read | a read returns the last write |
| GPIO | `gpio.v` | the LED register | byte-enabled write; read of switches | the register holds what was written |
| UART | `uart_axil.v`, vendored `uart_tx.v`, `uart_rx.v` | prescale, two sticky bits, two shift registers with their counters | DATA write (waits for the transmitter), DATA read (takes the character), STATUS read (clears the sticky bits), PRESCALE write | characters arrive once, whole and in order; no loss is silent |
| timer | `timer.v` | `mtime`, `mtimecmp`, 64 bits each | count; write either half of either | the line is up exactly while `mtime >= mtimecmp` |
| timer driver | `sw/examples/timer_irq.c`, `soc_demo.c` | two locals, CSRs | `rearm`, `main`, the handler | an interrupt comes INTERVAL cycles after the last, never on a half-written deadline |
| SoC wiring | `soc.v` | none of its own | the address map, one clock, one reset | every access reaches the one device that owns its address, once |
| board | `basys3_top.v` | a two-flop synchroniser | reset, clock generator | |
| testbenches | `sim/verilator/tb_*.cpp` | a model of the block under test, a failure count | directed tests and seeded random loops, transaction drivers with caps | they pass on a correct block, whatever they draw, and end |
| software, tools | `sw/common`, other examples, `tests` | | | |

### How they interact

* The **core and the bus master** share wires both ways in the same cycle: the
  EX/MEM register drives `mem_re`, `mem_we`, address and data; the master drives
  `bus_stall`, on which *every* register of the pipeline holds. The address and
  data the master puts on the bus are not registered: they are the pipeline's
  own EX/MEM register, which the master's own stall keeps in place.
* **Master, interconnect and devices** talk over the five AXI4-Lite channels.
  Address and data of a write are accepted independently, in any order.
* The **timer** drives one wire, `timer_irq`, into `csr.v`; the core takes the
  interrupt on whatever is in EX, a bubble included.
* **Software** reaches the devices by loads and stores only, and each one is
  finished before the next instruction reaches MEM.
* **Reset** is one synchronous line for everything. It clears control bits; PCs,
  operands, the register file and the memories keep what they had.

### What is hard here

Every hazard is listed with its line in `PROJECT.json` ("hazards"), with the
properties that cover it. In outline:

* *coincidences in the pipeline*: redirect with load-use, interrupt on a bubble,
  interrupt on a load, a trap or `mret` held in EX by a stall, a fault and an
  interrupt in one cycle, two writers and a pending load for one operand;
* *reset at any cycle*, with control bits cleared and data left;
* *the bus*: address before data and the reverse, an access that crosses words
  and runs the protocol twice, payload that is not registered, state that
  survives from one access to the next;
* *waiting*: a UART write that waits a character time behind a register
  interface that gives up after four cycles; a pipeline that waits with it;
* *flags*: set and cleared in the same cycle;
* *64-bit values in halves*: the timer is read and written by two accesses each
  while it runs.

## The modules

```
 Rv32 --- Csr ---+--- Core --- CoreProps --- MCCore     (core pipeline)
                 |                  |  \---- CoreProofs
                 +--- Isa  <--------+ refinement

 MemAccess --+--- AxilMaster --- AxilProps --- MCAxil   (bus master)
             |        ^   ^            \---- AxilProofs
             |        |   +--- AxilBench --- AxilBenchProps --- AxilBenchProofs
             |        +------- Soc --- SocProps --- MCSoc     (below the pipeline)
             |        ^                 \---- SocProofs --- SocAccesses
             |        +-- refinement --------+
             +--- MemPort  <-- refinement from AxilProps

 Timer --- TimerDriver --- TimerProofs                  (timer, timer_irq.c)

 RegIf --- Uart --- UartProps --- MCUart                (register interface, UART)
                           \---- UartProofs

 Words --- Peripherals (RegIf, Timer, Uart) --- Soc (Interconnect)

 Words --- Datapath, Blocks, Script --- DatapathTests, BlockTests, DeviceTests,
           DecoderAbstraction --- Bench --- BenchProps --- BenchProofs
                                                        (the unit testbenches)
```

### Core pipeline

* **Rv32**: words modulo `WordSize`, instructions as records of decoded fields,
  and the control bits the decoder asserts for each (`Decode`, `WbSel`).
* **Csr**: `csr.v` as a record and what a trap, an `mret` or a CSR instruction
  makes of it.
* **Core**: the pipeline. Variables are the registers by stage (`pc`, `if_id`,
  `instr` (imem's output), `id_ex`, `ex_mem`, `mem_wb`, `regs`, `csr`, `dmem`);
  `ctl` is the set of control bits of a stage that are up. The actions are the
  branches of the clocked processes, which all test the same conditions in the
  same order: `Reset`, `Stall`, `Redirect`, `Hold`, `Advance`. `exReal` is a
  history variable: whether ID/EX holds an instruction or a bubble. `irq` is any
  level at any edge. The bus is a stall of any length that ends with the access
  done, which is what AxilMaster promises.
* **Isa**: the abstract machine: one instruction, one interrupt or one reset per
  step, on registers, CSRs, memory and PC.
* **CoreProps**: the refinement mapping and the properties. An instruction
  counts as executed when it leaves EX; the abstract registers are the register
  file with the writes still in MEM and WB, the abstract memory is `dmem` with the
  store in MEM, the abstract PC is `NextToExecute`.
* **MCCore**: an assembler and the programs of the runs.
* **CoreProofs**: the theorems, the refinement among them.

Abstracted: memory is an array of whole words, since byte lanes are the bus
master's and are modelled there; `add` stands for the ALU operations and `beq`
for the branches, since no control depends on which one it is; registers that
hold a value nothing reads (operands of a bubble) hold 0. Bit 0 of a `jalr`
target is not represented, and PCs are word numbers.

### Bus master

* **MemAccess**: what a load or store of any width at any byte address means.
* **MemPort**: the abstract port: one atomic access at a time. A reset abandons
  the access, and may leave the first word of a crossing store written.
* **AxilMaster**: `axil_master.v` at clock-edge level: the FSM states as actions
  (`Idle`, `Write`, `WResp`, `Read`), byte lanes as sets and functions, `Stage` for
  the EX/MEM register above it, and a slave that obeys the protocol but is free
  otherwise: it accepts the channels in any order after any delay, answers after
  any delay, and holds the response. `log` and `before` are history variables.
* **AxilProps**, **MCAxil**: properties; the requests of the run.
* **AxilProofs**: the theorems, the refinement among them.

### Timer

* **Timer**: `timer.v`, with halves of `Half` values.
* **TimerDriver**: `timer_irq.c` at the grain of its loads and stores, on a clock
  that runs at every step. A store is issued, lands at some later edge (`Land`)
  and is answered at a later one still (`StoreDone`), in which time the program is
  stalled. `since` remembers `mtime` when `rearm` began.

### UART

* **RegIf**: the vendored register interface as operators on a record for the
  write and one for the read channel: flags, strobe, timeout.
* **Uart**: registers, sticky bits and shift registers, and the register
  interface in front of them. Software makes one access at a time; its channels
  are offered in any order and its response is taken at any time. The receive
  line is looped back (`loopback`) or takes any value in every cycle.
  `inFlight`, `lost` and `promised` are history variables.
* **UartProps**, **MCUart**, **UartProofs**: properties, the accesses of the run, theorems.

### The system below the pipeline

* **Words**: a 32-bit word as the set of the positions of its ones, so that `and`,
  `or` and byte lanes are operators on sets; addition by ripple carry.
* **Peripherals**: `gpio.v`, `axil_mem.v`, `timer.v` and `uart_axil.v` as devices behind
  RegIf: an operator for each makes of its record what one edge makes of its
  registers. The timer's counters are those of Timer, the UART's shift registers
  those of Uart.
* **Interconnect**: `axil_interconnect.v` and `arbiter.v`: one operator per state of
  the state machine, applied to the defaults that every edge starts from
  (`Defaults`), the round-robin grant (`Granted`) and the address decode (`Target`).
* **Soc**: the wiring. The master's state machine is AxilMaster's, taken by
  INSTANCE; its slave is computed from the interconnect's registers (`AsSlave`).
  `Edge` steps master, interconnect and four devices at once; `BusyEdge` is an edge
  in which the UART's transmitter holds a DATA write back. Of the UART there is
  the port only: its serial side would multiply the state by thousands of cycles
  per character and is the subject of Uart. `strobes`, `prior`, `log` and `before` are
  history variables.
* **SocProps**: `FabricIsASlave` closes the gap that the run bus leaves open: that run
  lets the slave do anything the protocol allows, this one shows that the
  interconnect with a memory behind it does nothing else. `EachWordOnce` and
  `LoadsReturnWhatWasRead` are about every address: registers with side effects,
  windows narrower than their device's decoding, addresses of no device. What a
  store puts into a register follows the device: memory and the LED register take the
  lanes of the store, while the timer and the UART ignore `reg_wr_strb` and take the
  whole word the master drives, so that a byte store writes three bytes more of
  the register it comes from (`Carried`).
  `MemoryIsAtomic` is what the MEM stage is promised of memory with everything below it in
  place: MemPort again, now through the interconnect and `axil_mem.v`, and with accesses to
  other devices in between.
* **SocProofs**, **SocAccesses**: the theorems. The first has the fabric's invariant and what it
  is to the bus master, the second what an access is to the MEM stage: which
  registers it touched, what it returned, and that memory's are atomic.

### The testbenches

The repository says what its blocks do in thirteen testbenches. They are modelled
as programs, and run against the blocks as they are modelled here: this checks
the blocks' models against the same expectations the Verilog is tested with, and
checks the testbenches.

* **Datapath**: `immgen.v`, `alu.v`, `branch_cmp.v` and `decoder.v` at 32 bits.
* **Blocks**: `csr.v`, `regfile.v`, `dmem.v` and `imem.v` at 32 bits, each an operator from
  its flip-flops and inputs to its flip-flops.
* **Script**: what a bench can do to a block (`tb_common.h`).
* **DatapathTests**, **BlockTests**, **DeviceTests**: the benches' tests, item by item, and
  their reference models; a bus transaction is the driver's loop, a cycle a step.
* **DecoderAbstraction**: for every opcode and function code, the decoder's outputs
  next to what Rv32 says they are. It is what connects the pipeline's model,
  which starts from decoded instructions, to `decoder.v`.
* **Bench**, **BenchProps**: one bench runs; `dut` is the block, `fails` is `tb_fails`. A
  random loop is every sequence of draws from a small set.
* **AxilBench**, **AxilBenchProps**: `tb_axil_master.cpp` with its stub slave and its delay
  counters, around AxilMaster's state machine.
* **BenchProofs**, **AxilBenchProofs**: theorems for what these benches can only sample.

Operators marked *Variant* in the modules are not used by any specification:
each is a definition with a plausible mistake in it (a dropped enable, the wrong
priority, a missing reset bit), named in `PROJECT.json` ("mutants") together with
the property that it breaks. They document that the properties are sensitive to
the code.

## The runs

`tlc -config X.cfg M` for each; `PROJECT.json` has the list.

| run | module, configuration | what it shows |
|---|---|---|
| pipeline | MCCore, `MCCore_pipeline.cfg` | 512 programs: every loop of three instructions out of eight that depend on each other through two registers and memory; and 196 programs: every pair out of 14 instructions (faults, jumps, CSR writes that turn interrupts on or off or change `mepc`, `mret` outside a handler) in a loop with a handler, the interrupt line at any level in any cycle. With any bus delay. `OperandsCurrent`, `FetchPaired`, `InterruptPcPrecise` and the refinement `ImplementsIsa` |
| live | MCCore, `MCCore_live.cfg` | seven loops, a reset at any cycle. `ImplementsIsaForever`: after the reset the program starts afresh with at most the access under way lost or done, and instructions keep executing. `InterruptTaken`: a pending interrupt gets into every loop |
| trace_once | MCCore, `MCCore_trace_once.cfg` | *violated*: see findings |
| trace_trap | MCCore, `MCCore_trace_trap.cfg` | *violated*: see findings |
| bus | MCAxil, `MCAxil_bus.cfg` | any two of: loads of all eight `funct3` values and stores of four, at all four lanes, all delays and orders on the five channels, a reset at any cycle. `ImplementsMemPort` (atomic accesses, right bytes, right sign), `OneTransactionPerWord`, `ChannelStable`, `EachAccessCompletes` |
| deadline | TimerDriver, `TimerDriver_deadline.cfg` | any delay between any two steps of the driver. `ArmedDeadlineIsWhole`: interrupts are enabled only while the comparator holds one whole deadline; `NeverEarly` |
| interval | TimerDriver, `TimerDriver_interval.cfg` | *violated*: see findings |
| uart | MCUart, `MCUart_uart.cfg` | looped back, any sequence of writes and reads of DATA: `EveryCharacterArrives` once, whole and in order; `WritesEnd`. Driven from outside, any signal on the line, any reads, a change of the bit time in mid-frame: `LossIsRemembered`, `ValidUntilRead` |
| soc | MCSoc, `MCSoc_soc.cfg` | any two of nineteen accesses at any distance, a reset at any cycle: within memory, across its words, out of its window; LED and switches in one access; a window's alias; UART DATA and STATUS in one load; the timer's halves; no device, and from the last address to the first. `FabricIsASlave`, `MemoryIsAtomic`, `EachWordOnce`, `LoadsReturnWhatWasRead`, `EachAccessCompletes` |
| benches | BenchProps, `BenchProps_benches.cfg` | the twelve unit testbenches of the blocks, in full. `DatapathAgrees`, `CsrAgrees`, `RegisterFileAgrees`, `MemoriesAgree`, `PeripheralsAgree`, `UartAgrees`: no comparison fails; `NeverGivesUp`: no transaction reaches the cap of its loop; `DecoderIsTheCores` |
| axil_bench | AxilBenchProps, `AxilBenchProps_bench.cfg` | `tb_axil_master.cpp`. `MemoryAgrees`; `StallLength`, the number of cycles its comments give; `StubIsASlave`, so that what it tests is an instance of what the run bus checks; `EachLoopEnds` |
| seed | BenchProps, `BenchProps_seed.cfg` | *violated*: see findings |


Deadlock is checked in all of them but benches, seed and axil_bench, whose programs
end. No state constraint is used.

## Bounds, and why they are enough

* `WordSize = 16`, `NReg = 4` (core): three registers besides x0 make two writers of
  one operand and a third unrelated register possible; sixteen words hold a loop,
  a handler and the set-up. The pipeline is four instructions deep, and every
  hazard of it relates instructions at most three apart: three free slots in a
  loop, two in the loop with a load and a CSR read in the handler where traps
  and interrupts are in play, put every pair and triple at every distance. `DmemSize = 2` lets a store
  and a load meet and miss.
* `MaxResets = 1`: a reset leaves a state that depends on the past only through
  data (proved harmless by `TypeCorrect` and `FrontEndPaired` for any number of them).
  It is 0 in pipeline, which is about programs.
* `NWords = 2`, `MaxAccesses = 2` (bus): two words make a crossing access, and one
  that wraps; the state that may leak from an access to the next is one access
  old (`phase2`, `word_lo_reg` and the done flags are rewritten by each).
* `Half = 8`, `Interval = 14`, `Horizon = 40` (timer): the low half carries five
  times before the horizon, INTERVAL is longer than a low half, so deadlines
  differ in both halves, and two rearms follow one another. The counter does not
  reach its maximum, which takes the device 7800 years.
* `DataBits = 1`, prescale 1 or 2 (run uart): a bit lasts 8 or 16 cycles and a
  character some 24, many times the four cycles of the timeout and the few of an
  access, as in the device. With one data bit and a free line each cycle of a
  frame is a choice. The bench runs the same modules with eight bits and 32
  cycles a bit.
* soc: windows of two words (memory) and four (the rest), in the order of `soc.v`,
  with room below and above: what matters is which window an address is in,
  which register it selects there, and whether its successor is in the same one.
  `Half = 2` keeps the timer's phase small; `MaxAccesses = 2` as for the bus, since the
  interconnect keeps address, data, lanes and selection from one transaction to
  the next.
* benches: everything directed is in full, at 32 bits; `XLEN = 32`, `Half = 4096` for the
  timer (the tests use numbers below it), memory words only at the indexes the
  tests touch. A random loop draws from a few values that differ in every
  byte lane and sign, and is closed under repetition: its state is the block's.
  Against the reference models the ALU computes at a width of five bits
  (`RefBits`), every pair of operands; the directed tests are at 32.
* axil_bench: `NWords = 18`: tests 9 to 11, which use addresses far apart, are moved
  down.
* `Timeout = 4`: the value in `axil_reg_if.v:43`. The proofs of
  `UartTypes` and of the sticky bits need no particular value; those of
  `CharactersArrive` and of Soc need more than one cycle, in which a memory read is
  done and a busy transmitter is waited for.
* Nothing of the above bounds a theorem. The proofs assume of the constants what
  the `ASSUME` of each module says, and TLC evaluates these in the runs:
  `SocAssumption` for instance is four devices with windows inside the address space,
  words of 32 bits, requests that are loads and stores, and a `Timeout` above one.

## Fairness

* **Core** `FairSpec`: `WF_vars(Edge)`. `Edge` is an edge that is not stalled. That it
  comes again and again says that the clock runs and that every stall ends,
  which is `EachAccessCompletes` of the bus master. The interrupt line is not
  fair in any way; `InterruptTaken` says that the interrupt does not *stay* pending,
  by being taken or by being withdrawn.
* **AxilMaster** `FairSpec`: `Clock` (the master's own edges), `AcceptsWrite` (once
  address and data are both offered the slave accepts both: it may wait for
  both, so the master may not hold one back until the other is taken) and
  `Answers` (the slave answers what it accepted).
* **Uart** `FairSpec`: `WF_vars(Edge)`, the clock.
* **Soc** `Spec`: `WF_vars(Edge)`, the clock, with an edge in which the transmitter is not
  busy again and again: `WritesEnd` of Uart.
* **AxilBench** `FairSpec`: the driver calls `cycle()` until the stall ends, which is what
  its loops do; nothing is assumed of the stub, which is part of the model.
* **TimerDriver** has safety properties only and assumes nothing.

## Proofs

`CoreProofs` holds for every word size, number of registers, program, memory
size and reset bound that `WordAssumption`, `RegAssumption` and `CoreAssumption`
allow; TLC evaluates these in every run of MCCore.

* `TypeCorrect == Spec => []TypeOK`. Inductive as it stands; the lemmas give the type
  of each wire (operands, ALU result, redirect target, CSR values, write-back
  data).
* `FrontEndPaired == Spec => []FetchPaired` and
  `InterruptsArePrecise == Spec => []InterruptPcPrecise`. Both follow from
  `FrontEndInv`, the conjunction of three parts that need each other:
  `FetchPaired` (what the front end holds is program text at the PC it says, in
  order); `BubbleInert` (a bubble has no control bit except the write of x0), which
  shows that a bubble neither traps nor returns nor writes a CSR; and `BubblePcs`
  (while interrupts are on, a stage without an instruction carries the PC of the
  next one). `BubblePcs` is the heart: it is false after a reset, where stale PCs
  remain in ID/EX, and becomes true before `MIE` can be set because only an
  instruction in EX can set it (`MieNeedsInstruction`), by which time the front end
  has been rewritten.
* `OperandsAreCurrent == Spec => []OperandsCurrent`. Inductive given the types. The
  lemma `ReadIsCurrent` is the forwarding argument for one register: an
  instruction that enters EX has read a register through the bypass; in the next
  cycle the instruction that was in EX is in MEM and the one in MEM is in WB, so
  the two forwarding paths cover exactly the writes the register file lacks, and
  the load-use hold excludes the one value that is not there yet.
  `StallKeepsRegisters` covers the register file's write under a stall.

It ends with
`PipelineIsPrecise == Spec => ImplementsIsa`: the pipeline is the machine that executes one
instruction at a time.

* Its invariant `RInv` adds to the three above what the control bits say.
  `CtlPaired`: in ID/EX they are those of the instruction there, or none, and a
  bubble writes nothing but x0; without it a bubble could be an instruction that
  Isa never executes. `MemCtlPaired`: of a value on its way to the register file EX/MEM
  knows whether it is memory's, and a store writes no register.
* `MemDrains` and `RegsAfter` are the core of it: an edge that is not stalled moves
  EX/MEM and MEM/WB on by one, and the abstract registers and memory, which count
  both as done, change by exactly what the instruction in EX adds. `PcAfter` and
  `ExIsNext` say that the instruction in EX is the one at the abstract PC and that
  the next abstract PC is its successor, target or handler.
* Every edge then is a step of Isa or a stutter: `InterruptStep`, `FaultStep`,
  `ExecuteStep` (a case for each kind of instruction), `BubbleStep`, `StallStep`. In
  `ResetStep` the write in WB is done, and of the instruction in MEM the register
  write is lost or the store is either done or lost: never more than one of them.

`TimerProofs` holds for every `Half`, `Interval` and `Horizon` that
`TimerAssumption` and `DriverAssumption` allow: the counter does not come within one
half of wrapping, which `Horizon` stands for.

* `TimerTypes == Spec => []TypeOK`, `ArmedIsWhole == Spec => []ArmedDeadlineIsWhole` and
  `NotEarly == Spec => NeverEarly` follow from one inductive invariant of four parts.
  `OnTheWay`: the store under way carries the half of the deadline it was issued for.
  `Compared`: which halves of the comparator are the deadline's at each point of
  `rearm`. `EnabledInLoop`: `MIE` is up only in main's loop, which is why the program
  cannot be interrupted between the two stores. `TimeRead`: what the two reads of
  `mtime` put together is not before the first of them, and does not wrap; this is
  where the high half, read second, must not go down (`HiMonotone`).
* The lemmas on halves (`SplitUnique`, `Join`, `HalvesOfCount`) are the arithmetic:
  the products with `Half` are linear once a difference has been named.

`AxilProofs` holds for every memory of at least two words, every set of
requests and every slave the model allows.

* `BusTypes == Spec => []TypeOK`, `EachWordAskedOnce == Spec => []OneTransactionPerWord` and
  `OffersStay == Spec => ChannelStable` follow from an inductive invariant: `Handshakes`
  (state by state, what the master still offers is what the slave has not yet
  accepted), `Addressed` (the address taken is the one still offered), `ForRequest`
  (the state machine works for the access in the MEM stage, and on a second word
  only if it crosses) and `Logged` (the transactions so far, by phase). There is one
  lemma per state; `Stalled` is the step they share: until the last answer the
  request stays, so the wires derived from it do.
* `AccessesAreAtomic == Spec => ImplementsMemPort`. `Payload` and `Progress` are added to the
  invariant: what the slave has taken is what is offered, memory is that of the
  access's start with the words written so far, and the words read are memory's.
  `StoredWhole` and `LoadedWhole` are about the data path: the two strobed words are
  the bytes of the store, for every width and lane, and shifting and extending the
  two words read gives the bytes of the load. Each edge then is a stutter, a pass,
  a load or a store of MemPort (`EdgeIsAccess`), and a reset leaves memory with
  none, the first or both words written (`ResetLeaves`).
* `StartsAnywhere`: the invariant holds of any master at rest, with whatever memory
  and registers it has. So it may be used of a master in the middle of a run,
  as SocAccesses and AxilBenchProofs do.

`UartProofs` holds for every frame of up to eight data bits, every initial bit time and
every set of accesses that Uart's assumptions allow.

* `UartTypes == Spec => []TypeOK`. Its invariant `TInv` has a part for each shift register and
  one for the port. The parts about the shift registers are stronger than their
  types: the bit counter and the number of bits left in the shift register agree,
  so that no counter runs below zero and the register never holds more than a
  frame, also when the bit time changes in the middle of one (`TxNext`, `RxNext`).
* `LossesAreTold == Spec => []LossIsRemembered` and `PromisesAreKept == Spec => []ValidUntilRead`: a
  receiver that completes a character over one not taken raises overrun in that
  cycle (`EdgeDevice`), and the sticky bit takes it over before the shift register
  drops it, whichever read comes in that cycle.
* `CharactersArrive == SteadyLink => (Spec => []EveryCharacterArrives)`: on a looped-back
  line what was written comes out, once, whole and in order. `SteadyLink` is that
  the program does not write PRESCALE while it talks to itself, since a bit time
  changed in mid-frame garbles the character (the hazard at `uart_rx.v:133`), and that the
  register interface waits for more than one cycle: with one, a DATA write to a
  busy transmitter would be acknowledged and dropped. `axil_reg_if.v:43` has four.
  The invariant `Link` has two parts. `Requested`: what the write channel holds is
  what software asked for, and the wait for the transmitter never times out. `InStep`:
  where the frame is. The two shift registers and the line between them are at
  one of six points, from `Resting` over `Before` and `After` (the receiver samples the bit on the
  line when the transmitter has half of it left) to `Stopping`; and at each the bits still to
  come (`ToCome`), the one on the line and those received (`Received`) are together the
  character in flight. There is one lemma per point and shift. `CharOfBits` is the
  arithmetic: a number is known by its bits, up to eight of them.

`SocProofs` and `SocAccesses` hold for every address map, every window, every memory, every set
of loads and stores, every timeout of the register interface above one cycle and any
number of resets.

* `FabricInvariance == Spec => []FabricInv`. Its part `PathInv` says where a transaction is:
  `Dialogue` pairs the states of master and interconnect and says which channel signals are up in
  each pair; `Routed` that the interconnect's latched address, selection, data and
  lanes are what the master still offers (this holds only because the pipeline's stall
  keeps the request, see `ForRequest`); `AtRest` and `AtWork` that of all the devices
  the selected one alone is engaged, and how far. `MemoryKept` is about the data: memory is that of
  before the write under way or has it, according to whether the port has strobed,
  and a word read is memory's although it is registered twice.
* `FabricObeys == Spec => FabricIsASlave`. With an access to memory in the MEM stage, each
  edge of interconnect and devices is one that AxilMaster allows its slave: it
  accepts, waits (`WaitingEdge`), answers a write after both its halves (`WriteAnsweredEdge`) or a
  read with memory's word (`ReadAnsweredEdge`), or holds the answer (`DoneEdge`).
* `FabricImplementsMaster == Spec /\ []OnlyMemory => M!Spec`: while the accesses are to
  memory, the system below the pipeline *is* AxilMaster with some slave, under the
  refinement mapping of Soc (`MasterAssumed`: AxilMaster's assumptions hold of the instance).
* `MemoryAtomic == Spec => MemoryIsAtomic` needs no such restriction: accesses to memory and
  to devices may alternate. Its invariant (`MasterInvariance`) is that of AxilProofs whenever the access is to
  memory, and otherwise that memory is what it was when the access began; between the two the master
  is at rest, which is where `StartsAnywhere` takes over. AxilProofs is instantiated under the
  refinement mapping, `PortAssumed` discharges its assumptions, and its lemmas (`EachStepKeepsData`,
  `EdgeIsAccess`, `ResetIsAccess`) are facts about interconnect and memory. `RegistersTyped` says that an access to
  a device, too, leaves only words and lanes in the registers that the next access starts from.
  Together with `PipelineIsPrecise`, whose stalls end with the access done as MemPort's do, this is the chain
  from the devices to the instruction set. Its last link, Core over MemPort, is an argument and
  not a theorem: Core's memory is of whole words, MemPort's of bytes.
* `HistoryInvariance == Spec => []History`: the register accesses so far are those of the words
  done so far (`Accounts`): the first word's once the second is under way, and the present one's
  from the cycle in which its device has strobed (`Struck`). From it
  `WordsOnce == Spec => []EachWordOnce` (the LED register, the sticky bits and the receiver see each
  access once, whatever the word's neighbour and wherever the window ends) and
  `LoadsAreReads == Spec => []LoadsReturnWhatWasRead` (the words read are put together with their bytes
  in place, and an address of no device yields 0 and not the word of the
  access before).

`BenchProofs` is about every 32-bit word, where the benches of the decoder and of the
immediates have samples.

* `EveryWordAbstracts`: for any word, `decoder.v` drives what Core's model derives from the
  instruction that the word is. With it `DecoderAgrees == Spec => []DecoderIsTheCores`. `OpcodeAgrees` has a case for each
  opcode and one for words of none, `SystemAgrees` the system opcode's; `SevenBits` turns the
  field into a number. The
  proof found an ambiguity that TLC could not: two branches of a `CASE` for the system
  opcode overlapped, and TLC takes the first. The branches now exclude each other.
* `ImmediatesComeBack`: every immediate of every format comes back from `immgen.v` as it was
  put into the word, sign included, whatever is in the other fields.

`AxilBenchProofs` holds for every memory size and every set of requests that has those of
the tests (`BenchAssumption`, which TLC evaluates in the run axil_bench).

* `BenchInvariance == Spec => []BInv`: in each state of the master, what its channels offer, what the
  stub's delay counters stand at and how many cycles the driver has counted determine one another
  (`Channel`); `NextIsShort` says of the scripts what is needed of them: delays of at most four
  cycles, accesses among the requests. `StallsAreAsLong == Spec => []StallLength` follows by evaluating
  the count in the last cycle of a stall.
* `StubObeys == Spec => StubIsASlave`: each call of `cycle()` is an edge of AxilMaster with its free slave,
  one lemma for each state (`RestEdge`, `WriteEdge`, `ResponseEdge`, `ReadEdge`). So everything proved of the master with
  any slave is true of it in the bench.
* `RandomAgrees == Spec => [](bench = "random" => MemoryAgrees)` draws that conclusion: the bench's
  byte-array model is memory as it was when the access began, by the invariant of AxilProofs, and
  `AccessEnds` says that an access that ends does to memory what the model does. For the
  directed tests, which compare with literals, `MemoryAgrees` is TLC's.

All eight proof modules together leave out:

* liveness: `EachAccessCompletes`, `WritesEnd`, `InterruptTaken`, `EachLoopEnds`, and the fairness of
  `ImplementsIsaForever` (without it this is `ImplementsIsa`, which is proved);
* the other properties of the testbenches: `DatapathAgrees`, `CsrAgrees`, `RegisterFileAgrees`,
  `MemoriesAgree`, `PeripheralsAgree`, `UartAgrees`, `NeverGivesUp` and the directed part of
  `MemoryAgrees`. They are computations of given blocks on given inputs and have no
  constants to generalise over; TLC does them in full. What could be generalised of
  them, that the ripple-carry adder, the comparator and the shifter of Datapath compute sums,
  orders and shifts at every width, needs induction over the bits.

## Findings

Four runs are expected to be violated; each states what a document, a comment or
a test of the repository says.

* **trace_once**: MEM/WB holds under a stall (`core.v:502`), so `trace_we` reports a
  retirement once per stalled cycle, while `docs/phase6_plan.md:97` counts on one
  valid cycle per retirement. `tb_soc.cpp:41-46` writes a line in every cycle, the
  stalled ones included.
* **trace_trap**: `trace_trap` is of EX, the other trace ports are of WB (`core.v:536-546`).
  Gating one by the other, as `tb_soc.cpp:39` says is done, drops an older instruction
  that completes.
* **interval**: `rearm` reads `mtime` low half first and does not read again
  (`timer_irq.c:17`). When the carry falls between the two loads the deadline is 2^32
  cycles late (57 seconds at 75 MHz). `tb_timer.cpp:50-53` says what a driver should do.
  `soc_demo.c` has the same code.
* **seed**: `tb_gpio.cpp:96` starts its model of the LED register at 0, while the
  register holds what test 5 left in it. The comparison at line 104 then holds
  only if the first strobes drawn cover the register. With the default seed the
  first strobe is all four lanes and the test passes; with others (`+seed=2`) it
  fails on a correct `gpio.v`. The run benches has the default seed
  (`AnySeed = FALSE`). `tb_axil_mem.cpp:97` has the missing step.

Seen on the way, without a run: `uart_rx.v:125` raises overrun from `valid` alone, so a
character that completes in the cycle DATA is read sets the sticky bit although
neither character is lost.

## What is not modelled

* Instruction memory contents: of `tb_soc.cpp` only what it says of the trace ports
  (CoreProps), since the programs it runs, riscv-tests, are not in the repository.
  `tb_selftest.cpp` tests a four-line counter.
* Effects of devices on loads (a load that takes a UART character) in Core: its
  memory is a memory. `EachWordOnce` is the property of the bus that makes the
  difference harmless: the device sees each access once.
* Core on top of Soc in one state machine: Core assumes of the bus that a stall ends
  with the access done and nothing else, which bus and soc establish.
* Response codes: the master ignores `bresp` and `rresp`; `prot` and the unused
  features of the vendored interconnect (several masters, security, regions).
* The board's reset synchroniser and clock generator: the clock generator's
  behaviour is not in the repository.
* The straight-line example programs, start-up code, linker script, and the
  scripts that compare traces.
* Metastability of `sw` and `rxd`, and timing: below the level of clock edges.

## The plan

The core came first, since every property of the system rests on it; then the
bus, which Core assumes; then the two devices with time in them; then the blocks
at full width against the testbenches, the devices behind their register
interface, and the composition below the pipeline.

What would come next:

1. *To prove*: Core with MemPort's bytes for its memory, so that the last link of the chain
   from the devices to the instruction set is a theorem as well; `StubIsASlave` for
   delays of any length, and not only those of the tests.
2. *To model*: start-up code and `hello.c` as programs of Core over Soc, once a program
   can reach both.
