-------------------------------- MODULE Bench -------------------------------
(***************************************************************************)
(* The unit testbenches of sim/verilator against the blocks they test: one *)
(* bench runs, a step is one item of its script, or one clock cycle of an  *)
(* item that takes several, and after the script its random loop, whose    *)
(* every draw is a step.  fails is tb_fails.                               *)
(***************************************************************************)
EXTENDS DecoderAbstraction, BlockTests, DeviceTests

CONSTANT AnySeed      \* whether +seed= is given, or the generator starts from 1
ASSUME SeedAssumption == AnySeed \in BOOLEAN

VARIABLES
  bench,        \* which testbench
  dut,          \* the flip-flops of the block under test
  pins,         \* what the bench drives its inputs to
  pos,          \* the place of the item it is at
  item,         \* that item, or NoItem after the last
  round,        \* the draw of the random loop it is in, or NoRound
  xfer,         \* the bus transaction under way
  tries,        \* of an item that repeats
  seen,         \* values read and kept
  shadow,       \* the bench's model of the block, or NoModel before it has one
  fails
vars == <<bench, dut, pins, pos, item, round, xfer, tries, seen, shadow, fails>>

Combinational == {"alu", "branch_cmp", "immgen", "decoder"}
Clocked == {"csr", "regfile", "dmem", "imem"}
OnTheBus == {"gpio", "axil_mem", "timer", "uart_axil"}
Benches == Combinational \cup Clocked \cup OnTheBus

NoRound == <<>>
NoModel == <<>>
Model   == shadow[1]

-----------------------------------------------------------------------------
(* The blocks *)

DutReset(b) ==
  CASE b \in Combinational -> "stateless"
    [] b = "csr"       -> CsrAfterReset
    [] b = "regfile"   -> RegsAtStart
    [] b = "dmem"      -> DmemAtStart
    [] b = "imem"      -> ImemAtStart
    [] b = "gpio"      -> GpioReset
    [] b = "axil_mem"  -> MemReset([i \in MemIndexes |-> {}])
    [] b = "timer"     -> TimerReset
    [] b = "uart_axil" -> UartReset

Outputs(in) ==
  CASE bench = "alu"        -> [result |-> Alu(in.op, in.a, in.b)]
    [] bench = "branch_cmp" -> [taken |-> BranchTaken(in.f3, in.a, in.b)]
    [] bench = "immgen"     -> [imm |-> Imm(in.instr)]
    [] bench = "decoder"    -> DecodeWord(in.instr)
    [] bench = "csr"        -> CsrOutputs(dut, in)
    [] bench = "regfile"    -> RegOutputs(dut, in)
    [] bench \in {"dmem", "imem"} -> [rdata |-> dut.rdata]
    [] bench = "gpio"       -> [led |-> Field(dut.led, 15, 0)]
    [] bench = "timer"      -> [timer_irq |-> Counters(dut)!TimerIrq]

BlockEdge(in) ==
  CASE bench = "csr"     -> CsrEdge(dut, in)
    [] bench = "regfile" -> RegEdge(dut, in)
    [] bench = "dmem"    -> DmemEdge(dut, in)
    [] bench = "imem"    -> ImemEdge(dut, in)

\* rxd is set before the edge: to txd, or to what the test drives.
BusEdge(bus, in) ==
  CASE bench = "gpio"      -> GpioEdge(dut, bus, in.sw)
    [] bench = "axil_mem"  -> MemEdge(dut, bus)
    [] bench = "timer"     -> TimerDevEdge(dut, bus)
    [] bench = "uart_axil" -> UartDevEdge(dut, bus, Line(dut, in))

-----------------------------------------------------------------------------
(* The scripts *)

Script ==
  CASE bench = "alu"        -> AluScript
    [] bench = "branch_cmp" -> BranchScript
    [] bench = "immgen"     -> ImmScript
    [] bench = "decoder"    -> DecScript
    [] bench = "csr"        -> CsrScript
    [] bench = "regfile"    -> RegScript
    [] bench = "dmem"       -> DmemScript
    [] bench = "imem"       -> ImemScript
    [] bench = "gpio"       -> GpioScript
    [] bench = "axil_mem"   -> AxilMemScript
    [] bench = "timer"      -> TimerScript(seen)
    [] bench = "uart_axil"  -> UartScript
RoundScript ==
  CASE bench = "gpio"      -> GpioRound(Model, round)
    [] bench = "axil_mem"  -> AxilMemRound(Model, round)
    [] bench = "uart_axil" -> UartRound(round[1])
Items  == IF round = NoRound THEN Script ELSE RoundScript
NoItem == [do |-> "nothing"]
ItemHere == IF pos \in DOMAIN Items THEN Items[pos] ELSE NoItem

Count(bad) == fails' = fails + (IF bad THEN 1 ELSE 0)
GoOn == /\ pos' = pos + 1
        /\ xfer' = NoXfer /\ tries' = 0
        /\ UNCHANGED <<bench, round, shadow>>
        /\ item' = ItemHere'
SameItem == UNCHANGED <<bench, round, shadow, pos, item>>

Apply ==
  /\ item.do = "settle"
  /\ pins' = item.in
  /\ fails' = fails + Mismatches(item.want, Outputs(item.in))
  /\ UNCHANGED <<dut, seen>> /\ GoOn

Clock ==
  /\ item.do = "tick"
  /\ IF bench \in Clocked
     THEN /\ fails' = fails + Mismatches(item.want, Outputs(item.in))
          /\ dut' = BlockEdge(item.in)
          /\ UNCHANGED pins
     ELSE /\ dut' = BusEdge(Quiet(dut), item.in)
          /\ pins' = item.in /\ UNCHANGED fails
  /\ UNCHANGED seen /\ GoOn

ComparePins ==
  /\ item.do = "pins"
  /\ fails' = fails + Mismatches(item.want, Outputs(pins))
  /\ UNCHANGED <<dut, pins, seen>> /\ GoOn

CompareKept ==
  /\ item.do \in {"expect", "status"}
  /\ Count(IF item.do = "expect" THEN ~item.holds ELSE seen.st \notin item.want)
  /\ UNCHANGED <<dut, pins, seen>> /\ GoOn

\* The loop ends with the pin up, or with its patience.
ClockUntil ==
  /\ item.do = "until"
  /\ UNCHANGED seen
  /\ IF Outputs(pins)[item.pin] \/ tries = item.limit
     THEN GoOn /\ UNCHANGED dut
     ELSE /\ dut' = BusEdge(Quiet(dut), pins)
          /\ tries' = tries + 1
          /\ SameItem /\ UNCHANGED xfer
  /\ UNCHANGED <<pins, fails>>

\* Cycles after which axil_write and axil_read give up.
Patience == IF bench = "uart_axil" THEN 3000 ELSE 20
LastCycle == Responds(dut, item) \/ xfer.cycles + 1 = Patience
Cycle == dut' = BusEdge(BusSignals(dut, item, xfer), pins)
\* What axil_read returns: 0 if nothing came.
Nothing == IF bench \in {"gpio", "axil_mem"} THEN {} ELSE 0
Got == IF dut.rd.r THEN dut.rd.data ELSE Nothing
\* Only one of the benches looks.
GaveUp == bench = "uart_axil" /\ ~Responds(dut, item)

XferContinues ==
  /\ item.do \in {"write", "read", "poll"} /\ ~LastCycle
  /\ Cycle
  /\ xfer' = XferGoesOn(dut, item, xfer)
  /\ SameItem /\ UNCHANGED <<pins, tries, seen, fails>>

WriteEnds ==
  /\ item.do = "write" /\ LastCycle
  /\ Cycle
  /\ Count(GaveUp)
  /\ UNCHANGED <<pins, seen>> /\ GoOn

ReadEnds ==
  /\ item.do = "read" /\ LastCycle
  /\ Cycle
  /\ IF item.keep = <<>>
     THEN Count(Got \notin item.want \/ GaveUp) /\ UNCHANGED seen
     ELSE seen' = [seen EXCEPT ![item.keep[1]] = Got] /\ Count(GaveUp)
  /\ GoOn /\ UNCHANGED pins

PollEnds ==
  /\ item.do = "poll" /\ LastCycle
  /\ Cycle
  /\ seen' = [seen EXCEPT !.st = Got]
  /\ IF StatusBits(Got) \cap item.bits = item.value \/ tries + 1 = item.limit
     THEN GoOn
     ELSE /\ tries' = tries + 1 /\ xfer' = NoXfer
          /\ SameItem
  /\ Count(GaveUp)
  /\ UNCHANGED pins

-----------------------------------------------------------------------------
(* The random loops *)

AfterScript == round = NoRound /\ item = NoItem
Stay == UNCHANGED <<bench, pins, pos, item, round, xfer, tries, seen>>

\* A block without state sees each of its inputs once.
TryInputs ==
  /\ AfterScript /\ bench \in Combinational /\ tries = 0
  /\ fails' = fails + CASE bench = "alu"        -> Cardinality(AluDiffers)
                        [] bench = "branch_cmp" -> Cardinality(BranchDiffers)
                        [] bench = "immgen"     -> Cardinality(ImmDiffers)
                        [] bench = "decoder"    -> Cardinality(DecDiffers)
  /\ tries' = 1
  /\ UNCHANGED <<dut, pins, xfer, seen>> /\ SameItem

\* The model is filled before the loop.
ModelAtStart ==
  CASE bench = "csr"      -> CsrShadow(dut)
    [] bench = "regfile"  -> dut
    [] bench = "dmem"     -> DmemShadow(dut)
    [] bench = "axil_mem" -> [i \in AxilOffsets |-> seen[i]]
    [] OTHER              -> "none"

Fill ==
  /\ AfterScript /\ bench \notin Combinational \cup {"gpio", "timer"} /\ shadow = NoModel
  /\ shadow' = <<ModelAtStart>>
  /\ Stay /\ UNCHANGED <<dut, fails>>

InLoop(b) == AfterScript /\ bench = b /\ shadow # NoModel

CsrLoop ==
  /\ InLoop("csr")
  /\ \E r \in CsrRandom :
       /\ fails' = fails + (IF CsrValue(dut, CsrRandomIn(r)) # Model[r[1]] THEN 1 ELSE 0)
       /\ dut' = BlockEdge(CsrRandomIn(r))
       /\ shadow' = <<CsrShadowEdge(Model, r)>>
  /\ Stay

\* The read follows the write: it sees the register file after the edge.
RegfileLoop ==
  /\ InLoop("regfile")
  /\ \E r \in RegRandom :
       /\ dut' = BlockEdge(RegIn(TRUE, r[1], r[2], 0, 0))
       /\ shadow' = <<RegShadowEdge(Model, r)>>
       /\ fails' = fails + Mismatches(RegWant(Model', r), RegOutputs(dut', RegIn(FALSE, 0, {}, r[3], r[4])))
  /\ Stay

\* A store's edge, then a load's.
DmemLoop ==
  /\ InLoop("dmem")
  /\ \E r \in DmemRandom :
       LET stored == BlockEdge(MemIn(TRUE, r[1], r[2], r[3]))
       IN  /\ dut' = DmemEdge(stored, MemIn(TRUE, r[4], {}, {}))
           /\ shadow' = <<DmemShadowEdge(Model, r)>>
           /\ Count(dut'.rdata # DmemWant(Model', r[4]))
  /\ Stay

ImemLoop ==
  /\ InLoop("imem")
  /\ \E i \in ImemRandom :
       /\ dut' = BlockEdge(ImemIn(TRUE, At80(4 * i)))
       /\ Count(dut'.rdata # N(i))
  /\ Stay /\ UNCHANGED shadow

\* On the bus a draw is a script of its own.
Draw(r) == /\ round' = r /\ pos' = 1
           /\ UNCHANGED <<bench, dut, pins, xfer, tries, seen, fails>>
           /\ item' = ItemHere'

\* The generator's second number from seed 1 is 4282876139, which makes all
\* four strobes of the first write.
FirstDraw(r) == shadow = NoModel /\ ~AnySeed => r[2] = AllLanes
BeginGpioRound ==
  /\ AfterScript /\ bench = "gpio"
  /\ \E r \in GpioRandom :
       /\ FirstDraw(r)
       /\ shadow' = <<GpioModelEdge(IF shadow = NoModel THEN GpioModelAtStart ELSE Model, r)>>
       /\ Draw(r)

BeginAxilMemRound ==
  /\ InLoop("axil_mem")
  /\ \E r \in AxilMemRandom : shadow' = <<AxilMemModelEdge(Model, r)>> /\ Draw(r)

BeginUartRound ==
  /\ InLoop("uart_axil")
  /\ \E v \in UartRandom : UNCHANGED shadow /\ Draw(<<v>>)

EndRound ==
  /\ round # NoRound /\ item = NoItem
  /\ round' = NoRound /\ pos' = Len(Script) + 1
  /\ UNCHANGED <<bench, item, dut, pins, xfer, tries, seen, shadow, fails>>

-----------------------------------------------------------------------------

Init ==
  /\ bench \in Benches
  /\ dut = DutReset(bench)
  /\ pins = IF bench = "gpio" THEN [sw |-> {}] ELSE IF bench = "uart_axil" THEN Loop ELSE "none"
  /\ pos = 1 /\ round = NoRound /\ xfer = NoXfer /\ tries = 0
  /\ seen = CASE bench = "timer"     -> [n \in Reads1 \X {"lo", "hi"} |-> 0]
              [] bench = "axil_mem"  -> [i \in AxilOffsets |-> {}]
              [] bench = "uart_axil" -> [st |-> 0]
              [] OTHER               -> "none"
  /\ shadow = NoModel
  /\ item = ItemHere
  /\ fails = 0

Next == \/ Apply \/ Clock \/ ComparePins \/ CompareKept \/ ClockUntil
        \/ XferContinues \/ WriteEnds \/ ReadEnds \/ PollEnds
        \/ TryInputs \/ Fill \/ CsrLoop \/ RegfileLoop \/ DmemLoop \/ ImemLoop
        \/ BeginGpioRound \/ BeginAxilMemRound \/ BeginUartRound \/ EndRound

Spec == Init /\ [][Next]_vars
=============================================================================
