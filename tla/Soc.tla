--------------------------------- MODULE Soc --------------------------------
(***************************************************************************)
(* soc.v below the pipeline: the bus master, the interconnect and the four *)
(* devices behind it, on one clock and one reset.  The MEM stage is the    *)
(* master's, as in AxilMaster; the address map is scaled down to windows   *)
(* of a few words.  dmem, gpio and timer are those of Peripherals.  Of the *)
(* UART there is the port: a DATA write waits while the transmitter is     *)
(* busy, for any time (Uart shows that it ends), and a register reads as   *)
(* anything.                                                               *)
(***************************************************************************)
EXTENDS Peripherals, Interconnect, SequencesExt

CONSTANTS
  NWords, Requests, MemInit, MaxAccesses, MaxResets,   \* as in AxilMaster
  PinValues     \* what the switches and a UART register may read as

VARIABLES
  req, result, state, awvalid, wvalid, bready, arvalid, rready, awDone, wDone,
  phase2, wordLo, accesses, resets, log, before,       \* as in AxilMaster
  ic, dmem, gpio, uart, timer,
  strobes,      \* not in the code: the register accesses of this load or store
  prior         \* not in the code: memory before the write under way

devs == <<ic, dmem, gpio, uart, timer>>
mvars == <<req, result, state, awvalid, wvalid, bready, arvalid, rready, awDone, wDone,
             phase2, wordLo, accesses, resets, log, before>>
vars == <<mvars, devs, strobes, prior>>

-----------------------------------------------------------------------------
(* Words on the wires are sets of bits, words of the MEM stage four bytes. *)

Lane == 0 .. 3
ToBits(bytes) == {i \in 0 .. 31 : (bytes[i \div 8] \div 2 ^ (i % 8)) % 2 = 1}
ToByte(bits)  == LET v(i) == IF i \in bits THEN 2 ^ i ELSE 0
                 IN  v(0) + v(1) + v(2) + v(3) + v(4) + v(5) + v(6) + v(7)
ToBytes(bits) == [l \in Lane |-> ToByte(Field(bits, 8 * l + 7, 8 * l))]
Zeros == [l \in Lane |-> 0]

-----------------------------------------------------------------------------
(* The slave the master sees: the interconnect and what is behind it.      *)

DmemImage(words) == [w \in 0 .. NWords - 1 |->
  IF w \in Window("dmem") THEN ToBytes(words[w - Base["dmem"]]) ELSE Zeros]
\* A write reaches memory before the master is told.
WriteUnderWay(i) == i.state \in {"write", "writeResp"}

AsSlave(i) ==
  LET answered == i.bvalid
      aw == i.state \in {"write", "writeDrop", "writeResp"} \/ answered
      w  == i.state = "writeResp" \/ answered
      ar == i.state = "read" \/ i.rvalid
  IN  [aw |-> aw, w |-> w, ar |-> ar, bvalid |-> i.bvalid, rvalid |-> i.rvalid,
       addr |-> IF aw \/ ar THEN i.addr ELSE 0,
       strb |-> IF w THEN i.strb ELSE {},
       data |-> IF w THEN ToBytes(i.data) ELSE Zeros,
       rdata |-> IF i.rvalid THEN ToBytes(i.data) ELSE Zeros]

M == INSTANCE AxilMaster WITH
  MemInit <- DmemImage(MemInit),
  mem   <- DmemImage(IF WriteUnderWay(ic) THEN prior ELSE dmem.words),
  slave <- AsSlave(ic)

\* Devices and word size of soc.v; windows within the address space; registers
\* have the time that axil_mem needs (axil_reg_if.v:43 gives four cycles).
ASSUME SocAssumption ==
  /\ XLEN = 32 /\ Devices = {"dmem", "gpio", "uart", "timer"}
  /\ NWords \in Nat \ {0, 1} /\ \A d \in Devices : Base[d] + Size[d] <= NWords
  /\ MemIndexes = 0 .. Size["dmem"] - 1 /\ MemInit \in [MemIndexes -> SUBSET (0 .. 31)]
  /\ Requests \subseteq M!Access
  /\ MaxAccesses \in Nat /\ MaxResets \in Nat
  /\ Timeout > 1

-----------------------------------------------------------------------------
(* The wires *)

FromMaster == [awvalid |-> awvalid, wvalid |-> wvalid, bready |-> bready,
               arvalid |-> arvalid, rready |-> rready,
               addr |-> M!Addr, data |-> ToBits(M!Wdata), strb |-> M!Wstrb]

Device(d) == CASE d = "dmem" -> dmem [] d = "gpio" -> gpio [] d = "uart" -> uart
               [] d = "timer" -> timer
ReadBits(d, data) == IF d = "timer" THEN FromNat(data) ELSE data
FromDevices == [d \in Devices |->
  [awready |-> AwReady(Device(d).wr), wready |-> WReady(Device(d).wr),
   arready |-> ArReady(Device(d).rd), bvalid |-> Device(d).wr.b, rvalid |-> Device(d).rd.r,
   rdata |-> ReadBits(d, Device(d).rd.data)]]

\* The address bits a device looks at.
GpioRegs  == <<"led", "sw">>
UartRegs  == <<"data", "status", "prescale", "none">>
TimerRegs == <<"mtime_lo", "mtime_hi", "mtimecmp_lo", "mtimecmp_hi">>
Register(d, addr) == CASE d = "dmem"  -> addr % Size["dmem"]
                       [] d = "gpio"  -> GpioRegs[1 + (addr % 2)]
                       [] d = "uart"  -> UartRegs[1 + (addr % 4)]
                       [] d = "timer" -> TimerRegs[1 + (addr % 4)]
\* The timer and the UART take the whole word, whatever the lanes.
Payload(d, value, strb) == CASE d \in {"dmem", "gpio"} -> [value |-> value, strb |-> strb]
                             [] d = "uart"  -> value
                             [] d = "timer" -> ToByte(Field(value, 7, 0)) % Half
Bus(d) == [awvalid |-> d \in ic.mAw, wvalid |-> d \in ic.mW, bready |-> d \in ic.mB,
           arvalid |-> d \in ic.mAr, rready |-> d \in ic.mR,
           addr |-> Register(d, ic.addr), data |-> Payload(d, ic.data, ic.strb)]

UartDataWrite == uart.wr.en /\ uart.wr.addr = "data"
UartPortEdge(busy, value) ==
  [wr |-> WrEdge(uart.wr, Bus("uart"), busy, uart.wr.en /\ ~busy),
   rd |-> RdEdge(uart.rd, Bus("uart"), FALSE, uart.rd.en, value)]
UartPortReset == [wr |-> WrReset("data", {}), rd |-> RdReset("data", {})]

-----------------------------------------------------------------------------
(* History *)

\* A write's lanes that are off do not count.
Seen(d, data) == IF d \in {"dmem", "gpio"} THEN [data EXCEPT !.value = @ \cap Lanes(data.strb)]
                 ELSE data
\* The register access that device d ends in this cycle.
Strobed(d, old, new) ==
  (IF new.wr.b /\ ~old.wr.b
   THEN <<[op |-> "write", dev |-> d, word |-> ic.addr, reg |-> old.wr.addr,
           data |-> Seen(d, old.wr.data)]>> ELSE <<>>)
  \o (IF new.rd.r /\ ~old.rd.r
      THEN <<[op |-> "read", dev |-> d, word |-> ic.addr, reg |-> old.rd.addr,
              data |-> new.rd.data]>> ELSE <<>>)

AnswersOf(old, new) ==
  (IF new.bvalid /\ ~old.bvalid THEN <<[op |-> "write", word |-> new.addr]>> ELSE <<>>)
  \o (IF new.rvalid /\ ~old.rvalid THEN <<[op |-> "read", word |-> new.addr]>> ELSE <<>>)

-----------------------------------------------------------------------------
Channels == {c \in {"aw", "w", "ar"} :
               (c = "aw" /\ ic.awready) \/ (c = "w" /\ ic.wready) \/ (c = "ar" /\ ic.arready)}

ClockEdge(busy, sw, value) ==
  /\ M!Idle \/ M!Write(Channels) \/ M!WResp \/ M!Read(Channels)
  /\ M!Stage
  /\ ic'    = IcEdge(ic, FromMaster, FromDevices)
  /\ dmem'  = MemEdge(dmem, Bus("dmem"))
  /\ gpio'  = GpioEdge(gpio, Bus("gpio"), sw)
  /\ uart'  = UartPortEdge(busy, value)
  /\ timer' = TimerDevEdge(timer, Bus("timer"))
  /\ M!Log(AnswersOf(ic, ic'))
  /\ LET now == Strobed("dmem", dmem, dmem') \o Strobed("gpio", gpio, gpio')
                  \o Strobed("uart", uart, uart') \o Strobed("timer", timer, timer')
     IN  strobes' = IF M!BusStall THEN strobes \o now ELSE now
  /\ prior' = IF WriteUnderWay(ic') THEN prior ELSE dmem'.words
  /\ UNCHANGED resets

\* What comes from outside counts in the cycle it is read.
Pins(dev) == IF dev.rd.en THEN PinValues ELSE {{}}
\* The transmitter lets a DATA write through, or not yet.
Edge == \E sw \in Pins(gpio), value \in Pins(uart) : ClockEdge(FALSE, sw, value)
BusyEdge == UartDataWrite /\ \E sw \in Pins(gpio) : ClockEdge(TRUE, sw, {})

\* The words of memory have no reset: a strobe in that cycle still writes.
Reset ==
  LET words == MemWords(dmem)
  IN  /\ resets < MaxResets
      /\ resets' = resets + 1
      /\ state' = "idle"
      /\ awvalid' = FALSE /\ wvalid' = FALSE /\ bready' = FALSE
      /\ arvalid' = FALSE /\ rready' = FALSE
      /\ awDone' = FALSE /\ wDone' = FALSE /\ phase2' = FALSE
      /\ wordLo' = Zeros
      /\ req' = M!None /\ UNCHANGED <<result, accesses>>
      /\ ic' = IcReset(ic)
      /\ dmem' = MemReset(words) /\ gpio' = GpioReset
      /\ uart' = UartPortReset /\ timer' = TimerReset
      /\ log' = <<>> /\ strobes' = <<>>
      /\ prior' = words /\ before' = DmemImage(words)

Next == Edge \/ BusyEdge \/ Reset

Init ==
  /\ req = M!None /\ result = Zeros
  /\ state = "idle" /\ awvalid = FALSE /\ wvalid = FALSE /\ bready = FALSE
  /\ arvalid = FALSE /\ rready = FALSE
  /\ awDone = FALSE /\ wDone = FALSE /\ phase2 = FALSE
  /\ wordLo = Zeros
  /\ ic = IcInit("dmem")
  /\ dmem = MemReset(MemInit) /\ gpio = GpioReset
  /\ uart = UartPortReset /\ timer = TimerReset
  /\ accesses = 0 /\ resets = 0 /\ log = <<>> /\ strobes = <<>>
  /\ prior = MemInit /\ before = DmemImage(MemInit)

Spec == Init /\ [][Next]_vars /\ WF_vars(Edge)
=============================================================================
