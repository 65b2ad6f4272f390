----------------------------- MODULE Peripherals ----------------------------
(***************************************************************************)
(* gpio.v, axil_mem.v, timer.v and uart_axil.v as devices on a bus: the    *)
(* registers behind one AXI4-Lite port, one clock edge at a time.  bus is  *)
(* what the master drives; a register's name stands for its address bits,  *)
(* a word's index for those of memory.                                     *)
(***************************************************************************)
EXTENDS RegIf, Words

CONSTANT
  Half,         \* values of half a timer counter: 2^32 in the device
  MemIndexes    \* words of memory: 0 .. 16383 in the device

-----------------------------------------------------------------------------
(* gpio.v *)

GpioReset == [wr |-> WrReset("led", [value |-> {}, strb |-> {}]), rd |-> RdReset("led", {}),
              led |-> {}]

LedAfter(dev) ==
  IF dev.wr.en /\ dev.wr.addr = "led"
  THEN Merge(dev.led, dev.wr.data.value, dev.wr.data.strb) ELSE dev.led

GpioEdge(dev, bus, sw) ==
  [wr  |-> WrEdge(dev.wr, bus, FALSE, dev.wr.en),
   rd  |-> RdEdge(dev.rd, bus, FALSE, dev.rd.en, IF dev.rd.addr = "led" THEN dev.led ELSE sw),
   led |-> LedAfter(dev)]

-----------------------------------------------------------------------------
(* axil_mem.v: a dmem behind the port.  Its output register is rdata. *)

MemReset(words) ==
  LET w0 == CHOOSE i \in MemIndexes : TRUE
  IN  [wr |-> WrReset(w0, [value |-> {}, strb |-> {}]), rd |-> RdReset(w0, {}),
       pending |-> FALSE, words |-> words, rdata |-> {}]

\* Variant: the acknowledge does not wait for the output register.
MemReadAck_Early(dev) == dev.rd.en
MemReadWait(dev) == dev.rd.en /\ ~dev.pending
MemReadAck(dev)  == dev.rd.en /\ dev.pending

\* One address for reads and writes, the read's if there is one.
MemPortIndex(dev) == IF dev.rd.en THEN dev.rd.addr ELSE dev.wr.addr
MemWords(dev) ==
  IF dev.wr.en
  THEN [dev.words EXCEPT ![MemPortIndex(dev)] = Merge(@, dev.wr.data.value, dev.wr.data.strb)]
  ELSE dev.words

MemEdge(dev, bus) ==
  [wr      |-> WrEdge(dev.wr, bus, FALSE, dev.wr.en),
   rd      |-> RdEdge(dev.rd, bus, MemReadWait(dev), MemReadAck(dev), dev.rdata),
   pending |-> dev.rd.en /\ ~dev.pending,
   words   |-> MemWords(dev),
   rdata   |-> IF dev.rd.en THEN dev.words[MemPortIndex(dev)] ELSE dev.rdata]

-----------------------------------------------------------------------------
(* timer.v: the counters are Timer's *)

Counters(dev) == INSTANCE Timer WITH mtime <- dev.mtime, mtimecmp <- dev.mtimecmp

TimerReset == [wr |-> WrReset("mtime_lo", 0), rd |-> RdReset("mtime_lo", 0),
               mtime |-> 0, mtimecmp |-> Half * Half - 1]
\* Variant: a write to half of the compare register clears the other.
TimerWrite_ClearsHalf(dev) ==
  IF ~dev.wr.en THEN [reg |-> "none", value |-> 0]
  ELSE IF dev.wr.addr = "mtimecmp_hi" THEN [reg |-> "mtimecmp_lo", value |-> 0]
  ELSE [reg |-> dev.wr.addr, value |-> dev.wr.data]
TimerWrite(dev) == IF dev.wr.en THEN [reg |-> dev.wr.addr, value |-> dev.wr.data]
                   ELSE [reg |-> "none", value |-> 0]
TimerDevEdge(dev, bus) ==
  [wr       |-> WrEdge(dev.wr, bus, FALSE, dev.wr.en),
   rd       |-> RdEdge(dev.rd, bus, FALSE, dev.rd.en, Counters(dev)!ReadReg(dev.rd.addr)),
   mtime    |-> Counters(dev)!Mtime(TimerWrite(dev)),
   mtimecmp |-> Counters(dev)!Mtimecmp(TimerWrite(dev))]

-----------------------------------------------------------------------------
(* uart_axil.v: the shift registers and the sticky bits are Uart's *)

Serial(dev) == INSTANCE Uart WITH
  DataBits <- 8, PrescaleInit <- 81, Accesses <- <<>>, loopback <- TRUE,
  prescale <- dev.prescale, tx <- dev.tx, rx <- dev.rx, sticky <- dev.sticky,
  wr <- dev.wr, rd <- dev.rd, req <- 0, offered <- {}, taken <- {}, inFlight <- <<>>,
  lost <- FALSE, promised <- FALSE

UartReset ==
  LET none == [tx |-> 0]
  IN  [prescale |-> 81, tx |-> Serial(none)!TxReset, rx |-> Serial(none)!RxReset,
       sticky |-> [overrun |-> FALSE, frame |-> FALSE],
       wr |-> WrReset("data", 0), rd |-> RdReset("data", 0)]
UartDevEdge(dev, bus, rxd) ==
  [prescale |-> IF Serial(dev)!WrSel("prescale") THEN dev.wr.data ELSE dev.prescale,
   tx       |-> Serial(dev)!TxEdge(Serial(dev)!TxValid, dev.wr.data),
   rx       |-> Serial(dev)!RxEdge(rxd, Serial(dev)!RxReady),
   sticky   |-> Serial(dev)!Sticky,
   wr       |-> WrEdge(dev.wr, bus, Serial(dev)!WrWait, Serial(dev)!WrAck),
   rd       |-> RdEdge(dev.rd, bus, FALSE, dev.rd.en, Serial(dev)!RegValue)]
=============================================================================
