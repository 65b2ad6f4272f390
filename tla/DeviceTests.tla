----------------------------- MODULE DeviceTests ----------------------------
(***************************************************************************)
(* tb_gpio.cpp, tb_axil_mem.cpp, tb_timer.cpp and tb_uart_axil.cpp: their  *)
(* bus transactions, one clock cycle at a time, and what they do with them.*)
(***************************************************************************)
EXTENDS Peripherals, Script

-----------------------------------------------------------------------------
(* Items of these scripts.  in is what the pins are driven to.             *)

WriteTo(a, v)     == [do |-> "write", addr |-> a, data |-> v]
ReadOf(a, values) == [do |-> "read", addr |-> a, want |-> values, keep |-> <<>>]
\* The value goes to seen[name]; nothing is compared.
KeepAs(name, a)   == [do |-> "read", addr |-> a, want |-> {}, keep |-> <<name>>]
\* Clocks until the pin is up, at most limit times.
Until(pin, limit) == [do |-> "until", pin |-> pin, limit |-> limit]
\* Reads addr until its bits are those wanted, at most limit times; the last
\* value goes to seen.st.
Poll(a, bits, value, limit) ==
  [do |-> "poll", addr |-> a, bits |-> bits, value |-> value, limit |-> limit]
\* What was read before is compared.
Expect(holds) == [do |-> "expect", holds |-> holds]
Times(n, item) == [k \in 1 .. n |-> item]

-----------------------------------------------------------------------------
(* The bus side: axil_write and axil_read.  A channel's valid is lowered in *)
(* the cycle after the one it was accepted in, ready is up throughout.      *)

NoXfer == [first |-> FALSE, second |-> FALSE, cycles |-> 0]

\* aw and w of a write, ar of a read; accepted while the device is ready.
BusSignals(dev, item, xfer) ==
  [awvalid |-> item.do = "write" /\ ~xfer.first, wvalid |-> item.do = "write" /\ ~xfer.second,
   bready  |-> item.do = "write",
   arvalid |-> item.do \in {"read", "poll"} /\ ~xfer.first, rready |-> item.do \in {"read", "poll"},
   addr |-> item.addr, data |-> IF item.do = "write" THEN item.data ELSE dev.wr.data]
Quiet(dev) == [awvalid |-> FALSE, wvalid |-> FALSE, bready |-> FALSE, arvalid |-> FALSE,
               rready |-> FALSE, addr |-> dev.wr.addr, data |-> dev.wr.data]
XferGoesOn(dev, item, xfer) ==
  [first  |-> xfer.first \/ (IF item.do = "write" THEN AwReady(dev.wr) ELSE ArReady(dev.rd)),
   second |-> xfer.second \/ (item.do = "write" /\ WReady(dev.wr)),
   cycles |-> xfer.cycles + 1]
\* The response is sampled before the edge that takes it.
Responds(dev, item) == IF item.do = "write" THEN dev.wr.b ELSE dev.rd.r

-----------------------------------------------------------------------------
(* tb_gpio *)

AllLanes == {0, 1, 2, 3}
Led(v, lanes) == WriteTo("led", [value |-> v, strb |-> lanes])
Sw(v)         == Settle([sw |-> v], Unchecked)
LedPins(v)    == [do |-> "pins", want |-> [led |-> {v}]]
GpioScript ==
  << Led(N(\hBEEF), AllLanes), ReadOf("led", {N(\hBEEF)}), LedPins(N(\hBEEF)),
     Led({}, AllLanes), Led(N(\hAA), {0}), ReadOf("led", {N(\hAA)}),
     Led(N(\hBB00), {1}), ReadOf("led", {N(\hBBAA)}), LedPins(N(\hBBAA)),
     Sw(N(\hCAFE)), ReadOf("sw", {N(\hCAFE)}),
     WriteTo("sw", [value |-> H(\hFFFF, \hFFFF), strb |-> AllLanes]), ReadOf("sw", {N(\hCAFE)}),
     Sw(N(\h1234)), ReadOf("sw", {N(\h1234)}),
     Led(N(\h5555), AllLanes), Sw(N(\hAAAA)), ReadOf("sw", {N(\hAAAA)}),
     ReadOf("led", {N(\h5555)}), LedPins(N(\h5555)) >>
  \o FlattenSeq([i \in 1 .. 50 |-> LET v == N((i - 1) * \h0101)
                                   IN  << Led(v, AllLanes), ReadOf("led", {v}) >>])

\* 6: the model starts at 0, whatever the register holds.
GpioModelAtStart == {}
GpioValues == {{}, {0, 9, 18, 31}}
GpioRandom == {<<v, lanes, sw>> : v \in GpioValues, lanes \in (SUBSET AllLanes) \ {{}},
                                  sw \in {{}, {0, 15}}}
GpioModelEdge(model, r) == Merge(model, r[1], r[2])
GpioRound(model, r) ==
  << Led(r[1], r[2]), ReadOf("led", {model}), LedPins(Field(model, 15, 0)),
     Sw(r[3]), ReadOf("sw", {r[3]}) >>

-----------------------------------------------------------------------------
(* tb_axil_mem.  A word's address is its index. *)

Store(i, v, lanes) == WriteTo(i, [value |-> v, strb |-> lanes])
AxilMemScript ==
  LET dead == H(\hDEAD, \hBEEF)
      ones == H(\h1111, \h1111)
      twos == H(\h2222, \h2222)
      threes == H(\h3333, \h3333)
  IN  << Store(0, dead, AllLanes), ReadOf(0, {dead}), Store(1, H(\h1234, \h5678), AllLanes),
         ReadOf(1, {H(\h1234, \h5678)}), ReadOf(0, {dead}),
         Store(2, {}, AllLanes), Store(2, N(\hAA), {0}), ReadOf(2, {N(\hAA)}),
         Store(2, N(\hBB00), {1}), ReadOf(2, {N(\hBBAA)}),
         Store(2, H(\hCC, 0), {2}), ReadOf(2, {H(\hCC, \hBBAA)}),
         Store(2, H(\hDD00, 0), {3}), ReadOf(2, {H(\hDDCC, \hBBAA)}),
         Store(25, ones, AllLanes), Store(26, twos, AllLanes), ReadOf(25, {ones}), ReadOf(26, {twos}),
         Store(25, threes, AllLanes), ReadOf(25, {threes}), ReadOf(26, {twos}) >>
      \o FlattenSeq([i \in 1 .. 50 |-> LET v == H((i - 1) * \h0101, (i - 1) * \h0101)
                                       IN  << Store(50, v, AllLanes), ReadOf(50, {v}) >>])
      \o << KeepAs(25, 25), KeepAs(50, 50) >>      \* the model starts with what is there

AxilOffsets == {25, 50}
AxilMemRandom == {<<i, v, lanes, j>> : i \in AxilOffsets, v \in {{}, H(\h8001, \h8001)},
                                       lanes \in {{0}, {1, 2, 3}}, j \in AxilOffsets}
AxilMemModelEdge(model, r) == [model EXCEPT ![r[1]] = Merge(@, r[2], r[3])]
AxilMemRound(model, r) == << Store(r[1], r[2], r[3]), ReadOf(r[4], {model[r[4]]}) >>

-----------------------------------------------------------------------------
(* tb_timer.  t(n) is what read_mtime returned for n: two reads. *)

ReadMtime(n) == << KeepAs(<<n, "lo">>, "mtime_lo"), KeepAs(<<n, "hi">>, "mtime_hi") >>
Arm(target)  == << WriteTo("mtimecmp_lo", target % Half),
                   WriteTo("mtimecmp_hi", (target \div Half) % Half) >>
Irq(up)      == [do |-> "pins", want |-> [timer_irq |-> {up}]]
Reads1 == {"t0", "t1", "now", "fired", "now2", "set"}
TimerScript(seen) ==
  LET t(n) == seen[<<n, "hi">>] * Half + seen[<<n, "lo">>]
      ones == Half - 1
  IN  << ReadOf("mtime_lo", 0 .. 9), ReadOf("mtimecmp_lo", {ones}), ReadOf("mtimecmp_hi", {ones}),
         Irq(FALSE) >>
      \o ReadMtime("t0") \o Times(100, Tick("none", Unchecked)) \o ReadMtime("t1")
      \o << Expect(t("t1") > t("t0")), Expect(t("t1") - t("t0") >= 100),
            Expect(t("t1") - t("t0") < 200) >>
      \o ReadMtime("now") \o Arm(t("now") + 20) \o << Irq(FALSE), Until("timer_irq", 200), Irq(TRUE) >>
      \o ReadMtime("fired") \o << Expect(t("fired") >= t("now") + 20) >>
      \o ReadMtime("now2") \o Arm(t("now2") + 30) \o << Irq(FALSE), Until("timer_irq", 200), Irq(TRUE) >>
      \o Arm(0) \o << Irq(TRUE) >>
      \o Arm(Half * Half - 1) \o << WriteTo("mtime_hi", 1), WriteTo("mtime_lo", 0) >>
      \o ReadMtime("set") \o << Expect(t("set") >= Half), Expect(t("set") < Half + 256) >>
      \o << WriteTo("mtimecmp_lo", \h678), WriteTo("mtimecmp_hi", \hEF0),
            ReadOf("mtimecmp_lo", {\h678}), ReadOf("mtimecmp_hi", {\hEF0}) >>

-----------------------------------------------------------------------------
(* tb_uart_axil.  The line is looped back unless a test drives it.         *)

TxBusy   == 0         \* bits of STATUS
RxValid  == 1
Overrun  == 2
FrameErr == 3
Prescale == 4
BitPeriod == 8 * Prescale
StatusBits(n)      == Field(N(n), 3, 0)
StatusWith(bits, up) == {n \in 0 .. 15 : StatusBits(n) \cap bits = up}
WaitFor(bits, up)  == Poll("status", bits, up, 200)
St(bits, up)       == [do |-> "status", want |-> StatusWith(bits, up)]
Send(v)            == WriteTo("data", v)
Gets(v)            == << WaitFor({RxValid}, {RxValid}), ReadOf("data", {v}) >>
GetsChecked(v)     == << WaitFor({RxValid}, {RxValid}), St({RxValid}, {RxValid}), ReadOf("data", {v}) >>
Loop               == [loop |-> TRUE, rxd |-> 1]
Hold(v, n)         == Times(n, Tick([loop |-> FALSE, rxd |-> v], Unchecked))
Line(dev, in)      == IF in.loop THEN dev.tx.txd ELSE in.rxd

UartBasics ==         \* 1 to 7
  << Settle(Loop, Unchecked), ReadOf("status", {0}), WriteTo("prescale", Prescale), ReadOf("prescale", {Prescale}),
     Send(\hA5), ReadOf("status", StatusWith({TxBusy}, {TxBusy})) >>
  \o GetsChecked(\hA5)
  \o << ReadOf("status", StatusWith({RxValid}, {})), WaitFor({TxBusy}, {}), St({TxBusy}, {}) >>
  \o FlattenSeq([v \in 1 .. 8 |-> << Send(16 * (v - 1) + 1) >> \o GetsChecked(16 * (v - 1) + 1)])
  \o << Send(\h11), Send(\h22) >> \o Gets(\h11) \o Gets(\h22)
  \o << Send(\h33), WaitFor({RxValid}, {RxValid}), St({Overrun}, {}),
        Send(\h44), WaitFor({Overrun}, {Overrun}), St({Overrun}, {Overrun}),
        St({RxValid}, {RxValid}), ReadOf("data", {\h44}), ReadOf("status", StatusWith({Overrun}, {})) >>

\* 8: a character without its stop bit, the line released before the next
\* start bit could be taken.
UartFrameError ==
  LET bit(b) == (\h5A \div 2 ^ b) % 2
  IN  Hold(1, BitPeriod) \o Hold(0, BitPeriod)
      \o FlattenSeq([b \in 1 .. 8 |-> Hold(bit(b - 1), BitPeriod)])
      \o Hold(0, (BitPeriod * 5) \div 8) \o Hold(1, (BitPeriod * 3) \div 8) \o Hold(1, BitPeriod)
      \o << WaitFor({FrameErr}, {FrameErr}), St({FrameErr}, {FrameErr}),
            ReadOf("status", StatusWith({FrameErr}, {})), Settle(Loop, Unchecked) >>
UartScript == UartBasics \o UartFrameError

\* 9
UartRandom == {0, 90, 255}
UartRound(v) == << Send(v) >> \o GetsChecked(v)
=============================================================================
