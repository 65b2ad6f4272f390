-------------------------------- MODULE RegIf -------------------------------
(***************************************************************************)
(* axil_reg_if_wr.v and axil_reg_if_rd.v: one AXI4-Lite slave port turned  *)
(* into a register write strobe and a register read strobe.  Each channel  *)
(* is a record; WrEdge and RdEdge are what one clock edge makes of it.     *)
(***************************************************************************)
EXTENDS Integers

CONSTANT Timeout      \* cycles a register that neither waits nor acks is given
ASSUME RegIfAssumption == Timeout \in Nat \ {0}

\* The address and data registers have no reset: a and d stand for what they hold.
WrReset(a, d) == [aw |-> FALSE, w |-> FALSE, b |-> FALSE, en |-> FALSE,
                  timeout |-> 0, addr |-> a, data |-> d]
RdReset(a, d) == [ar |-> FALSE, r |-> FALSE, en |-> FALSE,
                  timeout |-> 0, addr |-> a, data |-> d]

AwReady(wr) == ~wr.aw
WReady(wr)  == ~wr.w
ArReady(rd) == ~rd.ar

\* Loaded while the address register is empty; it does not run while the
\* register asks for time.
\* Variant: it runs all the time.
Countdown_IgnoresWait(held, ch, wait) ==
  IF ch.en /\ ch.timeout # 0 THEN ch.timeout - 1
  ELSE IF held THEN ch.timeout ELSE Timeout - 1
Countdown(held, ch, wait) ==
  IF ch.en /\ ~wait /\ ch.timeout # 0 THEN ch.timeout - 1
  ELSE IF held THEN ch.timeout ELSE Timeout - 1

WrDone(wr, ack) == wr.en /\ (ack \/ wr.timeout = 0)
RdDone(rd, ack) == rd.en /\ (ack \/ rd.timeout = 0)

\* bus is what the master drives: awvalid, wvalid, bready, addr and data.
WrEdge(wr, bus, wait, ack) ==
  LET done == WrDone(wr, ack)
      aw == IF wr.aw THEN ~done ELSE bus.awvalid
      w  == IF wr.w THEN ~done ELSE bus.wvalid
      b  == done \/ (wr.b /\ ~bus.bready)
  IN  [aw |-> aw, w |-> w, b |-> b, en |-> aw /\ w /\ ~b,
       timeout |-> Countdown(wr.aw, wr, wait),
       addr |-> IF wr.aw THEN wr.addr ELSE bus.addr,
       data |-> IF wr.w THEN wr.data ELSE bus.data]

\* bus is arvalid, rready and addr; value is what the register reads as.
RdEdge(rd, bus, wait, ack, value) ==
  LET done == RdDone(rd, ack)
      ar == IF rd.ar THEN ~done ELSE bus.arvalid
      r  == done \/ (rd.r /\ ~bus.rready)
  IN  [ar |-> ar, r |-> r, en |-> ar /\ ~r,
       timeout |-> Countdown(rd.ar, rd, wait),
       addr |-> IF rd.ar THEN rd.addr ELSE bus.addr,
       data |-> IF done THEN value ELSE rd.data]
=============================================================================
