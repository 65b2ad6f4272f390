------------------------------ MODULE UartProps -----------------------------
(***************************************************************************)
(* What the UART owes its software.                                        *)
(***************************************************************************)
EXTENDS Uart

\* The registers keep to their types; the transmitter takes a character only
\* when it is idle (uart_tx.v:78-113, uart_rx.v:86-140).
TypeOK ==
  /\ prescale \in Values
  /\ tx.count \in 0 .. DataBits + 1 /\ rx.count \in 0 .. DataBits + 2
  /\ tx.wait \in 0 .. 2 ^ 19 - 1 /\ rx.wait \in 0 .. 2 ^ 19 - 1
  /\ Len(tx.data) = tx.count /\ tx.txd \in Bits
  /\ Len(rx.data) <= DataBits /\ rx.tdata \in Chars /\ rx.rxd \in Bits
  /\ tx.ready => tx.count = 0 /\ tx.wait = 0
  /\ wr.timeout \in 0 .. Timeout - 1 /\ rd.timeout \in 0 .. Timeout - 1
  /\ req \in Accesses[loopback] \cup {NoAccess}

\* Looped back, every character software wrote and the bus acknowledged comes
\* out of the receiver once, whole and in order, however the writes crowd the
\* transmitter: a write to a busy one waits and is neither dropped nor timed
\* out (uart_axil.v:18-21, 83-84; axil_reg_if_wr.v:108-128).
EveryCharacterArrives ==
  loopback /\ FrameEnds =>
    /\ Delivers
    /\ inFlight # <<>> /\ CharOf(rx.data) = Head(inFlight) % 2 ^ DataBits

\* No character is overwritten in silence: from the cycle it is lost until a
\* STATUS read says so, the overrun is pending or latched, even when it happens
\* in the cycle of a STATUS read (uart_axil.v:22-24, 141-147).
LossIsRemembered == lost => rx.overrun \/ sticky.overrun

\* Once STATUS has said that a character is there, it, or a newer one, is there
\* until DATA is read (uart_axil.v:9-14, 112-114).
ValidUntilRead == promised => rx.valid

\* A write never blocks the bus for ever (uart_axil.v:83-84).
WritesEnd == wr.en ~> ~wr.en
=============================================================================
