-------------------------------- MODULE Uart --------------------------------
(***************************************************************************)
(* uart_axil.v with the vendored uart_tx.v and uart_rx.v.  A step is one   *)
(* clock edge.  Software makes one access at a time through the register   *)
(* interface; the receive line is looped back from the transmit line or is *)
(* driven by anyone.                                                       *)
(***************************************************************************)
EXTENDS RegIf, Sequences

CONSTANTS
  DataBits,     \* DATA_WIDTH: 8 in the device
  PrescaleInit, \* PRESCALE_INIT
  Accesses      \* what software may ask, records op, reg, value: when rxd is txd
                \* (TRUE) and when anyone drives it (FALSE), or in one of the cases

Bits == {0, 1}
Registers == {"data", "status", "prescale"}
Values  == 0 .. 255           \* of a register, as far as the checks use them
Divisor == Values \ {0}
Chars   == 0 .. 2 ^ DataBits - 1

ASSUME UartAssumption ==
  /\ DataBits \in 1 .. 8 /\ PrescaleInit \in Divisor
  /\ DOMAIN Accesses \subseteq BOOLEAN
  /\ \A w \in DOMAIN Accesses :
       Accesses[w] \subseteq [op : {"write", "read"}, reg : Registers, value : Values]

\* The bits of a character, lowest first.
BitsOf(char) == [i \in 1 .. DataBits |-> (char \div 2 ^ (i - 1)) % 2]
CharOf(bits) == CHOOSE c \in Chars : BitsOf(c) = bits

VARIABLES
  loopback,     \* the wiring: whether rxd is txd
  prescale,     \* prescale_reg of uart_axil
  tx, rx,       \* the shift registers
  sticky,       \* overrun_sticky, frame_sticky
  wr, rd,       \* the register interface
  req,          \* the access under way, or "none"
  offered,      \* channels whose VALID is up
  taken,        \* channels whose handshake is over
  inFlight,     \* not in the code: characters written and not yet received
  lost,         \* not in the code: an unread character was overwritten, not yet told
  promised      \* not in the code: STATUS said rx_valid and DATA was not read since
vars == <<loopback, prescale, tx, rx, sticky, wr, rd, req, offered, taken, inFlight, lost, promised>>
bus == <<wr, rd, req, offered, taken>>

-----------------------------------------------------------------------------
(* Shift registers.  wait is their prescale_reg, count their bit_cnt. *)

\* The counters have 19 bits: a prescale of 0 wraps.
Cycles(n) == n % 2 ^ 19
BitTime == 8 * prescale

TxReset == [ready |-> FALSE, txd |-> 1, busy |-> FALSE, wait |-> 0, count |-> 0, data |-> <<>>]
RxReset == [rxd |-> 1, valid |-> FALSE, tdata |-> 0,
            wait |-> 0, count |-> 0, data |-> <<>>, overrun |-> FALSE, frame |-> FALSE]

\* Variant: one bit too many.
TxStart_ExtraBit(char) ==
  [ready |-> ~tx.ready, txd |-> 0, busy |-> TRUE, wait |-> Cycles(BitTime - 1),
   count |-> DataBits + 2, data |-> BitsOf(char % 2 ^ DataBits) \o <<1>>]
TxStart(char) ==
  [ready |-> ~tx.ready, txd |-> 0, busy |-> TRUE, wait |-> Cycles(BitTime - 1),
   count |-> DataBits + 1, data |-> BitsOf(char % 2 ^ DataBits) \o <<1>>]
\* Variant: ready is not raised again.
TxEdge_NeverReady(valid, char) ==
  CASE tx.wait > 0   -> [tx EXCEPT !.ready = FALSE, !.wait = @ - 1]
    [] tx.wait = 0 /\ tx.count = 0 ->
         IF valid THEN TxStart(char) ELSE [tx EXCEPT !.busy = FALSE]
    [] tx.wait = 0 /\ tx.count > 1 ->
         [tx EXCEPT !.count = @ - 1, !.wait = Cycles(BitTime - 1),
                    !.txd = Head(tx.data), !.data = Tail(@)]
    [] tx.wait = 0 /\ tx.count = 1 ->
         [tx EXCEPT !.count = 0, !.wait = BitTime, !.txd = 1, !.data = <<>>]
TxEdge(valid, char) ==
  CASE tx.wait > 0   -> [tx EXCEPT !.ready = FALSE, !.wait = @ - 1]
    [] tx.wait = 0 /\ tx.count = 0 ->
         IF valid THEN TxStart(char) ELSE [tx EXCEPT !.ready = TRUE, !.busy = FALSE]
    [] tx.wait = 0 /\ tx.count > 1 ->
         [tx EXCEPT !.count = @ - 1, !.wait = Cycles(BitTime - 1),
                    !.txd = Head(tx.data), !.data = Tail(@)]
    [] tx.wait = 0 /\ tx.count = 1 ->
         [tx EXCEPT !.count = 0, !.wait = BitTime, !.txd = 1, !.data = <<>>]

\* A frame ends in this cycle: with its stop bit, or without.
Sampling   == rx.wait = 0 /\ rx.count > 0
FrameEnds  == Sampling /\ rx.count = 1
Delivers   == FrameEnds /\ rx.rxd = 1

\* The start bit is looked at again half a bit after it was seen.
Sampled(r) ==
  CASE rx.count > DataBits + 1 ->
         IF rx.rxd = 0 THEN [r EXCEPT !.count = @ - 1, !.wait = Cycles(BitTime - 1)]
                       ELSE [r EXCEPT !.count = 0, !.wait = 0]
    [] rx.count \in 2 .. DataBits + 1 ->
         [r EXCEPT !.count = @ - 1, !.wait = Cycles(BitTime - 1), !.data = Append(@, rx.rxd)]
    [] rx.count = 1 /\ rx.rxd = 1 ->
         [r EXCEPT !.count = 0, !.tdata = CharOf(rx.data), !.valid = TRUE, !.overrun = rx.valid,
                   !.data = <<>>]
    [] rx.count = 1 /\ rx.rxd = 0 -> [r EXCEPT !.count = 0, !.frame = TRUE, !.data = <<>>]
RxEdge(line, ready) ==
  LET r == [rx EXCEPT !.rxd = line, !.overrun = FALSE, !.frame = FALSE,
                      !.valid = @ /\ ~ready]
  IN  CASE rx.wait > 0 -> [r EXCEPT !.wait = @ - 1]
        [] Sampling    -> Sampled(r)
        [] OTHER       -> IF rx.rxd = 0
                          THEN [r EXCEPT !.wait = Cycles(4 * prescale - 2), !.count = DataBits + 2,
                                         !.data = <<>>]
                          ELSE r

-----------------------------------------------------------------------------
(* The registers *)

WrSel(reg) == wr.en /\ wr.addr = reg
RdSel(reg) == rd.en /\ rd.addr = reg

\* A character written to a busy transmitter waits; reads never do.
WrWait   == WrSel("data") /\ ~tx.ready
WrAck    == wr.en /\ ~WrWait
TxValid  == WrSel("data") /\ tx.ready
\* Variant: any read takes the character.
DataReadFire_AnyRegister == rd.en
DataReadFire   == RdSel("data")
StatusReadFire == RdSel("status")
RxReady  == DataReadFire /\ rx.valid

Flag(n, f) == IF f THEN 2 ^ n ELSE 0
RegValue == CASE rd.addr = "data"     -> rx.tdata
              [] rd.addr = "status"   -> Flag(3, sticky.frame) + Flag(2, sticky.overrun)
                                            + Flag(1, rx.valid) + Flag(0, tx.busy)
              [] rd.addr = "prescale" -> prescale

\* Variant: set, then clear.
Sticky_ClearLast == [overrun |-> (rx.overrun \/ sticky.overrun) /\ ~StatusReadFire,
                     frame   |-> (rx.frame \/ sticky.frame) /\ ~StatusReadFire]
\* Clear, then set: a pulse in the cycle of the clearing read survives it.
Sticky == [overrun |-> rx.overrun \/ (sticky.overrun /\ ~StatusReadFire),
           frame   |-> rx.frame \/ (sticky.frame /\ ~StatusReadFire)]

Lines == IF loopback THEN {tx.txd} ELSE {0, 1}

Device(line) ==
  /\ tx' = TxEdge(TxValid, wr.data)
  /\ rx' = RxEdge(line, RxReady)
  /\ sticky' = Sticky
  /\ prescale' = IF WrSel("prescale") THEN wr.data ELSE prescale

-----------------------------------------------------------------------------
(* Software and the bus: one access at a time, its channels offered in any  *)
(* order and its response taken at any time                                 *)

NoAccess == [op |-> "none", reg |-> "data", value |-> 0]
Needs == CASE req.op = "write" -> {"aw", "w"}
           [] req.op = "read"  -> {"ar"}
           [] OTHER            -> {}

Handshakes == {c \in offered : \/ c = "aw" /\ AwReady(wr)
                               \/ c = "w" /\ WReady(wr)
                               \/ c = "ar" /\ ArReady(rd)}
Signals(take) == [awvalid |-> "aw" \in offered, wvalid |-> "w" \in offered,
                  arvalid |-> "ar" \in offered, bready |-> take, rready |-> take,
                  addr |-> req.reg, data |-> req.value]

RegisterInterface(take) ==
  /\ wr' = WrEdge(wr, Signals(take), WrWait, WrAck)
  /\ rd' = RdEdge(rd, Signals(take), FALSE, rd.en, RegValue)

NewAccess == /\ req' \in Accesses[loopback] \cup {NoAccess}
             /\ offered' = {} /\ taken' = {}

Responds == wr.b \/ rd.r
Master(take) ==
  IF req = NoAccess \/ (Responds /\ take) THEN NewAccess
  ELSE /\ req' = req
       /\ taken' = taken \cup Handshakes
       /\ \E more \in SUBSET (Needs \ (offered \cup taken)) :
            offered' = (offered \ Handshakes) \cup more

\* What the extra variables remember.
Acknowledged == WrSel("data") /\ WrDone(wr, WrAck)
Told == StatusReadFire /\ sticky.overrun
Bookkeeping ==
  /\ inFlight' = IF ~loopback THEN <<>>
                 ELSE (IF Delivers /\ inFlight # <<>> THEN Tail(inFlight) ELSE inFlight)
                        \o (IF Acknowledged THEN <<wr.data>> ELSE <<>>)
  /\ lost' = ((Delivers /\ rx.valid /\ ~RxReady) \/ (lost /\ ~Told))
  /\ promised' = IF StatusReadFire /\ rx.valid THEN TRUE
                 ELSE promised /\ ~RdSel("data")

Edge == /\ \E line \in Lines : Device(line)
        /\ \E take \in BOOLEAN : RegisterInterface(take) /\ Master(take)
        /\ Bookkeeping
        /\ UNCHANGED loopback

Init == /\ loopback \in DOMAIN Accesses
        /\ prescale = PrescaleInit
        /\ tx = TxReset /\ rx = RxReset
        /\ sticky = [overrun |-> FALSE, frame |-> FALSE]
        /\ wr = WrReset("data", 0) /\ rd = RdReset("data", 0)
        /\ req = NoAccess /\ offered = {} /\ taken = {}
        /\ inFlight = <<>> /\ lost = FALSE /\ promised = FALSE

Next == Edge
Spec == Init /\ [][Next]_vars
\* The clock runs.
FairSpec == Spec /\ WF_vars(Edge)
=============================================================================
