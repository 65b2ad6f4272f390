----------------------------- MODULE Interconnect ----------------------------
(***************************************************************************)
(* axil_interconnect.v and arbiter.v as soc.v sets them up: one master,    *)
(* several devices, one transaction at a time.  ic is a record of its      *)
(* registers; m is what the master drives, s what each device answers.     *)
(* Edge is one clock edge.  The response codes, which the master ignores,  *)
(* and prot, which no device looks at, are left out.                       *)
(***************************************************************************)
EXTENDS Integers, FiniteSets

CONSTANTS
  Devices,
  Base,         \* M_BASE_ADDR: the first word of a device's window
  Size          \* 2^M_ADDR_WIDTH: the words of its window

\* What the code checks at start: windows are aligned and do not overlap.
ASSUME MapAssumption ==
  /\ Base \in [Devices -> Nat] /\ Size \in [Devices -> Nat \ {0}]
  /\ \A d \in Devices : Base[d] % Size[d] = 0
  /\ \A d, e \in Devices : d # e => Base[d] + Size[d] <= Base[e] \/ Base[e] + Size[e] <= Base[d]

NoDevice == "none"
Window(d) == Base[d] .. Base[d] + Size[d] - 1
\* The device whose window has the address, compared above the window's width.
Target(addr) == IF \E d \in Devices : addr \div Size[d] = Base[d] \div Size[d]
                THEN CHOOSE d \in Devices : addr \div Size[d] = Base[d] \div Size[d]
                ELSE NoDevice

-----------------------------------------------------------------------------
(* The arbiter: the master's write channel and its read channel compete.   *)

NoGrant == "none"
Acknowledged(ic, m) == \/ ic.grant = "write" /\ ic.bvalid /\ m.bready
                       \/ ic.grant = "read" /\ ic.rvalid /\ m.rready
Asking(m) == {c \in {"write", "read"} : (c = "write" /\ m.awvalid) \/ (c = "read" /\ m.arvalid)}

\* Round robin, the write first; a grant is held until its response is taken.
Granted(ic, m) ==
  LET turn  == IF Asking(m) \cap ic.mask = {} THEN Asking(m) ELSE Asking(m) \cap ic.mask
      grant == IF "write" \in turn THEN "write" ELSE "read"
  IN  IF ic.grant # NoGrant /\ ~Acknowledged(ic, m)
      THEN [grant |-> ic.grant, mask |-> ic.mask]
      ELSE IF Asking(m) = {} THEN [grant |-> NoGrant, mask |-> ic.mask]
      ELSE [grant |-> grant, mask |-> IF grant = "write" THEN {"read"} ELSE {}]

-----------------------------------------------------------------------------
(* The state machine.  n is what the edge makes of the registers so far.   *)

\* A valid stays up until it is taken, everything else is raised for one cycle.
Defaults(ic, m, s) ==
  [ic EXCEPT !.grant = Granted(ic, m).grant, !.mask = Granted(ic, m).mask,
             !.awready = FALSE, !.wready = FALSE, !.arready = FALSE,
             !.bvalid = @ /\ ~m.bready, !.rvalid = @ /\ ~m.rready,
             !.mAw = {d \in @ : ~s[d].awready}, !.mW = {d \in @ : ~s[d].wready}, !.mB = {},
             !.mAr = {d \in @ : ~s[d].arready}, !.mR = {}]

IdleNext(ic, m, n) ==
  IF ic.grant = NoGrant THEN n
  ELSE [n EXCEPT !.addrValid = TRUE, !.addr = m.addr, !.state = "decode",
                 !.arready = ic.grant = "read", !.awready = ic.grant = "write"]

\* Variant: a read of no device returns what was read before.
DecodeNext_KeepsData(ic, n) ==
  LET d == Target(ic.addr)
  IN  CASE d # NoDevice /\ ic.grant = "read" ->
             [n EXCEPT !.select = d, !.mR = {d}, !.state = "read"]
        [] d # NoDevice /\ ic.grant # "read" ->
             [n EXCEPT !.select = d, !.wready = TRUE, !.state = "write"]
        [] d = NoDevice /\ ic.grant = "read" -> [n EXCEPT !.rvalid = TRUE, !.state = "waitIdle"]
        [] d = NoDevice /\ ic.grant # "read" -> [n EXCEPT !.wready = TRUE, !.state = "writeDrop"]
DecodeNext(ic, n) ==
  LET d == Target(ic.addr)
  IN  CASE d # NoDevice /\ ic.grant = "read" ->
             [n EXCEPT !.select = d, !.mR = {d}, !.state = "read"]
        [] d # NoDevice /\ ic.grant # "read" ->
             [n EXCEPT !.select = d, !.wready = TRUE, !.state = "write"]
        [] d = NoDevice /\ ic.grant = "read" ->
             [n EXCEPT !.data = {}, !.rvalid = TRUE, !.state = "waitIdle"]
        [] d = NoDevice /\ ic.grant # "read" ->
             [n EXCEPT !.data = {}, !.wready = TRUE, !.state = "writeDrop"]

\* The address goes on in the first cycle, the data when the master offers it.
\* Variant: the lanes are those of the transaction before.
WriteNext_StaleStrb(ic, m, n) ==
  LET offered == [n EXCEPT !.mAw = IF ic.addrValid THEN @ \cup {ic.select} ELSE @,
                           !.addrValid = FALSE]
  IN  IF ic.wready /\ m.wvalid
      THEN [offered EXCEPT !.data = m.data, !.mW = @ \cup {ic.select},
                           !.mB = {ic.select}, !.state = "writeResp"]
      ELSE [offered EXCEPT !.wready = TRUE]
WriteNext(ic, m, n) ==
  LET offered == [n EXCEPT !.mAw = IF ic.addrValid THEN @ \cup {ic.select} ELSE @,
                           !.addrValid = FALSE]
  IN  IF ic.wready /\ m.wvalid
      THEN [offered EXCEPT !.data = m.data, !.strb = m.strb, !.mW = @ \cup {ic.select},
                           !.mB = {ic.select}, !.state = "writeResp"]
      ELSE [offered EXCEPT !.wready = TRUE]

WriteRespNext(ic, s, n) ==
  IF ic.select \in ic.mB /\ s[ic.select].bvalid
  THEN [n EXCEPT !.bvalid = TRUE, !.state = "waitIdle"]
  ELSE [n EXCEPT !.mB = {ic.select}]

\* Variant: dropped data is never answered.
WriteDropNext_Silent(ic, m, n) ==
  IF ic.wready /\ m.wvalid
  THEN [n EXCEPT !.addrValid = FALSE, !.state = "waitIdle"]
  ELSE [n EXCEPT !.addrValid = FALSE, !.wready = TRUE]
WriteDropNext(ic, m, n) ==
  IF ic.wready /\ m.wvalid
  THEN [n EXCEPT !.addrValid = FALSE, !.bvalid = TRUE, !.state = "waitIdle"]
  ELSE [n EXCEPT !.addrValid = FALSE, !.wready = TRUE]

\* Variant: the address is offered until the response.
ReadNext_OffersAgain(ic, s, n) ==
  LET offered == [n EXCEPT !.mAr = @ \cup {ic.select}]
  IN  IF ic.select \in ic.mR /\ s[ic.select].rvalid
      THEN [offered EXCEPT !.data = s[ic.select].rdata, !.rvalid = TRUE, !.state = "waitIdle"]
      ELSE [offered EXCEPT !.mR = {ic.select}]
ReadNext(ic, s, n) ==
  LET offered == [n EXCEPT !.mAr = IF ic.addrValid THEN @ \cup {ic.select} ELSE @,
                           !.addrValid = FALSE]
  IN  IF ic.select \in ic.mR /\ s[ic.select].rvalid
      THEN [offered EXCEPT !.data = s[ic.select].rdata, !.rvalid = TRUE, !.state = "waitIdle"]
      ELSE [offered EXCEPT !.mR = {ic.select}]

WaitIdleNext(ic, m, n) ==
  IF ic.grant = NoGrant \/ Acknowledged(ic, m) THEN [n EXCEPT !.state = "idle"] ELSE n

IcEdge(ic, m, s) ==
  LET n == Defaults(ic, m, s)
  IN  CASE ic.state = "idle"      -> IdleNext(ic, m, n)
        [] ic.state = "decode"    -> DecodeNext(ic, n)
        [] ic.state = "write"     -> WriteNext(ic, m, n)
        [] ic.state = "writeResp" -> WriteRespNext(ic, s, n)
        [] ic.state = "writeDrop" -> WriteDropNext(ic, m, n)
        [] ic.state = "read"      -> ReadNext(ic, s, n)
        [] ic.state = "waitIdle"  -> WaitIdleNext(ic, m, n)

\* Address, data, strobes and selection have no reset.
IcReset(ic) ==
  [ic EXCEPT !.state = "idle", !.grant = NoGrant, !.mask = {},
             !.awready = FALSE, !.wready = FALSE, !.bvalid = FALSE, !.arready = FALSE,
             !.rvalid = FALSE, !.mAw = {}, !.mW = {}, !.mB = {}, !.mAr = {}, !.mR = {}]
IcInit(first) == IcReset(
  [state |-> "idle", grant |-> NoGrant, mask |-> {}, select |-> first, addr |-> 0,
   addrValid |-> FALSE, data |-> {}, strb |-> {}, awready |-> FALSE, wready |-> FALSE,
   bvalid |-> FALSE, arready |-> FALSE, rvalid |-> FALSE,
   mAw |-> {}, mW |-> {}, mB |-> {}, mAr |-> {}, mR |-> {}])
=============================================================================
