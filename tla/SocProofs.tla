------------------------------ MODULE SocProofs -----------------------------
(***************************************************************************)
(* Proofs about the system below the pipeline, for every memory, address   *)
(* map, set of accesses and number of resets.                              *)
(***************************************************************************)
EXTENDS SocProps, TLAPS

-----------------------------------------------------------------------------
(* The inductive invariant: where a transaction is.                        *)

\* The bus master and the interconnect, state by state.
Dialogue ==
  /\ state \in {"idle", "write", "wresp", "read"}
  /\ bready <=> state = "wresp"
  /\ rready <=> state = "read"
  /\ state = "idle" =>
       /\ ic.state = "idle" /\ ic.grant = NoGrant
       /\ ~awvalid /\ ~wvalid /\ ~arvalid
  /\ state = "write" =>
       /\ ic.state \in {"idle", "decode", "write", "writeDrop"}
       /\ ic.state = "idle" => ic.grant \in {NoGrant, "write"}
       /\ ic.state # "idle" => ic.grant = "write"
       /\ awvalid <=> ~awDone
       /\ awDone <=> ic.state \in {"write", "writeDrop"}
       /\ wvalid /\ ~wDone /\ ~arvalid
  /\ state = "wresp" =>
       /\ ic.state \in {"writeResp", "waitIdle"} /\ ic.grant = "write"
       /\ ~awvalid /\ ~wvalid /\ ~arvalid
  /\ state = "read" =>
       /\ ic.state \in {"idle", "decode", "read", "waitIdle"}
       /\ ic.state = "idle" => ic.grant \in {NoGrant, "read"}
       /\ ic.state # "idle" => ic.grant = "read"
       /\ arvalid <=> ic.state \in {"idle", "decode"}
       /\ ~awvalid /\ ~wvalid
  /\ ic.awready <=> state = "write" /\ ic.state = "decode"
  /\ ic.wready  <=> ic.state \in {"write", "writeDrop"}
  /\ ic.arready <=> state = "read" /\ ic.state = "decode"
  /\ ic.bvalid  <=> state = "wresp" /\ ic.state = "waitIdle"
  /\ ic.rvalid  <=> state = "read" /\ ic.state = "waitIdle"

\* The state machine works for the access in the MEM stage.
ForRequest ==
  /\ req \in Requests \cup {M!None}
  /\ state \in {"write", "wresp"} => req.op = "write"
  /\ state = "read" => req.op = "read"
  /\ state # "idle" /\ phase2 => M!Crosses

\* What the interconnect has latched is what the master offers, and its device
\* is the one that owns the address.
Routed ==
  /\ ic.state # "idle" => ic.addr = M!Addr
  /\ ic.state \in {"write", "writeResp", "read"} =>
       /\ ic.select = Target(ic.addr) /\ ic.select \in Devices /\ ic.select # NoDevice
  /\ ic.state = "writeDrop" => Target(ic.addr) = NoDevice
  /\ ic.state \in {"decode", "write"} => ic.addrValid
  /\ ic.state = "writeResp" => ~ic.addrValid /\ ic.data = ToBits(M!Wdata) /\ ic.strb = M!Wstrb

\* A device's port is at rest, except for the one selected while it works.
WrQuiet(d) == ~Device(d).wr.aw /\ ~Device(d).wr.w /\ ~Device(d).wr.b /\ ~Device(d).wr.en
RdQuiet(d) == ~Device(d).rd.ar /\ ~Device(d).rd.r /\ ~Device(d).rd.en
Working == ic.state \in {"writeResp", "read"}
AtRest == /\ \A d \in Devices : (Working /\ d = ic.select) \/ (WrQuiet(d) /\ RdQuiet(d))
          /\ ic.state # "writeResp" => ic.mAw = {} /\ ic.mW = {} /\ ic.mB = {}
          /\ ic.state # "read" => ic.mAr = {} /\ ic.mR = {}

\* A port strobes its register until the device has done it.
WrOn(d)  == Device(d).wr.aw /\ Device(d).wr.w /\ ~Device(d).wr.b /\ Device(d).wr.en
WrEnd(d) == ~Device(d).wr.aw /\ ~Device(d).wr.w /\ Device(d).wr.b /\ ~Device(d).wr.en
RdOn(d)  == Device(d).rd.ar /\ ~Device(d).rd.r /\ Device(d).rd.en
RdEnd(d) == ~Device(d).rd.ar /\ Device(d).rd.r /\ ~Device(d).rd.en

\* A write in the selected device's port: offered, strobed, answered.
WrOffered(d)  == ic.mAw = {d} /\ ic.mW = {d} /\ WrQuiet(d)
WrStrobed(d)  == /\ ic.mAw = {} /\ ic.mW = {} /\ WrOn(d)
                 /\ Device(d).wr.addr = Register(d, ic.addr)
                 /\ Device(d).wr.data = Payload(d, ic.data, ic.strb)
WrAnswered(d) == ic.mAw = {} /\ ic.mW = {} /\ WrEnd(d)
Writing(d) == /\ ic.mB = {d} /\ RdQuiet(d)
              /\ WrOffered(d) \/ WrStrobed(d) \/ WrAnswered(d)

\* A read: selected, offered, strobed, answered.
RdSelected(d) == ic.addrValid /\ ic.mAr = {} /\ RdQuiet(d)
RdOffered(d)  == ~ic.addrValid /\ ic.mAr = {d} /\ RdQuiet(d)
RdStrobed(d)  == /\ ~ic.addrValid /\ ic.mAr = {} /\ RdOn(d)
                 /\ Device(d).rd.addr = Register(d, ic.addr)
RdAnswered(d) == ~ic.addrValid /\ ic.mAr = {} /\ RdEnd(d)
Reading(d) == /\ ic.mR = {d} /\ WrQuiet(d)
              /\ RdSelected(d) \/ RdOffered(d) \/ RdStrobed(d) \/ RdAnswered(d)

AtWork == /\ ic.state = "writeResp" => Writing(ic.select)
          /\ ic.state = "read" => Reading(ic.select)

\* The fields of the interconnect's record.
Whole(i) == i = [state |-> i.state, grant |-> i.grant, mask |-> i.mask, select |-> i.select,
                 addr |-> i.addr, addrValid |-> i.addrValid, data |-> i.data, strb |-> i.strb,
                 awready |-> i.awready, wready |-> i.wready, bvalid |-> i.bvalid,
                 arready |-> i.arready, rvalid |-> i.rvalid, mAw |-> i.mAw, mW |-> i.mW,
                 mB |-> i.mB, mAr |-> i.mAr, mR |-> i.mR]

PathInv == Whole(ic) /\ Dialogue /\ ForRequest /\ Routed /\ AtRest /\ AtWork /\ resets \in Nat

-----------------------------------------------------------------------------
(* Memory *)

\* The write under way is in memory and not yet answered.
MemStruck == ic.state = "writeResp" /\ ic.select = "dmem" /\ WrEnd("dmem")
MemIndex == Register("dmem", ic.addr)

\* Memory changes when its port strobes, and its output register is a cycle late.
MemoryKept ==
  /\ dmem.words \in [MemIndexes -> SUBSET (0 .. 31)]
  /\ ~MemStruck => prior = dmem.words
  /\ MemStruck => /\ prior \in [MemIndexes -> SUBSET (0 .. 31)]
                  /\ dmem.words = [prior EXCEPT ![MemIndex] = Merge(@, ic.data, ic.strb)]
  /\ dmem.pending => dmem.rd.en /\ dmem.rdata = dmem.words[MemIndex]
  /\ dmem.rd.en => dmem.rd.timeout = Timeout - 1
  /\ dmem.rd.r => dmem.rd.data = dmem.words[MemIndex]
  /\ ic.rvalid /\ Target(ic.addr) = "dmem" => ic.data = dmem.words[MemIndex]

FabricInv == PathInv /\ MemoryKept

-----------------------------------------------------------------------------
(* The interconnect's edge, field by field *)

LEMMA DefaultsFields ==
  ASSUME NEW i, Whole(i), NEW m, NEW s
  PROVE  LET n == Defaults(i, m, s)
         IN  /\ Whole(n)
             /\ n.state = i.state /\ n.grant = Granted(i, m).grant /\ n.select = i.select
             /\ n.addr = i.addr /\ n.addrValid = i.addrValid /\ n.data = i.data
             /\ n.strb = i.strb
             /\ ~n.awready /\ ~n.wready /\ ~n.arready
             /\ n.bvalid <=> i.bvalid /\ ~m.bready
             /\ n.rvalid <=> i.rvalid /\ ~m.rready
             /\ n.mAw = {d \in i.mAw : ~s[d].awready} /\ n.mW = {d \in i.mW : ~s[d].wready}
             /\ n.mAr = {d \in i.mAr : ~s[d].arready}
             /\ n.mB = {} /\ n.mR = {}
<1> DEFINE g == Granted(i, m)
           aw == {d \in i.mAw : ~s[d].awready}
           w == {d \in i.mW : ~s[d].wready}
           ar == {d \in i.mAr : ~s[d].arready}
           b == i.bvalid /\ ~m.bready
           r == i.rvalid /\ ~m.rready
           n == Defaults(i, m, s)
<1>1. n = [i EXCEPT !.grant = g.grant, !.mask = g.mask,
             !.awready = FALSE, !.wready = FALSE, !.arready = FALSE,
             !.bvalid = b, !.rvalid = r,
             !.mAw = aw, !.mW = w, !.mB = {}, !.mAr = ar, !.mR = {}]
  BY Zenon DEF Defaults
<1>2. n.bvalid <=> i.bvalid /\ ~m.bready
  <2> HIDE DEF g, aw, w, ar, r, n
  <2>1. (n.bvalid) = b
    <3> HIDE DEF b
    <3> QED BY <1>1 DEF Whole
  <2> QED BY <2>1, Zenon
<1>3. n.rvalid <=> i.rvalid /\ ~m.rready
  <2> HIDE DEF g, aw, w, ar, b, n
  <2>1. (n.rvalid) = r
    <3> HIDE DEF r
    <3> QED BY <1>1 DEF Whole
  <2> QED BY <2>1, Zenon
<1>4. /\ Whole(n)
      /\ n.state = i.state /\ n.grant = g.grant /\ n.select = i.select
      /\ n.addr = i.addr /\ n.addrValid = i.addrValid /\ n.data = i.data
      /\ n.strb = i.strb
      /\ ~n.awready /\ ~n.wready /\ ~n.arready
      /\ n.mAw = aw /\ n.mW = w /\ n.mAr = ar /\ n.mB = {} /\ n.mR = {}
  <2> HIDE DEF g, aw, w, ar, b, r, n
  <2> QED BY <1>1 DEF Whole
<1> QED BY <1>2, <1>3, <1>4

\* What stays of a register that is only raised for one cycle, and of an offer.
Plain(i, m, s, n) ==
  /\ Whole(n) /\ n.grant = Granted(i, m).grant
  /\ n.mAw = {d \in i.mAw : ~s[d].awready} /\ n.mW = {d \in i.mW : ~s[d].wready}
  /\ n.mAr = {d \in i.mAr : ~s[d].arready}

LEMMA GrantHeld ==
  ASSUME NEW i, NEW m, i.grant # NoGrant, ~i.bvalid, ~i.rvalid
  PROVE  Granted(i, m).grant = i.grant
  BY DEF Granted, Acknowledged

LEMMA GrantGiven ==
  ASSUME NEW i, NEW m, i.grant = NoGrant
  PROVE  /\ ~m.awvalid /\ ~m.arvalid => Granted(i, m).grant = NoGrant
         /\ m.awvalid /\ ~m.arvalid => Granted(i, m).grant = "write"
         /\ ~m.awvalid /\ m.arvalid => Granted(i, m).grant = "read"
<1>1. ~m.awvalid /\ ~m.arvalid => Asking(m) = {}
  BY DEF Asking
<1>2. m.awvalid /\ ~m.arvalid => Asking(m) = {"write"}
  BY DEF Asking
<1>3. ~m.awvalid /\ m.arvalid => Asking(m) = {"read"}
  BY DEF Asking
<1> QED BY <1>1, <1>2, <1>3 DEF Granted

LEMMA GrantReturned ==
  ASSUME NEW i, NEW m, Acknowledged(i, m), ~m.awvalid, ~m.arvalid
  PROVE  Granted(i, m).grant = NoGrant
<1>1. Asking(m) = {}
  BY DEF Asking
<1> QED BY <1>1 DEF Granted

LEMMA IcIdle ==
  ASSUME NEW i, Whole(i), NEW m, NEW s, i.state = "idle", NEW n, n = IcEdge(i, m, s)
  PROVE  /\ Plain(i, m, s, n) /\ n.mB = {} /\ n.mR = {}
         /\ n.state = IF i.grant = NoGrant THEN "idle" ELSE "decode"
         /\ ~n.wready
         /\ n.awready <=> i.grant = "write"
         /\ n.arready <=> i.grant = "read"
         /\ n.bvalid <=> i.bvalid /\ ~m.bready
         /\ n.rvalid <=> i.rvalid /\ ~m.rready
         /\ i.grant # NoGrant => n.addr = m.addr /\ n.addrValid
<1> DEFINE f == Defaults(i, m, s)
<1>1. n = IdleNext(i, m, f)
  BY DEF IcEdge
<1>2. Plain(i, m, s, f) /\ f.mB = {} /\ f.mR = {} /\ f.state = "idle"
      /\ ~f.wready /\ ~f.awready /\ ~f.arready
      /\ (f.bvalid <=> i.bvalid /\ ~m.bready) /\ (f.rvalid <=> i.rvalid /\ ~m.rready)
  BY DefaultsFields DEF Plain
<1> HIDE DEF f
<1>3. CASE i.grant = NoGrant
  BY <1>1, <1>2, <1>3 DEF IdleNext, NoGrant
<1>4. CASE i.grant # NoGrant
  <2> DEFINE rd == i.grant = "read"
             wr == i.grant = "write"
  <2>1. n = [f EXCEPT !.addrValid = TRUE, !.addr = m.addr, !.state = "decode",
                      !.arready = rd, !.awready = wr]
    BY <1>1, <1>4 DEF IdleNext
  <2>2. (n.arready) = rd /\ (n.awready) = wr
    <3> HIDE DEF rd, wr
    <3> QED BY <1>2, <2>1 DEF Plain, Whole
  <2>3. /\ Whole(n) /\ n.grant = f.grant /\ n.mAw = f.mAw /\ n.mW = f.mW /\ n.mAr = f.mAr
        /\ n.mB = f.mB /\ n.mR = f.mR /\ n.state = "decode" /\ n.addrValid /\ n.addr = m.addr
        /\ (n.wready) = f.wready /\ (n.bvalid) = f.bvalid /\ (n.rvalid) = f.rvalid
    <3> HIDE DEF rd, wr
    <3> QED BY <1>2, <2>1 DEF Plain, Whole
  <2>4. Plain(i, m, s, n)
    BY <1>2, <2>3, Zenon DEF Plain
  <2> QED BY <1>2, <1>4, <2>2, <2>3, <2>4
<1> QED BY <1>3, <1>4

LEMMA IcDecode ==
  ASSUME NEW i, Whole(i), NEW m, NEW s, i.state = "decode", NEW n, n = IcEdge(i, m, s),
         i.grant \in {"write", "read"}
  PROVE  LET d == Target(i.addr)
         IN  /\ Plain(i, m, s, n) /\ n.mB = {} /\ n.addr = i.addr /\ (n.addrValid) = i.addrValid
             /\ ~n.awready /\ ~n.arready
             /\ n.bvalid <=> i.bvalid /\ ~m.bready
             /\ n.wready <=> i.grant = "write"
             /\ d # NoDevice => n.select = d
             /\ i.grant = "write" =>
                  /\ n.state = IF d # NoDevice THEN "write" ELSE "writeDrop"
                  /\ n.mR = {}
                  /\ n.rvalid <=> i.rvalid /\ ~m.rready
             /\ i.grant = "read" /\ d # NoDevice =>
                  /\ n.state = "read" /\ n.mR = {d}
                  /\ n.rvalid <=> i.rvalid /\ ~m.rready
             /\ i.grant = "read" /\ d = NoDevice =>
                  n.state = "waitIdle" /\ n.mR = {} /\ n.rvalid /\ n.data = {}
<1> DEFINE f == Defaults(i, m, s)
           d == Target(i.addr)
<1>1. n = DecodeNext(i, f)
  BY DEF IcEdge
<1>2. Plain(i, m, s, f) /\ f.mB = {} /\ f.mR = {} /\ f.addr = i.addr
      /\ ~f.wready /\ ~f.awready /\ ~f.arready /\ (f.addrValid) = i.addrValid
      /\ (f.bvalid <=> i.bvalid /\ ~m.bready) /\ (f.rvalid <=> i.rvalid /\ ~m.rready)
  BY DefaultsFields DEF Plain
<1>3. n = CASE d # NoDevice /\ i.grant = "read" ->
                 [f EXCEPT !.select = d, !.mR = {d}, !.state = "read"]
            [] d # NoDevice /\ i.grant # "read" ->
                 [f EXCEPT !.select = d, !.wready = TRUE, !.state = "write"]
            [] d = NoDevice /\ i.grant = "read" ->
                 [f EXCEPT !.data = {}, !.rvalid = TRUE, !.state = "waitIdle"]
            [] d = NoDevice /\ i.grant # "read" ->
                 [f EXCEPT !.data = {}, !.wready = TRUE, !.state = "writeDrop"]
  BY <1>1, Zenon DEF DecodeNext
<1> HIDE DEF f, d
<1>4. CASE d # NoDevice /\ i.grant = "read"
  <2>1. n = [f EXCEPT !.select = d, !.mR = {d}, !.state = "read"]
    BY <1>3, <1>4
  <2> QED BY ZenonT(60), <1>2, <1>4, <2>1 DEF Plain, Whole, d
<1>5. CASE d # NoDevice /\ i.grant = "write"
  <2>1. n = [f EXCEPT !.select = d, !.wready = TRUE, !.state = "write"]
    BY <1>3, <1>5
  <2> QED BY ZenonT(60), <1>2, <1>5, <2>1 DEF Plain, Whole, d
<1>6. CASE d = NoDevice /\ i.grant = "read"
  <2>1. n = [f EXCEPT !.data = {}, !.rvalid = TRUE, !.state = "waitIdle"]
    BY <1>3, <1>6
  <2> QED BY ZenonT(60), <1>2, <1>6, <2>1 DEF Plain, Whole, d
<1>7. CASE d = NoDevice /\ i.grant = "write"
  <2>1. n = [f EXCEPT !.data = {}, !.wready = TRUE, !.state = "writeDrop"]
    BY <1>3, <1>7
  <2> QED BY <1>2, <1>7, <2>1 DEF Plain, Whole, d
<1> QED BY <1>4, <1>5, <1>6, <1>7

LEMMA IcWrite ==
  ASSUME NEW i, Whole(i), NEW m, NEW s, i.state = "write", i.wready, i.addrValid, m.wvalid,
         i.mAw = {}, i.mW = {}, NEW n, n = IcEdge(i, m, s)
  PROVE  /\ Whole(n) /\ n.grant = Granted(i, m).grant /\ n.state = "writeResp"
         /\ n.select = i.select /\ n.addr = i.addr /\ ~n.addrValid
         /\ n.data = m.data /\ n.strb = m.strb
         /\ ~n.awready /\ ~n.wready /\ ~n.arready
         /\ n.bvalid <=> i.bvalid /\ ~m.bready
         /\ n.rvalid <=> i.rvalid /\ ~m.rready
         /\ n.mAw = {i.select} /\ n.mW = {i.select} /\ n.mB = {i.select}
         /\ n.mAr = {d \in i.mAr : ~s[d].arready} /\ n.mR = {}
<1> DEFINE f == Defaults(i, m, s)
           o == [f EXCEPT !.mAw = @ \cup {i.select}, !.addrValid = FALSE]
<1>1. n = WriteNext(i, m, f)
  BY DEF IcEdge
<1>2. n = [o EXCEPT !.data = m.data, !.strb = m.strb, !.mW = @ \cup {i.select},
                    !.mB = {i.select}, !.state = "writeResp"]
  BY <1>1, Zenon DEF WriteNext
<1>3. /\ Whole(f) /\ f.grant = Granted(i, m).grant /\ f.select = i.select /\ f.addr = i.addr
      /\ ~f.awready /\ ~f.wready /\ ~f.arready
      /\ (f.bvalid <=> i.bvalid /\ ~m.bready) /\ (f.rvalid <=> i.rvalid /\ ~m.rready)
      /\ f.mAr = {d \in i.mAr : ~s[d].arready} /\ f.mR = {}
      /\ f.mAw = {} /\ f.mW = {}
  BY DefaultsFields
<1>0. o = [f EXCEPT !.mAw = @ \cup {i.select}, !.addrValid = FALSE]
  OBVIOUS
<1> HIDE DEF f, o
<1>4. /\ Whole(o) /\ o.grant = f.grant /\ o.select = f.select /\ o.addr = f.addr
      /\ ~o.addrValid /\ o.mAw = {i.select} /\ o.mW = {} /\ o.mAr = f.mAr /\ o.mR = f.mR
      /\ (o.awready) = f.awready /\ (o.wready) = f.wready /\ (o.arready) = f.arready
      /\ (o.bvalid) = f.bvalid /\ (o.rvalid) = f.rvalid
  BY <1>0, <1>3 DEF Whole
<1>5. /\ Whole(n) /\ n.grant = o.grant /\ n.select = o.select /\ n.addr = o.addr
      /\ (n.addrValid) = o.addrValid /\ n.data = m.data /\ n.strb = m.strb
      /\ n.mAw = o.mAw /\ n.mW = {i.select} /\ n.mB = {i.select} /\ n.mAr = o.mAr /\ n.mR = o.mR
      /\ (n.awready) = o.awready /\ (n.wready) = o.wready /\ (n.arready) = o.arready
      /\ (n.bvalid) = o.bvalid /\ (n.rvalid) = o.rvalid /\ n.state = "writeResp"
  BY ZenonT(60), <1>2, <1>4 DEF Whole
<1> QED BY <1>3, <1>4, <1>5

LEMMA IcWriteResp ==
  ASSUME NEW i, Whole(i), NEW m, NEW s, i.state = "writeResp", i.select \in i.mB,
         NEW n, n = IcEdge(i, m, s)
  PROVE  /\ Plain(i, m, s, n)
         /\ n.select = i.select /\ n.addr = i.addr /\ (n.addrValid) = i.addrValid
         /\ n.data = i.data /\ n.strb = i.strb
         /\ ~n.awready /\ ~n.wready /\ ~n.arready
         /\ n.rvalid <=> i.rvalid /\ ~m.rready
         /\ n.mR = {}
         /\ s[i.select].bvalid => n.state = "waitIdle" /\ n.bvalid /\ n.mB = {}
         /\ ~s[i.select].bvalid => /\ n.state = "writeResp" /\ n.mB = {i.select}
                                   /\ n.bvalid <=> i.bvalid /\ ~m.bready
<1> DEFINE f == Defaults(i, m, s)
<1>1. n = WriteRespNext(i, s, f)
  BY DEF IcEdge
<1>2. /\ Plain(i, m, s, f) /\ f.select = i.select /\ f.addr = i.addr
      /\ (f.addrValid) = i.addrValid /\ f.data = i.data /\ f.strb = i.strb
      /\ ~f.awready /\ ~f.wready /\ ~f.arready
      /\ (f.bvalid <=> i.bvalid /\ ~m.bready) /\ (f.rvalid <=> i.rvalid /\ ~m.rready)
      /\ f.mB = {} /\ f.mR = {} /\ f.state = "writeResp"
  BY DefaultsFields DEF Plain
<1> HIDE DEF f
<1>3. CASE s[i.select].bvalid
  <2>1. n = [f EXCEPT !.bvalid = TRUE, !.state = "waitIdle"]
    BY <1>1, <1>3 DEF WriteRespNext
  <2> QED BY ZenonT(60), <1>2, <1>3, <2>1 DEF Plain, Whole
<1>4. CASE ~s[i.select].bvalid
  <2>1. n = [f EXCEPT !.mB = {i.select}]
    BY <1>1, <1>4 DEF WriteRespNext
  <2> QED BY <1>2, <1>4, <2>1 DEF Plain, Whole
<1> QED BY <1>3, <1>4

LEMMA IcWriteDrop ==
  ASSUME NEW i, Whole(i), NEW m, NEW s, i.state = "writeDrop", i.wready, m.wvalid,
         NEW n, n = IcEdge(i, m, s)
  PROVE  /\ Plain(i, m, s, n) /\ n.state = "waitIdle" /\ n.addr = i.addr
         /\ ~n.awready /\ ~n.wready /\ ~n.arready /\ n.bvalid
         /\ n.rvalid <=> i.rvalid /\ ~m.rready
         /\ n.mB = {} /\ n.mR = {}
<1> DEFINE f == Defaults(i, m, s)
<1>1. n = [f EXCEPT !.addrValid = FALSE, !.bvalid = TRUE, !.state = "waitIdle"]
  BY DEF IcEdge, WriteDropNext
<1>2. /\ Plain(i, m, s, f) /\ f.addr = i.addr
      /\ ~f.awready /\ ~f.wready /\ ~f.arready
      /\ (f.rvalid <=> i.rvalid /\ ~m.rready)
      /\ f.mB = {} /\ f.mR = {}
  BY DefaultsFields DEF Plain
<1> HIDE DEF f
<1> QED BY ZenonT(60), <1>1, <1>2 DEF Plain, Whole

LEMMA IcRead ==
  ASSUME NEW i, Whole(i), NEW m, NEW s, i.state = "read", i.select \in i.mR,
         NEW n, n = IcEdge(i, m, s)
  PROVE  /\ Whole(n) /\ n.grant = Granted(i, m).grant
         /\ n.select = i.select /\ n.addr = i.addr /\ ~n.addrValid /\ n.mB = {}
         /\ n.mAw = {d \in i.mAw : ~s[d].awready} /\ n.mW = {d \in i.mW : ~s[d].wready}
         /\ n.mAr = {d \in i.mAr : ~s[d].arready} \cup (IF i.addrValid THEN {i.select} ELSE {})
         /\ ~n.awready /\ ~n.wready /\ ~n.arready
         /\ n.bvalid <=> i.bvalid /\ ~m.bready
         /\ s[i.select].rvalid => /\ n.state = "waitIdle" /\ n.rvalid /\ n.mR = {}
                                  /\ n.data = s[i.select].rdata
         /\ ~s[i.select].rvalid => /\ n.state = "read" /\ n.mR = {i.select}
                                   /\ n.rvalid <=> i.rvalid /\ ~m.rready
<1> DEFINE f == Defaults(i, m, s)
           ar == IF i.addrValid THEN f.mAr \cup {i.select} ELSE f.mAr
           o == [f EXCEPT !.mAr = ar, !.addrValid = FALSE]
<1>1. n = ReadNext(i, s, f)
  BY DEF IcEdge
<1>2. n = IF s[i.select].rvalid
          THEN [o EXCEPT !.data = s[i.select].rdata, !.rvalid = TRUE, !.state = "waitIdle"]
          ELSE [o EXCEPT !.mR = {i.select}]
  BY <1>1, Zenon DEF ReadNext
<1>3. /\ Plain(i, m, s, f) /\ f.select = i.select /\ f.addr = i.addr
      /\ ~f.awready /\ ~f.wready /\ ~f.arready
      /\ (f.bvalid <=> i.bvalid /\ ~m.bready) /\ (f.rvalid <=> i.rvalid /\ ~m.rready)
      /\ f.mB = {} /\ f.mR = {} /\ f.state = "read"
  BY DefaultsFields DEF Plain
<1>4. ar = {d \in i.mAr : ~s[d].arready} \cup (IF i.addrValid THEN {i.select} ELSE {})
  BY <1>3 DEF Plain
<1>0. o = [f EXCEPT !.mAr = ar, !.addrValid = FALSE]
  OBVIOUS
<1> HIDE DEF f, ar, o
<1>5. /\ Whole(o) /\ o.grant = f.grant /\ o.select = f.select /\ o.addr = f.addr
      /\ ~o.addrValid /\ o.mAw = f.mAw /\ o.mW = f.mW /\ o.mAr = ar /\ o.mR = f.mR /\ o.mB = f.mB
      /\ (o.awready) = f.awready /\ (o.wready) = f.wready /\ (o.arready) = f.arready
      /\ (o.bvalid) = f.bvalid /\ (o.rvalid) = f.rvalid /\ o.state = f.state
  BY <1>0, <1>3 DEF Plain, Whole
<1>6. /\ Whole(n) /\ n.grant = o.grant /\ n.select = o.select /\ n.addr = o.addr
      /\ (n.addrValid) = o.addrValid
      /\ n.mAw = o.mAw /\ n.mW = o.mW /\ n.mB = o.mB /\ n.mAr = o.mAr
      /\ (n.awready) = o.awready /\ (n.wready) = o.wready /\ (n.arready) = o.arready
      /\ (n.bvalid) = o.bvalid
      /\ s[i.select].rvalid => /\ n.state = "waitIdle" /\ n.rvalid /\ n.mR = o.mR
                               /\ n.data = s[i.select].rdata
      /\ ~s[i.select].rvalid => /\ n.state = o.state /\ n.mR = {i.select}
                                /\ (n.rvalid) = o.rvalid
  BY ZenonT(60), <1>2, <1>5 DEF Whole
<1> QED BY <1>3, <1>4, <1>5, <1>6 DEF Plain

LEMMA IcWaitIdle ==
  ASSUME NEW i, Whole(i), NEW m, NEW s, i.state = "waitIdle", Acknowledged(i, m),
         NEW n, n = IcEdge(i, m, s)
  PROVE  /\ Plain(i, m, s, n) /\ n.state = "idle" /\ n.addr = i.addr
         /\ ~n.awready /\ ~n.wready /\ ~n.arready
         /\ n.bvalid <=> i.bvalid /\ ~m.bready
         /\ n.rvalid <=> i.rvalid /\ ~m.rready
         /\ n.mB = {} /\ n.mR = {}
<1> DEFINE f == Defaults(i, m, s)
<1>1. n = [f EXCEPT !.state = "idle"]
  BY DEF IcEdge, WaitIdleNext
<1>2. /\ Plain(i, m, s, f) /\ f.addr = i.addr
      /\ ~f.awready /\ ~f.wready /\ ~f.arready
      /\ (f.bvalid <=> i.bvalid /\ ~m.bready) /\ (f.rvalid <=> i.rvalid /\ ~m.rready)
      /\ f.mB = {} /\ f.mR = {}
  BY DefaultsFields DEF Plain
<1> HIDE DEF f
<1> QED BY <1>1, <1>2 DEF Plain, Whole

LEMMA IcResets ==
  ASSUME NEW i, Whole(i), NEW n, n = IcReset(i)
  PROVE  /\ Whole(n) /\ n.state = "idle" /\ n.grant = NoGrant
         /\ ~n.awready /\ ~n.wready /\ ~n.arready /\ ~n.bvalid /\ ~n.rvalid
         /\ n.mAw = {} /\ n.mW = {} /\ n.mB = {} /\ n.mAr = {} /\ n.mR = {}
  BY DEF IcReset, Whole

-----------------------------------------------------------------------------
(* The wires and the devices' ports *)

LEMMA MasterWires ==
  /\ FromMaster.awvalid <=> awvalid
  /\ FromMaster.wvalid <=> wvalid
  /\ FromMaster.bready <=> bready
  /\ FromMaster.arvalid <=> arvalid
  /\ FromMaster.rready <=> rready
  /\ FromMaster.addr = M!Addr /\ FromMaster.data = ToBits(M!Wdata)
  /\ FromMaster.strb = M!Wstrb
  BY DEF FromMaster

LEMMA DeviceWires ==
  ASSUME NEW d \in Devices
  PROVE  /\ FromDevices[d].awready <=> ~Device(d).wr.aw
         /\ FromDevices[d].wready <=> ~Device(d).wr.w
         /\ FromDevices[d].arready <=> ~Device(d).rd.ar
         /\ FromDevices[d].bvalid <=> Device(d).wr.b
         /\ FromDevices[d].rvalid <=> Device(d).rd.r
         /\ FromDevices[d].rdata = ReadBits(d, Device(d).rd.data)
<1> DEFINE f == FromDevices[d]
           aw == AwReady(Device(d).wr)
           w  == WReady(Device(d).wr)
           ar == ArReady(Device(d).rd)
           b  == Device(d).wr.b
           r  == Device(d).rd.r
           x  == ReadBits(d, Device(d).rd.data)
<1>1. f = [awready |-> aw, wready |-> w, arready |-> ar, bvalid |-> b, rvalid |-> r, rdata |-> x]
  BY Zenon DEF FromDevices
<1>2. /\ (f.awready) = aw /\ (f.wready) = w /\ (f.arready) = ar
      /\ (f.bvalid) = b /\ (f.rvalid) = r /\ f.rdata = x
  <2> HIDE DEF f, aw, w, ar, b, r, x
  <2> QED BY <1>1
<1> QED BY <1>2, Zenon DEF AwReady, WReady, ArReady

LEMMA BusWires ==
  ASSUME NEW d
  PROVE  /\ Bus(d).awvalid <=> d \in ic.mAw
         /\ Bus(d).wvalid <=> d \in ic.mW
         /\ Bus(d).bready <=> d \in ic.mB
         /\ Bus(d).arvalid <=> d \in ic.mAr
         /\ Bus(d).rready <=> d \in ic.mR
         /\ Bus(d).addr = Register(d, ic.addr)
         /\ Bus(d).data = Payload(d, ic.data, ic.strb)
<1> DEFINE f == Bus(d)
           aw == d \in ic.mAw
           w  == d \in ic.mW
           b  == d \in ic.mB
           ar == d \in ic.mAr
           r  == d \in ic.mR
           a  == Register(d, ic.addr)
           p  == Payload(d, ic.data, ic.strb)
<1>1. f = [awvalid |-> aw, wvalid |-> w, bready |-> b, arvalid |-> ar, rready |-> r,
           addr |-> a, data |-> p]
  BY Zenon DEF Bus
<1>2. /\ (f.awvalid) = aw /\ (f.wvalid) = w /\ (f.bready) = b
      /\ (f.arvalid) = ar /\ (f.rready) = r /\ f.addr = a /\ f.data = p
  <2> HIDE DEF f, aw, w, ar, b, r, a, p
  <2> QED BY <1>1
<1> QED BY <1>2, Zenon

\* A write port: at rest, offered both halves, strobing, answered.
LEMMA WrPort ==
  ASSUME NEW wr, NEW bus, NEW wait, NEW ack, NEW n, n = WrEdge(wr, bus, wait, ack)
  PROVE  /\ ~wr.aw /\ ~wr.w /\ ~wr.b /\ ~wr.en /\ ~bus.awvalid /\ ~bus.wvalid =>
              ~n.aw /\ ~n.w /\ ~n.b /\ ~n.en
         /\ ~wr.aw /\ ~wr.w /\ ~wr.b /\ ~wr.en /\ bus.awvalid /\ bus.wvalid =>
              n.aw /\ n.w /\ ~n.b /\ n.en /\ n.addr = bus.addr /\ n.data = bus.data
         /\ wr.aw /\ wr.w /\ ~wr.b /\ wr.en =>
              \/ /\ n.aw /\ n.w /\ ~n.b /\ n.en /\ n.addr = wr.addr /\ n.data = wr.data
                 /\ ~ack
              \/ ~n.aw /\ ~n.w /\ n.b /\ ~n.en
         /\ ~wr.aw /\ ~wr.w /\ ~wr.en /\ ~bus.awvalid /\ ~bus.wvalid /\ bus.bready =>
              ~n.aw /\ ~n.w /\ ~n.b /\ ~n.en
<1> DEFINE done == WrDone(wr, ack)
           aw == IF wr.aw THEN ~done ELSE bus.awvalid
           w  == IF wr.w THEN ~done ELSE bus.wvalid
           b  == done \/ (wr.b /\ ~bus.bready)
           en == aw /\ w /\ ~b
           t == Countdown(wr.aw, wr, wait)
           a == IF wr.aw THEN wr.addr ELSE bus.addr
           x == IF wr.w THEN wr.data ELSE bus.data
<1>1. n = [aw |-> aw, w |-> w, b |-> b, en |-> en, timeout |-> t,
           addr |-> a,
           data |-> x]
  BY Zenon DEF WrEdge
<1>2. n.aw = aw /\ n.w = w /\ (n.b) = b /\ (n.en) = en
      /\ n.addr = a
      /\ n.data = x
  <2> HIDE DEF aw, w, b, en, t, a, x
  <2> QED BY <1>1
<1>3. (~wr.en => ~done) /\ (wr.en /\ ack => done)
  BY DEF WrDone
<1> HIDE DEF done
<1> QED BY <1>2, <1>3

LEMMA RdPort ==
  ASSUME NEW rd, NEW bus, NEW wait, NEW ack, NEW value, NEW n,
         n = RdEdge(rd, bus, wait, ack, value)
  PROVE  /\ ~rd.ar /\ ~rd.r /\ ~rd.en /\ ~bus.arvalid => ~n.ar /\ ~n.r /\ ~n.en
         /\ ~rd.ar /\ ~rd.r /\ ~rd.en /\ bus.arvalid =>
              n.ar /\ ~n.r /\ n.en /\ n.addr = bus.addr /\ n.timeout = Timeout - 1
         /\ rd.ar /\ ~rd.r /\ rd.en =>
              \/ /\ n.ar /\ ~n.r /\ n.en /\ n.addr = rd.addr /\ ~ack /\ rd.timeout # 0
                 /\ wait => n.timeout = rd.timeout
              \/ ~n.ar /\ n.r /\ ~n.en /\ n.data = value /\ (ack \/ rd.timeout = 0)
         /\ ~rd.ar /\ ~rd.en /\ ~bus.arvalid /\ bus.rready => ~n.ar /\ ~n.r /\ ~n.en
<1> DEFINE done == RdDone(rd, ack)
           ar == IF rd.ar THEN ~done ELSE bus.arvalid
           r  == done \/ (rd.r /\ ~bus.rready)
           en == ar /\ ~r
           t == Countdown(rd.ar, rd, wait)
           a == IF rd.ar THEN rd.addr ELSE bus.addr
           x == IF done THEN value ELSE rd.data
<1>1. n = [ar |-> ar, r |-> r, en |-> en, timeout |-> t,
           addr |-> a,
           data |-> x]
  BY Zenon DEF RdEdge
<1>2. n.ar = ar /\ (n.r) = r /\ (n.en) = en /\ n.timeout = t
      /\ n.addr = a
      /\ n.data = x
  <2> HIDE DEF ar, r, en, t, a, x, done
  <2> QED BY <1>1
<1>3. done <=> rd.en /\ (ack \/ rd.timeout = 0)
  BY DEF RdDone
<1>4. /\ ~rd.en /\ ~rd.ar => t = Timeout - 1
      /\ rd.ar /\ wait => t = rd.timeout
  BY DEF Countdown
<1> HIDE DEF done, t
<1> QED BY <1>2, <1>3, <1>4

LEMMA DevicePorts ==
  ASSUME NEW busy, NEW sw, NEW value, ClockEdge(busy, sw, value), NEW d \in Devices
  PROVE  /\ \E wait, ack : Device(d)'.wr = WrEdge(Device(d).wr, Bus(d), wait, ack)
         /\ \E wait, ack, v : Device(d)'.rd = RdEdge(Device(d).rd, Bus(d), wait, ack, v)
<1>1. d \in {"dmem", "gpio", "uart", "timer"}
  BY SocAssumption
<1>2. CASE d = "dmem"
  <2>1. dmem'.wr = WrEdge(dmem.wr, Bus("dmem"), FALSE, dmem.wr.en)
        /\ dmem'.rd = RdEdge(dmem.rd, Bus("dmem"), MemReadWait(dmem), MemReadAck(dmem), dmem.rdata)
    BY DEF ClockEdge, MemEdge
  <2>2. Device(d) = dmem /\ Device(d)' = dmem'
    BY <1>2 DEF Device
  <2> QED BY <1>2, <2>1, <2>2, Zenon
<1>3. CASE d = "gpio"
  <2> DEFINE v == IF gpio.rd.addr = "led" THEN gpio.led ELSE sw
  <2>1. gpio'.wr = WrEdge(gpio.wr, Bus("gpio"), FALSE, gpio.wr.en)
        /\ gpio'.rd = RdEdge(gpio.rd, Bus("gpio"), FALSE, gpio.rd.en, v)
    BY DEF ClockEdge, GpioEdge
  <2>2. Device(d) = gpio /\ Device(d)' = gpio'
    BY <1>3 DEF Device
  <2> QED BY <1>3, <2>1, <2>2, Zenon
<1>4. CASE d = "uart"
  <2>1. uart'.wr = WrEdge(uart.wr, Bus("uart"), busy, uart.wr.en /\ ~busy)
        /\ uart'.rd = RdEdge(uart.rd, Bus("uart"), FALSE, uart.rd.en, value)
    BY DEF ClockEdge, UartPortEdge
  <2>2. Device(d) = uart /\ Device(d)' = uart'
    BY <1>4 DEF Device
  <2> QED BY <1>4, <2>1, <2>2, Zenon
<1>5. CASE d = "timer"
  <2> DEFINE v == Counters(timer)!ReadReg(timer.rd.addr)
             t == Counters(timer)!Mtime(TimerWrite(timer))
             c == Counters(timer)!Mtimecmp(TimerWrite(timer))
  <2>1. timer' = [wr |-> WrEdge(timer.wr, Bus("timer"), FALSE, timer.wr.en),
                  rd |-> RdEdge(timer.rd, Bus("timer"), FALSE, timer.rd.en, v),
                  mtime |-> t, mtimecmp |-> c]
    BY Zenon DEF ClockEdge, TimerDevEdge
  <2>2. timer'.wr = WrEdge(timer.wr, Bus("timer"), FALSE, timer.wr.en)
        /\ timer'.rd = RdEdge(timer.rd, Bus("timer"), FALSE, timer.rd.en, v)
    <3> HIDE DEF v, t, c
    <3> QED BY <2>1
  <2>3. Device(d) = timer /\ Device(d)' = timer'
    BY <1>5 DEF Device
  <2> HIDE DEF v
  <2> QED BY <1>5, <2>2, <2>3, Zenon
<1> QED BY <1>1, <1>2, <1>3, <1>4, <1>5

LEMMA WrSteps ==
  ASSUME NEW busy, NEW sw, NEW value, ClockEdge(busy, sw, value), NEW d \in Devices
  PROVE  /\ WrQuiet(d) /\ d \notin ic.mAw /\ d \notin ic.mW => WrQuiet(d)'
         /\ WrQuiet(d) /\ d \in ic.mAw /\ d \in ic.mW =>
              /\ WrOn(d)' /\ Device(d)'.wr.addr = Register(d, ic.addr)
              /\ Device(d)'.wr.data = Payload(d, ic.data, ic.strb)
         /\ WrOn(d) =>
              \/ /\ WrOn(d)' /\ Device(d)'.wr.addr = Device(d).wr.addr
                 /\ Device(d)'.wr.data = Device(d).wr.data
              \/ WrEnd(d)'
         /\ WrEnd(d) /\ d \notin ic.mAw /\ d \notin ic.mW /\ d \in ic.mB => WrQuiet(d)'
<1>1. PICK wait, ack : Device(d)'.wr = WrEdge(Device(d).wr, Bus(d), wait, ack)
  BY DevicePorts
<1>2. /\ Bus(d).awvalid <=> d \in ic.mAw
      /\ Bus(d).wvalid <=> d \in ic.mW
      /\ Bus(d).bready <=> d \in ic.mB
      /\ Bus(d).addr = Register(d, ic.addr)
      /\ Bus(d).data = Payload(d, ic.data, ic.strb)
  BY BusWires
<1> DEFINE wr == Device(d).wr
           bus == Bus(d)
           n == Device(d)'.wr
<1>3. /\ ~wr.aw /\ ~wr.w /\ ~wr.b /\ ~wr.en /\ ~bus.awvalid /\ ~bus.wvalid =>
           ~n.aw /\ ~n.w /\ ~n.b /\ ~n.en
      /\ ~wr.aw /\ ~wr.w /\ ~wr.b /\ ~wr.en /\ bus.awvalid /\ bus.wvalid =>
           n.aw /\ n.w /\ ~n.b /\ n.en /\ n.addr = bus.addr /\ n.data = bus.data
      /\ wr.aw /\ wr.w /\ ~wr.b /\ wr.en =>
           \/ n.aw /\ n.w /\ ~n.b /\ n.en /\ n.addr = wr.addr /\ n.data = wr.data
           \/ ~n.aw /\ ~n.w /\ n.b /\ ~n.en
      /\ ~wr.aw /\ ~wr.w /\ ~wr.en /\ ~bus.awvalid /\ ~bus.wvalid /\ bus.bready =>
           ~n.aw /\ ~n.w /\ ~n.b /\ ~n.en
  BY <1>1, WrPort
<1>4. /\ WrQuiet(d)' <=> ~n.aw /\ ~n.w /\ ~n.b /\ ~n.en
      /\ WrOn(d)' <=> n.aw /\ n.w /\ ~n.b /\ n.en
      /\ WrEnd(d)' <=> ~n.aw /\ ~n.w /\ n.b /\ ~n.en
  BY Zenon DEF WrQuiet, WrOn, WrEnd
<1>5. /\ WrQuiet(d) <=> ~wr.aw /\ ~wr.w /\ ~wr.b /\ ~wr.en
      /\ WrOn(d) <=> wr.aw /\ wr.w /\ ~wr.b /\ wr.en
      /\ WrEnd(d) <=> ~wr.aw /\ ~wr.w /\ wr.b /\ ~wr.en
  BY Zenon DEF WrQuiet, WrOn, WrEnd
<1> HIDE DEF wr, bus
<1> QED BY <1>2, <1>3, <1>4, <1>5, Zenon DEF wr, bus

LEMMA RdSteps ==
  ASSUME NEW busy, NEW sw, NEW value, ClockEdge(busy, sw, value), NEW d \in Devices
  PROVE  /\ RdQuiet(d) /\ d \notin ic.mAr => RdQuiet(d)'
         /\ RdQuiet(d) /\ d \in ic.mAr =>
              RdOn(d)' /\ Device(d)'.rd.addr = Register(d, ic.addr)
         /\ RdOn(d) =>
              \/ RdOn(d)' /\ Device(d)'.rd.addr = Device(d).rd.addr
              \/ RdEnd(d)'
         /\ RdEnd(d) /\ d \notin ic.mAr /\ d \in ic.mR => RdQuiet(d)'
<1>1. PICK wait, ack, v : Device(d)'.rd = RdEdge(Device(d).rd, Bus(d), wait, ack, v)
  BY DevicePorts
<1>2. /\ Bus(d).arvalid <=> d \in ic.mAr
      /\ Bus(d).rready <=> d \in ic.mR
      /\ Bus(d).addr = Register(d, ic.addr)
  BY BusWires
<1> DEFINE rd == Device(d).rd
           bus == Bus(d)
           n == Device(d)'.rd
<1>3. /\ ~rd.ar /\ ~rd.r /\ ~rd.en /\ ~bus.arvalid => ~n.ar /\ ~n.r /\ ~n.en
      /\ ~rd.ar /\ ~rd.r /\ ~rd.en /\ bus.arvalid =>
           n.ar /\ ~n.r /\ n.en /\ n.addr = bus.addr
      /\ rd.ar /\ ~rd.r /\ rd.en =>
           \/ n.ar /\ ~n.r /\ n.en /\ n.addr = rd.addr
           \/ ~n.ar /\ n.r /\ ~n.en
      /\ ~rd.ar /\ ~rd.en /\ ~bus.arvalid /\ bus.rready => ~n.ar /\ ~n.r /\ ~n.en
  BY <1>1, RdPort
<1>4. /\ RdQuiet(d)' <=> ~n.ar /\ ~n.r /\ ~n.en
      /\ RdOn(d)' <=> n.ar /\ ~n.r /\ n.en
      /\ RdEnd(d)' <=> ~n.ar /\ n.r /\ ~n.en
  BY Zenon DEF RdQuiet, RdOn, RdEnd
<1>5. /\ RdQuiet(d) <=> ~rd.ar /\ ~rd.r /\ ~rd.en
      /\ RdOn(d) <=> rd.ar /\ ~rd.r /\ rd.en
      /\ RdEnd(d) <=> ~rd.ar /\ rd.r /\ ~rd.en
  BY Zenon DEF RdQuiet, RdOn, RdEnd
<1> HIDE DEF rd, bus
<1> QED BY <1>2, <1>3, <1>4, <1>5, Zenon DEF rd, bus

-----------------------------------------------------------------------------
(* The bus master's turns *)

LEMMA SlaveWires ==
  /\ AsSlave(ic).bvalid <=> ic.bvalid
  /\ AsSlave(ic).rvalid <=> ic.rvalid
  /\ AsSlave(ic).rdata = IF ic.rvalid THEN ToBytes(ic.data) ELSE Zeros
<1> DEFINE answered == ic.bvalid
           aw == ic.state \in {"write", "writeDrop", "writeResp"} \/ answered
           w  == ic.state = "writeResp" \/ answered
           ar == ic.state = "read" \/ ic.rvalid
           a == IF aw \/ ar THEN ic.addr ELSE 0
           s == IF w THEN ic.strb ELSE {}
           b == IF w THEN ToBytes(ic.data) ELSE Zeros
           r == IF ic.rvalid THEN ToBytes(ic.data) ELSE Zeros
           rv == ic.rvalid
           f == AsSlave(ic)
<1>1. f = [aw |-> aw, w |-> w, ar |-> ar, bvalid |-> answered, rvalid |-> rv,
           addr |-> a, strb |-> s, data |-> b, rdata |-> r]
  BY Zenon DEF AsSlave
<1>2. (f.bvalid) = answered /\ (f.rvalid) = rv /\ f.rdata = r
  <2> HIDE DEF f, aw, w, ar, answered, rv, a, s, b, r
  <2> QED BY <1>1
<1> QED BY <1>2, Zenon

LEMMA Answered ==
  /\ M!PhaseDone <=> (state = "wresp" /\ ic.bvalid) \/ (state = "read" /\ ic.rvalid)
  /\ M!XferDone <=> M!PhaseDone /\ (~M!Crosses \/ phase2)
  /\ M!BusStall <=> req # M!None /\ ~M!XferDone
<1>1. /\ AsSlave(ic).bvalid <=> ic.bvalid
      /\ AsSlave(ic).rvalid <=> ic.rvalid
  BY SlaveWires
<1> QED BY <1>1, Zenon DEF M!PhaseDone, M!XferDone, M!BusStall

LEMMA Fires ==
  /\ M!AwFire(Channels) <=> awvalid /\ ic.awready
  /\ M!WFire(Channels) <=> wvalid /\ ic.wready
  /\ M!ArFire(Channels) <=> arvalid /\ ic.arready
  BY DEF M!AwFire, M!WFire, M!ArFire, Channels

\* What a request that stays keeps.
LEMMA RequestHeld ==
  ASSUME req' = req
  PROVE  /\ M!Crosses' <=> M!Crosses
         /\ M!AddrLo' = M!AddrLo /\ M!AddrHi' = M!AddrHi
         /\ phase2' = phase2 =>
              M!Addr' = M!Addr /\ M!Wdata' = M!Wdata /\ M!Wstrb' = M!Wstrb
  BY DEF M!Crosses, M!IsWord, M!IsHalf, M!Addr, M!AddrLo, M!AddrHi, M!Wdata, M!Wstrb,
         M!StrbLo, M!StrbHi, M!ByteEn, M!DataLo, M!DataHi, M!Shifted, M!Width

LEMMA RequestKind ==
  ASSUME NEW r \in Requests \cup {M!None}
  PROVE  r.op \in {"read", "write", "none"} /\ (r.op = "none" <=> r = M!None)
<1>1. CASE r = M!None
  BY <1>1 DEF M!None
<1>2. CASE r \in Requests
  <2>1. r \in M!Access
    BY <1>2, SocAssumption
  <2>2. r.op \in {"read", "write"}
    BY <2>1 DEF M!Access
  <2>3. M!None.op = "none"
    BY DEF M!None
  <2> QED BY <2>2, <2>3
<1> QED BY <1>1, <1>2

LEMMA IdleTurn ==
  ASSUME PathInv, NEW busy, NEW sw, NEW value, ClockEdge(busy, sw, value), state = "idle"
  PROVE  /\ ~phase2' /\ ~awDone' /\ ~wDone' /\ ~bready'
         /\ req = M!None => /\ state' = "idle" /\ ~awvalid' /\ ~wvalid' /\ ~arvalid' /\ ~rready'
                            /\ req' \in Requests \cup {M!None}
         /\ req # M!None => req' = req
         /\ req.op = "write" => state' = "write" /\ awvalid' /\ wvalid' /\ ~arvalid' /\ ~rready'
         /\ req.op = "read" => state' = "read" /\ ~awvalid' /\ ~wvalid' /\ arvalid' /\ rready'
<1>1. M!Idle /\ M!Stage
  BY DEF ClockEdge, M!Idle, M!Write, M!WResp, M!Read
<1>2. ~M!PhaseDone /\ (M!BusStall <=> req # M!None)
  BY Answered
<1>3. req.op \in {"read", "write", "none"} /\ (req.op = "none" <=> req = M!None)
  BY RequestKind DEF PathInv, ForRequest
<1>4. ~bready /\ ~rready /\ ~awvalid /\ ~wvalid /\ ~arvalid
  BY DEF PathInv, Dialogue
<1>5. /\ req = M!None => req' \in Requests \cup {M!None}
      /\ req # M!None => req' = req
  BY <1>1, <1>2 DEF M!Stage
<1> QED BY <1>1, <1>3, <1>4, <1>5 DEF M!Idle

LEMMA WriteTurn ==
  ASSUME PathInv, NEW busy, NEW sw, NEW value, ClockEdge(busy, sw, value), state = "write"
  PROVE  /\ req' = req /\ phase2' = phase2 /\ ~arvalid' /\ ~rready'
         /\ ic.state \in {"idle", "decode"} =>
              state' = "write" /\ wvalid' /\ ~wDone' /\ ~bready'
         /\ ic.state = "idle" => awvalid' /\ ~awDone'
         /\ ic.state = "decode" => ~awvalid' /\ awDone'
         /\ ic.state \in {"write", "writeDrop"} => state' = "wresp" /\ bready' /\ ~awvalid' /\ ~wvalid'
<1>1. M!Write(Channels) /\ M!Stage
  BY DEF ClockEdge, M!Idle, M!Write, M!WResp, M!Read
<1>2. ~M!PhaseDone /\ (M!BusStall <=> req # M!None)
  BY Answered
<1>3. req.op = "write" /\ req # M!None
  BY RequestKind DEF PathInv, ForRequest
<1>4. /\ ~bready /\ ~rready /\ wvalid /\ ~wDone /\ ~arvalid
      /\ awvalid <=> ~awDone
      /\ awDone <=> ic.state \in {"write", "writeDrop"}
      /\ ic.awready <=> ic.state = "decode"
      /\ ic.wready <=> ic.state \in {"write", "writeDrop"}
  BY DEF PathInv, Dialogue
<1>5. /\ M!AwFire(Channels) <=> awvalid /\ ic.awready
      /\ M!WFire(Channels) <=> wvalid /\ ic.wready
  BY Fires
<1>6. req' = req
  BY <1>1, <1>2, <1>3 DEF M!Stage
<1> QED BY <1>1, <1>4, <1>5, <1>6 DEF M!Write

LEMMA WRespTurn ==
  ASSUME PathInv, NEW busy, NEW sw, NEW value, ClockEdge(busy, sw, value), state = "wresp"
  PROVE  /\ ~arvalid' /\ ~rready' /\ wordLo' = wordLo
         /\ ic.state = "writeResp" =>
              /\ req' = req /\ phase2' = phase2 /\ state' = "wresp" /\ bready'
              /\ ~awvalid' /\ ~wvalid'
         /\ ic.state = "waitIdle" => ~bready'
         /\ ic.state = "waitIdle" /\ M!Crosses /\ ~phase2 =>
              /\ req' = req /\ phase2' /\ state' = "write" /\ awvalid' /\ wvalid'
              /\ ~awDone' /\ ~wDone'
         /\ ic.state = "waitIdle" /\ ~(M!Crosses /\ ~phase2) =>
              /\ state' = "idle" /\ ~awvalid' /\ ~wvalid' /\ phase2' = phase2
              /\ req' \in Requests \cup {M!None}
<1>1. M!WResp /\ M!Stage
  BY DEF ClockEdge, M!Idle, M!Write, M!WResp, M!Read
<1>2. req.op = "write" /\ req # M!None
  BY RequestKind DEF PathInv, ForRequest
<1>3. /\ bready /\ ~rready /\ ~awvalid /\ ~wvalid /\ ~arvalid
      /\ ic.bvalid <=> ic.state = "waitIdle"
      /\ ic.state \in {"writeResp", "waitIdle"}
  BY DEF PathInv, Dialogue
<1>4. /\ ic.state = "writeResp" => M!BusStall
      /\ ic.state = "waitIdle" => (M!BusStall <=> M!Crosses /\ ~phase2)
  BY <1>2, <1>3, Answered
<1>5. /\ M!BusStall => req' = req
      /\ ~M!BusStall => req' \in Requests \cup {M!None}
  BY <1>1 DEF M!Stage
<1>6. AsSlave(ic).bvalid <=> ic.bvalid
  BY SlaveWires
<1>7. CASE ic.state = "writeResp"
  BY <1>1, <1>3, <1>4, <1>5, <1>6, <1>7 DEF M!WResp, M!master
<1>8. CASE ic.state = "waitIdle"
  BY <1>1, <1>3, <1>4, <1>5, <1>6, <1>8 DEF M!WResp
<1> QED BY <1>3, <1>7, <1>8

LEMMA ReadTurn ==
  ASSUME PathInv, NEW busy, NEW sw, NEW value, ClockEdge(busy, sw, value), state = "read"
  PROVE  /\ ~awvalid' /\ ~wvalid' /\ ~bready'
         /\ ic.state # "waitIdle" =>
              /\ req' = req /\ phase2' = phase2 /\ state' = "read" /\ rready'
              /\ wordLo' = wordLo
         /\ ic.state = "idle" => arvalid'
         /\ ic.state \in {"decode", "read"} => ~arvalid'
         /\ ic.state = "waitIdle" /\ M!Crosses /\ ~phase2 =>
              /\ req' = req /\ phase2' /\ state' = "read" /\ rready' /\ arvalid'
              /\ wordLo' = ToBytes(ic.data)
         /\ ic.state = "waitIdle" /\ ~(M!Crosses /\ ~phase2) =>
              /\ state' = "idle" /\ ~arvalid' /\ ~rready' /\ phase2' = phase2
              /\ req' \in Requests \cup {M!None}
<1>1. M!Read(Channels) /\ M!Stage
  BY DEF ClockEdge, M!Idle, M!Write, M!WResp, M!Read
<1>2. req.op = "read" /\ req # M!None
  BY RequestKind DEF PathInv, ForRequest
<1>3. /\ rready /\ ~bready /\ ~awvalid /\ ~wvalid
      /\ ic.rvalid <=> ic.state = "waitIdle"
      /\ ic.arready <=> ic.state = "decode"
      /\ arvalid <=> ic.state \in {"idle", "decode"}
      /\ ic.state \in {"idle", "decode", "read", "waitIdle"}
  BY DEF PathInv, Dialogue
<1>4. /\ ic.state # "waitIdle" => M!BusStall
      /\ ic.state = "waitIdle" => (M!BusStall <=> M!Crosses /\ ~phase2)
  BY <1>2, <1>3, Answered
<1>5. /\ M!BusStall => req' = req
      /\ ~M!BusStall => req' \in Requests \cup {M!None}
  BY <1>1 DEF M!Stage
<1>6. /\ AsSlave(ic).rvalid <=> ic.rvalid
      /\ AsSlave(ic).rdata = IF ic.rvalid THEN ToBytes(ic.data) ELSE Zeros
  BY SlaveWires
<1>7. M!ArFire(Channels) <=> arvalid /\ ic.arready
  BY Fires
<1>8. CASE ic.state = "waitIdle"
  BY <1>1, <1>3, <1>4, <1>5, <1>6, <1>7, <1>8 DEF M!Read
<1>9. CASE ic.state # "waitIdle"
  BY <1>1, <1>3, <1>4, <1>5, <1>6, <1>7, <1>9 DEF M!Read
<1> QED BY <1>8, <1>9

-----------------------------------------------------------------------------
(* The path of a transaction *)

LEMMA PortsRest ==
  ASSUME PathInv, NEW busy, NEW sw, NEW value, ClockEdge(busy, sw, value),
         NEW d \in Devices, ~(Working /\ d = ic.select)
  PROVE  WrQuiet(d)' /\ RdQuiet(d)'
<1>1. WrQuiet(d) /\ RdQuiet(d)
  BY DEF PathInv, AtRest
<1>2. d \notin ic.mAw /\ d \notin ic.mW /\ d \notin ic.mAr
  <2>1. CASE ~Working
    BY <2>1 DEF PathInv, AtRest, Working
  <2>2. CASE ic.state = "writeResp"
    <3>1. d # ic.select /\ ic.state # "read"
      BY <2>2 DEF Working
    <3> QED BY <2>2, <3>1 DEF PathInv, AtRest, AtWork, Writing, WrOffered, WrStrobed, WrAnswered
  <2>3. CASE ic.state = "read"
    <3>1. d # ic.select /\ ic.state # "writeResp"
      BY <2>3 DEF Working
    <3> QED BY <2>3, <3>1 DEF PathInv, AtRest, AtWork, Reading, RdSelected, RdOffered, RdStrobed,
                              RdAnswered
  <2> QED BY <2>1, <2>2, <2>3 DEF Working
<1> QED BY <1>1, <1>2, WrSteps, RdSteps

\* The interconnect's outputs to the devices are down.
NoOffers(i) == i.mAw = {} /\ i.mW = {} /\ i.mB = {} /\ i.mAr = {} /\ i.mR = {}

LEMMA Settled ==
  ASSUME NoOffers(ic'), ic'.state \notin {"writeResp", "read"},
         \A d \in Devices : WrQuiet(d)' /\ RdQuiet(d)'
  PROVE  AtRest' /\ AtWork'
  BY DEF AtRest, AtWork, NoOffers, Working

LEMMA AllRest ==
  ASSUME PathInv, NEW busy, NEW sw, NEW value, ClockEdge(busy, sw, value), ~Working
  PROVE  \A d \in Devices : WrQuiet(d)' /\ RdQuiet(d)'
  BY PortsRest

LEMMA NothingOffered ==
  ASSUME PathInv, ~Working
  PROVE  ic.mAw = {} /\ ic.mW = {} /\ ic.mAr = {}
  BY DEF PathInv, AtRest, Working

\* No transaction: the interconnect waits in idle.
LEMMA RestTurn ==
  ASSUME PathInv, NEW busy, NEW sw, NEW value, ClockEdge(busy, sw, value), state = "idle"
  PROVE  /\ PathInv'
         /\ ic'.state = "idle" /\ ~phase2'
<1>1. /\ ic.state = "idle" /\ ic.grant = NoGrant /\ ~awvalid /\ ~arvalid
      /\ ~ic.bvalid /\ ~ic.rvalid /\ Whole(ic) /\ ~Working
  BY DEF PathInv, Dialogue, Working
<1>2. /\ ic' = IcEdge(ic, FromMaster, FromDevices) /\ resets' = resets
  BY DEF ClockEdge
<1>3. /\ ~FromMaster.awvalid /\ ~FromMaster.arvalid
  BY <1>1, MasterWires
<1>4. Granted(ic, FromMaster).grant = NoGrant
  BY <1>1, <1>3, GrantGiven
<1>5. /\ Whole(ic') /\ ic'.state = "idle" /\ ic'.grant = NoGrant /\ NoOffers(ic')
      /\ ~ic'.awready /\ ~ic'.wready /\ ~ic'.arready /\ ~ic'.bvalid /\ ~ic'.rvalid
  BY <1>1, <1>2, <1>4, IcIdle, NothingOffered DEF Plain, NoOffers, NoGrant
<1>6. AtRest' /\ AtWork'
  BY <1>1, <1>5, AllRest, Settled
<1>7. /\ ~phase2' /\ ~awDone' /\ ~wDone' /\ ~bready' /\ req \in Requests \cup {M!None}
      /\ req = M!None => /\ state' = "idle" /\ ~awvalid' /\ ~wvalid' /\ ~arvalid' /\ ~rready'
                         /\ req' \in Requests \cup {M!None}
      /\ req # M!None => req' = req
      /\ req.op = "write" => state' = "write" /\ awvalid' /\ wvalid' /\ ~arvalid' /\ ~rready'
      /\ req.op = "read" => state' = "read" /\ ~awvalid' /\ ~wvalid' /\ arvalid' /\ rready'
  BY IdleTurn DEF PathInv, ForRequest
<1>8. req.op \in {"read", "write", "none"} /\ (req.op = "none" <=> req = M!None)
  BY <1>7, RequestKind
<1>9. Dialogue'
  BY <1>5, <1>7, <1>8 DEF Dialogue, NoGrant
<1>10. ForRequest'
  BY <1>7, <1>8 DEF ForRequest
<1>11. Routed'
  BY <1>5 DEF Routed
<1>12. resets' \in Nat
  BY <1>2 DEF PathInv
<1> QED BY <1>5, <1>6, <1>7, <1>9, <1>10, <1>11, <1>12 DEF PathInv

\* The arbiter's cycle.
LEMMA GrantTurn ==
  ASSUME PathInv, NEW busy, NEW sw, NEW value, ClockEdge(busy, sw, value), state # "idle",
         ic.state = "idle", ic.grant = NoGrant
  PROVE  /\ PathInv'
         /\ req' = req /\ phase2' = phase2 /\ state' = state /\ ic'.state = "idle"
<1>1. /\ state \in {"write", "read"} /\ Whole(ic) /\ ~Working
      /\ ~ic.bvalid /\ ~ic.rvalid
      /\ state = "write" => awvalid /\ ~arvalid
      /\ state = "read" => ~awvalid /\ arvalid
  BY DEF PathInv, Dialogue, Working
<1>2. /\ ic' = IcEdge(ic, FromMaster, FromDevices) /\ resets' = resets
  BY DEF ClockEdge
<1>3. Granted(ic, FromMaster).grant = state
  BY <1>1, GrantGiven, MasterWires
<1>4. /\ Whole(ic') /\ ic'.state = "idle" /\ ic'.grant = state /\ NoOffers(ic')
      /\ ~ic'.awready /\ ~ic'.wready /\ ~ic'.arready /\ ~ic'.bvalid /\ ~ic'.rvalid
  BY <1>1, <1>2, <1>3, IcIdle, NothingOffered DEF Plain, NoOffers, NoGrant
<1>5. AtRest' /\ AtWork'
  BY <1>1, <1>4, AllRest, Settled
<1>6. /\ req' = req /\ phase2' = phase2 /\ state' = state
      /\ state = "write" => /\ ~arvalid' /\ ~rready' /\ wvalid' /\ ~wDone' /\ ~bready'
                            /\ awvalid' /\ ~awDone'
      /\ state = "read" => ~awvalid' /\ ~wvalid' /\ ~bready' /\ arvalid' /\ rready'
  BY <1>1, WriteTurn, ReadTurn
<1>7. Dialogue'
  BY <1>1, <1>4, <1>6 DEF Dialogue, NoGrant
<1>8. ForRequest'
  BY <1>1, <1>6, RequestHeld DEF ForRequest, PathInv
<1>9. Routed'
  BY <1>4 DEF Routed
<1>10. resets' \in Nat
  BY <1>2 DEF PathInv
<1> QED BY <1>4, <1>5, <1>6, <1>7, <1>8, <1>9, <1>10 DEF PathInv

\* The address is latched and its ready raised for a cycle.
LEMMA AddressTurn ==
  ASSUME PathInv, NEW busy, NEW sw, NEW value, ClockEdge(busy, sw, value), state # "idle",
         ic.state = "idle", ic.grant # NoGrant
  PROVE  /\ PathInv'
         /\ req' = req /\ phase2' = phase2 /\ state' = state /\ ic'.state = "decode"
<1>1. /\ state \in {"write", "read"} /\ Whole(ic) /\ ~Working /\ ic.grant = state
      /\ ~ic.bvalid /\ ~ic.rvalid
  BY DEF PathInv, Dialogue, Working
<1>2. /\ ic' = IcEdge(ic, FromMaster, FromDevices) /\ resets' = resets
  BY DEF ClockEdge
<1>3. Granted(ic, FromMaster).grant = state
  BY <1>1, GrantHeld
<1>4. /\ Whole(ic') /\ ic'.state = "decode" /\ ic'.grant = state /\ NoOffers(ic')
      /\ ic'.awready <=> state = "write"
      /\ ic'.arready <=> state = "read"
      /\ ~ic'.wready /\ ~ic'.bvalid /\ ~ic'.rvalid
      /\ ic'.addr = M!Addr /\ ic'.addrValid
  BY <1>1, <1>2, <1>3, IcIdle, NothingOffered, MasterWires DEF Plain, NoOffers, NoGrant
<1>5. AtRest' /\ AtWork'
  BY <1>1, <1>4, AllRest, Settled
<1>6. /\ req' = req /\ phase2' = phase2 /\ state' = state
      /\ state = "write" => /\ ~arvalid' /\ ~rready' /\ wvalid' /\ ~wDone' /\ ~bready'
                            /\ awvalid' /\ ~awDone'
      /\ state = "read" => ~awvalid' /\ ~wvalid' /\ ~bready' /\ arvalid' /\ rready'
  BY <1>1, WriteTurn, ReadTurn
<1>7. Dialogue'
  BY <1>1, <1>4, <1>6 DEF Dialogue, NoGrant
<1>8. ForRequest'
  BY <1>1, <1>6, RequestHeld DEF ForRequest, PathInv
<1>9. Routed'
  BY <1>4, <1>6, RequestHeld DEF Routed
<1>10. resets' \in Nat
  BY <1>2 DEF PathInv
<1> QED BY <1>4, <1>5, <1>6, <1>7, <1>8, <1>9, <1>10 DEF PathInv

LEMMA TargetDevice ==
  ASSUME NEW a, Target(a) # NoDevice
  PROVE  Target(a) \in Devices /\ a \div Size[Target(a)] = Base[Target(a)] \div Size[Target(a)]
  BY DEF Target

\* The device is selected, or there is none.
LEMMA DecodeTurn ==
  ASSUME PathInv, NEW busy, NEW sw, NEW value, ClockEdge(busy, sw, value), ic.state = "decode"
  PROVE  /\ PathInv'
         /\ req' = req /\ phase2' = phase2 /\ state' = state /\ state \in {"write", "read"}
         /\ ic'.addr = ic.addr
         /\ ic'.state = IF state = "write" THEN IF Target(ic.addr) # NoDevice THEN "write" ELSE "writeDrop"
                                           ELSE IF Target(ic.addr) # NoDevice THEN "read" ELSE "waitIdle"
         /\ ic'.state = "waitIdle" => ic'.data = {}
         /\ ic'.state = "read" => RdSelected(ic.select)'
<1> DEFINE d == Target(ic.addr)
<1>1. /\ state \in {"write", "read"} /\ Whole(ic) /\ ~Working /\ ic.grant = state
      /\ ~ic.bvalid /\ ~ic.rvalid /\ ic.addr = M!Addr
  BY DEF PathInv, Dialogue, Working, Routed
<1>2. /\ ic' = IcEdge(ic, FromMaster, FromDevices) /\ resets' = resets
  BY DEF ClockEdge
<1>3. Granted(ic, FromMaster).grant = state
  BY <1>1, GrantHeld DEF NoGrant
<1>4. d # NoDevice => d \in Devices
  BY TargetDevice
<1>5. ic.addrValid
  BY DEF PathInv, Routed
<1>6. /\ Whole(ic') /\ ic'.grant = state
      /\ ic'.mAw = {} /\ ic'.mW = {} /\ ic'.mB = {} /\ ic'.mAr = {}
      /\ ic'.addr = ic.addr /\ ic'.addrValid
      /\ ~ic'.awready /\ ~ic'.arready /\ ~ic'.bvalid
      /\ ic'.wready <=> state = "write"
      /\ d # NoDevice => ic'.select = d
      /\ state = "write" => /\ ic'.state = IF d # NoDevice THEN "write" ELSE "writeDrop"
                            /\ ic'.mR = {} /\ ~ic'.rvalid
      /\ state = "read" /\ d # NoDevice => ic'.state = "read" /\ ic'.mR = {d} /\ ~ic'.rvalid
      /\ state = "read" /\ d = NoDevice => /\ ic'.state = "waitIdle" /\ ic'.mR = {} /\ ic'.rvalid
                                           /\ ic'.data = {}
  BY <1>1, <1>2, <1>3, <1>5, IcDecode, NothingOffered DEF Plain
<1> HIDE DEF d
<1>7. \A e \in Devices : WrQuiet(e)' /\ RdQuiet(e)'
  BY <1>1, AllRest
<1>8. /\ req' = req /\ phase2' = phase2 /\ state' = state
      /\ state = "write" => /\ ~arvalid' /\ ~rready' /\ wvalid' /\ ~wDone' /\ ~bready'
                            /\ ~awvalid' /\ awDone'
      /\ state = "read" => ~awvalid' /\ ~wvalid' /\ ~bready' /\ ~arvalid' /\ rready'
  BY <1>1, WriteTurn, ReadTurn
<1>9. AtRest' /\ AtWork' /\ (ic'.state = "read" => RdSelected(ic.select)')
  <2>1. CASE state = "read" /\ d # NoDevice
    <3>1. AtRest'
      BY <1>1, <1>6, <1>7, <2>1 DEF AtRest, Working
    <3>2. PICK e \in Devices : e = d
      BY <1>4, <2>1
    <3>3. Reading(e)' /\ RdSelected(e)'
      BY <1>1, <1>6, <1>7, <2>1, <3>2 DEF Reading, RdSelected
    <3>4. ic'.select = e
      BY <1>1, <1>6, <2>1, <3>2
    <3>5. Reading(ic.select)' /\ RdSelected(ic.select)'
      BY <3>3, <3>4 DEF Reading, RdSelected, WrQuiet, RdQuiet, Device, RdOffered, RdStrobed,
                        RdAnswered, RdOn, RdEnd
    <3> QED BY <1>1, <1>6, <2>1, <3>1, <3>5 DEF AtWork
  <2>2. CASE ~(state = "read" /\ d # NoDevice)
    <3>1. ic'.state \in {"write", "writeDrop", "waitIdle"} /\ NoOffers(ic')
      BY <1>1, <1>6, <2>2 DEF NoOffers
    <3> QED BY <1>7, <3>1, Settled
  <2> QED BY <2>1, <2>2
<1>10. Dialogue'
  BY <1>1, <1>6, <1>8 DEF Dialogue, NoGrant
<1>11. ForRequest'
  BY <1>1, <1>8, RequestHeld DEF ForRequest, PathInv
<1>12. Routed'
  <2>1. ic'.addr = M!Addr'
    BY <1>1, <1>6, <1>8, RequestHeld
  <2>2. Target(ic.addr)' = d
    BY <1>6 DEF d, Target
  <2> QED BY <1>1, <1>4, <1>6, <2>1, <2>2 DEF Routed
<1>13. resets' \in Nat
  BY <1>2 DEF PathInv
<1> QED BY <1>1, <1>6, <1>8, <1>9, <1>10, <1>11, <1>12, <1>13 DEF PathInv, d

\* The data arrives: both halves of the write are offered to the device.
LEMMA DataTurn ==
  ASSUME PathInv, NEW busy, NEW sw, NEW value, ClockEdge(busy, sw, value), ic.state = "write"
  PROVE  /\ PathInv'
         /\ req' = req /\ phase2' = phase2 /\ state = "write" /\ state' = "wresp"
         /\ ic'.state = "writeResp" /\ ic'.addr = ic.addr /\ ic'.select = ic.select
         /\ ic'.data = ToBits(M!Wdata) /\ ic'.strb = M!Wstrb /\ WrOffered(ic.select)'
<1>1. /\ state = "write" /\ Whole(ic) /\ ~Working /\ ic.grant = "write"
      /\ ~ic.bvalid /\ ~ic.rvalid /\ ic.addr = M!Addr /\ ic.wready /\ wvalid
      /\ ic.addrValid /\ ic.select = Target(ic.addr) /\ ic.select \in Devices
      /\ ic.select # NoDevice
  BY DEF PathInv, Dialogue, Working, Routed
<1>2. /\ ic' = IcEdge(ic, FromMaster, FromDevices) /\ resets' = resets
  BY DEF ClockEdge
<1>3. Granted(ic, FromMaster).grant = "write"
  BY <1>1, GrantHeld DEF NoGrant
<1>4. /\ Whole(ic') /\ ic'.grant = "write" /\ ic'.state = "writeResp"
      /\ ic'.select = ic.select /\ ic'.addr = ic.addr /\ ~ic'.addrValid
      /\ ic'.data = ToBits(M!Wdata) /\ ic'.strb = M!Wstrb
      /\ ~ic'.awready /\ ~ic'.wready /\ ~ic'.arready /\ ~ic'.bvalid /\ ~ic'.rvalid
      /\ ic'.mAw = {ic.select} /\ ic'.mW = {ic.select} /\ ic'.mB = {ic.select}
      /\ ic'.mAr = {} /\ ic'.mR = {}
  BY <1>1, <1>2, <1>3, IcWrite, NothingOffered, MasterWires
<1>5. \A e \in Devices : WrQuiet(e)' /\ RdQuiet(e)'
  BY <1>1, AllRest
<1>6. /\ req' = req /\ phase2' = phase2 /\ state' = "wresp" /\ bready'
      /\ ~arvalid' /\ ~rready' /\ ~awvalid' /\ ~wvalid'
  BY <1>1, WriteTurn
<1>7. AtRest'
  BY <1>4, <1>5 DEF AtRest
<1>8. WrOffered(ic.select)' /\ Writing(ic.select)'
  <2>1. PICK e \in Devices : e = ic.select
    BY <1>1
  <2>2. ic'.select = e
    BY <1>4, <2>1
  <2>3. WrQuiet(ic.select)' /\ RdQuiet(ic.select)'
    BY <1>5, <2>2 DEF WrQuiet, RdQuiet, Device
  <2> QED BY <1>4, <2>3 DEF WrOffered, Writing
<1>9. AtWork'
  BY <1>4, <1>8 DEF AtWork
<1>10. Dialogue'
  BY <1>4, <1>6 DEF Dialogue, NoGrant
<1>11. ForRequest'
  BY <1>1, <1>6, RequestHeld DEF ForRequest, PathInv
<1>12. Routed'
  <2>1. ic'.addr = M!Addr' /\ ic'.data = ToBits(M!Wdata)' /\ ic'.strb = M!Wstrb'
    <3>1. M!Addr' = M!Addr /\ M!Wdata' = M!Wdata /\ M!Wstrb' = M!Wstrb
      BY <1>6, RequestHeld
    <3> QED BY <1>1, <1>4, <3>1 DEF ToBits
  <2>2. Target(ic.addr)' = Target(ic.addr)
    BY <1>4 DEF Target
  <2> QED BY <1>1, <1>4, <2>1, <2>2 DEF Routed
<1>13. resets' \in Nat
  BY <1>2 DEF PathInv
<1> QED BY <1>1, <1>4, <1>6, <1>7, <1>8, <1>9, <1>10, <1>11, <1>12, <1>13 DEF PathInv

\* Data for no device is dropped and answered.
LEMMA DropTurn ==
  ASSUME PathInv, NEW busy, NEW sw, NEW value, ClockEdge(busy, sw, value), ic.state = "writeDrop"
  PROVE  /\ PathInv'
         /\ req' = req /\ phase2' = phase2 /\ state = "write" /\ state' = "wresp"
         /\ ic'.state = "waitIdle" /\ ic'.addr = ic.addr
<1>1. /\ state = "write" /\ Whole(ic) /\ ~Working /\ ic.grant = "write"
      /\ ~ic.bvalid /\ ~ic.rvalid /\ ic.addr = M!Addr /\ ic.wready /\ wvalid
  BY DEF PathInv, Dialogue, Working, Routed
<1>2. /\ ic' = IcEdge(ic, FromMaster, FromDevices) /\ resets' = resets
  BY DEF ClockEdge
<1>3. Granted(ic, FromMaster).grant = "write"
  BY <1>1, GrantHeld DEF NoGrant
<1>4. /\ Whole(ic') /\ ic'.grant = "write" /\ ic'.state = "waitIdle" /\ ic'.addr = ic.addr
      /\ ~ic'.awready /\ ~ic'.wready /\ ~ic'.arready /\ ic'.bvalid /\ ~ic'.rvalid
      /\ NoOffers(ic')
  BY <1>1, <1>2, <1>3, IcWriteDrop, NothingOffered, MasterWires DEF Plain, NoOffers
<1>5. AtRest' /\ AtWork'
  BY <1>1, <1>4, AllRest, Settled
<1>6. /\ req' = req /\ phase2' = phase2 /\ state' = "wresp" /\ bready'
      /\ ~arvalid' /\ ~rready' /\ ~awvalid' /\ ~wvalid'
  BY <1>1, WriteTurn
<1>7. Dialogue'
  BY <1>4, <1>6 DEF Dialogue, NoGrant
<1>8. ForRequest'
  BY <1>1, <1>6, RequestHeld DEF ForRequest, PathInv
<1>9. Routed'
  BY <1>1, <1>4, <1>6, RequestHeld DEF Routed
<1>10. resets' \in Nat
  BY <1>2 DEF PathInv
<1> QED BY <1>1, <1>4, <1>5, <1>6, <1>7, <1>8, <1>9, <1>10 DEF PathInv

\* The write in the device: offered, strobed, answered.
LEMMA RespTurn ==
  ASSUME PathInv, NEW busy, NEW sw, NEW value, ClockEdge(busy, sw, value),
         ic.state = "writeResp", NEW d \in Devices, d = ic.select
  PROVE  /\ PathInv'
         /\ req' = req /\ phase2' = phase2 /\ state = "wresp" /\ state' = "wresp"
         /\ ic'.addr = ic.addr /\ ic'.data = ic.data /\ ic'.strb = ic.strb /\ ic'.select = d
         /\ WrOffered(d) \/ WrStrobed(d) => ic'.state = "writeResp"
         /\ WrOffered(d) => WrStrobed(d)'
         /\ WrStrobed(d) => WrStrobed(d)' \/ WrAnswered(d)'
         /\ WrAnswered(d) => ic'.state = "waitIdle" /\ WrQuiet(d)'
         /\ RdQuiet(d) /\ RdQuiet(d)'
<1>1. /\ state = "wresp" /\ Whole(ic) /\ ic.grant = "write"
      /\ ~ic.bvalid /\ ~ic.rvalid /\ ic.addr = M!Addr /\ ~ic.addrValid
      /\ ic.data = ToBits(M!Wdata) /\ ic.strb = M!Wstrb
      /\ d = Target(ic.addr) /\ d # NoDevice
      /\ ic.mAr = {} /\ ic.mR = {} /\ ic.mB = {d}
  BY DEF PathInv, Dialogue, Routed, AtRest, AtWork, Writing
<1>2. /\ ic' = IcEdge(ic, FromMaster, FromDevices) /\ resets' = resets
  BY DEF ClockEdge
<1>3. Granted(ic, FromMaster).grant = "write"
  BY <1>1, GrantHeld DEF NoGrant
<1>4. Writing(d)
  BY DEF PathInv, AtWork
<1>5. /\ FromDevices[d].awready <=> ~Device(d).wr.aw
      /\ FromDevices[d].wready <=> ~Device(d).wr.w
      /\ FromDevices[d].bvalid <=> Device(d).wr.b
  BY DeviceWires
<1>6. /\ Whole(ic') /\ ic'.grant = "write"
      /\ ic'.mAw = {e \in ic.mAw : ~FromDevices[e].awready}
      /\ ic'.mW = {e \in ic.mW : ~FromDevices[e].wready}
      /\ ic'.mAr = {} /\ ic'.mR = {}
      /\ ic'.select = d /\ ic'.addr = ic.addr /\ ~ic'.addrValid
      /\ ic'.data = ic.data /\ ic'.strb = ic.strb
      /\ ~ic'.awready /\ ~ic'.wready /\ ~ic'.arready /\ ~ic'.rvalid
      /\ Device(d).wr.b => ic'.state = "waitIdle" /\ ic'.bvalid /\ ic'.mB = {}
      /\ ~Device(d).wr.b => ic'.state = "writeResp" /\ ic'.mB = {d} /\ ~ic'.bvalid
  <2>1. /\ Plain(ic, FromMaster, FromDevices, ic')
        /\ ic'.select = ic.select /\ ic'.addr = ic.addr /\ (ic'.addrValid) = ic.addrValid
        /\ ic'.data = ic.data /\ ic'.strb = ic.strb
        /\ ~ic'.awready /\ ~ic'.wready /\ ~ic'.arready
        /\ ic'.rvalid <=> ic.rvalid /\ ~FromMaster.rready
        /\ ic'.mR = {}
        /\ FromDevices[ic.select].bvalid =>
             ic'.state = "waitIdle" /\ ic'.bvalid /\ ic'.mB = {}
        /\ ~FromDevices[ic.select].bvalid =>
             /\ ic'.state = "writeResp" /\ ic'.mB = {ic.select}
             /\ ic'.bvalid <=> ic.bvalid /\ ~FromMaster.bready
    <3>1. ic.select \in ic.mB
      BY <1>1
    <3>2. Whole(ic) /\ ic' = IcEdge(ic, FromMaster, FromDevices)
      BY <1>1, <1>2
    <3> QED BY <3>1, <3>2, IcWriteResp
  <2> QED BY <1>1, <1>3, <1>5, <2>1 DEF Plain
<1>7. /\ req' = req /\ phase2' = phase2 /\ state' = "wresp" /\ bready'
      /\ ~arvalid' /\ ~rready' /\ ~awvalid' /\ ~wvalid'
  BY <1>1, WRespTurn
<1>8. \A e \in Devices : e # d => WrQuiet(e)' /\ RdQuiet(e)'
  BY PortsRest
<1>9. RdQuiet(d) /\ RdQuiet(d)'
  <2>1. RdQuiet(d) /\ d \notin ic.mAr
    BY <1>1, <1>4 DEF Writing
  <2> QED BY <2>1, RdSteps
<1>10. ic'.mAw = {} /\ ic'.mW = {}
  BY <1>4, <1>5, <1>6 DEF Writing, WrOffered, WrStrobed, WrAnswered, WrQuiet
<1>11. /\ WrOffered(d) \/ WrStrobed(d) => ~Device(d).wr.b
       /\ WrAnswered(d) => Device(d).wr.b
  BY DEF WrOffered, WrStrobed, WrAnswered, WrQuiet, WrOn, WrEnd
<1>12. WrOffered(d) => WrStrobed(d)'
  <2> SUFFICES ASSUME WrOffered(d) PROVE WrStrobed(d)'
    OBVIOUS
  <2>1. WrQuiet(d) /\ d \in ic.mAw /\ d \in ic.mW
    BY DEF WrOffered
  <2>2. /\ WrOn(d)' /\ Device(d)'.wr.addr = Register(d, ic.addr)
        /\ Device(d)'.wr.data = Payload(d, ic.data, ic.strb)
    BY <2>1, WrSteps
  <2>3. Register(d, ic.addr)' = Register(d, ic.addr)
        /\ Payload(d, ic.data, ic.strb)' = Payload(d, ic.data, ic.strb)
    BY <1>6 DEF Register, Payload
  <2> QED BY <1>10, <2>2, <2>3 DEF WrStrobed
<1>13. WrStrobed(d) => WrStrobed(d)' \/ WrAnswered(d)'
  <2> SUFFICES ASSUME WrStrobed(d) PROVE WrStrobed(d)' \/ WrAnswered(d)'
    OBVIOUS
  <2>1. /\ WrOn(d) /\ Device(d).wr.addr = Register(d, ic.addr)
        /\ Device(d).wr.data = Payload(d, ic.data, ic.strb)
    BY DEF WrStrobed
  <2>2. \/ /\ WrOn(d)' /\ Device(d)'.wr.addr = Device(d).wr.addr
           /\ Device(d)'.wr.data = Device(d).wr.data
        \/ WrEnd(d)'
    BY <2>1, WrSteps
  <2>3. Register(d, ic.addr)' = Register(d, ic.addr)
        /\ Payload(d, ic.data, ic.strb)' = Payload(d, ic.data, ic.strb)
    BY <1>6 DEF Register, Payload
  <2> QED BY <1>10, <2>1, <2>2, <2>3 DEF WrStrobed, WrAnswered
<1>14. WrAnswered(d) => WrQuiet(d)'
  BY <1>1, WrSteps DEF WrAnswered
<1>15. AtRest' /\ AtWork'
  <2>1. CASE WrAnswered(d)
    <3>1. \A e \in Devices : WrQuiet(e)' /\ RdQuiet(e)'
      BY <1>8, <1>9, <1>14, <2>1
    <3>2. ic'.state = "waitIdle" /\ NoOffers(ic')
      BY <1>6, <1>10, <1>11, <2>1 DEF NoOffers
    <3> QED BY <3>1, <3>2, Settled
  <2>2. CASE WrOffered(d) \/ WrStrobed(d)
    <3>1. ic'.state = "writeResp" /\ ic'.mB = {d}
      BY <1>6, <1>11, <2>2
    <3>2. AtRest'
      BY <1>6, <1>8, <3>1 DEF AtRest, Working
    <3>3. Writing(d)'
      BY <1>9, <1>12, <1>13, <2>2, <3>1 DEF Writing
    <3>4. Writing(ic.select)'
      BY <1>6, <3>3 DEF Writing, WrQuiet, RdQuiet, Device, WrOffered, WrStrobed, WrAnswered, WrOn,
                        WrEnd
    <3> QED BY <3>1, <3>2, <3>4 DEF AtWork
  <2> QED BY <1>4, <2>1, <2>2 DEF Writing
<1>16. Dialogue'
  <2>1. ic'.state \in {"writeResp", "waitIdle"} /\ (ic'.bvalid <=> ic'.state = "waitIdle")
    BY <1>6
  <2> QED BY <1>6, <1>7, <2>1 DEF Dialogue, NoGrant
<1>17. ForRequest'
  BY <1>1, <1>7, RequestHeld DEF ForRequest, PathInv
<1>18. Routed'
  <2>1. ic'.addr = M!Addr' /\ ic'.data = ToBits(M!Wdata)' /\ ic'.strb = M!Wstrb'
    <3>1. M!Addr' = M!Addr /\ M!Wdata' = M!Wdata /\ M!Wstrb' = M!Wstrb
      BY <1>7, RequestHeld
    <3> QED BY <1>1, <1>6, <3>1 DEF ToBits
  <2>2. Target(ic.addr)' = Target(ic.addr)
    BY <1>6 DEF Target
  <2>3. ic'.state \in {"writeResp", "waitIdle"}
    BY <1>6
  <2> QED BY <1>1, <1>6, <2>1, <2>2, <2>3 DEF Routed
<1>19. resets' \in Nat
  BY <1>2 DEF PathInv
<1>20. PathInv'
  BY <1>6, <1>15, <1>16, <1>17, <1>18, <1>19 DEF PathInv
<1> QED BY <1>1, <1>6, <1>7, <1>9, <1>11, <1>12, <1>13, <1>14, <1>20

\* The read in the device: selected, offered, strobed, answered.
LEMMA FetchTurn ==
  ASSUME PathInv, NEW busy, NEW sw, NEW value, ClockEdge(busy, sw, value),
         ic.state = "read", NEW d \in Devices, d = ic.select
  PROVE  /\ PathInv'
         /\ req' = req /\ phase2' = phase2 /\ state = "read" /\ state' = "read"
         /\ wordLo' = wordLo /\ ic'.addr = ic.addr /\ ic'.select = d
         /\ RdSelected(d) \/ RdOffered(d) \/ RdStrobed(d) => ic'.state = "read"
         /\ RdSelected(d) => RdOffered(d)'
         /\ RdOffered(d) => RdStrobed(d)'
         /\ RdStrobed(d) => RdStrobed(d)' \/ RdAnswered(d)'
         /\ RdAnswered(d) => /\ ic'.state = "waitIdle" /\ RdQuiet(d)'
                             /\ ic'.data = ReadBits(d, Device(d).rd.data)
         /\ WrQuiet(d) /\ WrQuiet(d)'
<1>1. /\ state = "read" /\ Whole(ic) /\ ic.grant = "read"
      /\ ~ic.bvalid /\ ~ic.rvalid /\ ic.addr = M!Addr
      /\ d = Target(ic.addr) /\ d # NoDevice
      /\ ic.mAw = {} /\ ic.mW = {} /\ ic.mB = {} /\ ic.mR = {d}
  BY DEF PathInv, Dialogue, Routed, AtRest, AtWork, Reading
<1>2. /\ ic' = IcEdge(ic, FromMaster, FromDevices) /\ resets' = resets
  BY DEF ClockEdge
<1>3. Granted(ic, FromMaster).grant = "read"
  BY <1>1, GrantHeld DEF NoGrant
<1>4. Reading(d)
  BY DEF PathInv, AtWork
<1>5. /\ FromDevices[d].arready <=> ~Device(d).rd.ar
      /\ FromDevices[d].rvalid <=> Device(d).rd.r
      /\ FromDevices[d].rdata = ReadBits(d, Device(d).rd.data)
  BY DeviceWires
<1>6. /\ Whole(ic') /\ ic'.grant = "read"
      /\ ic'.mAw = {} /\ ic'.mW = {} /\ ic'.mB = {}
      /\ ic'.mAr = {e \in ic.mAr : ~FromDevices[e].arready} \cup (IF ic.addrValid THEN {d} ELSE {})
      /\ ic'.select = d /\ ic'.addr = ic.addr /\ ~ic'.addrValid
      /\ ~ic'.awready /\ ~ic'.wready /\ ~ic'.arready /\ ~ic'.bvalid
      /\ Device(d).rd.r => /\ ic'.state = "waitIdle" /\ ic'.rvalid /\ ic'.mR = {}
                           /\ ic'.data = ReadBits(d, Device(d).rd.data)
      /\ ~Device(d).rd.r => ic'.state = "read" /\ ic'.mR = {d} /\ ~ic'.rvalid
  <2>1. /\ Whole(ic') /\ ic'.grant = Granted(ic, FromMaster).grant
        /\ ic'.select = ic.select /\ ic'.addr = ic.addr /\ ~ic'.addrValid /\ ic'.mB = {}
        /\ ic'.mAw = {e \in ic.mAw : ~FromDevices[e].awready}
        /\ ic'.mW = {e \in ic.mW : ~FromDevices[e].wready}
        /\ ic'.mAr = {e \in ic.mAr : ~FromDevices[e].arready}
                       \cup (IF ic.addrValid THEN {ic.select} ELSE {})
        /\ ~ic'.awready /\ ~ic'.wready /\ ~ic'.arready
        /\ ic'.bvalid <=> ic.bvalid /\ ~FromMaster.bready
        /\ FromDevices[ic.select].rvalid =>
             /\ ic'.state = "waitIdle" /\ ic'.rvalid /\ ic'.mR = {}
             /\ ic'.data = FromDevices[ic.select].rdata
        /\ ~FromDevices[ic.select].rvalid =>
             /\ ic'.state = "read" /\ ic'.mR = {ic.select}
             /\ ic'.rvalid <=> ic.rvalid /\ ~FromMaster.rready
    <3>1. ic.select \in ic.mR
      BY <1>1
    <3>2. Whole(ic) /\ ic' = IcEdge(ic, FromMaster, FromDevices)
      BY <1>1, <1>2
    <3> QED BY <3>1, <3>2, IcRead
  <2> QED BY <1>1, <1>3, <1>5, <2>1
<1>7. /\ req' = req /\ phase2' = phase2 /\ state' = "read" /\ rready' /\ wordLo' = wordLo
      /\ ~arvalid' /\ ~bready' /\ ~awvalid' /\ ~wvalid'
  BY <1>1, ReadTurn
<1>8. \A e \in Devices : e # d => WrQuiet(e)' /\ RdQuiet(e)'
  BY PortsRest
<1>9. WrQuiet(d) /\ WrQuiet(d)'
  <2>1. WrQuiet(d) /\ d \notin ic.mAw /\ d \notin ic.mW
    BY <1>1, <1>4 DEF Reading
  <2> QED BY <2>1, WrSteps
<1>10. /\ RdSelected(d) => ic'.mAr = {d}
       /\ RdOffered(d) \/ RdStrobed(d) \/ RdAnswered(d) => ic'.mAr = {}
  BY <1>5, <1>6 DEF RdSelected, RdOffered, RdStrobed, RdAnswered, RdQuiet
<1>11. /\ RdSelected(d) \/ RdOffered(d) \/ RdStrobed(d) => ~Device(d).rd.r
       /\ RdAnswered(d) => Device(d).rd.r
  BY DEF RdSelected, RdOffered, RdStrobed, RdAnswered, RdQuiet, RdOn, RdEnd
<1>12. RdSelected(d) => RdOffered(d)'
  <2> SUFFICES ASSUME RdSelected(d) PROVE RdOffered(d)'
    OBVIOUS
  <2>1. RdQuiet(d) /\ d \notin ic.mAr
    BY DEF RdSelected
  <2>2. RdQuiet(d)'
    BY <2>1, RdSteps
  <2> QED BY <1>6, <1>10, <2>2 DEF RdOffered
<1>13. RdOffered(d) => RdStrobed(d)'
  <2> SUFFICES ASSUME RdOffered(d) PROVE RdStrobed(d)'
    OBVIOUS
  <2>1. RdQuiet(d) /\ d \in ic.mAr
    BY DEF RdOffered
  <2>2. RdOn(d)' /\ Device(d)'.rd.addr = Register(d, ic.addr)
    BY <2>1, RdSteps
  <2>3. Register(d, ic.addr)' = Register(d, ic.addr)
    BY <1>6 DEF Register
  <2> QED BY <1>6, <1>10, <2>2, <2>3 DEF RdStrobed
<1>14. RdStrobed(d) => RdStrobed(d)' \/ RdAnswered(d)'
  <2> SUFFICES ASSUME RdStrobed(d) PROVE RdStrobed(d)' \/ RdAnswered(d)'
    OBVIOUS
  <2>1. RdOn(d) /\ Device(d).rd.addr = Register(d, ic.addr)
    BY DEF RdStrobed
  <2>2. \/ RdOn(d)' /\ Device(d)'.rd.addr = Device(d).rd.addr
        \/ RdEnd(d)'
    BY <2>1, RdSteps
  <2>3. Register(d, ic.addr)' = Register(d, ic.addr)
    BY <1>6 DEF Register
  <2> QED BY <1>6, <1>10, <2>1, <2>2, <2>3 DEF RdStrobed, RdAnswered
<1>15. RdAnswered(d) => RdQuiet(d)'
  BY <1>1, RdSteps DEF RdAnswered
<1>16. AtRest' /\ AtWork'
  <2>1. CASE RdAnswered(d)
    <3>1. \A e \in Devices : WrQuiet(e)' /\ RdQuiet(e)'
      BY <1>8, <1>9, <1>15, <2>1
    <3>2. ic'.state = "waitIdle" /\ NoOffers(ic')
      BY <1>6, <1>10, <1>11, <2>1 DEF NoOffers
    <3> QED BY <3>1, <3>2, Settled
  <2>2. CASE RdSelected(d) \/ RdOffered(d) \/ RdStrobed(d)
    <3>1. ic'.state = "read" /\ ic'.mR = {d}
      BY <1>6, <1>11, <2>2
    <3>2. AtRest'
      BY <1>6, <1>8, <3>1 DEF AtRest, Working
    <3>3. Reading(d)'
      BY <1>9, <1>12, <1>13, <1>14, <2>2, <3>1 DEF Reading
    <3>4. Reading(ic.select)'
      BY <1>6, <3>3 DEF Reading, WrQuiet, RdQuiet, Device, RdSelected, RdOffered, RdStrobed,
                        RdAnswered, RdOn, RdEnd
    <3> QED BY <3>1, <3>2, <3>4 DEF AtWork
  <2> QED BY <1>4, <2>1, <2>2 DEF Reading
<1>17. Dialogue'
  <2>1. ic'.state \in {"read", "waitIdle"} /\ (ic'.rvalid <=> ic'.state = "waitIdle")
    BY <1>6
  <2> QED BY <1>6, <1>7, <2>1 DEF Dialogue, NoGrant
<1>18. ForRequest'
  BY <1>1, <1>7, RequestHeld DEF ForRequest, PathInv
<1>19. Routed'
  <2>1. ic'.addr = M!Addr'
    BY <1>1, <1>6, <1>7, RequestHeld
  <2>2. Target(ic.addr)' = Target(ic.addr)
    BY <1>6 DEF Target
  <2>3. ic'.state \in {"read", "waitIdle"}
    BY <1>6
  <2> QED BY <1>1, <1>6, <2>1, <2>2, <2>3 DEF Routed
<1>20. resets' \in Nat
  BY <1>2 DEF PathInv
<1>21. PathInv'
  BY <1>6, <1>16, <1>17, <1>18, <1>19, <1>20 DEF PathInv
<1> QED BY <1>1, <1>6, <1>7, <1>9, <1>11, <1>12, <1>13, <1>14, <1>15, <1>21

\* The answer is taken and the grant given back.
LEMMA WaitTurn ==
  ASSUME PathInv, NEW busy, NEW sw, NEW value, ClockEdge(busy, sw, value),
         ic.state = "waitIdle"
  PROVE  /\ PathInv' /\ ic'.state = "idle" /\ ~ic'.rvalid /\ state \in {"wresp", "read"}
         /\ M!Crosses /\ ~phase2 =>
              /\ req' = req /\ phase2'
              /\ state' = IF state = "read" THEN "read" ELSE "write"
              /\ wordLo' = IF state = "read" THEN ToBytes(ic.data) ELSE wordLo
         /\ ~(M!Crosses /\ ~phase2) => state' = "idle" /\ M!XferDone
<1>1. /\ state \in {"wresp", "read"} /\ Whole(ic) /\ ~Working
      /\ state = "wresp" => ic.grant = "write" /\ ic.bvalid /\ ~ic.rvalid /\ bready
      /\ state = "read" => ic.grant = "read" /\ ic.rvalid /\ ~ic.bvalid /\ rready
      /\ ~awvalid /\ ~arvalid
  BY DEF PathInv, Dialogue, Working
<1>2. /\ ic' = IcEdge(ic, FromMaster, FromDevices) /\ resets' = resets
  BY DEF ClockEdge
<1>3. Acknowledged(ic, FromMaster) /\ ~FromMaster.awvalid /\ ~FromMaster.arvalid
  BY <1>1, MasterWires DEF Acknowledged
<1>4. Granted(ic, FromMaster).grant = NoGrant
  BY <1>3, GrantReturned
<1>5. /\ Whole(ic') /\ ic'.state = "idle" /\ ic'.grant = NoGrant /\ NoOffers(ic')
      /\ ~ic'.awready /\ ~ic'.wready /\ ~ic'.arready /\ ~ic'.bvalid /\ ~ic'.rvalid
  <2>1. /\ Plain(ic, FromMaster, FromDevices, ic') /\ ic'.state = "idle"
        /\ ~ic'.awready /\ ~ic'.wready /\ ~ic'.arready
        /\ ic'.bvalid <=> ic.bvalid /\ ~FromMaster.bready
        /\ ic'.rvalid <=> ic.rvalid /\ ~FromMaster.rready
        /\ ic'.mB = {} /\ ic'.mR = {}
    <3>1. Whole(ic) /\ ic' = IcEdge(ic, FromMaster, FromDevices)
      BY <1>1, <1>2
    <3> QED BY <3>1, <1>3, IcWaitIdle
  <2> QED BY <1>1, <1>4, <2>1, NothingOffered, MasterWires DEF Plain, NoOffers
<1>6. AtRest' /\ AtWork'
  BY <1>1, <1>5, AllRest, Settled
<1>7. state = "wresp" => /\ ~arvalid' /\ ~rready' /\ ~bready' /\ wordLo' = wordLo
  BY WRespTurn
<1>8. state = "read" => /\ ~awvalid' /\ ~wvalid' /\ ~bready'
  BY ReadTurn
<1>9. M!PhaseDone /\ (M!XferDone <=> ~(M!Crosses /\ ~phase2))
  BY <1>1, Answered
<1>10. Routed'
  BY <1>5 DEF Routed
<1>11. resets' \in Nat
  BY <1>2 DEF PathInv
<1>12. req \in Requests \cup {M!None} /\ (state = "wresp" => req.op = "write")
       /\ (state = "read" => req.op = "read")
  BY DEF PathInv, ForRequest
<1>13. CASE M!Crosses /\ ~phase2
  <2>1. /\ req' = req /\ phase2'
        /\ state = "wresp" => state' = "write" /\ awvalid' /\ wvalid' /\ ~awDone' /\ ~wDone'
        /\ state = "read" => state' = "read" /\ rready' /\ arvalid' /\ wordLo' = ToBytes(ic.data)
    BY <1>1, <1>13, WRespTurn, ReadTurn
  <2>2. Dialogue'
    BY <1>1, <1>5, <1>7, <1>8, <2>1 DEF Dialogue, NoGrant
  <2>3. ForRequest'
    BY <1>1, <1>12, <1>13, <2>1, RequestHeld DEF ForRequest
  <2> QED BY <1>1, <1>5, <1>6, <1>7, <1>10, <1>11, <1>13, <2>1, <2>2, <2>3 DEF PathInv
<1>14. CASE ~(M!Crosses /\ ~phase2)
  <2>1. /\ state' = "idle" /\ req' \in Requests \cup {M!None}
        /\ state = "wresp" => ~awvalid' /\ ~wvalid'
        /\ state = "read" => ~arvalid' /\ ~rready'
    BY <1>1, <1>14, WRespTurn, ReadTurn
  <2>2. Dialogue'
    BY <1>1, <1>5, <1>7, <1>8, <2>1 DEF Dialogue, NoGrant
  <2>3. ForRequest'
    BY <2>1 DEF ForRequest
  <2> QED BY <1>1, <1>5, <1>6, <1>9, <1>10, <1>11, <1>14, <2>1, <2>2, <2>3 DEF PathInv
<1> QED BY <1>13, <1>14

\* Every port comes out of reset at rest.
LEMMA ResetPorts ==
  ASSUME NEW words, NEW dev \in {MemReset(words), GpioReset, UartPortReset, TimerReset}
  PROVE  /\ ~dev.wr.aw /\ ~dev.wr.w /\ ~dev.wr.b /\ ~dev.wr.en
         /\ ~dev.rd.ar /\ ~dev.rd.r /\ ~dev.rd.en
  BY DEF MemReset, GpioReset, UartPortReset, TimerReset, WrReset, RdReset

LEMMA Restart ==
  ASSUME Whole(ic), ic.state = "idle", ic.grant = NoGrant,
         ~ic.awready, ~ic.wready, ~ic.arready, ~ic.bvalid, ~ic.rvalid, NoOffers(ic),
         state = "idle", ~awvalid, ~wvalid, ~bready, ~arvalid, ~rready, req = M!None,
         \A d \in Devices : WrQuiet(d) /\ RdQuiet(d), resets \in Nat
  PROVE  PathInv
  BY DEF PathInv, Dialogue, ForRequest, Routed, AtRest, AtWork, NoOffers, NoGrant, Working

LEMMA PathStarts == Init => PathInv
<1> SUFFICES ASSUME Init PROVE PathInv
  OBVIOUS
<1>1. \A d \in Devices : WrQuiet(d) /\ RdQuiet(d)
  <2> TAKE d \in Devices
  <2>1. Device(d) \in {MemReset(MemInit), GpioReset, UartPortReset, TimerReset}
    BY SocAssumption DEF Init, Device
  <2> QED BY <2>1, ResetPorts DEF WrQuiet, RdQuiet
<1>2. /\ Whole(ic) /\ ic.state = "idle" /\ ic.grant = NoGrant
      /\ ~ic.awready /\ ~ic.wready /\ ~ic.arready /\ ~ic.bvalid /\ ~ic.rvalid /\ NoOffers(ic)
  BY DEF Init, IcInit, IcReset, Whole, NoOffers, NoGrant
<1> QED BY <1>1, <1>2, Restart DEF Init

LEMMA PathResets ==
  ASSUME PathInv, Reset
  PROVE  PathInv'
<1>1. \A d \in Devices : (WrQuiet(d) /\ RdQuiet(d))'
  <2> TAKE d \in Devices
  <2>1. Device(d)' \in {MemReset(MemWords(dmem)), GpioReset, UartPortReset, TimerReset}
    BY SocAssumption DEF Reset, Device
  <2> QED BY <2>1, ResetPorts DEF WrQuiet, RdQuiet
<1>2. ic' = IcReset(ic) /\ Whole(ic)
  BY DEF Reset, PathInv
<1>3. /\ Whole(ic') /\ ic'.state = "idle" /\ ic'.grant = NoGrant
      /\ ~ic'.awready /\ ~ic'.wready /\ ~ic'.arready /\ ~ic'.bvalid /\ ~ic'.rvalid
      /\ NoOffers(ic')
  BY <1>2, IcResets DEF NoOffers
<1>4. /\ state' = "idle" /\ ~awvalid' /\ ~wvalid' /\ ~bready' /\ ~arvalid' /\ ~rready'
      /\ req' = M!None /\ resets' \in Nat
  BY DEF Reset, PathInv
<1> QED BY <1>1, <1>3, <1>4 DEF PathInv, Dialogue, ForRequest, Routed, AtRest, AtWork, NoOffers,
                                NoGrant, Working

\* One of these, each clock edge.
LEMMA PathStates ==
  ASSUME PathInv
  PROVE  \/ state = "idle"
         \/ state # "idle" /\ ic.state = "idle" /\ ic.grant = NoGrant
         \/ state # "idle" /\ ic.state = "idle" /\ ic.grant # NoGrant
         \/ ic.state \in {"decode", "write", "writeDrop", "writeResp", "read", "waitIdle"}
  BY DEF PathInv, Dialogue

LEMMA PathKept ==
  ASSUME PathInv, NEW busy, NEW sw, NEW value, ClockEdge(busy, sw, value)
  PROVE  PathInv'
<1>1. CASE ic.state = "writeResp"
  <2>1. PICK d \in Devices : d = ic.select
    BY <1>1 DEF PathInv, Routed
  <2> QED BY <1>1, <2>1, RespTurn
<1>2. CASE ic.state = "read"
  <2>1. PICK d \in Devices : d = ic.select
    BY <1>2 DEF PathInv, Routed
  <2> QED BY <1>2, <2>1, FetchTurn
<1> QED BY <1>1, <1>2, PathStates, RestTurn, GrantTurn, AddressTurn, DecodeTurn, DataTurn,
           DropTurn, WaitTurn

LEMMA Edges ==
  ASSUME Edge \/ BusyEdge
  PROVE  \E busy, sw, value : ClockEdge(busy, sw, value)
  BY DEF Edge, BusyEdge

LEMMA PathSteps == PathInv /\ [Next]_vars => PathInv'
<1> SUFFICES ASSUME PathInv, [Next]_vars PROVE PathInv'
  OBVIOUS
<1>1. CASE Edge \/ BusyEdge
  BY <1>1, Edges, PathKept
<1>2. CASE Reset
  BY <1>2, PathResets
<1>3. CASE UNCHANGED vars
  <2>1. UNCHANGED <<req, state, awvalid, wvalid, bready, arvalid, rready, awDone, wDone, phase2,
                    resets, ic, dmem, gpio, uart, timer>>
    BY <1>3 DEF vars, mvars, devs
  <2>2. /\ M!Crosses' <=> M!Crosses
        /\ M!Addr' = M!Addr /\ M!Wdata' = M!Wdata /\ M!Wstrb' = M!Wstrb
    BY <2>1, RequestHeld
  <2>3. \A d : Device(d)' = Device(d)
    BY <2>1 DEF Device
  <2>4. Whole(ic)' /\ Dialogue' /\ ForRequest' /\ resets' \in Nat
    BY <2>1, <2>2 DEF PathInv, Dialogue, ForRequest, Whole
  <2>5. Routed'
    BY <2>1, <2>2 DEF PathInv, Routed, Target, ToBits
  <2>6. AtRest'
    BY <2>1, <2>3 DEF PathInv, AtRest, Working, WrQuiet, RdQuiet
  <2>7. AtWork'
    BY <2>1 DEF PathInv, AtWork, Writing, Reading, WrOffered, WrStrobed, WrAnswered, RdSelected,
                RdOffered, RdStrobed, RdAnswered, WrQuiet, RdQuiet, WrOn, WrEnd, RdOn, RdEnd,
                Device, Register, Payload
  <2> QED BY <2>4, <2>5, <2>6, <2>7 DEF PathInv
<1> QED BY <1>1, <1>2, <1>3 DEF Next

-----------------------------------------------------------------------------
(* Memory *)

LEMMA Wide ==
  ASSUME NEW old \in SUBSET (0 .. 31), NEW new, NEW strb
  PROVE  Merge(old, new, strb) \in SUBSET (0 .. 31)
<1>1. Lanes(strb) \subseteq 0 .. 31
  BY SocAssumption DEF Lanes
<1> QED BY <1>1 DEF Merge

\* The memory's port is busy for the access under way only.
LEMMA MemPortBusy ==
  ASSUME PathInv
  PROVE  /\ dmem.wr.en => /\ ic.state = "writeResp" /\ ic.select = "dmem" /\ WrStrobed("dmem")
                          /\ ~dmem.rd.en
         /\ dmem.wr.b => ic.state = "writeResp" /\ ic.select = "dmem" /\ WrAnswered("dmem")
         /\ dmem.rd.en => ic.state = "read" /\ ic.select = "dmem" /\ RdStrobed("dmem")
         /\ dmem.rd.r => ic.state = "read" /\ ic.select = "dmem" /\ RdAnswered("dmem")
<1>1. "dmem" \in Devices /\ Device("dmem") = dmem
  BY SocAssumption DEF Device
<1>2. CASE ~(Working /\ ic.select = "dmem")
  BY <1>1, <1>2 DEF PathInv, AtRest, WrQuiet, RdQuiet
<1>3. CASE ic.state = "writeResp" /\ ic.select = "dmem"
  <2>1. Writing("dmem")
    BY <1>3 DEF PathInv, AtWork
  <2> QED BY <1>1, <1>3, <2>1 DEF Writing, RdQuiet, WrOffered, WrQuiet, WrStrobed, WrAnswered,
                                  WrOn, WrEnd
<1>4. CASE ic.state = "read" /\ ic.select = "dmem"
  <2>1. Reading("dmem")
    BY <1>4 DEF PathInv, AtWork
  <2> QED BY <1>1, <1>4, <2>1 DEF Reading, WrQuiet, RdSelected, RdOffered, RdQuiet, RdStrobed,
                                  RdAnswered, RdOn, RdEnd
<1> QED BY <1>2, <1>3, <1>4 DEF Working

\* What an edge makes of memory.
LEMMA MemEdges ==
  ASSUME PathInv, NEW busy, NEW sw, NEW value, ClockEdge(busy, sw, value)
  PROVE  /\ dmem'.words = MemWords(dmem)
         /\ ~dmem.wr.en => dmem'.words = dmem.words
         /\ dmem.wr.en => dmem'.words = [dmem.words EXCEPT ![MemIndex] = Merge(@, ic.data, ic.strb)]
         /\ dmem'.pending <=> dmem.rd.en /\ ~dmem.pending
         /\ dmem.rd.en => dmem'.rdata = dmem.words[MemIndex]
         /\ dmem'.wr = WrEdge(dmem.wr, Bus("dmem"), FALSE, dmem.wr.en)
         /\ dmem'.rd = RdEdge(dmem.rd, Bus("dmem"), MemReadWait(dmem), MemReadAck(dmem), dmem.rdata)
<1> DEFINE wr == WrEdge(dmem.wr, Bus("dmem"), FALSE, dmem.wr.en)
           rd == RdEdge(dmem.rd, Bus("dmem"), MemReadWait(dmem), MemReadAck(dmem), dmem.rdata)
           p == dmem.rd.en /\ ~dmem.pending
           w == MemWords(dmem)
           o == IF dmem.rd.en THEN dmem.words[MemPortIndex(dmem)] ELSE dmem.rdata
<1>1. dmem' = [wr |-> wr, rd |-> rd, pending |-> p, words |-> w, rdata |-> o]
  BY Zenon DEF ClockEdge, MemEdge
<1>2. dmem'.wr = wr /\ dmem'.rd = rd /\ (dmem'.pending) = p /\ dmem'.words = w /\ dmem'.rdata = o
  <2> HIDE DEF wr, rd, p, w, o
  <2> QED BY <1>1
<1>3. Device("dmem") = dmem
  BY DEF Device
<1>4. dmem.wr.en => dmem'.words = [dmem.words EXCEPT ![MemIndex] = Merge(@, ic.data, ic.strb)]
  <2> SUFFICES ASSUME dmem.wr.en
               PROVE  w = [dmem.words EXCEPT ![MemIndex] = Merge(@, ic.data, ic.strb)]
    BY <1>2
  <2>1. WrStrobed("dmem") /\ ~dmem.rd.en
    BY MemPortBusy
  <2>2. dmem.wr.addr = MemIndex /\ dmem.wr.data = [value |-> ic.data, strb |-> ic.strb]
    BY <1>3, <2>1 DEF WrStrobed, MemIndex, Payload
  <2> QED BY <2>1, <2>2 DEF MemWords, MemPortIndex
<1>5. ~dmem.wr.en => dmem'.words = dmem.words
  BY <1>2 DEF MemWords
<1>6. dmem.rd.en => dmem'.rdata = dmem.words[MemIndex]
  <2> SUFFICES ASSUME dmem.rd.en PROVE dmem'.rdata = dmem.words[MemIndex]
    OBVIOUS
  <2>1. RdStrobed("dmem")
    BY MemPortBusy
  <2>2. dmem.rd.addr = MemIndex
    BY <1>3, <2>1 DEF RdStrobed, MemIndex
  <2> QED BY <1>2, <2>2 DEF MemPortIndex
<1>7. dmem'.pending <=> dmem.rd.en /\ ~dmem.pending
  BY <1>2, Zenon
<1> HIDE DEF p, o
<1> QED BY <1>2, <1>4, <1>5, <1>6, <1>7, Zenon

\* A strobe of the memory lasts one cycle for a write, two for a read.
LEMMA MemStrobes ==
  ASSUME FabricInv, NEW busy, NEW sw, NEW value, ClockEdge(busy, sw, value)
  PROVE  /\ dmem.wr.en => WrEnd("dmem")'
         /\ dmem.rd.en /\ ~dmem.pending => dmem'.rd.en /\ dmem'.rd.timeout = Timeout - 1
         /\ dmem.rd.en /\ dmem.pending => /\ ~dmem'.rd.en /\ dmem'.rd.r
                                          /\ dmem'.rd.data = dmem.words[MemIndex]
         /\ RdOffered("dmem") => dmem'.rd.timeout = Timeout - 1
<1>1. /\ dmem'.wr = WrEdge(dmem.wr, Bus("dmem"), FALSE, dmem.wr.en)
      /\ dmem'.rd = RdEdge(dmem.rd, Bus("dmem"), MemReadWait(dmem), MemReadAck(dmem), dmem.rdata)
  BY MemEdges DEF FabricInv
<1>2. Device("dmem") = dmem /\ Device("dmem")' = dmem'
  BY DEF Device
<1>3. PathInv /\ MemoryKept /\ Timeout \in Nat /\ Timeout - 1 # 0
  BY SocAssumption, RegIfAssumption DEF FabricInv
<1>4. dmem.wr.en => WrEnd("dmem")'
  <2> SUFFICES ASSUME dmem.wr.en PROVE WrEnd("dmem")'
    OBVIOUS
  <2>1. dmem.wr.aw /\ dmem.wr.w /\ ~dmem.wr.b
    BY <1>2, <1>3, MemPortBusy DEF WrStrobed, WrOn
  <2>2. PICK bus, wait, ack : dmem'.wr = WrEdge(dmem.wr, bus, wait, ack) /\ ack = dmem.wr.en
    BY <1>1, Zenon
  <2>3. \/ dmem'.wr.aw /\ dmem'.wr.w /\ ~dmem'.wr.b /\ dmem'.wr.en /\ ~ack
        \/ ~dmem'.wr.aw /\ ~dmem'.wr.w /\ dmem'.wr.b /\ ~dmem'.wr.en
    BY <2>1, <2>2, WrPort
  <2> QED BY <1>2, <2>2, <2>3 DEF WrEnd
<1>5. ASSUME dmem.rd.en
      PROVE  /\ ~dmem.pending => dmem'.rd.en /\ dmem'.rd.timeout = Timeout - 1
             /\ dmem.pending => ~dmem'.rd.en /\ dmem'.rd.r /\ dmem'.rd.data = dmem.words[MemIndex]
  <2>1. dmem.rd.ar /\ ~dmem.rd.r
    BY <1>2, <1>3, <1>5, MemPortBusy DEF RdStrobed, RdOn
  <2>2. dmem.rd.timeout = Timeout - 1
    BY <1>3, <1>5 DEF MemoryKept
  <2>3. \/ /\ dmem'.rd.en /\ ~MemReadAck(dmem)
           /\ MemReadWait(dmem) => dmem'.rd.timeout = dmem.rd.timeout
        \/ /\ ~dmem'.rd.en /\ dmem'.rd.r /\ dmem'.rd.data = dmem.rdata
           /\ MemReadAck(dmem) \/ dmem.rd.timeout = 0
    BY <1>1, <1>5, <2>1, RdPort
  <2>4. /\ MemReadAck(dmem) <=> dmem.pending
        /\ MemReadWait(dmem) <=> ~dmem.pending
    BY <1>5 DEF MemReadAck, MemReadWait
  <2>5. dmem.pending => dmem.rdata = dmem.words[MemIndex]
    BY <1>3 DEF MemoryKept
  <2> QED BY <1>3, <2>2, <2>3, <2>4, <2>5
<1>6. RdOffered("dmem") => dmem'.rd.timeout = Timeout - 1
  <2> SUFFICES ASSUME RdOffered("dmem") PROVE dmem'.rd.timeout = Timeout - 1
    OBVIOUS
  <2>1. ~dmem.rd.ar /\ ~dmem.rd.r /\ ~dmem.rd.en /\ Bus("dmem").arvalid
    BY <1>2, BusWires DEF RdOffered, RdQuiet
  <2> QED BY <1>1, <2>1, RdPort
<1> QED BY <1>4, <1>5, <1>6

LEMMA MemIndexType ==
  ASSUME PathInv, ic.state # "idle", Target(ic.addr) = "dmem"
  PROVE  ic.addr \in 0 .. NWords - 1 /\ MemIndex \in MemIndexes
<1>1. ic.addr = M!Addr
  BY DEF PathInv, Routed
<1>2. req \in Requests \cup {M!None} /\ NWords \in Nat \ {0, 1} /\ Requests \subseteq M!Access
  BY SocAssumption DEF PathInv, ForRequest
<1>3. req.word \in 0 .. NWords - 1
  BY <1>2 DEF M!Access, M!None, M!WordAddr
<1>4. ic.addr \in 0 .. NWords - 1
  BY <1>1, <1>2, <1>3 DEF M!Addr, M!AddrLo, M!AddrHi
<1>5. Size["dmem"] \in Nat \ {0} /\ MemIndexes = 0 .. Size["dmem"] - 1
  BY SocAssumption, MapAssumption
<1>6. ic.addr % Size["dmem"] \in 0 .. Size["dmem"] - 1
  BY <1>4, <1>5, <1>2
<1> QED BY <1>4, <1>5, <1>6 DEF MemIndex, Register

LEMMA MemoryStarts == Init => MemoryKept
<1> SUFFICES ASSUME Init PROVE MemoryKept
  OBVIOUS
<1>1. dmem = MemReset(MemInit) /\ prior = MemInit /\ ic.state = "idle" /\ ~ic.rvalid
  BY DEF Init, IcInit, IcReset
<1>2. dmem.words = MemInit /\ ~dmem.pending /\ ~dmem.rd.en /\ ~dmem.rd.r
  BY <1>1 DEF MemReset, RdReset
<1> QED BY <1>1, <1>2, SocAssumption DEF MemoryKept, MemStruck

LEMMA MemoryResets ==
  ASSUME FabricInv, Reset
  PROVE  MemoryKept'
<1>1. /\ dmem' = MemReset(MemWords(dmem)) /\ prior' = MemWords(dmem)
      /\ ic' = IcReset(ic) /\ Whole(ic)
  BY DEF Reset, FabricInv, PathInv
<1>2. dmem'.words = MemWords(dmem) /\ ~dmem'.pending /\ ~dmem'.rd.en /\ ~dmem'.rd.r
  BY <1>1 DEF MemReset, RdReset
<1>3. ic'.state = "idle" /\ ~ic'.rvalid
  BY <1>1, IcResets
<1>4. MemWords(dmem) \in [MemIndexes -> SUBSET (0 .. 31)]
  <2>1. dmem.words \in [MemIndexes -> SUBSET (0 .. 31)]
    BY DEF FabricInv, MemoryKept
  <2>2. \A v, s : \A i \in MemIndexes : Merge(dmem.words[i], v, s) \in SUBSET (0 .. 31)
    BY <2>1, Wide
  <2> QED BY <2>1, <2>2 DEF MemWords
<1> QED BY <1>1, <1>2, <1>3, <1>4 DEF MemoryKept, MemStruck

\* Memory is what it was before the write, or what the write makes of it.
LEMMA MemoryStep ==
  ASSUME FabricInv, NEW busy, NEW sw, NEW value, ClockEdge(busy, sw, value)
  PROVE  MemoryKept'
<1>1. PathInv /\ MemoryKept /\ PathInv'
  BY PathKept DEF FabricInv
<1>2. /\ ~dmem.wr.en => dmem'.words = dmem.words
      /\ dmem.wr.en => dmem'.words = [dmem.words EXCEPT ![MemIndex] = Merge(@, ic.data, ic.strb)]
      /\ dmem'.pending <=> dmem.rd.en /\ ~dmem.pending
      /\ dmem.rd.en => dmem'.rdata = dmem.words[MemIndex]
  BY <1>1, MemEdges
<1>3. prior' = IF ic'.state \in {"write", "writeResp"} THEN prior ELSE dmem'.words
  BY DEF ClockEdge, WriteUnderWay
<1>4. Device("dmem") = dmem /\ Device("dmem")' = dmem' /\ "dmem" \in Devices /\ NoDevice # "dmem"
  BY SocAssumption DEF Device, NoDevice
<1>5. /\ dmem'.wr.b => ic'.state = "writeResp" /\ ic'.select = "dmem"
      /\ dmem'.rd.en => /\ ic'.state = "read" /\ ic'.select = "dmem" /\ RdOn("dmem")'
      /\ dmem'.rd.r => ic'.state = "read" /\ ic'.select = "dmem"
      /\ MemStruck' <=> ic'.state = "writeResp" /\ ic'.select = "dmem" /\ dmem'.wr.b
  <2>1. CASE ~(Working' /\ ic'.select = "dmem")
    <3>1. WrQuiet("dmem")' /\ RdQuiet("dmem")'
      BY <1>1, <1>4, <2>1 DEF PathInv, AtRest
    <3> QED BY <1>4, <2>1, <3>1 DEF WrQuiet, RdQuiet, MemStruck, WrEnd, Working
  <2>2. CASE ic'.state = "writeResp" /\ ic'.select = "dmem"
    <3>1. Writing("dmem")'
      BY <1>1, <2>2 DEF PathInv, AtWork, Writing, WrOffered, WrStrobed, WrAnswered, WrQuiet, RdQuiet,
                        WrOn, WrEnd, Device, Register, Payload
    <3> QED BY <1>4, <2>2, <3>1 DEF Writing, RdQuiet, WrOffered, WrQuiet, WrStrobed, WrAnswered,
                                    WrOn, WrEnd, MemStruck
  <2>3. CASE ic'.state = "read" /\ ic'.select = "dmem"
    <3>1. Reading("dmem")'
      BY <1>1, <2>3 DEF PathInv, AtWork, Reading, RdSelected, RdOffered, RdStrobed, RdAnswered,
                        WrQuiet, RdQuiet, RdOn, RdEnd, Device, Register
    <3> QED BY <1>4, <2>3, <3>1 DEF Reading, WrQuiet, RdSelected, RdOffered, RdQuiet, RdStrobed,
                                    RdAnswered, RdOn, RdEnd, MemStruck
  <2> QED BY <2>1, <2>2, <2>3 DEF Working
<1>6. /\ dmem.wr.en => WrEnd("dmem")'
      /\ dmem.rd.en /\ ~dmem.pending => dmem'.rd.en /\ dmem'.rd.timeout = Timeout - 1
      /\ dmem.rd.en /\ dmem.pending => /\ ~dmem'.rd.en /\ dmem'.rd.r
                                       /\ dmem'.rd.data = dmem.words[MemIndex]
      /\ RdOffered("dmem") => dmem'.rd.timeout = Timeout - 1
  BY MemStrobes
\* A write
<1>7. CASE ic.state = "writeResp"
  <2>1. PICK d \in Devices : d = ic.select
    BY <1>1, <1>7 DEF PathInv, Routed
  <2>2. /\ ic'.addr = ic.addr /\ ic'.data = ic.data /\ ic'.strb = ic.strb /\ ic'.select = d
        /\ state' = "wresp"
        /\ WrStrobed(d)' \/ WrAnswered(d)' => ic'.state = "writeResp"
        /\ WrOffered(d) \/ WrStrobed(d) => ic'.state = "writeResp"
        /\ WrOffered(d) => WrStrobed(d)'
        /\ WrAnswered(d) => ic'.state = "waitIdle" /\ WrQuiet(d)'
        /\ Writing(d)
    <3>1. Writing(d)
      BY <1>1, <1>7, <2>1 DEF PathInv, AtWork
    <3>2. WrQuiet(d)' => ~WrStrobed(d)' /\ ~WrAnswered(d)'
      BY DEF WrQuiet, WrStrobed, WrAnswered, WrOn, WrEnd
    <3> QED BY <1>1, <1>7, <2>1, <3>1, <3>2, RespTurn DEF Writing
  <2>3. MemIndex' = MemIndex
    BY <2>2 DEF MemIndex, Register
  <2>4. ~dmem.rd.en /\ ~dmem'.rd.en /\ ~dmem'.rd.r /\ ~dmem'.pending
    <3>1. ic.state # "read" /\ ic'.state # "read"
      BY <1>7, <2>2 DEF Writing
    <3> QED BY <1>1, <1>2, <1>5, <3>1, MemPortBusy
  <2>5. ~ic'.rvalid
    BY <1>1, <1>7, <2>1, RespTurn DEF PathInv, Dialogue
  <2>6. CASE dmem.wr.en
    <3>1. d = "dmem" /\ WrStrobed("dmem") /\ ~MemStruck
      BY <1>1, <2>1, <2>6, MemPortBusy DEF WrStrobed, MemStruck, WrEnd, WrOn
    <3>2. ic'.state = "writeResp" /\ WrEnd("dmem")' /\ MemStruck'
      BY <1>6, <2>2, <2>6, <3>1 DEF MemStruck
    <3>3. prior' = prior /\ prior = dmem.words
      BY <1>1, <1>3, <3>1, <3>2 DEF MemoryKept
    <3>4. dmem'.words = [prior' EXCEPT ![MemIndex'] = Merge(@, ic'.data, ic'.strb)]
      BY <1>2, <2>2, <2>3, <2>6, <3>3
    <3>5. prior \in [MemIndexes -> SUBSET (0 .. 31)]
      BY <1>1, <3>3 DEF MemoryKept
    <3>6. dmem'.words \in [MemIndexes -> SUBSET (0 .. 31)]
      <4> DEFINE v == Merge(prior[MemIndex], ic.data, ic.strb)
      <4>1. dmem'.words = [prior EXCEPT ![MemIndex] = v]
        BY <1>2, <2>6, <3>3
      <4>2. MemIndex \in MemIndexes => v \in SUBSET (0 .. 31)
        BY <3>5, Wide
      <4> HIDE DEF v
      <4> QED BY <3>5, <4>1, <4>2
    <3> QED BY <2>4, <2>5, <3>2, <3>3, <3>4, <3>5, <3>6 DEF MemoryKept
  <2>7. CASE ~dmem.wr.en
    <3>1. dmem'.words = dmem.words
      BY <1>2, <2>7
    <3>2. CASE MemStruck
      <4>1. d = "dmem" /\ WrAnswered("dmem")
        <5>1. WrEnd("dmem") /\ d = "dmem"
          BY <2>1, <3>2 DEF MemStruck
        <5> QED BY <2>2, <5>1 DEF Writing, WrOffered, WrStrobed, WrAnswered, WrQuiet, WrOn, WrEnd
      <4>2. ic'.state = "waitIdle" /\ ~MemStruck'
        BY <2>2, <4>1 DEF MemStruck
      <4>3. prior' = dmem'.words
        BY <1>3, <4>2
      <4> QED BY <1>1, <2>4, <2>5, <3>1, <4>2, <4>3 DEF MemoryKept
    <3>3. CASE ~MemStruck
      <4>1. ~MemStruck'
        <5>1. SUFFICES ASSUME MemStruck' PROVE FALSE
          OBVIOUS
        <5>2. ic'.state = "writeResp" /\ d = "dmem" /\ WrEnd("dmem")'
          BY <2>2, <5>1 DEF MemStruck
        <5>3. WrStrobed("dmem")
          BY <2>2, <5>2 DEF Writing, WrStrobed, WrEnd, WrOn
        <5> QED BY <1>4, <2>7, <5>3 DEF WrStrobed, WrOn
      <4>2. prior' = dmem'.words
        BY <1>1, <1>3, <3>1, <3>3 DEF MemoryKept
      <4> QED BY <1>1, <2>4, <2>5, <3>1, <4>1, <4>2 DEF MemoryKept
    <3> QED BY <3>2, <3>3
  <2> QED BY <2>6, <2>7
\* A read
<1>8. CASE ic.state = "read"
  <2>1. PICK d \in Devices : d = ic.select
    BY <1>1, <1>8 DEF PathInv, Routed
  <2>2. Reading(d) /\ d = Target(ic.addr)
    BY <1>1, <1>8, <2>1 DEF PathInv, AtWork, Routed
  <2>3. /\ ic'.addr = ic.addr /\ ic'.select = d
        /\ RdSelected(d) \/ RdOffered(d) \/ RdStrobed(d) => ic'.state = "read"
        /\ RdSelected(d) => RdOffered(d)'
        /\ RdAnswered(d) => /\ ic'.state = "waitIdle" /\ RdQuiet(d)'
                            /\ ic'.data = ReadBits(d, Device(d).rd.data)
    BY <1>1, <1>8, <2>1, FetchTurn
  <2>4. MemIndex' = MemIndex /\ Target(ic.addr)' = Target(ic.addr)
    BY <2>3 DEF MemIndex, Register, Target
  <2>5. ~dmem.wr.en /\ ~MemStruck /\ dmem'.words = dmem.words
    <3>1. ~dmem.wr.en
      BY <1>1, <1>8, MemPortBusy
    <3> QED BY <1>2, <1>8, <3>1 DEF MemStruck
  <2>6. ~MemStruck' /\ prior' = dmem'.words
    BY <1>1, <1>3, <2>2, <2>3, <2>5 DEF MemStruck, Reading, MemoryKept
  <2>7. dmem'.rd.en => \/ dmem.rd.en /\ d = "dmem"
                       \/ RdOffered("dmem")
    <3> SUFFICES ASSUME dmem'.rd.en PROVE (dmem.rd.en /\ d = "dmem") \/ RdOffered("dmem")
      OBVIOUS
    <3>1. d = "dmem" /\ RdOn("dmem")'
      BY <1>5, <2>3
    <3>2. ~RdQuiet("dmem")' /\ ~RdOffered("dmem")'
      BY <3>1 DEF RdQuiet, RdOn, RdOffered
    <3>3. RdOffered("dmem") \/ RdStrobed("dmem")
      BY <2>2, <2>3, <3>1, <3>2 DEF Reading
    <3> QED BY <1>4, <3>1, <3>3 DEF RdStrobed, RdOn
  <2>8. dmem'.rd.en => dmem'.rd.timeout = Timeout - 1
    BY <1>6, <2>7
  <2>9. dmem'.pending => dmem'.rd.en /\ dmem'.rdata = dmem'.words[MemIndex']
    BY <1>2, <1>6, <2>4, <2>5
  <2>10. dmem'.rd.r => dmem'.rd.data = dmem'.words[MemIndex']
    <3> SUFFICES ASSUME dmem'.rd.r PROVE dmem'.rd.data = dmem'.words[MemIndex']
      OBVIOUS
    <3>1. d = "dmem"
      BY <1>5, <2>3
    <3>2. ~RdQuiet("dmem")' /\ ~RdOffered("dmem")'
      BY <1>4 DEF RdQuiet, RdOffered
    <3>3. RdOffered("dmem") \/ RdStrobed("dmem")
      BY <2>2, <2>3, <3>1, <3>2 DEF Reading
    <3>4. ~RdStrobed("dmem")'
      BY <1>4 DEF RdStrobed, RdOn
    <3>5. RdStrobed("dmem")
      BY <1>1, <1>8, <2>1, <3>1, <3>3, <3>4, FetchTurn
    <3>6. dmem.rd.en /\ dmem.pending
      <4>1. dmem.rd.en
        BY <1>4, <3>5 DEF RdStrobed, RdOn
      <4>2. ~dmem'.rd.en
        <5>1. dmem'.rd.en => ~dmem'.rd.r
          BY <1>4, <1>5 DEF RdOn
        <5> QED BY <5>1
      <4> QED BY <1>6, <4>1, <4>2
    <3> QED BY <1>6, <2>4, <2>5, <3>6
  <2>11. ic'.rvalid /\ Target(ic'.addr) = "dmem" => ic'.data = dmem'.words[MemIndex']
    <3> SUFFICES ASSUME ic'.rvalid, Target(ic'.addr) = "dmem" PROVE ic'.data = dmem'.words[MemIndex']
      OBVIOUS
    <3>1. d = "dmem"
      BY <2>2, <2>3
    <3>2. ic'.state = "waitIdle"
      BY <1>1 DEF PathInv, Dialogue
    <3>3. RdAnswered("dmem")
      BY <2>2, <2>3, <3>1, <3>2 DEF Reading
    <3>4. dmem.rd.r /\ ic'.data = dmem.rd.data
      BY <1>4, <2>3, <3>1, <3>3 DEF RdAnswered, RdEnd, ReadBits
    <3> QED BY <1>1, <2>4, <2>5, <3>4 DEF MemoryKept
  <2> QED BY <1>1, <2>5, <2>6, <2>8, <2>9, <2>10, <2>11 DEF MemoryKept
\* Neither
<1>9. CASE ~Working
  <2>1. ~dmem.wr.en /\ ~dmem.rd.en /\ ~dmem.rd.r /\ ~MemStruck
    BY <1>1, <1>9, MemPortBusy DEF Working, MemStruck
  <2>2. dmem'.words = dmem.words /\ ~dmem'.pending
    BY <1>2, <2>1
  <2>3. WrQuiet("dmem")' /\ RdQuiet("dmem")'
    BY <1>1, <1>4, <1>9, AllRest
  <2>4. ~dmem'.rd.en /\ ~dmem'.rd.r /\ ~MemStruck'
    BY <1>4, <2>3 DEF RdQuiet, WrQuiet, MemStruck, WrEnd
  <2>5. prior' = dmem'.words
    BY <1>1, <1>3, <2>1, <2>2 DEF MemoryKept
  <2>6. ~(ic'.rvalid /\ Target(ic'.addr) = "dmem")
    <3> SUFFICES ASSUME ic'.rvalid PROVE Target(ic'.addr) # "dmem"
      OBVIOUS
    <3>1. ic'.state = "waitIdle" /\ state' = "read"
      BY <1>1 DEF PathInv, Dialogue
    <3>2. ic.state = "decode"
      BY <1>1, <1>9, <3>1, PathStates, RestTurn, GrantTurn, AddressTurn, DataTurn, DropTurn, WaitTurn
         DEF Working
    <3>3. ic'.addr = ic.addr /\ Target(ic.addr) = NoDevice
      BY <1>1, <3>1, <3>2, DecodeTurn
    <3> QED BY <1>4, <3>3
  <2> QED BY <1>1, <2>2, <2>4, <2>5, <2>6 DEF MemoryKept
<1> QED BY <1>7, <1>8, <1>9 DEF Working

LEMMA MemorySteps == FabricInv /\ [Next]_vars => MemoryKept'
<1> SUFFICES ASSUME FabricInv, [Next]_vars PROVE MemoryKept'
  OBVIOUS
<1>1. CASE Edge \/ BusyEdge
  BY <1>1, Edges, MemoryStep
<1>2. CASE Reset
  BY <1>2, MemoryResets
<1>3. CASE UNCHANGED vars
  BY <1>3 DEF vars, devs, FabricInv, MemoryKept, MemStruck, MemIndex, Register, Target, WrEnd, Device
<1> QED BY <1>1, <1>2, <1>3 DEF Next

\* Where a transaction is and what memory holds, in every state.
THEOREM FabricInvariance == Spec => []FabricInv
<1>1. Init => FabricInv
  BY PathStarts, MemoryStarts DEF FabricInv
<1>2. FabricInv /\ [Next]_vars => FabricInv'
  BY PathSteps, MemorySteps DEF FabricInv
<1> QED BY <1>1, <1>2, PTL DEF Spec

-----------------------------------------------------------------------------
(* Bits, bytes and the image of memory that the master sees *)

LEMMA Powers == /\ 2 ^ 0 = 1 /\ 2 ^ 1 = 2 /\ 2 ^ 2 = 4 /\ 2 ^ 3 = 8 /\ 2 ^ 4 = 16
                /\ 2 ^ 5 = 32 /\ 2 ^ 6 = 64 /\ 2 ^ 7 = 128
  OBVIOUS

LEMMA ByteSum ==
  ASSUME NEW b \in 0 .. 255
  PROVE  b = (b % 2) + 2 * ((b \div 2) % 2) + 4 * ((b \div 4) % 2) + 8 * ((b \div 8) % 2)
             + 16 * ((b \div 16) % 2) + 32 * ((b \div 32) % 2) + 64 * ((b \div 64) % 2)
             + 128 * ((b \div 128) % 2)
  OBVIOUS

LEMMA ByteOfBits ==
  ASSUME NEW b \in 0 .. 255, NEW bits,
         \A j \in 0 .. 7 : j \in bits <=> (b \div 2 ^ j) % 2 = 1
  PROVE  ToByte(bits) = b
<1> DEFINE v(i) == IF i \in bits THEN 2 ^ i ELSE 0
<1>1. /\ v(0) = b % 2 /\ v(1) = 2 * ((b \div 2) % 2) /\ v(2) = 4 * ((b \div 4) % 2)
      /\ v(3) = 8 * ((b \div 8) % 2) /\ v(4) = 16 * ((b \div 16) % 2)
      /\ v(5) = 32 * ((b \div 32) % 2) /\ v(6) = 64 * ((b \div 64) % 2)
      /\ v(7) = 128 * ((b \div 128) % 2)
  BY Powers
<1>2. ToByte(bits) = v(0) + v(1) + v(2) + v(3) + v(4) + v(5) + v(6) + v(7)
  BY DEF ToByte
<1> HIDE DEF v
<1> QED BY <1>1, <1>2, ByteSum

LEMMA FieldBit ==
  ASSUME NEW w, NEW l \in Lane, NEW j \in 0 .. 7
  PROVE  j \in Field(w, 8 * l + 7, 8 * l) <=> 8 * l + j \in w
<1>1. 8 * l + j \in (8 * l) .. (8 * l + 7) /\ (8 * l + j) - 8 * l = j
  BY DEF Lane
<1>2. ASSUME j \in Field(w, 8 * l + 7, 8 * l) PROVE 8 * l + j \in w
  <2>1. PICK i \in w \cap ((8 * l) .. (8 * l + 7)) : j = i - 8 * l
    BY <1>2 DEF Field
  <2>2. i = 8 * l + j
    BY <2>1 DEF Lane
  <2> QED BY <2>1, <2>2
<1>3. ASSUME 8 * l + j \in w PROVE j \in Field(w, 8 * l + 7, 8 * l)
  <2>1. 8 * l + j \in w \cap ((8 * l) .. (8 * l + 7))
    BY <1>1, <1>3
  <2> QED BY <1>1, <2>1 DEF Field
<1> QED BY <1>2, <1>3

\* Four bytes go over the wires and back.
LEMMA BytesOfBits ==
  ASSUME NEW bytes \in [Lane -> 0 .. 255]
  PROVE  ToBytes(ToBits(bytes)) = bytes
<1>1. ASSUME NEW l \in Lane PROVE ToBytes(ToBits(bytes))[l] = bytes[l]
  <2>1. ASSUME NEW j \in 0 .. 7
        PROVE  j \in Field(ToBits(bytes), 8 * l + 7, 8 * l) <=> (bytes[l] \div 2 ^ j) % 2 = 1
    <3>1. 8 * l + j \in 0 .. 31 /\ (8 * l + j) \div 8 = l /\ (8 * l + j) % 8 = j
      BY DEF Lane
    <3>2. 8 * l + j \in ToBits(bytes) <=> (bytes[l] \div 2 ^ j) % 2 = 1
      BY <3>1 DEF ToBits
    <3> QED BY <3>2, FieldBit
  <2>2. bytes[l] \in 0 .. 255
    OBVIOUS
  <2>3. ToByte(Field(ToBits(bytes), 8 * l + 7, 8 * l)) = bytes[l]
    BY <2>1, <2>2, ByteOfBits
  <2> QED BY <2>3 DEF ToBytes
<1> QED BY <1>1 DEF ToBytes

LEMMA SameBits ==
  ASSUME NEW v, NEW w, \A j \in 0 .. 7 : j \in v <=> j \in w
  PROVE  ToByte(v) = ToByte(w)
<1> DEFINE at(u, i) == IF i \in u THEN 2 ^ i ELSE 0
<1>1. \A i \in 0 .. 7 : at(v, i) = at(w, i)
  OBVIOUS
<1>2. /\ ToByte(v) = at(v, 0) + at(v, 1) + at(v, 2) + at(v, 3) + at(v, 4) + at(v, 5) + at(v, 6)
                       + at(v, 7)
      /\ ToByte(w) = at(w, 0) + at(w, 1) + at(w, 2) + at(w, 3) + at(w, 4) + at(w, 5) + at(w, 6)
                       + at(w, 7)
  BY DEF ToByte
<1>3. /\ at(v, 0) = at(w, 0) /\ at(v, 1) = at(w, 1) /\ at(v, 2) = at(w, 2) /\ at(v, 3) = at(w, 3)
      /\ at(v, 4) = at(w, 4) /\ at(v, 5) = at(w, 5) /\ at(v, 6) = at(w, 6) /\ at(v, 7) = at(w, 7)
  BY <1>1
<1> HIDE DEF at
<1> QED BY <1>2, <1>3

\* Merged bit by bit, merged byte by byte.
LEMMA MergedBytes ==
  ASSUME NEW old, NEW new, NEW strb, NEW l \in Lane
  PROVE  ToBytes(Merge(old, new, strb))[l] = IF l \in strb THEN ToBytes(new)[l] ELSE ToBytes(old)[l]
<1>1. ASSUME NEW j \in 0 .. 7
      PROVE  8 * l + j \in Merge(old, new, strb) <=> 8 * l + j \in (IF l \in strb THEN new ELSE old)
  <2>1. 8 * l + j \in 0 .. XLEN - 1 /\ (8 * l + j) \div 8 = l
    BY SocAssumption DEF Lane
  <2>2. 8 * l + j \in Lanes(strb) <=> l \in strb
    BY <2>1 DEF Lanes
  <2> QED BY <2>2 DEF Merge
<1>2. ASSUME NEW j \in 0 .. 7
      PROVE  j \in Field(Merge(old, new, strb), 8 * l + 7, 8 * l)
               <=> j \in Field(IF l \in strb THEN new ELSE old, 8 * l + 7, 8 * l)
  BY <1>1, FieldBit
<1>3. ToByte(Field(Merge(old, new, strb), 8 * l + 7, 8 * l))
        = ToByte(Field(IF l \in strb THEN new ELSE old, 8 * l + 7, 8 * l))
  BY <1>2, SameBits
<1> QED BY <1>3 DEF ToBytes

LEMMA Product == \A s, q \in Nat : s * q \in Nat
  OBVIOUS

LEMMA Division ==
  ASSUME NEW a \in Nat, NEW s \in Nat \ {0}
  PROVE  \E q \in Nat : /\ q = a \div s /\ a % s = a - s * q
                       /\ s * q <= a /\ a < s * q + s
  OBVIOUS

LEMMA SameQuotient ==
  ASSUME NEW a \in Nat, NEW b \in Nat, NEW s \in Nat, s # 0, a \div s = b \div s, b % s = 0
  PROVE  a - b \in 0 .. s - 1 /\ a % s = a - b
<1>1. PICK q \in Nat : q = a \div s /\ a % s = a - s * q /\ s * q <= a /\ a < s * q + s
  BY Division
<1>2. PICK t \in Nat : t = b \div s /\ b % s = b - s * t /\ s * t <= b
  BY Division
<1>3. s * q = s * t /\ s * q \in Nat
  BY <1>1, <1>2, Product
<1>4. PICK p \in Nat : p = s * q
  BY <1>3
<1>5. a % s = a - p /\ p <= a /\ a < p + s
  BY <1>1, <1>4
<1>6. p = b
  <2>1. b - p = 0
    BY <1>2, <1>3, <1>4
  <2> QED BY <1>4, <2>1
<1>7. a - b \in 0 .. s - 1
  <2>1. p <= a /\ a < p + s
    BY <1>5
  <2> QED BY <1>4, <1>6, <2>1
<1> QED BY <1>5, <1>6, <1>7, Zenon

\* An address of memory's window and the index of its word.
LEMMA MemWindow ==
  ASSUME NEW a \in 0 .. NWords - 1, Target(a) = "dmem"
  PROVE  /\ a \in Window("dmem")
         /\ Register("dmem", a) = a - Base["dmem"]
         /\ Register("dmem", a) \in MemIndexes
<1> DEFINE s == Size["dmem"]
           b == Base["dmem"]
<1>1. s \in Nat /\ s # 0 /\ b \in Nat /\ b % s = 0 /\ a \in Nat /\ MemIndexes = 0 .. s - 1
  BY SocAssumption, MapAssumption
<1>2. a \div s = b \div s
  BY TargetDevice DEF NoDevice
<1>3. Register("dmem", a) = a % s
  BY DEF Register
<1>4. Window("dmem") = b .. b + s - 1
  BY DEF Window
<1> HIDE DEF s, b
<1>5. a - b \in 0 .. s - 1 /\ a % s = a - b
  BY <1>1, <1>2, SameQuotient
<1>6. a \in b .. b + s - 1 /\ a - b \in MemIndexes
  <2>1. a - b \in 0 .. s - 1
    BY <1>5
  <2> QED BY <1>1, <2>1
<1> QED BY <1>3, <1>4, <1>5, <1>6 DEF b

LEMMA ImageWord ==
  ASSUME NEW a \in 0 .. NWords - 1, Target(a) = "dmem", NEW words
  PROVE  DmemImage(words)[a] = ToBytes(words[Register("dmem", a)])
  BY MemWindow DEF DmemImage

\* A word written in memory, seen from the master.
Written(old, new, a, bytes, strb) ==
  new = [old EXCEPT ![a] = [l \in Lane |-> IF l \in strb THEN bytes[l] ELSE @[l]]]

LEMMA ImageWritten ==
  ASSUME NEW a \in 0 .. NWords - 1, Target(a) = "dmem",
         NEW words \in [MemIndexes -> SUBSET (0 .. 31)], NEW new, NEW strb,
         NEW i, i = Register("dmem", a),
         NEW v, v = Merge(words[i], new, strb), NEW after, after = [words EXCEPT ![i] = v]
  PROVE  Written(DmemImage(words), DmemImage(after), a, ToBytes(new), strb)
<1> DEFINE bytes == [l \in Lane |-> IF l \in strb THEN ToBytes(new)[l] ELSE DmemImage(words)[a][l]]
<1>1. a \in Window("dmem") /\ i = a - Base["dmem"] /\ i \in MemIndexes
  BY MemWindow
<1>2. DmemImage(words)[a] = ToBytes(words[i])
  BY ImageWord
<1>3. ToBytes(v) = bytes
  <2>1. \A l \in Lane : ToBytes(v)[l] = IF l \in strb THEN ToBytes(new)[l] ELSE ToBytes(words[i])[l]
    BY MergedBytes
  <2>2. ToBytes(v) = [l \in Lane |-> ToBytes(v)[l]]
    BY DEF ToBytes
  <2> QED BY <1>2, <2>1, <2>2
<1>4. DmemImage(after) = [DmemImage(words) EXCEPT ![a] = bytes]
  <2>1. DmemImage(after)[a] = bytes
    <3>1. after[i] = v
      BY <1>1
    <3>2. DmemImage(after)[a] = ToBytes(after[i])
      BY ImageWord
    <3> QED BY <1>3, <3>1, <3>2
  <2>2. ASSUME NEW w \in 0 .. NWords - 1, w # a PROVE DmemImage(after)[w] = DmemImage(words)[w]
    <3>1. CASE w \in Window("dmem")
      <4>1. w - Base["dmem"] # i
        <5>1. Base["dmem"] \in Nat /\ NWords \in Nat
          BY SocAssumption, MapAssumption
        <5> QED BY <1>1, <2>2, <5>1
      <4>2. after[w - Base["dmem"]] = words[w - Base["dmem"]]
        BY <1>1, <3>1, <4>1
      <4> QED BY <3>1, <4>2 DEF DmemImage
    <3>2. CASE w \notin Window("dmem")
      BY <3>2 DEF DmemImage
    <3> QED BY <3>1, <3>2
  <2>3. /\ DmemImage(after) = [w \in 0 .. NWords - 1 |-> DmemImage(after)[w]]
        /\ DmemImage(words) = [w \in 0 .. NWords - 1 |-> DmemImage(words)[w]]
    BY DEF DmemImage
  <2> HIDE DEF bytes
  <2> QED BY <2>1, <2>2, <2>3
<1> QED BY <1>4 DEF Written

-----------------------------------------------------------------------------
(* The slave that the master sees *)

AnswerType == ic.bvalid \in BOOLEAN /\ ic.rvalid \in BOOLEAN

LEMMA AnswerFields ==
  ASSUME NEW i, Whole(i), NEW m, NEW s, NEW n, n = IcEdge(i, m, s),
         i.state \in {"idle", "decode", "write", "writeDrop", "writeResp", "read", "waitIdle"}
  PROVE  n.bvalid \in BOOLEAN /\ n.rvalid \in BOOLEAN
<1> DEFINE b == i.bvalid /\ ~m.bready
           r == i.rvalid /\ ~m.rready
           f == Defaults(i, m, s)
           Typed(k) == Whole(k) /\ k.bvalid \in BOOLEAN /\ k.rvalid \in BOOLEAN
<1>1. Typed(f)
  <2>1. f = [i EXCEPT !.grant = Granted(i, m).grant, !.mask = Granted(i, m).mask,
               !.awready = FALSE, !.wready = FALSE, !.arready = FALSE,
               !.bvalid = b, !.rvalid = r,
               !.mAw = {d \in @ : ~s[d].awready}, !.mW = {d \in @ : ~s[d].wready}, !.mB = {},
               !.mAr = {d \in @ : ~s[d].arready}, !.mR = {}]
    BY Zenon DEF Defaults
  <2>2. (f.bvalid) = b /\ (f.rvalid) = r
    <3> HIDE DEF f, b, r
    <3> QED BY <2>1 DEF Whole
  <2>3. b \in BOOLEAN /\ r \in BOOLEAN
    OBVIOUS
  <2>4. Whole(f)
    BY DefaultsFields
  <2> HIDE DEF f, b, r
  <2> QED BY <2>2, <2>3, <2>4
<1> HIDE DEF f
<1>2. CASE i.state = "idle"
  <2>1. n = IdleNext(i, m, f)
    BY <1>2 DEF IcEdge, f
  <2> QED BY <1>1, <2>1 DEF IdleNext, Whole
<1>3. CASE i.state = "decode"
  <2>1. n = DecodeNext(i, f)
    BY <1>3 DEF IcEdge, f
  <2>2. PICK d : d = Target(i.addr)
    OBVIOUS
  <2>3. \/ d # NoDevice /\ i.grant = "read" /\ n = [f EXCEPT !.select = d, !.mR = {d}, !.state = "read"]
        \/ d # NoDevice /\ i.grant # "read" /\ n = [f EXCEPT !.select = d, !.wready = TRUE, !.state = "write"]
        \/ d = NoDevice /\ i.grant = "read"
           /\ n = [f EXCEPT !.data = {}, !.rvalid = TRUE, !.state = "waitIdle"]
        \/ d = NoDevice /\ i.grant # "read"
           /\ n = [f EXCEPT !.data = {}, !.wready = TRUE, !.state = "writeDrop"]
    BY <2>1, <2>2 DEF DecodeNext
  <2> QED BY <1>1, <2>3 DEF Whole
<1>4. CASE i.state = "write"
  <2>1. n = WriteNext(i, m, f)
    BY <1>4 DEF IcEdge, f
  <2>2. PICK x : x = IF i.addrValid THEN f.mAw \cup {i.select} ELSE f.mAw
    OBVIOUS
  <2>3. PICK o : o = [f EXCEPT !.mAw = x, !.addrValid = FALSE]
    OBVIOUS
  <2>4. n \in {[o EXCEPT !.data = m.data, !.strb = m.strb, !.mW = @ \cup {i.select},
                         !.mB = {i.select}, !.state = "writeResp"], [o EXCEPT !.wready = TRUE]}
    BY <2>1, <2>2, <2>3, Zenon DEF WriteNext
  <2>5. Typed(o)
    BY <1>1, <2>3 DEF Whole
  <2> QED BY <2>4, <2>5 DEF Whole
<1>5. CASE i.state = "writeResp"
  <2>1. n = WriteRespNext(i, s, f)
    BY <1>5 DEF IcEdge, f
  <2> QED BY <1>1, <2>1 DEF WriteRespNext, Whole
<1>6. CASE i.state = "writeDrop"
  <2>1. n = WriteDropNext(i, m, f)
    BY <1>6 DEF IcEdge, f
  <2> QED BY <1>1, <2>1 DEF WriteDropNext, Whole
<1>7. CASE i.state = "read"
  <2>1. n = ReadNext(i, s, f)
    BY <1>7 DEF IcEdge, f
  <2>2. PICK x : x = IF i.addrValid THEN f.mAr \cup {i.select} ELSE f.mAr
    OBVIOUS
  <2>3. PICK o : o = [f EXCEPT !.mAr = x, !.addrValid = FALSE]
    OBVIOUS
  <2>4. n \in {[o EXCEPT !.data = s[i.select].rdata, !.rvalid = TRUE, !.state = "waitIdle"],
               [o EXCEPT !.mR = {i.select}]}
    BY <2>1, <2>2, <2>3, Zenon DEF ReadNext
  <2>5. Typed(o)
    BY <1>1, <2>3 DEF Whole
  <2> QED BY <2>4, <2>5 DEF Whole
<1>8. CASE i.state = "waitIdle"
  <2>1. n = WaitIdleNext(i, m, f)
    BY <1>8 DEF IcEdge, f
  <2> QED BY <1>1, <2>1 DEF WaitIdleNext, Whole
<1> QED BY <1>2, <1>3, <1>4, <1>5, <1>6, <1>7, <1>8

LEMMA AnswersTyped == Spec => []AnswerType
<1>1. Init => AnswerType
  BY DEF Init, AnswerType, IcInit, IcReset
<1>2. PathInv /\ AnswerType /\ [Next]_vars => AnswerType'
  <2> SUFFICES ASSUME PathInv, AnswerType, [Next]_vars PROVE AnswerType'
    OBVIOUS
  <2>1. CASE Edge \/ BusyEdge
    <3>1. PICK busy, sw, value : ClockEdge(busy, sw, value)
      BY <2>1, Edges
    <3>2. ic' = IcEdge(ic, FromMaster, FromDevices)
      BY <3>1 DEF ClockEdge
    <3>3. Whole(ic) /\ ic.state \in {"idle", "decode", "write", "writeDrop", "writeResp", "read",
                                     "waitIdle"}
      BY DEF PathInv, Dialogue
    <3> QED BY <3>2, <3>3, AnswerFields DEF AnswerType
  <2>2. CASE Reset
    <3>1. ic' = IcReset(ic) /\ Whole(ic)
      BY <2>2 DEF Reset, PathInv
    <3> QED BY <3>1 DEF IcReset, Whole, AnswerType
  <2>3. CASE UNCHANGED vars
    BY <2>3 DEF vars, devs, AnswerType
  <2> QED BY <2>1, <2>2, <2>3 DEF Next
<1>3. FabricInv => PathInv
  BY DEF FabricInv
<1> QED BY <1>1, <1>2, <1>3, FabricInvariance, PTL DEF Spec

\* The slave, from the address accepted to the answer.
Holding(aw, w, ar, b, r, addr, strb, data, rdata) ==
  [aw |-> aw, w |-> w, ar |-> ar, bvalid |-> b, rvalid |-> r, addr |-> addr, strb |-> strb,
   data |-> data, rdata |-> rdata]
TookAddress(a)         == Holding(TRUE, FALSE, FALSE, FALSE, FALSE, a, {}, Zeros, Zeros)
TookWrite(a, s, b)     == Holding(TRUE, TRUE, FALSE, FALSE, FALSE, a, s, b, Zeros)
AnsweredWrite(a, s, b) == Holding(TRUE, TRUE, FALSE, TRUE, FALSE, a, s, b, Zeros)
TookRead(a)            == Holding(FALSE, FALSE, TRUE, FALSE, FALSE, a, {}, Zeros, Zeros)
AnsweredRead(a, b)     == Holding(FALSE, FALSE, TRUE, FALSE, TRUE, a, {}, Zeros, b)

\* What the slave is, state by state.
SlaveForm ==
  /\ ic.state \in {"idle", "decode"} => AsSlave(ic) = M!Free
  /\ ic.state \in {"write", "writeDrop"} => AsSlave(ic) = TookAddress(ic.addr)
  /\ ic.state = "writeResp" => AsSlave(ic) = TookWrite(ic.addr, ic.strb, ToBytes(ic.data))
  /\ ic.state = "waitIdle" /\ state = "wresp" =>
       AsSlave(ic) = AnsweredWrite(ic.addr, ic.strb, ToBytes(ic.data))
  /\ ic.state = "read" => AsSlave(ic) = TookRead(ic.addr)
  /\ ic.state = "waitIdle" /\ state = "read" => AsSlave(ic) = AnsweredRead(ic.addr, ToBytes(ic.data))
  /\ ic.bvalid = (state = "wresp" /\ ic.state = "waitIdle")
  /\ ic.rvalid = (state = "read" /\ ic.state = "waitIdle")

LEMMA SlaveOf == PathInv /\ AnswerType => SlaveForm
<1> SUFFICES ASSUME PathInv, AnswerType PROVE SlaveForm
  OBVIOUS
<1> DEFINE b == ToBytes(ic.data)
           aw == ic.state \in {"write", "writeDrop", "writeResp"} \/ ic.bvalid
           w  == ic.state = "writeResp" \/ ic.bvalid
           ar == ic.state = "read" \/ ic.rvalid
           a == IF aw \/ ar THEN ic.addr ELSE 0
           t == IF w THEN ic.strb ELSE {}
           d == IF w THEN b ELSE Zeros
           r == IF ic.rvalid THEN b ELSE Zeros
<1>1. /\ ic.bvalid = (state = "wresp" /\ ic.state = "waitIdle")
      /\ ic.rvalid = (state = "read" /\ ic.state = "waitIdle")
  BY DEF PathInv, Dialogue, AnswerType
<1>2. M!Free = Holding(FALSE, FALSE, FALSE, FALSE, FALSE, 0, {}, Zeros, Zeros)
  BY DEF M!Free, Zeros, Lane, M!Lane, Holding
<1>3. AsSlave(ic) = Holding(aw, w, ar, ic.bvalid, ic.rvalid, a, t, d, r)
  BY Zenon DEF AsSlave, Holding
<1>4. /\ aw \in BOOLEAN /\ w \in BOOLEAN /\ ar \in BOOLEAN
      /\ ic.bvalid \in BOOLEAN /\ ic.rvalid \in BOOLEAN
  BY DEF AnswerType
<1>5. ASSUME ic.state \in {"idle", "decode"} PROVE AsSlave(ic) = M!Free
  <2>1. /\ aw = FALSE /\ w = FALSE /\ ar = FALSE /\ ic.bvalid = FALSE /\ ic.rvalid = FALSE
        /\ a = 0 /\ t = {} /\ d = Zeros /\ r = Zeros
    BY <1>1, <1>4, <1>5
  <2> QED BY <1>2, <1>3, <2>1, Zenon
<1>6. ASSUME ic.state \in {"write", "writeDrop"} PROVE AsSlave(ic) = TookAddress(ic.addr)
  <2>1. /\ aw = TRUE /\ w = FALSE /\ ar = FALSE /\ ic.bvalid = FALSE /\ ic.rvalid = FALSE
        /\ a = ic.addr /\ t = {} /\ d = Zeros /\ r = Zeros
    BY <1>1, <1>4, <1>6
  <2> QED BY <1>3, <2>1, Zenon DEF TookAddress
<1>7. ASSUME ic.state = "writeResp" PROVE AsSlave(ic) = TookWrite(ic.addr, ic.strb, b)
  <2>1. /\ aw = TRUE /\ w = TRUE /\ ar = FALSE /\ ic.bvalid = FALSE /\ ic.rvalid = FALSE
        /\ a = ic.addr /\ t = ic.strb /\ d = b /\ r = Zeros
    BY <1>1, <1>4, <1>7
  <2> QED BY <1>3, <2>1, Zenon DEF TookWrite
<1>8. ASSUME ic.state = "read" PROVE AsSlave(ic) = TookRead(ic.addr)
  <2>1. /\ aw = FALSE /\ w = FALSE /\ ar = TRUE /\ ic.bvalid = FALSE /\ ic.rvalid = FALSE
        /\ a = ic.addr /\ t = {} /\ d = Zeros /\ r = Zeros
    BY <1>1, <1>4, <1>8
  <2> QED BY <1>3, <2>1, Zenon DEF TookRead
<1>9. ASSUME ic.state = "waitIdle", state = "wresp"
      PROVE  AsSlave(ic) = AnsweredWrite(ic.addr, ic.strb, b)
  <2>1. /\ aw = TRUE /\ w = TRUE /\ ar = FALSE /\ ic.bvalid = TRUE /\ ic.rvalid = FALSE
        /\ a = ic.addr /\ t = ic.strb /\ d = b /\ r = Zeros
    BY <1>1, <1>4, <1>9
  <2> QED BY <1>3, <2>1, Zenon DEF AnsweredWrite
<1>10. ASSUME ic.state = "waitIdle", state = "read" PROVE AsSlave(ic) = AnsweredRead(ic.addr, b)
  <2>1. /\ aw = FALSE /\ w = FALSE /\ ar = TRUE /\ ic.bvalid = FALSE /\ ic.rvalid = TRUE
        /\ a = ic.addr /\ t = {} /\ d = Zeros /\ r = b
    BY <1>1, <1>4, <1>10
  <2> QED BY <1>3, <2>1, Zenon DEF AnsweredRead
<1> HIDE DEF b
<1> QED BY <1>1, <1>5, <1>6, <1>7, <1>8, <1>9, <1>10, Zenon DEF SlaveForm, b

\* What the handshakes of a cycle make of the slave.
LEMMA Accepts ==
  ASSUME PathInv
  PROVE  LET aw == state = "write" /\ ic.state = "decode"
             w  == ic.state \in {"write", "writeDrop"}
             ar == state = "read" /\ ic.state = "decode"
         IN  M!Accepted(Channels) =
               [AsSlave(ic) EXCEPT !.aw = @ \/ aw, !.w = @ \/ w, !.ar = @ \/ ar,
                                   !.addr = IF aw \/ ar THEN M!Addr ELSE @,
                                   !.strb = IF w THEN M!Wstrb ELSE @,
                                   !.data = IF w THEN M!Wdata ELSE @]
<1>1. /\ M!AwFire(Channels) <=> state = "write" /\ ic.state = "decode"
      /\ M!WFire(Channels) <=> ic.state \in {"write", "writeDrop"}
      /\ M!ArFire(Channels) <=> state = "read" /\ ic.state = "decode"
  BY Fires DEF PathInv, Dialogue
<1>2. /\ M!AwFire(Channels) \in BOOLEAN /\ M!WFire(Channels) \in BOOLEAN
      /\ M!ArFire(Channels) \in BOOLEAN
  BY DEF M!AwFire, M!WFire, M!ArFire
<1>3. /\ M!AwFire(Channels) = (state = "write" /\ ic.state = "decode")
      /\ M!WFire(Channels) = (ic.state \in {"write", "writeDrop"})
      /\ M!ArFire(Channels) = (state = "read" /\ ic.state = "decode")
  BY <1>1, <1>2
<1> QED BY <1>3, Zenon DEF M!Accepted

\* The same, in each of the interconnect's states.
LEMMA AcceptedIn ==
  ASSUME PathInv, AnswerType
  PROVE  /\ ic.state = "idle" => M!Accepted(Channels) = M!Free
         /\ ic.state = "decode" /\ state = "write" => M!Accepted(Channels) = TookAddress(M!Addr)
         /\ ic.state = "decode" /\ state = "read" => M!Accepted(Channels) = TookRead(M!Addr)
         /\ ic.state = "write" => M!Accepted(Channels) = TookWrite(ic.addr, M!Wstrb, M!Wdata)
         /\ ic.state \in {"writeResp", "read"} => M!Accepted(Channels) = AsSlave(ic)
<1>1. SlaveForm
  BY SlaveOf
<1> DEFINE s  == AsSlave(ic)
           aw == s.aw \/ (state = "write" /\ ic.state = "decode")
           w  == s.w \/ ic.state \in {"write", "writeDrop"}
           ar == s.ar \/ (state = "read" /\ ic.state = "decode")
           a == IF (state = "write" /\ ic.state = "decode") \/ (state = "read" /\ ic.state = "decode")
                THEN M!Addr ELSE s.addr
           t == IF ic.state \in {"write", "writeDrop"} THEN M!Wstrb ELSE s.strb
           d == IF ic.state \in {"write", "writeDrop"} THEN M!Wdata ELSE s.data
           n == M!Accepted(Channels)
<1>2. n = [s EXCEPT !.aw = aw, !.w = w, !.ar = ar, !.addr = a, !.strb = t, !.data = d]
  BY Accepts, Zenon
<1>3. M!Free = Holding(FALSE, FALSE, FALSE, FALSE, FALSE, 0, {}, Zeros, Zeros)
  BY DEF M!Free, Zeros, Lane, M!Lane, Holding
<1>4. ASSUME NEW aw0, NEW w0, NEW ar0, NEW a0, NEW t0, NEW d0, NEW x, NEW b, NEW r,
             s = Holding(aw0, w0, ar0, b, r, a0, t0, d0, x)
      PROVE  /\ n = Holding(aw, w, ar, b, r, a, t, d, x)
             /\ s.aw = aw0 /\ s.w = w0 /\ s.ar = ar0 /\ s.addr = a0 /\ s.strb = t0 /\ s.data = d0
  <2>1. /\ s.aw = aw0 /\ s.w = w0 /\ s.ar = ar0 /\ s.addr = a0 /\ s.strb = t0 /\ s.data = d0
    BY <1>4 DEF Holding
  <2> HIDE DEF s, aw, w, ar, a, t, d, n
  <2> QED BY <1>2, <1>4, <2>1 DEF Holding
<1> HIDE DEF n, s
<1>5. ASSUME ic.state = "idle" PROVE n = M!Free
  <2>1. s = M!Free
    BY <1>1, <1>5 DEF SlaveForm, s
  <2>2. /\ n = Holding(aw, w, ar, FALSE, FALSE, a, t, d, Zeros)
        /\ s.aw = FALSE /\ s.w = FALSE /\ s.ar = FALSE /\ s.addr = 0 /\ s.strb = {} /\ s.data = Zeros
    BY <1>3, <1>4, <2>1, ZenonT(60)
  <2>3. aw = FALSE /\ w = FALSE /\ ar = FALSE /\ a = 0 /\ t = {} /\ d = Zeros
    BY <1>5, <2>2
  <2> QED BY <1>3, <2>2, <2>3, Zenon
<1>6. ASSUME ic.state = "decode" PROVE /\ state = "write" => n = TookAddress(M!Addr)
                                       /\ state = "read" => n = TookRead(M!Addr)
  <2>1. s = M!Free
    BY <1>1, <1>6 DEF SlaveForm, s
  <2>2. /\ n = Holding(aw, w, ar, FALSE, FALSE, a, t, d, Zeros)
        /\ s.aw = FALSE /\ s.w = FALSE /\ s.ar = FALSE /\ s.addr = 0 /\ s.strb = {} /\ s.data = Zeros
    BY <1>3, <1>4, <2>1, ZenonT(60)
  <2>3. state = "write" =>
          aw = TRUE /\ w = FALSE /\ ar = FALSE /\ a = M!Addr /\ t = {} /\ d = Zeros
    BY <1>6, <2>2
  <2>4. state = "read" =>
          aw = FALSE /\ w = FALSE /\ ar = TRUE /\ a = M!Addr /\ t = {} /\ d = Zeros
    BY <1>6, <2>2
  <2> QED BY <2>2, <2>3, <2>4, Zenon DEF TookAddress, TookRead
<1>7. ASSUME ic.state = "write" PROVE n = TookWrite(ic.addr, M!Wstrb, M!Wdata)
  <2>1. s = Holding(TRUE, FALSE, FALSE, FALSE, FALSE, ic.addr, {}, Zeros, Zeros)
    BY <1>1, <1>7 DEF SlaveForm, s, TookAddress
  <2>2. /\ n = Holding(aw, w, ar, FALSE, FALSE, a, t, d, Zeros)
        /\ s.aw = TRUE /\ s.w = FALSE /\ s.ar = FALSE /\ s.addr = ic.addr /\ s.strb = {}
        /\ s.data = Zeros
    BY <1>4, <2>1, Zenon
  <2>3. aw = TRUE /\ w = TRUE /\ ar = FALSE /\ a = ic.addr /\ t = M!Wstrb /\ d = M!Wdata
    BY <1>7, <2>2
  <2> QED BY <2>2, <2>3, Zenon DEF TookWrite
<1>8. ASSUME ic.state = "writeResp" PROVE n = s
  <2>1. PICK a0, t0, d0 : s = Holding(TRUE, TRUE, FALSE, FALSE, FALSE, a0, t0, d0, Zeros)
    BY <1>1, <1>8 DEF SlaveForm, s, TookWrite
  <2>2. /\ n = Holding(aw, w, ar, FALSE, FALSE, a, t, d, Zeros)
        /\ s.aw = TRUE /\ s.w = TRUE /\ s.ar = FALSE /\ s.addr = a0 /\ s.strb = t0 /\ s.data = d0
    BY <1>4, <2>1, Zenon
  <2>3. aw = TRUE /\ w = TRUE /\ ar = FALSE /\ a = a0 /\ t = t0 /\ d = d0
    BY <1>8, <2>2
  <2> QED BY <2>1, <2>2, <2>3, Zenon
<1>9. ASSUME ic.state = "read" PROVE n = s
  <2>1. s = Holding(FALSE, FALSE, TRUE, FALSE, FALSE, ic.addr, {}, Zeros, Zeros)
    BY <1>1, <1>9 DEF SlaveForm, s, TookRead
  <2>2. /\ n = Holding(aw, w, ar, FALSE, FALSE, a, t, d, Zeros)
        /\ s.aw = FALSE /\ s.w = FALSE /\ s.ar = TRUE /\ s.addr = ic.addr /\ s.strb = {}
        /\ s.data = Zeros
    BY <1>4, <2>1, Zenon
  <2>3. aw = FALSE /\ w = FALSE /\ ar = TRUE /\ a = ic.addr /\ t = {} /\ d = Zeros
    BY <1>9, <2>2
  <2> QED BY <2>1, <2>2, <2>3, Zenon
<1> HIDE DEF aw, w, ar, a, t, d
<1> QED BY <1>5, <1>6, <1>7, <1>8, <1>9, Zenon DEF n, s

LEMMA ReadyOnce ==
  ASSUME PathInv, AnswerType
  PROVE  M!MayAccept(Channels)
<1>1. SlaveForm
  BY SlaveOf
<1>2. /\ "aw" \in Channels => ic.state = "decode"
      /\ "w" \in Channels => ic.state \in {"write", "writeDrop"}
      /\ "ar" \in Channels => ic.state = "decode"
  BY DEF Channels, PathInv, Dialogue
<1>3. ~M!Free.aw /\ ~M!Free.ar /\ \A a : ~TookAddress(a).w
  BY DEF M!Free, TookAddress, Holding
<1> QED BY <1>1, <1>2, <1>3 DEF SlaveForm, M!MayAccept

\* The answer is taken while the interconnect waits for it.
LEMMA Taken ==
  ASSUME PathInv
  PROVE  M!RespFire <=> ic.state = "waitIdle"
<1>1. /\ AsSlave(ic).bvalid <=> ic.bvalid
      /\ AsSlave(ic).rvalid <=> ic.rvalid
  BY SlaveWires
<1>2. M!RespFire <=> (AsSlave(ic).bvalid /\ bready) \/ (AsSlave(ic).rvalid /\ rready)
  BY Zenon DEF M!RespFire
<1> QED BY <1>1, <1>2 DEF PathInv, Dialogue

\* Memory, as the master sees it, is that before the write under way.
SeenMemory == DmemImage(IF WriteUnderWay(ic) THEN prior ELSE dmem.words) = DmemImage(prior)

LEMMA SeenIsPrior == MemoryKept => SeenMemory
  BY DEF MemoryKept, MemStruck, WriteUnderWay, SeenMemory

LEMMA PriorStep ==
  ASSUME FabricInv, NEW busy, NEW sw, NEW value, ClockEdge(busy, sw, value)
  PROVE  /\ MemStruck => prior' = dmem.words
         /\ ~MemStruck => prior' = prior
<1>1. PathInv /\ MemoryKept
  BY DEF FabricInv
<1>2. prior' = IF ic'.state \in {"write", "writeResp"} THEN prior ELSE dmem'.words
  BY DEF ClockEdge, WriteUnderWay
<1>3. CASE MemStruck
  <2>1. ic.state = "writeResp" /\ ic.select = "dmem" /\ WrEnd("dmem") /\ "dmem" \in Devices
    BY <1>3, SocAssumption DEF MemStruck
  <2>2. WrAnswered("dmem")
    BY <1>1, <2>1 DEF PathInv, AtWork, Writing, WrOffered, WrStrobed, WrAnswered, WrQuiet, WrOn, WrEnd
  <2>3. ic'.state = "waitIdle"
    BY <1>1, <2>1, <2>2, RespTurn
  <2>4. ~dmem.wr.en
    BY <2>1 DEF WrEnd, Device
  <2> QED BY <1>1, <1>2, <1>3, <2>3, <2>4, MemEdges
<1>4. CASE ~MemStruck
  <2>1. prior = dmem.words
    BY <1>1, <1>4 DEF MemoryKept
  <2>2. CASE ic'.state \in {"write", "writeResp"}
    BY <1>2, <1>4, <2>2
  <2>3. CASE ic'.state \notin {"write", "writeResp"}
    <3>1. ~dmem.wr.en
      <4> SUFFICES ASSUME dmem.wr.en PROVE FALSE
        OBVIOUS
      <4>1. ic.state = "writeResp" /\ ic.select = "dmem" /\ WrStrobed("dmem") /\ "dmem" \in Devices
        BY <1>1, MemPortBusy, SocAssumption
      <4> QED BY <1>1, <2>3, <4>1, RespTurn
    <3> QED BY <1>1, <1>2, <1>4, <2>1, <2>3, <3>1, MemEdges
  <2> QED BY <2>2, <2>3
<1> QED BY <1>3, <1>4

LEMMA NoAnswer ==
  ASSUME NEW old, NEW new, ~new.bvalid, ~new.rvalid
  PROVE  AnswersOf(old, new) = <<>>
<1>1. AnswersOf(old, new) = <<>> \o <<>>
  BY Zenon DEF AnswersOf
<1> QED BY <1>1

LEMMA WriteAnswer ==
  ASSUME NEW old, NEW new, ~old.bvalid, new.bvalid, ~new.rvalid
  PROVE  AnswersOf(old, new) = <<[op |-> "write", word |-> new.addr]>>
<1>1. AnswersOf(old, new) = <<[op |-> "write", word |-> new.addr]>> \o <<>>
  BY Zenon DEF AnswersOf
<1> QED BY <1>1

LEMMA ReadAnswer ==
  ASSUME NEW old, NEW new, ~new.bvalid, ~old.rvalid, new.rvalid
  PROVE  AnswersOf(old, new) = <<[op |-> "read", word |-> new.addr]>>
<1>1. AnswersOf(old, new) = <<>> \o <<[op |-> "read", word |-> new.addr]>>
  BY Zenon DEF AnswersOf
<1> QED BY <1>1

\* A write in memory ends in the cycle that answers it.
LEMMA StruckEnds ==
  ASSUME FabricInv, NEW busy, NEW sw, NEW value, ClockEdge(busy, sw, value), MemStruck
  PROVE  ic.state = "writeResp" /\ ic.select = "dmem" /\ ic'.state = "waitIdle"
<1>1. ic.state = "writeResp" /\ ic.select = "dmem" /\ WrEnd("dmem") /\ "dmem" \in Devices
      /\ PathInv
  BY SocAssumption DEF MemStruck, FabricInv
<1>2. WrAnswered("dmem")
  BY <1>1 DEF PathInv, AtWork, Writing, WrOffered, WrStrobed, WrAnswered, WrQuiet, WrOn, WrEnd
<1> QED BY <1>1, <1>2, RespTurn

\* The slave takes what is offered, and does not answer yet.
LEMMA Waits ==
  ASSUME FabricInv, FabricInv', AnswerType', NEW busy, NEW sw, NEW value,
         ClockEdge(busy, sw, value), ic.state # "waitIdle", ic'.state # "waitIdle",
         AsSlave(ic)' = M!Accepted(Channels)
  PROVE  M!SlaveWaits(Channels)
<1>1. ~M!RespFire
  BY Taken DEF FabricInv
<1>2. prior' = prior
  BY StruckEnds, PriorStep
<1>3. SeenMemory /\ SeenMemory'
  <2>1. (MemoryKept => SeenMemory)'
    BY SeenIsPrior, PTL
  <2> QED BY <2>1, SeenIsPrior DEF FabricInv
<1>4. M!Log(<<>>)
  <2>1. ~ic'.bvalid /\ ~ic'.rvalid
    BY DEF FabricInv, PathInv, Dialogue
  <2>2. AnswersOf(ic, ic') = <<>>
    BY <2>1, NoAnswer
  <2>3. M!Log(AnswersOf(ic, ic'))
    BY DEF ClockEdge
  <2> QED BY <2>2, <2>3
<1>5. DmemImage(prior)' = DmemImage(prior)
  BY <1>2 DEF DmemImage
<1> QED BY <1>1, <1>3, <1>4, <1>5 DEF M!SlaveWaits, SeenMemory

LEMMA DmemAddress ==
  ASSUME PathInv, InDmem(req), state # "idle"
  PROVE  Target(M!Addr) = "dmem" /\ M!Addr \in 0 .. NWords - 1
<1>1. req \in Requests \cup {M!None} /\ req # M!None /\ NWords \in Nat \ {0, 1}
      /\ Requests \subseteq M!Access
  <2>1. req.op # "none" /\ M!None.op = "none"
    BY DEF InDmem, M!None
  <2> QED BY <2>1, SocAssumption DEF PathInv, ForRequest
<1>2. req.word \in 0 .. NWords - 1 /\ req.lane \in 0 .. 3 /\ req.funct3 \in 0 .. 7
  BY <1>1 DEF M!Access, M!WordAddr, M!Lane
<1>3. M!WordOf(req, 0) = M!AddrLo /\ M!AddrLo \in 0 .. NWords - 1 /\ M!AddrHi \in 0 .. NWords - 1
  BY <1>1, <1>2 DEF M!WordOf, M!AddrLo, M!AddrHi
<1>4. M!Crosses => M!WordOf(req, M!ReadBytes(req) - 1) = M!AddrHi
  BY <1>1, <1>2 DEF M!Crosses, M!IsWord, M!IsHalf, M!ReadBytes, M!Width, M!WordOf, M!AddrHi
<1>5. phase2 => M!Crosses
  BY DEF PathInv, ForRequest
<1> QED BY <1>3, <1>4, <1>5 DEF InDmem, M!Addr

\* The bytes that the master drives are bytes.
LEMMA OfferedBytes ==
  ASSUME PathInv
  PROVE  M!Wdata \in [Lane -> 0 .. 255]
<1>1. req \in Requests \cup {M!None} /\ Requests \subseteq M!Access
  BY SocAssumption DEF PathInv, ForRequest
<1>2. req.data \in [0 .. 3 -> 0 .. 255] /\ req.lane \in 0 .. 3
  BY <1>1 DEF M!Access, M!None, M!Bytes, M!Byte, M!Lane
<1>3. \A k : M!Shifted(k) \in 0 .. 255
  BY <1>2 DEF M!Shifted, M!Lane
<1> QED BY <1>3 DEF M!Wdata, M!DataLo, M!DataHi, Lane, M!Lane

\* An edge before the device answers.
LEMMA WaitingEdge ==
  ASSUME FabricInv, AnswerType, FabricInv', AnswerType', NEW busy, NEW sw, NEW value,
         ClockEdge(busy, sw, value), req = M!None \/ InDmem(req),
         ic.state # "waitIdle", ic'.state # "waitIdle"
  PROVE  M!SlaveWaits(Channels)
<1> SUFFICES AsSlave(ic)' = M!Accepted(Channels)
  BY Waits
<1>1. PathInv /\ PathInv'
  BY DEF FabricInv
<1>2. SlaveForm /\ SlaveForm'
  <2>1. (PathInv /\ AnswerType => SlaveForm)'
    BY SlaveOf, PTL
  <2> QED BY <1>1, <2>1, SlaveOf
<1>3. state = "idle" \/ Target(M!Addr) = "dmem"
  <2>1. req = M!None => state = "idle"
    BY <1>1 DEF PathInv, ForRequest, Dialogue, M!None
  <2> QED BY <1>1, <2>1, DmemAddress
<1>4. CASE ic.state = "idle"
  <2>1. ic'.state \in {"idle", "decode"}
    BY <1>1, <1>4, PathStates, RestTurn, GrantTurn, AddressTurn
  <2>2. M!Accepted(Channels) = M!Free
    BY <1>1, <1>4, AcceptedIn
  <2> QED BY <1>2, <2>1, <2>2 DEF SlaveForm
<1>5. CASE ic.state = "decode"
  <2>1. Target(ic.addr) = "dmem" /\ ic.addr = M!Addr /\ NoDevice # "dmem"
    BY <1>1, <1>3, <1>5 DEF PathInv, Routed, Dialogue, NoDevice
  <2>2. /\ ic'.addr = ic.addr /\ state \in {"write", "read"}
        /\ ic'.state = IF state = "write" THEN "write" ELSE "read"
    BY <1>1, <1>5, <2>1, DecodeTurn
  <2>3. M!Accepted(Channels) = IF state = "write" THEN TookAddress(M!Addr) ELSE TookRead(M!Addr)
    BY <1>1, <1>5, <2>2, AcceptedIn
  <2>4. CASE state = "write"
    BY <1>2, <2>1, <2>2, <2>3, <2>4 DEF SlaveForm, TookAddress, Holding
  <2>5. CASE state = "read"
    BY <1>2, <2>1, <2>2, <2>3, <2>5 DEF SlaveForm, TookRead, Holding
  <2> QED BY <2>2, <2>4, <2>5
<1>6. CASE ic.state = "write"
  <2>1. /\ ic'.state = "writeResp" /\ ic'.addr = ic.addr /\ ic'.data = ToBits(M!Wdata)
        /\ ic'.strb = M!Wstrb
    BY <1>1, <1>6, DataTurn
  <2>2. ToBytes(ic'.data) = M!Wdata
    BY <1>1, <2>1, OfferedBytes, BytesOfBits
  <2>3. M!Accepted(Channels) = TookWrite(ic.addr, M!Wstrb, M!Wdata)
    BY <1>1, <1>6, AcceptedIn
  <2>4. AsSlave(ic)' = TookWrite(ic'.addr, ic'.strb, ToBytes(ic'.data))
    BY <1>2, <2>1 DEF SlaveForm, TookWrite, Holding, ToBytes
  <2> QED BY <2>1, <2>2, <2>3, <2>4
<1>7. CASE ic.state = "writeDrop"
  <2>1. Target(ic.addr) = NoDevice /\ ic.addr = M!Addr /\ state # "idle" /\ NoDevice # "dmem"
    BY <1>1, <1>7 DEF PathInv, Routed, Dialogue, NoDevice
  <2> QED BY <1>3, <2>1
<1>8. CASE ic.state = "writeResp"
  <2>1. PICK d \in Devices : d = ic.select
    BY <1>1, <1>8 DEF PathInv, Routed
  <2>2. /\ ic'.addr = ic.addr /\ ic'.data = ic.data /\ ic'.strb = ic.strb
        /\ state' = "wresp"
    BY <1>1, <1>8, <2>1, RespTurn
  <2>3. ic'.state = "writeResp"
    BY <1>1, <2>2 DEF PathInv, Dialogue
  <2>4. AsSlave(ic)' = TookWrite(ic'.addr, ic'.strb, ToBytes(ic'.data))
    BY <1>2, <2>3 DEF SlaveForm, TookWrite, Holding, ToBytes
  <2>5. M!Accepted(Channels) = TookWrite(ic.addr, ic.strb, ToBytes(ic.data))
    BY <1>1, <1>2, <1>8, AcceptedIn DEF SlaveForm
  <2> QED BY <2>2, <2>4, <2>5
<1>9. CASE ic.state = "read"
  <2>1. PICK d \in Devices : d = ic.select
    BY <1>1, <1>9 DEF PathInv, Routed
  <2>2. ic'.addr = ic.addr /\ state' = "read" /\ Reading(d)
        /\ (RdSelected(d) \/ RdOffered(d) \/ RdStrobed(d) => ic'.state = "read")
        /\ (RdAnswered(d) => ic'.state = "waitIdle")
    BY <1>1, <1>9, <2>1, FetchTurn DEF PathInv, AtWork
  <2>3. ic'.state = "read"
    BY <2>2 DEF Reading
  <2>4. AsSlave(ic)' = TookRead(ic'.addr)
    BY <1>2, <2>3 DEF SlaveForm, TookRead, Holding
  <2>5. M!Accepted(Channels) = TookRead(ic.addr)
    BY <1>1, <1>2, <1>9, AcceptedIn DEF SlaveForm
  <2> QED BY <2>2, <2>4, <2>5
<1> QED BY <1>1, <1>4, <1>5, <1>6, <1>7, <1>8, <1>9 DEF PathInv, Dialogue

\* What the write under way makes of memory, as the master sees it.
LEMMA SeenWrite ==
  ASSUME FabricInv, AnswerType, ic.state = "writeResp", ic.select = "dmem",
         NEW words, words = [prior EXCEPT ![MemIndex] = Merge(@, ic.data, ic.strb)],
         prior \in [MemIndexes -> SUBSET (0 .. 31)]
  PROVE  DmemImage(words) = M!Written(AsSlave(ic))
<1>1. AsSlave(ic) = TookWrite(ic.addr, ic.strb, ToBytes(ic.data))
  BY SlaveOf DEF FabricInv, SlaveForm
<1>2. AsSlave(ic).addr = ic.addr /\ AsSlave(ic).strb = ic.strb /\ AsSlave(ic).data = ToBytes(ic.data)
  BY <1>1 DEF TookWrite, Holding
<1>3. Target(ic.addr) = "dmem" /\ ic.addr \in 0 .. NWords - 1
  BY MemIndexType DEF FabricInv, PathInv, Routed
<1>4. DmemImage(words)
        = [DmemImage(prior) EXCEPT
             ![ic.addr] = [l \in Lane |-> IF l \in ic.strb THEN ToBytes(ic.data)[l] ELSE @[l]]]
  <2>1. PICK a \in 0 .. NWords - 1 : a = ic.addr
    BY <1>3
  <2>2. PICK p \in [MemIndexes -> SUBSET (0 .. 31)] : p = prior
    OBVIOUS
  <2>3. PICK new, strb, i, v : /\ new = ic.data /\ strb = ic.strb /\ i = MemIndex
                               /\ v = Merge(prior[MemIndex], ic.data, ic.strb)
    OBVIOUS
  <2>4. Target(a) = "dmem" /\ i = Register("dmem", a)
        /\ v = Merge(p[i], new, strb) /\ words = [p EXCEPT ![i] = v]
    BY <1>3, <2>1, <2>2, <2>3 DEF MemIndex
  <2>5. Written(DmemImage(p), DmemImage(words), a, ToBytes(new), strb)
    <3>1. Target(a) = "dmem" /\ i = Register("dmem", a)
      BY <2>4
    <3>2. v = Merge(p[i], new, strb) /\ words = [p EXCEPT ![i] = v]
      BY <2>4
    <3>3. a \in 0 .. NWords - 1 /\ p \in [MemIndexes -> SUBSET (0 .. 31)]
      BY <2>1, <2>2
    <3> QED BY <3>1, <3>2, <3>3, ImageWritten, Zenon
  <2> QED BY <2>1, <2>2, <2>3, <2>5 DEF Written
<1>5. SeenMemory
  BY SeenIsPrior DEF FabricInv
<1>6. M!Written(AsSlave(ic))
        = [DmemImage(prior) EXCEPT
             ![AsSlave(ic).addr] = [l \in Lane |-> IF l \in AsSlave(ic).strb
                                                   THEN AsSlave(ic).data[l] ELSE @[l]]]
  BY <1>5 DEF M!Written, SeenMemory, Lane, M!Lane
<1> QED BY <1>2, <1>4, <1>6

\* The slave's record with an answer in it.
AnswersNow(s, n, v)  == n = [s EXCEPT !.bvalid = v]
GivesNow(s, n, v, z) == n = [s EXCEPT !.rvalid = v, !.rdata = z]

LEMMA WriteHeld ==
  ASSUME NEW s, NEW n, NEW aw, NEW w, NEW ar, NEW b, NEW c, NEW r, NEW x, NEW y, NEW z, NEW o,
         s = Holding(aw, w, ar, b, r, x, y, z, o), n = Holding(aw, w, ar, c, r, x, y, z, o)
  PROVE  AnswersNow(s, n, c)
  BY DEF Holding, AnswersNow

LEMMA ReadHeld ==
  ASSUME NEW s, NEW n, NEW aw, NEW w, NEW ar, NEW b, NEW c, NEW r, NEW x, NEW y, NEW z, NEW o, NEW q,
         s = Holding(aw, w, ar, b, r, x, y, z, o), n = Holding(aw, w, ar, b, c, x, y, z, q)
  PROVE  GivesNow(s, n, c, q)
<1> DEFINE h == Holding(aw, w, ar, b, c, x, y, z, o)
<1>1. h = [s EXCEPT !.rvalid = c]
  BY DEF Holding
<1>2. n = [h EXCEPT !.rdata = q]
  BY DEF Holding
<1> HIDE DEF h
<1> QED BY <1>1, <1>2 DEF GivesNow

LEMMA WriteAnsweredEdge ==
  ASSUME FabricInv, AnswerType, FabricInv', AnswerType', NEW busy, NEW sw, NEW value,
         ClockEdge(busy, sw, value), InDmem(req), ic.state = "writeResp", ic'.state = "waitIdle"
  PROVE  M!SlaveAnswersWrite(Channels)
<1>1. PathInv /\ PathInv' /\ MemoryKept
  BY DEF FabricInv
<1>2. SlaveForm /\ SlaveForm' /\ SeenMemory /\ SeenMemory'
  <2>1. (PathInv /\ AnswerType => SlaveForm)' /\ (MemoryKept => SeenMemory)'
    BY SlaveOf, SeenIsPrior, PTL
  <2> QED BY <1>1, <2>1, SlaveOf, SeenIsPrior DEF FabricInv
<1>3. ic.select = "dmem" /\ "dmem" \in Devices
  <2>1. Target(M!Addr) = "dmem"
    BY <1>1, DmemAddress DEF PathInv, Dialogue
  <2> QED BY <1>1, <2>1, SocAssumption DEF PathInv, Routed
<1>4. /\ ic'.addr = ic.addr /\ ic'.data = ic.data /\ ic'.strb = ic.strb /\ state' = "wresp"
      /\ WrAnswered("dmem")
  <2>1. Writing("dmem")
    BY <1>1, <1>3 DEF PathInv, AtWork
  <2> QED BY <1>1, <1>3, <2>1, RespTurn DEF Writing
<1>5. MemStruck
  BY <1>3, <1>4 DEF MemStruck, WrAnswered
<1> DEFINE s == M!Accepted(Channels)
           b == ToBytes(ic.data)
<1>6. s = TookWrite(ic.addr, ic.strb, b) /\ s = AsSlave(ic)
  BY <1>1, <1>2, AcceptedIn DEF SlaveForm
<1>7. s.aw /\ s.w /\ ~s.bvalid /\ s.addr = ic.addr
  <2> HIDE DEF s
  <2> QED BY <1>6 DEF TookWrite, Holding
<1>8. AsSlave(ic)' = [s EXCEPT !.bvalid = TRUE]
  <2>1. AsSlave(ic)' = AnsweredWrite(ic'.addr, ic'.strb, ToBytes(ic'.data))
    BY <1>2, <1>4 DEF SlaveForm, AnsweredWrite, Holding, ToBytes
  <2>2. PICK x, y, z : x = ic.addr /\ y = ic.strb /\ z = b
    OBVIOUS
  <2>3. /\ s = Holding(TRUE, TRUE, FALSE, FALSE, FALSE, x, y, z, Zeros)
        /\ AsSlave(ic)' = Holding(TRUE, TRUE, FALSE, TRUE, FALSE, x, y, z, Zeros)
    BY <1>4, <1>6, <2>1, <2>2, Zenon DEF AnsweredWrite, TookWrite
  <2>4. AnswersNow(s, AsSlave(ic)', TRUE)
    BY <2>3, WriteHeld, Zenon
  <2> QED BY <2>4 DEF AnswersNow
<1>9. DmemImage(IF WriteUnderWay(ic) THEN prior ELSE dmem.words)' = M!Written(s)
  <2>1. prior' = dmem.words
    BY <1>5, PriorStep
  <2>2. DmemImage(prior)' = DmemImage(dmem.words)
    BY <2>1 DEF DmemImage
  <2>3. DmemImage(dmem.words) = M!Written(AsSlave(ic))
    BY <1>1, <1>3, <1>5, SeenWrite DEF MemoryKept
  <2>4. DmemImage(IF WriteUnderWay(ic) THEN prior ELSE dmem.words)' = DmemImage(prior)'
    BY <1>2 DEF SeenMemory
  <2> QED BY <1>6, <2>2, <2>3, <2>4
<1>10. M!Log(<<[op |-> "write", word |-> s.addr]>>)
  <2>1. ~ic.bvalid /\ ic'.bvalid /\ ~ic'.rvalid
    BY <1>1, <1>4 DEF PathInv, Dialogue
  <2>2. AnswersOf(ic, ic') = <<[op |-> "write", word |-> ic'.addr]>>
    BY <2>1, WriteAnswer
  <2>3. M!Log(AnswersOf(ic, ic'))
    BY DEF ClockEdge
  <2> QED BY <1>4, <1>7, <2>2, <2>3
<1> HIDE DEF s
<1> QED BY <1>7, <1>8, <1>9, <1>10 DEF M!SlaveAnswersWrite, s

LEMMA ReadAnsweredEdge ==
  ASSUME FabricInv, AnswerType, FabricInv', AnswerType', NEW busy, NEW sw, NEW value,
         ClockEdge(busy, sw, value), InDmem(req), ic.state = "read", ic'.state = "waitIdle"
  PROVE  M!SlaveAnswersRead(Channels)
<1>1. PathInv /\ PathInv' /\ MemoryKept /\ MemoryKept'
  BY DEF FabricInv
<1>2. SlaveForm /\ SlaveForm' /\ SeenMemory /\ SeenMemory'
  <2>1. (PathInv /\ AnswerType => SlaveForm)' /\ (MemoryKept => SeenMemory)'
    BY SlaveOf, SeenIsPrior, PTL
  <2> QED BY <1>1, <2>1, SlaveOf, SeenIsPrior DEF FabricInv
<1>3. ic.select = "dmem" /\ "dmem" \in Devices /\ Target(ic.addr) = "dmem"
      /\ ic.addr \in 0 .. NWords - 1
  <2>1. Target(M!Addr) = "dmem" /\ M!Addr \in 0 .. NWords - 1
    BY <1>1, DmemAddress DEF PathInv, Dialogue
  <2> QED BY <1>1, <2>1, SocAssumption DEF PathInv, Routed
<1>4. ic'.addr = ic.addr /\ state' = "read"
  BY <1>1, <1>3, FetchTurn
<1>5. ~MemStruck /\ ~MemStruck' /\ prior' = prior
  <2>1. ~MemStruck /\ ~MemStruck'
    BY DEF MemStruck
  <2> QED BY <2>1, PriorStep
<1> DEFINE s == M!Accepted(Channels)
<1>6. s = TookRead(ic.addr)
  BY <1>1, <1>2, AcceptedIn DEF SlaveForm
<1>7. s.ar /\ ~s.rvalid /\ s.addr = ic.addr
  <2> HIDE DEF s
  <2> QED BY <1>6 DEF TookRead, Holding
<1>8. ToBytes(ic'.data) = DmemImage(prior)[ic.addr]
  <2>1. ic'.rvalid /\ Target(ic'.addr) = "dmem"
    BY <1>1, <1>3, <1>4 DEF PathInv, Dialogue
  <2>2. ic'.data = prior[Register("dmem", ic.addr)]
    <3>1. Target(ic.addr)' = "dmem" /\ MemIndex' = Register("dmem", ic.addr)
      BY <1>3, <1>4 DEF Target, MemIndex, Register
    <3>2. ic'.data = dmem'.words[MemIndex']
      BY <1>1, <2>1, <3>1 DEF MemoryKept
    <3> QED BY <1>1, <1>5, <3>1, <3>2 DEF MemoryKept
  <2> QED BY <1>3, <2>2, ImageWord
<1>9. AsSlave(ic)' = [s EXCEPT !.rvalid = TRUE, !.rdata = DmemImage(prior)[s.addr]]
  <2>1. AsSlave(ic)' = AnsweredRead(ic'.addr, ToBytes(ic'.data))
    BY <1>2, <1>4 DEF SlaveForm, AnsweredRead, Holding, ToBytes
  <2>2. PICK x, z : x = ic.addr /\ z = DmemImage(prior)[s.addr]
    OBVIOUS
  <2>3. z = ToBytes(ic'.data)
    BY <1>7, <1>8, <2>2
  <2>4. /\ s = Holding(FALSE, FALSE, TRUE, FALSE, FALSE, x, {}, Zeros, Zeros)
        /\ AsSlave(ic)' = Holding(FALSE, FALSE, TRUE, FALSE, TRUE, x, {}, Zeros, z)
    BY <1>4, <1>6, <2>1, <2>2, <2>3, Zenon DEF AnsweredRead, TookRead
  <2>5. AsSlave(ic)' = [s EXCEPT !.rvalid = TRUE, !.rdata = z]
    <3>1. GivesNow(s, AsSlave(ic)', TRUE, z)
      BY <2>4, ReadHeld, Zenon
    <3> QED BY <3>1 DEF GivesNow
  <2> QED BY <2>2, <2>5
<1>10. DmemImage(prior)' = DmemImage(prior)
  BY <1>5 DEF DmemImage
<1>11. M!Log(<<[op |-> "read", word |-> s.addr]>>)
  <2>1. ~ic'.bvalid /\ ~ic.rvalid /\ ic'.rvalid
    BY <1>1, <1>4 DEF PathInv, Dialogue
  <2>2. AnswersOf(ic, ic') = <<[op |-> "read", word |-> ic'.addr]>>
    BY <2>1, ReadAnswer
  <2>3. M!Log(AnswersOf(ic, ic'))
    BY DEF ClockEdge
  <2> QED BY <1>4, <1>7, <2>2, <2>3
<1> HIDE DEF s
<1> QED BY <1>2, <1>7, <1>9, <1>10, <1>11 DEF M!SlaveAnswersRead, s, SeenMemory

LEMMA DoneEdge ==
  ASSUME FabricInv, AnswerType, FabricInv', AnswerType', NEW busy, NEW sw, NEW value,
         ClockEdge(busy, sw, value), ic.state = "waitIdle"
  PROVE  M!SlaveDone(Channels)
<1>1. PathInv /\ PathInv' /\ MemoryKept /\ ic'.state = "idle"
  BY WaitTurn DEF FabricInv
<1>2. SlaveForm' /\ SeenMemory /\ SeenMemory'
  <2>1. (PathInv /\ AnswerType => SlaveForm)' /\ (MemoryKept => SeenMemory)'
    BY SlaveOf, SeenIsPrior, PTL
  <2> QED BY <1>1, <2>1, SlaveOf, SeenIsPrior DEF FabricInv
<1>3. M!RespFire
  BY <1>1, Taken
<1>4. Channels = {}
  BY <1>1 DEF PathInv, Dialogue, Channels
<1>5. AsSlave(ic)' = M!Free
  BY <1>1, <1>2 DEF SlaveForm
<1>6. DmemImage(prior)' = DmemImage(prior)
  <2>1. prior' = prior
    BY PriorStep DEF MemStruck
  <2> QED BY <2>1 DEF DmemImage
<1>7. M!Log(<<>>)
  <2>1. AnswersOf(ic, ic') = <<>>
    BY <1>1, NoAnswer DEF PathInv, Dialogue
  <2>2. M!Log(AnswersOf(ic, ic'))
    BY DEF ClockEdge
  <2> QED BY <2>1, <2>2
<1> QED BY <1>2, <1>3, <1>4, <1>5, <1>6, <1>7 DEF M!SlaveDone, SeenMemory

\* A reset, with a write that has just reached memory or has not.
LEMMA ResetStep ==
  ASSUME FabricInv, AnswerType, FabricInv', AnswerType', Reset
  PROVE  M!Reset
<1>1. PathInv /\ PathInv' /\ MemoryKept
  BY DEF FabricInv
<1>2. SlaveForm' /\ SeenMemory /\ SeenMemory' /\ SlaveForm
  <2>1. (PathInv /\ AnswerType => SlaveForm)' /\ (MemoryKept => SeenMemory)'
    BY SlaveOf, SeenIsPrior, PTL
  <2> QED BY <1>1, <2>1, SlaveOf, SeenIsPrior DEF FabricInv
<1>3. ic' = IcReset(ic) /\ prior' = MemWords(dmem) /\ before' = DmemImage(MemWords(dmem))
  BY DEF Reset
<1>4. AsSlave(ic)' = M!Free
  <2>1. ic'.state = "idle"
    BY <1>1, <1>3, IcResets DEF PathInv
  <2> QED BY <1>2, <2>1 DEF SlaveForm
<1> DEFINE after == DmemImage(MemWords(dmem))
           mem == DmemImage(IF WriteUnderWay(ic) THEN prior ELSE dmem.words)
<1>5. mem' = after
  <2>1. DmemImage(prior)' = after
    BY <1>3 DEF DmemImage
  <2> QED BY <1>2, <2>1 DEF SeenMemory
<1>6. after = mem \/ /\ AsSlave(ic).aw /\ AsSlave(ic).w /\ ~AsSlave(ic).bvalid
                     /\ after = M!Written(AsSlave(ic))
  <2>1. ic.state = "writeResp" =>
          AsSlave(ic).aw /\ AsSlave(ic).w /\ ~AsSlave(ic).bvalid
    BY <1>2 DEF SlaveForm, TookWrite, Holding
  <2>2. CASE MemStruck
    <3>1. ic.state = "writeResp" /\ ic.select = "dmem" /\ ~dmem.wr.en
      BY <2>2 DEF MemStruck, WrEnd, Device
    <3>2. MemWords(dmem) = dmem.words
      BY <3>1 DEF MemWords
    <3> QED BY <1>1, <2>1, <2>2, <3>1, <3>2, SeenWrite DEF MemoryKept
  <2>3. CASE ~MemStruck /\ dmem.wr.en
    <3>1. ic.state = "writeResp" /\ ic.select = "dmem" /\ WrStrobed("dmem") /\ ~dmem.rd.en
      BY <1>1, <2>3, MemPortBusy
    <3>2. dmem.wr.addr = MemIndex /\ dmem.wr.data = [value |-> ic.data, strb |-> ic.strb]
      BY <3>1 DEF WrStrobed, MemIndex, Payload, Device
    <3>3. MemWords(dmem) = [prior EXCEPT ![MemIndex] = Merge(@, ic.data, ic.strb)]
      BY <1>1, <2>3, <3>1, <3>2 DEF MemWords, MemPortIndex, MemoryKept
    <3> QED BY <1>1, <2>1, <2>3, <3>1, <3>3, SeenWrite DEF MemoryKept
  <2>4. CASE ~MemStruck /\ ~dmem.wr.en
    <3>1. MemWords(dmem) = prior
      BY <1>1, <2>4 DEF MemWords, MemoryKept
    <3> QED BY <1>2, <3>1 DEF SeenMemory
  <2> QED BY <2>2, <2>3, <2>4
<1>7. after \in {mem} \cup {M!Written(s) : s \in {r \in {AsSlave(ic)} : r.aw /\ r.w /\ ~r.bvalid}}
  <2> HIDE DEF after, mem
  <2> QED BY <1>6
<1>8. Zeros = [l \in M!Lane |-> 0]
  BY DEF Zeros, Lane, M!Lane
<1>9. before' = mem'
  BY <1>3, <1>5
<1> QED BY <1>4, <1>5, <1>7, <1>8, <1>9 DEF Reset, M!Reset

\* A step, while the access in the MEM stage lies in memory, is one of AxilMaster.
LEMMA FabricStep ==
  ASSUME FabricInv, AnswerType, FabricInv', AnswerType', [Next]_vars
  PROVE  [req = M!None \/ InDmem(req) => M!Edge(Channels) \/ M!Reset]_(M!vars)
<1>1. CASE Edge \/ BusyEdge
  <2>1. PICK busy, sw, value : ClockEdge(busy, sw, value)
    BY <1>1, Edges
  <2> SUFFICES ASSUME req = M!None \/ InDmem(req) PROVE M!Edge(Channels)
    OBVIOUS
  <2>2. PathInv /\ PathInv'
    BY DEF FabricInv
  <2>3. M!MasterEdge(Channels)
    <3>1. M!MayAccept(Channels)
      BY <2>2, ReadyOnce
    <3> QED BY <2>1, <3>1 DEF ClockEdge, M!MasterEdge
  <2>4. CASE ic.state = "waitIdle"
    <3>1. M!SlaveDone(Channels)
      BY <2>1, <2>4, DoneEdge
    <3> QED BY <2>3, <3>1 DEF M!Edge
  <2>5. CASE ic.state # "waitIdle" /\ ic'.state # "waitIdle"
    <3>1. M!SlaveWaits(Channels)
      BY <2>1, <2>5, WaitingEdge
    <3> QED BY <2>3, <3>1 DEF M!Edge
  <2>6. CASE ic.state # "waitIdle" /\ ic'.state = "waitIdle"
    <3>1. state # "idle"
      BY <2>1, <2>2, <2>6, RestTurn
    <3>2. InDmem(req) /\ Target(M!Addr) = "dmem" /\ NoDevice # "dmem"
      <4>1. req # M!None
        BY <2>2, <3>1 DEF PathInv, ForRequest, Dialogue, M!None
      <4> QED BY <2>2, <3>1, <4>1, DmemAddress DEF NoDevice
    <3>3. ic.state \in {"writeResp", "read"}
      <4>1. ic.state # "idle"
        BY <2>1, <2>2, <2>6, <3>1, GrantTurn, AddressTurn
      <4>2. ic.state # "decode"
        <5>1. ic.state = "decode" => Target(ic.addr) = "dmem"
          BY <2>2, <3>2 DEF PathInv, Routed
        <5> QED BY <2>1, <2>2, <2>6, <3>2, <5>1, DecodeTurn
      <4>3. ic.state # "write"
        BY <2>1, <2>2, <2>6, DataTurn
      <4>4. ic.state # "writeDrop"
        BY <2>2, <3>2 DEF PathInv, Routed
      <4> QED BY <2>2, <2>6, <4>1, <4>2, <4>3, <4>4 DEF PathInv, Dialogue
    <3>4. M!SlaveAnswersWrite(Channels) \/ M!SlaveAnswersRead(Channels)
      BY <2>1, <2>6, <3>2, <3>3, WriteAnsweredEdge, ReadAnsweredEdge
    <3> QED BY <2>3, <3>4 DEF M!Edge
  <2> QED BY <2>4, <2>5, <2>6
<1>2. CASE Reset
  BY <1>2, ResetStep
<1>3. CASE UNCHANGED vars
  <2>1. UNCHANGED M!vars
    BY <1>3 DEF vars, mvars, devs, M!vars, DmemImage, AsSlave, WriteUnderWay, ToBytes
  <2> QED BY <2>1
<1> QED BY <1>1, <1>2, <1>3 DEF Next

\* With an access to memory in the MEM stage the interconnect and the devices
\* are a slave of the kind the bus master is proved with: each channel is taken
\* once, the answer comes after all of it, and memory is as the write leaves it.
THEOREM FabricObeys == Spec => FabricIsASlave
<1>1. /\ FabricInv /\ AnswerType /\ FabricInv' /\ AnswerType' /\ [Next]_vars
      => [req = M!None \/ InDmem(req) => M!Edge(Channels) \/ M!Reset]_(M!vars)
  BY FabricStep
<1> QED BY <1>1, FabricInvariance, AnswersTyped, PTL DEF Spec, FabricIsASlave

-----------------------------------------------------------------------------
(* Behind the bus master with nothing but memory accesses, the fabric is the  *)
(* slave of AxilMaster: what is proved of the master holds of the system.    *)

\* Every access of the MEM stage lies in memory.
OnlyMemory == req = M!None \/ InDmem(req)

LEMMA ByteRange ==
  ASSUME NEW bits
  PROVE  ToByte(bits) \in 0 .. 255
<1> DEFINE v(i) == IF i \in bits THEN 2 ^ i ELSE 0
<1>1. /\ v(0) \in {0, 1} /\ v(1) \in {0, 2} /\ v(2) \in {0, 4} /\ v(3) \in {0, 8}
      /\ v(4) \in {0, 16} /\ v(5) \in {0, 32} /\ v(6) \in {0, 64} /\ v(7) \in {0, 128}
  BY Powers
<1>2. ToByte(bits) = v(0) + v(1) + v(2) + v(3) + v(4) + v(5) + v(6) + v(7)
  BY DEF ToByte
<1> HIDE DEF v
<1> QED BY <1>1, <1>2

\* The memory the master sees is what its assumption asks for, and so are the
\* other constants: the instance of AxilMaster is one that its proofs cover.
LEMMA MasterAssumed ==
  /\ NWords \in Nat \ {0, 1} /\ Requests \subseteq M!Access
  /\ DmemImage(MemInit) \in [M!WordAddr -> M!Bytes]
  /\ MaxAccesses \in Nat /\ MaxResets \in Nat
<1>1. ASSUME NEW w PROVE ToBytes(w) \in M!Bytes
  <2>1. \A l \in Lane : ToByte(Field(w, 8 * l + 7, 8 * l)) \in 0 .. 255
    BY ByteRange
  <2> QED BY <2>1 DEF ToBytes, M!Bytes, M!Lane, M!Byte, Lane
<1>2. Zeros \in M!Bytes
  BY DEF Zeros, M!Bytes, M!Lane, M!Byte, Lane
<1>3. DmemImage(MemInit) \in [M!WordAddr -> M!Bytes]
  BY <1>1, <1>2 DEF DmemImage, M!WordAddr
<1> QED BY <1>3, SocAssumption

LEMMA MasterStarts ==
  ASSUME Init, FabricInv, AnswerType
  PROVE  M!Init
<1>1. ic = IcInit("dmem") /\ prior = MemInit /\ before = DmemImage(MemInit)
  BY DEF Init
<1>2. ic.state = "idle" /\ ~WriteUnderWay(ic)
  BY <1>1 DEF IcInit, IcReset, WriteUnderWay
<1>3. SlaveForm /\ SeenMemory
  BY SlaveOf, SeenIsPrior DEF FabricInv
<1>4. AsSlave(ic) = M!Free
  BY <1>2, <1>3 DEF SlaveForm
<1>5. DmemImage(IF WriteUnderWay(ic) THEN prior ELSE dmem.words) = DmemImage(MemInit)
  <2>1. dmem.words = MemInit
    BY DEF Init, MemReset
  <2> QED BY <1>2, <2>1
<1>6. Zeros = [l \in M!Lane |-> 0]
  BY DEF Zeros, Lane, M!Lane
<1> QED BY <1>1, <1>4, <1>5, <1>6 DEF Init, M!Init

\* The whole system is the bus master with a slave that obeys the protocol, as
\* long as the program's accesses lie in memory (soc.v:98-161).
THEOREM FabricImplementsMaster == Spec /\ []OnlyMemory => M!Spec
<1>1. FabricInv /\ AnswerType /\ Init => M!Init
  BY MasterStarts
<1>2. OnlyMemory /\ [OnlyMemory => M!Edge(Channels) \/ M!Reset]_(M!vars) => [M!Next]_(M!vars)
  <2>1. Channels \in SUBSET M!Channels
    BY DEF Channels, M!Channels
  <2> QED BY <2>1 DEF M!Next
<1>3. Spec => [][OnlyMemory => M!Edge(Channels) \/ M!Reset]_(M!vars)
  BY FabricObeys DEF FabricIsASlave, OnlyMemory
<1> QED BY <1>1, <1>2, <1>3, FabricInvariance, AnswersTyped, PTL DEF Spec, M!Spec
=============================================================================
