----------------------------- MODULE AxilMaster -----------------------------
(***************************************************************************)
(* axil_master.v: turns one load or store of the MEM stage into one or two *)
(* AXI4-Lite transactions and stalls the pipeline until they are done.     *)
(* A step is one clock edge.                                               *)
(*                                                                         *)
(* The slave at the other end is any slave that obeys the protocol: it     *)
(* accepts address and data in any order after any delay, responds once to *)
(* each transaction after it, and holds the response until it is taken.    *)
(* The MEM stage is the core's EX/MEM register: it holds the access while  *)
(* bus_stall is high and may present any other after (core.v:462-479).     *)
(***************************************************************************)
EXTENDS MemAccess, Sequences

CONSTANTS
  MemInit,      \* the initial contents of memory
  MaxAccesses,  \* a bound on the accesses the MEM stage makes
  MaxResets     \* a bound on how often the system is reset

ASSUME MasterAssumption == /\ MemInit \in [WordAddr -> Bytes]
                           /\ MaxAccesses \in Nat /\ MaxResets \in Nat

VARIABLES
  mem,
  req,          \* mem_re, mem_we, mem_addr, mem_wdata, mem_funct3 of the MEM stage
  result,       \* what MEM/WB captured of the last load
  state, awvalid, wvalid, bready, arvalid, rready,
  awDone, wDone,
  phase2,       \* word N+1 of a crossing access
  wordLo,       \* word_lo_reg
  slave,        \* what the slave has accepted and offers
  accesses, resets,
  log,          \* not in the code: the transactions of this access so far
  before        \* not in the code: memory when this access began

master == <<state, awvalid, wvalid, bready, arvalid, rready, awDone, wDone, phase2, wordLo>>
vars == <<mem, req, result, state, awvalid, wvalid, bready, arvalid, rready,
             awDone, wDone, phase2, wordLo, slave, accesses, resets, log, before>>

-----------------------------------------------------------------------------
(* Byte lanes *)

IsHalf  == req.funct3 % 4 = 1
IsWord  == req.funct3 % 4 = 2
\* Variant: a half word is taken to fit in its word.
Crosses_WordOnly == IsWord /\ req.lane # 0
Crosses == (IsWord /\ req.lane # 0) \/ (IsHalf /\ req.lane = 3)

AddrLo == req.word
AddrHi == (req.word + 1) % NWords

\* byte_en shifted up to the lane: a set of byte positions 0 .. 7.
ByteEn  == {req.lane + k : k \in 0 .. Width(req) - 1}
StrbLo  == {l \in Lane : l \in ByteEn}
StrbHi  == {l \in Lane : l + 4 \in ByteEn}

\* The 64-bit shift of the data.
Shifted(k) == IF k - req.lane \in Lane THEN req.data[k - req.lane] ELSE 0
DataLo == [l \in Lane |-> Shifted(l)]
DataHi == [l \in Lane |-> Shifted(l + 4)]

Addr  == IF phase2 THEN AddrHi ELSE AddrLo
Wstrb == IF phase2 THEN StrbHi ELSE StrbLo
Wdata == IF phase2 THEN DataHi ELSE DataLo

-----------------------------------------------------------------------------
(* Completion and read data *)

PhaseDone == (state = "wresp" /\ slave.bvalid) \/ (state = "read" /\ slave.rvalid)
XferDone  == PhaseDone /\ (~Crosses \/ phase2)
\* Variant: the stall ends with the first word.
BusStall_FirstWord == req # None /\ ~PhaseDone
BusStall  == req # None /\ ~XferDone

\* Both words, low one first, shifted down by the lane.
Combined == [k \in 0 .. 7 |->
  IF Crosses THEN (IF k < 4 THEN wordLo[k] ELSE slave.rdata[k - 4])
             ELSE (IF k < 4 THEN slave.rdata[k] ELSE 0)]
Down == [l \in Lane |-> IF l + req.lane <= 7 THEN Combined[l + req.lane] ELSE 0]

SignFill(byte) == IF byte >= 128 THEN 255 ELSE 0
MemRdata ==
  CASE req.funct3 = 0 -> [l \in Lane |-> IF l < 1 THEN Down[l] ELSE SignFill(Down[0])]
    [] req.funct3 = 1 -> [l \in Lane |-> IF l < 2 THEN Down[l] ELSE SignFill(Down[1])]
    [] req.funct3 = 4 -> [l \in Lane |-> IF l < 1 THEN Down[l] ELSE 0]
    [] req.funct3 = 5 -> [l \in Lane |-> IF l < 2 THEN Down[l] ELSE 0]
    [] OTHER          -> Down

-----------------------------------------------------------------------------
(* The slave.  ready is the set of channels whose READY it raises this cycle. *)

Free == [aw |-> FALSE, w |-> FALSE, ar |-> FALSE, bvalid |-> FALSE, rvalid |-> FALSE,
         addr |-> 0, strb |-> {}, data |-> [l \in Lane |-> 0], rdata |-> [l \in Lane |-> 0]]

AwFire(ready) == awvalid /\ "aw" \in ready
WFire(ready)  == wvalid /\ "w" \in ready
ArFire(ready) == arvalid /\ "ar" \in ready
RespFire == (slave.bvalid /\ bready) \/ (slave.rvalid /\ rready)

\* One transaction at a time.
MayAccept(ready) == /\ "aw" \in ready => ~slave.aw
                    /\ "w"  \in ready => ~slave.w
                    /\ "ar" \in ready => ~slave.ar

\* What the slave holds after the handshakes of this cycle.
Accepted(ready) ==
  [slave EXCEPT !.aw = @ \/ AwFire(ready), !.w = @ \/ WFire(ready), !.ar = @ \/ ArFire(ready),
                !.addr = IF AwFire(ready) \/ ArFire(ready) THEN Addr ELSE @,
                !.strb = IF WFire(ready) THEN Wstrb ELSE @,
                !.data = IF WFire(ready) THEN Wdata ELSE @]

Written(s) == [mem EXCEPT ![s.addr] = [l \in Lane |-> IF l \in s.strb THEN s.data[l] ELSE @[l]]]

\* The log starts over when the MEM stage moves on.
Log(entries) == log' = IF BusStall THEN log \o entries ELSE <<>>

SlaveWaits(ready) ==
  /\ ~RespFire
  /\ slave' = Accepted(ready)
  /\ mem' = mem /\ Log(<<>>)

SlaveAnswersWrite(ready) ==
  LET s == Accepted(ready)
  IN  /\ s.aw /\ s.w /\ ~s.bvalid
      /\ slave' = [s EXCEPT !.bvalid = TRUE]
      /\ mem' = Written(s)
      /\ Log(<<[op |-> "write", word |-> s.addr]>>)

SlaveAnswersRead(ready) ==
  LET s == Accepted(ready)
  IN  /\ s.ar /\ ~s.rvalid
      /\ slave' = [s EXCEPT !.rvalid = TRUE, !.rdata = mem[s.addr]]
      /\ mem' = mem
      /\ Log(<<[op |-> "read", word |-> s.addr]>>)

SlaveDone(ready) == /\ RespFire /\ ready = {}
                    /\ slave' = Free
                    /\ mem' = mem /\ Log(<<>>)

-----------------------------------------------------------------------------
(* The state machine *)

\* Variant: phase2 survives the access.
Idle_KeepsPhase ==
  /\ state = "idle"
  /\ awDone' = FALSE /\ wDone' = FALSE
  /\ state' = CASE req.op = "write" -> "write" [] req.op = "read" -> "read" [] OTHER -> "idle"
  /\ awvalid' = (awvalid \/ req.op = "write")
  /\ wvalid'  = (wvalid \/ req.op = "write")
  /\ arvalid' = (arvalid \/ req.op = "read")
  /\ rready'  = (rready \/ req.op = "read")
  /\ UNCHANGED <<bready, wordLo, phase2>>
Idle ==
  /\ state = "idle"
  /\ awDone' = FALSE /\ wDone' = FALSE /\ phase2' = FALSE
  /\ state' = CASE req.op = "write" -> "write" [] req.op = "read" -> "read" [] OTHER -> "idle"
  /\ awvalid' = (awvalid \/ req.op = "write")
  /\ wvalid'  = (wvalid \/ req.op = "write")
  /\ arvalid' = (arvalid \/ req.op = "read")
  /\ rready'  = (rready \/ req.op = "read")
  /\ UNCHANGED <<bready, wordLo>>

\* AW and W are accepted independently.
Write(ready) ==
  /\ state = "write"
  /\ awvalid' = (awvalid /\ ~AwFire(ready))
  /\ wvalid'  = (wvalid /\ ~WFire(ready))
  /\ awDone'  = (awDone \/ AwFire(ready))
  /\ wDone'   = (wDone \/ WFire(ready))
  /\ IF awDone' /\ wDone' THEN bready' = TRUE /\ state' = "wresp"
                          ELSE UNCHANGED <<bready, state>>
  /\ UNCHANGED <<arvalid, rready, phase2, wordLo>>

\* Variant: bready is not lowered.
WResp_KeepsReady ==
  /\ state = "wresp"
  /\ IF ~slave.bvalid THEN UNCHANGED master
     ELSE /\ IF Crosses /\ ~phase2
             THEN /\ phase2' = TRUE /\ awDone' = FALSE /\ wDone' = FALSE
                  /\ awvalid' = TRUE /\ wvalid' = TRUE
                  /\ state' = "write"
             ELSE state' = "idle" /\ UNCHANGED <<phase2, awDone, wDone, awvalid, wvalid>>
          /\ UNCHANGED <<arvalid, rready, wordLo, bready>>

\* The second word of a crossing store: the same again at addr_hi.
WResp ==
  /\ state = "wresp"
  /\ IF ~slave.bvalid THEN UNCHANGED master
     ELSE /\ bready' = FALSE
          /\ IF Crosses /\ ~phase2
             THEN /\ phase2' = TRUE /\ awDone' = FALSE /\ wDone' = FALSE
                  /\ awvalid' = TRUE /\ wvalid' = TRUE
                  /\ state' = "write"
             ELSE state' = "idle" /\ UNCHANGED <<phase2, awDone, wDone, awvalid, wvalid>>
          /\ UNCHANGED <<arvalid, rready, wordLo>>

\* Variant: the second address is never offered.
Read_OneAddress(ready) ==
  /\ state = "read"
  /\ IF slave.rvalid /\ Crosses /\ ~phase2
     THEN /\ wordLo' = slave.rdata
          /\ phase2' = TRUE
          /\ UNCHANGED <<state, rready, arvalid>>
     ELSE /\ arvalid' = (arvalid /\ ~ArFire(ready))
          /\ IF slave.rvalid THEN rready' = FALSE /\ state' = "idle"
                             ELSE UNCHANGED <<rready, state>>
          /\ UNCHANGED <<phase2, wordLo>>
  /\ UNCHANGED <<awvalid, wvalid, bready, awDone, wDone>>

\* rready stays high between the two words.
Read(ready) ==
  /\ state = "read"
  /\ IF slave.rvalid /\ Crosses /\ ~phase2
     THEN /\ wordLo' = slave.rdata
          /\ phase2' = TRUE
          /\ arvalid' = TRUE
          /\ UNCHANGED <<state, rready>>
     ELSE /\ arvalid' = (arvalid /\ ~ArFire(ready))
          /\ IF slave.rvalid THEN rready' = FALSE /\ state' = "idle"
                             ELSE UNCHANGED <<rready, state>>
          /\ UNCHANGED <<phase2, wordLo>>
  /\ UNCHANGED <<awvalid, wvalid, bready, awDone, wDone>>

\* The MEM stage captures the read data and moves on when it is not stalled.
Stage ==
  IF BusStall THEN UNCHANGED <<req, result, before, accesses>>
  ELSE /\ \/ req' = None /\ UNCHANGED accesses
          \/ accesses < MaxAccesses /\ req' \in Requests /\ accesses' = accesses + 1
       /\ result' = IF req.op = "read" THEN MemRdata ELSE result
       /\ before' = mem

MasterEdge(ready) ==
  /\ MayAccept(ready)
  /\ Idle \/ Write(ready) \/ WResp \/ Read(ready)
  /\ Stage
  /\ UNCHANGED resets

Channels == {"aw", "w", "ar"}
Edge(ready) ==
  /\ MasterEdge(ready)
  /\ \/ SlaveWaits(ready)
     \/ SlaveAnswersWrite(ready)
     \/ SlaveAnswersRead(ready)
     \/ SlaveDone(ready)

\* One reset line for the core, the master and the slave.  A slave may have
\* written before it answered.
Reset ==
  /\ resets < MaxResets
  /\ resets' = resets + 1
  /\ state' = "idle"
  /\ awvalid' = FALSE /\ wvalid' = FALSE /\ bready' = FALSE
  /\ arvalid' = FALSE /\ rready' = FALSE
  /\ awDone' = FALSE /\ wDone' = FALSE /\ phase2' = FALSE
  /\ wordLo' = [l \in Lane |-> 0]
  /\ slave' = Free
  /\ req' = None
  /\ mem' \in {mem} \cup {Written(s) : s \in {r \in {slave} : r.aw /\ r.w /\ ~r.bvalid}}
  /\ log' = <<>> /\ before' = mem'
  /\ UNCHANGED <<result, accesses>>

Next == (\E ready \in SUBSET Channels : Edge(ready)) \/ Reset

Init ==
  /\ mem = MemInit /\ before = mem
  /\ req = None /\ result = [l \in Lane |-> 0]
  /\ state = "idle"
  /\ awvalid = FALSE /\ wvalid = FALSE /\ bready = FALSE
  /\ arvalid = FALSE /\ rready = FALSE
  /\ awDone = FALSE /\ wDone = FALSE /\ phase2 = FALSE
  /\ wordLo = [l \in Lane |-> 0]
  /\ slave = Free
  /\ accesses = 0 /\ resets = 0 /\ log = <<>>

Spec == Init /\ [][Next]_vars

-----------------------------------------------------------------------------
(* Fairness *)

\* The clock runs.  A slave accepts a write once address and data are both
\* offered (it may wait for both), accepts a read, and answers what it accepted.
AcceptsWrite ==
  \E ready \in SUBSET Channels :
    /\ awvalid \/ slave.aw
    /\ wvalid \/ slave.w
    /\ Edge(ready)
    /\ slave'.aw /\ slave'.w
Answers == \E ready \in SUBSET Channels :
             /\ Edge(ready)
             /\ SlaveAnswersWrite(ready) \/ SlaveAnswersRead(ready)
Clock == Edge({}) /\ ((state = "idle" /\ req # None) \/ RespFire \/ PhaseDone)

FairSpec == Spec /\ WF_vars(Clock) /\ WF_vars(AcceptsWrite) /\ WF_vars(Answers)
=============================================================================
