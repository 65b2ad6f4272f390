----------------------------- MODULE AxilProofs -----------------------------
(***************************************************************************)
(* Proofs about the bus master, for every memory, every set of requests    *)
(* and every slave that obeys the protocol.                                *)
(***************************************************************************)
EXTENDS AxilProps, SequenceTheorems, TLAPS

-----------------------------------------------------------------------------
(* The inductive invariant *)

\* In each state, which channels are offered, and what the slave has accepted
\* and offers.
Handshakes ==
  /\ state = "idle" =>
       /\ ~awvalid /\ ~wvalid /\ ~arvalid
       /\ ~slave.aw /\ ~slave.w /\ ~slave.ar /\ ~slave.bvalid /\ ~slave.rvalid
  /\ state = "write" =>
       /\ ~arvalid /\ ~slave.ar /\ ~slave.bvalid /\ ~slave.rvalid
       /\ slave.aw <=> awDone
       /\ slave.w <=> wDone
       /\ awvalid <=> ~awDone
       /\ wvalid <=> ~wDone
       /\ ~(awDone /\ wDone)
  /\ state = "wresp" =>
       /\ ~awvalid /\ ~wvalid /\ ~arvalid
       /\ slave.aw /\ slave.w /\ ~slave.ar /\ ~slave.rvalid
  /\ state = "read" =>
       /\ ~awvalid /\ ~wvalid /\ ~slave.aw /\ ~slave.w /\ ~slave.bvalid
       /\ arvalid <=> ~slave.ar
       /\ slave.rvalid => slave.ar

\* The address the slave took is the one the master still offers.
Addressed ==
  /\ state \in {"write", "wresp"} /\ slave.aw => slave.addr = Addr
  /\ state = "read" /\ slave.ar => slave.addr = Addr

\* A state is entered for the access in the MEM stage, and a second word for
\* one that crosses.
ForRequest ==
  /\ state \in {"write", "wresp"} => req.op = "write"
  /\ state = "read" => req.op = "read"
  /\ state # "idle" /\ phase2 => Crosses

\* The words asked for so far, by phase; answered says that the last of them
\* has been.
Touched(w) == [op |-> req.op, word |-> w]
Answered == slave.bvalid \/ slave.rvalid
Logged ==
  /\ state = "idle" => log = <<>>
  /\ state # "idle" /\ ~phase2 /\ ~Answered => log = <<>>
  /\ state # "idle" /\ ~phase2 /\ Answered => log = <<Touched(AddrLo)>>
  /\ state # "idle" /\ phase2 /\ ~Answered => log = <<Touched(AddrLo)>>
  /\ state # "idle" /\ phase2 /\ Answered => log = <<Touched(AddrLo), Touched(AddrHi)>>

IInv == TypeOK /\ resets \in Nat /\ Handshakes /\ Addressed /\ ForRequest /\ Logged

-----------------------------------------------------------------------------
(* Types of the wires *)

LEMMA WordAddrs ==
  ASSUME NEW a \in WordAddr
  PROVE  (a + 1) % NWords \in WordAddr /\ a % NWords = a /\ (a + 1) % NWords # a
<1>1. NWords \in Nat /\ NWords > 1 /\ a \in Nat /\ a < NWords
  BY MemAccessAssumption DEF WordAddr
<1>2. CASE a + 1 < NWords
  <2>1. (a + 1) % NWords = a + 1 /\ a % NWords = a
    BY <1>1, <1>2
  <2> QED BY <1>1, <1>2, <2>1 DEF WordAddr
<1>3. CASE a + 1 = NWords
  <2>1. (a + 1) % NWords = 0 /\ a % NWords = a
    BY <1>1, <1>3
  <2> QED BY <1>1, <1>3, <2>1 DEF WordAddr
<1> QED BY <1>1, <1>2, <1>3

LEMMA RequestType ==
  ASSUME req \in Requests \cup {None}
  PROVE  /\ req.word \in WordAddr /\ req.lane \in Lane /\ req.funct3 \in 0 .. 7
         /\ req.data \in Word
         /\ req # None => req.op \in {"read", "write"}
         /\ req = None => req.op = "none"
<1>1. CASE req \in Requests
  <2>1. req \in Access
    BY <1>1, RequestsAssumption
  <2> QED BY <2>1 DEF Access, Word, Bytes, None
<1>2. CASE req = None
  BY <1>2, MemAccessAssumption DEF None, WordAddr, Word, Byte, Lane
<1> QED BY <1>1, <1>2

LEMMA OfferType ==
  ASSUME TypeOK
  PROVE  /\ AddrLo \in WordAddr /\ AddrHi \in WordAddr /\ Addr \in WordAddr
         /\ Wstrb \in SUBSET Lane /\ Wdata \in Word
<1>1. req.word \in WordAddr /\ req.lane \in Lane /\ req.data \in Word
  BY RequestType DEF TypeOK
<1>2. AddrLo \in WordAddr /\ AddrHi \in WordAddr
  BY <1>1, WordAddrs DEF AddrLo, AddrHi
<1>3. \A k \in 0 .. 7 : Shifted(k) \in Byte
  BY <1>1 DEF Shifted, Word, Byte
<1>4. DataLo \in Word /\ DataHi \in Word
  <2>1. \A l \in Lane : l \in 0 .. 7 /\ l + 4 \in 0 .. 7
    BY DEF Lane
  <2> QED BY <1>3, <2>1 DEF DataLo, DataHi, Word
<1>5. StrbLo \in SUBSET Lane /\ StrbHi \in SUBSET Lane
  BY DEF StrbLo, StrbHi
<1> QED BY <1>2, <1>4, <1>5 DEF Addr, Wstrb, Wdata

LEMMA ReadDataType ==
  ASSUME TypeOK
  PROVE  MemRdata \in Word
<1>1. wordLo \in Word /\ slave.rdata \in Word /\ req.lane \in Lane
  BY RequestType DEF TypeOK
<1>2. \A k \in 0 .. 7 : Combined[k] \in Byte
  <2> TAKE k \in 0 .. 7
  <2>1. CASE k < 4
    BY <1>1, <2>1 DEF Combined, Word, Lane
  <2>2. CASE ~ k < 4
    <3>1. k - 4 \in Lane /\ 0 \in Byte
      BY <2>2 DEF Lane, Byte
    <3>2. Combined[k] = IF Crosses THEN slave.rdata[k - 4] ELSE 0
      BY <2>2 DEF Combined
    <3>3. slave.rdata[k - 4] \in Byte
      BY <1>1, <3>1 DEF Word
    <3> QED BY <3>1, <3>2, <3>3
  <2> QED BY <2>1, <2>2
<1>3. \A l \in Lane : Down[l] \in Byte
  <2> TAKE l \in Lane
  <2>1. Down[l] = IF l + req.lane <= 7 THEN Combined[l + req.lane] ELSE 0
    BY DEF Down
  <2>2. l + req.lane \in 0 .. 7
    BY <1>1 DEF Lane
  <2> HIDE DEF Down, Combined
  <2> QED BY <1>2, <2>1, <2>2
<1>4. \A b : SignFill(b) \in Byte
  BY DEF SignFill, Byte
<1>5. Down \in Word
  BY <1>3 DEF Down, Word
<1>6. 0 \in Byte /\ 0 \in Lane /\ 1 \in Lane
  BY DEF Byte, Lane
<1> HIDE DEF Down, SignFill
<1> QED BY <1>3, <1>4, <1>5, <1>6 DEF MemRdata, Word

-----------------------------------------------------------------------------
(* The slave *)

SlaveType == [aw : BOOLEAN, w : BOOLEAN, ar : BOOLEAN, bvalid : BOOLEAN, rvalid : BOOLEAN,
              addr : WordAddr, strb : SUBSET Lane, data : Word, rdata : Word]

LEMMA Booleans ==
  ASSUME TypeOK
  PROVE  /\ awvalid \in BOOLEAN /\ wvalid \in BOOLEAN /\ bready \in BOOLEAN
         /\ arvalid \in BOOLEAN /\ rready \in BOOLEAN
         /\ awDone \in BOOLEAN /\ wDone \in BOOLEAN /\ phase2 \in BOOLEAN
  BY DEF TypeOK

LEMMA AcceptedType ==
  ASSUME TypeOK, NEW ready \in SUBSET Channels
  PROVE  /\ Accepted(ready) \in SlaveType
         /\ Accepted(ready).aw <=> slave.aw \/ AwFire(ready)
         /\ Accepted(ready).w <=> slave.w \/ WFire(ready)
         /\ Accepted(ready).ar <=> slave.ar \/ ArFire(ready)
         /\ Accepted(ready).bvalid = slave.bvalid /\ Accepted(ready).rvalid = slave.rvalid
         /\ AwFire(ready) \/ ArFire(ready) => Accepted(ready).addr = Addr
         /\ ~(AwFire(ready) \/ ArFire(ready)) => Accepted(ready).addr = slave.addr
<1>1. slave \in SlaveType
  BY DEF TypeOK, SlaveType
<1>2. Addr \in WordAddr /\ Wstrb \in SUBSET Lane /\ Wdata \in Word
  BY OfferType
<1>3. /\ AwFire(ready) \in BOOLEAN /\ WFire(ready) \in BOOLEAN /\ ArFire(ready) \in BOOLEAN
  BY DEF AwFire, WFire, ArFire
<1>4. PICK aw \in BOOLEAN, w \in BOOLEAN, ar \in BOOLEAN :
        /\ aw = (slave.aw \/ AwFire(ready)) /\ w = (slave.w \/ WFire(ready))
        /\ ar = (slave.ar \/ ArFire(ready))
  OBVIOUS
<1>5. PICK addr \in WordAddr, strb \in SUBSET Lane, data \in Word :
        /\ addr = IF AwFire(ready) \/ ArFire(ready) THEN Addr ELSE slave.addr
        /\ strb = IF WFire(ready) THEN Wstrb ELSE slave.strb
        /\ data = IF WFire(ready) THEN Wdata ELSE slave.data
  BY <1>1, <1>2 DEF SlaveType
<1>6. Accepted(ready) = [slave EXCEPT !.aw = aw, !.w = w, !.ar = ar, !.addr = addr,
                                      !.strb = strb, !.data = data]
  BY <1>4, <1>5, Zenon DEF Accepted
<1>7. /\ Accepted(ready) \in SlaveType
      /\ Accepted(ready).aw = aw /\ Accepted(ready).w = w /\ Accepted(ready).ar = ar
      /\ Accepted(ready).bvalid = slave.bvalid /\ Accepted(ready).rvalid = slave.rvalid
      /\ Accepted(ready).addr = addr
  BY <1>1, <1>6 DEF SlaveType
<1> QED BY <1>4, <1>5, <1>7

LEMMA WrittenType ==
  ASSUME mem \in [WordAddr -> Word], NEW s \in SlaveType
  PROVE  Written(s) \in [WordAddr -> Word]
<1>1. mem[s.addr] \in Word /\ s.data \in Word /\ s.addr \in WordAddr
  BY DEF SlaveType
<1>2. [l \in Lane |-> IF l \in s.strb THEN s.data[l] ELSE mem[s.addr][l]] \in Word
  BY <1>1 DEF Word
<1> QED BY <1>1, <1>2 DEF Written

LEMMA FreeType == Free \in SlaveType
  BY MemAccessAssumption DEF Free, SlaveType, WordAddr, Word, Byte

LEMMA NoneType == None \in Requests \cup {None}
  OBVIOUS

LEMMA ZeroWord == [l \in Lane |-> 0] \in Word
  BY DEF Word, Byte

-----------------------------------------------------------------------------
(* An edge keeps the types *)

LEMMA SlaveTypeKept ==
  ASSUME TypeOK, NEW ready \in SUBSET Channels, Edge(ready)
  PROVE  slave' \in SlaveType /\ mem' \in [WordAddr -> Word]
<1>1. Accepted(ready) \in SlaveType
  BY AcceptedType
<1>2. mem \in [WordAddr -> Word] /\ Written(Accepted(ready)) \in [WordAddr -> Word]
  BY <1>1, WrittenType DEF TypeOK
<1>3. CASE SlaveWaits(ready)
  BY <1>1, <1>2, <1>3 DEF SlaveWaits
<1>4. CASE SlaveAnswersWrite(ready)
  BY <1>1, <1>2, <1>4 DEF SlaveAnswersWrite, SlaveType
<1>5. CASE SlaveAnswersRead(ready)
  <2>1. mem[Accepted(ready).addr] \in Word
    BY <1>1, <1>2 DEF SlaveType
  <2> QED BY <1>1, <1>2, <1>5, <2>1 DEF SlaveAnswersRead, SlaveType
<1>6. CASE SlaveDone(ready)
  BY <1>2, <1>6, FreeType DEF SlaveDone
<1> QED BY <1>3, <1>4, <1>5, <1>6 DEF Edge

LEMMA StageTypeKept ==
  ASSUME TypeOK, Stage
  PROVE  req' \in Requests \cup {None} /\ result' \in Word
  BY ReadDataType DEF Stage, TypeOK

-----------------------------------------------------------------------------
(* Each state keeps the invariant *)

LEMMA RequestKept ==
  ASSUME req' = req
  PROVE  /\ Crosses' = Crosses
         /\ Touched(AddrLo)' = Touched(AddrLo) /\ Touched(AddrHi)' = Touched(AddrHi)
         /\ phase2' = phase2 => Addr' = Addr
  BY DEF Crosses, IsHalf, IsWord, Touched, AddrLo, AddrHi, Addr

\* Until the slave answers the last word the stage is stalled.
LEMMA Stalled ==
  ASSUME IInv, state # "idle", ~Answered \/ (Crosses /\ ~phase2), Stage
  PROVE  BusStall /\ req' = req
<1>1. req # None
  BY RequestType DEF IInv, TypeOK, States, ForRequest, None
<1>2. ~XferDone
  BY DEF XferDone, PhaseDone, Answered
<1> QED BY <1>1, <1>2 DEF BusStall, Stage

LEMMA Appending ==
  ASSUME NEW x, NEW y
  PROVE  /\ <<>> \o <<>> = <<>> /\ <<>> \o <<x>> = <<x>>
         /\ <<x>> \o <<>> = <<x>> /\ <<x>> \o <<y>> = <<x, y>>
         /\ <<x, y>> \o <<>> = <<x, y>>
<1>1. <<>> \in Seq({x, y}) /\ <<x>> \in Seq({x, y}) /\ <<x, y>> \in Seq({x, y})
  OBVIOUS
<1>2. \A s \in Seq({x, y}) : s \o <<>> = s /\ <<>> \o s = s
  BY ConcatEmptySeq
<1>3. <<x>> \o <<y>> = Append(<<x>>, y)
  BY <1>1, AppendIsConcat
<1>4. Append(<<x>>, y) = <<x, y>>
  <2>1. Append(<<x>>, y) \in Seq({x, y}) /\ Len(Append(<<x>>, y)) = 2 /\ Len(<<x, y>>) = 2
    BY <1>1, AppendProperties
  <2>2. \A i \in 1 .. 2 : Append(<<x>>, y)[i] = <<x, y>>[i]
    BY <1>1, AppendProperties
  <2> QED BY <1>1, <2>1, <2>2, SeqEqual
<1>5. <<>> \o <<>> = <<>> /\ <<>> \o <<x>> = <<x>> /\ <<x>> \o <<>> = <<x>>
  BY <1>1, <1>2
<1>6. <<x, y>> \o <<>> = <<x, y>>
  BY <1>1, <1>2
<1> QED BY <1>3, <1>4, <1>5, <1>6

LEMMA IdleKeeps ==
  ASSUME IInv, NEW ready \in SUBSET Channels, Edge(ready), state = "idle"
  PROVE  IInv'
<1>1. TypeOK /\ Handshakes /\ log = <<>>
  BY DEF IInv, Logged
<1>2. /\ ~awvalid /\ ~wvalid /\ ~arvalid /\ ~bready /\ ~rready
      /\ ~slave.aw /\ ~slave.w /\ ~slave.ar /\ ~slave.bvalid /\ ~slave.rvalid
  BY <1>1 DEF TypeOK, Handshakes
<1>3. Idle /\ Stage /\ resets' = resets
  BY DEF Edge, MasterEdge, Write, WResp, Read
<1>4. SlaveWaits(ready)
  <2>1. ~RespFire
    BY <1>2 DEF RespFire
  <2>2. ~Accepted(ready).aw /\ ~Accepted(ready).ar
    BY <1>1, <1>2, AcceptedType DEF AwFire, ArFire
  <2> QED BY <2>1, <2>2 DEF Edge, SlaveAnswersWrite, SlaveAnswersRead, SlaveDone
<1>5. /\ ~slave'.aw /\ ~slave'.w /\ ~slave'.ar /\ ~slave'.bvalid /\ ~slave'.rvalid
  BY <1>1, <1>2, <1>4, AcceptedType DEF SlaveWaits, AwFire, WFire, ArFire
<1>6. log' = <<>>
  BY <1>1, <1>4, Appending DEF SlaveWaits, Log
<1>7. slave' \in SlaveType /\ mem' \in [WordAddr -> Word]
      /\ req' \in Requests \cup {None} /\ result' \in Word
  BY <1>1, <1>3, SlaveTypeKept, StageTypeKept
<1>8. ~XferDone
  BY DEF XferDone, PhaseDone
<1>9. CASE req = None
  <2>1. req.op = "none"
    BY <1>9 DEF None
  <2>2. /\ state' = "idle" /\ awvalid' = FALSE /\ wvalid' = FALSE /\ arvalid' = FALSE
        /\ bready' = FALSE /\ rready' = FALSE /\ awDone' = FALSE /\ wDone' = FALSE
        /\ phase2' = FALSE /\ wordLo' = wordLo
    BY <1>1, <1>2, <1>3, <2>1, Booleans DEF Idle
  <2> QED BY <1>1, <1>3, <1>5, <1>6, <1>7, <2>2
          DEF IInv, TypeOK, SlaveType, States, Handshakes, Addressed, ForRequest, Logged
<1>10. CASE req # None
  <2>1. req' = req /\ req.op \in {"read", "write"}
    BY <1>1, <1>3, <1>8, <1>10, RequestType DEF Stage, BusStall, TypeOK
  <2>2. CASE req.op = "write"
    <3>1. /\ state' = "write" /\ awvalid' = TRUE /\ wvalid' = TRUE /\ arvalid' = FALSE
          /\ bready' = FALSE /\ rready' = FALSE /\ awDone' = FALSE /\ wDone' = FALSE
          /\ phase2' = FALSE /\ wordLo' = wordLo
      BY <1>1, <1>2, <1>3, <2>2, Booleans DEF Idle
    <3> QED BY <1>1, <1>3, <1>5, <1>6, <1>7, <2>1, <2>2, <3>1
            DEF IInv, TypeOK, SlaveType, States, Handshakes, Addressed, ForRequest, Logged, Answered
  <2>3. CASE req.op = "read"
    <3>1. /\ state' = "read" /\ awvalid' = FALSE /\ wvalid' = FALSE /\ arvalid' = TRUE
          /\ bready' = FALSE /\ rready' = TRUE /\ awDone' = FALSE /\ wDone' = FALSE
          /\ phase2' = FALSE /\ wordLo' = wordLo
      BY <1>1, <1>2, <1>3, <2>3, Booleans DEF Idle
    <3> QED BY <1>1, <1>3, <1>5, <1>6, <1>7, <2>1, <2>3, <3>1
            DEF IInv, TypeOK, SlaveType, States, Handshakes, Addressed, ForRequest, Logged, Answered
  <2> QED BY <2>1, <2>2, <2>3
<1> QED BY <1>9, <1>10

LEMMA WriteKeeps ==
  ASSUME IInv, NEW ready \in SUBSET Channels, Edge(ready), state = "write"
  PROVE  IInv'
<1>1. TypeOK /\ req.op = "write"
  BY DEF IInv, ForRequest
<1>2. /\ ~arvalid /\ ~slave.ar /\ ~slave.bvalid /\ ~slave.rvalid /\ ~bready /\ ~rready
      /\ slave.aw <=> awDone
      /\ slave.w <=> wDone
      /\ awvalid <=> ~awDone
      /\ wvalid <=> ~wDone
  BY DEF IInv, TypeOK, Handshakes
<1>3. Write(ready) /\ Stage /\ resets' = resets
  BY DEF Edge, MasterEdge, Idle, WResp, Read
<1>4. ~Answered
  BY <1>2 DEF Answered
<1>5. BusStall /\ req' = req
  BY <1>3, <1>4, Stalled
<1>6. /\ phase2' = phase2 /\ Addr' = Addr /\ Crosses' = Crosses
      /\ Touched(AddrLo)' = Touched(AddrLo) /\ Touched(AddrHi)' = Touched(AddrHi)
  BY <1>3, <1>5, RequestKept DEF Write
<1>7. /\ slave' \in SlaveType /\ mem' \in [WordAddr -> Word]
      /\ req' \in Requests \cup {None} /\ result' \in Word
  BY <1>1, <1>3, SlaveTypeKept, StageTypeKept
<1> DEFINE s == Accepted(ready)
<1>8. /\ s.aw <=> awDone \/ AwFire(ready)
      /\ s.w <=> wDone \/ WFire(ready)
      /\ ~s.ar /\ ~s.bvalid /\ ~s.rvalid
      /\ s.aw => s.addr = Addr
      /\ s \in SlaveType
  <2>1. ~ArFire(ready)
    BY <1>2 DEF ArFire
  <2>2. slave.aw => slave.addr = Addr
    BY DEF IInv, Addressed
  <2> QED BY <1>1, <1>2, <2>1, <2>2, AcceptedType
<1> HIDE DEF s
<1>9. /\ awDone' = (awDone \/ AwFire(ready)) /\ wDone' = (wDone \/ WFire(ready))
      /\ awvalid' = (awvalid /\ ~AwFire(ready)) /\ wvalid' = (wvalid /\ ~WFire(ready))
      /\ arvalid' = arvalid /\ rready' = rready /\ wordLo' = wordLo
  BY <1>3 DEF Write
<1>10. /\ awDone' <=> s.aw
       /\ wDone' <=> s.w
       /\ awvalid' <=> ~awDone'
       /\ wvalid' <=> ~wDone'
       /\ awDone' \in BOOLEAN /\ wDone' \in BOOLEAN /\ awvalid' \in BOOLEAN /\ wvalid' \in BOOLEAN
  BY <1>2, <1>8, <1>9
<1>11. ~RespFire /\ ~SlaveAnswersRead(ready) /\ ~SlaveDone(ready)
  BY <1>2, <1>8 DEF RespFire, SlaveAnswersRead, SlaveDone, s
<1>12. log \o <<>> = log
  BY <1>4, Appending DEF IInv, Logged
<1>13. ~arvalid' /\ ~rready'
  BY <1>2, <1>9
<1>14. arvalid' \in BOOLEAN /\ rready' \in BOOLEAN /\ phase2' \in BOOLEAN
  BY <1>1, <1>6, <1>9, Booleans
<1>15. CASE awDone' /\ wDone'
  <2>1. state' = "wresp" /\ bready' = TRUE
    BY <1>3, <1>15 DEF Write
  <2>2. TypeOK'
    BY <1>1, <1>7, <1>9, <1>10, <1>13, <1>14, <1>15, <2>1 DEF TypeOK, SlaveType, States
  <2>3. CASE SlaveWaits(ready)
    <3>1. slave' = s /\ log' = log
      BY <1>5, <1>12, <2>3 DEF SlaveWaits, Log, s
    <3>2. ~Answered'
      BY <1>8, <3>1 DEF Answered
    <3>3. Handshakes' /\ Addressed' /\ ForRequest'
      BY <1>1, <1>5, <1>6, <1>8, <1>10, <1>13, <1>15, <2>1, <3>1
         DEF IInv, Handshakes, Addressed, ForRequest
    <3>4. Logged'
      BY <1>4, <1>6, <2>1, <3>1, <3>2 DEF IInv, Logged
    <3> QED BY <1>3, <2>2, <3>3, <3>4 DEF IInv
  <2>4. CASE SlaveAnswersWrite(ready)
    <3>1. /\ slave' = [s EXCEPT !.bvalid = TRUE]
          /\ log' = log \o <<Touched(s.addr)>>
      BY <1>1, <1>5, <2>4 DEF SlaveAnswersWrite, Log, Touched, s
    <3>2. /\ slave'.aw /\ slave'.w /\ ~slave'.ar /\ slave'.bvalid /\ ~slave'.rvalid
          /\ slave'.addr = Addr /\ s.addr = Addr
      BY <1>8, <1>10, <1>15, <3>1 DEF SlaveType
    <3>3. Answered'
      BY <3>2 DEF Answered
    <3>4. Handshakes' /\ Addressed' /\ ForRequest'
      BY <1>1, <1>5, <1>6, <1>10, <1>13, <1>15, <2>1, <3>2
         DEF IInv, Handshakes, Addressed, ForRequest
    <3>5. Logged'
      BY <1>4, <1>6, <2>1, <3>1, <3>2, <3>3, Appending DEF IInv, Logged, Addr
    <3> QED BY <1>3, <2>2, <3>4, <3>5 DEF IInv
  <2> QED BY <1>11, <2>3, <2>4 DEF Edge
<1>16. CASE ~(awDone' /\ wDone')
  <2>1. state' = "write" /\ bready' = bready
    BY <1>3, <1>16 DEF Write
  <2>2. TypeOK'
    BY <1>1, <1>2, <1>7, <1>9, <1>10, <1>13, <1>14, <2>1 DEF TypeOK, SlaveType, States
  <2>3. SlaveWaits(ready)
    BY <1>10, <1>11, <1>16 DEF Edge, SlaveAnswersWrite, s
  <2>4. slave' = s /\ log' = log
    BY <1>5, <1>12, <2>3 DEF SlaveWaits, Log, s
  <2>5. ~Answered'
    BY <1>8, <2>4 DEF Answered
  <2>6. Handshakes' /\ Addressed' /\ ForRequest'
    BY <1>1, <1>5, <1>6, <1>8, <1>10, <1>13, <1>16, <2>1, <2>4
       DEF IInv, Handshakes, Addressed, ForRequest
  <2>7. Logged'
    BY <1>4, <1>6, <2>1, <2>4, <2>5 DEF IInv, Logged
  <2> QED BY <1>3, <2>2, <2>6, <2>7 DEF IInv
<1> QED BY <1>15, <1>16

\* Nothing is accepted while the slave has the write.
LEMMA WRespKeeps ==
  ASSUME IInv, NEW ready \in SUBSET Channels, Edge(ready), state = "wresp"
  PROVE  IInv'
<1>1. TypeOK /\ req.op = "write"
  BY DEF IInv, ForRequest
<1>2. /\ ~awvalid /\ ~wvalid /\ ~arvalid /\ bready /\ ~rready
      /\ slave.aw /\ slave.w /\ ~slave.ar /\ ~slave.rvalid
  BY DEF IInv, TypeOK, Handshakes
<1>3. WResp /\ Stage /\ resets' = resets
  BY DEF Edge, MasterEdge, Idle, Write, Read
<1>4. /\ slave' \in SlaveType /\ mem' \in [WordAddr -> Word]
      /\ req' \in Requests \cup {None} /\ result' \in Word
  BY <1>1, <1>3, SlaveTypeKept, StageTypeKept
<1> DEFINE s == Accepted(ready)
<1>5. /\ s.aw /\ s.w /\ ~s.ar /\ s.bvalid = slave.bvalid /\ ~s.rvalid
      /\ s.addr = Addr /\ s \in SlaveType
  <2>1. ~AwFire(ready) /\ ~ArFire(ready)
    BY <1>2 DEF AwFire, ArFire
  <2>2. slave.addr = Addr
    BY <1>2 DEF IInv, Addressed
  <2> QED BY <1>1, <1>2, <2>1, <2>2, AcceptedType
<1> HIDE DEF s
<1>6. ~SlaveAnswersRead(ready)
  BY <1>5 DEF SlaveAnswersRead, s
<1>7. CASE ~slave.bvalid
  <2>1. UNCHANGED master
    BY <1>3, <1>7 DEF WResp
  <2>2. /\ state' = state /\ awvalid' = awvalid /\ wvalid' = wvalid /\ bready' = bready
        /\ arvalid' = arvalid /\ rready' = rready /\ awDone' = awDone /\ wDone' = wDone
        /\ phase2' = phase2 /\ wordLo' = wordLo
    BY <2>1 DEF master
  <2>3. ~Answered
    BY <1>2, <1>7 DEF Answered
  <2>4. BusStall /\ req' = req
    BY <1>3, <2>3, Stalled
  <2>5. /\ Addr' = Addr /\ Crosses' = Crosses
        /\ Touched(AddrLo)' = Touched(AddrLo) /\ Touched(AddrHi)' = Touched(AddrHi)
    BY <2>2, <2>4, RequestKept
  <2>6. TypeOK'
    BY <1>1, <1>4, <2>2 DEF TypeOK, SlaveType
  <2>7. ~RespFire /\ ~SlaveDone(ready)
    BY <1>2, <1>7 DEF RespFire, SlaveDone
  <2>8. CASE SlaveWaits(ready)
    <3>1. slave' = s /\ log' = log
      <4>1. log \o <<>> = log
        BY <2>3, Appending DEF IInv, Logged
      <4> QED BY <2>4, <2>8, <4>1 DEF SlaveWaits, Log, s
    <3>2. ~Answered'
      BY <1>5, <1>7, <3>1 DEF Answered
    <3>3. Handshakes' /\ Addressed' /\ ForRequest'
      BY <1>1, <1>2, <1>5, <2>2, <2>4, <2>5, <3>1 DEF IInv, Handshakes, Addressed, ForRequest
    <3>4. Logged'
      BY <2>2, <2>3, <2>5, <3>1, <3>2 DEF IInv, Logged
    <3> QED BY <1>3, <2>6, <3>3, <3>4 DEF IInv
  <2>9. CASE SlaveAnswersWrite(ready)
    <3>1. /\ slave' = [s EXCEPT !.bvalid = TRUE]
          /\ log' = log \o <<Touched(s.addr)>>
      BY <1>1, <2>4, <2>9 DEF SlaveAnswersWrite, Log, Touched, s
    <3>2. /\ slave'.aw /\ slave'.w /\ ~slave'.ar /\ slave'.bvalid /\ ~slave'.rvalid
          /\ slave'.addr = Addr /\ s.addr = Addr
      BY <1>5, <3>1 DEF SlaveType
    <3>3. Answered'
      BY <3>2 DEF Answered
    <3>4. Handshakes' /\ Addressed' /\ ForRequest'
      BY <1>1, <1>2, <2>2, <2>4, <2>5, <3>2 DEF IInv, Handshakes, Addressed, ForRequest
    <3>5. Logged'
      BY <2>2, <2>3, <2>5, <3>1, <3>2, <3>3, Appending DEF IInv, Logged, Addr
    <3> QED BY <1>3, <2>6, <3>4, <3>5 DEF IInv
  <2> QED BY <1>6, <2>7, <2>8, <2>9 DEF Edge
<1>8. CASE slave.bvalid
  <2>1. SlaveDone(ready)
    BY <1>2, <1>5, <1>6, <1>8 DEF Edge, RespFire, SlaveWaits, SlaveAnswersWrite, s
  <2>2. /\ slave' = Free /\ log' = IF BusStall THEN log \o <<>> ELSE <<>>
        /\ ~slave'.aw /\ ~slave'.w /\ ~slave'.ar /\ ~slave'.bvalid /\ ~slave'.rvalid
    BY <2>1 DEF SlaveDone, Log, Free
  <2>3. /\ bready' = FALSE /\ arvalid' = arvalid /\ rready' = rready /\ wordLo' = wordLo
    BY <1>3, <1>8 DEF WResp
  <2>4. ~arvalid' /\ ~rready' /\ arvalid' \in BOOLEAN /\ rready' \in BOOLEAN
    BY <1>1, <1>2, <2>3, Booleans
  <2>5. Answered
    BY <1>8 DEF Answered
  <2>6. CASE Crosses /\ ~phase2
    <3>1. /\ phase2' = TRUE /\ awDone' = FALSE /\ wDone' = FALSE
          /\ awvalid' = TRUE /\ wvalid' = TRUE /\ state' = "write"
      BY <1>3, <1>8, <2>6 DEF WResp
    <3>2. BusStall /\ req' = req
      BY <1>3, <2>6, Stalled
    <3>3. /\ Crosses' = Crosses
          /\ Touched(AddrLo)' = Touched(AddrLo) /\ Touched(AddrHi)' = Touched(AddrHi)
      BY <3>2, RequestKept
    <3>4. log' = <<Touched(AddrLo)>>
      BY <2>2, <2>5, <2>6, <3>2, Appending DEF IInv, Logged
    <3>5. ~Answered'
      BY <2>2 DEF Answered
    <3>6. TypeOK'
      BY <1>1, <1>4, <2>3, <2>4, <3>1 DEF TypeOK, SlaveType, States
    <3> QED BY <1>1, <1>3, <2>2, <2>4, <2>6, <3>1, <3>2, <3>3, <3>4, <3>5, <3>6
            DEF IInv, Handshakes, Addressed, ForRequest, Logged
  <2>7. CASE ~(Crosses /\ ~phase2)
    <3>1. /\ state' = "idle" /\ phase2' = phase2 /\ awDone' = awDone /\ wDone' = wDone
          /\ awvalid' = awvalid /\ wvalid' = wvalid
      BY <1>3, <1>8, <2>7 DEF WResp
    <3>2. ~BusStall
      BY <1>8, <2>7, Booleans, <1>1 DEF BusStall, XferDone, PhaseDone
    <3>3. log' = <<>>
      BY <2>2, <3>2
    <3>4. TypeOK'
      BY <1>1, <1>2, <1>4, <2>3, <2>4, <3>1 DEF TypeOK, SlaveType, States
    <3> QED BY <1>2, <1>3, <2>2, <2>4, <3>1, <3>3, <3>4
            DEF IInv, Handshakes, Addressed, ForRequest, Logged
  <2> QED BY <2>6, <2>7
<1> QED BY <1>7, <1>8

LEMMA ReadKeeps ==
  ASSUME IInv, NEW ready \in SUBSET Channels, Edge(ready), state = "read"
  PROVE  IInv'
<1>1. TypeOK /\ req.op = "read"
  BY DEF IInv, ForRequest
<1>2. /\ ~awvalid /\ ~wvalid /\ ~bready /\ rready
      /\ ~slave.aw /\ ~slave.w /\ ~slave.bvalid
      /\ arvalid <=> ~slave.ar
      /\ slave.rvalid => slave.ar
  BY DEF IInv, TypeOK, Handshakes
<1>3. Read(ready) /\ Stage /\ resets' = resets
  BY DEF Edge, MasterEdge, Idle, Write, WResp
<1>4. /\ slave' \in SlaveType /\ mem' \in [WordAddr -> Word]
      /\ req' \in Requests \cup {None} /\ result' \in Word
  BY <1>1, <1>3, SlaveTypeKept, StageTypeKept
<1>5. /\ awvalid' = awvalid /\ wvalid' = wvalid /\ bready' = bready
      /\ awDone' = awDone /\ wDone' = wDone
  BY <1>3 DEF Read
<1>6. /\ ~awvalid' /\ ~wvalid' /\ ~bready'
      /\ awvalid' \in BOOLEAN /\ wvalid' \in BOOLEAN /\ bready' \in BOOLEAN
      /\ awDone' \in BOOLEAN /\ wDone' \in BOOLEAN
  BY <1>1, <1>2, <1>5, Booleans
<1> DEFINE s == Accepted(ready)
<1>7. /\ ~s.aw /\ ~s.w /\ ~s.bvalid /\ s.rvalid = slave.rvalid
      /\ s.ar <=> slave.ar \/ ArFire(ready)
      /\ s.ar => s.addr = Addr
      /\ s \in SlaveType
  <2>1. ~AwFire(ready) /\ ~WFire(ready)
    BY <1>2 DEF AwFire, WFire
  <2>2. slave.ar => slave.addr = Addr
    BY DEF IInv, Addressed
  <2> QED BY <1>1, <1>2, <2>1, <2>2, AcceptedType
<1> HIDE DEF s
<1>8. ~SlaveAnswersWrite(ready)
  BY <1>7 DEF SlaveAnswersWrite, s
<1>9. CASE ~slave.rvalid
  <2>1. /\ arvalid' = (arvalid /\ ~ArFire(ready)) /\ rready' = rready /\ state' = state
        /\ phase2' = phase2 /\ wordLo' = wordLo
    BY <1>3, <1>9 DEF Read
  <2>2. /\ arvalid' <=> ~s.ar
        /\ arvalid' \in BOOLEAN
    BY <1>2, <1>7, <2>1
  <2>3. ~Answered
    BY <1>2, <1>9 DEF Answered
  <2>4. BusStall /\ req' = req
    BY <1>3, <2>3, Stalled
  <2>5. /\ Addr' = Addr /\ Crosses' = Crosses
        /\ Touched(AddrLo)' = Touched(AddrLo) /\ Touched(AddrHi)' = Touched(AddrHi)
    BY <2>1, <2>4, RequestKept
  <2>6. TypeOK'
    BY <1>1, <1>2, <1>4, <1>6, <2>1, <2>2 DEF TypeOK, SlaveType
  <2>7. ~RespFire /\ ~SlaveDone(ready)
    BY <1>2, <1>9 DEF RespFire, SlaveDone
  <2>8. CASE SlaveWaits(ready)
    <3>1. slave' = s /\ log' = log
      <4>1. log \o <<>> = log
        BY <2>3, Appending DEF IInv, Logged
      <4> QED BY <2>4, <2>8, <4>1 DEF SlaveWaits, Log, s
    <3>2. ~Answered'
      BY <1>7, <1>9, <3>1 DEF Answered
    <3>3. Handshakes' /\ Addressed' /\ ForRequest'
      BY <1>1, <1>6, <1>7, <1>9, <2>1, <2>2, <2>4, <2>5, <3>1
         DEF IInv, Handshakes, Addressed, ForRequest
    <3>4. Logged'
      BY <2>1, <2>3, <2>5, <3>1, <3>2 DEF IInv, Logged
    <3> QED BY <1>3, <2>6, <3>3, <3>4 DEF IInv
  <2>9. CASE SlaveAnswersRead(ready)
    <3>1. /\ slave' = [s EXCEPT !.rvalid = TRUE, !.rdata = mem[s.addr]]
          /\ log' = log \o <<Touched(s.addr)>> /\ s.ar
      BY <1>1, <2>4, <2>9 DEF SlaveAnswersRead, Log, Touched, s
    <3>2. /\ ~slave'.aw /\ ~slave'.w /\ slave'.ar /\ ~slave'.bvalid /\ slave'.rvalid
          /\ slave'.addr = Addr /\ s.addr = Addr
      BY <1>7, <3>1 DEF SlaveType
    <3>3. Answered'
      BY <3>2 DEF Answered
    <3>4. Handshakes' /\ Addressed' /\ ForRequest'
      BY <1>1, <1>6, <2>1, <2>2, <2>4, <2>5, <3>1, <3>2
         DEF IInv, Handshakes, Addressed, ForRequest
    <3>5. Logged'
      BY <2>1, <2>3, <2>5, <3>1, <3>2, <3>3, Appending DEF IInv, Logged, Addr
    <3> QED BY <1>3, <2>6, <3>4, <3>5 DEF IInv
  <2> QED BY <1>8, <2>7, <2>8, <2>9 DEF Edge
<1>10. CASE slave.rvalid
  <2>1. SlaveDone(ready)
    BY <1>2, <1>7, <1>8, <1>10 DEF Edge, RespFire, SlaveWaits, SlaveAnswersRead, s
  <2>2. /\ slave' = Free /\ log' = IF BusStall THEN log \o <<>> ELSE <<>>
        /\ ~slave'.aw /\ ~slave'.w /\ ~slave'.ar /\ ~slave'.bvalid /\ ~slave'.rvalid
    BY <2>1 DEF SlaveDone, Log, Free
  <2>3. Answered /\ ~arvalid
    BY <1>2, <1>10 DEF Answered
  <2>4. CASE Crosses /\ ~phase2
    <3>1. /\ wordLo' = slave.rdata /\ phase2' = TRUE /\ arvalid' = TRUE
          /\ state' = state /\ rready' = rready
      BY <1>3, <1>10, <2>4 DEF Read
    <3>2. BusStall /\ req' = req
      BY <1>3, <2>4, Stalled
    <3>3. /\ Crosses' = Crosses
          /\ Touched(AddrLo)' = Touched(AddrLo) /\ Touched(AddrHi)' = Touched(AddrHi)
      BY <3>2, RequestKept
    <3>4. log' = <<Touched(AddrLo)>>
      BY <2>2, <2>3, <2>4, <3>2, Appending DEF IInv, Logged
    <3>5. ~Answered'
      BY <2>2 DEF Answered
    <3>6. TypeOK'
      BY <1>1, <1>2, <1>4, <1>6, <3>1 DEF TypeOK, SlaveType, States
    <3> QED BY <1>1, <1>3, <1>6, <2>2, <2>4, <3>1, <3>2, <3>3, <3>4, <3>5, <3>6
            DEF IInv, Handshakes, Addressed, ForRequest, Logged
  <2>5. CASE ~(Crosses /\ ~phase2)
    <3>1. /\ arvalid' = (arvalid /\ ~ArFire(ready)) /\ rready' = FALSE /\ state' = "idle"
          /\ phase2' = phase2 /\ wordLo' = wordLo
      BY <1>3, <1>10, <2>5 DEF Read
    <3>2. arvalid' = FALSE
      BY <2>3, <3>1
    <3>3. ~BusStall
      BY <1>1, <1>10, <2>5, Booleans DEF BusStall, XferDone, PhaseDone
    <3>4. log' = <<>>
      BY <2>2, <3>3
    <3>5. TypeOK'
      BY <1>1, <1>4, <1>6, <3>1, <3>2 DEF TypeOK, SlaveType, States
    <3> QED BY <1>3, <1>6, <2>2, <3>1, <3>2, <3>4, <3>5
            DEF IInv, Handshakes, Addressed, ForRequest, Logged
  <2> QED BY <2>4, <2>5
<1> QED BY <1>9, <1>10

LEMMA ResetKeeps ==
  ASSUME IInv, Reset
  PROVE  IInv'
<1>1. TypeOK /\ resets \in Nat
  BY DEF IInv
<1>2. slave \in SlaveType /\ mem \in [WordAddr -> Word]
  BY <1>1 DEF TypeOK, SlaveType
<1>3. mem' \in [WordAddr -> Word]
  BY <1>2, WrittenType DEF Reset
<1>4. slave' \in SlaveType /\ wordLo' \in Word /\ slave' = Free
  BY FreeType, ZeroWord DEF Reset
<1>5. ~slave'.aw /\ ~slave'.w /\ ~slave'.ar /\ ~slave'.bvalid /\ ~slave'.rvalid
  BY <1>4 DEF Free
<1>6. TypeOK'
  BY <1>1, <1>3, <1>4, NoneType DEF Reset, TypeOK, SlaveType, States
<1> QED BY <1>1, <1>5, <1>6 DEF Reset, IInv, Handshakes, Addressed, ForRequest, Logged

LEMMA StartsRight == Init => IInv
<1> SUFFICES ASSUME Init PROVE IInv
  OBVIOUS
<1>1. mem \in [WordAddr -> Word]
  BY MasterAssumption DEF Init, Word, Bytes
<1>2. slave \in SlaveType /\ wordLo \in Word /\ result \in Word
  BY FreeType, ZeroWord DEF Init
<1>3. ~slave.aw /\ ~slave.w /\ ~slave.ar /\ ~slave.bvalid /\ ~slave.rvalid
  BY DEF Init, Free
<1>4. TypeOK
  BY <1>1, <1>2, NoneType DEF Init, TypeOK, SlaveType, States
<1> QED BY <1>3, <1>4 DEF Init, IInv, Handshakes, Addressed, ForRequest, Logged

LEMMA StutterKeeps ==
  ASSUME IInv, UNCHANGED vars
  PROVE  IInv'
<1>1. /\ Addr' = Addr /\ Crosses' = Crosses
      /\ Touched(AddrLo)' = Touched(AddrLo) /\ Touched(AddrHi)' = Touched(AddrHi)
  BY RequestKept DEF vars
<1> QED BY <1>1 DEF vars, IInv, TypeOK, Handshakes, Addressed, ForRequest, Logged, Answered

LEMMA EachStepKeeps == IInv /\ [Next]_vars => IInv'
<1> SUFFICES ASSUME IInv, [Next]_vars PROVE IInv'
  OBVIOUS
<1>1. CASE \E ready \in SUBSET Channels : Edge(ready)
  <2>1. PICK ready \in SUBSET Channels : Edge(ready)
    BY <1>1
  <2>2. state \in {"idle", "write", "wresp", "read"}
    BY DEF IInv, TypeOK, States
  <2> QED BY <2>1, <2>2, IdleKeeps, WriteKeeps, WRespKeeps, ReadKeeps
<1>2. CASE Reset
  BY <1>2, ResetKeeps
<1>3. CASE UNCHANGED vars
  BY <1>3, StutterKeeps
<1> QED BY <1>1, <1>2, <1>3 DEF Next

-----------------------------------------------------------------------------
(* The words of an access *)

\* The two words the master computes are the two the access touches.
LEMMA WordsOfAccess ==
  ASSUME TypeOK, req # None
  PROVE  Wanted(req) = IF Crosses THEN <<Touched(AddrLo), Touched(AddrHi)>>
                                  ELSE <<Touched(AddrLo)>>
<1>1. req.word \in WordAddr /\ req.lane \in 0 .. 3 /\ req.funct3 \in 0 .. 7
  BY RequestType DEF TypeOK, Lane
<1>2. /\ (req.word + 1) % NWords # req.word
      /\ req.word % NWords = req.word
  BY <1>1, WordAddrs
<1>3. WordOf(req, 0) = AddrLo
  <2>1. (req.lane + 0) \div 4 = 0
    BY <1>1
  <2>2. req.word + 0 = req.word
    BY <1>1 DEF WordAddr
  <2> QED BY <1>2, <2>1, <2>2 DEF WordOf, AddrLo
<1>4. (req.lane + (ReadBytes(req) - 1)) \div 4 = IF Crosses THEN 1 ELSE 0
  BY <1>1 DEF ReadBytes, Width, Crosses, IsWord, IsHalf
<1>5. WordOf(req, ReadBytes(req) - 1) = IF Crosses THEN AddrHi ELSE AddrLo
  <2>1. req.word + 0 = req.word
    BY <1>1 DEF WordAddr
  <2> QED BY <1>2, <1>4, <2>1 DEF WordOf, AddrHi, AddrLo
<1> QED BY <1>2, <1>3, <1>5 DEF Wanted, Touched, AddrLo, AddrHi

LEMMA Prefixes ==
  ASSUME NEW x, NEW y
  PROVE  /\ SubSeq(<<x>>, 1, 0) = <<>> /\ SubSeq(<<x, y>>, 1, 0) = <<>>
         /\ SubSeq(<<x>>, 1, 1) = <<x>>
         /\ SubSeq(<<x, y>>, 1, 1) = <<x>>
         /\ SubSeq(<<x, y>>, 1, 2) = <<x, y>>
         /\ Len(<<>>) = 0 /\ Len(<<x>>) = 1 /\ Len(<<x, y>>) = 2
<1>1. /\ <<>> \in Seq({x, y}) /\ <<x>> \in Seq({x, y}) /\ <<x, y>> \in Seq({x, y})
      /\ Len(<<>>) = 0 /\ Len(<<x>>) = 1 /\ Len(<<x, y>>) = 2
  OBVIOUS
<1>2. \A s \in Seq({x, y}) : SubSeq(s, 1, Len(s)) = s
  BY SubSeqFull
<1>3. \A s \in Seq({x, y}) : SubSeq(s, 1, 0) = <<>>
  BY SubSeqEmpty
<1>4. SubSeq(<<x, y>>, 1, 1) = <<x>>
  <2>1. /\ SubSeq(<<x, y>>, 1, 1) \in Seq({x, y}) /\ Len(SubSeq(<<x, y>>, 1, 1)) = 1
        /\ \A k \in 1 .. 1 : SubSeq(<<x, y>>, 1, 1)[k] = <<x>>[k]
    BY <1>1, SubSeqProperties
  <2> QED BY <1>1, <2>1, SeqEqual
<1>5. SubSeq(<<x>>, 1, 1) = <<x>>
  BY <1>1, <1>2
<1>6. SubSeq(<<x, y>>, 1, 2) = <<x, y>>
  BY <1>1, <1>2
<1>7. SubSeq(<<x>>, 1, 0) = <<>> /\ SubSeq(<<x, y>>, 1, 0) = <<>>
  BY <1>1, <1>3
<1> QED BY <1>1, <1>4, <1>5, <1>6, <1>7

-----------------------------------------------------------------------------
(* The theorems *)

THEOREM Invariance == Spec => []IInv
  BY StartsRight, EachStepKeeps, PTL DEF Spec

\* Registers, memory and channels keep to their types, and each channel is
\* driven only in the states that drive it (axil_master.v:163-250).
THEOREM BusTypes == Spec => []TypeOK
<1>1. IInv => TypeOK
  BY DEF IInv
<1> QED BY <1>1, Invariance, PTL

\* An access makes one transaction for each word it touches, in order, and no
\* word is asked for twice: for every memory, every set of requests and every
\* slave that obeys the protocol (axil_master.v:131-133, 213-243).
THEOREM EachWordAskedOnce == Spec => []OneTransactionPerWord
<1>1. IInv => OneTransactionPerWord
  <2> SUFFICES ASSUME IInv PROVE OneTransactionPerWord
    OBVIOUS
  <2>1. TypeOK /\ Logged /\ ForRequest
    BY DEF IInv
  <2>2. CASE req = None
    <3>1. state = "idle"
      BY <2>1, <2>2 DEF ForRequest, None, TypeOK, States
    <3> QED BY <2>1, <2>2, <3>1 DEF Logged, OneTransactionPerWord
  <2>3. CASE req # None
    <3> DEFINE x == Touched(AddrLo)
               y == Touched(AddrHi)
    <3>1. Wanted(req) = IF Crosses THEN <<x, y>> ELSE <<x>>
      BY <2>1, <2>3, WordsOfAccess
    <3>2. \/ log = <<>>
          \/ log = <<x>>
          \/ log = <<x, y>> /\ Crosses
      BY <2>1 DEF Logged, ForRequest
    <3>3. XferDone => log = IF Crosses THEN <<x, y>> ELSE <<x>>
      BY <2>1, Booleans DEF XferDone, PhaseDone, Logged, ForRequest, Answered
    <3> HIDE DEF x, y
    <3>4. CASE log = <<>>
      BY <2>3, <3>1, <3>3, <3>4, Prefixes DEF OneTransactionPerWord
    <3>5. CASE log = <<x>>
      BY <2>3, <3>1, <3>3, <3>5, Prefixes DEF OneTransactionPerWord
    <3>6. CASE log = <<x, y>> /\ Crosses
      BY <2>3, <3>1, <3>3, <3>6, Prefixes DEF OneTransactionPerWord
    <3> QED BY <3>2, <3>4, <3>5, <3>6
  <2> QED BY <2>2, <2>3
<1> QED BY <1>1, Invariance, PTL

\* VALID and its payload stay until the slave takes them, although address,
\* data and strobes are wires from the MEM stage (axil_master.v:20-22).
THEOREM OffersStay == Spec => ChannelStable
<1> DEFINE Stays == resets' = resets =>
             /\ awvalid /\ ~slave'.aw => awvalid' /\ Addr' = Addr
             /\ arvalid /\ ~slave'.ar => arvalid' /\ Addr' = Addr
             /\ wvalid /\ ~slave'.w   => wvalid' /\ Wstrb' = Wstrb /\ Wdata' = Wdata
<1>1. IInv /\ [Next]_vars => [Stays]_vars
  <2> SUFFICES ASSUME IInv, Next, resets' = resets
               PROVE  /\ awvalid /\ ~slave'.aw => awvalid' /\ Addr' = Addr
                      /\ arvalid /\ ~slave'.ar => arvalid' /\ Addr' = Addr
                      /\ wvalid /\ ~slave'.w   => wvalid' /\ Wstrb' = Wstrb /\ Wdata' = Wdata
    OBVIOUS
  <2>1. ~Reset
    BY DEF IInv, Reset
  <2>2. PICK ready \in SUBSET Channels : Edge(ready)
    BY <2>1 DEF Next
  <2>3. TypeOK /\ Handshakes
    BY DEF IInv
  <2>4. CASE state = "write"
    <3>1. Write(ready) /\ Stage
      BY <2>2, <2>4 DEF Edge, MasterEdge, Idle, WResp, Read
    <3>2. ~Answered /\ ~arvalid /\ ~slave.bvalid /\ ~slave.rvalid
      BY <2>3, <2>4 DEF Handshakes, Answered
    <3>3. req' = req /\ phase2' = phase2
      BY <2>4, <3>1, <3>2, Stalled DEF Write
    <3>4. Addr' = Addr
      BY <3>3, RequestKept
    <3>5. Wstrb' = Wstrb /\ Wdata' = Wdata
      BY <3>3 DEF Wstrb, Wdata, StrbLo, StrbHi, ByteEn, DataLo, DataHi, Shifted, Width
    <3>6. slave'.aw = Accepted(ready).aw /\ slave'.w = Accepted(ready).w
      <4>1. ~SlaveDone(ready)
        BY <3>2 DEF SlaveDone, RespFire
      <4>2. Accepted(ready) \in SlaveType
        BY <2>2, <2>3, AcceptedType
      <4> QED BY <2>2, <4>1, <4>2 DEF Edge, SlaveWaits, SlaveAnswersWrite, SlaveAnswersRead, SlaveType
    <3>7. /\ AwFire(ready) => slave'.aw
          /\ WFire(ready) => slave'.w
      BY <2>2, <2>3, <3>6, AcceptedType
    <3>8. awvalid' = (awvalid /\ ~AwFire(ready)) /\ wvalid' = (wvalid /\ ~WFire(ready))
      BY <3>1 DEF Write
    <3> QED BY <3>2, <3>4, <3>5, <3>7, <3>8
  <2>5. CASE state = "read"
    <3>1. Read(ready) /\ Stage /\ ~awvalid /\ ~wvalid
      BY <2>2, <2>3, <2>5 DEF Edge, MasterEdge, Idle, WResp, Write, Handshakes
    <3> SUFFICES ASSUME arvalid, ~slave'.ar PROVE arvalid' /\ Addr' = Addr
      BY <3>1
    <3>2. ~slave.ar /\ ~slave.rvalid /\ ~slave.bvalid
      BY <2>3, <2>5 DEF Handshakes
    <3>3. ~Answered
      BY <3>2 DEF Answered
    <3>4. req' = req /\ phase2' = phase2 /\ arvalid' = (arvalid /\ ~ArFire(ready))
      BY <2>5, <3>1, <3>2, <3>3, Stalled DEF Read
    <3>5. slave'.ar = Accepted(ready).ar
      <4>1. ~SlaveDone(ready)
        BY <3>2 DEF SlaveDone, RespFire
      <4>2. Accepted(ready) \in SlaveType
        BY <2>2, <2>3, AcceptedType
      <4> QED BY <2>2, <4>1, <4>2 DEF Edge, SlaveWaits, SlaveAnswersWrite, SlaveAnswersRead, SlaveType
    <3>6. ~ArFire(ready)
      BY <2>2, <2>3, <3>5, AcceptedType
    <3> QED BY <3>4, <3>6, RequestKept
  <2>6. CASE state \in {"idle", "wresp"}
    BY <2>3, <2>6 DEF Handshakes
  <2> QED BY <2>3, <2>4, <2>5, <2>6 DEF TypeOK, States
<1> QED BY <1>1, Invariance, PTL DEF Spec, ChannelStable

-----------------------------------------------------------------------------
(* The bus master implements the abstract port: every edge is a whole      *)
(* access or nothing, for every memory and every set of requests.          *)

Memory == [WordAddr -> Word]

\* Memory with the bytes of the access that lie in its first word, in its second.
WithLo(m) == [m EXCEPT ![AddrLo] = [l \in Lane |-> IF l \in StrbLo THEN DataLo[l] ELSE @[l]]]
WithHi(m) == [m EXCEPT ![AddrHi] = [l \in Lane |-> IF l \in StrbHi THEN DataHi[l] ELSE @[l]]]

\* What the slave took is what the master offers; memory is that of the start of
\* the access, with the words written so far; the words read are memory's.
Payload == slave.w => slave.strb = Wstrb /\ slave.data = Wdata
Progress ==
  /\ before \in Memory
  /\ state \in {"idle", "read"} => mem = before
  /\ state \in {"write", "wresp"} =>
       /\ ~phase2 /\ ~slave.bvalid => mem = before
       /\ ~phase2 /\ slave.bvalid  => mem = WithLo(before)
       /\ phase2 /\ ~slave.bvalid  => mem = WithLo(before)
       /\ phase2 /\ slave.bvalid   => mem = WithHi(WithLo(before))
  /\ state = "read" =>
       /\ phase2 => wordLo = mem[AddrLo]
       /\ slave.rvalid => slave.rdata = mem[Addr]

DInv == IInv /\ Payload /\ Progress

-----------------------------------------------------------------------------
(* Where the bytes of an access lie *)

LEMMA BytePlace ==
  ASSUME TypeOK, NEW k \in 0 .. 3
  PROVE  /\ WordOf(req, k) = IF req.lane + k < 4 THEN AddrLo ELSE AddrHi
         /\ LaneOf(req, k) = IF req.lane + k < 4 THEN req.lane + k ELSE req.lane + k - 4
         /\ LaneOf(req, k) \in Lane /\ WordOf(req, k) \in WordAddr
<1>1. req.word \in WordAddr /\ req.lane \in 0 .. 3
  BY RequestType DEF TypeOK, Lane
<1>2. /\ (req.lane + k) \div 4 = IF req.lane + k < 4 THEN 0 ELSE 1
      /\ (req.lane + k) % 4 = IF req.lane + k < 4 THEN req.lane + k ELSE req.lane + k - 4
  BY <1>1
<1>3. req.word % NWords = AddrLo /\ (req.word + 1) % NWords = AddrHi /\ req.word + 0 = req.word
  BY <1>1, WordAddrs DEF AddrLo, AddrHi, WordAddr
<1>4. WordOf(req, k) = IF req.lane + k < 4 THEN AddrLo ELSE AddrHi
  BY <1>2, <1>3 DEF WordOf
<1>5. AddrLo \in WordAddr /\ AddrHi \in WordAddr
  BY OfferType
<1>6. LaneOf(req, k) = IF req.lane + k < 4 THEN req.lane + k ELSE req.lane + k - 4
  BY <1>2 DEF LaneOf
<1>7. LaneOf(req, k) \in Lane
  BY <1>1, <1>6 DEF Lane
<1> QED BY <1>4, <1>5, <1>6, <1>7

LEMMA TwoWords ==
  ASSUME TypeOK
  PROVE  AddrLo \in WordAddr /\ AddrHi \in WordAddr /\ AddrHi # AddrLo
  BY RequestType, WordAddrs DEF TypeOK, AddrLo, AddrHi

LEMMA Widths ==
  ASSUME TypeOK
  PROVE  Width(req) \in {0, 1, 2, 4} /\ req.lane \in 0 .. 3 /\ req.funct3 \in 0 .. 7
  BY RequestType DEF TypeOK, Width, Lane

LEMMA OneWord ==
  ASSUME TypeOK, ~Crosses
  PROVE  StrbHi = {}
<1> SUFFICES ASSUME NEW l \in Lane, l + 4 \in ByteEn PROVE FALSE
  BY DEF StrbHi
<1>1. PICK k \in 0 .. Width(req) - 1 : l + 4 = req.lane + k
  BY DEF ByteEn
<1>2. req.lane \in 0 .. 3 /\ req.funct3 \in 0 .. 7
  BY Widths
<1> QED BY <1>1, <1>2 DEF Width, Crosses, IsWord, IsHalf, Lane

-----------------------------------------------------------------------------
(* What a store writes *)

LEMMA StoredByte ==
  ASSUME TypeOK, NEW m, NEW w \in WordAddr, NEW l \in Lane
  PROVE  Stored(m, req)[w][l] =
           IF w = AddrLo /\ l \in StrbLo THEN DataLo[l]
           ELSE IF w = AddrHi /\ l \in StrbHi THEN DataHi[l] ELSE m[w][l]
<1> DEFINE Here(k) == WordOf(req, k) = w /\ LaneOf(req, k) = l
<1>1. Stored(m, req)[w][l] = IF \E k \in 0 .. Width(req) - 1 : Here(k)
                             THEN req.data[CHOOSE k \in 0 .. Width(req) - 1 : Here(k)]
                             ELSE m[w][l]
  BY DEF Stored
<1>2. /\ Width(req) \in {0, 1, 2, 4} /\ req.lane \in 0 .. 3 /\ l \in 0 .. 3
  BY Widths DEF Lane
<1>3. AddrHi # AddrLo
  BY TwoWords
<1>4. \A k \in 0 .. Width(req) - 1 :
        Here(k) <=> \/ w = AddrLo /\ k = l - req.lane
                    \/ w = AddrHi /\ k = l + 4 - req.lane
  <2> TAKE k \in 0 .. Width(req) - 1
  <2>1. k \in 0 .. 3
    BY <1>2
  <2>2. CASE req.lane + k < 4
    <3>1. WordOf(req, k) = AddrLo /\ LaneOf(req, k) = req.lane + k
      BY <2>1, <2>2, BytePlace
    <3>2. k = l - req.lane <=> req.lane + k = l
      BY <1>2, <2>1
    <3>3. k # l + 4 - req.lane
      BY <1>2, <2>1, <2>2
    <3> QED BY <3>1, <3>2, <3>3
  <2>3. CASE ~ req.lane + k < 4
    <3>1. WordOf(req, k) = AddrHi /\ LaneOf(req, k) = req.lane + k - 4
      BY <2>1, <2>3, BytePlace
    <3>2. k = l + 4 - req.lane <=> req.lane + k - 4 = l
      BY <1>2, <2>1
    <3>3. k # l - req.lane
      BY <1>2, <2>1, <2>3
    <3> QED BY <3>1, <3>2, <3>3
  <2> QED BY <2>2, <2>3
<1>5. /\ l \in StrbLo <=> l - req.lane \in 0 .. Width(req) - 1
      /\ l \in StrbHi <=> l + 4 - req.lane \in 0 .. Width(req) - 1
  <2>1. \A p \in 0 .. 7 : p \in ByteEn <=> p - req.lane \in 0 .. Width(req) - 1
    <3> TAKE p \in 0 .. 7
    <3>1. ASSUME p \in ByteEn PROVE p - req.lane \in 0 .. Width(req) - 1
      <4>1. PICK k \in 0 .. Width(req) - 1 : p = req.lane + k
        BY <3>1 DEF ByteEn
      <4> QED BY <1>2, <4>1
    <3>2. ASSUME p - req.lane \in 0 .. Width(req) - 1 PROVE p \in ByteEn
      <4>1. p = req.lane + (p - req.lane)
        BY <1>2
      <4> QED BY <3>2, <4>1 DEF ByteEn
    <3> QED BY <3>1, <3>2
  <2>2. l \in 0 .. 7 /\ l + 4 \in 0 .. 7
    BY <1>2
  <2>3. l \in StrbLo <=> l \in ByteEn
    BY DEF StrbLo
  <2>4. l \in StrbHi <=> l + 4 \in ByteEn
    BY DEF StrbHi
  <2>5. l \in ByteEn <=> l - req.lane \in 0 .. Width(req) - 1
    BY <2>1, <2>2, Zenon
  <2>6. l + 4 \in ByteEn <=> l + 4 - req.lane \in 0 .. Width(req) - 1
    <3>1. l + 4 \in ByteEn <=> (l + 4) - req.lane \in 0 .. Width(req) - 1
      BY <2>1, <2>2, Zenon
    <3>2. (l + 4) - req.lane = l + 4 - req.lane
      BY <1>2
    <3> QED BY <3>1, <3>2, Zenon
  <2> QED BY <2>3, <2>4, <2>5, <2>6, Zenon
<1>6. /\ l \in StrbLo => DataLo[l] = req.data[l - req.lane]
      /\ l \in StrbHi => DataHi[l] = req.data[l + 4 - req.lane]
  BY <1>2, <1>5 DEF DataLo, DataHi, Shifted, Lane
<1> HIDE DEF Here
<1>7. CASE w = AddrLo /\ l \in StrbLo
  <2>1. l - req.lane \in 0 .. Width(req) - 1 /\ Here(l - req.lane)
    BY <1>4, <1>5, <1>7
  <2>2. \A k \in 0 .. Width(req) - 1 : Here(k) => k = l - req.lane
    BY <1>3, <1>4, <1>7
  <2>3. (CHOOSE k \in 0 .. Width(req) - 1 : Here(k)) = l - req.lane
    BY <2>1, <2>2
  <2> QED BY <1>1, <1>6, <1>7, <2>1, <2>3
<1>8. CASE w = AddrHi /\ l \in StrbHi
  <2>1. l + 4 - req.lane \in 0 .. Width(req) - 1 /\ Here(l + 4 - req.lane)
    BY <1>4, <1>5, <1>8
  <2>2. \A k \in 0 .. Width(req) - 1 : Here(k) => k = l + 4 - req.lane
    BY <1>3, <1>4, <1>8
  <2>3. (CHOOSE k \in 0 .. Width(req) - 1 : Here(k)) = l + 4 - req.lane
    BY <2>1, <2>2
  <2> QED BY <1>1, <1>3, <1>6, <1>8, <2>1, <2>3
<1>9. CASE ~(w = AddrLo /\ l \in StrbLo) /\ ~(w = AddrHi /\ l \in StrbHi)
  <2>1. ~ \E k \in 0 .. Width(req) - 1 : Here(k)
    BY <1>4, <1>5, <1>9
  <2> QED BY <1>1, <1>9, <2>1
<1> QED BY <1>7, <1>8, <1>9

LEMMA SameMemory ==
  ASSUME NEW m \in Memory, NEW n \in Memory,
         \A w \in WordAddr, l \in Lane : m[w][l] = n[w][l]
  PROVE  m = n
<1>1. \A w \in WordAddr : m[w] = n[w]
  <2> TAKE w \in WordAddr
  <2>1. m[w] \in [Lane -> Byte] /\ n[w] \in [Lane -> Byte]
    BY DEF Memory, Word
  <2> QED BY <2>1
<1> QED BY <1>1 DEF Memory

LEMMA StoredType ==
  ASSUME TypeOK, NEW m \in Memory
  PROVE  Stored(m, req) \in Memory
<1>1. \A w \in WordAddr, l \in Lane : Stored(m, req)[w][l] \in Byte
  <2> TAKE w \in WordAddr, l \in Lane
  <2>1. m[w][l] \in Byte
    BY DEF Memory, Word
  <2>2. DataLo \in Word /\ DataHi \in Word
    <3>1. req.lane \in Lane /\ req.data \in Word
      BY RequestType DEF TypeOK
    <3>2. \A k \in 0 .. 7 : Shifted(k) \in Byte
      BY <3>1 DEF Shifted, Word, Byte
    <3>3. \A x \in Lane : x \in 0 .. 7 /\ x + 4 \in 0 .. 7
      BY DEF Lane
    <3> QED BY <3>2, <3>3 DEF DataLo, DataHi, Word
  <2>3. DataLo[l] \in Byte /\ DataHi[l] \in Byte
    BY <2>2 DEF Word
  <2> QED BY <2>1, <2>3, StoredByte
<1>2. \A w \in WordAddr :
        Stored(m, req)[w] = [l \in Lane |-> Stored(m, req)[w][l]]
  BY DEF Stored
<1>3. \A w \in WordAddr : Stored(m, req)[w] \in Word
  BY <1>1, <1>2 DEF Word
<1>4. Stored(m, req) = [w \in WordAddr |-> Stored(m, req)[w]]
  BY DEF Stored
<1> QED BY <1>3, <1>4 DEF Memory

LEMMA WithLoByte ==
  ASSUME TypeOK, NEW m \in Memory
  PROVE  /\ WithLo(m) \in Memory
         /\ \A w \in WordAddr, l \in Lane :
              WithLo(m)[w][l] = IF w = AddrLo /\ l \in StrbLo THEN DataLo[l] ELSE m[w][l]
<1>1. AddrLo \in WordAddr
  BY TwoWords
<1>2. \A l \in Lane : DataLo[l] \in Byte /\ m[AddrLo][l] \in Byte
  <2>1. req.lane \in Lane /\ req.data \in Word
    BY RequestType DEF TypeOK
  <2>2. \A l \in Lane : Shifted(l) \in Byte
    BY <2>1 DEF Shifted, Word, Byte
  <2>3. \A l \in Lane : m[AddrLo][l] \in Byte
    BY <1>1 DEF Memory, Word
  <2> QED BY <2>2, <2>3 DEF DataLo
<1>3. [l \in Lane |-> IF l \in StrbLo THEN DataLo[l] ELSE m[AddrLo][l]] \in Word
  BY <1>2 DEF Word
<1>4. WithLo(m) \in Memory
  BY <1>1, <1>3 DEF WithLo, Memory
<1>5. /\ WithLo(m)[AddrLo] = [l \in Lane |-> IF l \in StrbLo THEN DataLo[l] ELSE m[AddrLo][l]]
      /\ \A w \in WordAddr : w # AddrLo => WithLo(m)[w] = m[w]
  BY <1>1 DEF WithLo, Memory
<1> HIDE DEF WithLo
<1> QED BY <1>4, <1>5

LEMMA WithHiByte ==
  ASSUME TypeOK, NEW m \in Memory
  PROVE  /\ WithHi(m) \in Memory
         /\ \A w \in WordAddr, l \in Lane :
              WithHi(m)[w][l] = IF w = AddrHi /\ l \in StrbHi THEN DataHi[l] ELSE m[w][l]
<1>1. AddrHi \in WordAddr
  BY TwoWords
<1>2. \A l \in Lane : DataHi[l] \in Byte /\ m[AddrHi][l] \in Byte
  <2>1. req.lane \in Lane /\ req.data \in Word
    BY RequestType DEF TypeOK
  <2>2. \A l \in Lane : Shifted(l + 4) \in Byte
    BY <2>1 DEF Shifted, Word, Byte
  <2>3. \A l \in Lane : m[AddrHi][l] \in Byte
    BY <1>1 DEF Memory, Word
  <2> QED BY <2>2, <2>3 DEF DataHi
<1>3. [l \in Lane |-> IF l \in StrbHi THEN DataHi[l] ELSE m[AddrHi][l]] \in Word
  BY <1>2 DEF Word
<1>4. WithHi(m) \in Memory
  BY <1>1, <1>3 DEF WithHi, Memory
<1>5. /\ WithHi(m)[AddrHi] = [l \in Lane |-> IF l \in StrbHi THEN DataHi[l] ELSE m[AddrHi][l]]
      /\ \A w \in WordAddr : w # AddrHi => WithHi(m)[w] = m[w]
  BY <1>1 DEF WithHi, Memory
<1> HIDE DEF WithHi
<1> QED BY <1>4, <1>5

\* A store writes its first word and, if it crosses, then its second.
LEMMA StoredWhole ==
  ASSUME TypeOK, NEW m \in Memory
  PROVE  /\ ~Crosses => Stored(m, req) = WithLo(m)
         /\ Stored(m, req) = WithHi(WithLo(m))
<1>1. WithLo(m) \in Memory /\ WithHi(WithLo(m)) \in Memory /\ Stored(m, req) \in Memory
  BY WithLoByte, WithHiByte, StoredType
<1>2. AddrHi # AddrLo
  BY TwoWords
<1>3. Stored(m, req) = WithHi(WithLo(m))
  <2>1. \A w \in WordAddr, l \in Lane :
          Stored(m, req)[w][l] = WithHi(WithLo(m))[w][l]
    <3> TAKE w \in WordAddr, l \in Lane
    <3>1. WithHi(WithLo(m))[w][l] = IF w = AddrHi /\ l \in StrbHi THEN DataHi[l]
                                    ELSE WithLo(m)[w][l]
      BY <1>1, WithHiByte
    <3>2. WithLo(m)[w][l] = IF w = AddrLo /\ l \in StrbLo THEN DataLo[l] ELSE m[w][l]
      BY WithLoByte
    <3> QED BY <1>2, <3>1, <3>2, StoredByte
  <2> QED BY <1>1, <2>1, SameMemory
<1>4. ASSUME ~Crosses PROVE Stored(m, req) = WithLo(m)
  <2>1. StrbHi = {}
    BY <1>4, OneWord
  <2>2. \A w \in WordAddr, l \in Lane : Stored(m, req)[w][l] = WithLo(m)[w][l]
    BY <2>1, StoredByte, WithLoByte
  <2> QED BY <1>1, <2>2, SameMemory
<1> QED BY <1>3, <1>4

LEMMA FirstWordWritten ==
  ASSUME TypeOK, NEW m \in Memory
  PROVE  P!FirstWord(m, req) = WithLo(m)
<1>1. AddrLo \in WordAddr /\ AddrHi # AddrLo /\ req.word = AddrLo
  BY TwoWords DEF AddrLo
<1>2. WithLo(m) \in Memory /\ Stored(m, req) \in Memory
  BY WithLoByte, StoredType
<1>3. \A l \in Lane : Stored(m, req)[AddrLo][l] = WithLo(m)[AddrLo][l]
  BY <1>1, StoredByte, WithLoByte
<1>4. Stored(m, req)[AddrLo] = WithLo(m)[AddrLo]
  <2>1. Stored(m, req)[AddrLo] \in [Lane -> Byte] /\ WithLo(m)[AddrLo] \in [Lane -> Byte]
    BY <1>1, <1>2 DEF Memory, Word
  <2> QED BY <1>3, <2>1
<1>5. P!FirstWord(m, req) = [m EXCEPT ![AddrLo] = WithLo(m)[AddrLo]]
  BY <1>1, <1>4 DEF P!FirstWord, P!Stored, Stored, P!Width, Width, P!WordOf, WordOf, P!LaneOf, LaneOf,
                    P!WordAddr, WordAddr, P!Lane, Lane
<1>6. \A w \in WordAddr : w # AddrLo => WithLo(m)[w] = m[w]
  BY <1>1 DEF WithLo, Memory
<1> HIDE DEF WithLo
<1> QED BY <1>1, <1>2, <1>5, <1>6 DEF Memory

-----------------------------------------------------------------------------
(* What a load returns *)

LEMMA LoadedWhole ==
  ASSUME TypeOK, req \in Requests, NEW m \in Memory,
         ~Crosses => slave.rdata = m[AddrLo],
         Crosses => wordLo = m[AddrLo] /\ slave.rdata = m[AddrHi]
  PROVE  MemRdata = Loaded(m, req)
<1> DEFINE at(k) == m[WordOf(req, k)][LaneOf(req, k)]
<1>1. /\ Width(req) \in {0, 1, 2, 4} /\ req.lane \in 0 .. 3 /\ req.funct3 \in 0 .. 7
  BY Widths
<1>2. ReadBytes(req) \in 1 .. 4
  BY <1>1 DEF ReadBytes
<1>3. \A j \in 0 .. 3 : j < ReadBytes(req) => Down[j] = at(j)
  <2> SUFFICES ASSUME NEW j \in 0 .. 3, j < ReadBytes(req) PROVE Down[j] = at(j)
    OBVIOUS
  <2>1. j \in Lane /\ j + req.lane \in 0 .. 7 /\ j + req.lane <= 7 /\ j + req.lane = req.lane + j
    BY <1>1 DEF Lane
  <2>2. Down[j] = Combined[req.lane + j]
    BY <2>1 DEF Down
  <2>3. CASE req.lane + j < 4
    <3>1. at(j) = m[AddrLo][req.lane + j]
      BY <2>3, BytePlace
    <3>2. Combined[req.lane + j] = m[AddrLo][req.lane + j]
      BY <2>1, <2>3 DEF Combined
    <3> QED BY <2>2, <3>1, <3>2
  <2>4. CASE ~ req.lane + j < 4
    <3>1. at(j) = m[AddrHi][req.lane + j - 4]
      BY <2>4, BytePlace
    <3>2. Crosses
      BY <1>1, <2>4 DEF Crosses, IsWord, IsHalf, ReadBytes, Width
    <3>3. Combined[req.lane + j] = m[AddrHi][req.lane + j - 4]
      <4>1. Combined[req.lane + j] = slave.rdata[(req.lane + j) - 4]
        BY <2>1, <2>4, <3>2 DEF Combined
      <4>2. (req.lane + j) - 4 = req.lane + j - 4
        BY <1>1
      <4> QED BY <3>2, <4>1, <4>2
    <3> QED BY <2>2, <3>1, <3>3
  <2> QED BY <2>3, <2>4
<1>4. Width(req) = 0 => \A j \in 0 .. 3 : ~ j < ReadBytes(req) => Down[j] = 0
  <2> SUFFICES ASSUME Width(req) = 0, NEW j \in 0 .. 3, ~ j < ReadBytes(req) PROVE Down[j] = 0
    OBVIOUS
  <2>1. ~Crosses
    BY <1>1 DEF Crosses, IsWord, IsHalf, Width
  <2>2. j \in Lane /\ j + req.lane \in 0 .. 7 /\ ~ j + req.lane < 4
    BY <1>1 DEF Lane, ReadBytes
  <2> QED BY <2>1, <2>2 DEF Down, Combined
<1>5. \A j \in Lane : Loaded(m, req)[j] = IF j < ReadBytes(req) THEN at(j)
                                          ELSE Fill(req, at(ReadBytes(req) - 1))
  BY DEF Loaded
<1>6. Loaded(m, req) = [j \in Lane |-> Loaded(m, req)[j]]
  BY DEF Loaded
<1>7. Down = [j \in Lane |-> Down[j]]
  BY DEF Down
<1>8. \A j \in Lane : j \in 0 .. 3
  BY DEF Lane
<1> HIDE DEF at, Down
<1>9. \A j \in Lane : MemRdata[j] = Loaded(m, req)[j]
  <2> TAKE j \in Lane
  <2>1. j \in 0 .. 3
    BY <1>8
  <2>2. CASE req.funct3 \in {0, 4}
    <3>1. ReadBytes(req) = 1 /\ Width(req) = 1
      BY <2>2 DEF ReadBytes, Width
    <3>2. Down[0] = at(0)
      BY <1>3, <3>1
    <3>3. CASE j < 1
      BY <1>5, <2>1, <2>2, <3>1, <3>2, <3>3 DEF MemRdata
    <3>4. CASE ~ j < 1
      <4>1. Loaded(m, req)[j] = Fill(req, at(0))
        BY <1>5, <2>1, <3>1, <3>4
      <4> QED BY <2>1, <2>2, <3>1, <3>2, <3>4, <4>1 DEF MemRdata, Fill, SignFill
    <3> QED BY <3>3, <3>4
  <2>3. CASE req.funct3 \in {1, 5}
    <3>1. ReadBytes(req) = 2 /\ Width(req) = 2
      BY <2>3 DEF ReadBytes, Width
    <3>2. Down[0] = at(0) /\ Down[1] = at(1)
      BY <1>3, <3>1
    <3>3. CASE j < 2
      <4>1. Down[j] = at(j)
        BY <1>3, <2>1, <3>1, <3>3
      <4> QED BY <1>5, <2>1, <2>3, <3>1, <3>3, <4>1 DEF MemRdata
    <3>4. CASE ~ j < 2
      <4>1. Loaded(m, req)[j] = Fill(req, at(1))
        BY <1>5, <2>1, <3>1, <3>4
      <4> QED BY <2>1, <2>3, <3>1, <3>2, <3>4, <4>1 DEF MemRdata, Fill, SignFill
    <3> QED BY <3>3, <3>4
  <2>4. CASE req.funct3 \in {2, 3, 6, 7}
    <3>1. MemRdata = Down
      BY <2>4 DEF MemRdata
    <3>2. CASE j < ReadBytes(req)
      BY <1>3, <1>5, <2>1, <3>1, <3>2
    <3>3. CASE ~ j < ReadBytes(req)
      <4>1. Width(req) = 0
        BY <1>2, <2>1, <2>4, <3>3 DEF Width, ReadBytes
      <4>2. Loaded(m, req)[j] = 0
        BY <1>5, <3>3, <4>1 DEF Fill
      <4> QED BY <1>4, <2>1, <3>1, <3>3, <4>1, <4>2
    <3> QED BY <3>2, <3>3
  <2> QED BY <1>1, <2>2, <2>3, <2>4
<1>10. MemRdata = [j \in Lane |-> MemRdata[j]]
  BY <1>7 DEF MemRdata
<1> HIDE DEF MemRdata, Loaded
<1> QED BY <1>6, <1>9, <1>10

-----------------------------------------------------------------------------
(* Each edge keeps the invariant *)

LEMMA AcceptedPayload ==
  ASSUME TypeOK, NEW ready \in SUBSET Channels
  PROVE  /\ WFire(ready) => Accepted(ready).strb = Wstrb /\ Accepted(ready).data = Wdata
         /\ ~WFire(ready) => Accepted(ready).strb = slave.strb /\ Accepted(ready).data = slave.data
         /\ Accepted(ready).rdata = slave.rdata
<1>1. slave \in SlaveType
  BY DEF TypeOK, SlaveType
<1> QED BY <1>1 DEF Accepted, SlaveType

LEMMA WrittenWord ==
  ASSUME NEW s, s.addr = Addr, s.strb = Wstrb, s.data = Wdata
  PROVE  /\ phase2 => Written(s) = WithHi(mem)
         /\ ~phase2 => Written(s) = WithLo(mem)
  BY DEF Written, WithHi, WithLo, Addr, Wstrb, Wdata

LEMMA WiresKept ==
  ASSUME req' = req, before' = before
  PROVE  /\ WithLo(before)' = WithLo(before)
         /\ WithHi(WithLo(before))' = WithHi(WithLo(before))
         /\ AddrLo' = AddrLo /\ AddrHi' = AddrHi
         /\ phase2' = phase2 => Wstrb' = Wstrb /\ Wdata' = Wdata /\ Addr' = Addr
  BY DEF WithLo, WithHi, Wstrb, Wdata, Addr, AddrLo, AddrHi, StrbLo, StrbHi, ByteEn, DataLo, DataHi,
         Shifted, Width

LEMMA StageKept ==
  ASSUME IInv, Stage, BusStall
  PROVE  req' = req /\ before' = before /\ result' = result
  BY DEF Stage

\* The stage moves on when nothing is in flight or the last word is answered.
LEMMA StageMoves ==
  ASSUME Stage, ~BusStall
  PROVE  before' = mem
  BY DEF Stage

LEMMA IdleKeepsData ==
  ASSUME DInv, NEW ready \in SUBSET Channels, Edge(ready), state = "idle"
  PROVE  Payload' /\ Progress'
<1>1. TypeOK /\ Handshakes /\ mem = before /\ before \in Memory
  BY DEF DInv, IInv, Progress
<1>2. /\ ~awvalid /\ ~wvalid /\ ~arvalid
      /\ ~slave.aw /\ ~slave.w /\ ~slave.ar /\ ~slave.bvalid /\ ~slave.rvalid
  BY <1>1 DEF Handshakes
<1>3. Idle /\ Stage
  BY DEF Edge, MasterEdge, Write, WResp, Read
<1>4. SlaveWaits(ready)
  <2>1. ~RespFire
    BY <1>2 DEF RespFire
  <2>2. ~Accepted(ready).aw /\ ~Accepted(ready).ar
    BY <1>1, <1>2, AcceptedType DEF AwFire, ArFire
  <2> QED BY <2>1, <2>2 DEF Edge, SlaveAnswersWrite, SlaveAnswersRead, SlaveDone
<1>5. ~slave'.w /\ ~slave'.bvalid /\ ~slave'.rvalid
  BY <1>1, <1>2, <1>4, AcceptedType DEF SlaveWaits, WFire
<1>6. mem' = mem /\ before' = mem
  BY <1>1, <1>3, <1>4, StageMoves DEF SlaveWaits, Stage
<1>7. phase2' = FALSE /\ state' \in {"idle", "write", "read"}
  BY <1>3 DEF Idle
<1> QED BY <1>1, <1>5, <1>6, <1>7 DEF Payload, Progress

LEMMA WriteKeepsData ==
  ASSUME DInv, NEW ready \in SUBSET Channels, Edge(ready), state = "write"
  PROVE  Payload' /\ Progress'
<1>1. IInv /\ TypeOK /\ Payload /\ before \in Memory
  BY DEF DInv, IInv, Progress
<1>2. /\ ~arvalid /\ ~slave.ar /\ ~slave.bvalid /\ ~slave.rvalid
      /\ slave.aw <=> awDone
      /\ slave.w <=> wDone
      /\ wvalid <=> ~wDone
  BY <1>1 DEF IInv, Handshakes
<1>3. Write(ready) /\ Stage
  BY DEF Edge, MasterEdge, Idle, WResp, Read
<1>4. ~Answered
  BY <1>2 DEF Answered
<1>5. BusStall /\ req' = req /\ before' = before /\ phase2' = phase2
  BY <1>1, <1>3, <1>4, Stalled, StageKept DEF Write
<1>6. /\ WithLo(before)' = WithLo(before) /\ WithHi(WithLo(before))' = WithHi(WithLo(before))
      /\ Wstrb' = Wstrb /\ Wdata' = Wdata
  BY <1>5, WiresKept
<1> DEFINE s == Accepted(ready)
<1>7. /\ ~s.ar /\ ~s.bvalid
      /\ s.w => s.strb = Wstrb /\ s.data = Wdata
      /\ s.aw => s.addr = Addr
      /\ s \in SlaveType
  <2>1. ~ArFire(ready)
    BY <1>2 DEF ArFire
  <2>2. slave.aw => slave.addr = Addr
    BY <1>1 DEF IInv, Addressed
  <2> QED BY <1>1, <1>2, <2>1, <2>2, AcceptedType, AcceptedPayload DEF Payload
<1> HIDE DEF s
<1>8. ~RespFire /\ ~SlaveAnswersRead(ready) /\ ~SlaveDone(ready)
  BY <1>2, <1>7 DEF RespFire, SlaveAnswersRead, SlaveDone, s
<1>9. state' \in {"write", "wresp"}
  BY <1>3 DEF Write
<1>10. /\ ~phase2 => mem = before
       /\ phase2 => mem = WithLo(before)
  BY <1>2 DEF DInv, Progress
<1>11. CASE SlaveWaits(ready)
  <2>1. slave' = s /\ mem' = mem
    BY <1>11 DEF SlaveWaits, s
  <2> QED BY <1>1, <1>5, <1>6, <1>7, <1>9, <1>10, <2>1 DEF Payload, Progress
<1>12. CASE SlaveAnswersWrite(ready)
  <2>1. slave' = [s EXCEPT !.bvalid = TRUE] /\ mem' = Written(s) /\ s.aw /\ s.w
    BY <1>12 DEF SlaveAnswersWrite, s
  <2>2. slave'.bvalid /\ slave'.strb = Wstrb /\ slave'.data = Wdata
    BY <1>7, <2>1 DEF SlaveType
  <2>3. /\ phase2 => mem' = WithHi(mem)
        /\ ~phase2 => mem' = WithLo(mem)
    BY <1>7, <2>1, WrittenWord
  <2>4. /\ phase2 => mem' = WithHi(WithLo(before))
        /\ ~phase2 => mem' = WithLo(before)
    BY <1>10, <2>3
  <2> QED BY <1>1, <1>5, <1>6, <1>9, <2>2, <2>4 DEF Payload, Progress
<1> QED BY <1>8, <1>11, <1>12 DEF Edge

LEMMA WRespKeepsData ==
  ASSUME DInv, NEW ready \in SUBSET Channels, Edge(ready), state = "wresp"
  PROVE  Payload' /\ Progress'
<1>1. IInv /\ TypeOK /\ Payload /\ before \in Memory
  BY DEF DInv, IInv, Progress
<1>2. /\ ~awvalid /\ ~wvalid /\ ~arvalid /\ bready /\ ~rready
      /\ slave.aw /\ slave.w /\ ~slave.ar /\ ~slave.rvalid
  BY <1>1 DEF IInv, TypeOK, Handshakes
<1>3. WResp /\ Stage
  BY DEF Edge, MasterEdge, Idle, Write, Read
<1> DEFINE s == Accepted(ready)
<1>4. /\ ~s.ar /\ s.bvalid = slave.bvalid
      /\ s.strb = Wstrb /\ s.data = Wdata /\ s.addr = Addr /\ s \in SlaveType
  <2>1. ~AwFire(ready) /\ ~ArFire(ready) /\ ~WFire(ready)
    BY <1>2 DEF AwFire, ArFire, WFire
  <2>2. slave.addr = Addr
    BY <1>1, <1>2 DEF IInv, Addressed
  <2> QED BY <1>1, <1>2, <2>1, <2>2, AcceptedType, AcceptedPayload DEF Payload
<1> HIDE DEF s
<1>5. ~SlaveAnswersRead(ready)
  BY <1>4 DEF SlaveAnswersRead, s
<1>6. CASE ~slave.bvalid
  <2>1. state' = state /\ phase2' = phase2
    BY <1>3, <1>6 DEF WResp, master
  <2>2. ~Answered
    BY <1>2, <1>6 DEF Answered
  <2>3. BusStall /\ req' = req /\ before' = before
    BY <1>1, <1>3, <2>2, Stalled, StageKept
  <2>4. /\ WithLo(before)' = WithLo(before) /\ WithHi(WithLo(before))' = WithHi(WithLo(before))
        /\ Wstrb' = Wstrb /\ Wdata' = Wdata
    BY <2>1, <2>3, WiresKept
  <2>5. ~RespFire /\ ~SlaveDone(ready)
    BY <1>2, <1>6 DEF RespFire, SlaveDone
  <2>6. /\ ~phase2 => mem = before
        /\ phase2 => mem = WithLo(before)
    BY <1>6 DEF DInv, Progress
  <2>7. CASE SlaveWaits(ready)
    <3>1. slave' = s /\ mem' = mem
      BY <2>7 DEF SlaveWaits, s
    <3> QED BY <1>1, <1>4, <1>6, <2>1, <2>3, <2>4, <2>6, <3>1 DEF Payload, Progress
  <2>8. CASE SlaveAnswersWrite(ready)
    <3>1. slave' = [s EXCEPT !.bvalid = TRUE] /\ mem' = Written(s)
      BY <2>8 DEF SlaveAnswersWrite, s
    <3>2. slave'.bvalid /\ slave'.strb = Wstrb /\ slave'.data = Wdata
      BY <1>4, <3>1 DEF SlaveType
    <3>3. /\ phase2 => mem' = WithHi(mem)
          /\ ~phase2 => mem' = WithLo(mem)
      BY <1>4, <3>1, WrittenWord
    <3>4. /\ phase2 => mem' = WithHi(WithLo(before))
          /\ ~phase2 => mem' = WithLo(before)
      BY <2>6, <3>3
    <3> QED BY <1>1, <2>1, <2>3, <2>4, <3>2, <3>4 DEF Payload, Progress
  <2> QED BY <1>5, <2>5, <2>7, <2>8 DEF Edge
<1>7. CASE slave.bvalid
  <2>1. SlaveDone(ready)
    BY <1>2, <1>4, <1>5, <1>7 DEF Edge, RespFire, SlaveWaits, SlaveAnswersWrite, s
  <2>2. mem' = mem /\ ~slave'.w /\ ~slave'.bvalid
    BY <2>1 DEF SlaveDone, Free
  <2>3. CASE Crosses /\ ~phase2
    <3>1. phase2' = TRUE /\ state' = "write"
      BY <1>3, <1>7, <2>3 DEF WResp
    <3>2. BusStall /\ req' = req /\ before' = before
      BY <1>1, <1>3, <2>3, Stalled, StageKept
    <3>3. WithLo(before)' = WithLo(before)
      BY <3>2, WiresKept
    <3>4. mem = WithLo(before)
      BY <1>7, <2>3 DEF DInv, Progress
    <3> QED BY <1>1, <2>2, <3>1, <3>2, <3>3, <3>4 DEF Payload, Progress
  <2>4. CASE ~(Crosses /\ ~phase2)
    <3>1. state' = "idle"
      BY <1>3, <1>7, <2>4 DEF WResp
    <3>2. ~BusStall
      BY <1>1, <1>7, <2>4, Booleans DEF BusStall, XferDone, PhaseDone
    <3>3. before' = mem /\ mem \in Memory
      BY <1>1, <1>3, <3>2, StageMoves DEF TypeOK, Memory
    <3> QED BY <2>2, <3>1, <3>3 DEF Payload, Progress
  <2> QED BY <2>3, <2>4
<1> QED BY <1>6, <1>7

LEMMA ReadKeepsData ==
  ASSUME DInv, NEW ready \in SUBSET Channels, Edge(ready), state = "read"
  PROVE  Payload' /\ Progress'
<1>1. IInv /\ TypeOK /\ mem = before /\ before \in Memory
  BY DEF DInv, IInv, Progress
<1>2. /\ ~awvalid /\ ~wvalid /\ ~bready /\ rready
      /\ ~slave.aw /\ ~slave.w /\ ~slave.bvalid
  BY <1>1 DEF IInv, TypeOK, Handshakes
<1>3. Read(ready) /\ Stage
  BY DEF Edge, MasterEdge, Idle, Write, WResp
<1> DEFINE s == Accepted(ready)
<1>4. /\ ~s.aw /\ ~s.w /\ ~s.bvalid /\ s.rvalid = slave.rvalid /\ s.rdata = slave.rdata
      /\ s.ar => s.addr = Addr
      /\ s \in SlaveType
  <2>1. ~AwFire(ready) /\ ~WFire(ready)
    BY <1>2 DEF AwFire, WFire
  <2>2. slave.ar => slave.addr = Addr
    BY <1>1 DEF IInv, Addressed
  <2> QED BY <1>1, <1>2, <2>1, <2>2, AcceptedType, AcceptedPayload
<1> HIDE DEF s
<1>5. ~SlaveAnswersWrite(ready)
  BY <1>4 DEF SlaveAnswersWrite, s
<1>6. CASE ~slave.rvalid
  <2>1. state' = state /\ phase2' = phase2 /\ wordLo' = wordLo
    BY <1>3, <1>6 DEF Read
  <2>2. ~Answered
    BY <1>2, <1>6 DEF Answered
  <2>3. BusStall /\ req' = req /\ before' = before
    BY <1>1, <1>3, <2>2, Stalled, StageKept
  <2>4. Addr' = Addr /\ AddrLo' = AddrLo
    BY <2>1, <2>3, WiresKept
  <2>5. ~RespFire /\ ~SlaveDone(ready)
    BY <1>2, <1>6 DEF RespFire, SlaveDone
  <2>6. phase2 => wordLo = mem[AddrLo]
    BY DEF DInv, Progress
  <2>7. CASE SlaveWaits(ready)
    <3>1. slave' = s /\ mem' = mem
      BY <2>7 DEF SlaveWaits, s
    <3> QED BY <1>1, <1>4, <1>6, <2>1, <2>3, <2>4, <2>6, <3>1 DEF Payload, Progress
  <2>8. CASE SlaveAnswersRead(ready)
    <3>1. slave' = [s EXCEPT !.rvalid = TRUE, !.rdata = mem[s.addr]] /\ mem' = mem /\ s.ar
      BY <2>8 DEF SlaveAnswersRead, s
    <3>2. ~slave'.w /\ slave'.rdata = mem[Addr]
      BY <1>4, <3>1 DEF SlaveType
    <3> QED BY <1>1, <2>1, <2>3, <2>4, <2>6, <3>1, <3>2 DEF Payload, Progress
  <2> QED BY <1>5, <2>5, <2>7, <2>8 DEF Edge
<1>7. CASE slave.rvalid
  <2>1. SlaveDone(ready)
    BY <1>2, <1>4, <1>5, <1>7 DEF Edge, RespFire, SlaveWaits, SlaveAnswersRead, s
  <2>2. mem' = mem /\ ~slave'.w /\ ~slave'.bvalid /\ ~slave'.rvalid
    BY <2>1 DEF SlaveDone, Free
  <2>3. CASE Crosses /\ ~phase2
    <3>1. phase2' = TRUE /\ state' = "read" /\ wordLo' = slave.rdata
      BY <1>3, <1>7, <2>3 DEF Read
    <3>2. BusStall /\ req' = req /\ before' = before
      BY <1>1, <1>3, <2>3, Stalled, StageKept
    <3>3. AddrLo' = AddrLo
      BY <3>2, WiresKept
    <3>4. slave.rdata = mem[AddrLo]
      BY <1>7, <2>3 DEF DInv, Progress, Addr
    <3> QED BY <1>1, <2>2, <3>1, <3>2, <3>3, <3>4 DEF Payload, Progress
  <2>4. CASE ~(Crosses /\ ~phase2)
    <3>1. state' = "idle"
      BY <1>3, <1>7, <2>4 DEF Read
    <3>2. ~BusStall
      BY <1>1, <1>7, <2>4, Booleans DEF BusStall, XferDone, PhaseDone
    <3>3. before' = mem
      BY <1>3, <3>2, StageMoves
    <3> QED BY <1>1, <2>2, <3>1, <3>3 DEF Payload, Progress
  <2> QED BY <2>3, <2>4
<1> QED BY <1>6, <1>7

\* What a reset leaves: the memory of the access's start, or with its first word
\* or both written.
LEMMA ResetLeaves ==
  ASSUME DInv, Reset
  PROVE  /\ mem' \in Memory /\ before' = mem'
         /\ \/ mem' = before
            \/ req.op = "write" /\ mem' = WithLo(before)
            \/ req.op = "write" /\ mem' = WithHi(WithLo(before))
<1>1. TypeOK /\ Handshakes /\ ForRequest /\ Addressed /\ Payload /\ Progress
  BY DEF DInv, IInv
<1>2. mem \in Memory /\ slave \in SlaveType
  BY <1>1 DEF TypeOK, Memory, SlaveType
<1>3. mem' \in Memory /\ before' = mem'
  BY <1>2, WrittenType DEF Reset, Memory
<1>4. CASE mem' = mem
  <2>1. CASE state \in {"idle", "read"}
    BY <1>1, <1>4, <2>1, <1>3 DEF Progress
  <2>2. CASE state \in {"write", "wresp"}
    BY <1>1, <1>3, <1>4, <2>2, Booleans DEF Progress, ForRequest
  <2> QED BY <1>1, <2>1, <2>2 DEF TypeOK, States
<1>5. CASE mem' = Written(slave) /\ slave.aw /\ slave.w /\ ~slave.bvalid
  <2>1. state = "wresp"
    BY <1>1, <1>5 DEF Handshakes, TypeOK, States
  <2>2. slave.addr = Addr /\ slave.strb = Wstrb /\ slave.data = Wdata /\ req.op = "write"
    BY <1>1, <1>5, <2>1 DEF Addressed, Payload, ForRequest
  <2>3. /\ phase2 => Written(slave) = WithHi(mem) /\ mem = WithLo(before)
        /\ ~phase2 => Written(slave) = WithLo(mem) /\ mem = before
    BY <1>1, <1>5, <2>1, <2>2, WrittenWord DEF Progress
  <2> QED BY <1>3, <1>5, <2>2, <2>3
<1>6. mem' = mem \/ (mem' = Written(slave) /\ slave.aw /\ slave.w /\ ~slave.bvalid)
  BY DEF Reset
<1> QED BY <1>3, <1>4, <1>5, <1>6

LEMMA StartsWithData == Init => DInv
<1> SUFFICES ASSUME Init PROVE DInv
  OBVIOUS
<1>1. IInv
  BY StartsRight
<1>2. before \in Memory /\ mem = before
  BY <1>1 DEF Init, IInv, TypeOK, Memory
<1> QED BY <1>1, <1>2 DEF Init, DInv, Payload, Progress, Free

LEMMA EachStepKeepsData == DInv /\ [Next]_vars => DInv'
<1> SUFFICES ASSUME DInv, [Next]_vars PROVE DInv'
  OBVIOUS
<1>1. IInv'
  BY EachStepKeeps DEF DInv
<1>2. CASE \E ready \in SUBSET Channels : Edge(ready)
  <2>1. PICK ready \in SUBSET Channels : Edge(ready)
    BY <1>2
  <2>2. state \in {"idle", "write", "wresp", "read"}
    BY DEF DInv, IInv, TypeOK, States
  <2> QED BY <1>1, <2>1, <2>2, IdleKeepsData, WriteKeepsData, WRespKeepsData, ReadKeepsData DEF DInv
<1>3. CASE Reset
  <2>1. mem' \in Memory /\ before' = mem'
    BY <1>3, ResetLeaves
  <2>2. state' = "idle" /\ slave' = Free
    BY <1>3 DEF Reset
  <2> QED BY <1>1, <2>1, <2>2 DEF DInv, Payload, Progress, Free
<1>4. CASE UNCHANGED vars
  <2>1. /\ WithLo(before)' = WithLo(before) /\ WithHi(WithLo(before))' = WithHi(WithLo(before))
        /\ Wstrb' = Wstrb /\ Wdata' = Wdata /\ Addr' = Addr /\ AddrLo' = AddrLo
    BY <1>4, WiresKept DEF vars
  <2> QED BY <1>1, <1>4, <2>1 DEF vars, DInv, Payload, Progress
<1> QED BY <1>2, <1>3, <1>4 DEF Next

-----------------------------------------------------------------------------
(* The refinement *)

\* Abstract memory is that of the access's start, in every state.
PortMem == IF req.op = "write" THEN before ELSE mem

LEMMA PortMemIsBefore ==
  ASSUME DInv
  PROVE  PortMem = before
<1>1. ForRequest /\ Progress /\ TypeOK
  BY DEF DInv, IInv
<1> QED BY <1>1 DEF ForRequest, Progress, TypeOK, States, PortMem

\* An access that ends does what the port says it does.
LEMMA AccessEnds ==
  ASSUME DInv, NEW ready \in SUBSET Channels, Edge(ready), ~BusStall
  PROVE  /\ req' \in Requests \cup {None}
         /\ \/ req = None /\ before' = before /\ result' = result
            \/ req.op = "read" /\ before' = before /\ result' = Loaded(before, req)
            \/ req.op = "write" /\ before' = Stored(before, req) /\ result' = result
<1>1. IInv /\ TypeOK /\ ForRequest /\ Progress /\ before \in Memory
  BY DEF DInv, IInv, Progress
<1>2. Stage
  BY DEF Edge, MasterEdge
<1>3. before' = mem /\ req' \in Requests \cup {None}
      /\ result' = IF req.op = "read" THEN MemRdata ELSE result
  BY <1>1, <1>2, StageMoves, StageTypeKept DEF Stage
<1>4. CASE req = None
  <2>1. state = "idle" /\ req.op = "none"
    BY <1>1, <1>4 DEF ForRequest, None, TypeOK, States
  <2>2. mem = before
    BY <1>1, <2>1 DEF Progress
  <2> QED BY <1>3, <1>4, <2>1, <2>2
<1>5. CASE req # None
  <2>1. PhaseDone /\ (~Crosses \/ phase2) /\ (phase2 => Crosses)
    BY <1>1, <1>5 DEF BusStall, XferDone, PhaseDone, ForRequest
  <2>2. CASE state = "wresp" /\ slave.bvalid
    <3>1. req.op = "write"
      BY <1>1, <2>2 DEF ForRequest
    <3>2. CASE phase2
      <4>1. mem = WithHi(WithLo(before))
        BY <1>1, <2>2, <3>2 DEF Progress
      <4> QED BY <1>1, <1>3, <3>1, <4>1, StoredWhole
    <3>3. CASE ~phase2
      <4>1. mem = WithLo(before)
        BY <1>1, <2>2, <3>3 DEF Progress
      <4> QED BY <1>1, <1>3, <2>1, <3>1, <3>3, <4>1, StoredWhole
    <3> QED BY <3>2, <3>3
  <2>3. CASE state = "read" /\ slave.rvalid
    <3>1. req.op = "read" /\ req \in Requests
      BY <1>1, <1>5, <2>3 DEF ForRequest, TypeOK
    <3>2. mem = before /\ slave.rdata = mem[Addr] /\ (phase2 => wordLo = mem[AddrLo])
      BY <1>1, <2>3 DEF Progress
    <3>3. /\ ~Crosses => slave.rdata = before[AddrLo]
          /\ Crosses => wordLo = before[AddrLo] /\ slave.rdata = before[AddrHi]
      BY <2>1, <3>2 DEF Addr
    <3>4. MemRdata = Loaded(before, req)
      BY <1>1, <3>1, <3>3, LoadedWhole
    <3> QED BY <1>3, <3>1, <3>2, <3>4
  <2> QED BY <2>1, <2>2, <2>3 DEF PhaseDone
<1> QED BY <1>4, <1>5

\* The stage of a stalled access is still there.
LEMMA EdgeIsAccess ==
  ASSUME DInv, NEW ready \in SUBSET Channels, Edge(ready)
  PROVE  \/ before' = before /\ req' = req /\ result' = result
         \/ /\ req = None /\ req' \in Requests \cup {None}
            /\ before' = before /\ result' = result
         \/ /\ req.op = "read" /\ req' \in Requests \cup {None}
            /\ before' = before /\ result' = Loaded(before, req)
         \/ /\ req.op = "write" /\ req' \in Requests \cup {None}
            /\ before' = Stored(before, req) /\ result' = result
<1>1. CASE BusStall
  <2>1. Stage /\ IInv
    BY DEF Edge, MasterEdge, DInv
  <2> QED BY <1>1, <2>1, StageKept
<1>2. CASE ~BusStall
  BY <1>2, AccessEnds
<1> QED BY <1>1, <1>2

\* The instance's operators are those of MemAccess.
LEMMA PortOperators ==
  ASSUME NEW m, NEW r
  PROVE  P!Stored(m, r) = Stored(m, r) /\ P!Loaded(m, r) = Loaded(m, r)
  BY DEF P!Stored, Stored, P!Loaded, Loaded, P!Width, Width, P!WordOf, WordOf, P!LaneOf, LaneOf,
         P!WordAddr, WordAddr, P!Lane, Lane, P!ReadBytes, ReadBytes, P!Fill, Fill

\* A reset undoes the access, completes it, or leaves its first word written.
LEMMA ResetIsAccess ==
  ASSUME DInv, Reset
  PROVE  /\ req' = None /\ result' = result
         /\ \/ before' = before
            \/ req.op = "write" /\ before' = [before EXCEPT ![req.word] = Stored(before, req)[req.word]]
            \/ req.op = "write" /\ before' = Stored(before, req)
<1>1. before \in Memory /\ TypeOK
  BY DEF DInv, IInv, Progress
<1>2. P!FirstWord(before, req) = [before EXCEPT ![req.word] = Stored(before, req)[req.word]]
  BY PortOperators DEF P!FirstWord
<1>3. req' = None /\ result' = result
  BY DEF Reset
<1> QED BY <1>1, <1>2, <1>3, ResetLeaves, FirstWordWritten, StoredWhole

\* A master at rest, with memory as it is and nothing asked of the slave, may
\* take any access, whatever it did before.
AtStart == /\ TypeOK /\ resets \in Nat
           /\ state = "idle" /\ slave = Free /\ log = <<>> /\ before = mem

LEMMA StartsAnywhere == AtStart => DInv
<1> SUFFICES ASSUME AtStart PROVE DInv
  OBVIOUS
<1>1. state = "idle" /\ slave = Free /\ before = mem /\ log = <<>> /\ TypeOK /\ resets \in Nat
  BY DEF AtStart
<1>2. Handshakes
  BY <1>1 DEF Handshakes, TypeOK, Free
<1>3. Addressed /\ ForRequest /\ Logged
  BY <1>1 DEF Addressed, ForRequest, Logged
<1>4. Payload
  BY <1>1 DEF Payload, Free
<1>5. Progress
  BY <1>1 DEF Progress, Memory, TypeOK
<1> QED BY <1>1, <1>2, <1>3, <1>4, <1>5 DEF DInv, IInv

THEOREM DataInvariance == Spec => []DInv
  BY StartsWithData, EachStepKeepsData, PTL DEF Spec

\* To the MEM stage an access is atomic, whatever the delays on the five channels
\* and wherever it lies; a reset tears only a store that crosses words
\* (axil_master.v:12-18, 128-161).
THEOREM AccessesAreAtomic == Spec => ImplementsMemPort
<1>1. Init => P!Init
  <2> SUFFICES ASSUME Init PROVE P!Init
    OBVIOUS
  <2>1. PortMem = MemInit /\ MemInit \in [WordAddr -> Bytes]
    BY MasterAssumption DEF Init, PortMem, None
  <2> QED BY <2>1 DEF Init, P!Init, PortMem, P!WordAddr, WordAddr, P!Bytes, Bytes, P!Lane, Lane,
                      P!Byte, Byte, P!None, None
<1>2. DInv /\ DInv' /\ [Next]_vars => [P!Next]_P!vars
  <2> SUFFICES ASSUME DInv, DInv', [Next]_vars PROVE [P!Next]_P!vars
    OBVIOUS
  <2>1. PortMem = before /\ PortMem' = before'
    <3>1. PortMem = before
      BY PortMemIsBefore
    <3>2. ForRequest' /\ Progress' /\ TypeOK'
      BY DEF DInv, IInv
    <3>3. PortMem' = before'
      BY <3>2 DEF ForRequest, Progress, TypeOK, States, PortMem
    <3> QED BY <3>1, <3>3
  <2>2. P!None = None
    BY DEF P!None, None, P!Lane, Lane
  <2>3. CASE \E ready \in SUBSET Channels : Edge(ready)
    <3>1. PICK ready \in SUBSET Channels : Edge(ready)
      BY <2>3
    <3>2. CASE before' = before /\ req' = req /\ result' = result
      BY <2>1, <3>2 DEF P!vars, PortMem
    <3>3. CASE /\ req = None /\ req' \in Requests \cup {None}
               /\ before' = before /\ result' = result
      BY <2>1, <2>2, <3>3 DEF P!Next, P!Pass, P!NewRequest, PortMem
    <3>4. CASE /\ req.op = "read" /\ req' \in Requests \cup {None}
               /\ before' = before /\ result' = Loaded(before, req)
      BY <2>1, <2>2, <3>4, PortOperators DEF P!Next, P!Load, P!NewRequest, PortMem
    <3>5. CASE /\ req.op = "write" /\ req' \in Requests \cup {None}
               /\ before' = Stored(before, req) /\ result' = result
      BY <2>1, <2>2, <3>5, PortOperators DEF P!Next, P!Store, P!NewRequest, PortMem
    <3> QED BY <3>1, <3>2, <3>3, <3>4, <3>5, EdgeIsAccess
  <2>4. CASE Reset
    <3>1. \/ before' = before
          \/ req.op = "write" /\ before' = P!FirstWord(before, req)
          \/ req.op = "write" /\ before' = P!Stored(before, req)
      BY <2>4, ResetIsAccess, PortOperators DEF P!FirstWord
    <3>2. req' = None /\ result' = result
      BY <2>4 DEF Reset
    <3> QED BY <2>1, <2>2, <3>1, <3>2 DEF P!Next, P!Reset, PortMem
  <2>5. CASE UNCHANGED vars
    BY <2>5 DEF vars, P!vars
  <2> QED BY <2>3, <2>4, <2>5 DEF Next
<1> QED BY <1>1, <1>2, DataInvariance, PTL DEF Spec, ImplementsMemPort, P!Spec
=============================================================================
