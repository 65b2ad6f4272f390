----------------------------- MODULE SocAccesses ----------------------------
(***************************************************************************)
(* Proofs about what a load or store does through the whole fabric.  To    *)
(* devices it is register accesses: which are made, in what order, with    *)
(* what data, and what the load returns, by a history invariant that says  *)
(* how far they have come at each point of the dialogue between master,    *)
(* interconnect and device.  To memory it is one atomic access: the bus    *)
(* master's own theorems, about any slave that obeys the protocol, are     *)
(* applied to the interconnect and axil_mem.                               *)
(***************************************************************************)
EXTENDS SocProofs, SequenceTheorems

-----------------------------------------------------------------------------
(* The register access that a word of a load or store asks for *)

LEMMA NextAddress ==
  ASSUME NEW a \in 0 .. NWords - 1
  PROVE  (a + 1) % NWords \in 0 .. NWords - 1 /\ a % NWords = a /\ (a + 1) % NWords # a
<1>1. NWords \in Nat /\ NWords > 1 /\ a \in Nat /\ a < NWords
  BY SocAssumption
<1>2. CASE a + 1 < NWords
  <2>1. (a + 1) % NWords = a + 1 /\ a % NWords = a
    BY <1>1, <1>2
  <2> QED BY <1>1, <1>2, <2>1
<1>3. CASE a + 1 = NWords
  <2>1. (a + 1) % NWords = 0 /\ a % NWords = a
    BY <1>1, <1>3
  <2> QED BY <1>1, <1>3, <2>1
<1> QED BY <1>1, <1>2, <1>3

LEMMA RequestFields ==
  ASSUME req \in Requests
  PROVE  /\ req.word \in 0 .. NWords - 1 /\ req.lane \in 0 .. 3 /\ req.funct3 \in 0 .. 7
         /\ req.data \in [0 .. 3 -> 0 .. 255]
         /\ M!Width(req) \in {0, 1, 2, 4} /\ M!ReadBytes(req) \in 1 .. 4
         /\ M!Crosses <=> req.lane + M!ReadBytes(req) > 4
         /\ req # M!None
<1>1. req \in M!Access
  BY SocAssumption
<1>2. /\ req.word \in 0 .. NWords - 1 /\ req.lane \in 0 .. 3 /\ req.funct3 \in 0 .. 7
      /\ req.data \in [0 .. 3 -> 0 .. 255] /\ req.op \in {"read", "write"}
  BY <1>1 DEF M!Access, M!WordAddr, M!Lane, M!Bytes, M!Byte
<1>3. M!None.op = "none"
  BY DEF M!None
<1>4. M!Width(req) \in {0, 1, 2, 4} /\ M!ReadBytes(req) \in 1 .. 4
  BY <1>2 DEF M!Width, M!ReadBytes
<1>5. M!Crosses <=> req.lane + M!ReadBytes(req) > 4
  BY <1>2 DEF M!Width, M!ReadBytes, M!Crosses, M!IsWord, M!IsHalf
<1> QED BY <1>2, <1>3, <1>4, <1>5

\* The place of a byte of the access.
LEMMA PlaceOfByte ==
  ASSUME req \in Requests, NEW k \in 0 .. 3
  PROVE  /\ M!WordOf(req, k) = IF req.lane + k < 4 THEN M!AddrLo ELSE M!AddrHi
         /\ M!LaneOf(req, k) = IF req.lane + k < 4 THEN req.lane + k ELSE req.lane + k - 4
         /\ M!LaneOf(req, k) \in Lane /\ M!AddrHi # M!AddrLo
         /\ M!AddrLo \in 0 .. NWords - 1 /\ M!AddrHi \in 0 .. NWords - 1
<1>1. req.word \in 0 .. NWords - 1 /\ req.lane \in 0 .. 3
  BY RequestFields
<1>2. /\ (req.lane + k) \div 4 = IF req.lane + k < 4 THEN 0 ELSE 1
      /\ (req.lane + k) % 4 = IF req.lane + k < 4 THEN req.lane + k ELSE req.lane + k - 4
  BY <1>1
<1>3. req.word % NWords = M!AddrLo /\ (req.word + 1) % NWords = M!AddrHi /\ req.word + 0 = req.word
  BY <1>1, NextAddress DEF M!AddrLo, M!AddrHi
<1>4. M!WordOf(req, k) = IF req.lane + k < 4 THEN M!AddrLo ELSE M!AddrHi
  BY <1>2, <1>3 DEF M!WordOf
<1>5. M!LaneOf(req, k) = IF req.lane + k < 4 THEN req.lane + k ELSE req.lane + k - 4
  BY <1>2 DEF M!LaneOf
<1>6. M!LaneOf(req, k) \in Lane
  BY <1>1, <1>5 DEF Lane
<1>7. M!AddrHi # M!AddrLo /\ M!AddrLo \in 0 .. NWords - 1 /\ M!AddrHi \in 0 .. NWords - 1
  BY <1>1, NextAddress DEF M!AddrLo, M!AddrHi
<1> QED BY <1>4, <1>5, <1>6, <1>7

\* The byte of the register that goes to lane l of the word offered.
ByteFor(l) == (IF phase2 THEN l + 4 ELSE l) - req.lane

LEMMA ByteForPlace ==
  ASSUME req \in Requests, NEW k \in 0 .. 3, NEW l \in Lane
  PROVE  M!WordOf(req, k) = M!Addr /\ M!LaneOf(req, k) = l <=> k = ByteFor(l)
<1>1. req.lane \in 0 .. 3 /\ l \in 0 .. 3
  BY RequestFields DEF Lane
<1>2. M!Addr = IF phase2 THEN M!AddrHi ELSE M!AddrLo
  BY DEF M!Addr
<1>3. CASE req.lane + k < 4
  <2>1. M!WordOf(req, k) = M!AddrLo /\ M!LaneOf(req, k) = req.lane + k /\ M!AddrHi # M!AddrLo
    BY <1>3, PlaceOfByte
  <2> QED BY <1>1, <1>2, <1>3, <2>1 DEF ByteFor
<1>4. CASE ~ req.lane + k < 4
  <2>1. M!WordOf(req, k) = M!AddrHi /\ M!LaneOf(req, k) = req.lane + k - 4 /\ M!AddrHi # M!AddrLo
    BY <1>4, PlaceOfByte
  <2> QED BY <1>1, <1>2, <1>4, <2>1 DEF ByteFor
<1> QED BY <1>3, <1>4

LEMMA ByteForWires ==
  ASSUME req \in Requests, NEW l \in Lane
  PROVE  /\ M!Wdata[l] = IF ByteFor(l) \in Lane THEN req.data[ByteFor(l)] ELSE 0
         /\ l \in M!Wstrb <=> ByteFor(l) \in 0 .. M!Width(req) - 1
<1>1. req.lane \in 0 .. 3 /\ l \in 0 .. 3 /\ M!Width(req) \in {0, 1, 2, 4}
  BY RequestFields DEF Lane
<1>2. l \in M!Lane /\ M!Lane = Lane
  BY DEF Lane, M!Lane
<1>3. CASE phase2
  <2>1. M!Wdata[l] = M!Shifted(l + 4) /\ ByteFor(l) = (l + 4) - req.lane
    <3>1. M!Wdata = M!DataHi
      BY <1>3 DEF M!Wdata
    <3>2. M!DataHi[l] = M!Shifted(l + 4)
      BY <1>2 DEF M!DataHi
    <3>3. ByteFor(l) = (l + 4) - req.lane
      BY <1>3 DEF ByteFor
    <3> QED BY <3>1, <3>2, <3>3
  <2>2. l \in M!Wstrb <=> l + 4 \in M!ByteEn
    BY <1>2, <1>3 DEF M!Wstrb, M!StrbHi
  <2>3. l + 4 \in M!ByteEn <=> ByteFor(l) \in 0 .. M!Width(req) - 1
    <3>1. l + 4 = req.lane + ByteFor(l)
      BY <1>1, <2>1
    <3>2. \A k \in 0 .. M!Width(req) - 1 : l + 4 = req.lane + k => k = ByteFor(l)
      BY <1>1, <2>1
    <3> QED BY <3>1, <3>2 DEF M!ByteEn
  <2>4. M!Shifted(l + 4) = IF ByteFor(l) \in Lane THEN req.data[ByteFor(l)] ELSE 0
    BY <1>2, <2>1, Zenon DEF M!Shifted
  <2> QED BY <2>1, <2>2, <2>3, <2>4
<1>4. CASE ~phase2
  <2>1. M!Wdata[l] = M!Shifted(l) /\ ByteFor(l) = l - req.lane
    BY <1>2, <1>4 DEF M!Wdata, M!DataLo, ByteFor
  <2>2. l \in M!Wstrb <=> l \in M!ByteEn
    BY <1>2, <1>4 DEF M!Wstrb, M!StrbLo
  <2>3. l \in M!ByteEn <=> ByteFor(l) \in 0 .. M!Width(req) - 1
    <3>1. l = req.lane + ByteFor(l)
      BY <1>1, <2>1
    <3>2. \A k \in 0 .. M!Width(req) - 1 : l = req.lane + k => k = ByteFor(l)
      BY <1>1, <2>1
    <3> QED BY <3>1, <3>2 DEF M!ByteEn
  <2> QED BY <1>2, <2>1, <2>2, <2>3 DEF M!Shifted
<1> QED BY <1>3, <1>4

LEMMA RequestedLanes ==
  ASSUME req \in Requests
  PROVE  M!Wstrb = LanesIn(req, M!Addr)
<1>1. \A l \in Lane : l \in M!Wstrb <=> l \in LanesIn(req, M!Addr)
  <2> TAKE l \in Lane
  <2>1. M!Width(req) \in {0, 1, 2, 4}
    BY RequestFields
  <2>2. \A k \in 0 .. M!Width(req) - 1 :
          M!WordOf(req, k) = M!Addr /\ M!LaneOf(req, k) = l <=> k = ByteFor(l)
    <3> TAKE k \in 0 .. M!Width(req) - 1
    <3>1. k \in 0 .. 3
      BY <2>1
    <3> QED BY <3>1, ByteForPlace
  <2>3. l \in LanesIn(req, M!Addr) <=> ByteFor(l) \in 0 .. M!Width(req) - 1
    BY <2>2 DEF LanesIn
  <2> QED BY <2>3, ByteForWires
<1>2. M!Wstrb \subseteq Lane
  BY DEF M!Wstrb, M!StrbLo, M!StrbHi, M!Lane, Lane
<1>3. LanesIn(req, M!Addr) \subseteq Lane
  BY DEF LanesIn
<1> QED BY <1>1, <1>2, <1>3

\* Bit j of byte k of the store's register.
BitOf(k, j) == (req.data[k] \div 2 ^ j) % 2 = 1

LEMMA BitPlace ==
  ASSUME NEW l \in Lane, NEW j \in 0 .. 7
  PROVE  8 * l + j \in 0 .. 31 /\ (8 * l + j) \div 8 = l /\ (8 * l + j) % 8 = j
  BY DEF Lane

LEMMA SameBit ==
  ASSUME NEW l \in Lane, NEW j \in 0 .. 7, NEW m \in Lane, NEW i \in 0 .. 7, 8 * l + j = 8 * m + i
  PROVE  l = m /\ i = j
  BY DEF Lane

LEMMA EachBit ==
  ASSUME NEW i \in 0 .. 31
  PROVE  \E l \in Lane, j \in 0 .. 7 : i = 8 * l + j
<1>1. PICK q, r : q = i \div 8 /\ r = i % 8
  OBVIOUS
<1>2. q \in 0 .. 3 /\ r \in 0 .. 7 /\ i = 8 * q + r
  BY <1>1
<1> QED BY <1>2 DEF Lane

LEMMA OfferedBit ==
  ASSUME req \in Requests, NEW l \in Lane, NEW j \in 0 .. 7
  PROVE  8 * l + j \in ToBits(M!Wdata) <=> ByteFor(l) \in Lane /\ BitOf(ByteFor(l), j)
<1>1. 8 * l + j \in ToBits(M!Wdata) <=> (M!Wdata[l] \div 2 ^ j) % 2 = 1
  BY BitPlace DEF ToBits
<1>2. M!Wdata[l] = IF ByteFor(l) \in Lane THEN req.data[ByteFor(l)] ELSE 0
  BY ByteForWires
<1>3. (0 \div 2 ^ j) % 2 = 0
  <2>1. j \in {0, 1, 2, 3, 4, 5, 6, 7}
    OBVIOUS
  <2>2. 2 ^ j \in {1, 2, 4, 8, 16, 32, 64, 128}
    <3>1. /\ j = 0 => 2 ^ j = 1
          /\ j = 1 => 2 ^ j = 2
          /\ j = 2 => 2 ^ j = 4
          /\ j = 3 => 2 ^ j = 8
          /\ j = 4 => 2 ^ j = 16
          /\ j = 5 => 2 ^ j = 32
          /\ j = 6 => 2 ^ j = 64
          /\ j = 7 => 2 ^ j = 128
      BY Powers, ZenonT(60)
    <3> QED BY <2>1, <3>1, Zenon
  <2>3. PICK p \in {1, 2, 4, 8, 16, 32, 64, 128} : p = 2 ^ j
    BY <2>2
  <2>4. 0 \div p = 0
    OBVIOUS
  <2> QED BY <2>3, <2>4
<1>4. CASE ByteFor(l) \in Lane
  <2>1. M!Wdata[l] = req.data[ByteFor(l)]
    BY <1>2, <1>4
  <2>2. BitOf(ByteFor(l), j) <=> (M!Wdata[l] \div 2 ^ j) % 2 = 1
    BY <2>1, Zenon DEF BitOf
  <2> QED BY <1>1, <1>4, <2>2, Zenon
<1>5. CASE ByteFor(l) \notin Lane
  <2>1. M!Wdata[l] = 0
    BY <1>2, <1>5
  <2>2. (M!Wdata[l] \div 2 ^ j) % 2 = 0
    BY <1>3, <2>1, Zenon
  <2>3. 0 # 1
    OBVIOUS
  <2> QED BY <1>1, <1>5, <2>2, <2>3, Zenon
<1> QED BY <1>4, <1>5

LEMMA CarriedBit ==
  ASSUME req \in Requests, NEW l \in Lane, NEW j \in 0 .. 7, NEW n \in {0, 1, 2, 4},
         \A k : k \in Carried(req, M!Addr) <=> k \in 0 .. n - 1 /\ M!WordOf(req, k) = M!Addr
  PROVE  8 * l + j \in BitsIn(req, M!Addr) <=> ByteFor(l) \in 0 .. n - 1 /\ BitOf(ByteFor(l), j)
<1> DEFINE Bits(k) == {8 * M!LaneOf(req, k) + i : i \in {x \in 0 .. 7 : BitOf(k, x)}}
<1>1. BitsIn(req, M!Addr) = UNION {Bits(k) : k \in Carried(req, M!Addr)}
  BY DEF BitsIn, BitOf
<1>2. 8 * l + j \in BitsIn(req, M!Addr) <=> \E k \in Carried(req, M!Addr) : 8 * l + j \in Bits(k)
  <2> HIDE DEF Bits
  <2> QED BY <1>1
<1>3. \A k \in Carried(req, M!Addr) : 8 * l + j \in Bits(k) <=> k = ByteFor(l) /\ BitOf(k, j)
  <2> TAKE k \in Carried(req, M!Addr)
  <2>1. k \in 0 .. 3 /\ M!WordOf(req, k) = M!Addr
    <3>1. k \in 0 .. n - 1 /\ M!WordOf(req, k) = M!Addr
      BY Zenon
    <3> QED BY <3>1
  <2>2. M!LaneOf(req, k) \in Lane
    BY <2>1, PlaceOfByte
  <2>3. M!LaneOf(req, k) = l <=> k = ByteFor(l)
    BY <2>1, ByteForPlace
  <2>4. ASSUME 8 * l + j \in Bits(k) PROVE M!LaneOf(req, k) = l /\ BitOf(k, j)
    <3>1. PICK i \in 0 .. 7 : BitOf(k, i) /\ 8 * l + j = 8 * M!LaneOf(req, k) + i
      BY <2>4
    <3>2. l = M!LaneOf(req, k) /\ i = j
      BY <2>2, <3>1, SameBit
    <3> QED BY <3>1, <3>2
  <2>5. ASSUME M!LaneOf(req, k) = l, BitOf(k, j) PROVE 8 * l + j \in Bits(k)
    BY <2>5
  <2> HIDE DEF Bits
  <2> QED BY <2>3, <2>4, <2>5
<1>4. ByteFor(l) \in 0 .. n - 1 <=> ByteFor(l) \in Carried(req, M!Addr)
  <2>1. ASSUME ByteFor(l) \in 0 .. n - 1 PROVE M!WordOf(req, ByteFor(l)) = M!Addr
    <3>1. ByteFor(l) \in 0 .. 3
      BY <2>1
    <3> QED BY <3>1, ByteForPlace
  <2> QED BY <2>1
<1> HIDE DEF Bits
<1> QED BY <1>2, <1>3, <1>4

LEMMA SameWordBits ==
  ASSUME NEW v, NEW w, v \subseteq 0 .. 31, w \subseteq 0 .. 31,
         \A l \in Lane, j \in 0 .. 7 : 8 * l + j \in v <=> 8 * l + j \in w
  PROVE  v = w
<1>1. \A i \in 0 .. 31 : i \in v <=> i \in w
  <2> TAKE i \in 0 .. 31
  <2>1. PICK l \in Lane, j \in 0 .. 7 : i = 8 * l + j
    BY EachBit
  <2> QED BY <2>1
<1> QED BY <1>1

LEMMA WordBits ==
  ASSUME req \in Requests
  PROVE  BitsIn(req, M!Addr) \subseteq 0 .. 31 /\ ToBits(M!Wdata) \subseteq 0 .. 31
<1>1. ASSUME NEW k \in Carried(req, M!Addr), NEW i \in 0 .. 7
      PROVE  8 * M!LaneOf(req, k) + i \in 0 .. 31
  <2>1. k \in 0 .. 3
    <3>1. M!Width(req) \in {0, 1, 2, 4}
      BY RequestFields
    <3> QED BY <3>1 DEF Carried
  <2> QED BY <2>1, PlaceOfByte, BitPlace
<1>2. BitsIn(req, M!Addr) \subseteq 0 .. 31
  BY <1>1 DEF BitsIn
<1> QED BY <1>2 DEF ToBits

\* The timer and the UART are offered the whole word of the register.
LEMMA RequestedWhole ==
  ASSUME req \in Requests, Target(M!Addr) \notin {"dmem", "gpio"}
  PROVE  ToBits(M!Wdata) = BitsIn(req, M!Addr)
<1>1. \A k : k \in Carried(req, M!Addr) <=> k \in 0 .. 4 - 1 /\ M!WordOf(req, k) = M!Addr
  BY DEF Carried
<1>2. \A l \in Lane, j \in 0 .. 7 : 8 * l + j \in ToBits(M!Wdata) <=> 8 * l + j \in BitsIn(req, M!Addr)
  <2> TAKE l \in Lane, j \in 0 .. 7
  <2>1. 8 * l + j \in BitsIn(req, M!Addr) <=> ByteFor(l) \in 0 .. 4 - 1 /\ BitOf(ByteFor(l), j)
    BY <1>1, CarriedBit
  <2> QED BY <2>1, OfferedBit DEF Lane
<1> QED BY <1>2, WordBits, SameWordBits

\* Memory and the GPIO are offered the bytes that count and which they are.
LEMMA RequestedPart ==
  ASSUME req \in Requests, Target(M!Addr) \in {"dmem", "gpio"}
  PROVE  ToBits(M!Wdata) \cap Lanes(M!Wstrb) = BitsIn(req, M!Addr)
<1>1. \A k : k \in Carried(req, M!Addr)
               <=> k \in 0 .. M!Width(req) - 1 /\ M!WordOf(req, k) = M!Addr
  BY DEF Carried
<1>2. M!Width(req) \in {0, 1, 2, 4}
  BY RequestFields
<1>3. \A l \in Lane, j \in 0 .. 7 : 8 * l + j \in ToBits(M!Wdata) \cap Lanes(M!Wstrb)
                                      <=> 8 * l + j \in BitsIn(req, M!Addr)
  <2> TAKE l \in Lane, j \in 0 .. 7
  <2>1. 8 * l + j \in BitsIn(req, M!Addr)
          <=> ByteFor(l) \in 0 .. M!Width(req) - 1 /\ BitOf(ByteFor(l), j)
    BY <1>1, <1>2, CarriedBit
  <2>2. 8 * l + j \in Lanes(M!Wstrb) <=> l \in M!Wstrb
    <3>1. 8 * l + j \in 0 .. XLEN - 1 /\ (8 * l + j) \div 8 = l
      BY SocAssumption DEF Lane
    <3> QED BY <3>1 DEF Lanes
  <2>3. l \in M!Wstrb <=> ByteFor(l) \in 0 .. M!Width(req) - 1
    BY ByteForWires
  <2>4. ByteFor(l) \in 0 .. M!Width(req) - 1 => ByteFor(l) \in Lane
    BY <1>2 DEF Lane
  <2>5. 8 * l + j \in ToBits(M!Wdata) <=> ByteFor(l) \in Lane /\ BitOf(ByteFor(l), j)
    BY OfferedBit
  <2> QED BY <2>1, <2>2, <2>3, <2>4, <2>5, Zenon
<1>4. ToBits(M!Wdata) \cap Lanes(M!Wstrb) \subseteq 0 .. 31
  BY WordBits
<1> QED BY <1>3, <1>4, WordBits, SameWordBits

\* What the device's port holds is what the store asks for.
LEMMA RequestedWrite ==
  ASSUME PathInv, ic.state = "writeResp"
  PROVE  Seen(ic.select, Payload(ic.select, ic.data, ic.strb))
           = Payload(ic.select, BitsIn(req, M!Addr), LanesIn(req, M!Addr))
<1>1. /\ ic.data = ToBits(M!Wdata) /\ ic.strb = M!Wstrb /\ ic.select = Target(M!Addr)
      /\ ic.select \in Devices
  BY DEF PathInv, Routed
<1>2. req \in Requests
  <2>1. req.op = "write" /\ req \in Requests \cup {M!None}
    BY DEF PathInv, Dialogue, ForRequest
  <2> QED BY <2>1 DEF M!None
<1>3. ic.strb = LanesIn(req, M!Addr)
  BY <1>1, <1>2, RequestedLanes
<1>4. CASE ic.select \in {"dmem", "gpio"}
  <2>1. ic.data \cap Lanes(ic.strb) = BitsIn(req, M!Addr)
    BY <1>1, <1>2, <1>4, RequestedPart
  <2>2. PICK p : p = [value |-> ic.data, strb |-> ic.strb]
    OBVIOUS
  <2>3. Payload(ic.select, ic.data, ic.strb) = p
    BY <1>4, <2>2 DEF Payload
  <2>4. Seen(ic.select, p) = [p EXCEPT !.value = p.value \cap Lanes(p.strb)]
    BY <1>4 DEF Seen
  <2>5. Seen(ic.select, p) = [value |-> ic.data \cap Lanes(ic.strb), strb |-> ic.strb]
    BY <2>2, <2>4
  <2>6. Payload(ic.select, BitsIn(req, M!Addr), LanesIn(req, M!Addr))
          = [value |-> BitsIn(req, M!Addr), strb |-> LanesIn(req, M!Addr)]
    BY <1>4 DEF Payload
  <2> QED BY <1>3, <2>1, <2>3, <2>5, <2>6
<1>5. CASE ic.select \notin {"dmem", "gpio"}
  <2>1. ic.data = BitsIn(req, M!Addr)
    BY <1>1, <1>2, <1>5, RequestedWhole
  <2>2. Seen(ic.select, Payload(ic.select, ic.data, ic.strb)) = Payload(ic.select, ic.data, ic.strb)
    BY <1>5 DEF Seen
  <2> QED BY <1>3, <2>1, <2>2
<1> QED BY <1>4, <1>5

-----------------------------------------------------------------------------
(* The register accesses of a cycle *)

StrobedBy(d) == Strobed(d, Device(d), Device(d)')
WriteBy(d) == [op |-> "write", dev |-> d, word |-> ic.addr, reg |-> Register(d, ic.addr),
               data |-> Seen(d, Payload(d, ic.data, ic.strb))]
ReadBy(d)  == [op |-> "read", dev |-> d, word |-> ic.addr, reg |-> Register(d, ic.addr),
               data |-> Device(d)'.rd.data]
StrobesNow == Strobed("dmem", dmem, dmem') \o Strobed("gpio", gpio, gpio')
                \o Strobed("uart", uart, uart') \o Strobed("timer", timer, timer')

LEMMA Alone ==
  ASSUME NEW x, NEW q, q = <<>> \/ q = <<x>>
  PROVE  <<>> \o q = q /\ q \o <<>> = q
<1>1. CASE q = <<>>
  BY <1>1
<1>2. CASE q = <<x>>
  BY <1>2
<1> QED BY <1>1, <1>2

LEMMA StrobeForm ==
  ASSUME NEW d, NEW old, NEW new
  PROVE  /\ ~new.wr.b /\ ~new.rd.r => Strobed(d, old, new) = <<>>
         /\ new.wr.b /\ ~old.wr.b /\ ~new.rd.r =>
              Strobed(d, old, new) = <<[op |-> "write", dev |-> d, word |-> ic.addr,
                                        reg |-> old.wr.addr, data |-> Seen(d, old.wr.data)]>>
         /\ ~new.wr.b /\ new.rd.r /\ ~old.rd.r =>
              Strobed(d, old, new) = <<[op |-> "read", dev |-> d, word |-> ic.addr,
                                        reg |-> old.rd.addr, data |-> new.rd.data]>>
<1> DEFINE w == [op |-> "write", dev |-> d, word |-> ic.addr, reg |-> old.wr.addr,
                 data |-> Seen(d, old.wr.data)]
           r == [op |-> "read", dev |-> d, word |-> ic.addr, reg |-> old.rd.addr,
                 data |-> new.rd.data]
           p == IF new.wr.b /\ ~old.wr.b THEN <<w>> ELSE <<>>
           q == IF new.rd.r /\ ~old.rd.r THEN <<r>> ELSE <<>>
<1>1. Strobed(d, old, new) = p \o q
  BY Zenon DEF Strobed
<1>2. /\ <<>> \o <<>> = <<>>
      /\ <<w>> \o <<>> = <<w>>
      /\ <<>> \o <<r>> = <<r>>
  BY Alone
<1>3. /\ ~new.wr.b => p = <<>>
      /\ new.wr.b /\ ~old.wr.b => p = <<w>>
      /\ ~new.rd.r => q = <<>>
      /\ new.rd.r /\ ~old.rd.r => q = <<r>>
  OBVIOUS
<1> HIDE DEF p, q
<1> QED BY <1>1, <1>2, <1>3, Zenon

LEMMA QuietStrobe ==
  ASSUME NEW d, WrQuiet(d)', RdQuiet(d)'
  PROVE  StrobedBy(d) = <<>>
<1>1. ~Device(d)'.wr.b /\ ~Device(d)'.rd.r
  BY Zenon DEF WrQuiet, RdQuiet
<1> QED BY <1>1, StrobeForm DEF StrobedBy

LEMMA StrobeOf ==
  ASSUME PathInv, NEW busy, NEW sw, NEW value, ClockEdge(busy, sw, value), NEW d \in Devices
  PROVE  /\ ~(Working /\ d = ic.select) => StrobedBy(d) = <<>>
         /\ ic.state = "writeResp" /\ d = ic.select =>
              /\ ~WrStrobed(d) \/ WrStrobed(d)' => StrobedBy(d) = <<>>
              /\ WrStrobed(d) /\ WrAnswered(d)' => StrobedBy(d) = <<WriteBy(d)>>
         /\ ic.state = "read" /\ d = ic.select =>
              /\ ~RdStrobed(d) \/ RdStrobed(d)' => StrobedBy(d) = <<>>
              /\ RdStrobed(d) /\ RdAnswered(d)' => StrobedBy(d) = <<ReadBy(d)>>
<1>1. ASSUME ~(Working /\ d = ic.select) PROVE StrobedBy(d) = <<>>
  BY <1>1, PortsRest, QuietStrobe
<1>2. ASSUME ic.state = "writeResp", d = ic.select
      PROVE  /\ ~WrStrobed(d) \/ WrStrobed(d)' => StrobedBy(d) = <<>>
             /\ WrStrobed(d) /\ WrAnswered(d)' => StrobedBy(d) = <<WriteBy(d)>>
  <2>1. /\ WrOffered(d) => WrStrobed(d)'
        /\ WrAnswered(d) => WrQuiet(d)'
        /\ RdQuiet(d)'
    BY <1>2, RespTurn
  <2>2. WrOffered(d) \/ WrStrobed(d) \/ WrAnswered(d)
    BY <1>2 DEF PathInv, AtWork, Writing
  <2>3. ~Device(d)'.rd.r
    BY <2>1, Zenon DEF RdQuiet
  <2>4. WrStrobed(d)' => ~Device(d)'.wr.b
    BY Zenon DEF WrStrobed, WrOn
  <2>5. WrQuiet(d)' => ~Device(d)'.wr.b
    BY Zenon DEF WrQuiet
  <2>6. ~WrStrobed(d) \/ WrStrobed(d)' => StrobedBy(d) = <<>>
    BY <2>1, <2>2, <2>3, <2>4, <2>5, StrobeForm DEF StrobedBy
  <2>7. ASSUME WrStrobed(d), WrAnswered(d)' PROVE StrobedBy(d) = <<WriteBy(d)>>
    <3>1. Device(d)'.wr.b
      BY <2>7, Zenon DEF WrAnswered, WrEnd
    <3>2. ~Device(d).wr.b
      BY <2>7, Zenon DEF WrStrobed, WrOn
    <3>3. Device(d).wr.addr = Register(d, ic.addr) /\ Device(d).wr.data = Payload(d, ic.data, ic.strb)
      BY <2>7, Zenon DEF WrStrobed
    <3>4. StrobedBy(d) = <<[op |-> "write", dev |-> d, word |-> ic.addr,
                            reg |-> Device(d).wr.addr, data |-> Seen(d, Device(d).wr.data)]>>
      BY <2>3, <3>1, <3>2, StrobeForm DEF StrobedBy
    <3> QED BY <3>3, <3>4, Zenon DEF WriteBy
  <2> QED BY <2>6, <2>7
<1>3. ASSUME ic.state = "read", d = ic.select
      PROVE  /\ ~RdStrobed(d) \/ RdStrobed(d)' => StrobedBy(d) = <<>>
             /\ RdStrobed(d) /\ RdAnswered(d)' => StrobedBy(d) = <<ReadBy(d)>>
  <2>1. /\ RdSelected(d) => RdOffered(d)'
        /\ RdOffered(d) => RdStrobed(d)'
        /\ RdAnswered(d) => RdQuiet(d)'
        /\ WrQuiet(d)'
    BY <1>3, FetchTurn
  <2>2. RdSelected(d) \/ RdOffered(d) \/ RdStrobed(d) \/ RdAnswered(d)
    BY <1>3 DEF PathInv, AtWork, Reading
  <2>3. ~Device(d)'.wr.b
    BY <2>1, Zenon DEF WrQuiet
  <2>4. RdStrobed(d)' => ~Device(d)'.rd.r
    BY Zenon DEF RdStrobed, RdOn
  <2>5. RdQuiet(d)' => ~Device(d)'.rd.r
    BY Zenon DEF RdQuiet
  <2>6. RdOffered(d)' => RdQuiet(d)'
    BY Zenon DEF RdOffered
  <2>7. ~RdStrobed(d) \/ RdStrobed(d)' => StrobedBy(d) = <<>>
    BY <2>1, <2>2, <2>3, <2>4, <2>5, <2>6, StrobeForm DEF StrobedBy
  <2>8. ASSUME RdStrobed(d), RdAnswered(d)' PROVE StrobedBy(d) = <<ReadBy(d)>>
    <3>1. Device(d)'.rd.r
      BY <2>8, Zenon DEF RdAnswered, RdEnd
    <3>2. ~Device(d).rd.r
      BY <2>8, Zenon DEF RdStrobed, RdOn
    <3>3. Device(d).rd.addr = Register(d, ic.addr)
      BY <2>8, Zenon DEF RdStrobed
    <3>4. StrobedBy(d) = <<[op |-> "read", dev |-> d, word |-> ic.addr,
                            reg |-> Device(d).rd.addr, data |-> Device(d)'.rd.data]>>
      BY <2>3, <3>1, <3>2, StrobeForm DEF StrobedBy
    <3> QED BY <3>3, <3>4, Zenon DEF ReadBy
  <2> QED BY <2>7, <2>8
<1> QED BY <1>1, <1>2, <1>3

\* Only the selected device's port strobes.
LEMMA StrobesOf ==
  ASSUME PathInv, NEW busy, NEW sw, NEW value, ClockEdge(busy, sw, value)
  PROVE  /\ ~Working => StrobesNow = <<>>
         /\ Working => StrobesNow = StrobedBy(ic.select)
<1>1. StrobesNow = StrobedBy("dmem") \o StrobedBy("gpio") \o StrobedBy("uart") \o StrobedBy("timer")
  BY DEF StrobesNow, StrobedBy, Device
<1>2. Devices = {"dmem", "gpio", "uart", "timer"}
  BY SocAssumption
<1>3. \A d \in Devices : ~(Working /\ d = ic.select) => StrobedBy(d) = <<>>
  BY StrobeOf
<1>4. CASE ~Working
  BY <1>1, <1>2, <1>3, <1>4
<1>5. CASE Working
  <2>1. ic.select \in Devices
    BY <1>5 DEF PathInv, Routed, Working
  <2>2. PICK x : StrobedBy(ic.select) = <<>> \/ StrobedBy(ic.select) = <<x>>
    <3>1. PICK d \in Devices : d = ic.select
      BY <2>1
    <3>2. CASE ic.state = "writeResp"
      <4>1. WrOffered(d) \/ WrStrobed(d) \/ WrAnswered(d)
        BY <3>1, <3>2 DEF PathInv, AtWork, Writing
      <4>2. WrStrobed(d) => WrStrobed(d)' \/ WrAnswered(d)'
        BY <3>1, <3>2, RespTurn
      <4> QED BY <3>1, <3>2, <4>1, <4>2, StrobeOf
    <3>3. CASE ic.state = "read"
      <4>1. RdStrobed(d) => RdStrobed(d)' \/ RdAnswered(d)'
        BY <3>1, <3>3, FetchTurn
      <4> QED BY <3>1, <3>3, <4>1, StrobeOf
    <3> QED BY <1>5, <3>2, <3>3 DEF Working
  <2>3. PICK q : q = StrobedBy(ic.select)
    OBVIOUS
  <2>4. <<>> \o q = q /\ q \o <<>> = q
    BY <2>2, <2>3, Alone
  <2>5. <<>> \o <<>> = <<>>
    OBVIOUS
  <2> QED BY <1>1, <1>2, <1>3, <2>1, <2>3, <2>4, <2>5, Zenon
<1> QED BY <1>4, <1>5

-----------------------------------------------------------------------------
(* The register accesses of the load or store so far *)

\* The device has done what the interconnect asks of it.
Struck == \/ ic.state = "writeResp" /\ WrAnswered(ic.select)
          \/ ic.state = "read" /\ RdAnswered(ic.select)
          \/ ic.state = "waitIdle" /\ Target(ic.addr) # NoDevice
Once(s, there) == IF there THEN <<s>> ELSE <<>>
\* What a load finds in the register of word w, if s is the access that read it.
Returned(s, w) == IF Target(w) = NoDevice THEN Zeros ELSE ToBytes(ReadBits(s.dev, s.data))

FirstDone == phase2 /\ state # "idle" /\ Target(M!AddrLo) # NoDevice

\* The access of the first word, and what it read.
FirstWord(s) == /\ FirstDone => IsAccess(s, req, M!AddrLo)
                /\ state = "read" /\ phase2 => wordLo = Returned(s, M!AddrLo)
\* The access of the word under way, and what it read.
ThisWord(t) == /\ Struck => IsAccess(t, req, M!Addr)
               /\ ic.state = "read" /\ RdAnswered(ic.select) => t.data = Device(ic.select).rd.data
               /\ ic.rvalid => ToBytes(ic.data) = Returned(t, M!Addr)
Accounts(s, t) == /\ strobes = Once(s, FirstDone) \o Once(t, Struck)
                  /\ FirstWord(s) /\ ThisWord(t)

LEMMA OnceForm ==
  ASSUME NEW s, NEW b
  PROVE  (b => Once(s, b) = <<s>>) /\ (~b => Once(s, b) = <<>>)
  BY DEF Once

LEMMA Twice ==
  ASSUME NEW s, NEW t, NEW a, a = <<>> \/ a = <<s>>, NEW b, b = <<>> \/ b = <<t>>
  PROVE  /\ (a \o b) \o <<>> = a \o b
         /\ (a \o <<>>) \o <<t>> = a \o <<t>>
         /\ <<>> \o b = b /\ a \o <<>> = a
<1>1. CASE a = <<>> /\ b = <<>>
  BY <1>1
<1>2. CASE a = <<>> /\ b = <<t>>
  BY <1>2
<1>3. CASE a = <<s>> /\ b = <<>>
  BY <1>3
<1>4. CASE a = <<s>> /\ b = <<t>>
  BY <1>4
<1> QED BY <1>1, <1>2, <1>3, <1>4

LEMMA Growing ==
  ASSUME PathInv, NEW busy, NEW sw, NEW value, ClockEdge(busy, sw, value)
  PROVE  /\ strobes' = IF M!BusStall THEN strobes \o StrobesNow ELSE StrobesNow
         /\ state # "idle" /\ ic.state # "waitIdle" => M!BusStall
         /\ state # "idle" => req \in Requests
<1>1. strobes' = IF M!BusStall THEN strobes \o StrobesNow ELSE StrobesNow
  BY Zenon DEF ClockEdge, StrobesNow
<1>2. state # "idle" => req \in Requests /\ req # M!None
  <2>1. M!None.op = "none"
    BY DEF M!None
  <2> QED BY <2>1 DEF PathInv, Dialogue, ForRequest
<1>3. ic.state # "waitIdle" => ~M!PhaseDone
  BY Answered DEF PathInv, Dialogue
<1> QED BY <1>1, <1>2, <1>3, Answered

LEMMA FirstHeld ==
  ASSUME NEW s, FirstWord(s), req' = req, phase2' = phase2, state # "idle", state' # "idle",
         state' = "read" => state = "read" /\ wordLo' = wordLo
  PROVE  FirstWord(s)' /\ (FirstDone' <=> FirstDone)
<1>1. M!AddrLo' = M!AddrLo
  BY RequestHeld
<1>2. Target(M!AddrLo)' = Target(M!AddrLo)
  BY <1>1 DEF Target
<1>3. FirstDone' <=> FirstDone
  BY <1>2 DEF FirstDone
<1>4. IsAccess(s, req, M!AddrLo)' <=> IsAccess(s, req, M!AddrLo)
  BY <1>1
<1>5. Returned(s, M!AddrLo)' = Returned(s, M!AddrLo)
  BY <1>1
<1> QED BY <1>3, <1>4, <1>5 DEF FirstWord

LEMMA ThisHeld ==
  ASSUME NEW t, req' = req, phase2' = phase2
  PROVE  /\ IsAccess(t, req, M!Addr)' <=> IsAccess(t, req, M!Addr)
         /\ Returned(t, M!Addr)' = Returned(t, M!Addr)
<1>1. M!Addr' = M!Addr
  BY RequestHeld
<1> QED BY <1>1

\* Nothing strobes: what is there stays.
LEMMA NothingNew ==
  ASSUME NEW s, NEW t, Accounts(s, t), FirstWord(s)', ThisWord(t)', FirstDone' <=> FirstDone,
         Struck' <=> Struck, strobes' = strobes \o <<>>
  PROVE  Accounts(s, t)'
<1>1. PICK a, b : a = Once(s, FirstDone) /\ b = Once(t, Struck)
  OBVIOUS
<1>2. (a = <<>> \/ a = <<s>>) /\ (b = <<>> \/ b = <<t>>)
  BY <1>1, OnceForm
<1>3. strobes' = a \o b
  BY <1>1, <1>2, Twice DEF Accounts
<1>4. Once(s, FirstDone)' = a /\ Once(t, Struck)' = b
  <2>1. /\ FirstDone' => Once(s, FirstDone)' = <<s>>
        /\ ~FirstDone' => Once(s, FirstDone)' = <<>>
        /\ Struck' => Once(t, Struck)' = <<t>>
        /\ ~Struck' => Once(t, Struck)' = <<>>
    BY DEF Once
  <2> QED BY <1>1, <2>1, OnceForm
<1> QED BY <1>3, <1>4 DEF Accounts

\* One strobe, the first for its word.
LEMMA OneNew ==
  ASSUME NEW s, NEW t, NEW u, Accounts(s, t), FirstWord(s)', ThisWord(u)', FirstDone' <=> FirstDone,
         ~Struck, Struck', strobes' = strobes \o <<u>>
  PROVE  Accounts(s, u)'
<1>1. PICK a : a = Once(s, FirstDone)
  OBVIOUS
<1>2. a = <<>> \/ a = <<s>>
  BY <1>1, OnceForm
<1>3. strobes = a \o <<>>
  BY <1>1, OnceForm DEF Accounts
<1>4. strobes' = a \o <<u>>
  BY <1>2, <1>3, Twice
<1>5. Once(s, FirstDone)' = a /\ Once(u, Struck)' = <<u>>
  <2>1. /\ FirstDone' => Once(s, FirstDone)' = <<s>>
        /\ ~FirstDone' => Once(s, FirstDone)' = <<>>
        /\ Struck' => Once(u, Struck)' = <<u>>
    BY DEF Once
  <2> QED BY <1>1, <2>1, OnceForm
<1> QED BY <1>4, <1>5 DEF Accounts

LEMMA ZeroWord == ToBytes({}) = Zeros
<1>1. ToByte({}) = 0
  BY DEF ToByte
<1>2. ASSUME NEW l \in Lane PROVE Field({}, 8 * l + 7, 8 * l) = {}
  BY DEF Field
<1> QED BY <1>1, <1>2 DEF ToBytes, Zeros

\* Granting, decoding and taking the data strobe nothing.
LEMMA HistoryWaits ==
  ASSUME PathInv, PathInv', NEW busy, NEW sw, NEW value, ClockEdge(busy, sw, value),
         NEW s, NEW t, Accounts(s, t), state # "idle",
         ic.state \in {"idle", "decode", "write", "writeDrop"}
  PROVE  Accounts(s, t)'
<1>1. /\ req' = req /\ phase2' = phase2 /\ state' # "idle" /\ (state' = "read" => state = "read")
      /\ ic'.state \in {"idle", "decode", "write", "writeDrop", "writeResp", "read", "waitIdle"}
      /\ ic'.state = "writeResp" => WrOffered(ic.select)' /\ ic'.select = ic.select
      /\ ic'.state = "read" => ic.state = "decode" /\ RdSelected(ic.select)'
      /\ ic'.state = "waitIdle" => /\ ic'.addr = ic.addr /\ Target(ic.addr) = NoDevice
                                   /\ state = "read" => ic'.data = {}
  <2>1. CASE ic.state = "idle" /\ ic.grant = NoGrant
    BY <2>1, GrantTurn
  <2>2. CASE ic.state = "idle" /\ ic.grant # NoGrant
    BY <2>2, AddressTurn
  <2>3. CASE ic.state = "decode"
    BY <2>3, DecodeTurn
  <2>4. CASE ic.state = "write"
    BY <2>4, DataTurn
  <2>5. CASE ic.state = "writeDrop"
    <3>1. Target(ic.addr) = NoDevice
      BY <2>5 DEF PathInv, Routed
    <3> QED BY <2>5, <3>1, DropTurn
  <2> QED BY <2>1, <2>2, <2>3, <2>4, <2>5
<1>2. state = "read" => wordLo' = wordLo
  BY ReadTurn
<1>3. FirstWord(s)' /\ (FirstDone' <=> FirstDone)
  BY <1>1, <1>2, FirstHeld DEF Accounts
<1>4. ~Struck
  BY DEF Struck
<1>5. ic'.state = "waitIdle" => Target(ic.addr)' = NoDevice
  BY <1>1 DEF Target, NoDevice
<1>6. ~Struck'
  <2>1. ic'.state = "writeResp" => ~WrAnswered(ic.select)'
    BY <1>1 DEF WrOffered, WrAnswered, WrQuiet, WrEnd
  <2>2. ic'.state = "read" => ~RdAnswered(ic.select)'
    BY <1>1 DEF RdSelected, RdAnswered
  <2> QED BY <1>5, <2>1, <2>2 DEF Struck, NoDevice
<1>7. ic'.rvalid => ToBytes(ic'.data) = Returned(t, M!Addr)'
  <2> SUFFICES ASSUME ic'.rvalid PROVE ToBytes(ic'.data) = Returned(t, M!Addr)'
    OBVIOUS
  <2>1. ic'.state = "waitIdle" /\ state' = "read"
    BY DEF PathInv, Dialogue
  <2>2. ic'.data = {}
    BY <1>1, <2>1
  <2>3. ic'.addr = M!Addr'
    BY <2>1 DEF PathInv, Routed
  <2>4. Returned(t, ic.addr)' = Zeros
    BY <1>5, <2>1 DEF Returned
  <2> QED BY <2>2, <2>3, <2>4, ZeroWord
<1>8. ThisWord(t)'
  <2>1. ~(ic'.state = "read" /\ RdAnswered(ic.select)')
    BY <1>6 DEF Struck
  <2> QED BY <1>6, <1>7, <2>1 DEF ThisWord
<1>9. strobes' = strobes \o <<>>
  BY <1>4, StrobesOf, Growing DEF Working
<1> QED BY <1>3, <1>4, <1>6, <1>8, <1>9, NothingNew

\* A write in its device.
LEMMA HistoryWrites ==
  ASSUME PathInv, PathInv', NEW busy, NEW sw, NEW value, ClockEdge(busy, sw, value),
         NEW s, NEW t, Accounts(s, t), ic.state = "writeResp"
  PROVE  \E u : Accounts(s, u)'
<1>1. PICK d \in Devices : d = ic.select
  BY DEF PathInv, Routed
<1>2. /\ req' = req /\ phase2' = phase2 /\ state = "wresp" /\ state' = "wresp"
      /\ ic'.addr = ic.addr /\ ic'.select = d
      /\ WrOffered(d) \/ WrStrobed(d) => ic'.state = "writeResp"
      /\ WrOffered(d) => WrStrobed(d)'
      /\ WrStrobed(d) => WrStrobed(d)' \/ WrAnswered(d)'
      /\ WrAnswered(d) => ic'.state = "waitIdle"
  BY <1>1, RespTurn
<1>3. WrOffered(d) \/ WrStrobed(d) \/ WrAnswered(d)
  BY <1>1 DEF PathInv, AtWork, Writing
<1>4. d = Target(ic.addr) /\ d # NoDevice /\ ic.addr = M!Addr /\ ~ic'.rvalid
  BY <1>1, <1>2 DEF PathInv, Routed, Dialogue
<1>5. FirstWord(s)' /\ (FirstDone' <=> FirstDone)
  BY <1>2, FirstHeld DEF Accounts
<1>6. Struck <=> WrAnswered(d)
  BY <1>1 DEF Struck
<1>7. strobes' = strobes \o StrobedBy(d)
  BY <1>1, <1>2, StrobesOf, Growing DEF Working
<1>8. /\ (IsAccess(t, req, M!Addr)' <=> IsAccess(t, req, M!Addr))
      /\ (Struck => IsAccess(t, req, M!Addr))
  BY <1>2, ThisHeld DEF Accounts, ThisWord
<1>9. /\ WrStrobed(d)' => ~WrAnswered(d)'
      /\ WrStrobed(d) => ~WrAnswered(d)
  BY Zenon DEF WrStrobed, WrAnswered, WrOn, WrEnd
<1>10. ic'.state = "writeResp" => (Struck' <=> WrAnswered(d)')
  <2>1. WrAnswered(ic.select)' <=> WrAnswered(d)'
    BY <1>2
  <2> QED BY <2>1 DEF Struck
<1>11. CASE ~WrAnswered(d) /\ WrStrobed(d)'
  <2>1. ic'.state = "writeResp" /\ ~Struck /\ ~Struck'
    BY <1>2, <1>3, <1>6, <1>9, <1>10, <1>11
  <2>2. StrobedBy(d) = <<>>
    BY <1>1, <1>11, StrobeOf
  <2>3. ThisWord(t)'
    BY <1>4, <2>1 DEF ThisWord
  <2>4. Accounts(s, t)'
    BY <1>5, <1>7, <2>1, <2>2, <2>3, NothingNew
  <2> QED BY <2>4
<1>12. CASE WrStrobed(d) /\ WrAnswered(d)'
  <2>1. ic'.state = "writeResp" /\ ~Struck /\ Struck'
    BY <1>2, <1>6, <1>9, <1>10, <1>12
  <2>2. PICK u : u = WriteBy(d)
    OBVIOUS
  <2>3. StrobedBy(d) = <<u>>
    BY <1>1, <1>12, <2>2, StrobeOf
  <2>4. IsAccess(u, req, M!Addr)
    <3>1. Seen(d, Payload(d, ic.data, ic.strb)) = Payload(d, BitsIn(req, M!Addr), LanesIn(req, M!Addr))
      BY <1>1, RequestedWrite
    <3>2. req.op = "write"
      BY <1>2 DEF PathInv, ForRequest
    <3>3. /\ u.op = "write" /\ u.dev = d /\ u.word = ic.addr /\ u.reg = Register(d, ic.addr)
          /\ u.data = Seen(d, Payload(d, ic.data, ic.strb))
      BY <2>2 DEF WriteBy
    <3> QED BY <1>4, <3>1, <3>2, <3>3 DEF IsAccess
  <2>5. IsAccess(u, req, M!Addr)'
    BY <1>2, <2>4, ThisHeld
  <2>6. ThisWord(u)'
    BY <1>4, <2>1, <2>5 DEF ThisWord
  <2>7. Accounts(s, u)'
    BY <1>5, <1>7, <2>1, <2>3, <2>6, OneNew
  <2> QED BY <2>7
<1>13. CASE WrAnswered(d)
  <2>1. ic'.state = "waitIdle" /\ Struck
    BY <1>2, <1>6, <1>13
  <2>2. Target(ic.addr)' # NoDevice
    BY <1>2, <1>4 DEF Target, NoDevice
  <2>3. Struck'
    BY <2>1, <2>2 DEF Struck, NoDevice
  <2>4. StrobedBy(d) = <<>>
    BY <1>1, <1>9, <1>13, StrobeOf
  <2>5. ThisWord(t)'
    BY <1>4, <1>8, <2>1, <2>3 DEF ThisWord
  <2>6. Accounts(s, t)'
    BY <1>5, <1>7, <2>1, <2>3, <2>4, <2>5, NothingNew
  <2> QED BY <2>6
<1> QED BY <1>2, <1>3, <1>11, <1>12, <1>13

\* A read in its device.
LEMMA HistoryReads ==
  ASSUME PathInv, PathInv', NEW busy, NEW sw, NEW value, ClockEdge(busy, sw, value),
         NEW s, NEW t, Accounts(s, t), ic.state = "read"
  PROVE  \E u : Accounts(s, u)'
<1>1. PICK d \in Devices : d = ic.select
  BY DEF PathInv, Routed
<1>2. /\ req' = req /\ phase2' = phase2 /\ state = "read" /\ state' = "read" /\ wordLo' = wordLo
      /\ ic'.addr = ic.addr /\ ic'.select = d
      /\ RdSelected(d) \/ RdOffered(d) \/ RdStrobed(d) => ic'.state = "read"
      /\ RdSelected(d) => RdOffered(d)'
      /\ RdOffered(d) => RdStrobed(d)'
      /\ RdStrobed(d) => RdStrobed(d)' \/ RdAnswered(d)'
      /\ RdAnswered(d) => ic'.state = "waitIdle" /\ ic'.data = ReadBits(d, Device(d).rd.data)
  BY <1>1, FetchTurn
<1>3. RdSelected(d) \/ RdOffered(d) \/ RdStrobed(d) \/ RdAnswered(d)
  BY <1>1 DEF PathInv, AtWork, Reading
<1>4. d = Target(ic.addr) /\ d # NoDevice /\ ic.addr = M!Addr
  BY <1>1 DEF PathInv, Routed
<1>5. FirstWord(s)' /\ (FirstDone' <=> FirstDone)
  BY <1>2, FirstHeld DEF Accounts
<1>6. Struck <=> RdAnswered(d)
  BY <1>1 DEF Struck
<1>7. strobes' = strobes \o StrobedBy(d)
  BY <1>1, <1>2, StrobesOf, Growing DEF Working
<1>8. /\ (IsAccess(t, req, M!Addr)' <=> IsAccess(t, req, M!Addr))
      /\ (Struck => IsAccess(t, req, M!Addr))
  BY <1>2, ThisHeld DEF Accounts, ThisWord
<1>9. /\ RdStrobed(d)' => ~RdAnswered(d)'
      /\ RdOffered(d)' => ~RdAnswered(d)'
      /\ RdStrobed(d) => ~RdAnswered(d)
      /\ RdOffered(d)' => ~RdStrobed(d)'
  BY Zenon DEF RdStrobed, RdOffered, RdAnswered, RdOn, RdEnd, RdQuiet
<1>10. /\ ic'.state = "read" => (Struck' <=> RdAnswered(d)') /\ ~ic'.rvalid
       /\ RdAnswered(ic.select)' <=> RdAnswered(d)'
       /\ Device(ic.select)' = Device(d)'
  <2>1. RdAnswered(ic.select)' <=> RdAnswered(d)'
    BY <1>2
  <2>2. Device(ic.select)' = Device(d)'
    BY <1>2
  <2> QED BY <2>1, <2>2 DEF Struck, PathInv, Dialogue
<1>11. CASE ~RdAnswered(d) /\ ~RdAnswered(d)'
  <2>1. ic'.state = "read" /\ ~Struck /\ ~Struck' /\ ~ic'.rvalid
    BY <1>2, <1>3, <1>6, <1>10, <1>11
  <2>2. StrobedBy(d) = <<>>
    BY <1>1, <1>2, <1>3, <1>11, StrobeOf
  <2>3. ThisWord(t)'
    BY <1>10, <1>11, <2>1 DEF ThisWord
  <2>4. Accounts(s, t)'
    BY <1>5, <1>7, <2>1, <2>2, <2>3, NothingNew
  <2> QED BY <2>4
<1>12. CASE RdStrobed(d) /\ RdAnswered(d)'
  <2>1. ic'.state = "read" /\ ~Struck /\ Struck' /\ ~ic'.rvalid
    BY <1>2, <1>6, <1>9, <1>10, <1>12
  <2>2. PICK u : u = ReadBy(d)
    OBVIOUS
  <2>3. StrobedBy(d) = <<u>>
    BY <1>1, <1>12, <2>2, StrobeOf
  <2>4. IsAccess(u, req, M!Addr)
    <3>1. req.op = "read"
      BY <1>2 DEF PathInv, ForRequest
    <3>2. u.op = "read" /\ u.dev = d /\ u.word = ic.addr /\ u.reg = Register(d, ic.addr)
      BY <2>2 DEF ReadBy
    <3> QED BY <1>4, <3>1, <3>2 DEF IsAccess
  <2>5. IsAccess(u, req, M!Addr)'
    BY <1>2, <2>4, ThisHeld
  <2>6. u.data = Device(ic.select)'.rd.data
    BY <1>10, <2>2 DEF ReadBy
  <2>7. ThisWord(u)'
    BY <2>1, <2>5, <2>6 DEF ThisWord
  <2>8. Accounts(s, u)'
    BY <1>5, <1>7, <2>1, <2>3, <2>7, OneNew
  <2> QED BY <2>8
<1>13. CASE RdAnswered(d)
  <2>1. ic'.state = "waitIdle" /\ Struck
    BY <1>2, <1>6, <1>13
  <2>2. Target(ic.addr)' # NoDevice
    BY <1>2, <1>4 DEF Target, NoDevice
  <2>3. Struck'
    BY <2>1, <2>2 DEF Struck, NoDevice
  <2>4. StrobedBy(d) = <<>>
    BY <1>1, <1>9, <1>13, StrobeOf
  <2>5. ToBytes(ic'.data) = Returned(t, M!Addr)
    <3>1. t.data = Device(d).rd.data
      <4>1. t.data = Device(ic.select).rd.data
        BY <1>1, <1>13 DEF Accounts, ThisWord
      <4> QED BY <1>1, <4>1
    <3>2. t.dev = d
      BY <1>4, <1>8, <2>1 DEF IsAccess
    <3>3. Returned(t, M!Addr) = ToBytes(ReadBits(t.dev, t.data))
      BY <1>4 DEF Returned
    <3>4. ic'.data = ReadBits(d, Device(d).rd.data)
      BY <1>2, <1>13
    <3> QED BY <3>1, <3>2, <3>3, <3>4
  <2>6. ThisWord(t)'
    BY <1>2, <1>8, <2>1, <2>3, <2>5, ThisHeld DEF ThisWord
  <2>7. Accounts(s, t)'
    BY <1>5, <1>7, <2>1, <2>3, <2>4, <2>6, NothingNew
  <2> QED BY <2>7
<1> QED BY <1>2, <1>3, <1>9, <1>11, <1>12, <1>13

\* The answer is taken: the next word's access begins, or the access is over.
LEMMA HistoryEnds ==
  ASSUME PathInv, PathInv', NEW busy, NEW sw, NEW value, ClockEdge(busy, sw, value),
         NEW s, NEW t, Accounts(s, t), ic.state = "waitIdle"
  PROVE  Accounts(t, t)'
<1>1. /\ ic'.state = "idle" /\ ~ic'.rvalid /\ state \in {"wresp", "read"}
      /\ M!Crosses /\ ~phase2 =>
           /\ req' = req /\ phase2' /\ state' = IF state = "read" THEN "read" ELSE "write"
           /\ wordLo' = IF state = "read" THEN ToBytes(ic.data) ELSE wordLo
      /\ ~(M!Crosses /\ ~phase2) => state' = "idle" /\ M!XferDone
  BY WaitTurn
<1>2. StrobesNow = <<>>
  BY StrobesOf DEF Working
<1>3. ~Struck' /\ ThisWord(t)'
  BY <1>1 DEF Struck, ThisWord
<1>4. Once(t, Struck)' = <<>>
  BY <1>3 DEF Once
<1>5. CASE M!Crosses /\ ~phase2
  <2>1. M!Addr = M!AddrLo /\ M!AddrLo' = M!AddrLo /\ ic.addr = M!Addr
    BY <1>1, <1>5, RequestHeld DEF M!Addr, PathInv, Routed
  <2>2. Struck <=> Target(M!AddrLo) # NoDevice
    BY <2>1 DEF Struck
  <2>3. Target(M!AddrLo)' = Target(M!AddrLo)
    BY <2>1 DEF Target
  <2>4. FirstDone' <=> Struck
    BY <1>1, <1>5, <2>2, <2>3 DEF FirstDone, NoDevice
  <2>5. strobes' = strobes \o <<>>
    <3>1. M!BusStall
      BY <1>1, <1>5, Growing, Answered, RequestFields
    <3> QED BY <1>2, <3>1, Growing
  <2>6. PICK b : b = Once(t, Struck)
    OBVIOUS
  <2>7. b = <<>> \/ b = <<t>>
    BY <2>6, OnceForm
  <2>8. strobes = <<>> \o b
    <3>1. ~FirstDone
      BY <1>5 DEF FirstDone
    <3> QED BY <2>6, <3>1, OnceForm DEF Accounts
  <2>9. strobes' = b \o <<>>
    BY <2>5, <2>7, <2>8, Alone
  <2>10. Once(t, FirstDone)' = b
    BY <2>4, <2>6 DEF Once
  <2>11. IsAccess(t, req, M!AddrLo)' <=> IsAccess(t, req, M!AddrLo)
    BY <1>1, <1>5, <2>1
  <2>12. Returned(t, M!AddrLo)' = Returned(t, M!AddrLo)
    BY <2>1
  <2>13. FirstWord(t)'
    <3>1. Struck => IsAccess(t, req, M!AddrLo)
      BY <2>1 DEF Accounts, ThisWord
    <3>2. state = "read" => ToBytes(ic.data) = Returned(t, M!AddrLo)
      <4>1. state = "read" => ic.rvalid
        BY DEF PathInv, Dialogue
      <4> QED BY <2>1, <4>1 DEF Accounts, ThisWord
    <3>3. state' = "read" => state = "read" /\ wordLo' = ToBytes(ic.data)
      BY <1>1, <1>5
    <3> QED BY <2>4, <2>11, <2>12, <3>1, <3>2, <3>3 DEF FirstWord
  <2> QED BY <1>3, <1>4, <2>9, <2>10, <2>13 DEF Accounts
<1>6. CASE ~(M!Crosses /\ ~phase2)
  <2>1. state' = "idle" /\ ~M!BusStall
    BY <1>1, <1>6, Answered
  <2>2. strobes' = <<>>
    BY <1>2, <2>1, Growing
  <2>3. ~FirstDone' /\ FirstWord(t)'
    BY <2>1 DEF FirstDone, FirstWord
  <2>4. Once(t, FirstDone)' = <<>>
    BY <2>3 DEF Once
  <2> QED BY <1>3, <1>4, <2>2, <2>3, <2>4 DEF Accounts
<1> QED BY <1>5, <1>6

LEMMA HistoryAtRest ==
  ASSUME state = "idle", ic.state = "idle", ~ic.rvalid, strobes = <<>>, NEW s, NEW t
  PROVE  Accounts(s, t)
<1>1. ~FirstDone /\ ~Struck
  BY DEF FirstDone, Struck
<1>2. Once(s, FirstDone) = <<>> /\ Once(t, Struck) = <<>>
  BY <1>1, OnceForm
<1> QED BY <1>1, <1>2 DEF Accounts, FirstWord, ThisWord

LEMMA HistoryStays == \A s, t : state = "idle" /\ ic.state = "idle" /\ ~ic.rvalid /\ strobes = <<>>
                                  => Accounts(s, t)
  BY HistoryAtRest

\* The master rests or takes a request.
LEMMA HistoryStarts ==
  ASSUME PathInv, PathInv', NEW busy, NEW sw, NEW value, ClockEdge(busy, sw, value),
         NEW s, NEW t, Accounts(s, t), state = "idle"
  PROVE  Accounts(s, t)'
<1>1. ic.state = "idle" /\ ic'.state = "idle" /\ ~phase2'
  BY RestTurn DEF PathInv, Dialogue
<1>2. strobes = <<>>
  <2>1. ~FirstDone /\ ~Struck
    BY <1>1 DEF FirstDone, Struck
  <2> QED BY <2>1, OnceForm DEF Accounts
<1>3. strobes' = <<>>
  <2>1. StrobesNow = <<>>
    BY <1>1, StrobesOf DEF Working
  <2> QED BY <1>2, <2>1, Growing
<1>4. ~Struck' /\ ~FirstDone'
  BY <1>1 DEF Struck, FirstDone
<1>5. ~ic'.rvalid
  BY <1>1 DEF PathInv, Dialogue
<1>6. FirstWord(s)' /\ ThisWord(t)'
  BY <1>1, <1>4, <1>5 DEF FirstWord, ThisWord
<1>7. Once(s, FirstDone)' = <<>> /\ Once(t, Struck)' = <<>>
  BY <1>4 DEF Once
<1> QED BY <1>3, <1>6, <1>7 DEF Accounts

\* The accesses made are those of the first word and of the word under way.
History == \E s, t : Accounts(s, t)

LEMMA HistoryEdge ==
  ASSUME PathInv, PathInv', NEW busy, NEW sw, NEW value, ClockEdge(busy, sw, value), History
  PROVE  History'
<1>1. PICK s, t : Accounts(s, t)
  BY DEF History
<1>2. CASE state = "idle"
  BY <1>1, <1>2, HistoryStarts DEF History
<1>3. CASE state # "idle" /\ ic.state \in {"idle", "decode", "write", "writeDrop"}
  BY <1>1, <1>3, HistoryWaits DEF History
<1>4. CASE ic.state = "writeResp"
  BY <1>1, <1>4, HistoryWrites DEF History
<1>5. CASE ic.state = "read"
  BY <1>1, <1>5, HistoryReads DEF History
<1>6. CASE ic.state = "waitIdle"
  BY <1>1, <1>6, HistoryEnds DEF History
<1> QED BY <1>2, <1>3, <1>4, <1>5, <1>6, PathStates

LEMMA HistoryResets ==
  ASSUME PathInv, PathInv', Reset
  PROVE  History'
<1>1. state' = "idle" /\ strobes' = <<>> /\ ic' = IcReset(ic)
  BY DEF Reset
<1>2. ic'.state = "idle" /\ ~ic'.rvalid
  BY <1>1, IcResets DEF PathInv
<1>3. ~Struck' /\ ~FirstDone'
  BY <1>1, <1>2 DEF Struck, FirstDone
<1>4. ASSUME NEW s, NEW t PROVE Accounts(s, t)'
  <2>1. Once(s, FirstDone)' = <<>> /\ Once(t, Struck)' = <<>>
    BY <1>3 DEF Once
  <2>2. FirstWord(s)' /\ ThisWord(t)'
    BY <1>1, <1>2, <1>3 DEF FirstWord, ThisWord
  <2> QED BY <1>1, <2>1, <2>2 DEF Accounts
<1> QED BY <1>4 DEF History

\* The register accesses so far are those of the words so far.
THEOREM HistoryInvariance == Spec => []History
<1>1. Init => History
  <2> SUFFICES ASSUME Init PROVE History
    OBVIOUS
  <2>1. state = "idle" /\ ic.state = "idle" /\ ~ic.rvalid /\ strobes = <<>>
    BY PathStarts DEF Init, PathInv, Dialogue
  <2> QED BY <2>1, HistoryStays DEF History
<1>2. PathInv /\ PathInv' /\ History /\ [Next]_vars => History'
  <2> SUFFICES ASSUME PathInv, PathInv', History, [Next]_vars PROVE History'
    OBVIOUS
  <2>1. CASE Edge \/ BusyEdge
    BY <2>1, Edges, HistoryEdge
  <2>2. CASE Reset
    BY <2>2, HistoryResets
  <2>3. CASE UNCHANGED vars
    <3>1. PICK s, t : Accounts(s, t)
      BY DEF History
    <3>2. /\ req' = req /\ phase2' = phase2 /\ state' = state /\ wordLo' = wordLo /\ ic' = ic
          /\ strobes' = strobes /\ <<dmem, gpio, uart, timer>>' = <<dmem, gpio, uart, timer>>
      BY <2>3 DEF vars, mvars, devs
    <3>3. /\ M!AddrLo' = M!AddrLo /\ M!Addr' = M!Addr
          /\ Device(ic.select)' = Device(ic.select)
      BY <3>2, RequestHeld DEF Device
    <3>4. WrAnswered(ic.select)' <=> WrAnswered(ic.select)
      BY <3>2, <3>3 DEF WrAnswered, WrEnd
    <3>5. RdAnswered(ic.select)' <=> RdAnswered(ic.select)
      BY <3>2, <3>3 DEF RdAnswered, RdEnd
    <3>6. Target(ic.addr)' = Target(ic.addr) /\ Target(M!AddrLo)' = Target(M!AddrLo)
      BY <3>2, <3>3
    <3>7. (Struck' <=> Struck) /\ (FirstDone' <=> FirstDone)
      BY <3>2, <3>4, <3>5, <3>6 DEF Struck, FirstDone, NoDevice
    <3>8. FirstWord(s)'
      <4>1. (IsAccess(s, req, M!AddrLo)' <=> IsAccess(s, req, M!AddrLo))
            /\ Returned(s, M!AddrLo)' = Returned(s, M!AddrLo)
        BY <3>2, <3>3
      <4> QED BY <3>1, <3>2, <3>7, <4>1 DEF Accounts, FirstWord
    <3>9. ThisWord(t)'
      <4>1. (IsAccess(t, req, M!Addr)' <=> IsAccess(t, req, M!Addr))
            /\ Returned(t, M!Addr)' = Returned(t, M!Addr)
        BY <3>2, ThisHeld
      <4> QED BY <3>1, <3>2, <3>3, <3>5, <3>7, <4>1 DEF Accounts, ThisWord
    <3>10. Once(s, FirstDone)' = Once(s, FirstDone) /\ Once(t, Struck)' = Once(t, Struck)
      BY <3>7 DEF Once
    <3> QED BY <3>1, <3>2, <3>8, <3>9, <3>10 DEF Accounts, History
  <2> QED BY <2>1, <2>2, <2>3 DEF Next
<1>3. FabricInv => PathInv
  BY DEF FabricInv
<1> QED BY <1>1, <1>2, <1>3, FabricInvariance, PTL DEF Spec

-----------------------------------------------------------------------------
(* Each word once *)

LEMMA WordsAsked ==
  ASSUME req \in Requests
  PROVE  /\ WordsOf(req) = IF M!Crosses THEN <<M!AddrLo, M!AddrHi>> ELSE <<M!AddrLo>>
         /\ Wanted(req) = IF M!Crosses THEN Served(M!AddrLo) \o Served(M!AddrHi)
                                       ELSE Served(M!AddrLo)
<1>1. /\ req.lane \in 0 .. 3 /\ M!ReadBytes(req) \in 1 .. 4 /\ req # M!None
      /\ M!Crosses <=> req.lane + M!ReadBytes(req) > 4
  BY RequestFields
<1>2. PICK k \in 0 .. 3 : k = M!ReadBytes(req) - 1
  BY <1>1
<1>3. M!WordOf(req, 0) = M!AddrLo /\ M!AddrHi # M!AddrLo
  <2>1. req.lane + 0 < 4 /\ 0 \in 0 .. 3
    BY <1>1
  <2> QED BY <2>1, PlaceOfByte
<1>4. M!WordOf(req, k) = IF M!Crosses THEN M!AddrHi ELSE M!AddrLo
  <2>1. M!WordOf(req, k) = IF req.lane + k < 4 THEN M!AddrLo ELSE M!AddrHi
    BY PlaceOfByte
  <2>2. req.lane + k < 4 <=> ~M!Crosses
    BY <1>1, <1>2
  <2> QED BY <2>1, <2>2
<1>5. WordsOf(req) = IF M!Crosses THEN <<M!AddrLo, M!AddrHi>> ELSE <<M!AddrLo>>
  BY <1>1, <1>2, <1>3, <1>4 DEF WordsOf
<1>6. PICK ws : ws = WordsOf(req)
  OBVIOUS
<1>7. Wanted(req) = CASE Len(ws) = 0 -> <<>>
                      [] Len(ws) = 1 -> Served(ws[1])
                      [] Len(ws) = 2 -> Served(ws[1]) \o Served(ws[2])
  BY <1>6 DEF Wanted
<1>8. CASE M!Crosses
  <2>1. Len(ws) = 2 /\ ws[1] = M!AddrLo /\ ws[2] = M!AddrHi
    BY <1>5, <1>6, <1>8
  <2> QED BY <1>5, <1>7, <1>8, <2>1
<1>9. CASE ~M!Crosses
  <2>1. Len(ws) = 1 /\ ws[1] = M!AddrLo
    BY <1>5, <1>6, <1>9
  <2> QED BY <1>5, <1>7, <1>9, <2>1
<1> QED BY <1>8, <1>9

\* A word is struck at a device, and has been when its answer is there.
LEMMA StruckAt ==
  ASSUME PathInv
  PROVE  /\ Struck => Target(M!Addr) # NoDevice /\ state # "idle"
         /\ M!XferDone => /\ Struck <=> Target(M!Addr) # NoDevice
                          /\ state \in {"wresp", "read"}
                          /\ M!Crosses <=> phase2
                          /\ state = "read" => ic.rvalid
<1>1. /\ Dialogue /\ Routed /\ ForRequest
  BY DEF PathInv
<1>2. Struck => Target(M!Addr) # NoDevice /\ state # "idle"
  BY <1>1 DEF Struck, Routed, Dialogue
<1>3. M!XferDone => ic.state = "waitIdle" /\ state \in {"wresp", "read"} /\ (~M!Crosses \/ phase2)
                    /\ (state = "read" => ic.rvalid)
  BY <1>1, Answered DEF Dialogue
<1>4. ic.state = "waitIdle" => (Struck <=> Target(M!Addr) # NoDevice)
  BY <1>1 DEF Struck, Routed
<1>5. state # "idle" /\ phase2 => M!Crosses
  BY <1>1 DEF ForRequest
<1> QED BY <1>2, <1>3, <1>4, <1>5

LEMMA OneOfOne ==
  ASSUME NEW r, NEW w, NEW t, IsAccess(t, r, w), NEW z, NEW v, v = <<w>> \/ v = <<w, z>>
  PROVE  /\ Len(<<t>>) <= Len(v)
         /\ \A k \in DOMAIN <<t>> : IsAccess(<<t>>[k], r, v[k])
<1>1. \A k \in DOMAIN <<t>> : k = 1
  OBVIOUS
<1>2. <<t>>[1] = t /\ v[1] = w /\ Len(<<t>>) = 1 /\ Len(v) \in {1, 2}
  OBVIOUS
<1> QED BY <1>1, <1>2

LEMMA TwoOfTwo ==
  ASSUME NEW r, NEW w, NEW z, NEW s, NEW t, IsAccess(s, r, w), IsAccess(t, r, z)
  PROVE  /\ Len(<<s, t>>) = Len(<<w, z>>)
         /\ \A k \in DOMAIN <<s, t>> : IsAccess(<<s, t>>[k], r, <<w, z>>[k])
<1>1. \A k \in DOMAIN <<s, t>> : k = 1 \/ k = 2
  OBVIOUS
<1>2. <<s, t>>[1] = s /\ <<s, t>>[2] = t /\ <<w, z>>[1] = w /\ <<w, z>>[2] = z
      /\ Len(<<s, t>>) = 2 /\ Len(<<w, z>>) = 2
  OBVIOUS
<1> QED BY <1>1, <1>2

LEMMA NoneYet ==
  ASSUME NEW r, NEW v, NEW a, NEW b, v = <<>> \/ v = <<a>> \/ v = <<a, b>>
  PROVE  /\ Len(<<>>) <= Len(v) /\ (v = <<>> <=> Len(<<>>) = Len(v))
         /\ \A k \in DOMAIN <<>> : IsAccess(<<>>[k], r, v[k])
<1>1. \A k \in DOMAIN <<>> : FALSE
  OBVIOUS
<1>2. Len(<<>>) = 0 /\ Len(v) \in {0, 1, 2} /\ (v = <<>> <=> Len(v) = 0)
  OBVIOUS
<1> QED BY <1>1, <1>2

LEMMA Joined ==
  ASSUME NEW x, NEW y
  PROVE  /\ <<x>> \o <<y>> = <<x, y>>
         /\ <<>> \o <<y>> = <<y>>
         /\ <<x>> \o <<>> = <<x>>
         /\ <<>> \o <<>> = <<>>
<1>1. <<x>> \o <<y>> = <<x, y>>
  <2>1. PICK S, a, b : S = {x, y} /\ a = <<x>> /\ b = <<y>>
    OBVIOUS
  <2>2. a \in Seq(S) /\ b \in Seq(S) /\ Len(a) = 1 /\ Len(b) = 1 /\ a[1] = x /\ b[1] = y
    BY <2>1
  <2>3. /\ a \o b \in Seq(S) /\ Len(a \o b) = 1 + 1
        /\ \A i \in 1 .. 1 + 1 : (a \o b)[i] = IF i <= 1 THEN a[i] ELSE b[i - 1]
    BY <2>2, ConcatProperties
  <2>4. PICK q : q = a \o b
    OBVIOUS
  <2>5. q \in Seq(S) /\ Len(q) = 2 /\ q[1] = x /\ q[2] = y
    BY <2>2, <2>3, <2>4
  <2>6. <<x, y>> \in Seq(S) /\ Len(<<x, y>>) = 2 /\ <<x, y>>[1] = x /\ <<x, y>>[2] = y
    BY <2>1
  <2>7. q = <<x, y>>
    BY <2>5, <2>6, SeqEqual
  <2> QED BY Zenon, <2>1, <2>4, <2>7
<1>2. <<>> \o <<y>> = <<y>>
  OBVIOUS
<1>3. <<x>> \o <<>> = <<x>>
  OBVIOUS
<1>4. <<>> \o <<>> = <<>>
  OBVIOUS
<1> QED BY <1>1, <1>2, <1>3, <1>4

LEMMA WantedForm ==
  ASSUME req \in Requests
  PROVE  \E a, b : Wanted(req) = <<>> \/ Wanted(req) = <<a>> \/ Wanted(req) = <<a, b>>
<1>1. PICK a, b : a = M!AddrLo /\ b = M!AddrHi
  OBVIOUS
<1>2. Served(a) \in {<<>>, <<a>>} /\ Served(b) \in {<<>>, <<b>>}
  BY DEF Served
<1>3. Wanted(req) = Served(a) \/ Wanted(req) = Served(a) \o Served(b)
  BY <1>1, WordsAsked
<1>4. \/ Served(a) \o Served(b) = <<>>
      \/ Served(a) \o Served(b) = <<a>>
      \/ Served(a) \o Served(b) = <<b>>
      \/ Served(a) \o Served(b) = <<a, b>>
  <2>1. PICK x, y : x = Served(a) /\ y = Served(b)
    OBVIOUS
  <2>2. (x = <<>> \/ x = <<a>>) /\ (y = <<>> \/ y = <<b>>)
    BY <1>2, <2>1
  <2>3. x \o y = <<>> \/ x \o y = <<a>> \/ x \o y = <<b>> \/ x \o y = <<a, b>>
    BY Zenon, <2>2, Joined
  <2> QED BY Zenon, <2>1, <2>3
<1> QED BY <1>2, <1>3, <1>4

LEMMA WordsDone ==
  ASSUME PathInv, NEW s, NEW t, Accounts(s, t)
  PROVE  EachWordOnce
<1>1. CASE state = "idle"
  <2>1. ~FirstDone /\ ~Struck /\ ~M!XferDone
    BY <1>1, StruckAt DEF FirstDone
  <2>2. strobes = <<>>
    BY <2>1, OnceForm DEF Accounts
  <2>3. \E a, b : Wanted(req) = <<>> \/ Wanted(req) = <<a>> \/ Wanted(req) = <<a, b>>
    <3>1. CASE req = M!None
      <4>1. WordsOf(req) = <<>>
        BY <3>1 DEF WordsOf
      <4>2. Len(WordsOf(req)) = 0
        BY <4>1
      <4>3. PICK ws : ws = WordsOf(req)
        OBVIOUS
      <4>4. Wanted(req) = CASE Len(ws) = 0 -> <<>>
                            [] Len(ws) = 1 -> Served(ws[1])
                            [] Len(ws) = 2 -> Served(ws[1]) \o Served(ws[2])
        BY <4>3 DEF Wanted
      <4> QED BY <4>2, <4>3, <4>4
    <3>2. CASE req \in Requests
      BY <3>2, WantedForm
    <3> QED BY <3>1, <3>2 DEF PathInv, ForRequest
  <2> QED BY <2>1, <2>2, <2>3, NoneYet DEF EachWordOnce
<1>2. CASE state # "idle"
  <2>1. req \in Requests
    <3>1. M!None.op = "none"
      BY DEF M!None
    <3> QED BY <1>2, <3>1 DEF PathInv, Dialogue, ForRequest
  <2> DEFINE a == Once(s, FirstDone)
             b == Once(t, Struck)
             lo == M!AddrLo
             hi == M!AddrHi
  <2>2. strobes = a \o b
    BY DEF Accounts
  <2>3. /\ FirstDone => IsAccess(s, req, lo) /\ Served(lo) = <<lo>>
        /\ phase2 /\ ~FirstDone => Served(lo) = <<>>
        /\ Struck => IsAccess(t, req, M!Addr) /\ Served(M!Addr) = <<M!Addr>>
        /\ M!XferDone /\ ~Struck => Served(M!Addr) = <<>>
        /\ FirstDone => phase2
    <3>1. Struck => Target(M!Addr) # NoDevice
      BY StruckAt
    <3>2. M!XferDone /\ ~Struck => Target(M!Addr) = NoDevice
      BY StruckAt
    <3> QED BY <1>2, <3>1, <3>2 DEF Accounts, FirstWord, ThisWord, FirstDone, Served
  <2>4. PICK w, z : w = lo /\ z = hi
    OBVIOUS
  <2>5. CASE ~phase2
    <3>1. a = <<>> /\ M!Addr = lo /\ strobes = b
      <4>1. a = <<>>
        BY <2>3, <2>5, OnceForm
      <4>2. b = <<>> \/ b = <<t>>
        BY OnceForm
      <4> QED BY <2>2, <2>5, <4>1, <4>2, Alone DEF M!Addr
    <3>2. M!XferDone => ~M!Crosses
      BY <2>5, StruckAt
    <3>3. CASE Struck
      <4>1. strobes = <<t>>
        BY <3>1, <3>3, OnceForm
      <4>2. Served(lo) = <<w>> /\ IsAccess(t, req, w)
        BY <2>3, <2>4, <3>1, <3>3
      <4>3. Wanted(req) = <<w>> \/ Wanted(req) = <<w, z>>
        <5>1. Served(hi) = <<z>> \/ Served(hi) = <<>>
          BY <2>4 DEF Served
        <5> QED BY <2>1, <4>2, <5>1, WordsAsked
      <4>4. M!XferDone => Wanted(req) = <<w>>
        BY <2>1, <3>2, <4>2, WordsAsked
      <4>5. Len(<<t>>) = Len(<<w>>)
        OBVIOUS
      <4>6. /\ Len(<<t>>) <= Len(Wanted(req))
            /\ \A k \in DOMAIN <<t>> : IsAccess(<<t>>[k], req, Wanted(req)[k])
        BY <4>2, <4>3, OneOfOne
      <4> HIDE DEF a, b
      <4> QED BY <4>1, <4>4, <4>5, <4>6 DEF EachWordOnce
    <3>4. CASE ~Struck
      <4>1. strobes = <<>>
        BY <3>1, <3>4, OnceForm
      <4>2. M!XferDone => Wanted(req) = <<>>
        BY <2>1, <2>3, <3>1, <3>2, <3>4, WordsAsked
      <4> QED BY <2>1, <4>1, <4>2, WantedForm, NoneYet DEF EachWordOnce
    <3> QED BY <3>3, <3>4
  <2>6. CASE phase2
    <3>1. M!Crosses /\ M!Addr = hi
      BY <1>2, <2>6 DEF PathInv, ForRequest, M!Addr
    <3>2. Wanted(req) = Served(w) \o Served(z)
      BY <2>1, <2>4, <3>1, WordsAsked
    <3>3. Served(z) = <<z>> \/ Served(z) = <<>>
      BY DEF Served
    <3>4. CASE FirstDone /\ Struck
      <4>1. strobes = <<s, t>>
        <5>1. a = <<s>> /\ b = <<t>>
          BY <3>4, OnceForm
        <5> HIDE DEF a, b
        <5> QED BY Zenon, <2>2, <5>1, Joined
      <4>2. Served(w) = <<w>> /\ Served(z) = <<z>> /\ IsAccess(s, req, w) /\ IsAccess(t, req, z)
        BY <2>3, <2>4, <3>1, <3>4
      <4>2a. Wanted(req) = <<w, z>>
        BY Zenon, <3>2, <4>2, Joined
      <4>3. Len(<<s, t>>) <= Len(<<w, z>>)
        OBVIOUS
      <4> HIDE DEF a, b
      <4> QED BY <4>1, <4>2, <4>2a, <4>3, TwoOfTwo DEF EachWordOnce
    <3>5. CASE FirstDone /\ ~Struck
      <4>1. strobes = <<s>>
        <5>1. a = <<s>> /\ b = <<>>
          BY <3>5, OnceForm
        <5> QED BY <2>2, <5>1
      <4>2. Served(w) = <<w>> /\ IsAccess(s, req, w)
        BY <2>3, <2>4, <3>5
      <4>3. Wanted(req) = <<w>> \/ Wanted(req) = <<w, z>>
        BY Zenon, <3>2, <3>3, <4>2, Joined
      <4>4. M!XferDone => Wanted(req) = <<w>>
        BY <2>3, <2>4, <3>1, <3>2, <3>5, <4>2
      <4>5. Len(<<s>>) = Len(<<w>>)
        OBVIOUS
      <4>6. /\ Len(<<s>>) <= Len(Wanted(req))
            /\ \A k \in DOMAIN <<s>> : IsAccess(<<s>>[k], req, Wanted(req)[k])
        BY <4>2, <4>3, OneOfOne
      <4> HIDE DEF a, b
      <4> QED BY <4>1, <4>4, <4>5, <4>6 DEF EachWordOnce
    <3>6. CASE ~FirstDone /\ Struck
      <4>1. strobes = <<t>>
        <5>1. a = <<>> /\ b = <<t>>
          BY <3>6, OnceForm
        <5> QED BY <2>2, <5>1
      <4>2. Served(w) = <<>> /\ Served(z) = <<z>> /\ IsAccess(t, req, z)
        BY <2>3, <2>4, <2>6, <3>1, <3>6
      <4>2a. Wanted(req) = <<z>>
        BY Zenon, <3>2, <4>2, Joined
      <4>3. Len(<<t>>) = Len(<<z>>)
        OBVIOUS
      <4>4. /\ Len(<<t>>) <= Len(Wanted(req))
            /\ \A k \in DOMAIN <<t>> : IsAccess(<<t>>[k], req, Wanted(req)[k])
        BY <4>2, <4>2a, OneOfOne
      <4> HIDE DEF a, b
      <4> QED BY <4>1, <4>2a, <4>3, <4>4 DEF EachWordOnce
    <3>7. CASE ~FirstDone /\ ~Struck
      <4>1. strobes = <<>>
        <5>1. a = <<>> /\ b = <<>>
          BY <3>7, OnceForm
        <5> QED BY <2>2, <5>1
      <4>2. M!XferDone => Wanted(req) = <<>>
        BY <2>3, <2>4, <2>6, <3>1, <3>2, <3>7
      <4> QED BY <2>1, <4>1, <4>2, WantedForm, NoneYet DEF EachWordOnce
    <3> QED BY <3>4, <3>5, <3>6, <3>7
  <2> QED BY <2>5, <2>6
<1> QED BY <1>1, <1>2

\* Each word of an access is one access of one register of its device, whatever
\* the map and the access: nothing is read twice, written twice, or left undone
\* when the stall ends (axil_interconnect.v:406-508, soc.v:115-123).
THEOREM WordsOnce == Spec => []EachWordOnce
<1>1. PathInv /\ History => EachWordOnce
  BY WordsDone DEF History
<1>2. FabricInv => PathInv
  BY DEF FabricInv
<1> QED BY <1>1, <1>2, FabricInvariance, HistoryInvariance, PTL

-----------------------------------------------------------------------------
(* What a load returns *)

LEMMA LoadedWhole ==
  ASSUME req \in Requests, NEW m,
         ~M!Crosses => AsSlave(ic).rdata = m[M!AddrLo],
         M!Crosses => wordLo = m[M!AddrLo] /\ AsSlave(ic).rdata = m[M!AddrHi]
  PROVE  M!MemRdata = M!Loaded(m, req)
<1> DEFINE at(k) == m[M!WordOf(req, k)][M!LaneOf(req, k)]
<1>1. /\ M!Width(req) \in {0, 1, 2, 4} /\ req.lane \in 0 .. 3 /\ req.funct3 \in 0 .. 7
  BY RequestFields
<1>2. M!ReadBytes(req) \in 1 .. 4
  BY <1>1 DEF M!ReadBytes
<1>3. \A j \in 0 .. 3 : j < M!ReadBytes(req) => M!Down[j] = at(j)
  <2> SUFFICES ASSUME NEW j \in 0 .. 3, j < M!ReadBytes(req) PROVE M!Down[j] = at(j)
    OBVIOUS
  <2>1. j \in M!Lane /\ j + req.lane \in 0 .. 7 /\ j + req.lane <= 7 /\ j + req.lane = req.lane + j
    BY <1>1 DEF M!Lane
  <2>2. M!Down[j] = M!Combined[req.lane + j]
    BY <2>1 DEF M!Down
  <2>3. CASE req.lane + j < 4
    <3>1. at(j) = m[M!AddrLo][req.lane + j]
      BY <2>3, PlaceOfByte
    <3>2. M!Combined[req.lane + j] = m[M!AddrLo][req.lane + j]
      BY <2>1, <2>3 DEF M!Combined
    <3> QED BY <2>2, <3>1, <3>2
  <2>4. CASE ~ req.lane + j < 4
    <3>1. at(j) = m[M!AddrHi][req.lane + j - 4]
      BY <2>4, PlaceOfByte
    <3>2. M!Crosses
      BY <1>1, <2>4 DEF M!Crosses, M!IsWord, M!IsHalf, M!ReadBytes, M!Width
    <3>3. M!Combined[req.lane + j] = m[M!AddrHi][req.lane + j - 4]
      <4>1. M!Combined[req.lane + j] = AsSlave(ic).rdata[(req.lane + j) - 4]
        BY <2>1, <2>4, <3>2 DEF M!Combined
      <4>2. (req.lane + j) - 4 = req.lane + j - 4
        BY <1>1
      <4> QED BY <3>2, <4>1, <4>2
    <3> QED BY <2>2, <3>1, <3>3
  <2> QED BY <2>3, <2>4
<1>4. M!Width(req) = 0 => \A j \in 0 .. 3 : ~ j < M!ReadBytes(req) => M!Down[j] = 0
  <2> SUFFICES ASSUME M!Width(req) = 0, NEW j \in 0 .. 3, ~ j < M!ReadBytes(req) PROVE M!Down[j] = 0
    OBVIOUS
  <2>1. ~M!Crosses
    BY <1>1 DEF M!Crosses, M!IsWord, M!IsHalf, M!Width
  <2>2. j \in M!Lane /\ j + req.lane \in 0 .. 7 /\ ~ j + req.lane < 4
    BY <1>1 DEF M!Lane, M!ReadBytes
  <2> QED BY <2>1, <2>2 DEF M!Down, M!Combined
<1>5. \A j \in M!Lane : M!Loaded(m, req)[j] = IF j < M!ReadBytes(req) THEN at(j)
                                          ELSE M!Fill(req, at(M!ReadBytes(req) - 1))
  BY DEF M!Loaded
<1>6. M!Loaded(m, req) = [j \in M!Lane |-> M!Loaded(m, req)[j]]
  BY DEF M!Loaded
<1>7. M!Down = [j \in M!Lane |-> M!Down[j]]
  BY DEF M!Down
<1>8. \A j \in M!Lane : j \in 0 .. 3
  BY DEF M!Lane
<1> HIDE DEF at, M!Down
<1>9. \A j \in M!Lane : M!MemRdata[j] = M!Loaded(m, req)[j]
  <2> TAKE j \in M!Lane
  <2>1. j \in 0 .. 3
    BY <1>8
  <2>2. CASE req.funct3 \in {0, 4}
    <3>1. M!ReadBytes(req) = 1 /\ M!Width(req) = 1
      BY <2>2 DEF M!ReadBytes, M!Width
    <3>2. M!Down[0] = at(0)
      BY <1>3, <3>1
    <3>3. CASE j < 1
      BY <1>5, <2>1, <2>2, <3>1, <3>2, <3>3 DEF M!MemRdata
    <3>4. CASE ~ j < 1
      <4>1. M!Loaded(m, req)[j] = M!Fill(req, at(0))
        BY <1>5, <2>1, <3>1, <3>4
      <4> QED BY <2>1, <2>2, <3>1, <3>2, <3>4, <4>1 DEF M!MemRdata, M!Fill, M!SignFill
    <3> QED BY <3>3, <3>4
  <2>3. CASE req.funct3 \in {1, 5}
    <3>1. M!ReadBytes(req) = 2 /\ M!Width(req) = 2
      BY <2>3 DEF M!ReadBytes, M!Width
    <3>2. M!Down[0] = at(0) /\ M!Down[1] = at(1)
      BY <1>3, <3>1
    <3>3. CASE j < 2
      <4>1. M!Down[j] = at(j)
        BY <1>3, <2>1, <3>1, <3>3
      <4> QED BY <1>5, <2>1, <2>3, <3>1, <3>3, <4>1 DEF M!MemRdata
    <3>4. CASE ~ j < 2
      <4>1. M!Loaded(m, req)[j] = M!Fill(req, at(1))
        BY <1>5, <2>1, <3>1, <3>4
      <4> QED BY <2>1, <2>3, <3>1, <3>2, <3>4, <4>1 DEF M!MemRdata, M!Fill, M!SignFill
    <3> QED BY <3>3, <3>4
  <2>4. CASE req.funct3 \in {2, 3, 6, 7}
    <3>1. M!MemRdata = M!Down
      BY <2>4 DEF M!MemRdata
    <3>2. CASE j < M!ReadBytes(req)
      BY <1>3, <1>5, <2>1, <3>1, <3>2
    <3>3. CASE ~ j < M!ReadBytes(req)
      <4>1. M!Width(req) = 0
        BY <1>2, <2>1, <2>4, <3>3 DEF M!Width, M!ReadBytes
      <4>2. M!Loaded(m, req)[j] = 0
        BY <1>5, <3>3, <4>1 DEF M!Fill
      <4> QED BY <1>4, <2>1, <3>1, <3>3, <4>1, <4>2
    <3> QED BY <3>2, <3>3
  <2> QED BY <1>1, <2>2, <2>3, <2>4
<1>10. M!MemRdata = [j \in M!Lane |-> M!MemRdata[j]]
  BY <1>7 DEF M!MemRdata
<1> HIDE DEF M!MemRdata, M!Loaded
<1> QED BY <1>6, <1>9, <1>10


\* The history's last read of a word is what ReadAt finds.
LEMMA FoundAt ==
  ASSUME NEW q, strobes = q, NEW w, NEW k \in DOMAIN q, q[k].word = w,
         \A i \in DOMAIN q : q[i].word = w => q[i] = q[k]
  PROVE  ReadAt(w) = ToBytes(ReadBits(q[k].dev, q[k].data))
<1>1. \E i \in DOMAIN strobes : strobes[i].word = w
  OBVIOUS
<1> DEFINE u == CHOOSE t \in ToSet(strobes) : t.word = w
<1>2. ToSet(strobes) = {q[i] : i \in DOMAIN q}
  BY DEF ToSet
<1>3. u = q[k]
  <2>1. q[k] \in ToSet(strobes)
    BY <1>2
  <2>2. \A t \in ToSet(strobes) : t.word = w => t = q[k]
    BY <1>2
  <2>3. u \in ToSet(strobes) /\ u.word = w
    BY <2>1
  <2> QED BY <2>2, <2>3
<1>4. ReadAt(w) = ToBytes(ReadBits(u.dev, u.data))
  BY Zenon, <1>1 DEF ReadAt
<1> QED BY Zenon, <1>3, <1>4

LEMMA NotFoundAt ==
  ASSUME NEW q, strobes = q, NEW w, \A i \in DOMAIN q : q[i].word # w
  PROVE  ReadAt(w) = Zeros
  BY DEF ReadAt

LEMMA ReadsOf ==
  ASSUME NEW s, NEW t, NEW x, NEW y, x # y, NEW a \in BOOLEAN, NEW b \in BOOLEAN,
         strobes = Once(s, a) \o Once(t, b), a => s.word = x, b => t.word = y
  PROVE  /\ a => ReadAt(x) = ToBytes(ReadBits(s.dev, s.data))
         /\ ~a => ReadAt(x) = Zeros
         /\ b => ReadAt(y) = ToBytes(ReadBits(t.dev, t.data))
         /\ ~b => ReadAt(y) = Zeros
<1>1. PICK p, r : p = Once(s, a) /\ r = Once(t, b)
  OBVIOUS
<1>2. strobes = p \o r
  BY <1>1
<1>3. CASE a /\ b
  <2>1. p = <<s>> /\ r = <<t>>
    BY <1>1, <1>3, OnceForm
  <2>2. strobes = <<s, t>>
    BY Zenon, <1>2, <2>1, Joined
  <2>3. PICK q : q = <<s, t>>
    OBVIOUS
  <2>4. q[1] = s /\ q[2] = t /\ DOMAIN q = {1, 2}
    BY <2>3
  <2>4a. /\ 1 \in DOMAIN q /\ q[1].word = x /\ 2 \in DOMAIN q /\ q[2].word = y /\ strobes = q
         /\ \A i \in DOMAIN q : q[i].word = x => q[i] = q[1]
         /\ \A i \in DOMAIN q : q[i].word = y => q[i] = q[2]
    BY <1>3, <2>2, <2>3, <2>4
  <2>5. ReadAt(x) = ToBytes(ReadBits(q[1].dev, q[1].data))
    BY Zenon, <2>4a, FoundAt
  <2>6. ReadAt(y) = ToBytes(ReadBits(q[2].dev, q[2].data))
    BY Zenon, <2>4a, FoundAt
  <2> QED BY Zenon, <1>3, <2>4, <2>5, <2>6
<1>4. CASE a /\ ~b
  <2>1. p = <<s>> /\ r = <<>>
    BY <1>1, <1>4, OnceForm
  <2>2. strobes = <<s>>
    BY Zenon, <1>2, <2>1, Joined
  <2>3. PICK q : q = <<s>>
    OBVIOUS
  <2>4. q[1] = s /\ DOMAIN q = {1}
    BY <2>3
  <2>4a. /\ 1 \in DOMAIN q /\ q[1].word = x /\ strobes = q
         /\ \A i \in DOMAIN q : q[i].word = x => q[i] = q[1]
         /\ \A i \in DOMAIN q : q[i].word # y
    BY <1>4, <2>2, <2>3, <2>4
  <2>5. ReadAt(x) = ToBytes(ReadBits(q[1].dev, q[1].data))
    BY Zenon, <2>4a, FoundAt
  <2>6. ReadAt(y) = Zeros
    BY Zenon, <2>4a, NotFoundAt
  <2> QED BY Zenon, <1>4, <2>4, <2>5, <2>6
<1>5. CASE ~a /\ b
  <2>1. p = <<>> /\ r = <<t>>
    BY <1>1, <1>5, OnceForm
  <2>2. strobes = <<t>>
    BY Zenon, <1>2, <2>1, Joined
  <2>3. PICK q : q = <<t>>
    OBVIOUS
  <2>4. q[1] = t /\ DOMAIN q = {1}
    BY <2>3
  <2>4a. /\ 1 \in DOMAIN q /\ q[1].word = y /\ strobes = q
         /\ \A i \in DOMAIN q : q[i].word = y => q[i] = q[1]
         /\ \A i \in DOMAIN q : q[i].word # x
    BY <1>5, <2>2, <2>3, <2>4
  <2>5. ReadAt(y) = ToBytes(ReadBits(q[1].dev, q[1].data))
    BY Zenon, <2>4a, FoundAt
  <2>6. ReadAt(x) = Zeros
    BY Zenon, <2>4a, NotFoundAt
  <2> QED BY Zenon, <1>5, <2>4, <2>5, <2>6
<1>6. CASE ~a /\ ~b
  <2>1. p = <<>> /\ r = <<>>
    BY <1>1, <1>6, OnceForm
  <2>2. strobes = <<>>
    BY Zenon, <1>2, <2>1, Joined
  <2>3. PICK q : q = <<>>
    OBVIOUS
  <2>4. DOMAIN q = {}
    BY <2>3
  <2>4a. strobes = q /\ \A i \in DOMAIN q : q[i].word # x /\ q[i].word # y
    BY <2>2, <2>3, <2>4
  <2>5. ReadAt(x) = Zeros /\ ReadAt(y) = Zeros
    BY Zenon, <2>4a, NotFoundAt
  <2> QED BY Zenon, <1>6, <2>5
<1> QED BY <1>3, <1>4, <1>5, <1>6

LEMMA ReadsReturned ==
  ASSUME PathInv, NEW s, NEW t, Accounts(s, t)
  PROVE  LoadsReturnWhatWasRead
<1> SUFFICES ASSUME M!XferDone, req.op = "read"
             PROVE  M!MemRdata = M!Loaded([w \in ToSet(WordsOf(req)) |-> ReadAt(w)], req)
  BY DEF LoadsReturnWhatWasRead
<1>1. /\ Struck <=> Target(M!Addr) # NoDevice
      /\ state \in {"wresp", "read"} /\ (M!Crosses <=> phase2)
      /\ state = "read" => ic.rvalid
  BY StruckAt
<1>2. req \in Requests
  <2>1. M!None.op = "none"
    BY DEF M!None
  <2> QED BY <1>1, <2>1 DEF PathInv, Dialogue, ForRequest
<1>3. state = "read" /\ ic.rvalid
  BY <1>1 DEF PathInv, ForRequest
<1>4. PICK lo, hi, a, b : lo = M!AddrLo /\ hi = M!AddrHi /\ a = FirstDone /\ b = Struck
  OBVIOUS
<1>5. lo # hi /\ a \in BOOLEAN /\ b \in BOOLEAN
  <2>1. 0 \in 0 .. 3
    OBVIOUS
  <2> QED BY <1>2, <1>4, <2>1, PlaceOfByte DEF FirstDone, Struck
<1>6. strobes = Once(s, a) \o Once(t, b)
  BY <1>4 DEF Accounts
<1>7. AsSlave(ic).rdata = Returned(t, M!Addr)
  BY <1>3, SlaveWires DEF Accounts, ThisWord
<1>8. b => t.word = M!Addr
  BY <1>4 DEF Accounts, ThisWord, IsAccess
<1>9. PICK m : m = [w \in ToSet(WordsOf(req)) |-> ReadAt(w)]
  OBVIOUS
<1>10. CASE ~phase2
  <2>1. M!Addr = lo /\ ~a
    BY <1>4, <1>10 DEF M!Addr, FirstDone
  <2>2. /\ b => ReadAt(lo) = ToBytes(ReadBits(t.dev, t.data))
        /\ ~b => ReadAt(lo) = Zeros
    <3>1. hi # lo /\ (a => s.word = hi) /\ (b => t.word = lo)
      BY <1>5, <1>8, <2>1
    <3> QED BY ZenonT(60), <1>5, <1>6, <3>1, ReadsOf
  <2>3. AsSlave(ic).rdata = ReadAt(lo)
    BY <1>1, <1>4, <1>7, <2>1, <2>2 DEF Returned
  <2>4. m[lo] = ReadAt(lo)
    <3>1. WordsOf(req) = <<lo>>
      BY <1>1, <1>2, <1>4, <1>10, WordsAsked
    <3>2. lo \in ToSet(WordsOf(req))
      BY <3>1 DEF ToSet
    <3> QED BY <1>9, <3>2
  <2>5. M!MemRdata = M!Loaded(m, req)
    BY <1>1, <1>2, <1>4, <1>10, <2>3, <2>4, LoadedWhole
  <2> QED BY Zenon, <1>9, <2>5
<1>11. CASE phase2
  <2>1. M!Addr = hi /\ (a <=> Target(lo) # NoDevice)
    BY <1>3, <1>4, <1>11 DEF M!Addr, FirstDone
  <2>2. a => s.word = lo
    BY <1>4 DEF Accounts, FirstWord, IsAccess
  <2>3. /\ a => ReadAt(lo) = ToBytes(ReadBits(s.dev, s.data))
        /\ ~a => ReadAt(lo) = Zeros
        /\ b => ReadAt(hi) = ToBytes(ReadBits(t.dev, t.data))
        /\ ~b => ReadAt(hi) = Zeros
    <3>1. lo # hi /\ (a => s.word = lo) /\ (b => t.word = hi)
      BY <1>5, <1>8, <2>1, <2>2
    <3> QED BY ZenonT(60), <1>5, <1>6, <3>1, ReadsOf
  <2>4. AsSlave(ic).rdata = ReadAt(hi)
    BY <1>1, <1>4, <1>7, <2>1, <2>3 DEF Returned
  <2>5. wordLo = ReadAt(lo)
    <3>1. wordLo = Returned(s, lo)
      BY <1>3, <1>4, <1>11 DEF Accounts, FirstWord
    <3> QED BY <2>1, <2>3, <3>1 DEF Returned
  <2>6. m[lo] = ReadAt(lo) /\ m[hi] = ReadAt(hi)
    <3>1. WordsOf(req) = <<lo, hi>>
      BY <1>1, <1>2, <1>4, <1>11, WordsAsked
    <3>2. ToSet(<<lo, hi>>) = {lo, hi}
      BY DEF ToSet
    <3>3. lo \in ToSet(WordsOf(req)) /\ hi \in ToSet(WordsOf(req))
      BY <3>1, <3>2
    <3> QED BY <1>9, <3>3
  <2>7. M!MemRdata = M!Loaded(m, req)
    BY <1>1, <1>2, <1>4, <1>11, <2>4, <2>5, <2>6, LoadedWhole
  <2> QED BY Zenon, <1>9, <2>7
<1> QED BY <1>10, <1>11

\* A load returns what its registers held when they were read, byte by byte and
\* extended as its width says, and 0 where no device answers, whatever the map,
\* the alignment and the width (axil_interconnect.v:427-436, axil_master.v:139-161).
THEOREM LoadsAreReads == Spec => []LoadsReturnWhatWasRead
<1>1. PathInv /\ History => LoadsReturnWhatWasRead
  BY ReadsReturned DEF History
<1>2. FabricInv => PathInv
  BY DEF FabricInv
<1> QED BY <1>1, <1>2, FabricInvariance, HistoryInvariance, PTL

-----------------------------------------------------------------------------
(* Memory: the bus master as its own proofs see it *)

AP == INSTANCE AxilProofs WITH
  MemInit <- DmemImage(MemInit),
  mem   <- DmemImage(IF WriteUnderWay(ic) THEN prior ELSE dmem.words),
  slave <- AsSlave(ic)

-----------------------------------------------------------------------------
(* The instance with the theorems is the instance of the model. *)

LEMMA SameWires ==
  /\ AP!Addr = M!Addr /\ AP!Wstrb = M!Wstrb /\ AP!Wdata = M!Wdata
  /\ AP!Crosses = M!Crosses
<1>1. AP!IsWord = M!IsWord /\ AP!IsHalf = M!IsHalf
  BY DEF AP!IsWord, M!IsWord, AP!IsHalf, M!IsHalf
<1>2. AP!Crosses = M!Crosses
  BY <1>1 DEF AP!Crosses, M!Crosses
<1>3. AP!Addr = M!Addr
  BY DEF AP!Addr, M!Addr, AP!AddrLo, M!AddrLo, AP!AddrHi, M!AddrHi
<1>4. AP!ByteEn = M!ByteEn /\ AP!Lane = M!Lane
  BY DEF AP!ByteEn, M!ByteEn, AP!Width, M!Width, AP!Lane, M!Lane
<1>5. AP!Wstrb = M!Wstrb
  BY <1>4 DEF AP!Wstrb, M!Wstrb, AP!StrbLo, M!StrbLo, AP!StrbHi, M!StrbHi
<1>6. AP!Wdata = M!Wdata
  BY <1>4 DEF AP!Wdata, M!Wdata, AP!DataLo, M!DataLo, AP!DataHi, M!DataHi, AP!Shifted, M!Shifted
<1> QED BY <1>2, <1>3, <1>5, <1>6

LEMMA SameReadData == AP!MemRdata = M!MemRdata
<1>1. AP!Crosses = M!Crosses /\ AP!Lane = M!Lane
  BY SameWires DEF AP!Lane, M!Lane
<1>2. AP!Combined = M!Combined
  BY <1>1 DEF AP!Combined, M!Combined
<1>3. AP!Down = M!Down
  BY <1>1, <1>2 DEF AP!Down, M!Down
<1> QED BY <1>1, <1>3 DEF AP!MemRdata, M!MemRdata, AP!SignFill, M!SignFill

LEMMA SameStall ==
  AP!BusStall = M!BusStall /\ AP!None = M!None /\ AP!Free = M!Free
<1>1. AP!None = M!None /\ AP!Free = M!Free
  BY DEF AP!None, M!None, AP!Free, M!Free, AP!Lane, M!Lane
<1> QED BY <1>1, SameWires DEF AP!BusStall, M!BusStall, AP!XferDone, M!XferDone, AP!PhaseDone, M!PhaseDone

LEMMA SameSlave ==
  ASSUME NEW ready
  PROVE  /\ AP!Accepted(ready) = M!Accepted(ready)
         /\ AP!AwFire(ready) = M!AwFire(ready) /\ AP!WFire(ready) = M!WFire(ready)
         /\ AP!ArFire(ready) = M!ArFire(ready) /\ AP!RespFire = M!RespFire
         /\ AP!MayAccept(ready) = M!MayAccept(ready)
<1>1. /\ AP!AwFire(ready) = M!AwFire(ready) /\ AP!WFire(ready) = M!WFire(ready)
      /\ AP!ArFire(ready) = M!ArFire(ready) /\ AP!RespFire = M!RespFire
      /\ AP!MayAccept(ready) = M!MayAccept(ready)
  BY DEF AP!AwFire, M!AwFire, AP!WFire, M!WFire, AP!ArFire, M!ArFire, AP!RespFire, M!RespFire,
         AP!MayAccept, M!MayAccept
<1> QED BY <1>1, SameWires DEF AP!Accepted, M!Accepted

LEMMA SameEdge ==
  ASSUME NEW ready, M!Edge(ready)
  PROVE  AP!Edge(ready)
<1>1. AP!Lane = M!Lane
  BY DEF AP!Lane, M!Lane
<1>2. \A e : AP!Log(e) <=> M!Log(e)
  BY SameStall DEF AP!Log, M!Log
<1>3. \A s : AP!Written(s) = M!Written(s)
  BY <1>1 DEF AP!Written, M!Written
<1>4. M!SlaveWaits(ready) => AP!SlaveWaits(ready)
  BY <1>2, SameSlave DEF AP!SlaveWaits, M!SlaveWaits
<1>5. M!SlaveAnswersWrite(ready) => AP!SlaveAnswersWrite(ready)
  BY <1>2, <1>3, SameSlave DEF AP!SlaveAnswersWrite, M!SlaveAnswersWrite
<1>6. M!SlaveAnswersRead(ready) => AP!SlaveAnswersRead(ready)
  BY <1>2, SameSlave DEF AP!SlaveAnswersRead, M!SlaveAnswersRead
<1>7. M!SlaveDone(ready) => AP!SlaveDone(ready)
  BY <1>2, SameSlave, SameStall DEF AP!SlaveDone, M!SlaveDone
<1>8. M!Idle => AP!Idle
  BY DEF AP!Idle, M!Idle
<1>9. M!Write(ready) => AP!Write(ready)
  BY SameSlave DEF AP!Write, M!Write
<1>10. M!WResp => AP!WResp
  BY SameWires DEF AP!WResp, M!WResp, AP!master, M!master
<1>11. M!Read(ready) => AP!Read(ready)
  BY SameSlave, SameWires DEF AP!Read, M!Read
<1>12. M!Stage => AP!Stage
  BY SameStall, SameReadData DEF AP!Stage, M!Stage
<1>13. AP!MasterEdge(ready)
  BY <1>8, <1>9, <1>10, <1>11, <1>12, SameSlave DEF AP!MasterEdge, M!MasterEdge, M!Edge
<1> QED BY <1>4, <1>5, <1>6, <1>7, <1>13 DEF M!Edge, AP!Edge

LEMMA SameReset ==
  ASSUME M!Reset
  PROVE  AP!Reset
<1>1. AP!Lane = M!Lane
  BY DEF AP!Lane, M!Lane
<1>2. \A s : AP!Written(s) = M!Written(s)
  BY <1>1 DEF AP!Written, M!Written
<1> QED BY <1>1, <1>2, SameStall DEF AP!Reset, M!Reset

\* The constants are such as the bus master's proofs assume.
LEMMA PortAssumed ==
  /\ NWords \in Nat \ {0, 1}
  /\ Requests \subseteq AP!Access
  /\ DmemImage(MemInit) \in [AP!WordAddr -> AP!Bytes] /\ MaxAccesses \in Nat /\ MaxResets \in Nat
BY MasterAssumed DEF AP!Access, M!Access, AP!WordAddr, M!WordAddr, AP!Bytes, M!Bytes, AP!Byte, M!Byte,
                     AP!Lane, M!Lane

-----------------------------------------------------------------------------
(* The registers keep to their types, whatever is accessed. *)

Registers == /\ {awvalid, wvalid, bready, arvalid, rready, awDone, wDone, phase2} \subseteq BOOLEAN
             /\ result \in AP!Word /\ wordLo \in AP!Word
             /\ ic.strb \in SUBSET Lane

LEMMA StrbFields ==
  ASSUME NEW i, Whole(i), NEW m, NEW s, NEW n, n = IcEdge(i, m, s),
         i.state \in {"idle", "decode", "write", "writeDrop", "writeResp", "read", "waitIdle"}
  PROVE  n.strb \in {i.strb, m.strb}
<1> DEFINE f == Defaults(i, m, s)
<1>1. Whole(f) /\ f.strb = i.strb
  BY DefaultsFields
<1> HIDE DEF f
<1>2. CASE i.state = "idle"
  BY <1>1, <1>2 DEF IcEdge, f, IdleNext, Whole
<1>3. CASE i.state = "decode"
  <2>1. n = DecodeNext(i, f)
    BY <1>3 DEF IcEdge, f
  <2> QED BY <1>1, <2>1 DEF DecodeNext, Whole
<1>4. CASE i.state = "write"
  <2>1. n = WriteNext(i, m, f)
    BY <1>4 DEF IcEdge, f
  <2> QED BY <1>1, <2>1 DEF WriteNext, Whole
<1>5. CASE i.state = "writeResp"
  <2>1. n = WriteRespNext(i, s, f)
    BY <1>5 DEF IcEdge, f
  <2> QED BY <1>1, <2>1 DEF WriteRespNext, Whole
<1>6. CASE i.state = "writeDrop"
  <2>1. n = WriteDropNext(i, m, f)
    BY <1>6 DEF IcEdge, f
  <2> QED BY <1>1, <2>1 DEF WriteDropNext, Whole
<1>7. CASE i.state = "read"
  <2>1. n = ReadNext(i, s, f)
    BY <1>7 DEF IcEdge, f
  <2> QED BY <1>1, <2>1 DEF ReadNext, Whole
<1>8. CASE i.state = "waitIdle"
  <2>1. n = WaitIdleNext(i, m, f)
    BY <1>8 DEF IcEdge, f
  <2> QED BY <1>1, <2>1 DEF WaitIdleNext, Whole
<1> QED BY <1>2, <1>3, <1>4, <1>5, <1>6, <1>7, <1>8

LEMMA BytesTyped == /\ \A w : ToBytes(w) \in AP!Word
                    /\ Zeros \in AP!Word
                    /\ \A w : DmemImage(w) \in [AP!WordAddr -> AP!Word]
<1>1. ASSUME NEW w PROVE ToBytes(w) \in AP!Word
  <2>1. \A l \in Lane : ToByte(Field(w, 8 * l + 7, 8 * l)) \in 0 .. 255
    BY ByteRange
  <2> QED BY <2>1 DEF ToBytes, AP!Word, AP!Lane, AP!Byte, Lane
<1>2. Zeros \in AP!Word
  BY DEF Zeros, AP!Word, AP!Lane, AP!Byte, Lane
<1> QED BY <1>1, <1>2 DEF DmemImage, AP!WordAddr

SlaveRecords == [aw : BOOLEAN, w : BOOLEAN, ar : BOOLEAN, bvalid : BOOLEAN, rvalid : BOOLEAN,
                 addr : AP!WordAddr, strb : SUBSET AP!Lane, data : AP!Word, rdata : AP!Word]

LEMMA HoldingTyped ==
  ASSUME NEW aw \in BOOLEAN, NEW w \in BOOLEAN, NEW ar \in BOOLEAN, NEW b \in BOOLEAN,
         NEW r \in BOOLEAN, NEW addr \in AP!WordAddr, NEW strb \in SUBSET AP!Lane,
         NEW data \in AP!Word, NEW rdata \in AP!Word
  PROVE  Holding(aw, w, ar, b, r, addr, strb, data, rdata) \in SlaveRecords
BY DEF Holding, SlaveRecords

LEMMA SlaveTyped ==
  ASSUME PathInv, AnswerType, ic.strb \in SUBSET Lane, M!Addr \in AP!WordAddr
  PROVE  AsSlave(ic) \in SlaveRecords
<1>1. SlaveForm
  BY SlaveOf
<1>2. ic.state \in {"idle", "decode", "write", "writeDrop", "writeResp", "read", "waitIdle"}
      /\ (ic.state # "idle" => ic.addr = M!Addr)
      /\ (ic.state = "waitIdle" => state \in {"wresp", "read"})
  BY DEF PathInv, Dialogue, Routed
<1>3. PICK b : b = ToBytes(ic.data)
  OBVIOUS
<1>4. b \in AP!Word /\ Zeros \in AP!Word /\ AP!Lane = Lane /\ 0 \in AP!WordAddr
  BY <1>3, BytesTyped, MasterAssumed DEF AP!Lane, Lane, AP!WordAddr
<1>5. M!Free = Holding(FALSE, FALSE, FALSE, FALSE, FALSE, 0, {}, Zeros, Zeros)
  BY DEF M!Free, Holding, Zeros, Lane, M!Lane
<1>6. PICK a : a = ic.addr
  OBVIOUS
<1>7. PICK t : t = ic.strb
  OBVIOUS
<1>8. AsSlave(ic) \in {Holding(FALSE, FALSE, FALSE, FALSE, FALSE, 0, {}, Zeros, Zeros),
                       Holding(TRUE, FALSE, FALSE, FALSE, FALSE, a, {}, Zeros, Zeros),
                       Holding(TRUE, TRUE, FALSE, FALSE, FALSE, a, t, b, Zeros),
                       Holding(TRUE, TRUE, FALSE, TRUE, FALSE, a, t, b, Zeros),
                       Holding(FALSE, FALSE, TRUE, FALSE, FALSE, a, {}, Zeros, Zeros),
                       Holding(FALSE, FALSE, TRUE, FALSE, TRUE, a, {}, Zeros, b)}
      /\ (AsSlave(ic) = Holding(FALSE, FALSE, FALSE, FALSE, FALSE, 0, {}, Zeros, Zeros)
            \/ ic.state # "idle")
  BY <1>1, <1>2, <1>3, <1>5, <1>6, <1>7, Zenon
     DEF SlaveForm, TookAddress, TookWrite, AnsweredWrite, TookRead, AnsweredRead
<1>9. CASE ic.state = "idle"
  <2>1. AsSlave(ic) = Holding(FALSE, FALSE, FALSE, FALSE, FALSE, 0, {}, Zeros, Zeros)
    BY <1>8, <1>9
  <2> QED BY <1>4, <2>1 DEF Holding, SlaveRecords
<1>10. CASE ic.state # "idle"
  <2>1. a \in AP!WordAddr /\ t \in SUBSET AP!Lane
    BY <1>2, <1>4, <1>6, <1>7, <1>10
  <2>2. {} \in SUBSET AP!Lane /\ TRUE \in BOOLEAN /\ FALSE \in BOOLEAN
    OBVIOUS
  <2>3. Holding(TRUE, FALSE, FALSE, FALSE, FALSE, a, {}, Zeros, Zeros) \in SlaveRecords
    BY <1>4, <2>1, <2>2, HoldingTyped
  <2>4. Holding(TRUE, TRUE, FALSE, FALSE, FALSE, a, t, b, Zeros) \in SlaveRecords
    BY <1>4, <2>1, <2>2, HoldingTyped
  <2>5. Holding(TRUE, TRUE, FALSE, TRUE, FALSE, a, t, b, Zeros) \in SlaveRecords
    BY <1>4, <2>1, <2>2, HoldingTyped
  <2>6. Holding(FALSE, FALSE, TRUE, FALSE, FALSE, a, {}, Zeros, Zeros) \in SlaveRecords
    BY <1>4, <2>1, <2>2, HoldingTyped
  <2>7. Holding(FALSE, FALSE, TRUE, FALSE, TRUE, a, {}, Zeros, b) \in SlaveRecords
    BY <1>4, <2>1, <2>2, HoldingTyped
  <2>8. Holding(FALSE, FALSE, FALSE, FALSE, FALSE, 0, {}, Zeros, Zeros) \in SlaveRecords
    BY <1>4, <2>2, HoldingTyped
  <2> QED BY <1>8, <2>3, <2>4, <2>5, <2>6, <2>7, <2>8, Zenon
<1> QED BY <1>9, <1>10

LEMMA MasterTyped == FabricInv /\ AnswerType /\ Registers => AP!TypeOK
<1> SUFFICES ASSUME FabricInv, AnswerType, Registers PROVE AP!TypeOK
  OBVIOUS
<1>1. PathInv
  BY DEF FabricInv
<1>2. req \in Requests \cup {AP!None}
  BY <1>1, SameStall DEF PathInv, ForRequest
<1>3. M!Addr \in AP!WordAddr
  <2>1. req \in AP!Access \/ req = AP!None
    BY <1>2, PortAssumed
  <2>2. NWords \in Nat /\ NWords > 1
    BY PortAssumed
  <2>3. req.word \in 0 .. NWords - 1
    BY <2>1, <2>2 DEF AP!Access, AP!None, AP!WordAddr
  <2>4. (req.word + 1) % NWords \in 0 .. NWords - 1
    BY <2>2, <2>3
  <2> QED BY <2>3, <2>4 DEF M!Addr, M!AddrLo, M!AddrHi, AP!WordAddr
<1>4. AsSlave(ic) \in SlaveRecords
  BY <1>1, <1>3, SlaveTyped DEF Registers
<1>5. DmemImage(IF WriteUnderWay(ic) THEN prior ELSE dmem.words) \in [AP!WordAddr -> AP!Word]
  BY BytesTyped
<1>6. /\ state \in AP!States
      /\ awvalid \/ wvalid => state = "write"
      /\ bready <=> state = "wresp"
      /\ rready <=> state = "read"
      /\ arvalid => state = "read"
  BY <1>1 DEF PathInv, Dialogue, AP!States
<1> QED BY <1>2, <1>4, <1>5, <1>6 DEF AP!TypeOK, Registers, SlaveRecords

LEMMA RegistersKept ==
  ASSUME FabricInv, AnswerType, Registers, [Next]_vars
  PROVE  Registers'
<1>1. AP!TypeOK /\ PathInv
  BY MasterTyped DEF FabricInv
<1>2. CASE Edge \/ BusyEdge
  <2>1. PICK busy, sw, value : ClockEdge(busy, sw, value)
    BY <1>2, Edges
  <2>2. AsSlave(ic).rdata \in AP!Word
    BY <1>1 DEF AP!TypeOK
  <2>3. {awvalid, wvalid, bready, arvalid, rready, awDone, wDone, phase2} \subseteq BOOLEAN
        /\ wordLo \in AP!Word
    BY DEF Registers
  <2>4. {awvalid', wvalid', bready', arvalid', rready', awDone', wDone', phase2'} \subseteq BOOLEAN
        /\ wordLo' \in AP!Word
    <3>1. CASE M!Idle
      BY <2>3, <3>1 DEF M!Idle
    <3>2. CASE M!Write(Channels)
      BY <2>3, <3>2 DEF M!Write
    <3>3. CASE M!WResp
      BY <2>3, <3>3 DEF M!WResp, M!master
    <3>4. CASE M!Read(Channels)
      BY <2>2, <2>3, <3>4 DEF M!Read
    <3> QED BY <2>1, <3>1, <3>2, <3>3, <3>4 DEF ClockEdge
  <2>5. result' \in AP!Word
    <3>1. M!MemRdata \in AP!Word
      <4>1. AP!MemRdata \in AP!Word
        BY <1>1, PortAssumed, AP!ReadDataType
      <4> QED BY <4>1, SameReadData
    <3> QED BY <2>1, <3>1 DEF ClockEdge, M!Stage, Registers
  <2>6. ic'.strb \in SUBSET Lane
    <3>1. ic' = IcEdge(ic, FromMaster, FromDevices)
      BY <2>1 DEF ClockEdge
    <3>2. Whole(ic) /\ ic.state \in {"idle", "decode", "write", "writeDrop", "writeResp", "read",
                                     "waitIdle"}
      BY <1>1 DEF PathInv, Dialogue
    <3>3. ic'.strb \in {ic.strb, FromMaster.strb}
      BY <3>1, <3>2, StrbFields
    <3>4. FromMaster.strb = M!Wstrb /\ M!Wstrb \in SUBSET Lane
      BY DEF FromMaster, M!Wstrb, M!StrbLo, M!StrbHi, Lane, M!Lane
    <3> QED BY <3>3, <3>4 DEF Registers
  <2> QED BY <2>4, <2>5, <2>6 DEF Registers
<1>3. CASE Reset
  <2>1. /\ {awvalid', wvalid', bready', arvalid', rready', awDone', wDone', phase2'} \subseteq BOOLEAN
        /\ wordLo' = Zeros /\ result' = result /\ ic' = IcReset(ic)
    BY <1>3 DEF Reset
  <2>2. ic'.strb = ic.strb
    BY <1>1, <2>1 DEF IcReset, PathInv, Whole
  <2> QED BY <2>1, <2>2, BytesTyped DEF Registers
<1>4. CASE UNCHANGED vars
  BY <1>4 DEF vars, mvars, devs, Registers
<1> QED BY <1>2, <1>3, <1>4 DEF Next

LEMMA RegistersStart == Init => Registers
<1> SUFFICES ASSUME Init PROVE Registers
  OBVIOUS
<1>1. ic.strb = {}
  BY DEF Init, IcInit, IcReset
<1> QED BY <1>1, BytesTyped DEF Init, Registers

\* Nothing but memory words, lanes and read data ever reaches the registers of
\* the master and the interconnect, whatever is accessed (axil_master.v:115-118,
\* axil_interconnect.v:222-231).
THEOREM RegistersTyped == Spec => []Registers
<1>1. FabricInv /\ AnswerType /\ Registers /\ [Next]_vars => Registers'
  BY RegistersKept
<1> QED BY <1>1, RegistersStart, FabricInvariance, AnswersTyped, PTL DEF Spec

-----------------------------------------------------------------------------
(* Where an access starts, and what stays during one *)

AtRestNow == /\ state = "idle" /\ log = <<>> /\ AsSlave(ic) = M!Free
             /\ before = DmemImage(prior)

\* The stall is over only when the state machine and the slave are done.
LEMMA EndsAtRest ==
  ASSUME FabricInv, FabricInv', AnswerType', NEW busy, NEW sw, NEW value,
         ClockEdge(busy, sw, value), ~M!BusStall
  PROVE  AtRestNow' /\ before' = DmemImage(prior) /\ prior' = prior
<1>1. PathInv /\ PathInv' /\ MemoryKept
  BY DEF FabricInv
<1>2. req = M!None \/ M!XferDone
  BY DEF M!BusStall
<1>3. state' = "idle" /\ ic.state # "writeResp"
  <2>1. CASE req = M!None
    <3>1. state = "idle"
      BY <1>1, <2>1 DEF PathInv, ForRequest, Dialogue, M!None
    <3> QED BY <1>1, <2>1, <3>1, IdleTurn DEF PathInv, Dialogue
  <2>2. CASE req # M!None
    <3>1. M!PhaseDone /\ (~M!Crosses \/ phase2)
      BY <1>2, <2>2 DEF M!XferDone
    <3>2. \/ state = "wresp" /\ AsSlave(ic).bvalid /\ M!WResp
          \/ state = "read" /\ AsSlave(ic).rvalid /\ M!Read(Channels)
      BY <3>1 DEF M!PhaseDone, ClockEdge, M!Idle, M!Write, M!WResp, M!Read
    <3>3. state' = "idle"
      BY <3>1, <3>2 DEF M!WResp, M!Read
    <3>4. ic.bvalid \/ ic.rvalid
      BY <3>2, SlaveWires
    <3> QED BY <1>1, <3>3, <3>4 DEF PathInv, Dialogue
  <2> QED BY <2>1, <2>2
<1>4. prior' = prior
  <2>1. ~MemStruck
    BY <1>3 DEF MemStruck
  <2> QED BY <2>1, PriorStep
<1>5. AsSlave(ic)' = M!Free
  <2>1. (PathInv /\ AnswerType => SlaveForm)'
    BY SlaveOf, PTL
  <2>2. ic'.state = "idle"
    BY <1>1, <1>3 DEF PathInv, Dialogue
  <2> QED BY <1>1, <2>1, <2>2 DEF SlaveForm
<1>6. log' = <<>>
  BY DEF ClockEdge, M!Log
<1>7. before' = DmemImage(prior)
  BY <1>1, SeenIsPrior DEF ClockEdge, M!Stage, SeenMemory
<1>8. before' = DmemImage(prior)'
  BY <1>4, <1>7 DEF DmemImage
<1> QED BY <1>3, <1>4, <1>5, <1>6, <1>7, <1>8 DEF AtRestNow

LEMMA ResetAtRest ==
  ASSUME FabricInv, FabricInv', AnswerType', Reset
  PROVE  AtRestNow' /\ before' = DmemImage(MemWords(dmem))
<1>1. PathInv /\ PathInv' /\ state' = "idle" /\ log' = <<>> /\ prior' = MemWords(dmem)
      /\ before' = DmemImage(MemWords(dmem))
  BY DEF FabricInv, Reset
<1>2. AsSlave(ic)' = M!Free
  <2>1. (PathInv /\ AnswerType => SlaveForm)'
    BY SlaveOf, PTL
  <2>2. ic'.state = "idle"
    BY <1>1 DEF PathInv, Dialogue
  <2> QED BY <1>1, <2>1, <2>2 DEF SlaveForm
<1>3. before' = DmemImage(prior)'
  BY <1>1 DEF DmemImage
<1> QED BY <1>1, <1>2, <1>3 DEF AtRestNow

\* At rest the bus master's invariant holds, whatever was accessed before.
LEMMA RestIsStart ==
  FabricInv /\ AnswerType /\ Registers /\ AtRestNow => AP!DInv
<1> SUFFICES ASSUME FabricInv, AnswerType, Registers, AtRestNow PROVE AP!DInv
  OBVIOUS
<1>1. AP!TypeOK /\ resets \in Nat
  BY MasterTyped DEF FabricInv, PathInv
<1>2. SeenMemory
  BY SeenIsPrior DEF FabricInv
<1>3. AP!AtStart
  BY <1>1, <1>2, SameStall DEF AP!AtStart, AtRestNow, SeenMemory
<1> QED BY <1>3, PortAssumed, AP!StartsAnywhere

\* A stalled access stays, and so does where it lies.
LEMMA StallKeeps ==
  ASSUME FabricInv, NEW busy, NEW sw, NEW value, ClockEdge(busy, sw, value), M!BusStall
  PROVE  /\ req' = req /\ before' = before /\ result' = result /\ state' # "idle"
         /\ OnlyMemory' <=> OnlyMemory
         /\ OutOfDmem(req)' <=> OutOfDmem(req)
<1>1. req' = req /\ before' = before /\ result' = result
  BY DEF ClockEdge, M!Stage
<1>2. /\ OnlyMemory' <=> OnlyMemory
      /\ OutOfDmem(req)' <=> OutOfDmem(req)
  BY <1>1 DEF OnlyMemory, InDmem, OutOfDmem, Target, M!WordOf, M!ReadBytes, M!Width
<1>3. state' # "idle"
  <2>1. PathInv /\ req # M!None /\ ~M!XferDone
    BY DEF FabricInv, M!BusStall
  <2>2. CASE state = "idle"
    <3>1. req.op \in {"read", "write"}
      BY <2>1, RequestKind DEF PathInv, ForRequest
    <3> QED BY <2>1, <2>2, <3>1, IdleTurn
  <2>3. CASE state # "idle"
    <3>1. M!Write(Channels) \/ M!WResp \/ M!Read(Channels)
      BY <2>3 DEF ClockEdge, M!Idle
    <3>2. M!Write(Channels) => state' # "idle"
      BY DEF M!Write
    <3>3. M!WResp => state' # "idle"
      BY <2>1, <2>3 DEF M!WResp, M!XferDone, M!PhaseDone, M!master
    <3>4. M!Read(Channels) => state' # "idle"
      BY <2>1, <2>3 DEF M!Read, M!XferDone, M!PhaseDone
    <3> QED BY <3>1, <3>2, <3>3, <3>4
  <2> QED BY <2>2, <2>3
<1> QED BY <1>1, <1>2, <1>3

\* An access without a word in memory never selects it.
LEMMA OutsideIsQuiet ==
  ASSUME PathInv, OutOfDmem(req)
  PROVE  ~MemStruck /\ ~dmem.wr.en
<1>1. req \in Requests \cup {M!None} /\ req # M!None /\ NWords \in Nat \ {0, 1}
      /\ Requests \subseteq M!Access
  <2>1. req.op # "none" /\ M!None.op = "none"
    BY DEF OutOfDmem, M!None
  <2> QED BY <2>1, SocAssumption DEF PathInv, ForRequest
<1>2. req.word \in 0 .. NWords - 1 /\ req.lane \in 0 .. 3 /\ req.funct3 \in 0 .. 7
  BY <1>1 DEF M!Access, M!WordAddr, M!Lane
<1>3. M!WordOf(req, 0) = M!AddrLo
  BY <1>1, <1>2 DEF M!WordOf, M!AddrLo
<1>4. M!Crosses => M!WordOf(req, M!ReadBytes(req) - 1) = M!AddrHi
  BY <1>1, <1>2 DEF M!Crosses, M!IsWord, M!IsHalf, M!ReadBytes, M!Width, M!WordOf, M!AddrHi
<1>5. state # "idle" => Target(M!Addr) # "dmem"
  BY <1>3, <1>4 DEF OutOfDmem, M!Addr, PathInv, ForRequest
<1>6. ic.state = "writeResp" => ic.select # "dmem"
  BY <1>5 DEF PathInv, Routed, Dialogue
<1> QED BY <1>6, MemPortBusy DEF MemStruck

-----------------------------------------------------------------------------
(* The inductive invariant: the bus master's own while memory is accessed, *)
(* and between accesses, or beside memory, memory as it was.               *)

Undisturbed == state = "idle" \/ OutOfDmem(req)
MasterInv == /\ OnlyMemory => AP!DInv
             /\ Undisturbed => before = DmemImage(prior)

LEMMA RestKeeps == FabricInv /\ AnswerType /\ Registers /\ AtRestNow => MasterInv
  BY RestIsStart DEF MasterInv, AtRestNow

LEMMA MasterInvKept ==
  ASSUME FabricInv, AnswerType, Registers, MasterInv, FabricInv', AnswerType', Registers',
         [Next]_vars
  PROVE  MasterInv'
<1>1. AtRestNow' => MasterInv'
  <2>1. (FabricInv /\ AnswerType /\ Registers /\ AtRestNow => MasterInv)'
    BY RestKeeps, PTL
  <2> QED BY <2>1
<1>2. CASE Edge \/ BusyEdge
  <2>1. PICK busy, sw, value : ClockEdge(busy, sw, value)
    BY <1>2, Edges
  <2>2. CASE ~M!BusStall
    BY <1>1, <2>1, <2>2, EndsAtRest
  <2>3. CASE M!BusStall
    <3>1. /\ req' = req /\ before' = before /\ state' # "idle"
          /\ OnlyMemory' <=> OnlyMemory
          /\ OutOfDmem(req)' <=> OutOfDmem(req)
      BY <2>1, <2>3, StallKeeps
    <3>2. OnlyMemory' => AP!DInv'
      <4> SUFFICES ASSUME OnlyMemory PROVE AP!DInv'
        BY <3>1
      <4>1. M!Edge(Channels) \/ M!Reset \/ UNCHANGED M!vars
        BY FabricStep DEF OnlyMemory
      <4>2. AP!Edge(Channels) \/ AP!Reset \/ UNCHANGED AP!vars
        BY <4>1, SameEdge, SameReset DEF M!vars, AP!vars
      <4>3. Channels \in SUBSET AP!Channels
        BY DEF Channels, AP!Channels
      <4>4. [AP!Next]_(AP!vars)
        BY <4>2, <4>3 DEF AP!Next
      <4>5. AP!DInv
        BY DEF MasterInv
      <4> QED BY <4>4, <4>5, PortAssumed, AP!EachStepKeepsData
    <3>3. Undisturbed' => before' = DmemImage(prior)'
      <4> SUFFICES ASSUME OutOfDmem(req) PROVE before' = DmemImage(prior)'
        BY <3>1 DEF Undisturbed
      <4>1. ~MemStruck
        BY OutsideIsQuiet DEF FabricInv
      <4>2. prior' = prior
        BY <2>1, <4>1, PriorStep
      <4>3. DmemImage(prior)' = DmemImage(prior)
        BY <4>2 DEF DmemImage
      <4> QED BY <3>1, <4>3 DEF MasterInv, Undisturbed
    <3> QED BY <3>2, <3>3 DEF MasterInv
  <2> QED BY <2>2, <2>3
<1>3. CASE Reset
  BY <1>1, <1>3, ResetAtRest
<1>4. CASE UNCHANGED vars
  <2>1. UNCHANGED AP!vars
    BY <1>4 DEF vars, mvars, devs, AP!vars, DmemImage, AsSlave, WriteUnderWay, ToBytes
  <2>2. /\ OnlyMemory' <=> OnlyMemory
        /\ Undisturbed' <=> Undisturbed
        /\ before' = before /\ DmemImage(prior)' = DmemImage(prior)
    BY <1>4 DEF vars, mvars, OnlyMemory, Undisturbed, InDmem, OutOfDmem, Target, M!WordOf, M!ReadBytes,
                M!Width, DmemImage
  <2>3. AP!DInv => AP!DInv'
    BY <2>1, PortAssumed, AP!EachStepKeepsData
  <2> QED BY <2>2, <2>3 DEF MasterInv
<1> QED BY <1>2, <1>3, <1>4 DEF Next

LEMMA MasterInvStarts ==
  ASSUME Init, FabricInv, AnswerType, Registers
  PROVE  MasterInv
<1>1. SlaveForm /\ ic.state = "idle"
  BY SlaveOf DEF FabricInv, PathInv, Dialogue, Init
<1>2. AtRestNow
  BY <1>1 DEF AtRestNow, SlaveForm, Init
<1> QED BY <1>2, RestKeeps

\* While memory is accessed the bus master and the fabric behind it keep the
\* master's data invariant, and during any other access memory is as it was
\* when the access began (axil_master.v:163-250, axil_mem.v:52-118).
THEOREM MasterInvariance == Spec => []MasterInv
<1>1. Init /\ FabricInv /\ AnswerType /\ Registers => MasterInv
  BY MasterInvStarts
<1>2. /\ FabricInv /\ AnswerType /\ Registers /\ MasterInv
      /\ FabricInv' /\ AnswerType' /\ Registers' /\ [Next]_vars
      => MasterInv'
  BY MasterInvKept
<1> QED BY <1>1, <1>2, FabricInvariance, AnswersTyped, RegistersTyped, PTL DEF Spec

-----------------------------------------------------------------------------
(* Every access is atomic *)

\* The instance's operators are those of the port.
LEMMA SamePort ==
  /\ \A m, r : Port!Stored(m, r) = AP!Stored(m, r) /\ Port!Loaded(m, r) = AP!Loaded(m, r)
  /\ Port!None = M!None
<1>1. \A m, r : Port!Stored(m, r) = AP!Stored(m, r)
  BY DEF Port!Stored, AP!Stored, Port!Width, AP!Width, Port!WordOf, AP!WordOf, Port!LaneOf, AP!LaneOf,
         Port!WordAddr, AP!WordAddr, Port!Lane, AP!Lane
<1>2. \A m, r : Port!Loaded(m, r) = AP!Loaded(m, r)
  BY DEF Port!Loaded, AP!Loaded, Port!Width, AP!Width, Port!WordOf, AP!WordOf, Port!LaneOf, AP!LaneOf,
         Port!WordAddr, AP!WordAddr, Port!Lane, AP!Lane, Port!ReadBytes, AP!ReadBytes, Port!Fill, AP!Fill
<1>3. Port!None = M!None
  BY DEF Port!None, M!None, Port!Lane, M!Lane
<1> QED BY <1>1, <1>2, <1>3

\* In memory, at rest, and beside memory, the port shows memory as the access
\* found it.
LEMMA PortIsBefore ==
  FabricInv /\ MasterInv /\ (OnlyMemory \/ Undisturbed) => MemorySeen = before
<1> SUFFICES ASSUME FabricInv, MasterInv, OnlyMemory \/ Undisturbed PROVE MemorySeen = before
  OBVIOUS
<1>1. CASE OnlyMemory
  <2>1. AP!PortMem = before
    BY <1>1, PortAssumed, AP!PortMemIsBefore DEF MasterInv
  <2> QED BY <2>1 DEF AP!PortMem, MemorySeen
<1>2. CASE Undisturbed
  <2>1. SeenMemory /\ before = DmemImage(prior)
    BY <1>2, SeenIsPrior DEF FabricInv, MasterInv
  <2> QED BY <2>1 DEF SeenMemory, MemorySeen
<1> QED BY <1>1, <1>2

LEMMA AtomicStep ==
  ASSUME FabricInv, AnswerType, Registers, MasterInv,
         FabricInv', AnswerType', Registers', MasterInv', [Next]_vars
  PROVE  [ /\ (req = M!None \/ InDmem(req)) => Port!Next
           /\ OutOfDmem(req) => MemorySeen' = MemorySeen ]_(Port!vars)
<1>1. ((OnlyMemory \/ Undisturbed)' => MemorySeen' = before')
      /\ (OnlyMemory \/ Undisturbed => MemorySeen = before)
  <2>1. (FabricInv /\ MasterInv /\ (OnlyMemory \/ Undisturbed) => MemorySeen = before)'
    BY PortIsBefore, PTL
  <2> QED BY <2>1, PortIsBefore
<1>2. CASE Edge \/ BusyEdge
  <2>1. PICK busy, sw, value : ClockEdge(busy, sw, value)
    BY <1>2, Edges
  <2>2. OnlyMemory \/ OutOfDmem(req) => MemorySeen' = before'
    <3>1. CASE M!BusStall
      <4>1. /\ OnlyMemory' <=> OnlyMemory
            /\ OutOfDmem(req)' <=> OutOfDmem(req)
        BY <2>1, <3>1, StallKeeps
      <4> QED BY <1>1, <4>1 DEF Undisturbed
    <3>2. CASE ~M!BusStall
      <4>1. state' = "idle"
        BY <2>1, <3>2, EndsAtRest DEF AtRestNow
      <4> QED BY <1>1, <4>1 DEF Undisturbed
    <3> QED BY <3>1, <3>2
  <2>3. CASE OnlyMemory
    <3>1. MemorySeen = before /\ MemorySeen' = before' /\ AP!DInv
      BY <1>1, <2>2, <2>3 DEF MasterInv
    <3>2. ~OutOfDmem(req)
      BY <2>3 DEF OnlyMemory, InDmem, OutOfDmem, M!None
    <3>3. M!Edge(Channels) \/ M!Reset \/ UNCHANGED M!vars
      BY <2>3, FabricStep DEF OnlyMemory
    <3>4. CASE M!Edge(Channels)
      <4>1. AP!Edge(Channels) /\ Channels \in SUBSET AP!Channels
        BY <3>4, SameEdge DEF Channels, AP!Channels
      <4>2. \/ before' = before /\ req' = req /\ result' = result
            \/ /\ req = AP!None /\ req' \in Requests \cup {AP!None}
               /\ before' = before /\ result' = result
            \/ /\ req.op = "read" /\ req' \in Requests \cup {AP!None}
               /\ before' = before /\ result' = AP!Loaded(before, req)
            \/ /\ req.op = "write" /\ req' \in Requests \cup {AP!None}
               /\ before' = AP!Stored(before, req) /\ result' = result
        BY <3>1, <4>1, PortAssumed, AP!EdgeIsAccess
      <4>3. Port!None = AP!None
        BY SamePort, SameStall
      <4> QED BY <3>1, <3>2, <4>2, <4>3, SamePort
              DEF Port!Next, Port!Pass, Port!Load, Port!Store, Port!NewRequest, Port!vars
    <3>5. CASE M!Reset
      <4>1. /\ req' = AP!None /\ result' = result
            /\ \/ before' = before
               \/ req.op = "write"
                  /\ before' = [before EXCEPT ![req.word] = AP!Stored(before, req)[req.word]]
               \/ req.op = "write" /\ before' = AP!Stored(before, req)
        BY <3>1, <3>5, SameReset, PortAssumed, AP!ResetIsAccess
      <4> QED BY <3>1, <3>2, <4>1, SamePort, SameStall DEF Port!Next, Port!Reset, Port!FirstWord
    <3>6. CASE UNCHANGED M!vars
      BY <3>1, <3>6 DEF M!vars, Port!vars
    <3> QED BY <3>3, <3>4, <3>5, <3>6
  <2>4. CASE OutOfDmem(req)
    <3>1. MemorySeen = before /\ MemorySeen' = before'
      BY <1>1, <2>2, <2>4 DEF Undisturbed
    <3>2. before' = before
      <4>1. CASE M!BusStall
        BY <2>1, <4>1, StallKeeps
      <4>2. CASE ~M!BusStall
        <5>1. before = DmemImage(prior)
          BY <2>4 DEF MasterInv, Undisturbed
        <5> QED BY <2>1, <4>2, <5>1, EndsAtRest
      <4> QED BY <4>1, <4>2
    <3>3. ~(req = M!None \/ InDmem(req))
      BY <2>4 DEF InDmem, OutOfDmem, M!None
    <3> QED BY <3>1, <3>2, <3>3
  <2> QED BY <2>3, <2>4 DEF OnlyMemory
<1>3. CASE Reset
  <2>1. MemorySeen' = before' /\ before' = DmemImage(MemWords(dmem))
    BY <1>1, <1>3, ResetAtRest DEF AtRestNow, Undisturbed
  <2>2. CASE OnlyMemory
    <3>1. MemorySeen = before /\ AP!DInv /\ ~OutOfDmem(req)
      BY <1>1, <2>2 DEF MasterInv, OnlyMemory, InDmem, OutOfDmem, M!None
    <3>2. M!Reset
      BY <1>3, ResetStep
    <3>3. /\ req' = AP!None /\ result' = result
          /\ \/ before' = before
             \/ req.op = "write"
                /\ before' = [before EXCEPT ![req.word] = AP!Stored(before, req)[req.word]]
             \/ req.op = "write" /\ before' = AP!Stored(before, req)
      BY <3>1, <3>2, SameReset, PortAssumed, AP!ResetIsAccess
    <3> QED BY <2>1, <3>1, <3>3, SamePort, SameStall DEF Port!Next, Port!Reset, Port!FirstWord
  <2>3. CASE OutOfDmem(req)
    <3>1. MemorySeen = before /\ before = DmemImage(prior)
      BY <1>1, <2>3 DEF MasterInv, Undisturbed
    <3>2. MemWords(dmem) = prior
      BY <2>3, OutsideIsQuiet DEF FabricInv, MemWords, MemoryKept
    <3>3. ~(req = M!None \/ InDmem(req))
      BY <2>3 DEF InDmem, OutOfDmem, M!None
    <3> QED BY <2>1, <3>1, <3>2, <3>3
  <2> QED BY <2>2, <2>3 DEF OnlyMemory
<1>4. CASE UNCHANGED vars
  BY <1>4 DEF vars, mvars, devs, Port!vars, MemorySeen, DmemImage, WriteUnderWay, ToBytes
<1> QED BY <1>2, <1>3, <1>4 DEF Next

\* To the MEM stage an access to memory is atomic through the bus master, the
\* interconnect and axil_mem together, whatever was accessed before it, and an
\* access to a device leaves memory alone; a reset tears only a store that
\* crosses words (axil_master.v:128-161, axil_interconnect.v:381-520,
\* axil_mem.v:52-118).
THEOREM MemoryAtomic == Spec => MemoryIsAtomic
<1>1. /\ FabricInv /\ AnswerType /\ Registers /\ MasterInv
      /\ FabricInv' /\ AnswerType' /\ Registers' /\ MasterInv' /\ [Next]_vars
      => [ /\ (req = M!None \/ InDmem(req)) => Port!Next
           /\ OutOfDmem(req) => MemorySeen' = MemorySeen ]_(Port!vars)
  BY AtomicStep
<1> QED BY <1>1, FabricInvariance, AnswersTyped, RegistersTyped, MasterInvariance, PTL
        DEF Spec, MemoryIsAtomic
=============================================================================
