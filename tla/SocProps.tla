------------------------------- MODULE SocProps -----------------------------
(***************************************************************************)
(* What the fabric and the devices owe the master and, through it, the     *)
(* MEM stage.                                                              *)
(***************************************************************************)
EXTENDS Soc

\* The access lies in memory, both its words.
InDmem(r) == /\ r.op # "none"
             /\ Target(M!WordOf(r, 0)) = "dmem"
             /\ Target(M!WordOf(r, M!ReadBytes(r) - 1)) = "dmem"

\* The interconnect with a device behind it is one of the slaves that the
\* master's own checks allow: channels accepted once each, one answer, after
\* both halves of a write, and memory as the write left it
\* (axil_interconnect.v:381-520, axil_mem.v:52-118).
FabricIsASlave ==
  [][req = M!None \/ InDmem(req) => M!Edge(Channels) \/ M!Reset]_(M!vars)

\* The access has no word in memory.
OutOfDmem(r) == /\ r.op # "none"
                /\ Target(M!WordOf(r, 0)) # "dmem"
                /\ Target(M!WordOf(r, M!ReadBytes(r) - 1)) # "dmem"

\* To the MEM stage, through the arbiter, the interconnect and axil_mem, an
\* access to memory is atomic, whatever device was accessed before it, and an
\* access to a device, or to no device, leaves memory alone.  A reset tears only
\* a store that crosses words (axil_interconnect.v:381-520, axil_mem.v:52-118,
\* axil_master.v:128-161).
MemorySeen == IF req.op = "write" THEN before
                                  ELSE DmemImage(IF WriteUnderWay(ic) THEN prior ELSE dmem.words)
Port == INSTANCE MemPort WITH mem <- MemorySeen
MemoryIsAtomic ==
  [][ /\ (req = M!None \/ InDmem(req)) => Port!Next
      /\ OutOfDmem(req) => MemorySeen' = MemorySeen ]_(Port!vars)

-----------------------------------------------------------------------------
\* The register accesses a load or store asks for, lowest word first; an
\* address of no device asks for none.
LanesIn(r, w) == {l \in Lane : \E k \in 0 .. M!Width(r) - 1 :
                                 M!WordOf(r, k) = w /\ M!LaneOf(r, k) = l}
\* The bytes of the store's register that count: the timer and the UART take the
\* whole word, whatever the lanes.
Carried(r, w) == LET n == IF Target(w) \in {"dmem", "gpio"} THEN M!Width(r) ELSE 4
                 IN  {k \in 0 .. n - 1 : M!WordOf(r, k) = w}
BitsIn(r, w) == UNION {{8 * M!LaneOf(r, k) + i : i \in {j \in 0 .. 7 : (r.data[k] \div 2 ^ j) % 2 = 1}}
                         : k \in Carried(r, w)}
WordsOf(r) == LET first == M!WordOf(r, 0)
                  last  == M!WordOf(r, M!ReadBytes(r) - 1)
              IN  IF r = M!None THEN <<>> ELSE IF first = last THEN <<first>> ELSE <<first, last>>
Served(w) == IF Target(w) = NoDevice THEN <<>> ELSE <<w>>
Wanted(r) == LET ws == WordsOf(r)
             IN  CASE Len(ws) = 0 -> <<>>
                   [] Len(ws) = 1 -> Served(ws[1])
                   [] Len(ws) = 2 -> Served(ws[1]) \o Served(ws[2])

IsAccess(s, r, w) ==
  LET d == Target(w)
  IN  /\ s.op = r.op /\ s.dev = d /\ s.word = w /\ s.reg = Register(d, w)
      /\ r.op = "write" => s.data = Payload(d, BitsIn(r, w), LanesIn(r, w))

\* Every word an access touches is one access of one register of the right
\* device, with the right lanes, once and in order, done before the stall ends:
\* a device register read twice loses a character, a write that comes late is
\* overtaken (axil_interconnect.v:406-508, soc.v:115-123).
EachWordOnce ==
  /\ Len(strobes) <= Len(Wanted(req))
  /\ \A k \in DOMAIN strobes : IsAccess(strobes[k], req, Wanted(req)[k])
  /\ M!XferDone => Len(strobes) = Len(Wanted(req))

\* A load returns the bytes its registers held when they were read, in their
\* places, and 0 for an address of no device, whatever was read before it
\* (axil_interconnect.v:427-436, 500-503, axil_master.v:139-161).
ReadAt(w) == IF \E k \in DOMAIN strobes : strobes[k].word = w
             THEN LET s == CHOOSE t \in ToSet(strobes) : t.word = w
                  IN  ToBytes(ReadBits(s.dev, s.data))
             ELSE Zeros
LoadsReturnWhatWasRead ==
  M!XferDone /\ req.op = "read" =>
    M!MemRdata = M!Loaded([w \in ToSet(WordsOf(req)) |-> ReadAt(w)], req)

\* No access hangs the pipeline, whatever its address, if the transmitter ends
\* its characters: the grant is given, held and given back
\* (arbiter.v:109-114, axil_interconnect.v:510-519).
EachAccessCompletes == M!BusStall ~> ~M!BusStall
=============================================================================
