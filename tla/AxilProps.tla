------------------------------ MODULE AxilProps -----------------------------
(***************************************************************************)
(* What the bus master owes the MEM stage on one side and the bus on the   *)
(* other.                                                                  *)
(***************************************************************************)
EXTENDS AxilMaster

Word == [Lane -> Byte]
States == {"idle", "write", "wresp", "read"}

\* The registers keep to their types, and a channel is only driven in the
\* states that drive it (axil_master.v:163-250).
TypeOK ==
  /\ mem \in [WordAddr -> Word] /\ result \in Word /\ wordLo \in Word
  /\ req \in Requests \cup {None}
  /\ state \in States
  /\ {awvalid, wvalid, bready, arvalid, rready, awDone, wDone, phase2} \subseteq BOOLEAN
  /\ slave \in [aw : BOOLEAN, w : BOOLEAN, ar : BOOLEAN, bvalid : BOOLEAN, rvalid : BOOLEAN,
                addr : WordAddr, strb : SUBSET Lane, data : Word, rdata : Word]
  /\ awvalid \/ wvalid => state = "write"
  /\ bready <=> state = "wresp"
  /\ rready <=> state = "read"
  /\ arvalid => state = "read"

-----------------------------------------------------------------------------
\* Once a channel raises VALID it keeps VALID and its payload until the slave
\* takes it.  Address, data and strobes are not registered: they follow the MEM
\* stage's request, which only the stall keeps in place (axil_master.v:20-22).
ChannelStable ==
  [][ resets' = resets =>
        /\ awvalid /\ ~slave'.aw => awvalid' /\ Addr' = Addr
        /\ arvalid /\ ~slave'.ar => arvalid' /\ Addr' = Addr
        /\ wvalid /\ ~slave'.w   => wvalid' /\ Wstrb' = Wstrb /\ Wdata' = Wdata ]_vars

\* The words an access must touch, in the order it must touch them.
Wanted(r) ==
  LET first == WordOf(r, 0)
      last  == WordOf(r, ReadBytes(r) - 1)
      t(w)  == [op |-> r.op, word |-> w]
  IN  IF last = first THEN <<t(first)>> ELSE <<t(first), t(last)>>

\* An access makes one transaction for each word it touches, and each once:
\* a device register read twice by one load would lose a byte
\* (axil_master.v:131-133, 213-243).
OneTransactionPerWord ==
  IF req = None THEN log = <<>>
  ELSE /\ Len(log) <= Len(Wanted(req))
       /\ log = SubSeq(Wanted(req), 1, Len(log))
       /\ XferDone => log = Wanted(req)

\* To the MEM stage, accesses are atomic, whatever the delays on the five
\* channels and wherever the access lies; a reset can tear only a store that
\* crosses words (axil_master.v:12-18, 128-161).
P == INSTANCE MemPort WITH mem <- IF req.op = "write" THEN before ELSE mem
ImplementsMemPort == P!Spec

\* No access stalls the pipeline for ever: with a slave that takes what is
\* offered, in any order, and answers it, the stall ends (axil_master.v:135).
EachAccessCompletes == BusStall ~> ~BusStall
=============================================================================
