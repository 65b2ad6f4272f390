------------------------------- MODULE Blocks -------------------------------
(***************************************************************************)
(* The clocked blocks at their full width: csr.v, regfile.v, dmem.v and    *)
(* imem.v.  For each, what it drives for given inputs and what one clock   *)
(* edge makes of its flip-flops.                                           *)
(***************************************************************************)
EXTENDS Words

CONSTANT WordIndexes  \* words of a memory that a bench touches: of 0 .. 16383 in the code
ASSUME WordIndexAssumption == WordIndexes \subseteq 0 .. 16383

-----------------------------------------------------------------------------
(* csr.v *)

Addr == [mstatus |-> \h300, misa |-> \h301, medeleg |-> \h302, mideleg |-> \h303, mie |-> \h304,
         mtvec |-> \h305, mscratch |-> \h340, mepc |-> \h341, mcause |-> \h342, mtval |-> \h343,
         mip |-> \h344, satp |-> \h180, pmpcfg0 |-> \h3A0, pmpaddr0 |-> \h3B0, mhartid |-> \hF14,
         mnstatus |-> \h744, bogus |-> \h123, unused |-> \h7FF]

CsrAfterReset == [mie |-> FALSE, mpie |-> FALSE, mpp |-> {}, mtie |-> FALSE, privM |-> TRUE,
                  mtvec |-> {}, mscratch |-> {}, mepc |-> {}, mcause |-> {}]

\* Recognised, accepted and dropped.
Ignored == {Addr.misa, Addr.medeleg, Addr.mideleg, Addr.mtval, Addr.satp, Addr.pmpcfg0,
            Addr.pmpaddr0}
Known == {Addr.mstatus, Addr.mie, Addr.mtvec, Addr.mscratch, Addr.mepc, Addr.mcause, Addr.mip,
          Addr.mhartid}

At1(pos, b) == IF b THEN {pos} ELSE {}
CsrValue(c, in) ==
  CASE in.addr = Addr.mstatus  -> At(c.mpp, 11) \cup At1(7, c.mpie) \cup At1(3, c.mie)
    [] in.addr = Addr.mie      -> At1(7, c.mtie)
    [] in.addr = Addr.mtvec    -> c.mtvec
    [] in.addr = Addr.mscratch -> c.mscratch
    [] in.addr = Addr.mepc     -> c.mepc
    [] in.addr = Addr.mcause   -> c.mcause
    [] in.addr = Addr.mip      -> At1(7, in.irq)
    [] OTHER                   -> {}

CsrUnknown(in) == in.addr \notin Known \cup Ignored /\ (in.re \/ in.we)

CsrOutputs(c, in) ==
  [rdata |-> CsrValue(c, in), illegal |-> CsrUnknown(in), mtvec_out |-> c.mtvec,
   mepc_out |-> c.mepc, priv_m_out |-> c.privM, interrupt_pending |-> c.mie /\ c.mtie /\ in.irq]

CsrNewValue(c, in) ==
  CASE in.op = 1 -> in.wdata
    [] in.op = 2 -> CsrValue(c, in) \cup in.wdata
    [] in.op = 3 -> CsrValue(c, in) \ in.wdata
    [] in.op = 0 -> CsrValue(c, in)

CsrStore(c, in) ==
  LET v == CsrNewValue(c, in)
  IN  CASE in.addr = Addr.mstatus  -> [c EXCEPT !.mie = 3 \in v, !.mpie = 7 \in v,
                                                !.mpp = Field(v, 12, 11)]
        [] in.addr = Addr.mie      -> [c EXCEPT !.mtie = 7 \in v]
        [] in.addr = Addr.mtvec    -> [c EXCEPT !.mtvec = v]
        [] in.addr = Addr.mscratch -> [c EXCEPT !.mscratch = v]
        [] in.addr = Addr.mepc     -> [c EXCEPT !.mepc = v]
        [] in.addr = Addr.mcause   -> [c EXCEPT !.mcause = v]
        [] OTHER                   -> c

\* Variant: a stalled mret keeps swapping.
CsrEdge_NoHold(c, in) ==
  IF in.trap
  THEN [c EXCEPT !.mepc = in.trap_pc, !.mcause = in.trap_cause, !.mpie = c.mie,
                 !.mie = FALSE, !.mpp = IF c.privM THEN {0, 1} ELSE {}, !.privM = TRUE]
  ELSE IF in.mret
  THEN [c EXCEPT !.privM = 1 \in c.mpp, !.mie = c.mpie, !.mpie = TRUE, !.mpp = {}]
  ELSE IF in.we /\ ~CsrUnknown(in) THEN CsrStore(c, in) ELSE c
\* A stall holds everything; a trap outranks mret, and both outrank a write.
CsrEdge(c, in) ==
  IF in.stall THEN c
  ELSE IF in.trap
  THEN [c EXCEPT !.mepc = in.trap_pc, !.mcause = in.trap_cause, !.mpie = c.mie,
                 !.mie = FALSE, !.mpp = IF c.privM THEN {0, 1} ELSE {}, !.privM = TRUE]
  ELSE IF in.mret
  THEN [c EXCEPT !.privM = 1 \in c.mpp, !.mie = c.mpie, !.mpie = TRUE, !.mpp = {}]
  ELSE IF in.we /\ ~CsrUnknown(in) THEN CsrStore(c, in) ELSE c

-----------------------------------------------------------------------------
(* regfile.v *)

RegIndex == 0 .. 31
RegsAtStart == [r \in RegIndex |-> {}]

\* Variant: the bypass forgets x0 and the read of it.
PortData_X0Bypassed(regs, in, r) ==
  IF in.rd_we /\ in.rd_addr = r THEN in.rd_data ELSE regs[r]
\* A register written in this cycle is read as its new value, except x0.
PortData(regs, in, r) ==
  IF r = 0 THEN {}
  ELSE IF in.rd_we /\ in.rd_addr = r THEN in.rd_data
  ELSE regs[r]
RegOutputs(regs, in) == [rs1_data |-> PortData(regs, in, in.rs1), rs2_data |-> PortData(regs, in, in.rs2)]
RegEdge(regs, in) ==
  IF in.rd_we /\ in.rd_addr # 0 THEN [regs EXCEPT ![in.rd_addr] = in.rd_data] ELSE regs

-----------------------------------------------------------------------------
(* dmem.v and imem.v.  A memory is its words and its output register. *)

\* addr[15:2]
WordIndex(addr) == NatOf(Field(addr, 15, 2))

\* The read is of the old word; a write needs no enable.
DmemEdge(m, in) ==
  [words |-> [m.words EXCEPT ![WordIndex(in.addr)] = Merge(@, in.wdata, in.wstrb)],
   rdata |-> IF in.en THEN m.words[WordIndex(in.addr)] ELSE m.rdata]

ImemEdge(m, in) == IF in.en THEN [m EXCEPT !.rdata = m.words[WordIndex(in.addr)]] ELSE m
=============================================================================
