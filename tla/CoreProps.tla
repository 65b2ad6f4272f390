------------------------------ MODULE CoreProps ------------------------------
(***************************************************************************)
(* The architectural state inside the pipeline, and what is required of    *)
(* the core.                                                               *)
(***************************************************************************)
EXTENDS Core

\* The address of the oldest instruction that has not left EX: in ID/EX unless
\* that is a bubble, else in IF/ID unless that is one too, else about to be
\* fetched.
NextToExecute == IF exReal THEN id_ex.pc ELSE IF if_id.valid THEN if_id.pc ELSE pc

\* An instruction counts as executed when it leaves EX; what it has yet to write
\* is still in MEM and WB.
ArchRegs == [r \in Reg |-> IF ~MemWrites(r) THEN RegRead(r)
                           ELSE IF "mem_re" \in ex_mem.ctl THEN MemRdata
                           ELSE MemValue]

A == INSTANCE Isa WITH pc <- NextToExecute, regs <- ArchRegs, dmem <- MemWrite

-----------------------------------------------------------------------------
(* Invariants *)

\* Every register of the pipeline holds a value of its kind.
TypeOK ==
  /\ imem \in DOMAIN Programs
  /\ pc \in Word
  /\ if_id \in IfId
  /\ instr \in Instr
  /\ id_ex \in IdEx
  /\ ex_mem \in ExMem
  /\ mem_wb \in MemWb
  /\ regs \in [Reg -> Word]
  /\ csr \in CsrState
  /\ dmem \in [DAddr -> Word]
  /\ irq \in BOOLEAN
  /\ resets \in 0 .. MaxResets
  /\ exReal \in BOOLEAN

\* An interrupt may land on any cycle with MIE set, and saves id_ex_pc, be it the
\* PC of an instruction or of a bubble (core.v:164-174, 265-277): that must be
\* the PC of the instruction to resume at, whatever the front end is doing.
InterruptPcPrecise == csr.mie => id_ex.pc = NextToExecute

\* The operands EX computes with are the values the program has given the
\* registers, although one writer may be in MEM and another in WB, and a load
\* may not have its data yet (core.v:127-129, 343-365; regfile.v:43-50).
OperandsCurrent ==
  exReal => /\ FwdRs1 = ArchRegs[id_ex.instr.rs1]
            /\ FwdRs2 = ArchRegs[id_ex.instr.rs2]

\* What the front end holds is the program's text at the address it says, in
\* program order: the synchronous read of imem stays paired with if_id_pc
\* through holds, stalls and flushes (core.v:131-136, 160-198).
FetchPaired ==
  /\ if_id.valid => instr = Text[if_id.pc] /\ pc = NextPc(if_id.pc)
  /\ exReal      => if_id.valid /\ id_ex.instr = Text[id_ex.pc] /\ if_id.pc = NextPc(id_ex.pc)

-----------------------------------------------------------------------------
(* Refinement *)

\* The pipeline executes the program one instruction at a time, each exactly
\* once, with interrupts taken between two of them and faults without side
\* effects (core.v:400-428).
ImplementsIsa == A!Spec

\* And it does so forever, when the clock runs and the bus answers.
ImplementsIsaForever == A!Spec /\ A!Progress

-----------------------------------------------------------------------------
(* What the documents say of the trace ports *)

\* docs/phase6_plan.md:97: one valid cycle per retirement.
OneValidCyclePerRetirement == [][TraceWe => mem_wb' # mem_wb]_vars

\* sim/verilator/tb_soc.cpp:39: the trace omits an instruction that traps, so
\* it omits none that completes: the line trace_trap suppresses is the
\* trapping instruction's.
TraceTrapOmitsOnlyTrapping == TraceTrap /\ TraceWe => mem_wb.pc = id_ex.pc

-----------------------------------------------------------------------------
(* Liveness *)

\* An enabled interrupt whose line stays high is taken, whatever loop the
\* program is in and however often the bus stalls it (core.v:400-407, 415).
InterruptTaken == InterruptPending(csr, irq) ~> ~InterruptPending(csr, irq)
=============================================================================
