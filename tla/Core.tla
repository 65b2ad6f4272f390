-------------------------------- MODULE Core --------------------------------
(***************************************************************************)
(* core.v: the five-stage pipeline IF ID EX MEM WB, with csr.v, regfile.v, *)
(* decoder.v and imem.v inside it.  A step is one rising clock edge; an    *)
(* operator without a prime is a wire, its value in the cycle before the   *)
(* edge.                                                                   *)
(*                                                                         *)
(* The bus is abstract: while an instruction in MEM accesses memory the    *)
(* bus stalls the pipeline for any number of cycles, and the access takes  *)
(* effect at the edge that ends the stall.  AxilMaster shows that the bus  *)
(* master keeps this promise.                                              *)
(*                                                                         *)
(* Registers that hold a value nothing reads (the data fields of a bubble) *)
(* hold 0 here, the stale value in the code; id_ex_pc of a bubble and the  *)
(* stages' contents after a reset are kept as the code leaves them.        *)
(***************************************************************************)
EXTENDS Csr

CONSTANTS
  ResetPc,      \* RESET_PC
  DmemSize,     \* words of data memory; addresses wrap
  Programs,     \* the contents imem may have, by name
  DmemInit,     \* the initial contents of data memory
  MaxResets     \* a bound on how often the core is reset

DAddr == 0 .. DmemSize - 1

ASSUME CoreAssumption == /\ ResetPc \in Word
                         /\ DmemSize \in 1 .. WordSize
                         /\ \A p \in DOMAIN Programs : Programs[p] \in [Word -> Instr]
                         /\ DmemInit \in [DAddr -> Word]
                         /\ MaxResets \in Nat

VARIABLES
  imem,         \* the name of the program in instruction memory
  pc,
  if_id,        \* if_id_pc and if_id_valid
  instr,        \* the output register of imem
  id_ex, ex_mem, mem_wb,
  regs,         \* regfile
  csr,
  dmem,         \* behind the bus
  irq,          \* timer_irq
  resets,       \* resets so far
  exReal        \* not in the code: ID/EX holds an instruction, not a bubble

pipe == <<pc, if_id, instr, id_ex, ex_mem, mem_wb, csr, exReal>>
vars == <<imem, pc, if_id, instr, id_ex, ex_mem, mem_wb, regs, csr, dmem, irq,
          resets, exReal>>

IfId  == [pc : Word, valid : BOOLEAN]
IdEx  == [pc : Word, instr : Instr, rs1 : Word, rs2 : Word, ctl : SUBSET CtlBits]
ExMem == [pc : Word, instr : Instr, alu : Word, rs2 : Word, csr : Word,
          ctl : SUBSET {"reg_we", "mem_we", "mem_re"}]
MemWb == [pc : Word, instr : Instr, alu : Word, csr : Word, mem : Word,
          regWe : BOOLEAN]

-----------------------------------------------------------------------------
(* WB and the register file *)

WbData ==
  LET sel == WbSel(mem_wb.instr)
  IN  CASE sel = "csr" -> mem_wb.csr
        [] sel = "pc4" -> NextPc(mem_wb.pc)
        [] sel = "mem" -> mem_wb.mem
        [] sel = "alu" -> mem_wb.alu

WbWrites(r) == mem_wb.regWe /\ mem_wb.instr.rd = r /\ r # 0

\* The write port is clocked by every edge, also under a stall or a reset.
RegWrite == [r \in Reg |-> IF WbWrites(r) THEN WbData ELSE regs[r]]

\* A read port bypasses the write of the same cycle; x0 reads as zero.
RegRead(r) == IF r = 0 THEN 0 ELSE IF WbWrites(r) THEN WbData ELSE regs[r]

-----------------------------------------------------------------------------
(* ID *)

IdInstr == IF if_id.valid THEN instr ELSE Nop

\* The instruction in ID needs what the load in EX has not read yet.
LoadUse == /\ "mem_re" \in id_ex.ctl
           /\ id_ex.instr.rd # 0
           /\ id_ex.instr.rd \in {IdInstr.rs1, IdInstr.rs2}

Decoded == [pc  |-> if_id.pc, instr |-> IdInstr, ctl |-> Decode(IdInstr),
            rs1 |-> RegRead(IdInstr.rs1), rs2 |-> RegRead(IdInstr.rs2)]

Bubble(p) == [pc |-> p, instr |-> Nop, ctl |-> {}, rs1 |-> 0, rs2 |-> 0]

-----------------------------------------------------------------------------
(* EX *)

\* What the instruction in MEM will write back, unless it is a load.
MemValue == CASE WbSel(ex_mem.instr) = "csr" -> ex_mem.csr
              [] WbSel(ex_mem.instr) = "pc4" -> NextPc(ex_mem.pc)
              [] OTHER                       -> ex_mem.alu

MemWrites(r) == "reg_we" \in ex_mem.ctl /\ ex_mem.instr.rd = r /\ r # 0

\* Variant: WB before MEM.
Forward_OlderFirst(r, read) == IF WbWrites(r) THEN WbData
                               ELSE IF MemWrites(r) THEN MemValue ELSE read

\* Forwarding: the younger of two writers is the one in MEM.
Forward(r, read) == IF MemWrites(r) THEN MemValue
                    ELSE IF WbWrites(r) THEN WbData ELSE read
FwdRs1 == Forward(id_ex.instr.rs1, id_ex.rs1)
FwdRs2 == Forward(id_ex.instr.rs2, id_ex.rs2)

AluResult == Add(AluA(id_ex.instr, id_ex.pc, FwdRs1), AluB(id_ex.instr, FwdRs2))

\* The immediate forms use the field rs1 itself.
CsrWdata == IF id_ex.instr.uimm THEN id_ex.instr.rs1 ELSE FwdRs1
CsrRdata == CsrRead(csr, irq, id_ex.instr.csr)

\* An access of the instruction in MEM is in flight until the bus completes it.
MemBusy == ex_mem.ctl \cap {"mem_re", "mem_we"} # {}

SyncTrap == \/ id_ex.ctl \cap {"illegal", "is_ecall"} # {}
            \/ CsrIllegal(id_ex.instr.csr, id_ex.ctl)

\* Variant: an interrupt lands on an instruction only, and not on a jump.
TakeInterrupt_NotOnJump(stall) ==
  /\ InterruptPending(csr, irq) /\ ~SyncTrap /\ ~stall
  /\ id_ex.instr # Nop /\ "is_jal" \notin id_ex.ctl

TakeInterrupt(stall) == InterruptPending(csr, irq) /\ ~SyncTrap /\ ~stall
Trap(stall) == SyncTrap \/ TakeInterrupt(stall)

TrapCause(stall) ==
  CASE TakeInterrupt(stall)                            -> TimerCause
    [] ~TakeInterrupt(stall) /\ "is_ecall" \in id_ex.ctl -> IF csr.privM THEN EcallMCause
                                                                       ELSE EcallUCause
    [] OTHER                                           -> IllegalCause

PcRedirect(stall) ==
  \/ Trap(stall)
  \/ id_ex.ctl \cap {"is_mret", "is_jal", "is_jalr"} # {}
  \/ "is_branch" \in id_ex.ctl /\ Taken(FwdRs1, FwdRs2)

PcTarget(stall) == IF Trap(stall) THEN csr.mtvec
                   ELSE IF "is_mret" \in id_ex.ctl THEN csr.mepc
                   ELSE IF "is_jalr" \in id_ex.ctl THEN AluResult
                   ELSE Add(id_ex.pc, id_ex.instr.imm)

\* csr.v's own clocked process, outside reset and stall.
CsrNext ==
  IF Trap(FALSE) THEN CsrTrap(csr, id_ex.pc, TrapCause(FALSE))
  ELSE IF "is_mret" \in id_ex.ctl THEN CsrMret(csr)
  ELSE IF "csr_we" \in id_ex.ctl
         THEN CsrWrite(csr, id_ex.instr.csr, CsrNew(id_ex.instr.csrop, CsrRdata, CsrWdata))
  ELSE csr

\* A trapping instruction leaves EX without its side effects.
ExecutedWith(storeData) ==
  [pc  |-> id_ex.pc, instr |-> id_ex.instr, alu |-> AluResult,
   rs2 |-> storeData, csr |-> CsrRdata,
   ctl |-> IF Trap(FALSE) THEN {} ELSE id_ex.ctl \cap {"reg_we", "mem_we", "mem_re"}]

\* Variant: the store data is not forwarded.
Executed_StaleStore == ExecutedWith(id_ex.rs2)

Executed == ExecutedWith(FwdRs2)

-----------------------------------------------------------------------------
(* MEM *)

DIdx(addr) == addr % DmemSize
MemRdata   == dmem[DIdx(ex_mem.alu)]
MemWrite   == IF "mem_we" \in ex_mem.ctl
              THEN [dmem EXCEPT ![DIdx(ex_mem.alu)] = ex_mem.rs2]
              ELSE dmem

Accessed == [pc  |-> ex_mem.pc, instr |-> ex_mem.instr, alu |-> ex_mem.alu,
             csr |-> ex_mem.csr, regWe |-> "reg_we" \in ex_mem.ctl,
             mem |-> IF "mem_re" \in ex_mem.ctl THEN MemRdata ELSE 0]

-----------------------------------------------------------------------------
(* The clock edge *)

\* Every process tests reset, then bus_stall, then the flush of a redirect,
\* then load_use.

\* The instruction memory, written by nothing.
Text == Programs[imem]

\* Variant: the enable of imem is tied high.
Fetch_NoEnable(stall) == instr' = Text[pc]

\* imem has an enable of its own and no reset.
Fetch(stall) == instr' = IF LoadUse \/ stall THEN instr ELSE Text[pc]

\* Reset clears control bits only, and reaches neither the register file nor
\* the memories.  A store in flight is completed or lost.
ResetTo(valid, ctl) ==
  /\ resets < MaxResets
  /\ resets' = resets + 1
  /\ \E stall \in {MemBusy, FALSE} : Fetch(stall)
  /\ pc' = ResetPc
  /\ if_id' = [pc |-> 0, valid |-> valid]
  /\ id_ex' = [id_ex EXCEPT !.ctl = ctl]
  /\ exReal' = FALSE
  /\ ex_mem' = [ex_mem EXCEPT !.ctl = {}]
  /\ mem_wb' = [mem_wb EXCEPT !.regWe = FALSE]
  /\ regs' = RegWrite
  /\ csr' = CsrReset
  /\ dmem' \in {dmem, MemWrite}

\* Variants: one control bit is missing from the reset branch.
Reset_KeepsValid == ResetTo(if_id.valid, {})
Reset_KeepsStore == ResetTo(FALSE, id_ex.ctl \cap {"mem_we"})

Reset == ResetTo(FALSE, {})

\* bus_stall: everything holds but the register file.
Stall ==
  /\ MemBusy
  /\ regs' = RegWrite
  /\ UNCHANGED <<pipe, dmem, resets>>

\* EX, MEM and WB advance together at every other edge.
BackEnd ==
  /\ csr' = CsrNext
  /\ ex_mem' = Executed
  /\ mem_wb' = Accessed
  /\ dmem' = MemWrite
  /\ regs' = RegWrite
  /\ UNCHANGED resets

\* The redirect outranks load_use.
RedirectTo(nextPc, bubblePc) ==
  /\ PcRedirect(FALSE)
  /\ Fetch(FALSE)
  /\ pc' = nextPc
  /\ if_id' = [pc |-> bubblePc, valid |-> FALSE]
  /\ id_ex' = Bubble(PcTarget(FALSE))
  /\ exReal' = FALSE
  /\ BackEnd

\* Variant: IF/ID keeps the PC it had.
Redirect_StalePc == RedirectTo(PcTarget(FALSE), pc)

\* Both bubbles carry the target as their PC.
Redirect == RedirectTo(PcTarget(FALSE), PcTarget(FALSE))

Hold ==
  /\ ~PcRedirect(FALSE) /\ LoadUse
  /\ Fetch(FALSE)
  /\ id_ex' = Bubble(if_id.pc)
  /\ exReal' = FALSE
  /\ UNCHANGED <<pc, if_id>>
  /\ BackEnd

Advance ==
  /\ ~PcRedirect(FALSE) /\ ~LoadUse
  /\ Fetch(FALSE)
  /\ pc' = NextPc(pc)
  /\ if_id' = [pc |-> pc, valid |-> TRUE]
  /\ id_ex' = Decoded
  /\ exReal' = if_id.valid
  /\ BackEnd

\* The inputs: timer_irq is any level, imem is a ROM.
Inputs == irq' \in BOOLEAN /\ UNCHANGED imem

Edge == (Redirect \/ Hold \/ Advance) /\ Inputs
Next == Edge \/ (Stall /\ Inputs) \/ (Reset /\ Inputs)

\* The trace ports: the instruction in WB, and whether the one in EX traps.
TraceWe   == mem_wb.regWe /\ mem_wb.instr.rd # 0
TraceTrap == \E stall \in {MemBusy, FALSE} : Trap(stall)

\* The state a first reset leaves: stages without control bits.
Init ==
  /\ imem \in DOMAIN Programs
  /\ pc = ResetPc
  /\ if_id = [pc |-> 0, valid |-> FALSE]
  /\ instr \in {Nop, Text[ResetPc]}
  /\ id_ex = [pc |-> 0, instr |-> Nop, ctl |-> {}, rs1 |-> 0, rs2 |-> 0]
  /\ exReal = FALSE
  /\ ex_mem = [pc |-> 0, instr |-> Nop, alu |-> 0, rs2 |-> 0, csr |-> 0, ctl |-> {}]
  /\ mem_wb = [pc |-> 0, instr |-> Nop, alu |-> 0, csr |-> 0, mem |-> 0, regWe |-> FALSE]
  /\ regs = [r \in Reg |-> 0]
  /\ csr = CsrReset
  /\ dmem = DmemInit
  /\ irq \in BOOLEAN
  /\ resets = 0

Spec == Init /\ [][Next]_vars

\* The clock runs and the bus completes every access: an edge that is not
\* stalled always comes.
FairSpec == Spec /\ WF_vars(Edge)
=============================================================================
