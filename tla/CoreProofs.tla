----------------------------- MODULE CoreProofs -----------------------------
(***************************************************************************)
(* Proofs about Core, for every word size, register count and program.     *)
(***************************************************************************)
EXTENDS CoreProps, TLAPS

-----------------------------------------------------------------------------
(* The wires carry values of their kind. *)

LEMMA AddType == \A x, y \in Word : Add(x, y) \in Word
  BY WordAssumption DEF Add, Word

LEMMA SmallWords == {0, 1, IllegalCause, EcallUCause, EcallMCause, TimerCause} \subseteq Word
  BY WordAssumption DEF Word, IllegalCause, EcallUCause, EcallMCause, TimerCause

LEMMA RegIsWord == Reg \subseteq Word /\ 0 \in Reg
  BY WordAssumption, RegAssumption DEF Reg, Word

LEMMA NopType == Nop \in Instr
  BY SmallWords, RegIsWord DEF Nop, Instr, Ops, CsrAddrs, CsrOps

LEMMA DecodeType == \A x : Decode(x) \in SUBSET CtlBits
  BY DEF Decode

LEMMA CsrReadType ==
  ASSUME NEW c \in CsrState, NEW q \in BOOLEAN, NEW x \in CsrAddrs
  PROVE  CsrRead(c, q, x) \in Word
<1>1. Bool2Word(c.mie) + 2 * Bool2Word(c.mpie) + 4 * c.mpp \in Word
  BY WordAssumption DEF CsrState, Bool2Word, Word
<1>2. Bool2Word(c.mtie) \in Word /\ Bool2Word(q) \in Word
  BY SmallWords DEF Bool2Word
<1> QED BY <1>1, <1>2, SmallWords DEF CsrRead, CsrState, CsrAddrs

LEMMA CsrNewType ==
  ASSUME NEW x \in CsrOps, NEW v \in Word, NEW w \in Word
  PROVE  CsrNew(x, v, w) \in Word
  BY BitAssumption DEF CsrNew, CsrOps

LEMMA CsrWriteType ==
  ASSUME NEW c \in CsrState, NEW x \in CsrAddrs, NEW v \in Word
  PROVE  CsrWrite(c, x, v) \in CsrState
<1>1. (v \div 4) % 4 \in 0 .. 3
  BY WordAssumption DEF Word
<1> QED BY <1>1 DEF CsrWrite, CsrState, CsrAddrs

LEMMA CsrTrapType ==
  ASSUME NEW c \in CsrState, NEW p \in Word, NEW x \in Word
  PROVE  /\ CsrTrap(c, p, x) \in CsrState
         /\ CsrTrap(c, p, x).mie = FALSE
<1> DEFINE mpp == IF c.privM THEN 3 ELSE 0
<1>1. mpp \in 0 .. 3
  OBVIOUS
<1>2. CsrTrap(c, p, x) = [c EXCEPT !.mepc = p, !.mcause = x, !.mpie = c.mie, !.mie = FALSE,
                                   !.mpp = mpp, !.privM = TRUE]
  BY DEF CsrTrap
<1> HIDE DEF mpp
<1> QED BY <1>1, <1>2 DEF CsrState

LEMMA CsrMretType ==
  ASSUME NEW c \in CsrState
  PROVE  CsrMret(c) \in CsrState
<1>1. ASSUME NEW m \in BOOLEAN
      PROVE  [c EXCEPT !.privM = m, !.mie = c.mpie, !.mpie = TRUE, !.mpp = 0] \in CsrState
  <2>1. 0 \in 0 .. 3 /\ c.mpie \in BOOLEAN
    BY DEF CsrState
  <2> QED BY <2>1 DEF CsrState
<1>2. (c.mpp \in {2, 3}) \in BOOLEAN
  OBVIOUS
<1> QED BY <1>1, <1>2 DEF CsrMret

\* Every wire the clock edge samples, under the type invariant.
LEMMA WbDataType == TypeOK => WbData \in Word
  BY AddType, SmallWords DEF TypeOK, MemWb, WbData, WbSel, NextPc

LEMMA RegWriteType == TypeOK => RegWrite \in [Reg -> Word]
  BY WbDataType DEF TypeOK, RegWrite

LEMMA RegReadType == TypeOK => \A r \in Reg : RegRead(r) \in Word
  BY WbDataType, SmallWords DEF TypeOK, RegRead

LEMMA IdInstrType == TypeOK => IdInstr \in Instr
  BY NopType DEF TypeOK, IdInstr

LEMMA DecodedType == TypeOK => Decoded \in IdEx
<1> SUFFICES ASSUME TypeOK PROVE Decoded \in IdEx
  OBVIOUS
<1>1. IdInstr.rs1 \in Reg /\ IdInstr.rs2 \in Reg
  BY IdInstrType DEF Instr
<1>2. if_id.pc \in Word
  BY DEF TypeOK, IfId
<1> QED BY <1>1, <1>2, IdInstrType, RegReadType, DecodeType DEF Decoded, IdEx

LEMMA BubbleType == \A p \in Word : Bubble(p) \in IdEx
  BY NopType, SmallWords DEF Bubble, IdEx

LEMMA MemValueType == TypeOK => MemValue \in Word
  BY AddType, SmallWords DEF TypeOK, ExMem, MemValue, NextPc

LEMMA FwdType == TypeOK => FwdRs1 \in Word /\ FwdRs2 \in Word
  BY MemValueType, WbDataType DEF TypeOK, IdEx, FwdRs1, FwdRs2, Forward

LEMMA AluType == TypeOK => AluResult \in Word
<1> SUFFICES ASSUME TypeOK PROVE AluResult \in Word
  OBVIOUS
<1>1. id_ex.pc \in Word /\ id_ex.instr.imm \in Word
  BY DEF TypeOK, IdEx, Instr
<1>2. /\ AluA(id_ex.instr, id_ex.pc, FwdRs1) \in Word
      /\ AluB(id_ex.instr, FwdRs2) \in Word
  BY <1>1, FwdType, SmallWords DEF AluA, AluB
<1> QED BY <1>2, AddType DEF AluResult

LEMMA CsrWiresType == TypeOK => CsrRdata \in Word /\ CsrWdata \in Word
<1> SUFFICES ASSUME TypeOK PROVE CsrRdata \in Word /\ CsrWdata \in Word
  OBVIOUS
<1>1. id_ex.instr \in Instr /\ csr \in CsrState /\ irq \in BOOLEAN
  BY DEF TypeOK, IdEx
<1>2. CsrRdata \in Word
  BY <1>1, CsrReadType DEF CsrRdata, Instr
<1>3. CsrWdata \in Word
  BY <1>1, FwdType, RegIsWord DEF CsrWdata, Instr
<1> QED BY <1>2, <1>3

LEMMA TrapCauseType == TrapCause(FALSE) \in Word
  BY SmallWords DEF TrapCause

LEMMA PcTargetType == TypeOK => PcTarget(FALSE) \in Word
<1> SUFFICES ASSUME TypeOK PROVE PcTarget(FALSE) \in Word
  OBVIOUS
<1>1. /\ id_ex.pc \in Word /\ id_ex.instr.imm \in Word
      /\ csr.mtvec \in Word /\ csr.mepc \in Word
  BY DEF TypeOK, IdEx, Instr, CsrState
<1> QED BY <1>1, AddType, AluType DEF PcTarget

LEMMA CsrNextType == TypeOK => CsrNext \in CsrState
<1> SUFFICES ASSUME TypeOK PROVE CsrNext \in CsrState
  OBVIOUS
<1>1. csr \in CsrState /\ id_ex.pc \in Word /\ id_ex.instr.csr \in CsrAddrs
      /\ id_ex.instr.csrop \in CsrOps
  BY DEF TypeOK, IdEx, Instr
<1>2. CsrNew(id_ex.instr.csrop, CsrRdata, CsrWdata) \in Word
  BY <1>1, CsrWiresType, CsrNewType
<1> QED BY <1>1, <1>2, TrapCauseType, CsrTrapType, CsrMretType, CsrWriteType DEF CsrNext

LEMMA ExecutedType == TypeOK => Executed \in ExMem
<1> SUFFICES ASSUME TypeOK PROVE Executed \in ExMem
  OBVIOUS
<1>1. id_ex.pc \in Word /\ id_ex.instr \in Instr
  BY DEF TypeOK, IdEx
<1>2. Executed.ctl \in SUBSET {"reg_we", "mem_we", "mem_re"}
  BY DEF Executed, ExecutedWith
<1> QED BY <1>1, <1>2, AluType, FwdType, CsrWiresType DEF Executed, ExecutedWith, ExMem

LEMMA MemType == TypeOK => MemRdata \in Word /\ MemWrite \in [DAddr -> Word]
<1> SUFFICES ASSUME TypeOK PROVE MemRdata \in Word /\ MemWrite \in [DAddr -> Word]
  OBVIOUS
<1>1. DIdx(ex_mem.alu) \in DAddr /\ ex_mem.rs2 \in Word
  BY WordAssumption, CoreAssumption DEF TypeOK, ExMem, DIdx, DAddr, Word
<1> QED BY <1>1 DEF TypeOK, MemRdata, MemWrite

LEMMA AccessedType == TypeOK => Accessed \in MemWb
  BY MemType, SmallWords DEF TypeOK, ExMem, Accessed, MemWb

-----------------------------------------------------------------------------
(* Type correctness *)

LEMMA CsrResetType == CsrReset \in CsrState
  BY SmallWords DEF CsrReset, CsrState

LEMMA InitType == Init => TypeOK
<1> SUFFICES ASSUME Init PROVE TypeOK
  OBVIOUS
<1>1. Text \in [Word -> Instr]
  BY CoreAssumption DEF Init, Text
<1>2. instr \in Instr
  BY <1>1, NopType, CoreAssumption DEF Init
<1>3. /\ pc \in Word /\ dmem \in [DAddr -> Word] /\ resets \in 0 .. MaxResets
      /\ regs \in [Reg -> Word]
  BY SmallWords, CoreAssumption DEF Init
<1>4. ex_mem \in ExMem /\ mem_wb \in MemWb
  BY NopType, SmallWords DEF Init, ExMem, MemWb
<1>5. if_id \in IfId /\ id_ex \in IdEx
  BY SmallWords, NopType DEF Init, IfId, IdEx
<1> QED
  BY <1>2, <1>3, <1>4, <1>5, CsrResetType DEF Init, TypeOK

LEMMA FetchType == \A s \in BOOLEAN : TypeOK /\ Fetch(s) => instr' \in Instr
  BY CoreAssumption DEF TypeOK, Fetch, Text

LEMMA BackEndType ==
  TypeOK /\ BackEnd => /\ csr' \in CsrState /\ ex_mem' \in ExMem /\ mem_wb' \in MemWb
                       /\ dmem' \in [DAddr -> Word] /\ regs' \in [Reg -> Word]
                       /\ resets' = resets
  BY CsrNextType, ExecutedType, AccessedType, MemType, RegWriteType DEF BackEnd

LEMMA EdgeType == TypeOK /\ Edge => TypeOK'
<1> SUFFICES ASSUME TypeOK, Edge PROVE TypeOK'
  OBVIOUS
<1>1. BackEnd /\ Fetch(FALSE) /\ irq' \in BOOLEAN /\ imem' = imem
  BY DEF Edge, Redirect, RedirectTo, Hold, Advance, Inputs
<1>2. pc' \in Word /\ if_id' \in IfId /\ id_ex' \in IdEx /\ exReal' \in BOOLEAN
  <2>1. pc \in Word /\ if_id \in IfId /\ if_id.pc \in Word /\ if_id.valid \in BOOLEAN
    BY DEF TypeOK, IfId
  <2>2. CASE Redirect
    BY <2>2, PcTargetType, BubbleType DEF Redirect, RedirectTo, IfId
  <2>3. CASE Hold
    BY <2>1, <2>3, BubbleType DEF Hold
  <2>4. CASE Advance
    BY <2>1, <2>4, AddType, SmallWords, DecodedType DEF Advance, IfId, NextPc
  <2> QED BY <2>2, <2>3, <2>4 DEF Edge
<1> QED BY <1>1, <1>2, FetchType, BackEndType DEF TypeOK

LEMMA ResetType == TypeOK /\ Reset /\ Inputs => TypeOK'
<1> SUFFICES ASSUME TypeOK, Reset, Inputs PROVE TypeOK'
  OBVIOUS
<1>1. instr' \in Instr
  BY FetchType DEF Reset, ResetTo, MemBusy
<1>2. id_ex' \in IdEx /\ ex_mem' \in ExMem /\ mem_wb' \in MemWb
  BY DEF Reset, ResetTo, TypeOK, IdEx, ExMem, MemWb
<1>3. /\ csr' \in CsrState /\ if_id' \in IfId
      /\ pc' \in Word /\ exReal' \in BOOLEAN
  BY CsrResetType, SmallWords, CoreAssumption DEF Reset, ResetTo, IfId
<1>4. dmem' \in [DAddr -> Word] /\ regs' \in [Reg -> Word]
  BY MemType, RegWriteType DEF Reset, ResetTo, TypeOK
<1>5. resets' \in 0 .. MaxResets /\ imem' \in DOMAIN Programs /\ irq' \in BOOLEAN
  BY CoreAssumption DEF Reset, ResetTo, Inputs, TypeOK
<1> QED BY <1>1, <1>2, <1>3, <1>4, <1>5 DEF TypeOK

LEMMA StallType == TypeOK /\ Stall /\ Inputs => TypeOK'
  BY RegWriteType DEF TypeOK, Stall, Inputs, pipe

LEMMA NextType == TypeOK /\ [Next]_vars => TypeOK'
<1>1. TypeOK /\ UNCHANGED vars => TypeOK'
  BY DEF TypeOK, vars
<1> QED BY <1>1, EdgeType, ResetType, StallType DEF Next

\* Type correctness: whatever the program, the bus, the timer and the resets do,
\* every register of the pipeline (core.v:149-519) holds a value of its kind.
THEOREM TypeCorrect == Spec => []TypeOK
  BY InitType, NextType, PTL DEF Spec

-----------------------------------------------------------------------------
(* The front end *)

\* Where there is no instruction, no control bit but the write of x0 is set.
BubbleInert == ~exReal => id_ex.ctl \subseteq {"reg_we"}

\* Once interrupts are on, a stage without an instruction carries the PC the next
\* one will have.  (After a reset id_ex_pc and if_id_pc are stale, but MIE is off
\* until an instruction has reached EX, and with it the whole front end.)
BubblePcs == csr.mie => /\ ~exReal      => id_ex.pc = if_id.pc
                        /\ ~if_id.valid => if_id.pc = pc

FrontEndInv == FetchPaired /\ BubbleInert /\ BubblePcs

LEMMA FrontEndImplies == FrontEndInv => InterruptPcPrecise
  BY DEF FrontEndInv, BubblePcs, InterruptPcPrecise, NextToExecute

LEMMA FrontEndInit == Init => FrontEndInv
  BY DEF Init, FrontEndInv, FetchPaired, BubbleInert, BubblePcs, CsrReset

\* The text read at an edge that the load-use hazard does not hold.
LEMMA FetchReads == Fetch(FALSE) => instr' = IF LoadUse THEN instr ELSE Text[pc]
  BY DEF Fetch

\* Without an instruction in EX nothing turns interrupts on.
LEMMA MieNeedsInstruction ==
  TypeOK /\ BubbleInert /\ ~exReal /\ CsrNext.mie => csr.mie
<1> SUFFICES ASSUME TypeOK, BubbleInert, ~exReal, CsrNext.mie PROVE csr.mie
  OBVIOUS
<1>1. ~SyncTrap
  BY DEF BubbleInert, SyncTrap, CsrIllegal
<1>2. CASE TakeInterrupt(FALSE)
  BY <1>2 DEF TakeInterrupt, InterruptPending
<1>3. CASE ~TakeInterrupt(FALSE)
  BY <1>1, <1>3 DEF BubbleInert, CsrNext, Trap
<1> QED BY <1>2, <1>3

LEMMA FetchPairedNext == FetchPaired /\ [Next]_vars => FetchPaired'
<1> SUFFICES ASSUME FetchPaired, [Next]_vars PROVE FetchPaired'
  OBVIOUS
<1>1. CASE Redirect /\ Inputs
  BY <1>1 DEF Redirect, RedirectTo, FetchPaired
<1>2. CASE Hold /\ Inputs
  BY <1>2, FetchReads DEF Hold, Inputs, FetchPaired, Text
<1>3. CASE Advance /\ Inputs
  BY <1>3, FetchReads DEF Advance, Inputs, FetchPaired, Text, Decoded, IdInstr
<1>4. CASE Stall /\ Inputs
  BY <1>4 DEF Stall, pipe, Inputs, FetchPaired, Text
<1>5. CASE Reset /\ Inputs
  BY <1>5 DEF Reset, ResetTo, FetchPaired
<1>6. CASE UNCHANGED vars
  BY <1>6 DEF vars, FetchPaired, Text
<1> QED BY <1>1, <1>2, <1>3, <1>4, <1>5, <1>6 DEF Next, Edge

LEMMA BubbleInertNext == TypeOK /\ BubbleInert /\ [Next]_vars => BubbleInert'
<1> SUFFICES ASSUME TypeOK, BubbleInert, [Next]_vars PROVE BubbleInert'
  OBVIOUS
<1>1. CASE Redirect \/ Hold
  <2>1. \E p : id_ex' = Bubble(p)
    BY <1>1 DEF Redirect, RedirectTo, Hold
  <2>2. \A p : Bubble(p).ctl = {}
    BY DEF Bubble
  <2> QED BY <2>1, <2>2 DEF BubbleInert
<1>2. CASE Advance
  <2>1. Decode(Nop) \subseteq {"reg_we"}
    BY DEF Decode, Asserts, Nop, CtlBits, CsrReads, CsrWrites
  <2> QED BY <1>2, <2>1 DEF Advance, Decoded, IdInstr, BubbleInert
<1>3. CASE Stall
  BY <1>3 DEF Stall, pipe, BubbleInert
<1>4. CASE Reset
  BY <1>4 DEF Reset, ResetTo, BubbleInert, TypeOK, IdEx
<1>5. CASE UNCHANGED vars
  BY <1>5 DEF vars, BubbleInert
<1> QED BY <1>1, <1>2, <1>3, <1>4, <1>5 DEF Next, Edge

LEMMA BubblePcsNext == TypeOK /\ FrontEndInv /\ [Next]_vars => BubblePcs'
<1> SUFFICES ASSUME TypeOK, FrontEndInv, [Next]_vars PROVE BubblePcs'
  OBVIOUS
<1> USE DEF BubblePcs
<1>1. CASE Redirect
  BY <1>1 DEF Redirect, RedirectTo, Bubble
<1>2. CASE Hold \/ Advance
  <2>1. csr' = CsrNext
    BY <1>2 DEF Hold, Advance, BackEnd
  <2>2. csr.mie' => exReal \/ csr.mie
    BY <2>1, MieNeedsInstruction DEF FrontEndInv
  <2>3. csr.mie' => /\ ~exReal      => id_ex.pc = if_id.pc
                    /\ ~if_id.valid => if_id.pc = pc
    BY <2>2 DEF FrontEndInv, FetchPaired
  <2>4. CASE Hold
    BY <2>3, <2>4 DEF Hold, Bubble
  <2>5. CASE Advance
    BY <2>3, <2>5 DEF Advance, Decoded
  <2> QED BY <1>2, <2>4, <2>5
<1>3. CASE Stall
  BY <1>3 DEF Stall, pipe, FrontEndInv
<1>4. CASE Reset
  BY <1>4 DEF Reset, ResetTo, CsrReset
<1>5. CASE UNCHANGED vars
  BY <1>5 DEF vars, FrontEndInv
<1> QED BY <1>1, <1>2, <1>3, <1>4, <1>5 DEF Next, Edge

LEMMA FrontEndHolds == Spec => []FrontEndInv
<1>1. TypeOK /\ FrontEndInv /\ [Next]_vars => FrontEndInv'
  BY FetchPairedNext, BubbleInertNext, BubblePcsNext DEF FrontEndInv
<1> QED BY <1>1, FrontEndInit, TypeCorrect, PTL DEF Spec

\* What IF/ID and ID/EX hold is the program's text at the PC they carry, in
\* program order, across holds, stalls, flushes and resets (core.v:131-198,
\* imem.v:28-30).
THEOREM FrontEndPaired == Spec => []FetchPaired
<1>1. FrontEndInv => FetchPaired
  BY DEF FrontEndInv
<1> QED BY <1>1, FrontEndHolds, PTL

\* The PC an interrupt saves in mepc is that of the next instruction to execute,
\* whatever bubbles it finds in the pipeline (core.v:164-174, 265-277, 400-414).
THEOREM InterruptsArePrecise == Spec => []InterruptPcPrecise
  BY FrontEndHolds, FrontEndImplies, PTL
-----------------------------------------------------------------------------
(* The operands *)

\* What an instruction entering EX reads of a register, with what the next cycle
\* forwards, is what the program has given it: a load of it would have been held
\* back in ID.
LEMMA ReadIsCurrent ==
  ASSUME TypeOK, Advance, NEW r \in {IdInstr.rs1, IdInstr.rs2}
  PROVE  (IF MemWrites(r)' THEN MemValue'
          ELSE IF WbWrites(r)' THEN WbData' ELSE RegRead(r)) = ArchRegs'[r]
<1>1. r \in Reg
  <2>1. IdInstr \in Instr
    BY NopType DEF TypeOK, IdInstr
  <2> QED BY <2>1 DEF Instr
<1>2. ArchRegs'[r] = IF ~MemWrites(r)' THEN RegRead(r)'
                     ELSE IF "mem_re" \in ex_mem'.ctl THEN MemRdata' ELSE MemValue'
  BY <1>1 DEF ArchRegs
<1>3. CASE MemWrites(r)'
  <2>1. ex_mem'.instr = id_ex.instr /\ ex_mem'.ctl \subseteq id_ex.ctl
    BY DEF Advance, BackEnd, Executed, ExecutedWith
  <2>2. id_ex.instr.rd = r /\ r # 0
    BY <1>3, <2>1 DEF MemWrites
  <2>3. "mem_re" \notin ex_mem'.ctl
    BY <2>1, <2>2 DEF Advance, LoadUse
  <2> QED BY <1>2, <1>3, <2>3
<1>4. CASE ~MemWrites(r)'
  <2>1. regs'[r] = IF WbWrites(r) THEN WbData ELSE regs[r]
    BY <1>1 DEF Advance, BackEnd, RegWrite
  <2>2. RegRead(r)' = IF r = 0 THEN 0 ELSE IF WbWrites(r)' THEN WbData' ELSE regs'[r]
    BY DEF RegRead
  <2>3. RegRead(r)' = IF WbWrites(r)' THEN WbData' ELSE RegRead(r)
    BY <2>1, <2>2 DEF RegRead, WbWrites
  <2> QED BY <1>2, <1>4, <2>3
<1> QED BY <1>3, <1>4

\* A stalled edge moves what WB holds into the register file, where the same
\* read finds it.
LEMMA StallKeepsRegisters == TypeOK /\ Stall => ArchRegs' = ArchRegs
<1> SUFFICES ASSUME TypeOK, Stall PROVE ArchRegs' = ArchRegs
  OBVIOUS
<1>1. /\ UNCHANGED <<ex_mem, mem_wb, dmem>>
      /\ regs' = RegWrite
  BY DEF Stall, pipe
<1>2. \A r \in Reg : RegRead(r)' = RegRead(r)
  <2> TAKE r \in Reg
  <2>1. WbData' = WbData /\ WbWrites(r)' = WbWrites(r)
    BY <1>1 DEF WbWrites, WbData
  <2>2. regs'[r] = IF WbWrites(r) THEN WbData ELSE regs[r]
    BY <1>1 DEF RegWrite
  <2> QED BY <2>1, <2>2 DEF RegRead
<1> QED BY <1>1, <1>2 DEF ArchRegs, MemWrites, MemRdata, MemValue

LEMMA OperandsNext == TypeOK /\ OperandsCurrent /\ [Next]_vars => OperandsCurrent'
<1> SUFFICES ASSUME TypeOK, OperandsCurrent, [Next]_vars PROVE OperandsCurrent'
  OBVIOUS
<1>1. CASE Redirect \/ Hold \/ Reset
  BY <1>1 DEF Redirect, RedirectTo, Hold, Reset, ResetTo, OperandsCurrent
<1>2. CASE Advance
  <2>1. /\ id_ex'.instr = IdInstr
        /\ id_ex'.rs1 = RegRead(IdInstr.rs1)
        /\ id_ex'.rs2 = RegRead(IdInstr.rs2)
    BY <1>2 DEF Advance, Decoded
  <2>2. FwdRs1' = ArchRegs'[id_ex'.instr.rs1]
    BY <1>2, <2>1, ReadIsCurrent DEF FwdRs1, Forward
  <2>3. FwdRs2' = ArchRegs'[id_ex'.instr.rs2]
    BY <1>2, <2>1, ReadIsCurrent DEF FwdRs2, Forward
  <2> QED BY <2>2, <2>3 DEF OperandsCurrent
<1>3. CASE Stall \/ UNCHANGED vars
  <2>1. UNCHANGED <<id_ex, ex_mem, mem_wb, exReal>>
    BY <1>3 DEF Stall, pipe, vars
  <2>2. MemValue' = MemValue /\ WbData' = WbData
    BY <2>1 DEF MemValue, WbData
  <2>3. FwdRs1' = FwdRs1 /\ FwdRs2' = FwdRs2
    BY <2>1, <2>2 DEF FwdRs1, FwdRs2, Forward, MemWrites, WbWrites
  <2>4. CASE Stall
    BY <2>1, <2>3, <2>4, StallKeepsRegisters DEF OperandsCurrent
  <2>5. CASE UNCHANGED vars
    <3>1. ArchRegs' = ArchRegs
      BY <2>1, <2>2, <2>5 DEF vars, ArchRegs, RegRead, WbWrites, MemWrites, MemRdata
    <3> QED BY <2>1, <2>3, <3>1 DEF OperandsCurrent
  <2> QED BY <1>3, <2>4, <2>5
<1> QED BY <1>1, <1>2, <1>3 DEF Next, Edge

\* Forwarding, the bypass of the register file and the load-use hold together
\* give every instruction in EX the operands the program order requires
\* (core.v:127-129, 343-365; regfile.v:43-50).
THEOREM OperandsAreCurrent == Spec => []OperandsCurrent
<1>1. Init => OperandsCurrent
  BY DEF Init, OperandsCurrent
<1> QED BY <1>1, OperandsNext, TypeCorrect, PTL DEF Spec

-----------------------------------------------------------------------------
(* The pipeline implements the machine that executes one instruction at a  *)
(* time, for every program, word size and number of resets.                *)

\* The control bits in ID/EX are those of its instruction, or none; where there
\* is no instruction, nothing but x0 is written.
CtlPaired == /\ id_ex.ctl \in {{}, Decode(id_ex.instr)}
             /\ exReal => id_ex.ctl = Decode(id_ex.instr)
             /\ ~exReal /\ "reg_we" \in id_ex.ctl => id_ex.instr.rd = 0

\* What is left of them in EX/MEM agrees with the instruction there: what WB
\* will select comes from memory just when memory was read, and a store writes
\* no register.
MemCtlPaired ==
  /\ "reg_we" \in ex_mem.ctl => ("mem_re" \in ex_mem.ctl <=> ex_mem.instr.op = "load")
  /\ "mem_we" \in ex_mem.ctl => "reg_we" \notin ex_mem.ctl

RInv == TypeOK /\ FrontEndInv /\ OperandsCurrent /\ CtlPaired /\ MemCtlPaired

-----------------------------------------------------------------------------
(* The control bits stay paired. *)

LEMMA DecodeNop == Decode(Nop) = {"reg_we"}
  BY DEF Decode, Asserts, Nop, CtlBits, CsrReads, CsrWrites

\* The bits that EX passes on.
LEMMA DecodeMem ==
  ASSUME NEW i
  PROVE  /\ "reg_we" \in Decode(i) <=> i.op \in {"lui", "auipc", "jal", "jalr", "load",
                                                 "opimm", "op", "csr"}
         /\ "mem_we" \in Decode(i) <=> i.op = "store"
         /\ "mem_re" \in Decode(i) <=> i.op = "load"
  BY DEF Decode, Asserts, CtlBits

LEMMA CtlPairedInit == Init => CtlPaired /\ MemCtlPaired
  BY DEF Init, CtlPaired, MemCtlPaired

LEMMA ExecutedCtl ==
  ASSUME TypeOK, CtlPaired
  PROVE  /\ "reg_we" \in Executed.ctl => ("mem_re" \in Executed.ctl <=> Executed.instr.op = "load")
         /\ "mem_we" \in Executed.ctl => "reg_we" \notin Executed.ctl
<1>1. /\ Executed.instr = id_ex.instr
      /\ Executed.ctl = IF Trap(FALSE) THEN {}
                        ELSE id_ex.ctl \cap {"reg_we", "mem_we", "mem_re"}
  BY DEF Executed, ExecutedWith
<1> QED BY <1>1, DecodeMem DEF CtlPaired

LEMMA CtlPairedNext ==
  TypeOK /\ CtlPaired /\ MemCtlPaired /\ [Next]_vars => CtlPaired' /\ MemCtlPaired'
<1> SUFFICES ASSUME TypeOK, CtlPaired, MemCtlPaired, [Next]_vars
             PROVE  CtlPaired' /\ MemCtlPaired'
  OBVIOUS
<1>1. CASE Redirect \/ Hold \/ Advance
  <2>1. ex_mem' = Executed
    BY <1>1 DEF Redirect, RedirectTo, Hold, Advance, BackEnd
  <2>2. MemCtlPaired'
    BY <2>1, ExecutedCtl DEF MemCtlPaired
  <2>3. CASE Redirect \/ Hold
    <3>1. (\E p : id_ex' = Bubble(p)) /\ exReal' = FALSE
      BY <2>3 DEF Redirect, RedirectTo, Hold
    <3>2. id_ex'.ctl = {}
      BY <3>1 DEF Bubble
    <3> QED BY <2>2, <3>1, <3>2 DEF CtlPaired
  <2>4. CASE Advance
    <3>1. /\ id_ex'.instr = IdInstr /\ id_ex'.ctl = Decode(IdInstr)
          /\ exReal' = if_id.valid
      BY <2>4 DEF Advance, Decoded
    <3>2. ~if_id.valid => IdInstr.rd = 0
      BY DEF IdInstr, Nop
    <3> QED BY <2>2, <3>1, <3>2 DEF CtlPaired
  <2> QED BY <1>1, <2>3, <2>4
<1>2. CASE Stall
  BY <1>2 DEF Stall, pipe, CtlPaired, MemCtlPaired
<1>3. CASE Reset
  <2>1. id_ex'.ctl = {} /\ exReal' = FALSE /\ ex_mem'.ctl = {}
    BY <1>3 DEF Reset, ResetTo, TypeOK, IdEx, ExMem
  <2> QED BY <2>1 DEF CtlPaired, MemCtlPaired
<1>4. CASE UNCHANGED vars
  BY <1>4 DEF vars, CtlPaired, MemCtlPaired
<1> QED BY <1>1, <1>2, <1>3, <1>4 DEF Next, Edge

LEMMA RInvHolds == Spec => []RInv
<1>1. Spec => [](CtlPaired /\ MemCtlPaired)
  BY CtlPairedInit, CtlPairedNext, TypeCorrect, PTL DEF Spec
<1> QED BY <1>1, TypeCorrect, FrontEndHolds, OperandsAreCurrent, PTL DEF RInv

-----------------------------------------------------------------------------
(* The instance's operators are those of Core. *)

LEMMA SameWords ==
  /\ A!Word = Word /\ A!Reg = Reg /\ A!DAddr = DAddr /\ A!CsrReset = CsrReset
  /\ A!IllegalCause = IllegalCause /\ A!EcallUCause = EcallUCause
  /\ A!EcallMCause = EcallMCause /\ A!TimerCause = TimerCause
  BY DEF A!Word, Word, A!Reg, Reg, A!DAddr, DAddr, A!CsrReset, CsrReset, A!IllegalCause,
         IllegalCause, A!EcallUCause, EcallUCause, A!EcallMCause, EcallMCause,
         A!TimerCause, TimerCause

LEMMA SameArith ==
  ASSUME NEW x, NEW y, NEW z
  PROVE  /\ A!Add(x, y) = Add(x, y) /\ A!NextPc(x) = NextPc(x) /\ A!DIdx(x) = DIdx(x)
         /\ A!Taken(x, y) = Taken(x, y)
         /\ A!AluA(x, y, z) = AluA(x, y, z) /\ A!AluB(x, y) = AluB(x, y)
  BY DEF A!Add, Add, A!NextPc, NextPc, A!DIdx, DIdx, A!Taken, Taken, A!AluA, AluA, A!AluB, AluB

LEMMA SameCsr ==
  ASSUME NEW c, NEW q, NEW x, NEW v, NEW w
  PROVE  /\ A!InterruptPending(c, q) = InterruptPending(c, q)
         /\ A!CsrRead(c, q, x) = CsrRead(c, q, x)
         /\ A!CsrNew(x, v, w) = CsrNew(x, v, w)
         /\ A!CsrWrite(c, x, v) = CsrWrite(c, x, v)
         /\ A!CsrTrap(c, v, w) = CsrTrap(c, v, w)
         /\ A!CsrMret(c) = CsrMret(c)
         /\ A!CsrReads(x) = CsrReads(x) /\ A!CsrWrites(x) = CsrWrites(x)
<1>1. A!InterruptPending(c, q) = InterruptPending(c, q)
  BY DEF A!InterruptPending, InterruptPending
<1>2. A!CsrRead(c, q, x) = CsrRead(c, q, x)
  BY DEF A!CsrRead, CsrRead, A!Bool2Word, Bool2Word
<1>3. A!CsrNew(x, v, w) = CsrNew(x, v, w)
  BY DEF A!CsrNew, CsrNew
<1>4. A!CsrWrite(c, x, v) = CsrWrite(c, x, v)
  BY DEF A!CsrWrite, CsrWrite
<1>5. A!CsrTrap(c, v, w) = CsrTrap(c, v, w)
  BY DEF A!CsrTrap, CsrTrap
<1>6. A!CsrMret(c) = CsrMret(c)
  BY DEF A!CsrMret, CsrMret
<1>7. A!CsrReads(x) = CsrReads(x) /\ A!CsrWrites(x) = CsrWrites(x)
  BY DEF A!CsrReads, CsrReads, A!CsrWrites, CsrWrites
<1> QED BY <1>1, <1>2, <1>3, <1>4, <1>5, <1>6, <1>7

-----------------------------------------------------------------------------
(* What an edge that is not stalled does to the architectural state *)

Moves == Redirect \/ Hold \/ Advance

LEMMA MovesBackEnd == Moves => BackEnd
  BY DEF Moves, Redirect, RedirectTo, Hold, Advance

\* When it leaves MEM an instruction writes what MEM promised: WB, the write port
\* and the bypass give the registers the program already had.
LEMMA MemDrains ==
  ASSUME TypeOK, MemCtlPaired, BackEnd, NEW r \in Reg
  PROVE  RegRead(r)' = ArchRegs[r]
<1>1. ArchRegs[r] = IF ~MemWrites(r) THEN RegRead(r)
                    ELSE IF "mem_re" \in ex_mem.ctl THEN MemRdata ELSE MemValue
  BY DEF ArchRegs
<1>2. regs'[r] = IF WbWrites(r) THEN WbData ELSE regs[r]
  BY DEF BackEnd, RegWrite
<1>3. mem_wb' = Accessed
  BY DEF BackEnd
<1>4. WbWrites(r)' <=> MemWrites(r)
  BY <1>3 DEF WbWrites, MemWrites, Accessed
<1>5. RegRead(r)' = IF r = 0 THEN 0 ELSE IF MemWrites(r) THEN WbData' ELSE regs'[r]
  BY <1>4 DEF RegRead
<1>6. CASE MemWrites(r)
  <2>1. "mem_re" \in ex_mem.ctl <=> WbSel(ex_mem.instr) = "mem"
    BY <1>6 DEF MemWrites, MemCtlPaired, WbSel
  <2>2. WbSel(ex_mem.instr) \in {"mem", "pc4", "csr", "alu"}
    BY DEF WbSel
  <2>3. /\ mem_wb'.instr = ex_mem.instr /\ mem_wb'.pc = ex_mem.pc
        /\ mem_wb'.alu = ex_mem.alu /\ mem_wb'.csr = ex_mem.csr
        /\ mem_wb'.mem = IF "mem_re" \in ex_mem.ctl THEN MemRdata ELSE 0
    BY <1>3 DEF Accessed
  <2>4. WbData' = IF "mem_re" \in ex_mem.ctl THEN MemRdata ELSE MemValue
    BY <2>1, <2>2, <2>3 DEF WbData, MemValue
  <2>5. r # 0
    BY <1>6 DEF MemWrites
  <2> QED BY <1>1, <1>5, <1>6, <2>4, <2>5
<1>7. CASE ~MemWrites(r)
  BY <1>1, <1>2, <1>5, <1>7 DEF RegRead, WbWrites
<1> QED BY <1>6, <1>7

\* What the instruction in EX writes to rd, from memory if it is a load.
RdValue == CASE WbSel(id_ex.instr) = "mem" -> MemWrite[DIdx(AluResult)]
             [] WbSel(id_ex.instr) = "csr" -> CsrRdata
             [] WbSel(id_ex.instr) = "pc4" -> NextPc(id_ex.pc)
             [] WbSel(id_ex.instr) = "alu" -> AluResult

WritesRd == ~Trap(FALSE) /\ "reg_we" \in id_ex.ctl /\ id_ex.instr.rd # 0
Stores   == ~Trap(FALSE) /\ "mem_we" \in id_ex.ctl

LEMMA RegsAfter ==
  ASSUME TypeOK, CtlPaired, MemCtlPaired, BackEnd
  PROVE  ArchRegs' = IF WritesRd THEN [ArchRegs EXCEPT ![id_ex.instr.rd] = RdValue]
                                 ELSE ArchRegs
<1>1. /\ ex_mem'.instr = id_ex.instr /\ ex_mem'.pc = id_ex.pc
      /\ ex_mem'.alu = AluResult /\ ex_mem'.csr = CsrRdata
      /\ ex_mem'.ctl = IF Trap(FALSE) THEN {}
                       ELSE id_ex.ctl \cap {"reg_we", "mem_we", "mem_re"}
  BY DEF BackEnd, Executed, ExecutedWith
<1>2. MemRdata' = MemWrite[DIdx(AluResult)]
  BY <1>1 DEF BackEnd, MemRdata, DIdx
<1>3. \A r : MemWrites(r)' <=> WritesRd /\ id_ex.instr.rd = r
  BY <1>1 DEF MemWrites, WritesRd
<1>4. ASSUME WritesRd
      PROVE  (IF "mem_re" \in ex_mem'.ctl THEN MemRdata' ELSE MemValue') = RdValue
  <2>1. "mem_re" \in ex_mem'.ctl <=> WbSel(id_ex.instr) = "mem"
    BY <1>1, <1>4, DecodeMem DEF WritesRd, CtlPaired, WbSel
  <2>2. WbSel(id_ex.instr) \in {"mem", "pc4", "csr", "alu"}
    BY DEF WbSel
  <2> QED BY <1>1, <1>2, <2>1, <2>2 DEF MemValue, RdValue
<1>5. \A r \in Reg : ArchRegs'[r] = IF WritesRd /\ id_ex.instr.rd = r THEN RdValue
                                                                    ELSE ArchRegs[r]
  <2> TAKE r \in Reg
  <2>1. ArchRegs'[r] = IF ~MemWrites(r)' THEN RegRead(r)'
                       ELSE IF "mem_re" \in ex_mem'.ctl THEN MemRdata' ELSE MemValue'
    BY DEF ArchRegs
  <2> QED BY <1>3, <1>4, <2>1, MemDrains
<1>6. ArchRegs = [r \in Reg |-> ArchRegs[r]] /\ ArchRegs' = [r \in Reg |-> ArchRegs'[r]]
  BY DEF ArchRegs
<1> QED BY <1>5, <1>6

LEMMA MemAfter ==
  ASSUME TypeOK, BackEnd
  PROVE  MemWrite' = IF Stores THEN [MemWrite EXCEPT ![DIdx(AluResult)] = FwdRs2]
                               ELSE MemWrite
<1>1. /\ ex_mem'.alu = AluResult /\ ex_mem'.rs2 = FwdRs2
      /\ ex_mem'.ctl = IF Trap(FALSE) THEN {}
                       ELSE id_ex.ctl \cap {"reg_we", "mem_we", "mem_re"}
      /\ dmem' = MemWrite
  BY DEF BackEnd, Executed, ExecutedWith
<1> QED BY <1>1 DEF MemWrite, Stores, DIdx

\* The next instruction to execute is the target of a redirect, or the one after
\* the instruction in EX; a bubble leaves it as it was.
LEMMA PcAfter ==
  ASSUME TypeOK, FrontEndInv, Moves
  PROVE  NextToExecute' = IF PcRedirect(FALSE) THEN PcTarget(FALSE)
                          ELSE IF exReal THEN NextPc(NextToExecute) ELSE NextToExecute
<1>1. CASE Redirect
  BY <1>1 DEF Redirect, RedirectTo, NextToExecute
<1>2. CASE Hold \/ Advance
  <2>1. NextToExecute' = IF if_id.valid THEN if_id.pc ELSE pc
    <3>1. CASE Hold
      BY <3>1 DEF Hold, NextToExecute
    <3>2. CASE Advance
      BY <3>2 DEF Advance, NextToExecute, Decoded
    <3> QED BY <1>2, <3>1, <3>2
  <2>2. ~PcRedirect(FALSE)
    BY <1>2 DEF Hold, Advance
  <2> QED BY <2>1, <2>2 DEF NextToExecute, FrontEndInv, FetchPaired
<1> QED BY <1>1, <1>2 DEF Moves

-----------------------------------------------------------------------------
(* The wires of EX, as the instruction set sees them *)

\* The instruction in EX is the one the program comes to, with its operands.
LEMMA ExIsNext ==
  ASSUME RInv, exReal
  PROVE  /\ A!ins = id_ex.instr /\ NextToExecute = id_ex.pc
         /\ id_ex.ctl = Decode(id_ex.instr)
         /\ A!rs1v = FwdRs1 /\ A!rs2v = FwdRs2
<1>1. NextToExecute = id_ex.pc /\ id_ex.instr = Text[id_ex.pc]
  BY DEF RInv, FrontEndInv, FetchPaired, NextToExecute
<1>2. A!ins = id_ex.instr
  BY <1>1 DEF A!ins, Text
<1> QED BY <1>1, <1>2 DEF RInv, CtlPaired, OperandsCurrent, A!rs1v, A!rs2v

LEMMA DecodeTraps ==
  ASSUME NEW i
  PROVE  /\ "illegal" \in Decode(i) <=> i.op = "illegal" \/ (i.op = "csr" /\ i.csrop = "none")
         /\ "is_ecall" \in Decode(i) <=> i.op = "ecall"
         /\ "csr_re" \in Decode(i) <=> CsrReads(i)
         /\ "csr_we" \in Decode(i) <=> CsrWrites(i)
  BY DEF Decode, Asserts, CtlBits

LEMMA DecodeJumps ==
  ASSUME NEW i
  PROVE  /\ "is_branch" \in Decode(i) <=> i.op = "branch"
         /\ "is_jal" \in Decode(i) <=> i.op = "jal"
         /\ "is_jalr" \in Decode(i) <=> i.op = "jalr"
         /\ "is_mret" \in Decode(i) <=> i.op = "mret"
  BY DEF Decode, Asserts, CtlBits

LEMMA SyncTrapIsFault ==
  ASSUME RInv, exReal
  PROVE  SyncTrap <=> A!Faults
<1>1. A!Faults <=> \/ id_ex.instr.op \in {"illegal", "ecall"}
                   \/ /\ id_ex.instr.op = "csr"
                      /\ \/ id_ex.instr.csrop = "none"
                         \/ /\ id_ex.instr.csr = "unknown"
                            /\ CsrReads(id_ex.instr) \/ CsrWrites(id_ex.instr)
  BY ExIsNext, SameCsr DEF A!Faults, A!BadCsr
<1>2. SyncTrap <=> \/ "illegal" \in Decode(id_ex.instr) \/ "is_ecall" \in Decode(id_ex.instr)
                   \/ /\ id_ex.instr.csr = "unknown"
                      /\ "csr_re" \in Decode(id_ex.instr) \/ "csr_we" \in Decode(id_ex.instr)
  BY ExIsNext DEF SyncTrap, CsrIllegal
<1>3. CsrReads(id_ex.instr) \/ CsrWrites(id_ex.instr) => id_ex.instr.op = "csr"
  BY DEF CsrReads, CsrWrites
<1> QED BY <1>1, <1>2, <1>3, DecodeTraps

-----------------------------------------------------------------------------
(* Traps *)

\* A trap drops the effects of the instruction in EX.
LEMMA TrapDrops ==
  ASSUME RInv, Moves, Trap(FALSE)
  PROVE  /\ ArchRegs' = ArchRegs /\ MemWrite' = MemWrite
         /\ NextToExecute' = csr.mtvec
         /\ csr' = CsrTrap(csr, id_ex.pc, TrapCause(FALSE))
<1>1. BackEnd /\ ~WritesRd /\ ~Stores
  BY MovesBackEnd DEF WritesRd, Stores
<1>2. ArchRegs' = ArchRegs /\ MemWrite' = MemWrite
  BY <1>1, RegsAfter, MemAfter DEF RInv
<1>3. PcRedirect(FALSE) /\ PcTarget(FALSE) = csr.mtvec
  BY DEF PcRedirect, PcTarget
<1>4. csr' = CsrTrap(csr, id_ex.pc, TrapCause(FALSE))
  BY <1>1 DEF BackEnd, CsrNext
<1> QED BY <1>2, <1>3, <1>4, PcAfter DEF RInv

LEMMA InterruptStep ==
  ASSUME RInv, Moves, TakeInterrupt(FALSE)
  PROVE  A!Interrupt
<1>1. InterruptPending(csr, irq) /\ csr.mie /\ Trap(FALSE)
  BY DEF TakeInterrupt, InterruptPending, Trap
<1>2. NextToExecute = id_ex.pc
  BY <1>1, FrontEndImplies DEF RInv, InterruptPcPrecise
<1>3. TrapCause(FALSE) = TimerCause
  BY DEF TrapCause
<1> QED BY <1>1, <1>2, <1>3, TrapDrops, SameCsr, SameWords DEF A!Interrupt, A!GoTo

LEMMA FaultStep ==
  ASSUME RInv, Moves, SyncTrap, exReal
  PROVE  A!Fault
<1>1. Trap(FALSE) /\ ~TakeInterrupt(FALSE)
  BY DEF Trap, TakeInterrupt
<1>2. TrapCause(FALSE) = A!FaultCause
  BY <1>1, ExIsNext, DecodeTraps, SameWords DEF TrapCause, A!FaultCause
<1>3. csr' = A!CsrTrap(csr, NextToExecute, A!FaultCause)
  BY <1>1, <1>2, ExIsNext, TrapDrops, SameCsr
<1> QED BY <1>1, <1>3, TrapDrops, SyncTrapIsFault DEF A!Fault, A!GoTo

\* A bubble does nothing, except that an interrupt may land on it.
LEMMA BubbleStep ==
  ASSUME RInv, Moves, ~exReal, ~TakeInterrupt(FALSE)
  PROVE  A!Wait
<1>1. id_ex.ctl \subseteq {"reg_we"}
  BY DEF RInv, FrontEndInv, BubbleInert
<1>2. ~SyncTrap /\ ~Trap(FALSE)
  BY <1>1 DEF SyncTrap, CsrIllegal, Trap
<1>3. BackEnd /\ ~WritesRd /\ ~Stores
  BY <1>1, MovesBackEnd DEF WritesRd, Stores, RInv, CtlPaired
<1>4. ArchRegs' = ArchRegs /\ MemWrite' = MemWrite
  BY <1>3, RegsAfter, MemAfter DEF RInv
<1>5. csr' = csr
  BY <1>1, <1>2, <1>3 DEF BackEnd, CsrNext
<1>6. ~PcRedirect(FALSE)
  BY <1>1, <1>2 DEF PcRedirect
<1> QED BY <1>4, <1>5, <1>6, PcAfter DEF RInv, A!Wait

-----------------------------------------------------------------------------
(* Instructions *)

\* Without a trap, an instruction leaves EX with all its effects.
Completes == Moves /\ exReal /\ ~Trap(FALSE)

LEMMA CompletesExecutes ==
  ASSUME RInv, Completes, NEW ops, id_ex.instr.op \in ops
  PROVE  A!Executes(ops)
<1>1. ~SyncTrap /\ ~InterruptPending(csr, irq)
  BY DEF Completes, Trap, TakeInterrupt
<1> QED BY <1>1, ExIsNext, SyncTrapIsFault, SameCsr DEF Completes, A!Executes

LEMMA CompletesRegs ==
  ASSUME RInv, Completes
  PROVE  IF "reg_we" \in Decode(id_ex.instr) THEN A!SetReg(RdValue) ELSE ArchRegs' = ArchRegs
<1>1. BackEnd
  BY MovesBackEnd DEF Completes
<1>2. ArchRegs' = IF WritesRd THEN [ArchRegs EXCEPT ![id_ex.instr.rd] = RdValue] ELSE ArchRegs
  BY <1>1, RegsAfter DEF RInv
<1>3. WritesRd <=> "reg_we" \in Decode(id_ex.instr) /\ id_ex.instr.rd # 0
  BY ExIsNext DEF Completes, WritesRd
<1>4. A!ins = id_ex.instr
  BY ExIsNext DEF Completes
<1> QED BY <1>2, <1>3, <1>4 DEF A!SetReg

LEMMA CompletesMem ==
  ASSUME RInv, Completes
  PROVE  MemWrite' = IF id_ex.instr.op = "store"
                     THEN [MemWrite EXCEPT ![DIdx(AluResult)] = FwdRs2] ELSE MemWrite
<1>1. MemWrite' = IF Stores THEN [MemWrite EXCEPT ![DIdx(AluResult)] = FwdRs2] ELSE MemWrite
  BY MovesBackEnd, MemAfter DEF RInv, Completes
<1>2. Stores <=> id_ex.instr.op = "store"
  BY ExIsNext, DecodeMem DEF Completes, Stores
<1> QED BY <1>1, <1>2

LEMMA CompletesPc ==
  ASSUME RInv, Completes
  PROVE  NextToExecute' =
           CASE id_ex.instr.op = "mret" -> csr.mepc
             [] id_ex.instr.op = "jalr" -> AluResult
             [] \/ id_ex.instr.op = "jal"
                \/ id_ex.instr.op = "branch" /\ Taken(FwdRs1, FwdRs2)
                  -> Add(id_ex.pc, id_ex.instr.imm)
             [] OTHER -> NextPc(id_ex.pc)
<1>1. id_ex.ctl = Decode(id_ex.instr) /\ NextToExecute = id_ex.pc /\ ~Trap(FALSE)
  BY ExIsNext DEF Completes
<1>2. PcRedirect(FALSE) <=> \/ id_ex.instr.op \in {"mret", "jal", "jalr"}
                            \/ id_ex.instr.op = "branch" /\ Taken(FwdRs1, FwdRs2)
  BY <1>1, DecodeJumps DEF PcRedirect
<1>3. PcTarget(FALSE) = IF id_ex.instr.op = "mret" THEN csr.mepc
                        ELSE IF id_ex.instr.op = "jalr" THEN AluResult
                        ELSE Add(id_ex.pc, id_ex.instr.imm)
  BY <1>1, DecodeJumps DEF PcTarget
<1>4. NextToExecute' = IF PcRedirect(FALSE) THEN PcTarget(FALSE) ELSE NextPc(id_ex.pc)
  BY <1>1, PcAfter DEF RInv, Completes
<1> QED BY <1>2, <1>3, <1>4

LEMMA CompletesCsr ==
  ASSUME RInv, Completes
  PROVE  csr' = IF id_ex.instr.op = "mret" THEN CsrMret(csr)
                ELSE IF CsrWrites(id_ex.instr)
                THEN CsrWrite(csr, id_ex.instr.csr, CsrNew(id_ex.instr.csrop, CsrRdata, CsrWdata))
                ELSE csr
<1>1. id_ex.ctl = Decode(id_ex.instr) /\ ~Trap(FALSE) /\ csr' = CsrNext
  BY ExIsNext, MovesBackEnd DEF Completes, BackEnd
<1> QED BY <1>1, DecodeJumps, DecodeTraps DEF CsrNext

\* One action of the instruction set for each kind of instruction.
LEMMA ExecuteStep ==
  ASSUME RInv, Completes
  PROVE  A!Execute
<1> DEFINE i == id_ex.instr
           op == id_ex.instr.op
<1>1. /\ A!ins = i /\ NextToExecute = id_ex.pc /\ A!rs1v = FwdRs1 /\ A!rs2v = FwdRs2
  BY ExIsNext DEF Completes
<1>2. ~SyncTrap /\ op \in Ops \ {"illegal", "ecall"}
  <2>1. op \in Ops
    BY DEF RInv, TypeOK, IdEx, Instr
  <2>2. ~SyncTrap
    BY DEF Completes, Trap
  <2> QED BY <2>1, <2>2, <1>1, SyncTrapIsFault DEF Completes, A!Faults
<1>3. CsrWrites(i) => op = "csr"
  BY DEF CsrWrites
<1>4. CASE op \in {"lui", "auipc", "opimm", "op"}
  <2>1. RdValue = A!Add(A!AluA(A!ins, NextToExecute, A!rs1v), A!AluB(A!ins, A!rs2v))
    <3>1. RdValue = AluResult
      BY <1>4 DEF RdValue, WbSel
    <3> QED BY <1>1, <3>1, SameArith DEF AluResult
  <2>2. A!SetReg(RdValue)
    BY <1>4, CompletesRegs, DecodeMem
  <2>3. A!GoTo(A!NextPc(NextToExecute))
    BY <1>1, <1>4, CompletesPc, SameArith DEF A!GoTo
  <2>4. A!Executes({"lui", "auipc", "opimm", "op"})
    BY <1>4, CompletesExecutes
  <2>5. MemWrite' = MemWrite /\ csr' = csr
    BY <1>3, <1>4, CompletesMem, CompletesCsr
  <2>6. A!Compute
    BY <2>1, <2>2, <2>3, <2>4, <2>5 DEF A!Compute
  <2> QED BY <2>6 DEF A!Execute
<1>5. CASE op \in {"jal", "jalr"}
  <2>1. A!SetReg(A!NextPc(NextToExecute))
    <3>1. RdValue = NextPc(id_ex.pc)
      BY <1>5 DEF RdValue, WbSel
    <3> QED BY <1>1, <1>5, <3>1, CompletesRegs, DecodeMem, SameArith
  <2>2. A!GoTo(IF A!ins.op = "jal" THEN A!Add(NextToExecute, A!ins.imm)
                                   ELSE A!Add(A!rs1v, A!ins.imm))
    <3>1. op = "jalr" => AluResult = Add(FwdRs1, i.imm)
      BY DEF AluResult, AluA, AluB
    <3>2. NextToExecute' = IF op = "jal" THEN Add(id_ex.pc, i.imm) ELSE Add(FwdRs1, i.imm)
      BY <1>5, <3>1, CompletesPc
    <3> QED BY <1>1, <3>2, SameArith DEF A!GoTo
  <2>3. A!Executes({"jal", "jalr"})
    BY <1>5, CompletesExecutes
  <2>4. MemWrite' = MemWrite /\ csr' = csr
    BY <1>3, <1>5, CompletesMem, CompletesCsr
  <2>5. A!Jump
    BY <2>1, <2>2, <2>3, <2>4 DEF A!Jump
  <2> QED BY <2>5 DEF A!Execute
<1>6. CASE op = "branch"
  <2>1. A!GoTo(IF A!Taken(A!rs1v, A!rs2v) THEN A!Add(NextToExecute, A!ins.imm)
                                          ELSE A!NextPc(NextToExecute))
    <3>1. NextToExecute' = IF Taken(FwdRs1, FwdRs2) THEN Add(id_ex.pc, i.imm)
                                                    ELSE NextPc(id_ex.pc)
      BY <1>6, CompletesPc
    <3> QED BY <1>1, <3>1, SameArith DEF A!GoTo
  <2>2. A!Executes({"branch"})
    BY <1>6, CompletesExecutes
  <2>3. ArchRegs' = ArchRegs /\ MemWrite' = MemWrite /\ csr' = csr
    BY <1>3, <1>6, CompletesRegs, CompletesMem, CompletesCsr, DecodeMem
  <2>4. A!Branch
    BY <2>1, <2>2, <2>3 DEF A!Branch
  <2> QED BY <2>4 DEF A!Execute
<1>7. CASE op = "load"
  <2>1. A!SetReg(MemWrite[A!DIdx(A!Add(A!rs1v, A!ins.imm))])
    <3>1. RdValue = MemWrite[DIdx(AluResult)] /\ AluResult = Add(FwdRs1, i.imm)
      BY <1>7 DEF RdValue, WbSel, AluResult, AluA, AluB
    <3>2. A!SetReg(RdValue)
      BY <1>7, CompletesRegs, DecodeMem
    <3> QED BY <1>1, <3>1, <3>2, SameArith
  <2>2. A!GoTo(A!NextPc(NextToExecute))
    BY <1>1, <1>7, CompletesPc, SameArith DEF A!GoTo
  <2>3. A!Executes({"load"})
    BY <1>7, CompletesExecutes
  <2>4. MemWrite' = MemWrite /\ csr' = csr
    BY <1>3, <1>7, CompletesMem, CompletesCsr
  <2>5. A!Load
    BY <2>1, <2>2, <2>3, <2>4 DEF A!Load
  <2> QED BY <2>5 DEF A!Execute
<1>8. CASE op = "store"
  <2>1. MemWrite' = [MemWrite EXCEPT ![A!DIdx(A!Add(A!rs1v, A!ins.imm))] = A!rs2v]
    <3>1. AluResult = Add(FwdRs1, i.imm)
      BY <1>8 DEF AluResult, AluA, AluB
    <3> QED BY <1>1, <1>8, <3>1, CompletesMem, SameArith
  <2>2. A!GoTo(A!NextPc(NextToExecute))
    BY <1>1, <1>8, CompletesPc, SameArith DEF A!GoTo
  <2>3. A!Executes({"store"})
    BY <1>8, CompletesExecutes
  <2>4. ArchRegs' = ArchRegs /\ csr' = csr
    BY <1>3, <1>8, CompletesRegs, CompletesCsr, DecodeMem
  <2>5. A!Store
    BY <2>1, <2>2, <2>3, <2>4 DEF A!Store
  <2> QED BY <2>5 DEF A!Execute
<1>9. CASE op = "fence"
  <2>1. A!GoTo(A!NextPc(NextToExecute))
    BY <1>1, <1>9, CompletesPc, SameArith DEF A!GoTo
  <2>2. A!Executes({"fence"})
    BY <1>9, CompletesExecutes
  <2>3. ArchRegs' = ArchRegs /\ MemWrite' = MemWrite /\ csr' = csr
    BY <1>3, <1>9, CompletesRegs, CompletesMem, CompletesCsr, DecodeMem
  <2>4. A!Fence
    BY <2>1, <2>2, <2>3 DEF A!Fence
  <2> QED BY <2>4 DEF A!Execute
<1>10. CASE op = "csr"
  <2>1. CsrRdata = A!CsrRead(csr, irq, A!ins.csr)
    BY <1>1, SameCsr DEF CsrRdata
  <2>2. A!SetReg(A!CsrRead(csr, irq, A!ins.csr))
    <3>1. RdValue = CsrRdata
      BY <1>10 DEF RdValue, WbSel
    <3> QED BY <1>10, <2>1, <3>1, CompletesRegs, DecodeMem
  <2>3. CsrWdata = IF A!ins.uimm THEN A!ins.rs1 ELSE A!rs1v
    BY <1>1 DEF CsrWdata
  <2>4. csr' = IF A!CsrWrites(A!ins)
               THEN A!CsrWrite(csr, A!ins.csr, A!CsrNew(A!ins.csrop, CsrRdata, CsrWdata))
               ELSE csr
    BY <1>1, <1>10, CompletesCsr, SameCsr
  <2>5. A!GoTo(A!NextPc(NextToExecute))
    BY <1>1, <1>10, CompletesPc, SameArith DEF A!GoTo
  <2>6. A!Executes({"csr"})
    BY <1>10, CompletesExecutes
  <2>7. MemWrite' = MemWrite
    BY <1>10, CompletesMem
  <2>8. A!CsrAccess
    BY <2>1, <2>2, <2>3, <2>4, <2>5, <2>6, <2>7 DEF A!CsrAccess
  <2> QED BY <2>8 DEF A!Execute
<1>11. CASE op = "mret"
  <2>1. csr' = A!CsrMret(csr) /\ A!GoTo(csr.mepc)
    BY <1>11, CompletesCsr, CompletesPc, SameCsr DEF A!GoTo
  <2>2. A!Executes({"mret"})
    BY <1>11, CompletesExecutes
  <2>3. ArchRegs' = ArchRegs /\ MemWrite' = MemWrite
    BY <1>11, CompletesRegs, CompletesMem, DecodeMem
  <2>4. A!Mret
    BY <2>1, <2>2, <2>3 DEF A!Mret
  <2> QED BY <2>4 DEF A!Execute
<1> QED BY <1>2, <1>4, <1>5, <1>6, <1>7, <1>8, <1>9, <1>10, <1>11 DEF Ops

-----------------------------------------------------------------------------
(* The other edges *)

LEMMA StallStep ==
  ASSUME RInv, Stall
  PROVE  A!Wait
<1>1. UNCHANGED <<pc, if_id, id_ex, ex_mem, exReal, csr, dmem>>
  BY DEF Stall, pipe
<1>2. NextToExecute' = NextToExecute /\ MemWrite' = MemWrite
  BY <1>1 DEF NextToExecute, MemWrite
<1> QED BY <1>1, <1>2, StallKeepsRegisters DEF RInv, A!Wait

\* Of the instruction in MEM a reset loses the store or the register it was to
\* write, never both; the one in WB is in the register file.
LEMMA ResetStep ==
  ASSUME RInv, Reset
  PROVE  A!Reset
<1>1. /\ ex_mem'.ctl = {} /\ mem_wb'.regWe = FALSE /\ regs' = RegWrite
      /\ dmem' \in {dmem, MemWrite}
      /\ NextToExecute' = ResetPc /\ csr' = CsrReset
      /\ resets < MaxResets /\ resets' = resets + 1
  BY DEF Reset, ResetTo, RInv, TypeOK, ExMem, MemWb, NextToExecute
<1>2. MemWrite' = dmem'
  BY <1>1 DEF MemWrite
<1>3. \A r \in Reg : ArchRegs'[r] = RegRead(r)
  <2> TAKE r \in Reg
  <2>1. ArchRegs'[r] = RegRead(r)'
    BY <1>1 DEF ArchRegs, MemWrites
  <2>2. regs'[r] = IF WbWrites(r) THEN WbData ELSE regs[r]
    BY <1>1 DEF RegWrite
  <2>3. RegRead(r)' = IF r = 0 THEN 0 ELSE regs'[r]
    BY <1>1 DEF RegRead, WbWrites
  <2> QED BY <2>1, <2>2, <2>3 DEF RegRead
<1>4. /\ ArchRegs = [r \in Reg |-> ArchRegs[r]] /\ ArchRegs' = [r \in Reg |-> ArchRegs'[r]]
      /\ \A r \in Reg : ~MemWrites(r) => ArchRegs[r] = RegRead(r)
  BY DEF ArchRegs
<1>5. \/ ArchRegs' = ArchRegs /\ MemWrite' = MemWrite
      \/ \E r \in Reg \ {0}, v \in Word :
           ArchRegs' = [ArchRegs EXCEPT ![r] = v] /\ MemWrite' = MemWrite
      \/ \E x \in DAddr, v \in Word :
           MemWrite' = [MemWrite EXCEPT ![x] = v] /\ ArchRegs' = ArchRegs
  <2> DEFINE rd == ex_mem.instr.rd
             x  == DIdx(ex_mem.alu)
  <2>1. CASE MemWrites(rd)
    <3>1. MemWrite = dmem
      BY <2>1 DEF MemWrites, MemWrite, RInv, MemCtlPaired
    <3>2. rd \in Reg \ {0} /\ RegRead(rd) \in Word
      BY <2>1, RegReadType DEF MemWrites, RInv, TypeOK, ExMem, Instr
    <3>3. \A r \in Reg : MemWrites(r) => r = rd
      BY DEF MemWrites
    <3>4. ArchRegs' = [ArchRegs EXCEPT ![rd] = RegRead(rd)]
      BY <1>3, <1>4, <3>2, <3>3
    <3> QED BY <1>1, <1>2, <3>1, <3>2, <3>4
  <2>2. CASE ~MemWrites(rd)
    <3>1. \A r \in Reg : ~MemWrites(r)
      BY <2>2 DEF MemWrites
    <3>2. ArchRegs' = ArchRegs
      BY <1>3, <1>4, <3>1
    <3>3. x \in DAddr /\ dmem[x] \in Word /\ dmem \in [DAddr -> Word]
      BY WordAssumption, CoreAssumption DEF RInv, TypeOK, ExMem, DIdx, DAddr, Word
    <3>4. MemWrite = dmem \/ dmem = [MemWrite EXCEPT ![x] = dmem[x]]
      BY <3>3 DEF MemWrite
    <3> QED BY <1>1, <1>2, <3>2, <3>3, <3>4
  <2> QED BY <2>1, <2>2
<1> QED BY <1>1, <1>5, SameWords DEF A!Reset, A!GoTo

LEMMA EdgeStep ==
  ASSUME RInv, Edge
  PROVE  A!Run
<1>1. Moves /\ resets' = resets
  BY DEF Edge, Moves, Redirect, RedirectTo, Hold, Advance, BackEnd
<1>2. CASE TakeInterrupt(FALSE)
  BY <1>1, <1>2, InterruptStep DEF A!Run, A!Execute
<1>3. CASE ~TakeInterrupt(FALSE) /\ ~exReal
  BY <1>1, <1>3, BubbleStep DEF A!Run
<1>4. CASE ~TakeInterrupt(FALSE) /\ exReal /\ SyncTrap
  BY <1>1, <1>4, FaultStep DEF A!Run, A!Execute
<1>5. CASE ~TakeInterrupt(FALSE) /\ exReal /\ ~SyncTrap
  <2>1. Completes
    BY <1>1, <1>5 DEF Completes, Trap
  <2> QED BY <1>1, <2>1, ExecuteStep DEF A!Run
<1> QED BY <1>2, <1>3, <1>4, <1>5 DEF RInv, TypeOK

LEMMA InitMaps == Init => A!Init
<1> SUFFICES ASSUME Init PROVE A!Init
  OBVIOUS
<1>1. NextToExecute = ResetPc
  BY DEF Init, NextToExecute
<1>2. MemWrite = DmemInit /\ DmemInit \in [DAddr -> Word]
  BY CoreAssumption DEF Init, MemWrite
<1>3. ArchRegs = [r \in Reg |-> 0]
  <2>1. \A r \in Reg : ArchRegs[r] = 0
    BY DEF Init, ArchRegs, MemWrites, RegRead, WbWrites
  <2> QED BY <2>1 DEF ArchRegs
<1> QED BY <1>1, <1>2, <1>3, SameWords DEF Init, A!Init

LEMMA NextMaps == RInv /\ [Next]_vars => [A!Next]_A!vars
<1> SUFFICES ASSUME RInv, [Next]_vars PROVE [A!Next]_A!vars
  OBVIOUS
<1>1. CASE Edge
  BY <1>1, EdgeStep DEF Edge, Inputs, A!Next
<1>2. CASE Stall /\ Inputs
  <2>1. resets' = resets
    BY <1>2 DEF Stall
  <2> QED BY <1>2, <2>1, StallStep DEF Inputs, A!Next, A!Run
<1>3. CASE Reset /\ Inputs
  BY <1>3, ResetStep DEF Inputs, A!Next
<1>4. CASE UNCHANGED vars
  <2>1. UNCHANGED <<NextToExecute, ArchRegs, MemWrite, imem, csr, irq, resets>>
    BY <1>4 DEF vars, NextToExecute, ArchRegs, MemWrite, RegRead, WbWrites, WbData,
                MemWrites, MemRdata, MemValue
  <2> QED BY <2>1 DEF A!vars
<1> QED BY <1>1, <1>2, <1>3, <1>4 DEF Next

\* The pipeline executes the program one instruction at a time, each exactly
\* once: interrupts come between two of them, a fault has no effect but the trap,
\* and a reset loses at most what the instruction in MEM was about to write
\* (core.v:149-519, csr.v:116-160).
THEOREM PipelineIsPrecise == Spec => ImplementsIsa
  BY InitMaps, NextMaps, RInvHolds, PTL DEF Spec, ImplementsIsa, A!Spec
=============================================================================
