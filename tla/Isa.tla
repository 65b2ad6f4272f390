-------------------------------- MODULE Isa ---------------------------------
(***************************************************************************)
(* What the core promises: a machine that executes one instruction at a    *)
(* time.  Between two instructions it may take the timer interrupt, wait   *)
(* (the program cannot see how long an instruction takes), or be reset.    *)
(*                                                                         *)
(* pc is the instruction to execute next.  irq is the level of the timer's *)
(* interrupt line, an input that may change at any step.                   *)
(***************************************************************************)
EXTENDS Csr

CONSTANTS
  Programs,     \* the contents imem may have, by name
  ResetPc,      \* RESET_PC
  DmemSize,     \* words of data memory; addresses wrap
  MaxResets     \* a bound on how often the machine is reset

VARIABLES
  imem,         \* the name of the program in instruction memory
  pc, regs, dmem, csr, irq,
  resets        \* resets so far
vars == <<imem, pc, regs, dmem, csr, irq, resets>>

DAddr == 0 .. DmemSize - 1
DIdx(addr) == addr % DmemSize

-----------------------------------------------------------------------------
ins  == Programs[imem][pc]
rs1v == regs[ins.rs1]
rs2v == regs[ins.rs2]

\* A write to x0 is dropped.
SetReg(v) == regs' = IF ins.rd = 0 THEN regs ELSE [regs EXCEPT ![ins.rd] = v]
GoTo(p)   == pc' = p

BadCsr == ins.csr = "unknown" /\ (CsrReads(ins) \/ CsrWrites(ins))

Faults == \/ ins.op \in {"illegal", "ecall"}
          \/ ins.op = "csr" /\ (ins.csrop = "none" \/ BadCsr)

FaultCause == CASE ins.op = "ecall" -> IF csr.privM THEN EcallMCause ELSE EcallUCause
                [] OTHER          -> IllegalCause

\* An instruction executes when it does not fault and no interrupt is taken
\* instead of it.
Executes(ops) == ins.op \in ops /\ ~Faults /\ ~InterruptPending(csr, irq)

Compute ==
  /\ Executes({"lui", "auipc", "opimm", "op"})
  /\ SetReg(Add(AluA(ins, pc, rs1v), AluB(ins, rs2v)))
  /\ GoTo(NextPc(pc))
  /\ UNCHANGED <<dmem, csr>>

Jump ==
  /\ Executes({"jal", "jalr"})
  /\ SetReg(NextPc(pc))
  /\ GoTo(IF ins.op = "jal" THEN Add(pc, ins.imm) ELSE Add(rs1v, ins.imm))
  /\ UNCHANGED <<dmem, csr>>

Branch ==
  /\ Executes({"branch"})
  /\ GoTo(IF Taken(rs1v, rs2v) THEN Add(pc, ins.imm) ELSE NextPc(pc))
  /\ UNCHANGED <<regs, dmem, csr>>

Load ==
  /\ Executes({"load"})
  /\ SetReg(dmem[DIdx(Add(rs1v, ins.imm))])
  /\ GoTo(NextPc(pc))
  /\ UNCHANGED <<dmem, csr>>

Store ==
  /\ Executes({"store"})
  /\ dmem' = [dmem EXCEPT ![DIdx(Add(rs1v, ins.imm))] = rs2v]
  /\ GoTo(NextPc(pc))
  /\ UNCHANGED <<regs, csr>>

Fence ==
  /\ Executes({"fence"})
  /\ GoTo(NextPc(pc))
  /\ UNCHANGED <<regs, dmem, csr>>

\* The old value goes to rd, and the new one is written unless the source of a
\* set or clear is x0.
CsrAccess ==
  /\ Executes({"csr"})
  /\ LET old == CsrRead(csr, irq, ins.csr)
         arg == IF ins.uimm THEN ins.rs1 ELSE rs1v
     IN  /\ SetReg(old)
         /\ csr' = IF CsrWrites(ins) THEN CsrWrite(csr, ins.csr, CsrNew(ins.csrop, old, arg))
                                   ELSE csr
  /\ GoTo(NextPc(pc))
  /\ UNCHANGED dmem

Mret ==
  /\ Executes({"mret"})
  /\ csr' = CsrMret(csr)
  /\ GoTo(csr.mepc)
  /\ UNCHANGED <<regs, dmem>>

\* A faulting instruction has no effect but the trap.
Fault ==
  /\ Faults
  /\ csr' = CsrTrap(csr, pc, FaultCause)
  /\ GoTo(csr.mtvec)
  /\ UNCHANGED <<regs, dmem>>

\* The interrupted instruction has no effect and mepc is its address, so mret
\* executes it.  Before an instruction that faults, either trap may come first.
Interrupt ==
  /\ InterruptPending(csr, irq)
  /\ csr' = CsrTrap(csr, pc, TimerCause)
  /\ GoTo(csr.mtvec)
  /\ UNCHANGED <<regs, dmem>>

\* One instruction, or one trap, at a time.
Execute ==
  \/ Compute \/ Jump \/ Branch \/ Load \/ Store \/ Fence
  \/ CsrAccess \/ Mret \/ Fault \/ Interrupt

Wait == UNCHANGED <<pc, regs, dmem, csr>>

\* Reset reaches neither the registers nor the memory, but what the last
\* instruction did to them may be lost.
Reset ==
  /\ resets < MaxResets
  /\ resets' = resets + 1
  /\ GoTo(ResetPc)
  /\ csr' = CsrReset
  /\ \/ UNCHANGED <<regs, dmem>>
     \/ \E r \in Reg \ {0}, v \in Word : regs' = [regs EXCEPT ![r] = v] /\ UNCHANGED dmem
     \/ \E x \in DAddr, v \in Word : dmem' = [dmem EXCEPT ![x] = v] /\ UNCHANGED regs

-----------------------------------------------------------------------------
Init ==
  /\ imem \in DOMAIN Programs
  /\ pc = ResetPc
  /\ regs = [r \in Reg |-> 0]
  /\ dmem \in [DAddr -> Word]
  /\ csr = CsrReset
  /\ irq \in BOOLEAN
  /\ resets = 0

Run == (Execute \/ Wait) /\ UNCHANGED resets

Next == /\ Run \/ Reset
        /\ irq' \in BOOLEAN
        /\ UNCHANGED imem

Spec == Init /\ [][Next]_vars

\* The machine never stops executing instructions (a jump to itself changes
\* nothing a program can see).
arch == <<pc, regs, dmem, csr>>
Progress == WF_arch(Execute /\ irq' \in BOOLEAN /\ UNCHANGED <<imem, resets>>)
=============================================================================
