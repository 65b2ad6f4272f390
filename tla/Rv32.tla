-------------------------------- MODULE Rv32 --------------------------------
(***************************************************************************)
(* The vocabulary of the core: machine words, decoded instructions and the *)
(* control signals decoder.v derives from an instruction.                  *)
(*                                                                         *)
(* A word is an integer modulo WordSize; addresses of instructions are     *)
(* counted in instructions, so PC + 4 of the code is NextPc here.  Of the  *)
(* ALU only addition is kept: which function the ALU computes makes no     *)
(* difference to when its operands and its result are the right ones.      *)
(***************************************************************************)
EXTENDS Integers

CONSTANTS
  WordSize,     \* words are 0 .. WordSize-1 (2^32 in the code)
  NReg,         \* registers are 0 .. NReg-1 (32 in the code)
  Or(_, _),     \* bitwise a | b
  AndNot(_, _)  \* bitwise a & ~b

Word == 0 .. WordSize - 1
Reg  == 0 .. NReg - 1

\* The trap causes 2, 8, 11 and the packed mstatus need sixteen words; x0 and
\* the 5-bit immediates of the CSR instructions are words too.
ASSUME WordAssumption == WordSize \in Nat /\ WordSize >= 16
ASSUME RegAssumption  == NReg \in Nat /\ NReg >= 1 /\ NReg <= WordSize
ASSUME BitAssumption  == \A a, b \in Word : Or(a, b) \in Word /\ AndNot(a, b) \in Word

\* A variant the type invariant rejects: a sum wider than a word.
Add_NoWrap(a, b) == a + b

\* 32-bit addition wraps.
Add(a, b) == (a + b) % WordSize
NextPc(p) == Add(p, 1)

-----------------------------------------------------------------------------
(* Instructions *)

Ops == {"lui", "auipc", "jal", "jalr", "branch", "load", "store", "opimm",
        "op", "fence", "csr", "ecall", "mret", "illegal"}

\* The CSRs csr.v implements, one name for all it accepts and ignores, one for
\* all it does not know.
CsrAddrs == {"mstatus", "mie", "mtvec", "mscratch", "mepc", "mcause", "mip",
             "mhartid", "ignored", "unknown"}

CsrOps == {"none", "rw", "rs", "rc"}

\* The fields are cut out of the word whatever the opcode is: a store has an
\* "rd", a jump an "rs2".  rs1 doubles as the 5-bit immediate of csrr?i.
Instr == [op : Ops, rd : Reg, rs1 : Reg, rs2 : Reg, imm : Word,
          csr : CsrAddrs, csrop : CsrOps, uimm : BOOLEAN]

\* 0x00000013, addi x0, x0, 0
Nop == [op |-> "opimm", rd |-> 0, rs1 |-> 0, rs2 |-> 0, imm |-> 0,
        csr |-> "ignored", csrop |-> "none", uimm |-> FALSE]

-----------------------------------------------------------------------------
(* Control signals *)

CtlBits == {"reg_we", "mem_we", "mem_re", "is_branch", "is_jal", "is_jalr",
            "illegal", "is_mret", "is_ecall", "csr_re", "csr_we"}

\* csrrw to x0 need not read; set and clear with a zero source must not write.
CsrReads(i)  == i.op = "csr" /\ ~(i.csrop = "rw" /\ i.rd = 0)
CsrWrites(i) == i.op = "csr" /\ ~(i.csrop # "rw" /\ i.rs1 = 0)

Asserts(i, c) ==
  CASE c = "reg_we"    -> i.op \in {"lui", "auipc", "jal", "jalr", "load", "opimm", "op", "csr"}
    [] c = "mem_we"    -> i.op = "store"
    [] c = "mem_re"    -> i.op = "load"
    [] c = "is_branch" -> i.op = "branch"
    [] c = "is_jal"    -> i.op = "jal"
    [] c = "is_jalr"   -> i.op = "jalr"
    [] c = "illegal"   -> i.op = "illegal" \/ (i.op = "csr" /\ i.csrop = "none")
    [] c = "is_mret"   -> i.op = "mret"
    [] c = "is_ecall"  -> i.op = "ecall"      \* ebreak takes the same path
    [] c = "csr_re"    -> CsrReads(i)
    [] c = "csr_we"    -> CsrWrites(i)

Decode(i) == {c \in CtlBits : Asserts(i, c)}

\* Where the value written to rd comes from.
WbSel(i) ==
  CASE i.op = "load"            -> "mem"
    [] i.op \in {"jal", "jalr"} -> "pc4"
    [] i.op = "csr"             -> "csr"
    [] OTHER                    -> "alu"

\* ALU operands: a is rs1, the PC (auipc) or zero (lui); b is rs2 for OP, the
\* immediate by default.
AluA(i, pc, a) == IF i.op = "lui" THEN 0 ELSE IF i.op = "auipc" THEN pc ELSE a
AluB(i, b)     == IF i.op = "op" THEN b ELSE i.imm

\* beq stands for the six comparisons.
Taken(a, b) == a = b
=============================================================================
