-------------------------- MODULE DecoderAbstraction ------------------------
(***************************************************************************)
(* The core is modelled over decoded instructions (Rv32.tla).  This module *)
(* says which of them a 32-bit instruction word is, and that decoder.v     *)
(* drives for the word what the core's model derives from the instruction. *)
(***************************************************************************)
EXTENDS DatapathTests

R == INSTANCE Rv32 WITH WordSize <- 32, NReg <- 32,
                        Or <- LAMBDA a, b : 0, AndNot <- LAMBDA a, b : 0

OpName(w) ==
  LET o == OpcodeOf(w)
      f12 == NatOf(Field(w, 31, 20))
  IN  IF o # Opcode.system
      THEN IF \E n \in DOMAIN Opcode : Opcode[n] = o
           THEN CHOOSE n \in DOMAIN Opcode : Opcode[n] = o ELSE "illegal"
      ELSE IF Funct3(w) # 0 THEN "csr"
      ELSE CASE f12 \in {0, 1} -> "ecall" [] f12 = \h302 -> "mret" [] OTHER -> "illegal"

CsrOpName == <<"none", "rw", "rs", "rc">>
InstrOf(w) == [R!Nop EXCEPT !.op = OpName(w), !.rd = Rd(w), !.rs1 = Rs1(w), !.rs2 = Rs2(w),
                            !.csrop = CsrOpName[(Funct3(w) % 4) + 1]]

WbSelName == <<"alu", "mem", "pc4", "csr">>
\* Operand a: 0, the PC, or rs1 (here 7); operand b: rs2 (here 8) or the
\* immediate (here 9).
Abstracts(w) ==
  LET d == DecodeWord(w)
      i == [InstrOf(w) EXCEPT !.imm = 9]
  IN  /\ {c \in R!CtlBits : d[c] = 1} = R!Decode(i)
      /\ "reg_we" \in R!Decode(i) => WbSelName[d.wb_sel + 1] = R!WbSel(i)
      /\ (IF d.alu_a_zero = 1 THEN 0 ELSE IF d.alu_a_pc = 1 THEN 6 ELSE 7) = R!AluA(i, 6, 7)
      /\ (IF d.alu_src = 1 THEN 9 ELSE 8) = R!AluB(i, 8)
      /\ d.csr_op # 0 => CsrOpName[d.csr_op + 1] = i.csrop
      /\ d.rs1_addr = i.rs1 /\ d.rs2_addr = i.rs2 /\ d.rd_addr = i.rd

\* Every opcode with every funct3; for the system opcode also zero and other
\* registers, and the three system functions with words next to them.
DecoderWords ==
  {EncI(o, 3, f3, 3, N(0)) : o \in 0 .. 127, f3 \in 0 .. 7}
  \cup {EncI(Opcode.system, rd, f3, rs1, N(f12)) :
          rd \in {0, 3}, f3 \in 0 .. 7, rs1 \in {0, 3}, f12 \in {0, 1, 2, \h302, \h305, \hFFF}}
NotAbstracted == {w \in DecoderWords : ~Abstracts(w)}
=============================================================================
