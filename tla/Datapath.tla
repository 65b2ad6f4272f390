------------------------------ MODULE Datapath ------------------------------
(***************************************************************************)
(* The combinational blocks, bit by bit: alu.v, branch_cmp.v, immgen.v and *)
(* decoder.v.                                                              *)
(***************************************************************************)
EXTENDS Words

\* rv32i_defs.vh
AluCode == [add |-> 0, sll |-> 1, slt |-> 2, sltu |-> 3, xor |-> 4, srl |-> 5, or |-> 6,
            and |-> 7, sub |-> 8, sra |-> 13]

Bit(b) == IF b THEN {0} ELSE {}

\* b[4:0]
Shamt(b) == NatOf(Field(b, 4, 0))

Alu(code, a, b) ==
  CASE code = AluCode.add  -> Plus(a, b)
    [] code = AluCode.sub  -> Minus(a, b)
    [] code = AluCode.and  -> a \cap b
    [] code = AluCode.or   -> a \cup b
    [] code = AluCode.xor  -> Xor(a, b)
    [] code = AluCode.sll  -> At(a, Shamt(b))
    [] code = AluCode.srl  -> Field(a, XLEN - 1, Shamt(b))
    [] code = AluCode.sra  -> SignExtend(Field(a, XLEN - 1, Shamt(b)), XLEN - Shamt(b))
    [] code = AluCode.slt  -> Bit(SignedLess(a, b))
    [] code = AluCode.sltu -> Bit(Less(a, b))
    [] OTHER               -> {}

BranchTaken(f3, a, b) ==
  CASE f3 = 0 -> a = b
    [] f3 = 1 -> a # b
    [] f3 = 4 -> SignedLess(a, b)
    [] f3 = 5 -> ~SignedLess(a, b)
    [] f3 = 6 -> Less(a, b)
    [] f3 = 7 -> ~Less(a, b)
    [] OTHER  -> FALSE

-----------------------------------------------------------------------------
(* Fields of an instruction word *)

Opcode == [lui |-> 55, auipc |-> 23, jal |-> 111, jalr |-> 103, branch |-> 99, load |-> 3,
           store |-> 35, opimm |-> 19, op |-> 51, fence |-> 15, system |-> 115]

OpcodeOf(w) == NatOf(Field(w, 6, 0))
Rd(w)     == NatOf(Field(w, 11, 7))
Funct3(w) == NatOf(Field(w, 14, 12))
Rs1(w)    == NatOf(Field(w, 19, 15))
Rs2(w)    == NatOf(Field(w, 24, 20))

Imm(w) ==
  LET o == OpcodeOf(w)
  IN  CASE o \in {Opcode.lui, Opcode.auipc} -> w \cap (12 .. 31)
        [] o = Opcode.jal ->
             SignExtend(At(Field(w, 31, 31), 20) \cup At(Field(w, 19, 12), 12)
                          \cup At(Field(w, 20, 20), 11) \cup At(Field(w, 30, 21), 1), 21)
        [] o = Opcode.branch ->
             SignExtend(At(Field(w, 31, 31), 12) \cup At(Field(w, 7, 7), 11)
                          \cup At(Field(w, 30, 25), 5) \cup At(Field(w, 11, 8), 1), 13)
        [] o = Opcode.store -> SignExtend(At(Field(w, 31, 25), 5) \cup Field(w, 11, 7), 12)
        [] o \in {Opcode.jalr, Opcode.load, Opcode.opimm, Opcode.fence, Opcode.system} ->
             SignExtend(Field(w, 31, 20), 12)
        [] OTHER -> {}

-----------------------------------------------------------------------------
(* The decoder *)

\* All outputs at their defaults but the register fields.
Plain(w) == [rs1_addr |-> Rs1(w), rs2_addr |-> Rs2(w), rd_addr |-> Rd(w), funct3 |-> Funct3(w),
             alu_op |-> AluCode.add, alu_src |-> 1, alu_a_pc |-> 0, alu_a_zero |-> 0,
             reg_we |-> 0, mem_we |-> 0, mem_re |-> 0, wb_sel |-> 0, is_branch |-> 0,
             is_jal |-> 0, is_jalr |-> 0, illegal |-> 0, csr_op |-> 0, csr_re |-> 0,
             csr_we |-> 0, csr_use_imm |-> 0, is_mret |-> 0, is_ecall |-> 0]

Bit30(w) == IF 30 \in w THEN 8 ELSE 0
Num(b)   == IF b THEN 1 ELSE 0

\* Variant: a register number of 0 does not keep csrrs and csrrc from writing.
DecodeCsr_AlwaysWrites(w) ==
  LET kind == Funct3(w) % 4
  IN  [Plain(w) EXCEPT !.reg_we = 1, !.wb_sel = 3, !.csr_op = kind, !.illegal = Num(kind = 0),
                       !.csr_use_imm = Funct3(w) \div 4,
                       !.csr_re = Num(~(kind = 1 /\ Rd(w) = 0)), !.csr_we = 1]
DecodeCsr(w) ==
  LET kind == Funct3(w) % 4
  IN  [Plain(w) EXCEPT !.reg_we = 1, !.wb_sel = 3, !.csr_op = kind, !.illegal = Num(kind = 0),
                       !.csr_use_imm = Funct3(w) \div 4,
                       !.csr_re = Num(~(kind = 1 /\ Rd(w) = 0)),
                       !.csr_we = Num(~(kind # 1 /\ Rs1(w) = 0))]
DecodeSystem(w) ==
  LET f12 == NatOf(Field(w, 31, 20))
  IN  IF Funct3(w) # 0 THEN DecodeCsr(w)
      ELSE CASE f12 \in {0, 1}   -> [Plain(w) EXCEPT !.is_ecall = 1]
             [] f12 = \h302      -> [Plain(w) EXCEPT !.is_mret = 1]
             [] OTHER            -> [Plain(w) EXCEPT !.illegal = 1]

\* Variant: bit 30 of every immediate operation selects.
OpImmCode_Bit30(w) == Bit30(w) + Funct3(w)
\* Only srai has a bit 30; elsewhere it belongs to the immediate.
OpImmCode(w) == (IF Funct3(w) = 5 THEN Bit30(w) ELSE 0) + Funct3(w)

DecodeWord(w) ==
  LET p == Plain(w)
      o == OpcodeOf(w)
  IN  CASE o = Opcode.lui    -> [p EXCEPT !.reg_we = 1, !.alu_a_zero = 1]
        [] o = Opcode.auipc  -> [p EXCEPT !.reg_we = 1, !.alu_a_pc = 1]
        [] o = Opcode.jal    -> [p EXCEPT !.reg_we = 1, !.wb_sel = 2, !.is_jal = 1]
        [] o = Opcode.branch -> [p EXCEPT !.is_branch = 1]
        [] o = Opcode.store  -> [p EXCEPT !.mem_we = 1]
        [] o = Opcode.op     -> [p EXCEPT !.reg_we = 1, !.alu_src = 0,
                                          !.alu_op = Bit30(w) + Funct3(w)]
        [] o = Opcode.jalr   -> [p EXCEPT !.reg_we = 1, !.wb_sel = 2, !.is_jalr = 1]
        [] o = Opcode.load   -> [p EXCEPT !.reg_we = 1, !.mem_re = 1, !.wb_sel = 1]
        [] o = Opcode.opimm  -> [p EXCEPT !.reg_we = 1, !.alu_op = OpImmCode(w)]
        [] o = Opcode.fence  -> p
        [] o = Opcode.system -> DecodeSystem(w)
        [] OTHER             -> [p EXCEPT !.illegal = 1]
=============================================================================
