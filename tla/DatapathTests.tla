---------------------------- MODULE DatapathTests ---------------------------
(***************************************************************************)
(* tb_alu.cpp, tb_branch_cmp.cpp, tb_immgen.cpp and tb_decoder.cpp: their  *)
(* directed vectors, their reference models and their random loops, a loop *)
(* being a set of inputs every one of which is tried.                      *)
(***************************************************************************)
EXTENDS Datapath, Script

Ones == H(\hFFFF, \hFFFF)
Top  == H(\h8000, 0)
Max31 == H(\h7FFF, \hFFFF)

-----------------------------------------------------------------------------
(* tb_alu *)

AluDirected == <<
  <<"add", N(5), N(10), N(15)>>, <<"add", Ones, N(1), N(0)>>, <<"sub", N(10), N(5), N(5)>>,
  <<"sub", N(0), N(1), Ones>>,
  <<"and", H(\hF0F0, \hF0F0), H(\hFF00, \hFF00), H(\hF000, \hF000)>>,
  <<"or", N(0), N(1), N(1)>>, <<"or", N(1), N(1), N(1)>>, <<"or", N(1), N(0), N(1)>>,
  <<"or", N(0), N(0), N(0)>>, <<"xor", N(0), N(1), N(1)>>, <<"xor", N(0), N(0), N(0)>>,
  <<"xor", N(1), N(0), N(1)>>, <<"xor", N(1), N(1), N(0)>>,
  <<"sll", N(1), N(4), N(16)>>, <<"srl", Top, N(4), H(\h0800, 0)>>,
  <<"sra", Top, N(4), H(\hF800, 0)>>, <<"sra", Ones, Ones, Ones>>,
  <<"sll", N(1), N(32), N(1)>>, <<"sll", N(1), N(33), N(2)>>, <<"sll", N(1), N(31), Top>>,
  <<"srl", Top, N(31), N(1)>>, <<"sra", Top, N(63), Ones>>,
  <<"slt", Ones, N(1), N(1)>>, <<"sltu", Ones, N(1), N(0)>>, <<"slt", N(5), N(5), N(0)>>,
  <<"sltu", N(5), N(5), N(0)>>, <<"slt", Top, Max31, N(1)>>, <<"sltu", Top, Max31, N(0)>> >>
AluScript == [k \in DOMAIN AluDirected |->
  Settle([op |-> AluCode[AluDirected[k][1]], a |-> AluDirected[k][2], b |-> AluDirected[k][3]],
         [result |-> {AluDirected[k][4]}])]

\* The reference computes with numbers: at a width of RefBits, with shift
\* amounts below it, every pair of operands.
RefBits == 5
RefSize == 2 ^ RefBits
Signed(x) == IF x < RefSize \div 2 THEN x ELSE x - RefSize
Bitwise(f(_, _), a, b) ==
  LET sum[i \in 0 .. RefBits] ==
        IF i = 0 THEN 0
        ELSE sum[i - 1] + 2 ^ (i - 1) * f((a \div 2 ^ (i - 1)) % 2, (b \div 2 ^ (i - 1)) % 2)
  IN  sum[RefBits]
AluRef(op, a, b) ==
  CASE op = "add"  -> (a + b) % RefSize
    [] op = "sub"  -> (a - b) % RefSize
    [] op = "and"  -> Bitwise(LAMBDA x, y : x * y, a, b)
    [] op = "or"   -> Bitwise(LAMBDA x, y : x + y - x * y, a, b)
    [] op = "xor"  -> Bitwise(LAMBDA x, y : (x + y) % 2, a, b)
    [] op = "sll"  -> (a * 2 ^ b) % RefSize
    [] op = "srl"  -> a \div 2 ^ b
    [] op = "sra"  -> (Signed(a) \div 2 ^ b) % RefSize
    [] op = "slt"  -> Num(Signed(a) < Signed(b))
    [] op = "sltu" -> Num(a < b)

Small == INSTANCE Datapath WITH XLEN <- RefBits
SmallWord(x) == Small!FromNat(x)
AluRandom == {v \in (DOMAIN AluCode) \X (0 .. RefSize - 1) \X (0 .. RefSize - 1) :
                v[1] \in {"sll", "srl", "sra"} => v[3] < RefBits}
AluDiffers == {v \in AluRandom : Small!Alu(AluCode[v[1]], SmallWord(v[2]), SmallWord(v[3]))
                                   # SmallWord(AluRef(v[1], v[2], v[3]))}

-----------------------------------------------------------------------------
(* tb_branch_cmp: for each funct3 the pairs that take it and those that do not *)

Beq == 0
Bne == 1
Blt == 4
Bge == 5
Bltu == 6
Bgeu == 7
BranchTakes == <<
  <<Beq, N(5), N(5)>>, <<Beq, Ones, Ones>>, <<Bne, N(5), N(6)>>, <<Bne, N(0), Ones>>,
  <<Blt, N(5), N(10)>>, <<Blt, Ones, N(1)>>, <<Blt, Ones \ {0}, Ones>>,
  <<Bge, N(10), N(5)>>, <<Bge, N(5), N(5)>>, <<Bge, N(1), Ones>>,
  <<Bltu, N(5), N(10)>>, <<Bltu, N(1), Ones>>, <<Bltu, N(0), N(1)>>,
  <<Bgeu, N(10), N(5)>>, <<Bgeu, N(5), N(5)>>, <<Bgeu, Ones, N(1)>>, <<Bgeu, N(0), N(0)>>,
  <<Blt, Top, Max31>>, <<Bgeu, Top, Max31>>, <<Bltu, Max31, Top>>,
  <<Beq, N(0), N(0)>>, <<Blt, Ones, N(0)>>, <<Bge, N(0), Ones>> >>
BranchPasses == <<
  <<Beq, N(5), N(6)>>, <<Bne, N(5), N(5)>>, <<Blt, N(10), N(5)>>, <<Blt, N(5), N(5)>>,
  <<Blt, N(1), Ones>>, <<Bge, N(5), N(10)>>, <<Bge, Ones, N(1)>>, <<Bltu, N(10), N(5)>>,
  <<Bltu, N(5), N(5)>>, <<Bltu, Ones, N(1)>>, <<Bgeu, N(5), N(10)>>,
  <<Bltu, Top, Max31>>, <<Bge, Top, Max31>>, <<Blt, Max31, Top>>,
  <<Bne, N(0), N(0)>>, <<Bltu, Ones, N(0)>>, <<2, N(5), N(5)>>, <<3, N(5), N(5)>>, <<2, N(0), N(0)>> >>
BranchItem(v, want) == Settle([f3 |-> v[1], a |-> v[2], b |-> v[3]], [taken |-> {want}])
BranchScript == [k \in DOMAIN BranchTakes |-> BranchItem(BranchTakes[k], TRUE)]
                  \o [k \in DOMAIN BranchPasses |-> BranchItem(BranchPasses[k], FALSE)]

BranchRef(f3, a, b) ==
  CASE f3 = Beq  -> a = b
    [] f3 = Bne  -> a # b
    [] f3 = Blt  -> Signed(a) < Signed(b)
    [] f3 = Bge  -> Signed(a) >= Signed(b)
    [] f3 = Bltu -> a < b
    [] f3 = Bgeu -> a >= b
    [] OTHER     -> FALSE
BranchDiffers == {v \in (0 .. 7) \X (0 .. RefSize - 1) \X (0 .. RefSize - 1) :
  Small!BranchTaken(v[1], SmallWord(v[2]), SmallWord(v[3])) # BranchRef(v[1], v[2], v[3])}

-----------------------------------------------------------------------------
(* tb_immgen: instructions are put together from a signed immediate *)

Put(n, lo) == At(N(n), lo)
Piece(imm, hi, lo, to) == At(Field(imm, hi, lo), to)
EncI(op, rd, f3, rs1, imm) ==
  Piece(imm, 11, 0, 20) \cup Put(rs1, 15) \cup Put(f3, 12) \cup Put(rd, 7) \cup N(op)
EncS(f3, rs1, rs2, imm) ==
  Piece(imm, 11, 5, 25) \cup Put(rs2, 20) \cup Put(rs1, 15) \cup Put(f3, 12)
    \cup Piece(imm, 4, 0, 7) \cup N(Opcode.store)
EncB(f3, rs1, rs2, imm) ==
  Piece(imm, 12, 12, 31) \cup Piece(imm, 10, 5, 25) \cup Put(rs2, 20) \cup Put(rs1, 15)
    \cup Put(f3, 12) \cup Piece(imm, 4, 1, 8) \cup Piece(imm, 11, 11, 7) \cup N(Opcode.branch)
EncU(op, rd, imm) == Piece(imm, 31, 12, 12) \cup Put(rd, 7) \cup N(op)
EncJ(rd, imm) ==
  Piece(imm, 20, 20, 31) \cup Piece(imm, 10, 1, 21) \cup Piece(imm, 11, 11, 20)
    \cup Piece(imm, 19, 12, 12) \cup Put(rd, 7) \cup N(Opcode.jal)

I(n) == FromInt(n)
ImmDirected == <<
  <<H(\h02A0, \h8293), N(42)>>, <<H(\hFFF0, \h8293), Ones>>,
  <<H(\hF5B5, \h0793), H(\hFFFF, \hFF5B)>>, <<H(\h0101, \h0113), N(16)>>,
  <<EncI(19, 5, 0, 1, I(0)), N(0)>>, <<EncI(19, 5, 0, 1, I(2047)), N(2047)>>,
  <<EncI(19, 5, 0, 1, I(-2048)), H(\hFFFF, \hF800)>>, <<EncI(3, 5, 2, 1, I(8)), N(8)>>,
  <<EncS(2, 1, 2, I(8)), N(8)>>, <<EncS(2, 1, 2, I(-8)), H(\hFFFF, \hFFF8)>>,
  <<EncS(2, 1, 2, I(2047)), N(2047)>>, <<EncS(2, 1, 2, I(-2048)), H(\hFFFF, \hF800)>>,
  <<EncB(0, 1, 2, I(8)), N(8)>>, <<EncB(0, 1, 2, I(-8)), H(\hFFFF, \hFFF8)>>,
  <<EncB(0, 1, 2, I(4094)), N(4094)>>, <<EncB(0, 1, 2, I(-4096)), H(\hFFFF, \hF000)>>,
  <<EncU(55, 5, H(\h1234, \h5000)), H(\h1234, \h5000)>>,
  <<EncU(23, 5, H(\hFFFF, \hF000)), H(\hFFFF, \hF000)>>, <<EncU(55, 5, N(0)), N(0)>>,
  <<EncU(55, 5, N(\h1000)), N(\h1000)>>,
  <<EncJ(1, I(8)), N(8)>>, <<EncJ(1, I(-8)), H(\hFFFF, \hFFF8)>>,
  <<EncJ(1, I(1048574)), H(\h000F, \hFFFE)>>, <<EncJ(1, I(-1048576)), H(\hFFF0, 0)>>,
  <<N(51) \cup Put(5, 7) \cup Put(1, 15) \cup Put(2, 20), N(0)>> >>
ImmScript == [k \in DOMAIN ImmDirected |->
                Settle([instr |-> ImmDirected[k][1]], [imm |-> {ImmDirected[k][2]}])]

\* Immediates with at most two ones or two zeros among bits lo .. n - 1: every
\* bit, and every pair that a wrong scatter could merge, shows.
Sparse(lo, n) == {{i, j} : i \in lo .. n - 1, j \in lo .. n - 1} \cup {{}}
ImmValues(lo, n) == LET s == Sparse(lo, n)
                    IN  {SignExtend(v, n) : v \in s} \cup {SignExtend((lo .. n - 1) \ v, n) : v \in s}
Fields == {0, 31}
ImmRandom ==
  {<<EncI(19, rd, f3, rs1, v), v>> : rd \in Fields, f3 \in {0, 7}, rs1 \in Fields, v \in ImmValues(0, 12)}
  \cup {<<EncS(f3, rs1, rs2, v), v>> : rs1 \in Fields, f3 \in {0, 7}, rs2 \in Fields, v \in ImmValues(0, 12)}
  \cup {<<EncB(f3, rs1, rs2, v), v>> : rs1 \in Fields, f3 \in {0, 7}, rs2 \in Fields, v \in ImmValues(1, 13)}
  \cup {<<EncU(55, rd, v), v>> : rd \in Fields, v \in ImmValues(12, 32)}
  \cup {<<EncJ(rd, v), v>> : rd \in Fields, v \in ImmValues(1, 21)}
ImmDiffers == {v \in ImmRandom : Imm(v[1]) # v[2]}

-----------------------------------------------------------------------------
(* tb_decoder *)

EncR(f7, rs2, rs1, f3, rd) ==
  Put(f7, 25) \cup Put(rs2, 20) \cup Put(rs1, 15) \cup Put(f3, 12) \cup Put(rd, 7) \cup N(Opcode.op)
Alt == 32       \* funct7 with bit 30 set

DecDirected == <<
  <<EncR(0, 2, 1, 0, 5), [rs1_addr |-> 1, rs2_addr |-> 2, rd_addr |-> 5, funct3 |-> 0]>>,
  <<EncR(0, 31, 30, 7, 29), [rs1_addr |-> 30, rs2_addr |-> 31, rd_addr |-> 29, funct3 |-> 7]>>,
  <<EncR(0, 2, 1, 0, 5), [alu_op |-> AluCode.add, alu_src |-> 0, reg_we |-> 1, mem_we |-> 0,
                          mem_re |-> 0, wb_sel |-> 0, illegal |-> 0]>>,
  <<EncR(Alt, 2, 1, 0, 5), [alu_op |-> AluCode.sub]>>,
  <<EncR(0, 2, 1, 5, 5), [alu_op |-> AluCode.srl]>>,
  <<EncR(Alt, 2, 1, 5, 5), [alu_op |-> AluCode.sra]>>,
  <<EncR(0, 2, 1, 2, 5), [alu_op |-> AluCode.slt]>>,
  <<EncI(Opcode.opimm, 5, 0, 1, I(42)), [alu_op |-> AluCode.add, alu_src |-> 1, reg_we |-> 1]>>,
  <<EncI(Opcode.opimm, 5, 0, 1, I(-1)), [alu_op |-> AluCode.add]>>,
  <<EncI(Opcode.opimm, 5, 4, 1, I(-1)), [alu_op |-> AluCode.xor]>>,
  <<EncI(Opcode.opimm, 5, 2, 1, I(-1)), [alu_op |-> AluCode.slt]>>,
  <<EncI(Opcode.opimm, 5, 5, 1, N(4)), [alu_op |-> AluCode.srl]>>,
  <<EncI(Opcode.opimm, 5, 5, 1, Put(Alt, 5) \cup N(4)), [alu_op |-> AluCode.sra]>>,
  <<EncI(Opcode.opimm, 5, 1, 1, N(4)), [alu_op |-> AluCode.sll]>>,
  <<EncI(Opcode.load, 5, 2, 1, I(8)), [alu_op |-> AluCode.add, alu_src |-> 1, reg_we |-> 1,
                                       mem_re |-> 1, mem_we |-> 0, wb_sel |-> 1, funct3 |-> 2]>>,
  <<EncI(Opcode.load, 5, 4, 1, I(8)), [funct3 |-> 4, alu_op |-> AluCode.add]>>,
  <<EncS(2, 1, 2, I(8)), [alu_op |-> AluCode.add, alu_src |-> 1, reg_we |-> 0, mem_we |-> 1,
                          mem_re |-> 0, rs1_addr |-> 1, rs2_addr |-> 2]>>,
  <<EncB(0, 1, 2, N(0)), [is_branch |-> 1, reg_we |-> 0, mem_we |-> 0, is_jal |-> 0, is_jalr |-> 0]>>,
  <<EncJ(1, N(0)), [is_jal |-> 1, is_jalr |-> 0, reg_we |-> 1, wb_sel |-> 2]>>,
  <<EncI(Opcode.jalr, 1, 0, 1, N(0)), [is_jalr |-> 1, is_jal |-> 0, reg_we |-> 1, wb_sel |-> 2,
                                       alu_op |-> AluCode.add, alu_src |-> 1]>>,
  <<EncU(Opcode.lui, 5, H(\h1234, \h5000)), [alu_a_zero |-> 1, alu_a_pc |-> 0, reg_we |-> 1,
                                             wb_sel |-> 0, alu_op |-> AluCode.add]>>,
  <<EncU(Opcode.auipc, 5, H(\h1234, \h5000)), [alu_a_pc |-> 1, alu_a_zero |-> 0, reg_we |-> 1]>>,
  <<N(Opcode.fence), [reg_we |-> 0, mem_we |-> 0, illegal |-> 0]>>,
  <<N(Opcode.system), [reg_we |-> 0, mem_we |-> 0]>>,
  <<N(0), [illegal |-> 1, reg_we |-> 0, mem_we |-> 0]>>,
  <<Ones, [illegal |-> 1]>>, <<N(127), [illegal |-> 1]>> >>
DecScript == [k \in DOMAIN DecDirected |->
                Settle([instr |-> DecDirected[k][1]],
                       [o \in DOMAIN DecDirected[k][2] |-> {DecDirected[k][2][o]}])]

\* Register operations: the fields come out as they went in.
DecRandomR ==
  {<<EncR(f7, rs2, rs1, f3, rd), [rs1_addr |-> rs1, rs2_addr |-> rs2, rd_addr |-> rd, funct3 |-> f3,
                                  alu_op |-> (f7 \div 32) * 8 + f3, reg_we |-> 1, alu_src |-> 0]>> :
     f7 \in {0, Alt}, rs2 \in {0, 10, 21, 31}, rs1 \in {0, 10, 21, 31}, f3 \in 0 .. 7,
     rd \in {0, 10, 21, 31}}
\* No immediate makes a subtraction: shifts aside, whose field is not one.
DecRandomI == {<<EncI(Opcode.opimm, 5, f3, 1, v), [alu_op |-> f3]>> :
                 f3 \in (0 .. 7) \ {1, 5}, v \in ImmValues(0, 12)}
DecDiffers == {v \in DecRandomR \cup DecRandomI :
                 \E o \in DOMAIN v[2] : DecodeWord(v[1])[o] # v[2][o]}
=============================================================================
