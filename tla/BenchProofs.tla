----------------------------- MODULE BenchProofs ----------------------------
(***************************************************************************)
(* What the unit testbenches show on samples, for every instruction word.  *)
(***************************************************************************)
EXTENDS BenchProps, TLAPS

-----------------------------------------------------------------------------
(* The number that a field of at most seven bits counts *)

LEMMA SevenBits ==
  ASSUME NEW s, s \subseteq 0 .. 6
  PROVE  NatOf(s) = (IF 0 \in s THEN 1 ELSE 0) + (IF 1 \in s THEN 2 ELSE 0)
                      + (IF 2 \in s THEN 4 ELSE 0) + (IF 3 \in s THEN 8 ELSE 0)
                      + (IF 4 \in s THEN 16 ELSE 0) + (IF 5 \in s THEN 32 ELSE 0)
                      + (IF 6 \in s THEN 64 ELSE 0)
<1> DEFINE b(i) == IF i \in s THEN 2 ^ i ELSE 0
           E(f) == [i \in 0 .. 30 |-> b(i) + (IF i = 0 THEN 0 ELSE f[i - 1])]
           g == CHOOSE f : f = E(f)
           h == [i \in 0 .. 30 |->
                   IF i = 0 THEN b(0) ELSE IF i = 1 THEN b(0) + b(1)
                   ELSE IF i = 2 THEN b(0) + b(1) + b(2)
                   ELSE IF i = 3 THEN b(0) + b(1) + b(2) + b(3)
                   ELSE IF i = 4 THEN b(0) + b(1) + b(2) + b(3) + b(4)
                   ELSE IF i = 5 THEN b(0) + b(1) + b(2) + b(3) + b(4) + b(5)
                   ELSE b(0) + b(1) + b(2) + b(3) + b(4) + b(5) + b(6)]
<1>1. /\ b(0) = (IF 0 \in s THEN 1 ELSE 0) /\ b(1) = (IF 1 \in s THEN 2 ELSE 0)
      /\ b(2) = (IF 2 \in s THEN 4 ELSE 0) /\ b(3) = (IF 3 \in s THEN 8 ELSE 0)
      /\ b(4) = (IF 4 \in s THEN 16 ELSE 0) /\ b(5) = (IF 5 \in s THEN 32 ELSE 0)
      /\ b(6) = (IF 6 \in s THEN 64 ELSE 0)
      /\ \A i \in 7 .. 30 : b(i) = 0
  <2>1. 2 ^ 0 = 1 /\ 2 ^ 1 = 2 /\ 2 ^ 2 = 4 /\ 2 ^ 3 = 8 /\ 2 ^ 4 = 16 /\ 2 ^ 5 = 32 /\ 2 ^ 6 = 64
    OBVIOUS
  <2> QED BY <2>1
<1> HIDE DEF b
<1>2. \A i \in 0 .. 6 : b(i) \in Int
  BY <1>1
<1>3. h = E(h)
  <2>1. \A i \in 0 .. 30 : h[i] = b(i) + (IF i = 0 THEN 0 ELSE h[i - 1])
    BY <1>1, <1>2
  <2> QED BY <2>1
<1>4. g = E(g)
  <2> HIDE DEF h, E
  <2> QED BY <1>3
<1>5. NatOf(s) = g[30]
  BY DEF NatOf, b
<1> HIDE DEF g
<1>6. /\ g[0] = b(0) /\ g[1] = b(1) + g[0] /\ g[2] = b(2) + g[1] /\ g[3] = b(3) + g[2]
      /\ g[4] = b(4) + g[3] /\ g[5] = b(5) + g[4] /\ g[6] = b(6) + g[5]
      /\ \A i \in 7 .. 30 : g[i] = b(i) + g[i - 1]
  BY <1>2, <1>4
<1>7. g[6] = b(0) + b(1) + b(2) + b(3) + b(4) + b(5) + b(6) /\ g[6] \in Int
  BY <1>2, <1>6
<1>8. g[30] = g[6]
  <2>1. \A i \in 7 .. 30 : g[i] = 0 + g[i - 1]
    BY <1>1, <1>6
  <2>2. \A i \in 7 .. 30 : g[i - 1] \in Int => g[i] = g[i - 1]
    BY <2>1
  <2>3. g[14] = g[6]
    BY <2>2, <1>7
  <2>4. g[22] = g[6]
    BY <2>2, <2>3, <1>7
  <2> QED BY <2>2, <2>4, <1>7
<1> QED BY <1>1, <1>5, <1>7, <1>8

-----------------------------------------------------------------------------
(* The decoder *)

\* The function code is a number of three bits.
LEMMA FunctionCode ==
  ASSUME NEW w
  PROVE  Funct3(w) \in 0 .. 7
<1>1. Field(w, 14, 12) \subseteq 0 .. 2
  BY DEF Field
<1>2. Field(w, 14, 12) \subseteq 0 .. 6
  BY <1>1
<1> QED BY <1>1, <1>2, SevenBits DEF Funct3

\* No two opcodes are the same number: an opcode names its instructions.
LEMMA OpcodesDiffer ==
  ASSUME NEW m \in DOMAIN Opcode, NEW n \in DOMAIN Opcode, Opcode[m] = Opcode[n]
  PROVE  m = n
BY DEF Opcode

LEMMA NamedOps ==
  ASSUME NEW w, NEW n \in DOMAIN Opcode, n # "system", OpcodeOf(w) = Opcode[n]
  PROVE  OpName(w) = n
<1>1. "system" \in DOMAIN Opcode /\ Opcode["system"] = Opcode.system
  BY DEF Opcode
<1>2. OpcodeOf(w) # Opcode.system
  BY <1>1, OpcodesDiffer
<1>3. (CHOOSE k \in DOMAIN Opcode : Opcode[k] = OpcodeOf(w)) = n
  BY OpcodesDiffer
<1> QED BY <1>2, <1>3 DEF OpName

LEMMA UnnamedOps ==
  ASSUME NEW w, \A n \in DOMAIN Opcode : OpcodeOf(w) # Opcode[n]
  PROVE  OpName(w) = "illegal"
<1>1. OpcodeOf(w) # Opcode.system
  BY DEF Opcode
<1> QED BY <1>1 DEF OpName

LEMMA SystemOps ==
  ASSUME NEW w, OpcodeOf(w) = Opcode.system
  PROVE  /\ Funct3(w) # 0 => OpName(w) = "csr"
         /\ Funct3(w) = 0 =>
              LET f12 == NatOf(Field(w, 31, 20))
              IN  /\ f12 \in {0, 1} => OpName(w) = "ecall"
                  /\ f12 = \h302 => OpName(w) = "mret"
                  /\ f12 \notin {0, 1, \h302} => OpName(w) = "illegal"
<1> DEFINE f12 == NatOf(Field(w, 31, 20))
           name == CASE f12 \in {0, 1} -> "ecall" [] f12 = \h302 -> "mret" [] OTHER -> "illegal"
<1>1. OpName(w) = IF Funct3(w) # 0 THEN "csr" ELSE name
  BY DEF OpName
<1>2. /\ f12 \in {0, 1} => name = "ecall"
      /\ f12 = \h302 => name = "mret"
      /\ f12 \notin {0, 1, \h302} => name = "illegal"
  <2> HIDE DEF f12
  <2> QED OBVIOUS
<1> HIDE DEF name
<1> QED BY <1>1, <1>2

\* The fields of the instruction that a word is.
LEMMA InstrFields ==
  ASSUME NEW w, NEW i, i = [InstrOf(w) EXCEPT !.imm = 9]
  PROVE  /\ i.op = OpName(w) /\ i.rd = Rd(w) /\ i.rs1 = Rs1(w) /\ i.rs2 = Rs2(w)
         /\ i.imm = 9 /\ i.csrop = CsrOpName[(Funct3(w) % 4) + 1]
BY DEF InstrOf, R!Nop

\* What has to be shown of a word, one output of the decoder at a time.
LEMMA OneByOne ==
  ASSUME NEW w, NEW i, i = [InstrOf(w) EXCEPT !.imm = 9],
         NEW d, d = DecodeWord(w),
         \A c \in R!CtlBits : d[c] = 1 <=> R!Asserts(i, c),
         d.reg_we = 1 => WbSelName[d.wb_sel + 1] = R!WbSel(i),
         (IF d.alu_a_zero = 1 THEN 0 ELSE IF d.alu_a_pc = 1 THEN 6 ELSE 7) = R!AluA(i, 6, 7),
         (IF d.alu_src = 1 THEN 9 ELSE 8) = R!AluB(i, 8),
         d.csr_op # 0 => CsrOpName[d.csr_op + 1] = i.csrop,
         d.rs1_addr = Rs1(w), d.rs2_addr = Rs2(w), d.rd_addr = Rd(w)
  PROVE  Abstracts(w)
<1>1. {c \in R!CtlBits : d[c] = 1} = R!Decode(i)
  BY DEF R!Decode
<1>2. "reg_we" \in R!Decode(i) => d.reg_we = 1
  BY DEF R!Decode
<1>3. d.rs1_addr = i.rs1 /\ d.rs2_addr = i.rs2 /\ d.rd_addr = i.rd
  BY InstrFields
<1> QED BY <1>1, <1>2, <1>3 DEF Abstracts

\* The control bits, one at a time.
LEMMA ControlBits ==
  ASSUME NEW i
  PROVE  /\ R!Asserts(i, "reg_we") <=>
              i.op \in {"lui", "auipc", "jal", "jalr", "load", "opimm", "op", "csr"}
         /\ R!Asserts(i, "mem_we") <=> i.op = "store"
         /\ R!Asserts(i, "mem_re") <=> i.op = "load"
         /\ R!Asserts(i, "is_branch") <=> i.op = "branch"
         /\ R!Asserts(i, "is_jal") <=> i.op = "jal"
         /\ R!Asserts(i, "is_jalr") <=> i.op = "jalr"
         /\ R!Asserts(i, "illegal") <=> i.op = "illegal" \/ (i.op = "csr" /\ i.csrop = "none")
         /\ R!Asserts(i, "is_mret") <=> i.op = "mret"
         /\ R!Asserts(i, "is_ecall") <=> i.op = "ecall"
         /\ R!Asserts(i, "csr_re") <=> R!CsrReads(i)
         /\ R!Asserts(i, "csr_we") <=> R!CsrWrites(i)
BY DEF R!Asserts

\* An instruction that does not access a CSR.
LEMMA NoAccess ==
  ASSUME NEW i, i.op # "csr"
  PROVE  ~R!CsrReads(i) /\ ~R!CsrWrites(i)
BY DEF R!CsrReads, R!CsrWrites

LEMMA EveryBit ==
  ASSUME NEW i, NEW d,
         d.reg_we = 1 <=> R!Asserts(i, "reg_we"),
         d.mem_we = 1 <=> R!Asserts(i, "mem_we"),
         d.mem_re = 1 <=> R!Asserts(i, "mem_re"),
         d.is_branch = 1 <=> R!Asserts(i, "is_branch"),
         d.is_jal = 1 <=> R!Asserts(i, "is_jal"),
         d.is_jalr = 1 <=> R!Asserts(i, "is_jalr"),
         d.illegal = 1 <=> R!Asserts(i, "illegal"),
         d.is_mret = 1 <=> R!Asserts(i, "is_mret"),
         d.is_ecall = 1 <=> R!Asserts(i, "is_ecall"),
         d.csr_re = 1 <=> R!Asserts(i, "csr_re"),
         d.csr_we = 1 <=> R!Asserts(i, "csr_we")
  PROVE  \A c \in R!CtlBits : d[c] = 1 <=> R!Asserts(i, c)
BY DEF R!CtlBits

\* What decoder.v drives for a word d and what the pipeline's model derives from
\* an instruction i, given the name of its operation.
Agree(w, d, i) ==
  /\ \A c \in R!CtlBits : d[c] = 1 <=> R!Asserts(i, c)
  /\ d.reg_we = 1 => WbSelName[d.wb_sel + 1] = R!WbSel(i)
  /\ (IF d.alu_a_zero = 1 THEN 0 ELSE IF d.alu_a_pc = 1 THEN 6 ELSE 7) = R!AluA(i, 6, 7)
  /\ (IF d.alu_src = 1 THEN 9 ELSE 8) = R!AluB(i, 8)
  /\ d.csr_op # 0 => CsrOpName[d.csr_op + 1] = i.csrop
  /\ d.rs1_addr = Rs1(w) /\ d.rs2_addr = Rs2(w) /\ d.rd_addr = Rd(w)

\* The opcodes that the opcode alone decides, and the words with none of them.
LEMMA OpcodeAgrees ==
  ASSUME NEW w, OpcodeOf(w) # Opcode.system
  PROVE  Agree(w, DecodeWord(w), [InstrOf(w) EXCEPT !.imm = 9])
<1> DEFINE o == OpcodeOf(w)
           d == DecodeWord(w)
           i == [InstrOf(w) EXCEPT !.imm = 9]
<1> SUFFICES Agree(w, d, i)
  OBVIOUS
<1>0. /\ i.op = OpName(w) /\ i.rd = Rd(w) /\ i.rs1 = Rs1(w) /\ i.rs2 = Rs2(w)
      /\ i.imm = 9
  <2> HIDE DEF i
  <2>1. i = [InstrOf(w) EXCEPT !.imm = 9]
    BY DEF i
  <2> QED BY <2>1, InstrFields
<1> HIDE DEF i
<1>1. CASE o = Opcode.lui
  <2>1. i.op = "lui"
    BY <1>0, <1>1, NamedOps DEF Opcode
  <2>2. d = [Plain(w) EXCEPT !.reg_we = 1, !.alu_a_zero = 1]
    BY <1>1 DEF DecodeWord, Opcode
  <2>3. /\ d.reg_we = 1 /\ d.mem_we = 0 /\ d.mem_re = 0
        /\ d.is_branch = 0 /\ d.is_jal = 0 /\ d.is_jalr = 0
        /\ d.illegal = 0 /\ d.is_mret = 0 /\ d.is_ecall = 0 /\ d.csr_re = 0 /\ d.csr_we = 0
        /\ d.wb_sel = 0 /\ d.alu_a_zero = 1 /\ d.alu_a_pc = 0 /\ d.alu_src = 1 /\ d.csr_op = 0
        /\ d.rs1_addr = Rs1(w) /\ d.rs2_addr = Rs2(w) /\ d.rd_addr = Rd(w)
    BY <2>2 DEF Plain
  <2> HIDE DEF d
  <2>4. \A c \in R!CtlBits : d[c] = 1 <=> R!Asserts(i, c)
    BY <2>1, <2>3, ControlBits, NoAccess, EveryBit
  <2>5. /\ d.reg_we = 1 => WbSelName[d.wb_sel + 1] = R!WbSel(i)
        /\ (IF d.alu_a_zero = 1 THEN 0 ELSE IF d.alu_a_pc = 1 THEN 6 ELSE 7) = R!AluA(i, 6, 7)
        /\ (IF d.alu_src = 1 THEN 9 ELSE 8) = R!AluB(i, 8)
    BY <1>0, <2>1, <2>3 DEF R!WbSel, R!AluA, R!AluB, WbSelName
  <2> QED BY <2>3, <2>4, <2>5 DEF Agree
<1>2. CASE o = Opcode.auipc
  <2>1. i.op = "auipc"
    BY <1>0, <1>2, NamedOps DEF Opcode
  <2>2. d = [Plain(w) EXCEPT !.reg_we = 1, !.alu_a_pc = 1]
    BY <1>2 DEF DecodeWord, Opcode
  <2>3. /\ d.reg_we = 1 /\ d.mem_we = 0 /\ d.mem_re = 0
        /\ d.is_branch = 0 /\ d.is_jal = 0 /\ d.is_jalr = 0
        /\ d.illegal = 0 /\ d.is_mret = 0 /\ d.is_ecall = 0 /\ d.csr_re = 0 /\ d.csr_we = 0
        /\ d.wb_sel = 0 /\ d.alu_a_zero = 0 /\ d.alu_a_pc = 1 /\ d.alu_src = 1 /\ d.csr_op = 0
        /\ d.rs1_addr = Rs1(w) /\ d.rs2_addr = Rs2(w) /\ d.rd_addr = Rd(w)
    BY <2>2 DEF Plain
  <2> HIDE DEF d
  <2>4. \A c \in R!CtlBits : d[c] = 1 <=> R!Asserts(i, c)
    BY <2>1, <2>3, ControlBits, NoAccess, EveryBit
  <2>5. /\ d.reg_we = 1 => WbSelName[d.wb_sel + 1] = R!WbSel(i)
        /\ (IF d.alu_a_zero = 1 THEN 0 ELSE IF d.alu_a_pc = 1 THEN 6 ELSE 7) = R!AluA(i, 6, 7)
        /\ (IF d.alu_src = 1 THEN 9 ELSE 8) = R!AluB(i, 8)
    BY <1>0, <2>1, <2>3 DEF R!WbSel, R!AluA, R!AluB, WbSelName
  <2> QED BY <2>3, <2>4, <2>5 DEF Agree
<1>3. CASE o = Opcode.jal
  <2>1. i.op = "jal"
    BY <1>0, <1>3, NamedOps DEF Opcode
  <2>2. d = [Plain(w) EXCEPT !.reg_we = 1, !.wb_sel = 2, !.is_jal = 1]
    BY <1>3 DEF DecodeWord, Opcode
  <2>3. /\ d.reg_we = 1 /\ d.mem_we = 0 /\ d.mem_re = 0
        /\ d.is_branch = 0 /\ d.is_jal = 1 /\ d.is_jalr = 0
        /\ d.illegal = 0 /\ d.is_mret = 0 /\ d.is_ecall = 0 /\ d.csr_re = 0 /\ d.csr_we = 0
        /\ d.wb_sel = 2 /\ d.alu_a_zero = 0 /\ d.alu_a_pc = 0 /\ d.alu_src = 1 /\ d.csr_op = 0
        /\ d.rs1_addr = Rs1(w) /\ d.rs2_addr = Rs2(w) /\ d.rd_addr = Rd(w)
    BY <2>2 DEF Plain
  <2> HIDE DEF d
  <2>4. \A c \in R!CtlBits : d[c] = 1 <=> R!Asserts(i, c)
    BY <2>1, <2>3, ControlBits, NoAccess, EveryBit
  <2>5. /\ d.reg_we = 1 => WbSelName[d.wb_sel + 1] = R!WbSel(i)
        /\ (IF d.alu_a_zero = 1 THEN 0 ELSE IF d.alu_a_pc = 1 THEN 6 ELSE 7) = R!AluA(i, 6, 7)
        /\ (IF d.alu_src = 1 THEN 9 ELSE 8) = R!AluB(i, 8)
    BY <1>0, <2>1, <2>3 DEF R!WbSel, R!AluA, R!AluB, WbSelName
  <2> QED BY <2>3, <2>4, <2>5 DEF Agree
<1>4. CASE o = Opcode.branch
  <2>1. i.op = "branch"
    BY <1>0, <1>4, NamedOps DEF Opcode
  <2>2. d = [Plain(w) EXCEPT !.is_branch = 1]
    BY <1>4 DEF DecodeWord, Opcode
  <2>3. /\ d.reg_we = 0 /\ d.mem_we = 0 /\ d.mem_re = 0
        /\ d.is_branch = 1 /\ d.is_jal = 0 /\ d.is_jalr = 0
        /\ d.illegal = 0 /\ d.is_mret = 0 /\ d.is_ecall = 0 /\ d.csr_re = 0 /\ d.csr_we = 0
        /\ d.wb_sel = 0 /\ d.alu_a_zero = 0 /\ d.alu_a_pc = 0 /\ d.alu_src = 1 /\ d.csr_op = 0
        /\ d.rs1_addr = Rs1(w) /\ d.rs2_addr = Rs2(w) /\ d.rd_addr = Rd(w)
    BY <2>2 DEF Plain
  <2> HIDE DEF d
  <2>4. \A c \in R!CtlBits : d[c] = 1 <=> R!Asserts(i, c)
    BY <2>1, <2>3, ControlBits, NoAccess, EveryBit
  <2>5. /\ d.reg_we = 1 => WbSelName[d.wb_sel + 1] = R!WbSel(i)
        /\ (IF d.alu_a_zero = 1 THEN 0 ELSE IF d.alu_a_pc = 1 THEN 6 ELSE 7) = R!AluA(i, 6, 7)
        /\ (IF d.alu_src = 1 THEN 9 ELSE 8) = R!AluB(i, 8)
    BY <1>0, <2>1, <2>3 DEF R!WbSel, R!AluA, R!AluB, WbSelName
  <2> QED BY <2>3, <2>4, <2>5 DEF Agree
<1>5. CASE o = Opcode.store
  <2>1. i.op = "store"
    BY <1>0, <1>5, NamedOps DEF Opcode
  <2>2. d = [Plain(w) EXCEPT !.mem_we = 1]
    BY <1>5 DEF DecodeWord, Opcode
  <2>3. /\ d.reg_we = 0 /\ d.mem_we = 1 /\ d.mem_re = 0
        /\ d.is_branch = 0 /\ d.is_jal = 0 /\ d.is_jalr = 0
        /\ d.illegal = 0 /\ d.is_mret = 0 /\ d.is_ecall = 0 /\ d.csr_re = 0 /\ d.csr_we = 0
        /\ d.wb_sel = 0 /\ d.alu_a_zero = 0 /\ d.alu_a_pc = 0 /\ d.alu_src = 1 /\ d.csr_op = 0
        /\ d.rs1_addr = Rs1(w) /\ d.rs2_addr = Rs2(w) /\ d.rd_addr = Rd(w)
    BY <2>2 DEF Plain
  <2> HIDE DEF d
  <2>4. \A c \in R!CtlBits : d[c] = 1 <=> R!Asserts(i, c)
    BY <2>1, <2>3, ControlBits, NoAccess, EveryBit
  <2>5. /\ d.reg_we = 1 => WbSelName[d.wb_sel + 1] = R!WbSel(i)
        /\ (IF d.alu_a_zero = 1 THEN 0 ELSE IF d.alu_a_pc = 1 THEN 6 ELSE 7) = R!AluA(i, 6, 7)
        /\ (IF d.alu_src = 1 THEN 9 ELSE 8) = R!AluB(i, 8)
    BY <1>0, <2>1, <2>3 DEF R!WbSel, R!AluA, R!AluB, WbSelName
  <2> QED BY <2>3, <2>4, <2>5 DEF Agree
<1>6. CASE o = Opcode.op
  <2>1. i.op = "op"
    BY <1>0, <1>6, NamedOps DEF Opcode
  <2>2. d = [Plain(w) EXCEPT !.reg_we = 1, !.alu_src = 0, !.alu_op = Bit30(w) + Funct3(w)]
    BY <1>6 DEF DecodeWord, Opcode
  <2>3. /\ d.reg_we = 1 /\ d.mem_we = 0 /\ d.mem_re = 0
        /\ d.is_branch = 0 /\ d.is_jal = 0 /\ d.is_jalr = 0
        /\ d.illegal = 0 /\ d.is_mret = 0 /\ d.is_ecall = 0 /\ d.csr_re = 0 /\ d.csr_we = 0
        /\ d.wb_sel = 0 /\ d.alu_a_zero = 0 /\ d.alu_a_pc = 0 /\ d.alu_src = 0 /\ d.csr_op = 0
        /\ d.rs1_addr = Rs1(w) /\ d.rs2_addr = Rs2(w) /\ d.rd_addr = Rd(w)
    BY <2>2 DEF Plain
  <2> HIDE DEF d
  <2>4. \A c \in R!CtlBits : d[c] = 1 <=> R!Asserts(i, c)
    BY <2>1, <2>3, ControlBits, NoAccess, EveryBit
  <2>5. /\ d.reg_we = 1 => WbSelName[d.wb_sel + 1] = R!WbSel(i)
        /\ (IF d.alu_a_zero = 1 THEN 0 ELSE IF d.alu_a_pc = 1 THEN 6 ELSE 7) = R!AluA(i, 6, 7)
        /\ (IF d.alu_src = 1 THEN 9 ELSE 8) = R!AluB(i, 8)
    BY <1>0, <2>1, <2>3 DEF R!WbSel, R!AluA, R!AluB, WbSelName
  <2> QED BY <2>3, <2>4, <2>5 DEF Agree
<1>7. CASE o = Opcode.jalr
  <2>1. i.op = "jalr"
    BY <1>0, <1>7, NamedOps DEF Opcode
  <2>2. d = [Plain(w) EXCEPT !.reg_we = 1, !.wb_sel = 2, !.is_jalr = 1]
    BY <1>7 DEF DecodeWord, Opcode
  <2>3. /\ d.reg_we = 1 /\ d.mem_we = 0 /\ d.mem_re = 0
        /\ d.is_branch = 0 /\ d.is_jal = 0 /\ d.is_jalr = 1
        /\ d.illegal = 0 /\ d.is_mret = 0 /\ d.is_ecall = 0 /\ d.csr_re = 0 /\ d.csr_we = 0
        /\ d.wb_sel = 2 /\ d.alu_a_zero = 0 /\ d.alu_a_pc = 0 /\ d.alu_src = 1 /\ d.csr_op = 0
        /\ d.rs1_addr = Rs1(w) /\ d.rs2_addr = Rs2(w) /\ d.rd_addr = Rd(w)
    BY <2>2 DEF Plain
  <2> HIDE DEF d
  <2>4. \A c \in R!CtlBits : d[c] = 1 <=> R!Asserts(i, c)
    BY <2>1, <2>3, ControlBits, NoAccess, EveryBit
  <2>5. /\ d.reg_we = 1 => WbSelName[d.wb_sel + 1] = R!WbSel(i)
        /\ (IF d.alu_a_zero = 1 THEN 0 ELSE IF d.alu_a_pc = 1 THEN 6 ELSE 7) = R!AluA(i, 6, 7)
        /\ (IF d.alu_src = 1 THEN 9 ELSE 8) = R!AluB(i, 8)
    BY <1>0, <2>1, <2>3 DEF R!WbSel, R!AluA, R!AluB, WbSelName
  <2> QED BY <2>3, <2>4, <2>5 DEF Agree
<1>8. CASE o = Opcode.load
  <2>1. i.op = "load"
    BY <1>0, <1>8, NamedOps DEF Opcode
  <2>2. d = [Plain(w) EXCEPT !.reg_we = 1, !.mem_re = 1, !.wb_sel = 1]
    BY <1>8 DEF DecodeWord, Opcode
  <2>3. /\ d.reg_we = 1 /\ d.mem_we = 0 /\ d.mem_re = 1
        /\ d.is_branch = 0 /\ d.is_jal = 0 /\ d.is_jalr = 0
        /\ d.illegal = 0 /\ d.is_mret = 0 /\ d.is_ecall = 0 /\ d.csr_re = 0 /\ d.csr_we = 0
        /\ d.wb_sel = 1 /\ d.alu_a_zero = 0 /\ d.alu_a_pc = 0 /\ d.alu_src = 1 /\ d.csr_op = 0
        /\ d.rs1_addr = Rs1(w) /\ d.rs2_addr = Rs2(w) /\ d.rd_addr = Rd(w)
    BY <2>2 DEF Plain
  <2> HIDE DEF d
  <2>4. \A c \in R!CtlBits : d[c] = 1 <=> R!Asserts(i, c)
    BY <2>1, <2>3, ControlBits, NoAccess, EveryBit
  <2>5. /\ d.reg_we = 1 => WbSelName[d.wb_sel + 1] = R!WbSel(i)
        /\ (IF d.alu_a_zero = 1 THEN 0 ELSE IF d.alu_a_pc = 1 THEN 6 ELSE 7) = R!AluA(i, 6, 7)
        /\ (IF d.alu_src = 1 THEN 9 ELSE 8) = R!AluB(i, 8)
    BY <1>0, <2>1, <2>3 DEF R!WbSel, R!AluA, R!AluB, WbSelName
  <2> QED BY <2>3, <2>4, <2>5 DEF Agree
<1>9. CASE o = Opcode.opimm
  <2>1. i.op = "opimm"
    BY <1>0, <1>9, NamedOps DEF Opcode
  <2>2. d = [Plain(w) EXCEPT !.reg_we = 1, !.alu_op = OpImmCode(w)]
    BY <1>9 DEF DecodeWord, Opcode
  <2>3. /\ d.reg_we = 1 /\ d.mem_we = 0 /\ d.mem_re = 0
        /\ d.is_branch = 0 /\ d.is_jal = 0 /\ d.is_jalr = 0
        /\ d.illegal = 0 /\ d.is_mret = 0 /\ d.is_ecall = 0 /\ d.csr_re = 0 /\ d.csr_we = 0
        /\ d.wb_sel = 0 /\ d.alu_a_zero = 0 /\ d.alu_a_pc = 0 /\ d.alu_src = 1 /\ d.csr_op = 0
        /\ d.rs1_addr = Rs1(w) /\ d.rs2_addr = Rs2(w) /\ d.rd_addr = Rd(w)
    BY <2>2 DEF Plain
  <2> HIDE DEF d
  <2>4. \A c \in R!CtlBits : d[c] = 1 <=> R!Asserts(i, c)
    BY <2>1, <2>3, ControlBits, NoAccess, EveryBit
  <2>5. /\ d.reg_we = 1 => WbSelName[d.wb_sel + 1] = R!WbSel(i)
        /\ (IF d.alu_a_zero = 1 THEN 0 ELSE IF d.alu_a_pc = 1 THEN 6 ELSE 7) = R!AluA(i, 6, 7)
        /\ (IF d.alu_src = 1 THEN 9 ELSE 8) = R!AluB(i, 8)
    BY <1>0, <2>1, <2>3 DEF R!WbSel, R!AluA, R!AluB, WbSelName
  <2> QED BY <2>3, <2>4, <2>5 DEF Agree
<1>10. CASE o = Opcode.fence
  <2>1. i.op = "fence"
    BY <1>0, <1>10, NamedOps DEF Opcode
  <2>2. d = Plain(w)
    BY <1>10 DEF DecodeWord, Opcode
  <2>3. /\ d.reg_we = 0 /\ d.mem_we = 0 /\ d.mem_re = 0
        /\ d.is_branch = 0 /\ d.is_jal = 0 /\ d.is_jalr = 0
        /\ d.illegal = 0 /\ d.is_mret = 0 /\ d.is_ecall = 0 /\ d.csr_re = 0 /\ d.csr_we = 0
        /\ d.wb_sel = 0 /\ d.alu_a_zero = 0 /\ d.alu_a_pc = 0 /\ d.alu_src = 1 /\ d.csr_op = 0
        /\ d.rs1_addr = Rs1(w) /\ d.rs2_addr = Rs2(w) /\ d.rd_addr = Rd(w)
    BY <2>2 DEF Plain
  <2> HIDE DEF d
  <2>4. \A c \in R!CtlBits : d[c] = 1 <=> R!Asserts(i, c)
    BY <2>1, <2>3, ControlBits, NoAccess, EveryBit
  <2>5. /\ d.reg_we = 1 => WbSelName[d.wb_sel + 1] = R!WbSel(i)
        /\ (IF d.alu_a_zero = 1 THEN 0 ELSE IF d.alu_a_pc = 1 THEN 6 ELSE 7) = R!AluA(i, 6, 7)
        /\ (IF d.alu_src = 1 THEN 9 ELSE 8) = R!AluB(i, 8)
    BY <1>0, <2>1, <2>3 DEF R!WbSel, R!AluA, R!AluB, WbSelName
  <2> QED BY <2>3, <2>4, <2>5 DEF Agree
<1>11. CASE \A k \in DOMAIN Opcode : o # Opcode[k]
  <2>1. i.op = "illegal"
    BY <1>0, <1>11, UnnamedOps
  <2>2. d = [Plain(w) EXCEPT !.illegal = 1]
    BY <1>11 DEF DecodeWord, Opcode
  <2>3. /\ d.reg_we = 0 /\ d.mem_we = 0 /\ d.mem_re = 0
        /\ d.is_branch = 0 /\ d.is_jal = 0 /\ d.is_jalr = 0
        /\ d.illegal = 1 /\ d.is_mret = 0 /\ d.is_ecall = 0 /\ d.csr_re = 0 /\ d.csr_we = 0
        /\ d.wb_sel = 0 /\ d.alu_a_zero = 0 /\ d.alu_a_pc = 0 /\ d.alu_src = 1 /\ d.csr_op = 0
        /\ d.rs1_addr = Rs1(w) /\ d.rs2_addr = Rs2(w) /\ d.rd_addr = Rd(w)
    BY <2>2 DEF Plain
  <2> HIDE DEF d
  <2>4. \A c \in R!CtlBits : d[c] = 1 <=> R!Asserts(i, c)
    BY <2>1, <2>3, ControlBits, NoAccess, EveryBit
  <2>5. /\ d.reg_we = 1 => WbSelName[d.wb_sel + 1] = R!WbSel(i)
        /\ (IF d.alu_a_zero = 1 THEN 0 ELSE IF d.alu_a_pc = 1 THEN 6 ELSE 7) = R!AluA(i, 6, 7)
        /\ (IF d.alu_src = 1 THEN 9 ELSE 8) = R!AluB(i, 8)
    BY <1>0, <2>1, <2>3 DEF R!WbSel, R!AluA, R!AluB, WbSelName
  <2> QED BY <2>3, <2>4, <2>5 DEF Agree
<1> QED BY <1>1, <1>2, <1>3, <1>4, <1>5, <1>6, <1>7, <1>8, <1>9, <1>10, <1>11 DEF Opcode

LEMMA DecodesSystem ==
  ASSUME NEW w, OpcodeOf(w) = Opcode.system
  PROVE  DecodeWord(w) = DecodeSystem(w)
BY DEF DecodeWord, Opcode

\* The operation that the two low bits of the function code name.
LEMMA CsrOperation ==
  ASSUME NEW kind \in 0 .. 3, NEW name, name = CsrOpName[kind + 1]
  PROVE  /\ name = "none" <=> kind = 0
         /\ name = "rw" <=> kind = 1
BY DEF CsrOpName

\* The system opcode: CSR instructions, ecall and ebreak, mret, and the rest.
LEMMA SystemAgrees ==
  ASSUME NEW w, OpcodeOf(w) = Opcode.system
  PROVE  Agree(w, DecodeWord(w), [InstrOf(w) EXCEPT !.imm = 9])
<1> DEFINE f12 == NatOf(Field(w, 31, 20))
           kind == Funct3(w) % 4
           d == DecodeWord(w)
           i == [InstrOf(w) EXCEPT !.imm = 9]
<1> SUFFICES Agree(w, d, i)
  OBVIOUS
<1>0. /\ i.op = OpName(w) /\ i.rd = Rd(w) /\ i.rs1 = Rs1(w) /\ i.rs2 = Rs2(w)
      /\ i.imm = 9 /\ i.csrop = CsrOpName[kind + 1]
  <2> HIDE DEF i
  <2>1. i = [InstrOf(w) EXCEPT !.imm = 9]
    BY DEF i
  <2> QED BY <2>1, InstrFields
<1> HIDE DEF i
<1>1. CASE Funct3(w) = 0 /\ f12 \in {0, 1}
  <2>1. i.op = "ecall"
    BY <1>0, <1>1, SystemOps
  <2>2. d = [Plain(w) EXCEPT !.is_ecall = 1]
    BY <1>1, DecodesSystem DEF DecodeSystem
  <2>3. /\ d.reg_we = 0 /\ d.mem_we = 0 /\ d.mem_re = 0
        /\ d.is_branch = 0 /\ d.is_jal = 0 /\ d.is_jalr = 0
        /\ d.illegal = 0 /\ d.is_mret = 0 /\ d.is_ecall = 1 /\ d.csr_re = 0 /\ d.csr_we = 0
        /\ d.wb_sel = 0 /\ d.alu_a_zero = 0 /\ d.alu_a_pc = 0 /\ d.alu_src = 1 /\ d.csr_op = 0
        /\ d.rs1_addr = Rs1(w) /\ d.rs2_addr = Rs2(w) /\ d.rd_addr = Rd(w)
    BY <2>2 DEF Plain
  <2> HIDE DEF d
  <2>4. \A c \in R!CtlBits : d[c] = 1 <=> R!Asserts(i, c)
    BY <2>1, <2>3, ControlBits, NoAccess, EveryBit
  <2>5. /\ d.reg_we = 1 => WbSelName[d.wb_sel + 1] = R!WbSel(i)
        /\ (IF d.alu_a_zero = 1 THEN 0 ELSE IF d.alu_a_pc = 1 THEN 6 ELSE 7) = R!AluA(i, 6, 7)
        /\ (IF d.alu_src = 1 THEN 9 ELSE 8) = R!AluB(i, 8)
    BY <1>0, <2>1, <2>3 DEF R!WbSel, R!AluA, R!AluB, WbSelName
  <2> QED BY <2>3, <2>4, <2>5 DEF Agree
<1>2. CASE Funct3(w) = 0 /\ f12 = \h302
  <2>1. i.op = "mret"
    BY <1>0, <1>2, SystemOps
  <2>2. d = [Plain(w) EXCEPT !.is_mret = 1]
    BY <1>2, DecodesSystem DEF DecodeSystem
  <2>3. /\ d.reg_we = 0 /\ d.mem_we = 0 /\ d.mem_re = 0
        /\ d.is_branch = 0 /\ d.is_jal = 0 /\ d.is_jalr = 0
        /\ d.illegal = 0 /\ d.is_mret = 1 /\ d.is_ecall = 0 /\ d.csr_re = 0 /\ d.csr_we = 0
        /\ d.wb_sel = 0 /\ d.alu_a_zero = 0 /\ d.alu_a_pc = 0 /\ d.alu_src = 1 /\ d.csr_op = 0
        /\ d.rs1_addr = Rs1(w) /\ d.rs2_addr = Rs2(w) /\ d.rd_addr = Rd(w)
    BY <2>2 DEF Plain
  <2> HIDE DEF d
  <2>4. \A c \in R!CtlBits : d[c] = 1 <=> R!Asserts(i, c)
    BY <2>1, <2>3, ControlBits, NoAccess, EveryBit
  <2>5. /\ d.reg_we = 1 => WbSelName[d.wb_sel + 1] = R!WbSel(i)
        /\ (IF d.alu_a_zero = 1 THEN 0 ELSE IF d.alu_a_pc = 1 THEN 6 ELSE 7) = R!AluA(i, 6, 7)
        /\ (IF d.alu_src = 1 THEN 9 ELSE 8) = R!AluB(i, 8)
    BY <1>0, <2>1, <2>3 DEF R!WbSel, R!AluA, R!AluB, WbSelName
  <2> QED BY <2>3, <2>4, <2>5 DEF Agree
<1>3. CASE Funct3(w) = 0 /\ f12 \notin {0, 1, \h302}
  <2>1. i.op = "illegal"
    BY <1>0, <1>3, SystemOps
  <2>2. d = [Plain(w) EXCEPT !.illegal = 1]
    BY <1>3, DecodesSystem DEF DecodeSystem
  <2>3. /\ d.reg_we = 0 /\ d.mem_we = 0 /\ d.mem_re = 0
        /\ d.is_branch = 0 /\ d.is_jal = 0 /\ d.is_jalr = 0
        /\ d.illegal = 1 /\ d.is_mret = 0 /\ d.is_ecall = 0 /\ d.csr_re = 0 /\ d.csr_we = 0
        /\ d.wb_sel = 0 /\ d.alu_a_zero = 0 /\ d.alu_a_pc = 0 /\ d.alu_src = 1 /\ d.csr_op = 0
        /\ d.rs1_addr = Rs1(w) /\ d.rs2_addr = Rs2(w) /\ d.rd_addr = Rd(w)
    BY <2>2 DEF Plain
  <2> HIDE DEF d
  <2>4. \A c \in R!CtlBits : d[c] = 1 <=> R!Asserts(i, c)
    BY <2>1, <2>3, ControlBits, NoAccess, EveryBit
  <2>5. /\ d.reg_we = 1 => WbSelName[d.wb_sel + 1] = R!WbSel(i)
        /\ (IF d.alu_a_zero = 1 THEN 0 ELSE IF d.alu_a_pc = 1 THEN 6 ELSE 7) = R!AluA(i, 6, 7)
        /\ (IF d.alu_src = 1 THEN 9 ELSE 8) = R!AluB(i, 8)
    BY <1>0, <2>1, <2>3 DEF R!WbSel, R!AluA, R!AluB, WbSelName
  <2> QED BY <2>3, <2>4, <2>5 DEF Agree
<1>4. CASE Funct3(w) # 0
  <2>1. i.op = "csr"
    BY <1>0, <1>4, SystemOps
  <2>2. d = DecodeCsr(w)
    BY <1>4, DecodesSystem DEF DecodeSystem
  <2>3. /\ d.reg_we = 1 /\ d.mem_we = 0 /\ d.mem_re = 0
        /\ d.is_branch = 0 /\ d.is_jal = 0 /\ d.is_jalr = 0
        /\ d.illegal = Num(kind = 0) /\ d.is_mret = 0 /\ d.is_ecall = 0
        /\ d.csr_re = Num(~(kind = 1 /\ Rd(w) = 0)) /\ d.csr_we = Num(~(kind # 1 /\ Rs1(w) = 0))
        /\ d.wb_sel = 3 /\ d.alu_a_zero = 0 /\ d.alu_a_pc = 0 /\ d.alu_src = 1 /\ d.csr_op = kind
        /\ d.rs1_addr = Rs1(w) /\ d.rs2_addr = Rs2(w) /\ d.rd_addr = Rd(w)
    BY <2>2 DEF DecodeCsr, Plain
  <2>4. kind \in 0 .. 3
    BY FunctionCode
  <2> HIDE DEF d, kind
  <2>5. /\ i.csrop = "none" <=> kind = 0
        /\ i.csrop = "rw" <=> kind = 1
    BY <1>0, <2>4, CsrOperation
  <2>6. /\ d.illegal = 1 <=> kind = 0
        /\ d.csr_re = 1 <=> ~(kind = 1 /\ Rd(w) = 0)
        /\ d.csr_we = 1 <=> ~(kind # 1 /\ Rs1(w) = 0)
    BY <2>3 DEF Num
  <2>7. /\ R!Asserts(i, "illegal") <=> kind = 0
        /\ R!Asserts(i, "csr_re") <=> ~(kind = 1 /\ Rd(w) = 0)
        /\ R!Asserts(i, "csr_we") <=> ~(kind # 1 /\ Rs1(w) = 0)
    BY <1>0, <2>1, <2>5, ControlBits DEF R!CsrReads, R!CsrWrites
  <2>8. \A c \in R!CtlBits : d[c] = 1 <=> R!Asserts(i, c)
    <3>1. /\ R!Asserts(i, "reg_we") /\ ~R!Asserts(i, "mem_we") /\ ~R!Asserts(i, "mem_re")
          /\ ~R!Asserts(i, "is_branch") /\ ~R!Asserts(i, "is_jal") /\ ~R!Asserts(i, "is_jalr")
          /\ ~R!Asserts(i, "is_mret") /\ ~R!Asserts(i, "is_ecall")
      BY <2>1, ControlBits
    <3> QED BY <2>3, <2>6, <2>7, <3>1, EveryBit
  <2>9. /\ d.reg_we = 1 => WbSelName[d.wb_sel + 1] = R!WbSel(i)
        /\ (IF d.alu_a_zero = 1 THEN 0 ELSE IF d.alu_a_pc = 1 THEN 6 ELSE 7) = R!AluA(i, 6, 7)
        /\ (IF d.alu_src = 1 THEN 9 ELSE 8) = R!AluB(i, 8)
    BY <1>0, <2>1, <2>3 DEF R!WbSel, R!AluA, R!AluB, WbSelName
  <2> QED BY <1>0, <2>3, <2>8, <2>9 DEF Agree
<1> QED BY <1>1, <1>2, <1>3, <1>4

\* For every instruction word, whatever its bits, decoder.v drives the control
\* bits, the selections of the operands and of the value written back, the CSR
\* operation and the register numbers that the pipeline's model derives from the
\* instruction that the word is (decoder.v:38-100).
THEOREM EveryWordAbstracts ==
  ASSUME NEW w
  PROVE  Abstracts(w)
<1> DEFINE d == DecodeWord(w)
           i == [InstrOf(w) EXCEPT !.imm = 9]
<1>1. Agree(w, d, i)
  BY OpcodeAgrees, SystemAgrees
<1>2. d = DecodeWord(w) /\ i = [InstrOf(w) EXCEPT !.imm = 9]
  OBVIOUS
<1> HIDE DEF d, i
<1> QED BY <1>1, <1>2, OneByOne DEF Agree

\* The property of the bench of the decoder, for words other than those it has
\* as well.
THEOREM DecoderAgrees == Spec => []DecoderIsTheCores
<1>1. NotAbstracted = {}
  BY EveryWordAbstracts DEF NotAbstracted
<1>2. DecoderIsTheCores
  BY <1>1 DEF DecoderIsTheCores
<1> QED BY <1>2, PTL

-----------------------------------------------------------------------------
(* Immediates *)

\* Bits of a field, of a field put elsewhere, and of a literal.
LEMMA FieldBits ==
  ASSUME NEW w \in SUBSET Int, NEW hi \in Int, NEW lo \in Int, NEW x \in Int
  PROVE  x \in Field(w, hi, lo) <=> x \in 0 .. hi - lo /\ x + lo \in w
<1>1. x \in Field(w, hi, lo) => x \in 0 .. hi - lo /\ x + lo \in w
  BY DEF Field
<1>2. ASSUME x \in 0 .. hi - lo, x + lo \in w
      PROVE  x \in Field(w, hi, lo)
  <2>1. x + lo \in w \cap (lo .. hi) /\ x = (x + lo) - lo
    BY <1>2
  <2> QED BY <2>1 DEF Field
<1> QED BY <1>1, <1>2

LEMMA AtBits ==
  ASSUME NEW w \in SUBSET Int, NEW lo \in Int, NEW x \in Int
  PROVE  x \in At(w, lo) <=> x \in 0 .. XLEN - 1 /\ x - lo \in w
<1>0. XLEN \in Int
  BY XlenAssumption
<1>1. x \in At(w, lo) => x \in 0 .. XLEN - 1 /\ x - lo \in w
  BY <1>0 DEF At
<1>2. ASSUME x \in 0 .. XLEN - 1, x - lo \in w
      PROVE  x \in At(w, lo)
  <2>1. x = (x - lo) + lo
    BY <1>0
  <2> QED BY <1>2, <2>1 DEF At
<1> QED BY <1>1, <1>2

LEMMA PowersOfTwo ==
  /\ \A i \in 3 .. 30 : 2 ^ i \in Int /\ 2 ^ i >= 8
  /\ \A i \in 5 .. 30 : 2 ^ i \in Int /\ 2 ^ i >= 32
  /\ \A i \in 7 .. 30 : 2 ^ i \in Int /\ 2 ^ i >= 128
<1> DEFINE p == [i \in 0 .. 30 |-> 2 ^ i]
<1>1. /\ p[0] = 1 /\ p[1] = 2 /\ p[2] = 4 /\ p[3] = 8
      /\ p[4] = 16 /\ p[5] = 32 /\ p[6] = 64 /\ p[7] = 128
      /\ p[8] = 256 /\ p[9] = 512 /\ p[10] = 1024 /\ p[11] = 2048
      /\ p[12] = 4096 /\ p[13] = 8192 /\ p[14] = 16384 /\ p[15] = 32768
      /\ p[16] = 65536 /\ p[17] = 131072 /\ p[18] = 262144 /\ p[19] = 524288
      /\ p[20] = 1048576 /\ p[21] = 2097152 /\ p[22] = 4194304 /\ p[23] = 8388608
      /\ p[24] = 16777216 /\ p[25] = 33554432 /\ p[26] = 67108864 /\ p[27] = 134217728
      /\ p[28] = 268435456 /\ p[29] = 536870912 /\ p[30] = 1073741824
  OBVIOUS
<1>2. \A i \in 0 .. 30 : p[i] = 2 ^ i
  OBVIOUS
<1> HIDE DEF p
<1>3. ASSUME NEW i \in 3 .. 30
      PROVE  2 ^ i \in Int /\ 2 ^ i >= 8
  <2>1. p[i] \in Int /\ p[i] >= 8
    BY <1>1
  <2>2. i \in 0 .. 30
    OBVIOUS
  <2>3. p[i] = 2 ^ i
    BY <1>2, <2>2, Zenon
  <2> QED BY <2>1, <2>3, Zenon
<1>4. ASSUME NEW i \in 5 .. 30
      PROVE  2 ^ i \in Int /\ 2 ^ i >= 32
  <2>1. p[i] \in Int /\ p[i] >= 32
    BY <1>1
  <2>2. i \in 0 .. 30
    OBVIOUS
  <2>3. p[i] = 2 ^ i
    BY <1>2, <2>2, Zenon
  <2> QED BY <2>1, <2>3, Zenon
<1>5. ASSUME NEW i \in 7 .. 30
      PROVE  2 ^ i \in Int /\ 2 ^ i >= 128
  <2>1. p[i] \in Int /\ p[i] >= 128
    BY <1>1
  <2>2. i \in 0 .. 30
    OBVIOUS
  <2>3. p[i] = 2 ^ i
    BY <1>2, <2>2, Zenon
  <2> QED BY <2>1, <2>3, Zenon
<1> QED BY <1>3, <1>4, <1>5

LEMMA SmallLiteral ==
  ASSUME XLEN = 32
  PROVE  /\ \A n \in 0 .. 7 : N(n) \subseteq 0 .. 2
         /\ \A n \in 0 .. 31 : N(n) \subseteq 0 .. 4
         /\ \A n \in 0 .. 127 : N(n) \subseteq 0 .. 6
<1>1. ASSUME NEW k \in Nat, NEW b \in {8, 32, 128}, NEW n \in Nat, n < b,
             \A i \in k .. 30 : 2 ^ i \in Int /\ 2 ^ i >= b
      PROVE  N(n) \subseteq 0 .. k - 1
  <2>1. ASSUME NEW i \in k .. 30
        PROVE  (n \div 2 ^ i) % 2 = 0
    <3> DEFINE q == 2 ^ i
    <3>1. q \in Int /\ q >= b
      BY <1>1, <2>1
    <3> HIDE DEF q
    <3>2. n \div q = 0
      BY <1>1, <3>1
    <3>3. 0 % 2 = 0
      OBVIOUS
    <3> QED BY <3>2, <3>3 DEF q
  <2>2. ASSUME NEW i \in N(n)
        PROVE  i \in 0 .. k - 1
    <3>1. i \in 0 .. 31 /\ i < 31 /\ (n \div 2 ^ i) % 2 = 1
      BY <2>2 DEF N, FromNat
    <3>2. i \notin k .. 30
      BY <2>1, <3>1
    <3> QED BY <1>1, <3>1, <3>2
  <2> QED BY <2>2
<1>2. ASSUME NEW n \in 0 .. 7
      PROVE  N(n) \subseteq 0 .. 2
  <2>1. N(n) \subseteq 0 .. 3 - 1
    <3>1. 3 \in Nat /\ 8 \in {8, 32, 128} /\ n \in Nat /\ n < 8
      OBVIOUS
    <3> QED BY <1>1, <3>1, PowersOfTwo, Zenon
  <2> QED BY <2>1
<1>3. ASSUME NEW n \in 0 .. 31
      PROVE  N(n) \subseteq 0 .. 4
  <2>1. N(n) \subseteq 0 .. 5 - 1
    <3>1. 5 \in Nat /\ 32 \in {8, 32, 128} /\ n \in Nat /\ n < 32
      OBVIOUS
    <3> QED BY <1>1, <3>1, PowersOfTwo, Zenon
  <2> QED BY <2>1
<1>4. ASSUME NEW n \in 0 .. 127
      PROVE  N(n) \subseteq 0 .. 6
  <2>1. N(n) \subseteq 0 .. 7 - 1
    <3>1. 7 \in Nat /\ 128 \in {8, 32, 128} /\ n \in Nat /\ n < 128
      OBVIOUS
    <3> QED BY <1>1, <3>1, PowersOfTwo, Zenon
  <2> QED BY <2>1
<1> QED BY <1>2, <1>3, <1>4

LEMMA LiteralCounts ==
  ASSUME XLEN = 32, NEW n \in 0 .. 127
  PROVE  NatOf(N(n)) = n
<1>1. N(n) \subseteq 0 .. 6
  BY SmallLiteral
<1>2. \A i \in 0 .. 6 : i \in N(n) <=> (n \div 2 ^ i) % 2 = 1
  BY DEF N, FromNat
<1>3. /\ 0 \in N(n) <=> n % 2 = 1
      /\ 1 \in N(n) <=> (n \div 2) % 2 = 1
      /\ 2 \in N(n) <=> (n \div 4) % 2 = 1
      /\ 3 \in N(n) <=> (n \div 8) % 2 = 1
      /\ 4 \in N(n) <=> (n \div 16) % 2 = 1
      /\ 5 \in N(n) <=> (n \div 32) % 2 = 1
      /\ 6 \in N(n) <=> (n \div 64) % 2 = 1
  <2>1. 2 ^ 0 = 1 /\ 2 ^ 1 = 2 /\ 2 ^ 2 = 4 /\ 2 ^ 3 = 8 /\ 2 ^ 4 = 16 /\ 2 ^ 5 = 32 /\ 2 ^ 6 = 64
    OBVIOUS
  <2>2. n \div 1 = n
    OBVIOUS
  <2> QED BY <1>2, <2>1, <2>2
<1> QED BY <1>1, <1>3, SevenBits

\* Where the bits of a piece of an immediate and of a register number land.
LEMMA PieceBits ==
  ASSUME XLEN = 32, NEW v \in SUBSET Int,
         NEW hi \in Int, NEW lo \in Int, NEW to \in Int, NEW x \in Int
  PROVE  x \in Piece(v, hi, lo, to) <=>
           x \in 0 .. 31 /\ x - to \in 0 .. hi - lo /\ x - to + lo \in v
<1> DEFINE f == Field(v, hi, lo)
<1>1. f \in SUBSET Int
  BY DEF Field
<1>2. x - to \in f <=> x - to \in 0 .. hi - lo /\ x - to + lo \in v
  BY FieldBits
<1> HIDE DEF f
<1>3. x \in At(f, to) <=> x \in 0 .. XLEN - 1 /\ x - to \in f
  BY <1>1, AtBits
<1> QED BY <1>2, <1>3 DEF Piece, f

LEMMA PutBits ==
  ASSUME XLEN = 32, NEW lo \in 0 .. 31, NEW x \in Int
  PROVE  /\ \A n \in 0 .. 31 : x \in Put(n, lo) => x \in lo .. lo + 4
         /\ \A n \in 0 .. 7 : x \in Put(n, lo) => x \in lo .. lo + 2
<1>1. \A n \in 0 .. 31 : N(n) \in SUBSET Int /\ N(n) \subseteq 0 .. 4
  BY SmallLiteral
<1>2. \A n \in 0 .. 31 : x \in Put(n, lo) => x - lo \in N(n)
  BY <1>1, AtBits DEF Put
<1>3. \A n \in 0 .. 7 : N(n) \subseteq 0 .. 2
  BY SmallLiteral
<1> QED BY <1>1, <1>2, <1>3

LEMMA OpcodeBits ==
  ASSUME XLEN = 32, NEW op \in 0 .. 127, NEW e \in SUBSET (0 .. 31),
         \A x \in 0 .. 6 : x \in e <=> x \in N(op)
  PROVE  OpcodeOf(e) = op
<1>1. N(op) \subseteq 0 .. 6
  BY SmallLiteral
<1>2. \A x \in Int : x \in Field(e, 6, 0) <=> x \in 0 .. 6 /\ x \in e
  BY FieldBits
<1>3. Field(e, 6, 0) \subseteq Int
  BY DEF Field
<1>4. Field(e, 6, 0) = N(op)
  BY <1>1, <1>2, <1>3
<1> QED BY <1>4, LiteralCounts DEF OpcodeOf

\* The bits of an encoded instruction that hold the opcode and the immediate.
HoldsI(e, op, v) ==
  \A x \in 0 .. 31 :
    /\ x \in 0 .. 6 => (x \in e <=> x \in N(op))
    /\ x \in 20 .. 31 => (x \in e <=> x - 20 \in v)

LEMMA EncodedI ==
  ASSUME XLEN = 32, NEW v \in SUBSET (0 .. 31), NEW op \in 0 .. 127,
         NEW rd \in 0 .. 31, NEW f3 \in 0 .. 7, NEW rs1 \in 0 .. 31
  PROVE  HoldsI(EncI(op, rd, f3, rs1, v), op, v)
<1> SUFFICES \A x \in 0 .. 31 :
               LET e == EncI(op, rd, f3, rs1, v)
               IN  /\ x \in 0 .. 6 => (x \in e <=> x \in N(op))
                   /\ x \in 20 .. 31 => (x \in e <=> x - 20 \in v)
  BY DEF HoldsI
<1> TAKE x \in 0 .. 31
<1>1. x \in Piece(v, 11, 0, 20) <=> x \in 20 .. 31 /\ x - 20 \in v
  BY PieceBits
<1>2. /\ x \in Put(rs1, 15) => x \in 15 .. 19
      /\ x \in Put(f3, 12) => x \in 12 .. 14
      /\ x \in Put(rd, 7) => x \in 7 .. 11
  BY PutBits
<1>3. x \in N(op) => x \in 0 .. 6
  BY SmallLiteral
<1> QED BY <1>1, <1>2, <1>3 DEF EncI

HoldsS(e, v) ==
  \A x \in 0 .. 31 :
    /\ x \in 0 .. 6 => (x \in e <=> x \in N(Opcode.store))
    /\ x \in 7 .. 11 => (x \in e <=> x - 7 \in v)
    /\ x \in 25 .. 31 => (x \in e <=> x - 20 \in v)

LEMMA EncodedS ==
  ASSUME XLEN = 32, NEW v \in SUBSET (0 .. 31),
         NEW f3 \in 0 .. 7, NEW rs1 \in 0 .. 31, NEW rs2 \in 0 .. 31
  PROVE  HoldsS(EncS(f3, rs1, rs2, v), v)
<1> SUFFICES \A x \in 0 .. 31 :
               LET e == EncS(f3, rs1, rs2, v)
               IN  /\ x \in 0 .. 6 => (x \in e <=> x \in N(Opcode.store))
                   /\ x \in 7 .. 11 => (x \in e <=> x - 7 \in v)
                   /\ x \in 25 .. 31 => (x \in e <=> x - 20 \in v)
  BY DEF HoldsS
<1> TAKE x \in 0 .. 31
<1>1. /\ x \in Piece(v, 11, 5, 25) <=> x \in 25 .. 31 /\ x - 20 \in v
      /\ x \in Piece(v, 4, 0, 7) <=> x \in 7 .. 11 /\ x - 7 \in v
  BY PieceBits
<1>2. /\ x \in Put(rs1, 15) => x \in 15 .. 19
      /\ x \in Put(rs2, 20) => x \in 20 .. 24
      /\ x \in Put(f3, 12) => x \in 12 .. 14
  BY PutBits
<1>3. x \in N(Opcode.store) => x \in 0 .. 6
  BY SmallLiteral DEF Opcode
<1> QED BY <1>1, <1>2, <1>3 DEF EncS

HoldsB(e, v) ==
  \A x \in 0 .. 31 :
    /\ x \in 0 .. 6 => (x \in e <=> x \in N(Opcode.branch))
    /\ x = 7 => (x \in e <=> 11 \in v)
    /\ x \in 8 .. 11 => (x \in e <=> x - 7 \in v)
    /\ x \in 25 .. 30 => (x \in e <=> x - 20 \in v)
    /\ x = 31 => (x \in e <=> 12 \in v)

LEMMA EncodedB ==
  ASSUME XLEN = 32, NEW v \in SUBSET (0 .. 31),
         NEW f3 \in 0 .. 7, NEW rs1 \in 0 .. 31, NEW rs2 \in 0 .. 31
  PROVE  HoldsB(EncB(f3, rs1, rs2, v), v)
<1> SUFFICES \A x \in 0 .. 31 :
               LET e == EncB(f3, rs1, rs2, v)
               IN  /\ x \in 0 .. 6 => (x \in e <=> x \in N(Opcode.branch))
                   /\ x = 7 => (x \in e <=> 11 \in v)
                   /\ x \in 8 .. 11 => (x \in e <=> x - 7 \in v)
                   /\ x \in 25 .. 30 => (x \in e <=> x - 20 \in v)
                   /\ x = 31 => (x \in e <=> 12 \in v)
  BY DEF HoldsB
<1> TAKE x \in 0 .. 31
<1>1. /\ x \in Piece(v, 12, 12, 31) <=> x = 31 /\ 12 \in v
      /\ x \in Piece(v, 10, 5, 25) <=> x \in 25 .. 30 /\ x - 20 \in v
      /\ x \in Piece(v, 4, 1, 8) <=> x \in 8 .. 11 /\ x - 7 \in v
      /\ x \in Piece(v, 11, 11, 7) <=> x = 7 /\ 11 \in v
  BY PieceBits
<1>2. /\ x \in Put(rs1, 15) => x \in 15 .. 19
      /\ x \in Put(rs2, 20) => x \in 20 .. 24
      /\ x \in Put(f3, 12) => x \in 12 .. 14
  BY PutBits
<1>3. x \in N(Opcode.branch) => x \in 0 .. 6
  BY SmallLiteral DEF Opcode
<1> QED BY <1>1, <1>2, <1>3 DEF EncB

HoldsU(e, op, v) ==
  \A x \in 0 .. 31 :
    /\ x \in 0 .. 6 => (x \in e <=> x \in N(op))
    /\ x \in 12 .. 31 => (x \in e <=> x \in v)

LEMMA EncodedU ==
  ASSUME XLEN = 32, NEW v \in SUBSET (0 .. 31), NEW op \in 0 .. 127,
         NEW rd \in 0 .. 31
  PROVE  HoldsU(EncU(op, rd, v), op, v)
<1> SUFFICES \A x \in 0 .. 31 :
               LET e == EncU(op, rd, v)
               IN  /\ x \in 0 .. 6 => (x \in e <=> x \in N(op))
                   /\ x \in 12 .. 31 => (x \in e <=> x \in v)
  BY DEF HoldsU
<1> TAKE x \in 0 .. 31
<1>1. x \in Piece(v, 31, 12, 12) <=> x \in 12 .. 31 /\ x \in v
  BY PieceBits
<1>2. x \in Put(rd, 7) => x \in 7 .. 11
  BY PutBits
<1>3. x \in N(op) => x \in 0 .. 6
  BY SmallLiteral
<1> QED BY <1>1, <1>2, <1>3 DEF EncU

HoldsJ(e, v) ==
  \A x \in 0 .. 31 :
    /\ x \in 0 .. 6 => (x \in e <=> x \in N(Opcode.jal))
    /\ x \in 12 .. 19 => (x \in e <=> x \in v)
    /\ x = 20 => (x \in e <=> 11 \in v)
    /\ x \in 21 .. 30 => (x \in e <=> x - 20 \in v)
    /\ x = 31 => (x \in e <=> 20 \in v)

LEMMA EncodedJ ==
  ASSUME XLEN = 32, NEW v \in SUBSET (0 .. 31), NEW rd \in 0 .. 31
  PROVE  HoldsJ(EncJ(rd, v), v)
<1> SUFFICES \A x \in 0 .. 31 :
               LET e == EncJ(rd, v)
               IN  /\ x \in 0 .. 6 => (x \in e <=> x \in N(Opcode.jal))
                   /\ x \in 12 .. 19 => (x \in e <=> x \in v)
                   /\ x = 20 => (x \in e <=> 11 \in v)
                   /\ x \in 21 .. 30 => (x \in e <=> x - 20 \in v)
                   /\ x = 31 => (x \in e <=> 20 \in v)
  BY DEF HoldsJ
<1> TAKE x \in 0 .. 31
<1>1. /\ x \in Piece(v, 20, 20, 31) <=> x = 31 /\ 20 \in v
      /\ x \in Piece(v, 10, 1, 21) <=> x \in 21 .. 30 /\ x - 20 \in v
      /\ x \in Piece(v, 11, 11, 20) <=> x = 20 /\ 11 \in v
      /\ x \in Piece(v, 19, 12, 12) <=> x \in 12 .. 19 /\ x \in v
  BY PieceBits
<1>2. x \in Put(rd, 7) => x \in 7 .. 11
  BY PutBits
<1>3. x \in N(Opcode.jal) => x \in 0 .. 6
  BY SmallLiteral DEF Opcode
<1> QED BY <1>1, <1>2, <1>3 DEF EncJ

\* Encoded instructions are words.
LEMMA EncodedAreWords ==
  ASSUME XLEN = 32, NEW v, NEW op
  PROVE  /\ \A rd, f3, rs1 : EncI(op, rd, f3, rs1, v) \in SUBSET (0 .. 31)
         /\ \A f3, rs1, rs2 : EncS(f3, rs1, rs2, v) \in SUBSET (0 .. 31)
         /\ \A f3, rs1, rs2 : EncB(f3, rs1, rs2, v) \in SUBSET (0 .. 31)
         /\ \A rd : EncU(op, rd, v) \in SUBSET (0 .. 31)
         /\ \A rd : EncJ(rd, v) \in SUBSET (0 .. 31)
<1>1. \A w, lo : At(w, lo) \subseteq 0 .. 31
  BY DEF At
<1>2. \A n : N(n) \subseteq 0 .. 31
  BY DEF N, FromNat
<1>3. \A rd, f3, rs1 : EncI(op, rd, f3, rs1, v) \in SUBSET (0 .. 31)
  BY <1>1, <1>2 DEF EncI, Piece, Put
<1>4. \A f3, rs1, rs2 : EncS(f3, rs1, rs2, v) \in SUBSET (0 .. 31)
  BY <1>1, <1>2 DEF EncS, Piece, Put
<1>5. \A f3, rs1, rs2 : EncB(f3, rs1, rs2, v) \in SUBSET (0 .. 31)
  BY <1>1, <1>2 DEF EncB, Piece, Put
<1>6. \A rd : EncU(op, rd, v) \in SUBSET (0 .. 31)
  BY <1>1, <1>2 DEF EncU, Piece, Put
<1>7. \A rd : EncJ(rd, v) \in SUBSET (0 .. 31)
  BY <1>1, <1>2 DEF EncJ, Piece, Put
<1> QED BY <1>3, <1>4, <1>5, <1>6, <1>7

\* The immediate of each format, bit by bit.
LEMMA ImmOfI ==
  ASSUME XLEN = 32, NEW w \in SUBSET (0 .. 31), NEW x \in 0 .. 31,
         OpcodeOf(w) \in {Opcode.jalr, Opcode.load, Opcode.opimm, Opcode.fence, Opcode.system}
  PROVE  x \in Imm(w) <=> IF x < 12 THEN x + 20 \in w ELSE 31 \in w
<1>1. Imm(w) = SignExtend(Field(w, 31, 20), 12)
  BY DEF Imm, Opcode
<1>2. \A k \in 0 .. 11 : k \in Field(w, 31, 20) <=> k + 20 \in w
  BY FieldBits
<1> QED BY <1>1, <1>2 DEF SignExtend

LEMMA ImmOfS ==
  ASSUME XLEN = 32, NEW w \in SUBSET (0 .. 31), NEW x \in 0 .. 31, OpcodeOf(w) = Opcode.store
  PROVE  x \in Imm(w) <=> IF x < 5 THEN x + 7 \in w ELSE IF x < 12 THEN x + 20 \in w ELSE 31 \in w
<1> DEFINE f == Field(w, 31, 25)
           g == At(f, 5) \cup Field(w, 11, 7)
<1>1. Imm(w) = SignExtend(g, 12)
  BY DEF Imm, Opcode
<1>2. \A k \in Int : k \in f <=> k \in 0 .. 6 /\ k + 25 \in w
  BY FieldBits
<1>3. f \in SUBSET Int
  BY DEF Field
<1>4. \A k \in Int : k \in Field(w, 11, 7) <=> k \in 0 .. 4 /\ k + 7 \in w
  BY FieldBits
<1> HIDE DEF f
<1>5. \A k \in Int : k \in At(f, 5) <=> k \in 0 .. 31 /\ k - 5 \in f
  BY <1>3, AtBits
<1>6. \A k \in 0 .. 11 : k \in g <=> IF k < 5 THEN k + 7 \in w ELSE k + 20 \in w
  BY <1>2, <1>4, <1>5
<1> HIDE DEF g
<1> QED BY <1>1, <1>6 DEF SignExtend

LEMMA ImmOfB ==
  ASSUME XLEN = 32, NEW w \in SUBSET (0 .. 31), NEW x \in 0 .. 31, OpcodeOf(w) = Opcode.branch
  PROVE  /\ 0 \notin Imm(w)
         /\ x \in 1 .. 4 => (x \in Imm(w) <=> x + 7 \in w)
         /\ x \in 5 .. 10 => (x \in Imm(w) <=> x + 20 \in w)
         /\ x = 11 => (x \in Imm(w) <=> 7 \in w)
         /\ x \in 12 .. 31 => (x \in Imm(w) <=> 31 \in w)
<1> DEFINE a == Field(w, 31, 31)
           b == Field(w, 7, 7)
           c == Field(w, 30, 25)
           d == Field(w, 11, 8)
           g == At(a, 12) \cup At(b, 11) \cup At(c, 5) \cup At(d, 1)
<1>1. Imm(w) = SignExtend(g, 13)
  BY DEF Imm, Opcode
<1>2. /\ \A k \in Int : k \in a <=> k \in 0 .. 0 /\ k + 31 \in w
      /\ \A k \in Int : k \in b <=> k \in 0 .. 0 /\ k + 7 \in w
      /\ \A k \in Int : k \in c <=> k \in 0 .. 5 /\ k + 25 \in w
      /\ \A k \in Int : k \in d <=> k \in 0 .. 3 /\ k + 8 \in w
  BY FieldBits
<1>3. a \in SUBSET Int /\ b \in SUBSET Int /\ c \in SUBSET Int /\ d \in SUBSET Int
  BY DEF Field
<1> HIDE DEF a, b, c, d
<1>4. \A k \in Int : /\ k \in At(a, 12) <=> k \in 0 .. 31 /\ k - 12 \in a
                     /\ k \in At(b, 11) <=> k \in 0 .. 31 /\ k - 11 \in b
                     /\ k \in At(c, 5) <=> k \in 0 .. 31 /\ k - 5 \in c
                     /\ k \in At(d, 1) <=> k \in 0 .. 31 /\ k - 1 \in d
  BY <1>3, AtBits
<1>5. /\ 0 \notin g
      /\ \A k \in 1 .. 4 : k \in g <=> k + 7 \in w
      /\ \A k \in 5 .. 10 : k \in g <=> k + 20 \in w
      /\ 11 \in g <=> 7 \in w
      /\ 12 \in g <=> 31 \in w
  BY <1>2, <1>4
<1> HIDE DEF g
<1> QED BY <1>1, <1>5 DEF SignExtend

LEMMA ImmOfJ ==
  ASSUME XLEN = 32, NEW w \in SUBSET (0 .. 31), NEW x \in 0 .. 31, OpcodeOf(w) = Opcode.jal
  PROVE  /\ 0 \notin Imm(w)
         /\ x \in 1 .. 10 => (x \in Imm(w) <=> x + 20 \in w)
         /\ x = 11 => (x \in Imm(w) <=> 20 \in w)
         /\ x \in 12 .. 19 => (x \in Imm(w) <=> x \in w)
         /\ x \in 20 .. 31 => (x \in Imm(w) <=> 31 \in w)
<1> DEFINE a == Field(w, 31, 31)
           b == Field(w, 19, 12)
           c == Field(w, 20, 20)
           d == Field(w, 30, 21)
           g == At(a, 20) \cup At(b, 12) \cup At(c, 11) \cup At(d, 1)
<1>1. Imm(w) = SignExtend(g, 21)
  BY DEF Imm, Opcode
<1>2. /\ \A k \in Int : k \in a <=> k \in 0 .. 0 /\ k + 31 \in w
      /\ \A k \in Int : k \in b <=> k \in 0 .. 7 /\ k + 12 \in w
      /\ \A k \in Int : k \in c <=> k \in 0 .. 0 /\ k + 20 \in w
      /\ \A k \in Int : k \in d <=> k \in 0 .. 9 /\ k + 21 \in w
  BY FieldBits
<1>3. a \in SUBSET Int /\ b \in SUBSET Int /\ c \in SUBSET Int /\ d \in SUBSET Int
  BY DEF Field
<1> HIDE DEF a, b, c, d
<1>4. \A k \in Int : /\ k \in At(a, 20) <=> k \in 0 .. 31 /\ k - 20 \in a
                     /\ k \in At(b, 12) <=> k \in 0 .. 31 /\ k - 12 \in b
                     /\ k \in At(c, 11) <=> k \in 0 .. 31 /\ k - 11 \in c
                     /\ k \in At(d, 1) <=> k \in 0 .. 31 /\ k - 1 \in d
  BY <1>3, AtBits
<1>5. /\ 0 \notin g
      /\ \A k \in 1 .. 10 : k \in g <=> k + 20 \in w
      /\ 11 \in g <=> 20 \in w
      /\ \A k \in 12 .. 19 : k \in g <=> k \in w
      /\ 20 \in g <=> 31 \in w
  BY <1>2, <1>4
<1> HIDE DEF g
<1> QED BY <1>1, <1>5 DEF SignExtend

LEMMA ImmIsAWord ==
  ASSUME XLEN = 32, NEW w
  PROVE  Imm(w) \subseteq 0 .. 31
<1>1. \A y, n : SignExtend(y, n) \subseteq 0 .. 31
  BY DEF SignExtend
<1>2. w \cap (12 .. 31) \subseteq 0 .. 31
  OBVIOUS
<1> QED BY <1>1, <1>2 DEF Imm, Opcode

\* An immediate of twelve bits, of thirteen or twenty-one without the lowest, or
\* of the upper twenty comes back whole from the instruction it was put into,
\* whatever the register numbers and the function code beside it: immgen.v and
\* the formats of the tests undo each other for every value
\* (immgen.v:8-18, tb_immgen.cpp:17-51).
THEOREM ImmediatesComeBack ==
  ASSUME XLEN = 32, NEW v \in SUBSET (0 .. 31), NEW rd \in 0 .. 31, NEW f3 \in 0 .. 7,
         NEW rs1 \in 0 .. 31, NEW rs2 \in 0 .. 31
  PROVE  /\ \A n \in {"jalr", "load", "opimm", "fence", "system"} :
              Imm(EncI(Opcode[n], rd, f3, rs1, v)) = SignExtend(v, 12)
         /\ Imm(EncS(f3, rs1, rs2, v)) = SignExtend(v, 12)
         /\ Imm(EncB(f3, rs1, rs2, v)) = SignExtend(v, 13) \ {0}
         /\ Imm(EncJ(rd, v)) = SignExtend(v, 21) \ {0}
         /\ \A n \in {"lui", "auipc"} : Imm(EncU(Opcode[n], rd, v)) = v \cap (12 .. 31)
<1>0. /\ 0 .. 31 \subseteq Int
      /\ \A y, n : SignExtend(y, n) \subseteq 0 .. 31
  BY DEF SignExtend
<1>1. ASSUME NEW op \in {Opcode.jalr, Opcode.load, Opcode.opimm, Opcode.fence, Opcode.system}
      PROVE  Imm(EncI(op, rd, f3, rs1, v)) = SignExtend(v, 12)
  <2> DEFINE e == EncI(op, rd, f3, rs1, v)
  <2>1. op \in 0 .. 127
    BY DEF Opcode
  <2>2. e \in SUBSET (0 .. 31)
    BY <2>1, EncodedAreWords
  <2>3. HoldsI(e, op, v)
    BY <2>1, EncodedI
  <2> HIDE DEF e
  <2>4. /\ \A x \in 0 .. 6 : x \in e <=> x \in N(op)
        /\ \A x \in 20 .. 31 : x \in e <=> x - 20 \in v
    BY <2>3 DEF HoldsI
  <2>5. OpcodeOf(e) = op
    BY <2>1, <2>2, <2>4, OpcodeBits
  <2>6. \A x \in 0 .. 31 : x \in Imm(e) <=> IF x < 12 THEN x + 20 \in e ELSE 31 \in e
    BY <2>1, <2>2, <2>5, ImmOfI
  <2>7. \A x \in 0 .. 31 : x \in Imm(e) <=> x \in SignExtend(v, 12)
    BY <2>4, <2>6 DEF SignExtend
  <2>8. Imm(e) = SignExtend(v, 12)
    BY <1>0, <2>7, ImmIsAWord
  <2> QED BY <2>8 DEF e
<1>2. Imm(EncS(f3, rs1, rs2, v)) = SignExtend(v, 12)
  <2> DEFINE e == EncS(f3, rs1, rs2, v)
  <2>1. Opcode.store \in 0 .. 127
    BY DEF Opcode
  <2>2. e \in SUBSET (0 .. 31)
    BY <2>1, EncodedAreWords
  <2>3. HoldsS(e, v)
    BY EncodedS
  <2> HIDE DEF e
  <2>4. /\ \A x \in 0 .. 6 : x \in e <=> x \in N(Opcode.store)
        /\ \A x \in 7 .. 11 : x \in e <=> x - 7 \in v
        /\ \A x \in 25 .. 31 : x \in e <=> x - 20 \in v
    BY <2>3 DEF HoldsS
  <2>5. OpcodeOf(e) = Opcode.store
    BY <2>1, <2>2, <2>4, OpcodeBits
  <2>6. \A x \in 0 .. 31 : x \in Imm(e) <=> IF x < 5 THEN x + 7 \in e
                                             ELSE IF x < 12 THEN x + 20 \in e ELSE 31 \in e
    BY <2>2, <2>5, ImmOfS
  <2>7. \A x \in 0 .. 31 : x \in Imm(e) <=> x \in SignExtend(v, 12)
    BY <2>4, <2>6 DEF SignExtend
  <2>8. Imm(e) = SignExtend(v, 12)
    BY <1>0, <2>7, ImmIsAWord
  <2> QED BY <2>8 DEF e
<1>3. Imm(EncB(f3, rs1, rs2, v)) = SignExtend(v, 13) \ {0}
  <2> DEFINE e == EncB(f3, rs1, rs2, v)
  <2>1. Opcode.branch \in 0 .. 127
    BY DEF Opcode
  <2>2. e \in SUBSET (0 .. 31)
    BY <2>1, EncodedAreWords
  <2>3. HoldsB(e, v)
    BY EncodedB
  <2> HIDE DEF e
  <2>4. /\ \A x \in 0 .. 6 : x \in e <=> x \in N(Opcode.branch)
        /\ 7 \in e <=> 11 \in v
        /\ \A x \in 8 .. 11 : x \in e <=> x - 7 \in v
        /\ \A x \in 25 .. 30 : x \in e <=> x - 20 \in v
        /\ 31 \in e <=> 12 \in v
    BY <2>3 DEF HoldsB
  <2>5. OpcodeOf(e) = Opcode.branch
    BY <2>1, <2>2, <2>4, OpcodeBits
  <2>6. /\ 0 \notin Imm(e)
        /\ \A x \in 1 .. 4 : x \in Imm(e) <=> x + 7 \in e
        /\ \A x \in 5 .. 10 : x \in Imm(e) <=> x + 20 \in e
        /\ 11 \in Imm(e) <=> 7 \in e
        /\ \A x \in 12 .. 31 : x \in Imm(e) <=> 31 \in e
    BY <2>2, <2>5, ImmOfB
  <2>7. \A x \in 0 .. 31 : x \in Imm(e) <=> x \in SignExtend(v, 13) \ {0}
    BY <2>4, <2>6 DEF SignExtend
  <2>8. Imm(e) = SignExtend(v, 13) \ {0}
    BY <1>0, <2>7, ImmIsAWord
  <2> QED BY <2>8 DEF e
<1>4. Imm(EncJ(rd, v)) = SignExtend(v, 21) \ {0}
  <2> DEFINE e == EncJ(rd, v)
  <2>1. Opcode.jal \in 0 .. 127
    BY DEF Opcode
  <2>2. e \in SUBSET (0 .. 31)
    BY <2>1, EncodedAreWords
  <2>3. HoldsJ(e, v)
    BY EncodedJ
  <2> HIDE DEF e
  <2>4. /\ \A x \in 0 .. 6 : x \in e <=> x \in N(Opcode.jal)
        /\ \A x \in 12 .. 19 : x \in e <=> x \in v
        /\ 20 \in e <=> 11 \in v
        /\ \A x \in 21 .. 30 : x \in e <=> x - 20 \in v
        /\ 31 \in e <=> 20 \in v
    BY <2>3 DEF HoldsJ
  <2>5. OpcodeOf(e) = Opcode.jal
    BY <2>1, <2>2, <2>4, OpcodeBits
  <2>6. /\ 0 \notin Imm(e)
        /\ \A x \in 1 .. 10 : x \in Imm(e) <=> x + 20 \in e
        /\ 11 \in Imm(e) <=> 20 \in e
        /\ \A x \in 12 .. 19 : x \in Imm(e) <=> x \in e
        /\ \A x \in 20 .. 31 : x \in Imm(e) <=> 31 \in e
    BY <2>2, <2>5, ImmOfJ
  <2>7. \A x \in 0 .. 31 : x \in Imm(e) <=> x \in SignExtend(v, 21) \ {0}
    BY <2>4, <2>6 DEF SignExtend
  <2>8. Imm(e) = SignExtend(v, 21) \ {0}
    BY <1>0, <2>7, ImmIsAWord
  <2> QED BY <2>8 DEF e
<1>5. ASSUME NEW op \in {Opcode.lui, Opcode.auipc}
      PROVE  Imm(EncU(op, rd, v)) = v \cap (12 .. 31)
  <2> DEFINE e == EncU(op, rd, v)
  <2>1. op \in 0 .. 127
    BY DEF Opcode
  <2>2. e \in SUBSET (0 .. 31)
    BY <2>1, EncodedAreWords
  <2>3. HoldsU(e, op, v)
    BY <2>1, EncodedU
  <2> HIDE DEF e
  <2>4. /\ \A x \in 0 .. 6 : x \in e <=> x \in N(op)
        /\ \A x \in 12 .. 31 : x \in e <=> x \in v
    BY <2>3 DEF HoldsU
  <2>5. OpcodeOf(e) = op
    BY <2>1, <2>2, <2>4, OpcodeBits
  <2>6. Imm(e) = e \cap (12 .. 31)
    BY <2>1, <2>5 DEF Imm, Opcode
  <2>7. Imm(e) = v \cap (12 .. 31)
    BY <2>4, <2>6
  <2> QED BY <2>7 DEF e
<1>6. \A n \in {"jalr", "load", "opimm", "fence", "system"} :
        Opcode[n] \in {Opcode.jalr, Opcode.load, Opcode.opimm, Opcode.fence, Opcode.system}
  BY DEF Opcode
<1>7. \A n \in {"lui", "auipc"} : Opcode[n] \in {Opcode.lui, Opcode.auipc}
  BY DEF Opcode
<1> QED BY <1>1, <1>2, <1>3, <1>4, <1>5, <1>6, <1>7
=============================================================================
