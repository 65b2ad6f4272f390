------------------------------- MODULE MCCore -------------------------------
(***************************************************************************)
(* Small programs for the pipeline: sixteen words, four registers.         *)
(***************************************************************************)
EXTENDS CoreProps, Sequences

\* Bitwise operations on four-bit words.
BitOf(w, k)  == (w \div (2 ^ k)) % 2
FromBits(f)  == f[0] + 2 * f[1] + 4 * f[2] + 8 * f[3]
MCOr(x, y)     == FromBits([k \in 0 .. 3 |-> IF BitOf(x, k) = 1 \/ BitOf(y, k) = 1 THEN 1 ELSE 0])
MCAndNot(x, y) == FromBits([k \in 0 .. 3 |-> IF BitOf(x, k) = 1 /\ BitOf(y, k) = 0 THEN 1 ELSE 0])

-----------------------------------------------------------------------------
(* An assembler *)

Ins(o, d, s1, s2, im) == [Nop EXCEPT !.op = o, !.rd = d, !.rs1 = s1, !.rs2 = s2, !.imm = im]
Addi(d, s, im)   == Ins("opimm", d, s, 0, im)
Addr(d, s1, s2)  == Ins("op", d, s1, s2, 0)
Auipc(d, im)     == Ins("auipc", d, 0, 0, im)
Lui(d, im)       == Ins("lui", d, 0, 0, im)
Lw(d, s, im)     == Ins("load", d, s, 0, im)
Sw(s2, s1, im)   == Ins("store", 0, s1, s2, im)
Beq(s1, s2, im)  == Ins("branch", 0, s1, s2, im)
Jal(d, im)       == Ins("jal", d, 0, 0, im)
Jalr(d, s, im)   == Ins("jalr", d, s, 0, im)
Fence            == Ins("fence", 0, 0, 0, 0)
Ecall            == Ins("ecall", 0, 0, 0, 0)
Mret             == Ins("mret", 0, 0, 0, 0)
Illegal          == Ins("illegal", 0, 0, 0, 0)
CsrI(o, d, c, u)   == [Ins("csr", d, u, 0, 0) EXCEPT !.csr = c, !.csrop = o, !.uimm = TRUE]
CsrR(o, d, c, s)   == [Ins("csr", d, s, 0, 0) EXCEPT !.csr = c, !.csrop = o]

\* A program is a sequence from address 0, padded with nops.
Prog(s) == [p \in Word |-> IF p + 1 \in DOMAIN s THEN s[p + 1] ELSE Nop]

-----------------------------------------------------------------------------
(* Data hazards: three instructions in a loop, interrupts off. *)

HazardIns == {Addi(1, 1, 1), Addr(2, 1, 2), Addr(1, 2, 1), Lw(1, 2, 0), Lw(2, 1, 1),
              Sw(1, 2, 1), Sw(2, 1, 0), Beq(1, 2, 2)}
HazardPrograms ==
  [p \in HazardIns \X HazardIns \X HazardIns |->
     Prog(<<Addi(1, 0, 1), p[1], p[2], p[3], Jal(3, 13)>>)]

\* Traps: a trap handler at 3, two free slots in the loop and one in the handler.
TrapIns == {Addi(1, 0, 5), Lw(1, 0, 1), Sw(1, 0, 1), Jal(1, 2), Jalr(2, 1, 2), Beq(0, 0, 2),
            Ecall, Illegal, CsrR("rw", 1, "unknown", 1), CsrI("rc", 2, "mstatus", 1),
            CsrI("rs", 1, "mstatus", 3), CsrR("rw", 1, "mepc", 1), Mret,
            CsrR("rs", 2, "mip", 0)}
TrapPrograms ==
  [p \in TrapIns \X TrapIns |->
     Prog(<<CsrI("rw", 0, "mtvec", 3), CsrI("rw", 0, "mie", 1), Jal(0, 4),
            Lw(3, 0, 0), CsrR("rs", 2, "mcause", 0), Mret,
            CsrI("rs", 0, "mstatus", 1), p[1], p[2], Jal(0, 14)>>)]

\* Both kinds.
HazardAndTrapPrograms ==
  [p \in DOMAIN HazardPrograms \cup DOMAIN TrapPrograms |->
     IF p \in DOMAIN HazardPrograms THEN HazardPrograms[p] ELSE TrapPrograms[p]]

\* Liveness and reset: loops an interrupt must get into, among them a jump to
\* itself, a loop that counts in memory and one that never enables it.
LivePrograms ==
  [p \in 1 .. 7 |->
     Prog(<<CsrI("rw", 0, "mtvec", 3), CsrI("rw", 0, "mie", 1), Jal(0, 4),
            Lw(3, 0, 0), Fence, Mret,
            CsrI("rs", 0, "mstatus", IF p = 5 THEN 0 ELSE 1)>> \o
          (CASE p = 1 -> <<Jal(0, 0)>>
             [] p = 2 -> <<Lw(1, 0, 0), Addr(2, 1, 1), Jal(0, 14)>>
             [] p = 3 -> <<Beq(0, 0, 2), Illegal, Sw(1, 0, 0), Jal(0, 13)>>
             [] p = 4 -> <<Lui(1, 3), Auipc(2, 1), Jalr(0, 2, 15)>>
             [] p = 5 -> <<Lw(1, 0, 0), Sw(1, 0, 1), Jal(0, 14)>>
             [] p = 6 -> <<Lw(1, 0, 1), Addi(1, 1, 4), Sw(1, 0, 1), Jal(0, 13)>>
             [] p = 7 -> <<Sw(1, 0, 0), Addi(1, 0, 1), Jal(1, 14)>>))]
ZeroMem == [d \in DAddr |-> 0]
=============================================================================
