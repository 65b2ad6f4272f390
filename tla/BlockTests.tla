------------------------------ MODULE BlockTests ----------------------------
(***************************************************************************)
(* tb_csr.cpp, tb_regfile.cpp, tb_dmem.cpp and tb_imem.cpp: their directed *)
(* tests, and their random loops with the shadow models they compare with. *)
(***************************************************************************)
EXTENDS Blocks, Script

-----------------------------------------------------------------------------
(* tb_csr: reads, committed accesses and probes of csr_illegal *)

OpRw == 1
OpRs == 2
OpRc == 3
CsrIdle == [addr |-> 0, wdata |-> {}, op |-> 0, re |-> FALSE, we |-> FALSE, trap |-> FALSE,
            trap_pc |-> {}, trap_cause |-> {}, mret |-> FALSE, irq |-> FALSE, stall |-> FALSE]
CsrIn(a, o, v, re, we) == [CsrIdle EXCEPT !.addr = Addr[a], !.op = o, !.wdata = v, !.re = re, !.we = we]

ReadIn(a, values)      == Settle(CsrIn(a, OpRs, {}, TRUE, FALSE), [rdata |-> values])
Reads(a, v)            == ReadIn(a, {v})
Access(a, o, v)        == Tick(CsrIn(a, o, v, TRUE, TRUE), Unchecked)
AccessOld(a, o, v, old) == Tick(CsrIn(a, o, v, TRUE, TRUE), [rdata |-> {old}])
Illegal(a, o, re, we, is) == Settle(CsrIn(a, o, {}, re, we), [illegal |-> {is}])
Drives(out, v)         == Settle(CsrIdle, (out :> {v}))
Trap(pc, cause)        == Tick([CsrIdle EXCEPT !.trap = TRUE, !.trap_pc = pc, !.trap_cause = N(cause)],
                               Unchecked)
Mret                   == Tick([CsrIdle EXCEPT !.mret = TRUE], Unchecked)
WithIrq(item)          == [item EXCEPT !.in.irq = TRUE]
\* Values of mstatus with a bit set or clear, or a mode in MPP.
MstatusValues  == SUBSET {3, 7, 11, 12}
BitSet(b)      == {v \in MstatusValues : b \in v}
BitClear(b)    == {v \in MstatusValues : b \notin v}
Mpp(mode)      == {v \in MstatusValues : Field(v, 12, 11) = mode}
ModeM == {0, 1}
ModeU == {}
AllBits == H(\hFFFF, \hFFFF)

CsrBasics ==          \* 1 to 5
  [k \in 1 .. 7 |-> Reads(<<"mstatus", "mtvec", "mscratch", "mepc", "mcause", "mie", "mip">>[k], {})]
  \o << Drives("priv_m_out", TRUE),
        Access("mscratch", OpRw, H(\hDEAD, \hBEEF)), Reads("mscratch", H(\hDEAD, \hBEEF)),
        Access("mtvec", OpRw, H(\h8000, \h0100)), Reads("mtvec", H(\h8000, \h0100)),
        AccessOld("mscratch", OpRw, H(\h1111, \h2222), H(\hDEAD, \hBEEF)),
        Reads("mscratch", H(\h1111, \h2222)),
        Access("mscratch", OpRw, H(0, \hFFFF)), Access("mscratch", OpRs, H(\h00FF, 0)),
        Reads("mscratch", H(\h00FF, \hFFFF)), Access("mscratch", OpRc, H(0, \h00FF)),
        Reads("mscratch", H(\h00FF, \hFF00)),
        AccessOld("mscratch", OpRs, H(\hFF00, 0), H(\h00FF, \hFF00)),
        Reads("mscratch", H(\hFFFF, \hFF00)),
        Access("mscratch", OpRw, H(\h5555, \h5555)),
        Tick(CsrIn("mscratch", OpRw, H(\hAAAA, \hAAAA), TRUE, FALSE), Unchecked),
        Reads("mscratch", H(\h5555, \h5555)) >>

CsrAddresses ==       \* 6 to 9
  << Reads("mhartid", {}), Access("mhartid", OpRw, AllBits), Reads("mhartid", {}),
     Illegal("mhartid", OpRw, TRUE, TRUE, FALSE) >>
  \o FlattenSeq([k \in 1 .. 7 |->
       LET a == <<"misa", "medeleg", "mideleg", "mtval", "satp", "pmpcfg0", "pmpaddr0">>[k]
       IN  << Illegal(a, OpRw, TRUE, TRUE, FALSE), Access(a, OpRw, AllBits), Reads(a, {}) >>])
  \o << Illegal("mnstatus", OpRw, TRUE, TRUE, TRUE), Illegal("bogus", OpRw, TRUE, TRUE, TRUE),
        Illegal("bogus", OpRs, TRUE, FALSE, TRUE), Illegal("bogus", 0, FALSE, FALSE, FALSE),
        Illegal("unused", 0, FALSE, FALSE, FALSE) >>

CsrTraps ==           \* 10 to 12
  << Access("mepc", OpRw, {}), Access("mcause", OpRw, {}), Trap(H(\h8000, \h0234), 2),
     Reads("mepc", H(\h8000, \h0234)), Reads("mcause", N(2)),
     Access("mepc", OpRw, H(\hAAAA, \hAAAA)),
     Tick([CsrIn("mepc", OpRw, H(\hBBBB, \hBBBB), TRUE, TRUE)
             EXCEPT !.trap = TRUE, !.trap_pc = H(\h8000, \h0500), !.trap_cause = N(11)], Unchecked),
     Reads("mepc", H(\h8000, \h0500)), Reads("mcause", N(11)),
     Access("mtvec", OpRw, H(\h8000, \h1000)), Access("mepc", OpRw, H(\h8000, \h2000)),
     Drives("mtvec_out", H(\h8000, \h1000)), Drives("mepc_out", H(\h8000, \h2000)) >>

CsrInterrupts ==      \* 13 to 15
  << Access("mie", OpRw, AllBits), Reads("mie", {7}), Access("mie", OpRw, {}), Reads("mie", {}),
     Illegal("mie", OpRw, TRUE, TRUE, FALSE),
     Reads("mip", {}), WithIrq(Reads("mip", {7})), WithIrq(Access("mip", OpRw, {})),
     WithIrq(Reads("mip", {7})), Reads("mip", {}), Illegal("mip", OpRw, TRUE, TRUE, FALSE),
     Access("mstatus", OpRw, {}), Access("mie", OpRw, {}), Drives("interrupt_pending", FALSE),
     Access("mie", OpRw, {7}), WithIrq(Drives("interrupt_pending", FALSE)),
     WithIrq(Access("mstatus", OpRs, {3})), WithIrq(Drives("interrupt_pending", TRUE)),
     Drives("interrupt_pending", FALSE),
     Access("mstatus", OpRw, AllBits), Reads("mstatus", {3, 7, 11, 12}),
     Access("mstatus", OpRw, {}), Reads("mstatus", {}), Access("mstatus", OpRw, {3}),
     Reads("mstatus", {3}), Access("mstatus", OpRs, {7}), Reads("mstatus", {3, 7}) >>

StalledMret == Tick([CsrIdle EXCEPT !.mret = TRUE, !.stall = TRUE], Unchecked)
CsrModes ==           \* 16 to 19
  << Access("mstatus", OpRw, {}), Access("mstatus", OpRs, {3}), Drives("priv_m_out", TRUE),
     Trap(H(\h8000, \h0010), 7), ReadIn("mstatus", BitSet(7)), ReadIn("mstatus", BitClear(3)),
     ReadIn("mstatus", Mpp(ModeM)), Drives("priv_m_out", TRUE),
     Mret, ReadIn("mstatus", BitSet(3)), ReadIn("mstatus", BitSet(7)),
     ReadIn("mstatus", Mpp(ModeU)), Drives("priv_m_out", TRUE),
     Access("mstatus", OpRc, {11, 12}), Mret, Drives("priv_m_out", FALSE),
     Trap(H(\h8000, \h0020), 8), Drives("priv_m_out", TRUE), ReadIn("mstatus", Mpp(ModeU)),
     Access("mstatus", OpRw, {3, 11, 12}), Drives("priv_m_out", TRUE),
     StalledMret, StalledMret, StalledMret, StalledMret, StalledMret, Mret,
     ReadIn("mstatus", BitClear(3)), ReadIn("mstatus", BitSet(7)), ReadIn("mstatus", Mpp(ModeU)),
     Drives("priv_m_out", TRUE) >>

CsrScript == CsrBasics \o CsrAddresses \o CsrTraps \o CsrInterrupts \o CsrModes

\* 20: the plain registers against a shadow of each.
Plain4 == <<"mtvec", "mscratch", "mepc", "mcause">>
CsrValues == {{}, {0, 5}, {31}}
CsrShadow(c) == [k \in 1 .. 4 |-> c[Plain4[k]]]
CsrRandom == {<<k, o, v>> : k \in 1 .. 4, o \in {OpRw, OpRs, OpRc}, v \in CsrValues}
CsrRandomIn(r) == CsrIn(Plain4[r[1]], r[2], r[3], TRUE, TRUE)
CsrShadowEdge(shadow, r) ==
  [shadow EXCEPT ![r[1]] = CASE r[2] = OpRw -> r[3] [] r[2] = OpRs -> @ \cup r[3]
                             [] r[2] = OpRc -> @ \ r[3]]

-----------------------------------------------------------------------------
(* tb_regfile *)

RegIn(we, d, v, r1, r2) == [rd_we |-> we, rd_addr |-> d, rd_data |-> v, rs1 |-> r1, rs2 |-> r2]
Write(d, v)    == Tick(RegIn(TRUE, d, v, 0, 0), Unchecked)
Port1(r, v)    == Settle(RegIn(FALSE, 0, {}, r, 0), [rs1_data |-> {v}])
Both(r, s, v)  == Settle(RegIn(FALSE, 0, {}, r, s), [rs1_data |-> {v}, rs2_data |-> {v}])
RegScript ==
  LET dead == H(\hDEAD, \hBEEF)
      new  == H(\h1122, \h3344)
      old  == H(\h3333, \h3333)
  IN  << Write(7, dead), Port1(7, dead), Both(7, 7, dead),
         Write(8, H(\h1234, \h5678)), Tick(RegIn(FALSE, 8, H(\h8765, \h4321), 0, 0), Unchecked),
         Port1(8, H(\h1234, \h5678)),
         Write(0, H(\h2244, \h6688)), Port1(0, {}), Both(0, 0, {}),
         Write(9, old), Tick(RegIn(TRUE, 9, new, 9, 0), [rs1_data |-> {new}]), Port1(9, new),
         Write(9, old), Settle(RegIn(FALSE, 9, new, 9, 0), [rs1_data |-> {old}]),
         Tick(RegIn(TRUE, 0, dead, 0, 0), [rs1_data |-> {{}}, rs2_data |-> {{}}]),
         Write(10, H(\hAAAA, \hAAAA)), Write(11, H(\hBBBB, \hBBBB)), Write(12, H(\hCCCC, \hCCCC)),
         Port1(10, H(\hAAAA, \hAAAA)), Port1(11, H(\hBBBB, \hBBBB)), Port1(12, H(\hCCCC, \hCCCC)) >>

\* A write, then a read of one register on each port.
RegRandom == {<<a, v, b, c>> : a \in {0, 1, 31}, v \in {{}, {0}, {31}}, b \in {0, 1, 31}, c \in {0, 1, 31}}
RegShadowEdge(shadow, r) == IF r[1] # 0 THEN [shadow EXCEPT ![r[1]] = r[2]] ELSE shadow
RegWant(shadow, r) == [rs1_data |-> {IF r[3] = 0 THEN {} ELSE shadow[r[3]]},
                       rs2_data |-> {IF r[4] = 0 THEN {} ELSE shadow[r[4]]}]

-----------------------------------------------------------------------------
(* tb_dmem: a store, and a load, whose word is there after its edge *)

Base == H(\h8000, 0)
MemIn(en, a, v, strb) == [en |-> en, addr |-> Base \cup N(a), wdata |-> v, wstrb |-> strb]
Word4 == {0, 1, 2, 3}
StoreAt(a, v, strb) == << Tick(MemIn(TRUE, a, v, strb), Unchecked) >>
RdataIs(a, v)   == Settle(MemIn(TRUE, a, {}, {}), [rdata |-> {v}])
LoadIs(a, v)    == << Tick(MemIn(TRUE, a, {}, {}), Unchecked), RdataIs(a, v) >>
DmemScript ==
  LET dead == H(\hDEAD, \hBEEF)
      w    == H(\h1234, \h5678)
      kept == H(\h1122, \h3344)
  IN  StoreAt(0, dead, Word4) \o LoadIs(0, dead) \o StoreAt(4, w, Word4) \o LoadIs(4, w) \o LoadIs(0, dead)
      \o StoreAt(8, {}, Word4) \o StoreAt(8, N(\hAA), {0}) \o LoadIs(8, N(\hAA))
      \o StoreAt(8, N(\hBB00), {1}) \o LoadIs(8, N(\hBBAA))
      \o StoreAt(8, H(\hCC, 0), {2}) \o LoadIs(8, H(\hCC, \hBBAA))
      \o StoreAt(8, H(\hDD00, 0), {3}) \o LoadIs(8, H(\hDDCC, \hBBAA))
      \o StoreAt(12, H(\hFFFF, \hFFFF), Word4) \o StoreAt(12, {}, {1}) \o LoadIs(12, H(\hFFFF, \h00FF))
      \o StoreAt(12, H(\h1234, 0), {2, 3}) \o LoadIs(12, H(\h1234, \h00FF))
      \o StoreAt(16, H(\hCAFE, \hBABE), Word4) \o StoreAt(16, {}, {}) \o LoadIs(16, H(\hCAFE, \hBABE))
      \o StoreAt(20, kept, Word4) \o LoadIs(20, kept)
      \o << Tick(MemIn(FALSE, 24, {}, {}), Unchecked), RdataIs(24, kept) >>

\* The shadow is an array of bytes.  Here it has those of two words.
DmemAtStart == [words |-> [i \in WordIndexes |-> {}], rdata |-> {}]
Offsets == {20, 24}
DmemRandom == {<<a, v, strb, b>> : a \in Offsets, v \in {{}, H(\h8001, \h8001)},
                                   strb \in {{}, {0}, {1, 2}, Word4}, b \in Offsets}
ByteOf(w, k) == Field(w, 8 * k + 7, 8 * k)
DmemShadow(m) == [b \in {a + k : a \in Offsets, k \in 0 .. 3} |-> ByteOf(m.words[b \div 4], b % 4)]
DmemShadowEdge(shadow, r) ==
  [b \in DOMAIN shadow |-> IF b - r[1] \in r[3] THEN ByteOf(r[2], b - r[1]) ELSE shadow[b]]
DmemWant(shadow, a) == UNION {At(shadow[a + k], 8 * k) : k \in 0 .. 3}

-----------------------------------------------------------------------------
(* tb_imem.  golden[i] is i here: every word is another. *)

ImemAtStart == [words |-> [i \in WordIndexes |-> N(i)], rdata |-> {}]
ImemIn(en, a) == [en |-> en, addr |-> a]
FetchIs(a, i) == << Tick(ImemIn(TRUE, a), Unchecked), Settle(ImemIn(TRUE, a), [rdata |-> {N(i)}]) >>
Held(a, i)    == << Tick(ImemIn(FALSE, a), Unchecked), Settle(ImemIn(FALSE, a), [rdata |-> {N(i)}]) >>
At80(n) == Base \cup N(n)
ImemScript ==
  FetchIs(At80(0), 0) \o FetchIs(At80(4), 1) \o FetchIs(At80(8), 2) \o FetchIs(At80(12), 3)
  \o FetchIs(At80(\h40), 16) \o FetchIs(At80(\h1000), 1024)
  \o FetchIs(At80(4), 1) \o FetchIs(At80(5), 1) \o FetchIs(At80(6), 1) \o FetchIs(At80(7), 1)
  \o FetchIs(N(0), 0) \o FetchIs(At80(0), 0) \o FetchIs(At80(\hFFFC), 16383)
  \o FetchIs(At80(32), 8) \o Held(At80(\h40), 8) \o Held(At80(\h40), 8) \o FetchIs(At80(\h40), 16)
\* Every word of those the bench holds, in any order.
ImemRandom == WordIndexes
=============================================================================
