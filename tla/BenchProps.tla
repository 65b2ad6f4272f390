----------------------------- MODULE BenchProps -----------------------------
(***************************************************************************)
(* What the unit testbenches check, of the blocks as they are modelled.    *)
(***************************************************************************)
EXTENDS Bench

Passes(benches) == bench \in benches => fails = 0

\* The ALU and the branch conditions compute what arithmetic on numbers says,
\* signed and unsigned, and an immediate scattered over an instruction comes
\* back whole: no bit of it is taken for a function code or lost at the sign
\* boundary (tb_alu.cpp:18-33, tb_branch_cmp.cpp:11-21, tb_immgen.cpp:17-51,
\* tb_decoder.cpp:176-184).
DatapathAgrees == Passes(Combinational)

\* For every opcode and function code decoder.v drives the control bits, the
\* operand and write-back selections and the CSR accesses that the model of the
\* pipeline derives from the instruction: what is checked and proved of the core
\* is about this decoder (decoder.v:38-100).
DecoderIsTheCores == bench = "decoder" => NotAbstracted = {}

\* Along every test of tb_csr.cpp, traps, mret, stalls and accesses that race
\* with them leave what the test expects; a stalled mret swaps once
\* (tb_csr.cpp:254-269, csr.v:116-160).
CsrAgrees == Passes({"csr"})

\* No sequence of writes makes x0 read as something else or hides a write from
\* a read of the same cycle (tb_regfile.cpp:71-137).
RegisterFileAgrees == Passes({"regfile"})

\* Whatever mix of lane writes and reads, on the memory itself or across the
\* bus with its cycle of read latency, a read returns the last byte written to
\* each lane (tb_dmem.cpp:63-86, tb_axil_mem.cpp:95-118, axil_mem.v:52-63).
MemoriesAgree == Passes({"dmem", "imem", "axil_mem"})

\* The LED and switch registers follow their lanes, and the timer fires no
\* earlier than a deadline written in two halves, forgets it when it is written
\* again, and keeps each half apart (tb_gpio.cpp:60-110, tb_timer.cpp:69-128).
PeripheralsAgree == Passes({"gpio", "timer"})

\* Characters looped back at 32 cycles a bit arrive in order through a register
\* interface that stalls the second write; a second character overruns the
\* first, a low stop bit is a frame error, and both flags clear when read
\* (tb_uart_axil.cpp:89-179).
UartAgrees == Passes({"uart_axil"})

\* No transaction of a bench runs into the cap on its loop: in three of the
\* four benches reaching it would go unnoticed, and a read would return 0
\* (tb_gpio.cpp:16-25, tb_uart_axil.cpp:34-46).
NeverGivesUp == xfer.cycles + 1 < Patience

\* tb_gpio.cpp:104 compares the register with its model for any draw of lanes.
GpioAgrees == Passes({"gpio"})
=============================================================================
