-------------------------------- MODULE Timer -------------------------------
(***************************************************************************)
(* timer.v: a free-running counter and a comparator, each read and written *)
(* in halves.                                                              *)
(***************************************************************************)
EXTENDS Integers

CONSTANT Half         \* values of half a counter: 2^32 in the device
ASSUME TimerAssumption == Half \in Nat \ {0, 1}

VARIABLES mtime, mtimecmp

Full == Half * Half
Count == 0 .. Full - 1
Lo(x) == x % Half
Hi(x) == x \div Half
SetLo(x, v) == Hi(x) * Half + v
SetHi(x, v) == v * Half + Lo(x)

\* A register write of this cycle, or none.
TimerRegs == {"mtime_lo", "mtime_hi", "mtimecmp_lo", "mtimecmp_hi"}
NoWrite == [reg |-> "none", value |-> 0]

\* A write to either half of mtime replaces that cycle's increment.
Mtime(wr) == CASE wr.reg = "mtime_lo" -> SetLo(mtime, wr.value)
               [] wr.reg = "mtime_hi" -> SetHi(mtime, wr.value)
               [] OTHER               -> (mtime + 1) % Full
Mtimecmp(wr) == CASE wr.reg = "mtimecmp_lo" -> SetLo(mtimecmp, wr.value)
                  [] wr.reg = "mtimecmp_hi" -> SetHi(mtimecmp, wr.value)
                  [] OTHER                  -> mtimecmp

TimerEdge(wr) == mtime' = Mtime(wr) /\ mtimecmp' = Mtimecmp(wr)
TimerInit == mtime = 0 /\ mtimecmp = Full - 1

TimerIrq == mtime >= mtimecmp

ReadReg(reg) == CASE reg = "mtime_lo"    -> Lo(mtime)
                  [] reg = "mtime_hi"    -> Hi(mtime)
                  [] reg = "mtimecmp_lo" -> Lo(mtimecmp)
                  [] reg = "mtimecmp_hi" -> Hi(mtimecmp)
=============================================================================
