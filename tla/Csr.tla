-------------------------------- MODULE Csr ---------------------------------
(***************************************************************************)
(* csr.v: the machine-mode CSRs, trap entry, mret and the interrupt        *)
(* condition, as operators on a record of the module's flip-flops.         *)
(*                                                                         *)
(* mstatus packs MIE, MPIE and MPP (bits 3, 7 and 12:11 of the code) into  *)
(* bits 0, 1 and 3:2; MTIE and MTIP (bit 7) are bit 0.                     *)
(***************************************************************************)
EXTENDS Rv32

CsrState == [mie : BOOLEAN, mpie : BOOLEAN, mpp : 0 .. 3, mtie : BOOLEAN,
             privM : BOOLEAN, mtvec : Word, mscratch : Word, mepc : Word,
             mcause : Word]

CsrReset == [mie |-> FALSE, mpie |-> FALSE, mpp |-> 0, mtie |-> FALSE,
             privM |-> TRUE, mtvec |-> 0, mscratch |-> 0, mepc |-> 0,
             mcause |-> 0]

Bool2Word(b) == IF b THEN 1 ELSE 0

IllegalCause == 2
EcallUCause  == 8
EcallMCause  == 11
TimerCause   == WordSize - 1     \* 0x8000_0007: the interrupt bit is set

\* The privilege mode is not consulted.
InterruptPending(c, irq) == c.mie /\ c.mtie /\ irq

-----------------------------------------------------------------------------
(* The instruction side *)

CsrRead(c, irq, a) ==
  CASE a = "mstatus"  -> Bool2Word(c.mie) + 2 * Bool2Word(c.mpie) + 4 * c.mpp
    [] a = "mie"      -> Bool2Word(c.mtie)
    [] a = "mtvec"    -> c.mtvec
    [] a = "mscratch" -> c.mscratch
    [] a = "mepc"     -> c.mepc
    [] a = "mcause"   -> c.mcause
    [] a = "mip"      -> Bool2Word(irq)
    [] OTHER          -> 0

CsrIllegal(a, ctl) == a = "unknown" /\ ctl \cap {"csr_re", "csr_we"} # {}

CsrNew(csrop, old, wdata) ==
  CASE csrop = "rw"   -> wdata
    [] csrop = "rs"   -> Or(old, wdata)
    [] csrop = "rc"   -> AndNot(old, wdata)
    [] csrop = "none" -> old

\* mip, mhartid and the ignored CSRs drop the write.
CsrWrite(c, a, v) ==
  CASE a = "mstatus"  -> [c EXCEPT !.mie = v % 2 = 1, !.mpie = (v \div 2) % 2 = 1,
                                   !.mpp = (v \div 4) % 4]
    [] a = "mie"      -> [c EXCEPT !.mtie = v % 2 = 1]
    [] a = "mtvec"    -> [c EXCEPT !.mtvec = v]
    [] a = "mscratch" -> [c EXCEPT !.mscratch = v]
    [] a = "mepc"     -> [c EXCEPT !.mepc = v]
    [] a = "mcause"   -> [c EXCEPT !.mcause = v]
    [] OTHER          -> c

-----------------------------------------------------------------------------
(* Trap entry and return *)

CsrTrap(c, epc, cause) ==
  [c EXCEPT !.mepc = epc, !.mcause = cause, !.mpie = c.mie, !.mie = FALSE,
            !.mpp = IF c.privM THEN 3 ELSE 0, !.privM = TRUE]

CsrMret(c) ==
  [c EXCEPT !.privM = c.mpp \in {2, 3}, !.mie = c.mpie, !.mpie = TRUE, !.mpp = 0]
=============================================================================
