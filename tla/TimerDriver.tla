----------------------------- MODULE TimerDriver ----------------------------
(***************************************************************************)
(* timer_irq.c on the timer: main arms the timer and enables its           *)
(* interrupt, the handler arms it again.                                   *)
(*                                                                         *)
(* A step is one clock edge, at which the program may also advance.  A     *)
(* store reaches the timer some edges after it is issued, and the program  *)
(* goes on some edges after that, when the bus has answered; a load        *)
(* returns what the register held at some edge while the load waited.      *)
(***************************************************************************)
EXTENDS Timer

CONSTANTS
  Interval,     \* INTERVAL
  Horizon       \* a bound on mtime: where the check stops looking

ASSUME DriverAssumption == /\ Interval \in Nat \ {0}
                           /\ Horizon \in Nat /\ Horizon + Interval + Half < Full

VARIABLES
  pc,           \* where the program is
  caller,       \* who called rearm
  value,        \* lo and hi in rearm
  bus,          \* the store on its way, and whether the timer has it
  mie,          \* mstatus.MIE, its saved copy MPIE, and mie.MTIE
  since         \* not in the code: mtime when rearm last began

vars == <<mtime, mtimecmp, pc, caller, value, bus, mie, since>>

NoStore == [store |-> NoWrite, landed |-> FALSE]
\* now + INTERVAL, in 64 bits.
Deadline == (value.hi * Half + value.lo + Interval) % Full

Init == /\ TimerInit
        /\ pc = "read_first" /\ caller = "main"
        /\ value = [lo |-> 0, hi |-> 0]
        /\ bus = NoStore
        /\ mie = [mie |-> FALSE, mpie |-> FALSE, mtie |-> FALSE]
        /\ since = 0

-----------------------------------------------------------------------------
(* The bus: nothing lands unless a store is on its way *)

Quiet == TimerEdge(NoWrite) /\ UNCHANGED bus

Land == /\ bus # NoStore /\ ~bus.landed
        /\ TimerEdge(bus.store)
        /\ bus' = [bus EXCEPT !.landed = TRUE]
        /\ UNCHANGED <<pc, caller, value, mie, since>>

Issue(reg, v) == /\ bus' = [store |-> [reg |-> reg, value |-> v], landed |-> FALSE]
                 /\ TimerEdge(NoWrite)

\* Variant: the program does not wait for the bus.
StoreDone_Posted == bus # NoStore /\ UNCHANGED bus /\ TimerEdge(NoWrite)
\* The store is done when the bus has answered; until then the program stalls.
StoreDone == bus # NoStore /\ bus.landed /\ bus' = NoStore /\ TimerEdge(NoWrite)

-----------------------------------------------------------------------------
(* rearm *)

\* Variant: high half first.
ReadOrder_HiFirst == <<"hi", "lo">>
\* The halves of mtime are read low half first.
ReadOrder == <<"lo", "hi">>
Read(n, half) == /\ half = ReadOrder[n]
                 /\ value' = [value EXCEPT ![half] = IF half = "lo" THEN ReadReg("mtime_lo")
                                                                    ELSE ReadReg("mtime_hi")]
ReadFirst == /\ pc = "read_first" /\ pc' = "read_second"
             /\ \E half \in {"lo", "hi"} : Read(1, half)
             /\ since' = mtime
             /\ Quiet /\ UNCHANGED <<caller, mie>>
ReadSecond == /\ pc = "read_second" /\ pc' = "store_hi"
              /\ \E half \in {"lo", "hi"} : Read(2, half)
              /\ Quiet /\ UNCHANGED <<caller, mie, since>>

\* The high half of the deadline is stored first.
\* Variant: without the shift.
StoreHi_NoShift == /\ pc = "store_hi" /\ pc' = "stored_hi"
                   /\ Issue("mtimecmp_hi", Deadline)
                   /\ UNCHANGED <<caller, value, mie, since>>
StoreHi == /\ pc = "store_hi" /\ pc' = "stored_hi"
           /\ Issue("mtimecmp_hi", Hi(Deadline))
           /\ UNCHANGED <<caller, value, mie, since>>
HiStored == /\ pc = "stored_hi" /\ StoreDone /\ pc' = "store_lo"
            /\ UNCHANGED <<caller, value, mie, since>>
StoreLo == /\ pc = "store_lo" /\ pc' = "stored_lo"
           /\ Issue("mtimecmp_lo", Lo(Deadline))
           /\ UNCHANGED <<caller, value, mie, since>>
Return == /\ pc = "stored_lo" /\ StoreDone
          /\ pc' = IF caller = "main" THEN "set_mtie" ELSE "mret"
          /\ UNCHANGED <<caller, value, mie, since>>

-----------------------------------------------------------------------------
(* main and the handler *)

SetMtie == /\ pc = "set_mtie" /\ pc' = "set_mie"
           /\ mie' = [mie EXCEPT !.mtie = TRUE]
           /\ Quiet /\ UNCHANGED <<caller, value, since>>
SetMie == /\ pc = "set_mie" /\ pc' = "spin"
          /\ mie' = [mie EXCEPT !.mie = TRUE]
          /\ Quiet /\ UNCHANGED <<caller, value, since>>

InterruptPending == mie.mie /\ mie.mtie /\ TimerIrq
TakeInterrupt == /\ InterruptPending
                 /\ pc = "spin" /\ pc' = "handler"
                 /\ mie' = [mie EXCEPT !.mpie = mie.mie, !.mie = FALSE]
                 /\ Quiet /\ UNCHANGED <<caller, value, since>>
Handler == /\ pc = "handler" /\ pc' = "read_first"
           /\ caller' = "handler"
           /\ Quiet /\ UNCHANGED <<value, mie, since>>
Mret == /\ pc = "mret" /\ pc' = "spin"
        /\ mie' = [mie EXCEPT !.mie = mie.mpie, !.mpie = TRUE]
        /\ Quiet /\ UNCHANGED <<caller, value, since>>

\* An instruction, a bus cycle or a loop iteration that does none of these.
Elapse == Quiet /\ UNCHANGED <<pc, caller, value, mie, since>>

Step == \/ ReadFirst \/ ReadSecond
        \/ StoreHi \/ HiStored \/ StoreLo \/ Return \/ Land
        \/ SetMtie \/ SetMie \/ TakeInterrupt \/ Handler \/ Mret
        \/ Elapse

Next == \/ mtime < Horizon /\ Step
        \/ mtime >= Horizon /\ UNCHANGED vars
Spec == Init /\ [][Next]_vars

-----------------------------------------------------------------------------
(* Properties *)

\* The registers and the program keep to their types.
TypeOK ==
  /\ mtime \in Count /\ mtimecmp \in Count /\ since \in Count
  /\ pc \in {"read_first", "read_second", "store_hi", "stored_hi", "store_lo", "stored_lo",
             "set_mtie", "set_mie", "spin", "handler", "mret"}
  /\ caller \in {"main", "handler"}
  /\ value \in [lo : 0 .. Half - 1, hi : 0 .. Half - 1]
  /\ bus \in [store : [reg : TimerRegs \cup {"none"}, value : 0 .. Half - 1], landed : BOOLEAN]
  /\ mie \in [mie : BOOLEAN, mpie : BOOLEAN, mtie : BOOLEAN]

Armed == mie.mie /\ mie.mtie

\* While the interrupt can be taken the comparator holds a whole deadline, the
\* one rearm computed: never the old one, never half of each.  It takes the
\* stalled stores, the handler's cleared MIE and main's order of calls
\* (timer_irq.c:16-23, 31-41; csr.v:129-142; axil_master.v:135).
ArmedDeadlineIsWhole == Armed => mtimecmp = Deadline /\ bus = NoStore

\* An interrupt never comes early: at least INTERVAL cycles separate the read
\* of mtime's low half from the interrupt it arms, however the two reads tear
\* (timer_irq.c:17-20).
NeverEarly == [][ pc' = "handler" /\ pc # "handler" => mtime >= since + Interval ]_vars

\* The deadline is INTERVAL cycles away: "cycles between interrupts"
\* (timer_irq.c:12).
DeadlineIsInterval == Armed => mtimecmp = since + Interval
=============================================================================
