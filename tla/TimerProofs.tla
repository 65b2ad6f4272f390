----------------------------- MODULE TimerProofs ----------------------------
(***************************************************************************)
(* Proofs about the timer and its driver, for every width of a counter,    *)
(* every interval and every horizon the assumptions allow.                 *)
(***************************************************************************)
EXTENDS TimerDriver, TLAPS

-----------------------------------------------------------------------------
(* A counter and its halves *)

LEMMA HalfType == Half \in Nat /\ Half > 1 /\ Full \in Nat /\ Full > 0
<1>1. Half \in Nat /\ Half > 1
  BY TimerAssumption
<1>2. Half * Half \in Nat /\ Half * Half > 0
  BY <1>1
<1> QED BY <1>1, <1>2 DEF Full

\* Two splits of a number at the same place are the same split.
LEMMA SplitUnique ==
  ASSUME NEW a \in Int, NEW b \in 0 .. Half - 1, NEW c \in Int, NEW d \in 0 .. Half - 1,
         a * Half + b = c * Half + d
  PROVE  a = c /\ b = d
<1> USE HalfType
<1>1. ~ a < c
  <2> SUFFICES ASSUME a < c PROVE FALSE
    OBVIOUS
  <2>1. PICK k \in Nat : c = a + 1 + k
    BY c - a - 1 \in Nat
  <2>2. c * Half = a * Half + Half + k * Half
    BY <2>1
  <2>3. k * Half \in Nat
    BY <2>1
  <2>4. a * Half \in Int
    OBVIOUS
  <2> QED BY <2>2, <2>3, <2>4
<1>2. ~ c < a
  <2> SUFFICES ASSUME c < a PROVE FALSE
    OBVIOUS
  <2>1. PICK k \in Nat : a = c + 1 + k
    BY a - c - 1 \in Nat
  <2>2. a * Half = c * Half + Half + k * Half
    BY <2>1
  <2>3. k * Half \in Nat
    BY <2>1
  <2>4. c * Half \in Int
    OBVIOUS
  <2> QED BY <2>2, <2>3, <2>4
<1>3. a = c
  BY <1>1, <1>2
<1>4. a * Half \in Int
  OBVIOUS
<1> QED BY <1>3, <1>4

LEMMA Split ==
  ASSUME NEW x \in Nat
  PROVE  /\ Hi(x) \in Nat /\ Lo(x) \in 0 .. Half - 1
         /\ x = Hi(x) * Half + Lo(x)
  BY HalfType DEF Hi, Lo

LEMMA Join ==
  ASSUME NEW a \in Nat, NEW b \in 0 .. Half - 1
  PROVE  /\ a * Half + b \in Nat
         /\ Hi(a * Half + b) = a /\ Lo(a * Half + b) = b
<1>1. a * Half + b \in Nat
  BY HalfType
<1>2. a * Half + b = Hi(a * Half + b) * Half + Lo(a * Half + b)
  BY <1>1, Split
<1>3. Hi(a * Half + b) \in Nat /\ Lo(a * Half + b) \in 0 .. Half - 1
  BY <1>1, Split
<1> HIDE DEF Hi, Lo
<1> QED BY <1>1, <1>2, <1>3, SplitUnique

\* The halves of a counter are halves, and two halves make a counter.
LEMMA HalvesOfCount ==
  ASSUME NEW x \in Count
  PROVE  Hi(x) \in 0 .. Half - 1 /\ Lo(x) \in 0 .. Half - 1
<1>1. x \in Nat /\ x < Half * Half
  BY HalfType DEF Count, Full
<1>2. Hi(x) \in Nat /\ Lo(x) \in 0 .. Half - 1 /\ x = Hi(x) * Half + Lo(x)
  BY <1>1, Split
<1>3. ~ Hi(x) >= Half
  <2> SUFFICES ASSUME Hi(x) >= Half PROVE FALSE
    OBVIOUS
  <2>1. PICK k \in Nat : Hi(x) = Half + k
    BY <1>2, HalfType, Hi(x) - Half \in Nat
  <2>2. Hi(x) * Half = Half * Half + k * Half
    BY <2>1, HalfType
  <2>3. k * Half \in Nat /\ Half * Half \in Nat
    BY HalfType
  <2> QED BY <1>1, <1>2, <2>2, <2>3
<1> QED BY <1>2, <1>3, HalfType

LEMMA CountOfHalves ==
  ASSUME NEW a \in 0 .. Half - 1, NEW b \in 0 .. Half - 1
  PROVE  a * Half + b \in Count
<1> DEFINE k == Half - 1 - a
<1>1. k \in Nat /\ a \in Nat /\ Half = a + 1 + k
  BY HalfType
<1> HIDE DEF k
<1>2. Half * Half = a * Half + Half + k * Half
  BY <1>1, HalfType
<1>3. k * Half \in Nat /\ a * Half \in Nat
  BY <1>1, HalfType
<1> QED BY <1>2, <1>3, HalfType DEF Count, Full

\* The high half never goes down while the counter does not.
LEMMA HiMonotone ==
  ASSUME NEW x \in Nat, NEW y \in Nat, x <= y
  PROVE  Hi(x) <= Hi(y)
<1>1. /\ Hi(x) \in Nat /\ Lo(x) \in 0 .. Half - 1 /\ x = Hi(x) * Half + Lo(x)
      /\ Hi(y) \in Nat /\ Lo(y) \in 0 .. Half - 1 /\ y = Hi(y) * Half + Lo(y)
  BY Split
<1>2. ~ Hi(x) > Hi(y)
  <2> SUFFICES ASSUME Hi(x) > Hi(y) PROVE FALSE
    OBVIOUS
  <2>1. PICK k \in Nat : Hi(x) = Hi(y) + 1 + k
    BY <1>1, Hi(x) - Hi(y) - 1 \in Nat
  <2>2. Hi(x) * Half = Hi(y) * Half + Half + k * Half
    BY <1>1, <2>1, HalfType
  <2>3. k * Half \in Nat /\ Hi(y) * Half \in Nat
    BY <1>1, HalfType
  <2> QED BY <1>1, <2>2, <2>3, HalfType
<1> QED BY <1>1, <1>2

-----------------------------------------------------------------------------
(* A write to a half of the comparator changes that half *)

LEMMA SetHiSets ==
  ASSUME NEW x \in Count, NEW v \in 0 .. Half - 1
  PROVE  SetHi(x, v) \in Count /\ Hi(SetHi(x, v)) = v
<1>1. Lo(x) \in 0 .. Half - 1 /\ v \in Nat
  BY HalvesOfCount
<1> QED BY <1>1, CountOfHalves, Join DEF SetHi

LEMMA SetLoSets ==
  ASSUME NEW x \in Count, NEW y \in Count, Hi(x) = Hi(y)
  PROVE  SetLo(x, Lo(y)) = y
  BY Split, HalfType DEF SetLo, Count

LEMMA SetLoType ==
  ASSUME NEW x \in Count, NEW v \in 0 .. Half - 1
  PROVE  SetLo(x, v) \in Count
  BY HalvesOfCount, CountOfHalves DEF SetLo

LEMMA DeadlineType ==
  ASSUME value \in [lo : 0 .. Half - 1, hi : 0 .. Half - 1]
  PROVE  Deadline \in Count
<1>1. value.hi * Half + value.lo \in Nat
  BY CountOfHalves DEF Count
<1>2. value.hi * Half + value.lo + Interval \in Nat
  BY <1>1, DriverAssumption
<1> QED BY <1>2, HalfType DEF Deadline, Count

-----------------------------------------------------------------------------
(* The inductive invariant *)

\* Outside the two stores nothing is on its way, and a store under way carries
\* the half of the deadline it was issued for.
OnTheWay ==
  /\ pc \notin {"stored_hi", "stored_lo"} => bus = NoStore
  /\ pc = "stored_hi" => bus.store = [reg |-> "mtimecmp_hi", value |-> Hi(Deadline)]
  /\ pc = "stored_lo" => bus.store = [reg |-> "mtimecmp_lo", value |-> Lo(Deadline)]

\* What the comparator holds of the deadline, at each point of rearm and after.
Compared ==
  /\ pc = "stored_hi" /\ bus.landed => Hi(mtimecmp) = Hi(Deadline)
  /\ pc \in {"store_lo", "stored_lo"} => Hi(mtimecmp) = Hi(Deadline)
  /\ pc = "stored_lo" /\ bus.landed => mtimecmp = Deadline
  /\ pc \in {"set_mtie", "set_mie", "spin", "mret"} => mtimecmp = Deadline

\* The interrupt is enabled nowhere but in main's loop.
EnabledInLoop == mie.mie => pc = "spin"

\* The time rearm read is not before the time it began, and too small for the
\* deadline to wrap.
TimeRead ==
  /\ mtime <= Horizon /\ since <= mtime
  /\ pc = "read_second" => value.lo = Lo(since)
  /\ pc \notin {"read_first", "read_second"} =>
       /\ since <= value.hi * Half + value.lo
       /\ value.hi * Half + value.lo + Interval < Full

IInv == TypeOK /\ OnTheWay /\ Compared /\ EnabledInLoop /\ TimeRead

-----------------------------------------------------------------------------
(* Each edge keeps the invariant *)

LEMMA DeadlineKept ==
  ASSUME value' = value
  PROVE  Deadline' = Deadline
  BY DEF Deadline

LEMMA NoWrap ==
  ASSUME NEW x \in Nat, NEW y \in Nat, x < y
  PROVE  x % y = x
  OBVIOUS

\* Below the horizon the counter counts and does not wrap.
LEMMA Counts ==
  ASSUME TypeOK, TimeRead, mtime < Horizon
  PROVE  /\ (mtime + 1) % Full = mtime + 1
         /\ mtime + 1 \in Count /\ mtime + 1 <= Horizon
<1>1. mtime + 1 \in Nat /\ mtime + 1 < Full /\ mtime + 1 <= Horizon
  BY HalfType, DriverAssumption DEF TypeOK, Count
<1>2. (mtime + 1) % Full = mtime + 1
  BY <1>1, HalfType, NoWrap
<1> QED BY <1>1, <1>2, HalfType DEF Count

LEMMA QuietEdge ==
  ASSUME TypeOK, TimeRead, mtime < Horizon, TimerEdge(NoWrite)
  PROVE  /\ mtime' = mtime + 1 /\ mtimecmp' = mtimecmp
         /\ mtime' \in Count /\ mtime' <= Horizon
  BY Counts DEF TimerEdge, Mtime, Mtimecmp, NoWrite

LEMMA StartsRight == Init => IInv
<1> SUFFICES ASSUME Init PROVE IInv
  OBVIOUS
<1>1. TypeOK
  <2>1. 0 \in Count /\ Full - 1 \in Count /\ 0 \in 0 .. Half - 1
    BY HalfType DEF Count
  <2> QED BY <2>1 DEF Init, TimerInit, TypeOK, NoStore, NoWrite
<1>2. OnTheWay /\ Compared /\ EnabledInLoop
  BY DEF Init, OnTheWay, Compared, EnabledInLoop
<1>3. TimeRead
  BY DriverAssumption DEF Init, TimerInit, TimeRead
<1> QED BY <1>1, <1>2, <1>3 DEF IInv

LEMMA ReadFirstKeeps ==
  ASSUME IInv, mtime < Horizon, ReadFirst
  PROVE  IInv'
<1> USE DEF IInv
<1>1. /\ mtime' = mtime + 1 /\ mtimecmp' = mtimecmp /\ bus' = bus
      /\ mtime' \in Count /\ mtime' <= Horizon
  BY QuietEdge DEF ReadFirst, Quiet
<1>2. value' = [value EXCEPT !.lo = Lo(mtime)]
  BY DEF ReadFirst, Read, ReadOrder, ReadReg
<1>3. mtime \in Count /\ Lo(mtime) \in 0 .. Half - 1
  BY HalvesOfCount DEF TypeOK
<1>4. TypeOK'
  BY <1>1, <1>2, <1>3 DEF TypeOK, ReadFirst
<1>5. OnTheWay' /\ Compared' /\ EnabledInLoop'
  BY <1>1 DEF ReadFirst, OnTheWay, Compared, EnabledInLoop
<1>6. value'.lo = Lo(since')
  BY <1>2 DEF ReadFirst, TypeOK
<1>7. TimeRead'
  BY <1>1, <1>3, <1>6, HalfType DEF ReadFirst, TimeRead, Count
<1> QED BY <1>4, <1>5, <1>7

LEMMA ReadSecondKeeps ==
  ASSUME IInv, mtime < Horizon, ReadSecond
  PROVE  IInv'
<1> USE DEF IInv
<1>1. /\ mtime' = mtime + 1 /\ mtimecmp' = mtimecmp /\ bus' = bus
      /\ mtime' \in Count /\ mtime' <= Horizon
  BY QuietEdge DEF ReadSecond, Quiet
<1>2. value' = [value EXCEPT !.hi = Hi(mtime)]
  BY DEF ReadSecond, Read, ReadOrder, ReadReg
<1>3. mtime \in Count /\ Hi(mtime) \in 0 .. Half - 1
  BY HalvesOfCount DEF TypeOK
<1>4. TypeOK'
  BY <1>1, <1>2, <1>3 DEF TypeOK, ReadSecond
<1>5. OnTheWay' /\ Compared' /\ EnabledInLoop'
  BY <1>1 DEF ReadSecond, OnTheWay, Compared, EnabledInLoop
<1>6. value'.hi = Hi(mtime) /\ value'.lo = Lo(since)
  BY <1>2 DEF ReadSecond, TypeOK, TimeRead
<1>7. mtime \in Nat /\ since \in Nat /\ since <= mtime
  BY HalfType DEF TypeOK, Count, TimeRead
<1>8. /\ since <= Hi(mtime) * Half + Lo(since)
      /\ Hi(mtime) * Half + Lo(since) + Interval < Full
  <2>1. PICK k \in Nat : Hi(mtime) = Hi(since) + k
    <3>1. Hi(since) \in Nat /\ Hi(mtime) \in Nat /\ Hi(since) <= Hi(mtime)
      BY <1>7, Split, HiMonotone
    <3> QED BY <3>1, Hi(mtime) - Hi(since) \in Nat
  <2>2. Hi(since) \in Nat /\ Hi(mtime) \in Nat
    BY <1>7, Split
  <2>3. /\ Hi(mtime) * Half = Hi(since) * Half + k * Half
        /\ k * Half \in Nat /\ Hi(since) * Half \in Nat /\ Hi(mtime) * Half \in Nat
    BY <2>1, <2>2, HalfType
  <2>4. since = Hi(since) * Half + Lo(since) /\ Lo(since) \in 0 .. Half - 1
    BY <1>7, Split
  <2>5. mtime = Hi(mtime) * Half + Lo(mtime) /\ Lo(mtime) \in 0 .. Half - 1
    BY <1>7, Split
  <2> QED BY <1>7, <2>3, <2>4, <2>5, DriverAssumption, HalfType
<1>9. TimeRead'
  BY <1>1, <1>6, <1>7, <1>8 DEF ReadSecond, TimeRead
<1> QED BY <1>4, <1>5, <1>9

LEMMA StoreHiKeeps ==
  ASSUME IInv, mtime < Horizon, StoreHi
  PROVE  IInv'
<1> USE DEF IInv
<1>1. /\ mtime' = mtime + 1 /\ mtimecmp' = mtimecmp
      /\ mtime' \in Count /\ mtime' <= Horizon
  BY QuietEdge DEF StoreHi, Issue
<1>2. Deadline' = Deadline /\ Hi(Deadline) \in 0 .. Half - 1
  BY DeadlineKept, DeadlineType, HalvesOfCount DEF StoreHi, TypeOK
<1>3. TypeOK'
  BY <1>1, <1>2 DEF TypeOK, StoreHi, Issue, TimerRegs
<1>4. OnTheWay' /\ Compared' /\ EnabledInLoop'
  BY <1>1, <1>2 DEF StoreHi, Issue, OnTheWay, Compared, EnabledInLoop
<1>5. TimeRead'
  BY <1>1, HalfType DEF StoreHi, TimeRead, TypeOK, Count
<1> QED BY <1>3, <1>4, <1>5

LEMMA HiStoredKeeps ==
  ASSUME IInv, mtime < Horizon, HiStored
  PROVE  IInv'
<1> USE DEF IInv
<1>1. /\ mtime' = mtime + 1 /\ mtimecmp' = mtimecmp
      /\ mtime' \in Count /\ mtime' <= Horizon
  BY QuietEdge DEF HiStored, StoreDone
<1>2. Deadline' = Deadline
  BY DeadlineKept DEF HiStored
<1>3. TypeOK'
  <2>1. NoStore \in [store : [reg : TimerRegs \cup {"none"}, value : 0 .. Half - 1], landed : BOOLEAN]
    BY HalfType DEF NoStore, NoWrite
  <2> QED BY <1>1, <2>1 DEF TypeOK, HiStored, StoreDone
<1>4. OnTheWay' /\ Compared' /\ EnabledInLoop'
  BY <1>1, <1>2 DEF HiStored, StoreDone, OnTheWay, Compared, EnabledInLoop
<1>5. TimeRead'
  BY <1>1, HalfType DEF HiStored, TimeRead, TypeOK, Count
<1> QED BY <1>3, <1>4, <1>5

LEMMA StoreLoKeeps ==
  ASSUME IInv, mtime < Horizon, StoreLo
  PROVE  IInv'
<1> USE DEF IInv
<1>1. /\ mtime' = mtime + 1 /\ mtimecmp' = mtimecmp
      /\ mtime' \in Count /\ mtime' <= Horizon
  BY QuietEdge DEF StoreLo, Issue
<1>2. Deadline' = Deadline /\ Lo(Deadline) \in 0 .. Half - 1
  BY DeadlineKept, DeadlineType, HalvesOfCount DEF StoreLo, TypeOK
<1>3. TypeOK'
  BY <1>1, <1>2 DEF TypeOK, StoreLo, Issue, TimerRegs
<1>4. OnTheWay' /\ Compared' /\ EnabledInLoop'
  BY <1>1, <1>2 DEF StoreLo, Issue, OnTheWay, Compared, EnabledInLoop
<1>5. TimeRead'
  BY <1>1, HalfType DEF StoreLo, TimeRead, TypeOK, Count
<1> QED BY <1>3, <1>4, <1>5

LEMMA ReturnKeeps ==
  ASSUME IInv, mtime < Horizon, Return
  PROVE  IInv'
<1> USE DEF IInv
<1>1. /\ mtime' = mtime + 1 /\ mtimecmp' = mtimecmp
      /\ mtime' \in Count /\ mtime' <= Horizon
  BY QuietEdge DEF Return, StoreDone
<1>2. Deadline' = Deadline
  BY DeadlineKept DEF Return
<1>3. TypeOK'
  <2>1. NoStore \in [store : [reg : TimerRegs \cup {"none"}, value : 0 .. Half - 1], landed : BOOLEAN]
    BY HalfType DEF NoStore, NoWrite
  <2> QED BY <1>1, <2>1 DEF TypeOK, Return, StoreDone
<1>4. OnTheWay' /\ Compared' /\ EnabledInLoop'
  BY <1>1, <1>2 DEF Return, StoreDone, OnTheWay, Compared, EnabledInLoop
<1>5. TimeRead'
  BY <1>1, HalfType DEF Return, TimeRead, TypeOK, Count
<1> QED BY <1>3, <1>4, <1>5

\* A store that lands replaces the half it was issued for.
LEMMA LandKeeps ==
  ASSUME IInv, mtime < Horizon, Land
  PROVE  IInv'
<1> USE DEF IInv
<1>1. pc \in {"stored_hi", "stored_lo"}
  BY DEF Land, OnTheWay
<1>2. bus.store.reg \in {"mtimecmp_hi", "mtimecmp_lo"}
  BY <1>1 DEF OnTheWay
<1>3. mtime' = mtime + 1 /\ mtime' \in Count /\ mtime' <= Horizon
  BY <1>2, Counts DEF Land, TimerEdge, Mtime
<1>4. Deadline \in Count /\ Deadline' = Deadline
  BY DeadlineKept, DeadlineType DEF Land, TypeOK
<1>5. mtimecmp \in Count /\ Hi(Deadline) \in 0 .. Half - 1 /\ Lo(Deadline) \in 0 .. Half - 1
  BY <1>4, HalvesOfCount DEF TypeOK
<1>6. CASE pc = "stored_hi"
  <2>1. mtimecmp' = SetHi(mtimecmp, Hi(Deadline))
    BY <1>6 DEF Land, TimerEdge, Mtimecmp, OnTheWay
  <2>2. mtimecmp' \in Count /\ Hi(mtimecmp') = Hi(Deadline)
    BY <1>5, <2>1, SetHiSets
  <2>3. Hi(mtimecmp)' = Hi(Deadline)'
    BY <1>4, <2>2 DEF Hi
  <2>4. TypeOK'
    BY <1>3, <2>2 DEF TypeOK, Land
  <2>5. OnTheWay' /\ Compared' /\ EnabledInLoop'
    BY <1>4, <1>6, <2>3 DEF Land, TypeOK, OnTheWay, Compared, EnabledInLoop
  <2>6. TimeRead'
    BY <1>3, HalfType DEF Land, TimeRead, TypeOK, Count
  <2> QED BY <2>4, <2>5, <2>6
<1>7. CASE pc = "stored_lo"
  <2>1. Hi(mtimecmp) = Hi(Deadline)
    BY <1>7 DEF Compared
  <2>2. mtimecmp' = SetLo(mtimecmp, Lo(Deadline))
    BY <1>7 DEF Land, TimerEdge, Mtimecmp, OnTheWay
  <2>3. mtimecmp' = Deadline
    BY <1>4, <1>5, <2>1, <2>2, SetLoSets
  <2>4. TypeOK'
    BY <1>3, <1>4, <2>3 DEF TypeOK, Land
  <2>5. OnTheWay' /\ Compared' /\ EnabledInLoop'
    BY <1>4, <1>7, <2>3 DEF Land, TypeOK, OnTheWay, Compared, EnabledInLoop
  <2>6. TimeRead'
    BY <1>3, HalfType DEF Land, TimeRead, TypeOK, Count
  <2> QED BY <2>4, <2>5, <2>6
<1> QED BY <1>1, <1>6, <1>7

\* Between two calls of rearm the comparator and the time read stay.
LEMMA CallersKeep ==
  ASSUME IInv, mtime < Horizon,
         SetMtie \/ SetMie \/ TakeInterrupt \/ Handler \/ Mret \/ Elapse
  PROVE  IInv'
<1> USE DEF IInv
<1>1. Quiet /\ value' = value /\ since' = since
  BY DEF SetMtie, SetMie, TakeInterrupt, Handler, Mret, Elapse
<1>2. /\ mtime' = mtime + 1 /\ mtimecmp' = mtimecmp /\ bus' = bus
      /\ mtime' \in Count /\ mtime' <= Horizon
  BY <1>1, QuietEdge DEF Quiet
<1>3. Deadline' = Deadline
  BY <1>1, DeadlineKept
<1>4. since' <= mtime'
  BY <1>1, <1>2, HalfType DEF TypeOK, TimeRead, Count
<1>5. CASE SetMtie
  <2>1. TypeOK'
    BY <1>1, <1>2, <1>5 DEF SetMtie, TypeOK
  <2> QED BY <1>1, <1>2, <1>3, <1>4, <1>5, <2>1
          DEF SetMtie, TypeOK, OnTheWay, Compared, EnabledInLoop, TimeRead
<1>6. CASE SetMie
  <2>1. TypeOK'
    BY <1>1, <1>2, <1>6 DEF SetMie, TypeOK
  <2> QED BY <1>1, <1>2, <1>3, <1>4, <1>6, <2>1
          DEF SetMie, TypeOK, OnTheWay, Compared, EnabledInLoop, TimeRead
<1>7. CASE TakeInterrupt
  <2>1. TypeOK'
    BY <1>1, <1>2, <1>7 DEF TakeInterrupt, TypeOK
  <2> QED BY <1>1, <1>2, <1>3, <1>4, <1>7, <2>1
          DEF TakeInterrupt, TypeOK, OnTheWay, Compared, EnabledInLoop, TimeRead
<1>8. CASE Handler
  <2>1. TypeOK'
    BY <1>1, <1>2, <1>8 DEF Handler, TypeOK
  <2> QED BY <1>1, <1>2, <1>3, <1>4, <1>8, <2>1
          DEF Handler, TypeOK, OnTheWay, Compared, EnabledInLoop, TimeRead
<1>9. CASE Mret
  <2>1. TypeOK'
    BY <1>1, <1>2, <1>9 DEF Mret, TypeOK
  <2> QED BY <1>1, <1>2, <1>3, <1>4, <1>9, <2>1
          DEF Mret, TypeOK, OnTheWay, Compared, EnabledInLoop, TimeRead
<1>10. CASE Elapse
  <2>1. TypeOK'
    BY <1>1, <1>2, <1>10 DEF Elapse, TypeOK
  <2> QED BY <1>1, <1>2, <1>3, <1>4, <1>10, <2>1
          DEF Elapse, TypeOK, OnTheWay, Compared, EnabledInLoop, TimeRead
<1> QED BY <1>5, <1>6, <1>7, <1>8, <1>9, <1>10

LEMMA IdleKeeps ==
  ASSUME IInv, UNCHANGED vars
  PROVE  IInv'
  BY DeadlineKept DEF vars, IInv, TypeOK, OnTheWay, Compared, EnabledInLoop, TimeRead, Count

LEMMA EachStepKeeps == IInv /\ [Next]_vars => IInv'
<1> SUFFICES ASSUME IInv, [Next]_vars PROVE IInv'
  OBVIOUS
<1>1. CASE mtime < Horizon /\ Step
  BY <1>1, ReadFirstKeeps, ReadSecondKeeps, StoreHiKeeps, HiStoredKeeps, StoreLoKeeps,
     ReturnKeeps, LandKeeps, CallersKeep DEF Step
<1>2. CASE UNCHANGED vars
  BY <1>2, IdleKeeps
<1> QED BY <1>1, <1>2 DEF Next

-----------------------------------------------------------------------------
(* The theorems *)

THEOREM Invariance == Spec => []IInv
  BY StartsRight, EachStepKeeps, PTL DEF Spec

\* The counters, the program and the store on its way keep to their types, for
\* counters of any width (timer.v:79-139, timer_irq.c:16-41).
THEOREM TimerTypes == Spec => []TypeOK
<1>1. IInv => TypeOK
  BY DEF IInv
<1> QED BY <1>1, Invariance, PTL

\* Whenever the interrupt can be taken the comparator holds all of the deadline
\* that rearm computed, whatever the interval and the width of a counter
\* (timer_irq.c:16-23, 31-41).
THEOREM ArmedIsWhole == Spec => []ArmedDeadlineIsWhole
<1>1. IInv => ArmedDeadlineIsWhole
  BY DEF IInv, EnabledInLoop, Compared, OnTheWay, Armed, ArmedDeadlineIsWhole
<1> QED BY <1>1, Invariance, PTL

\* No interrupt comes before its interval is over, however rearm's two reads of
\* mtime tear (timer_irq.c:17-20).
THEOREM NotEarly == Spec => NeverEarly
<1> DEFINE Late == pc' = "handler" /\ pc # "handler" => mtime >= since + Interval
<1>1. IInv /\ [Next]_vars => [Late]_vars
  <2> SUFFICES ASSUME IInv, Next, pc' = "handler", pc # "handler"
               PROVE  mtime >= since + Interval
    OBVIOUS
  <2>1. TakeInterrupt
    BY DEF Next, Step, ReadFirst, ReadSecond, StoreHi, HiStored, StoreLo, Return, Land, SetMtie,
           SetMie, Handler, Mret, Elapse, vars
  <2>2. pc = "spin" /\ mtime >= mtimecmp /\ mtimecmp = Deadline
    BY <2>1 DEF TakeInterrupt, InterruptPending, TimerIrq, IInv, Compared
  <2>3. value.hi \in 0 .. Half - 1 /\ value.lo \in 0 .. Half - 1
    BY DEF IInv, TypeOK
  <2>4. value.hi * Half + value.lo \in Nat
    BY <2>3, CountOfHalves DEF Count
  <2>5. /\ since <= value.hi * Half + value.lo
        /\ value.hi * Half + value.lo + Interval < Full
    BY <2>2 DEF IInv, TimeRead
  <2>6. Deadline = value.hi * Half + value.lo + Interval
    BY <2>4, <2>5, NoWrap, HalfType, DriverAssumption DEF Deadline
  <2>7. mtime \in Nat /\ since \in Nat
    BY DEF IInv, TypeOK, Count
  <2> QED BY <2>2, <2>4, <2>5, <2>6, <2>7, DriverAssumption
<1> QED BY <1>1, Invariance, PTL DEF Spec, NeverEarly
=============================================================================
