----------------------------- MODULE UartProofs -----------------------------
(***************************************************************************)
(* Proofs about Uart, for every frame of up to eight bits, initial bit     *)
(* time and set of accesses.                                               *)
(***************************************************************************)
EXTENDS UartProps, TLAPS

-----------------------------------------------------------------------------
(* Numbers *)

\* What the counters of the shift registers hold.
Counter == 0 .. 2 ^ 19 - 1

LEMMA CounterSize == 2 ^ 19 \in Nat /\ 2 ^ 19 > 2040
  BY SMT

LEMMA PowerOf ==
  /\ 2 ^ 0 = 1 /\ 2 ^ 1 = 2 /\ 2 ^ 2 = 4 /\ 2 ^ 3 = 8 /\ 2 ^ 4 = 16
  /\ 2 ^ 5 = 32 /\ 2 ^ 6 = 64 /\ 2 ^ 7 = 128 /\ 2 ^ 8 = 256
  OBVIOUS

\* The place of each bit of a character.
LEMMA PlaceOf ==
  ASSUME NEW i \in 1 .. 8
  PROVE  \/ i = 1 /\ 2 ^ (i - 1) = 1
         \/ i = 2 /\ 2 ^ (i - 1) = 2
         \/ i = 3 /\ 2 ^ (i - 1) = 4
         \/ i = 4 /\ 2 ^ (i - 1) = 8
         \/ i = 5 /\ 2 ^ (i - 1) = 16
         \/ i = 6 /\ 2 ^ (i - 1) = 32
         \/ i = 7 /\ 2 ^ (i - 1) = 64
         \/ i = 8 /\ 2 ^ (i - 1) = 128
<1>1. CASE i = 1 BY <1>1, PowerOf
<1>2. CASE i = 2 BY <1>2, PowerOf
<1>3. CASE i = 3 BY <1>3, PowerOf
<1>4. CASE i = 4 BY <1>4, PowerOf
<1>5. CASE i = 5 BY <1>5, PowerOf
<1>6. CASE i = 6 BY <1>6, PowerOf
<1>7. CASE i = 7 BY <1>7, PowerOf
<1>8. CASE i = 8 BY <1>8, PowerOf
<1> QED BY <1>1, <1>2, <1>3, <1>4, <1>5, <1>6, <1>7, <1>8

LEMMA PlacePositive == \A i \in 1 .. 8 : 2 ^ (i - 1) \in Nat \ {0}
<1> TAKE i \in 1 .. 8
<1> DEFINE place == 2 ^ (i - 1)
<1>1. place \in {1, 2, 4, 8, 16, 32, 64, 128}
  BY PlaceOf, ZenonT(60)
<1> HIDE DEF place
<1>2. place \in Nat \ {0}
  BY <1>1
<1> QED BY <1>2 DEF place

LEMMA CyclesType == \A n \in Int : Cycles(n) \in Counter
<1> DEFINE size == 2 ^ 19
<1>1. size \in Nat /\ size > 0
  BY CounterSize, SMT
<1>2. Counter = 0 .. size - 1 /\ \A n : Cycles(n) = n % size
  BY DEF Counter, Cycles
<1> HIDE DEF size
<1> QED BY <1>1, <1>2

LEMMA CounterNat ==
  \A n \in Counter : n \in Nat /\ (n > 0 => n - 1 \in Counter)
<1> DEFINE size == 2 ^ 19
<1>1. size \in Nat
  BY CounterSize, SMT
<1>2. Counter = 0 .. size - 1
  BY DEF Counter
<1> HIDE DEF size
<1> QED BY <1>1, <1>2

LEMMA CounterType == 0 .. 2040 \subseteq Counter
<1> DEFINE size == 2 ^ 19
<1>1. size \in Nat /\ size > 2040
  BY CounterSize, SMT
<1>2. Counter = 0 .. size - 1
  BY DEF Counter
<1> HIDE DEF size
<1> QED BY <1>1, <1>2

LEMMA FrameBits == DataBits \in 1 .. 8
  BY UartAssumption

LEMMA CharsOf ==
  \/ DataBits = 1 /\ 2 ^ DataBits = 2
  \/ DataBits = 2 /\ 2 ^ DataBits = 4
  \/ DataBits = 3 /\ 2 ^ DataBits = 8
  \/ DataBits = 4 /\ 2 ^ DataBits = 16
  \/ DataBits = 5 /\ 2 ^ DataBits = 32
  \/ DataBits = 6 /\ 2 ^ DataBits = 64
  \/ DataBits = 7 /\ 2 ^ DataBits = 128
  \/ DataBits = 8 /\ 2 ^ DataBits = 256
<1>1. CASE DataBits = 1 BY <1>1, PowerOf
<1>2. CASE DataBits = 2 BY <1>2, PowerOf
<1>3. CASE DataBits = 3 BY <1>3, PowerOf
<1>4. CASE DataBits = 4 BY <1>4, PowerOf
<1>5. CASE DataBits = 5 BY <1>5, PowerOf
<1>6. CASE DataBits = 6 BY <1>6, PowerOf
<1>7. CASE DataBits = 7 BY <1>7, PowerOf
<1>8. CASE DataBits = 8 BY <1>8, PowerOf
<1> QED BY <1>1, <1>2, <1>3, <1>4, <1>5, <1>6, <1>7, <1>8, FrameBits

\* The bits of a number, as shifted out.
LEMMA BitsOfType ==
  ASSUME NEW c \in Int
  PROVE  BitsOf(c) \in Seq(Bits) /\ Len(BitsOf(c)) = DataBits
<1>1. \A i \in 1 .. DataBits : (c \div 2 ^ (i - 1)) % 2 \in Bits
  <2> TAKE i \in 1 .. DataBits
  <2>1. i \in 1 .. 8
    BY FrameBits
  <2>2. 2 ^ (i - 1) \in Nat \ {0}
    BY <2>1, PlacePositive, Zenon
  <2>3. c \div 2 ^ (i - 1) \in Int
    BY <2>2
  <2> QED BY <2>3 DEF Bits
<1>2. BitsOf(c) \in [1 .. DataBits -> Bits]
  BY <1>1 DEF BitsOf
<1> QED BY <1>2, FrameBits

\* Eight bits and their number.
LEMMA EightBits ==
  ASSUME NEW b \in [1 .. 8 -> Bits]
  PROVE  LET c == b[1] + 2 * b[2] + 4 * b[3] + 8 * b[4] + 16 * b[5] + 32 * b[6]
                    + 64 * b[7] + 128 * b[8]
         IN  c \in Nat /\ \A i \in 1 .. 8 : (c \div 2 ^ (i - 1)) % 2 = b[i]
<1> DEFINE c == b[1] + 2 * b[2] + 4 * b[3] + 8 * b[4] + 16 * b[5] + 32 * b[6]
                  + 64 * b[7] + 128 * b[8]
<1>1. /\ b[1] \in 0 .. 1 /\ b[2] \in 0 .. 1 /\ b[3] \in 0 .. 1 /\ b[4] \in 0 .. 1
      /\ b[5] \in 0 .. 1 /\ b[6] \in 0 .. 1 /\ b[7] \in 0 .. 1 /\ b[8] \in 0 .. 1
  BY DEF Bits
<1>2. /\ (c \div 1) % 2 = b[1] /\ (c \div 2) % 2 = b[2] /\ (c \div 4) % 2 = b[3]
      /\ (c \div 8) % 2 = b[4] /\ (c \div 16) % 2 = b[5] /\ (c \div 32) % 2 = b[6]
      /\ (c \div 64) % 2 = b[7] /\ (c \div 128) % 2 = b[8]
  BY <1>1
<1>3. \A i \in 1 .. 8 : (c \div 2 ^ (i - 1)) % 2 = b[i]
  <2> TAKE i \in 1 .. 8
  <2> HIDE DEF c
  <2> QED BY <1>2, PlaceOf
<1>4. c \in Nat
  BY <1>1
<1> QED BY <1>3, <1>4

\* A number whose higher bits are zero is small.
LEMMA FewBits ==
  ASSUME NEW b \in [1 .. 8 -> Bits],
         \A i \in 1 .. 8 : DataBits < i => b[i] = 0
  PROVE  b[1] + 2 * b[2] + 4 * b[3] + 8 * b[4] + 16 * b[5] + 32 * b[6]
           + 64 * b[7] + 128 * b[8] \in Chars
<1> DEFINE lo   == b[1] + 2 * b[2] + 4 * b[3] + 8 * b[4]
           hi   == b[5] + 2 * b[6] + 4 * b[7] + 8 * b[8]
           c    == b[1] + 2 * b[2] + 4 * b[3] + 8 * b[4] + 16 * b[5] + 32 * b[6]
                     + 64 * b[7] + 128 * b[8]
           size == 2 ^ DataBits
<1>1. /\ b[1] \in 0 .. 1 /\ b[2] \in 0 .. 1 /\ b[3] \in 0 .. 1 /\ b[4] \in 0 .. 1
      /\ b[5] \in 0 .. 1 /\ b[6] \in 0 .. 1 /\ b[7] \in 0 .. 1 /\ b[8] \in 0 .. 1
  BY DEF Bits
<1>2. c = lo + 16 * hi
  BY <1>1
<1>3. /\ lo \in 0 .. 15
      /\ b[4] = 0 => lo < 8
      /\ b[4] = 0 /\ b[3] = 0 => lo < 4
      /\ b[4] = 0 /\ b[3] = 0 /\ b[2] = 0 => lo < 2
  BY <1>1
<1>4. /\ hi \in 0 .. 15
      /\ b[8] = 0 => hi < 8
      /\ b[8] = 0 /\ b[7] = 0 => hi < 4
      /\ b[8] = 0 /\ b[7] = 0 /\ b[6] = 0 => hi < 2
      /\ b[8] = 0 /\ b[7] = 0 /\ b[6] = 0 /\ b[5] = 0 => hi = 0
  BY <1>1
<1>5. /\ DataBits < 2 => b[2] = 0
      /\ DataBits < 3 => b[3] = 0
      /\ DataBits < 4 => b[4] = 0
      /\ DataBits < 5 => b[5] = 0
      /\ DataBits < 6 => b[6] = 0
      /\ DataBits < 7 => b[7] = 0
      /\ DataBits < 8 => b[8] = 0
  BY FrameBits
<1> HIDE DEF c, lo, hi
<1>6. /\ DataBits = 1 => c < 2
      /\ DataBits = 2 => c < 4
      /\ DataBits = 3 => c < 8
      /\ DataBits = 4 => c < 16
      /\ DataBits = 5 => c < 32
      /\ DataBits = 6 => c < 64
      /\ DataBits = 7 => c < 128
      /\ DataBits = 8 => c < 256
  BY <1>2, <1>3, <1>4, <1>5, FrameBits
<1>7. \/ DataBits = 1 /\ size = 2
      \/ DataBits = 2 /\ size = 4
      \/ DataBits = 3 /\ size = 8
      \/ DataBits = 4 /\ size = 16
      \/ DataBits = 5 /\ size = 32
      \/ DataBits = 6 /\ size = 64
      \/ DataBits = 7 /\ size = 128
      \/ DataBits = 8 /\ size = 256
  BY CharsOf, Zenon
<1>8. Chars = 0 .. size - 1
  BY DEF Chars
<1> HIDE DEF size
<1>9. c \in Nat
  BY <1>2, <1>3, <1>4
<1>10. size \in Nat
  BY <1>7
<1>11. c < size
  BY <1>6, <1>7, <1>9, <1>10, FrameBits
<1>12. c \in Chars
  BY <1>8, <1>9, <1>10, <1>11
<1> QED BY <1>12 DEF c

\* Every character has its bits, and bits are those of a character.
LEMMA CharOfType ==
  ASSUME NEW bits \in Seq(Bits), Len(bits) = DataBits
  PROVE  CharOf(bits) \in Chars /\ BitsOf(CharOf(bits)) = bits
<1> DEFINE b == [i \in 1 .. 8 |-> IF i <= DataBits THEN bits[i] ELSE 0]
           c == b[1] + 2 * b[2] + 4 * b[3] + 8 * b[4] + 16 * b[5] + 32 * b[6]
                  + 64 * b[7] + 128 * b[8]
<1>1. b \in [1 .. 8 -> Bits]
  BY FrameBits DEF Bits
<1>2. c \in Nat /\ \A i \in 1 .. 8 : (c \div 2 ^ (i - 1)) % 2 = b[i]
  BY <1>1, EightBits
<1>3. c \in Chars
  <2>1. \A i \in 1 .. 8 : DataBits < i => b[i] = 0
    BY FrameBits
  <2> HIDE DEF b
  <2> QED BY <1>1, <2>1, FewBits
<1> HIDE DEF c
<1>4. \A i \in 1 .. DataBits : (c \div 2 ^ (i - 1)) % 2 = bits[i]
  <2> TAKE i \in 1 .. DataBits
  <2>1. i \in 1 .. 8 /\ i <= DataBits
    BY FrameBits
  <2>2. b[i] = bits[i]
    BY <2>1
  <2> QED BY <1>2, <2>1, <2>2
<1>5. BitsOf(c) = bits
  BY <1>4, FrameBits DEF BitsOf
<1> QED BY <1>3, <1>5 DEF CharOf

-----------------------------------------------------------------------------
(* Types *)

TxRec == [ready : BOOLEAN, txd : Bits, busy : BOOLEAN, wait : Counter,
          count : 0 .. DataBits + 1, data : Seq(Bits)]

RxRec == [rxd : Bits, valid : BOOLEAN, tdata : Chars, wait : Counter,
          count : 0 .. DataBits + 2, data : Seq(Bits), overrun : BOOLEAN, frame : BOOLEAN]

\* The frame shifts out of tx.data and into rx.data, one bit a count.
TxType == /\ tx \in TxRec /\ Len(tx.data) = tx.count
          /\ tx.ready => tx.count = 0 /\ tx.wait = 0

RxType == /\ rx \in RxRec
          /\ rx.count \in 1 .. DataBits + 1 => Len(rx.data) = DataBits + 1 - rx.count
          /\ rx.count \in {0, DataBits + 2} => rx.data = <<>>

BusType ==
  /\ loopback \in DOMAIN Accesses
  /\ req \in Accesses[loopback] \cup {NoAccess}
  /\ prescale \in Values /\ wr.data \in Values
  /\ wr.timeout \in 0 .. Timeout - 1 /\ rd.timeout \in 0 .. Timeout - 1
  /\ sticky \in [overrun : BOOLEAN, frame : BOOLEAN]

TInv == TxType /\ RxType /\ BusType

LEMMA TypesImply == TInv => TypeOK
<1> SUFFICES ASSUME TInv PROVE TypeOK
  OBVIOUS
<1>1. 0 .. 2 ^ 19 - 1 = Counter
  BY DEF Counter
<1>2. Len(rx.data) <= DataBits
  <2>1. CASE rx.count \in 1 .. DataBits + 1
    BY <2>1, FrameBits DEF TInv, RxType, RxRec
  <2>2. CASE rx.count \notin 1 .. DataBits + 1
    BY <2>2, FrameBits DEF TInv, RxType, RxRec
  <2> QED BY <2>1, <2>2
<1> QED BY <1>1, <1>2 DEF TInv, TxType, TxRec, RxType, RxRec, BusType, TypeOK

LEMMA WaitType ==
  ASSUME prescale \in Values
  PROVE  /\ Cycles(BitTime - 1) \in Counter /\ BitTime \in Counter
         /\ Cycles(4 * prescale - 2) \in Counter
<1> DEFINE last == BitTime - 1
           half == 4 * prescale - 2
<1>1. BitTime \in 0 .. 2040 /\ last \in Int /\ half \in Int
  BY DEF BitTime, Values
<1> HIDE DEF last, half
<1>2. Cycles(last) \in Counter /\ Cycles(half) \in Counter
  BY <1>1, CyclesType
<1>3. BitTime \in Counter
  BY <1>1, CounterType
<1> QED BY <1>2, <1>3 DEF last, half

LEMMA FrameType ==
  ASSUME NEW c \in Nat
  PROVE  /\ BitsOf(c % 2 ^ DataBits) \o <<1>> \in Seq(Bits)
         /\ Len(BitsOf(c % 2 ^ DataBits) \o <<1>>) = DataBits + 1
<1> DEFINE size == 2 ^ DataBits
<1>1. size \in {2, 4, 8, 16, 32, 64, 128, 256}
  BY CharsOf, Zenon
<1> HIDE DEF size
<1>2. c % size \in Int
  BY <1>1
<1>3. BitsOf(c % size) \in Seq(Bits) /\ Len(BitsOf(c % size)) = DataBits
  BY <1>2, BitsOfType
<1>4. 1 \in Bits
  BY DEF Bits
<1>5. BitsOf(c % size) \o <<1>> \in Seq(Bits) /\ Len(BitsOf(c % size) \o <<1>>) = DataBits + 1
  BY <1>3, <1>4, FrameBits
<1> QED BY <1>5 DEF size

\* The transmitter, offered a character only when it is ready.
LEMMA TxNext ==
  ASSUME TInv, NEW valid \in BOOLEAN, valid => tx.ready, NEW c \in Nat,
         tx' = TxEdge(valid, c)
  PROVE  TxType'
<1>1. /\ tx \in TxRec /\ tx.wait \in Nat /\ tx.count \in 0 .. DataBits + 1
      /\ tx.data \in Seq(Bits) /\ tx.ready \in BOOLEAN
      /\ Len(tx.data) = tx.count /\ (tx.ready => tx.count = 0 /\ tx.wait = 0)
  <2>1. tx \in TxRec /\ Len(tx.data) = tx.count /\ (tx.ready => tx.count = 0 /\ tx.wait = 0)
    BY DEF TInv, TxType, TxRec
  <2>2. tx.wait \in Counter
    BY <2>1 DEF TxRec
  <2>3. tx.wait \in Nat
    BY <2>2, CounterNat, Zenon
  <2> QED BY <2>1, <2>3 DEF TxRec
<1>2. /\ tx.wait > 0 => tx.wait - 1 \in Counter
      /\ Cycles(BitTime - 1) \in Counter /\ BitTime \in Counter
      /\ 0 \in Bits /\ 1 \in Bits
  <2>1. tx.wait \in Counter /\ prescale \in Values
    BY DEF TInv, TxType, TxRec, BusType
  <2>2. tx.wait > 0 => tx.wait - 1 \in Counter
    BY <2>1, CounterNat, Zenon
  <2>3. 0 \in Bits /\ 1 \in Bits
    BY DEF Bits
  <2> QED BY <2>1, <2>2, <2>3, WaitType, Zenon
<1>3. SUFFICES /\ tx' \in TxRec /\ Len(tx'.data) = tx'.count
               /\ tx'.ready => tx'.count = 0 /\ tx'.wait = 0
  BY DEF TxType, TxRec
<1>4. CASE tx.wait > 0
  <2>1. tx' = [tx EXCEPT !.ready = FALSE, !.wait = tx.wait - 1]
    BY <1>1, <1>4 DEF TxEdge
  <2>2. tx' \in TxRec
    BY <1>1, <1>2, <1>4, <2>1 DEF TxRec
  <2> QED BY <1>1, <2>1, <2>2 DEF TxRec
<1>5. CASE tx.wait = 0 /\ tx.count = 0 /\ valid
  <2>1. tx' = TxStart(c)
    BY <1>1, <1>5 DEF TxEdge
  <2>2. ~tx.ready = FALSE /\ DataBits + 1 \in 0 .. DataBits + 1
    BY <1>5, FrameBits
  <2>3. tx'.data = BitsOf(c % 2 ^ DataBits) \o <<1>> /\ tx'.count = DataBits + 1
    BY <2>1 DEF TxStart
  <2>4. tx' \in TxRec
    BY <1>2, <2>1, <2>2, FrameType DEF TxStart, TxRec
  <2>5. ~tx'.ready
    <3> DEFINE flag == ~tx.ready
    <3>1. tx' = [ready |-> flag, txd |-> 0, busy |-> TRUE, wait |-> Cycles(BitTime - 1),
                 count |-> DataBits + 1, data |-> BitsOf(c % 2 ^ DataBits) \o <<1>>]
      BY <2>1, Zenon DEF TxStart
    <3>2. ~flag
      BY <1>5
    <3> HIDE DEF flag
    <3>3. tx'.ready = flag
      BY <3>1
    <3> QED BY <3>2, <3>3
  <2> QED BY <2>3, <2>4, <2>5, FrameType
<1>6. CASE tx.wait = 0 /\ tx.count = 0 /\ ~valid
  <2>1. tx' = [tx EXCEPT !.ready = TRUE, !.busy = FALSE]
    BY <1>1, <1>6 DEF TxEdge
  <2> QED BY <1>1, <1>6, <2>1 DEF TxRec
<1>7. CASE tx.wait = 0 /\ tx.count > 1
  <2>1. tx' = [tx EXCEPT !.count = tx.count - 1, !.wait = Cycles(BitTime - 1),
                         !.txd = Head(tx.data), !.data = Tail(tx.data)]
    BY <1>1, <1>7, FrameBits DEF TxEdge
  <2>2. /\ Head(tx.data) \in Bits /\ Tail(tx.data) \in Seq(Bits)
        /\ Len(Tail(tx.data)) = tx.count - 1
        /\ tx.count - 1 \in 0 .. DataBits + 1 /\ ~tx.ready
    BY <1>1, <1>7, FrameBits
  <2>3. tx' \in TxRec
    BY <1>1, <1>2, <2>1, <2>2 DEF TxRec
  <2> QED BY <1>1, <2>1, <2>2, <2>3 DEF TxRec
<1>8. CASE tx.wait = 0 /\ tx.count = 1
  <2>1. tx' = [tx EXCEPT !.count = 0, !.wait = BitTime, !.txd = 1, !.data = <<>>]
    BY <1>1, <1>8 DEF TxEdge
  <2>2. 0 \in 0 .. DataBits + 1 /\ <<>> \in Seq(Bits) /\ Len(<<>>) = 0 /\ ~tx.ready
    BY <1>1, <1>8, FrameBits
  <2>3. tx' \in TxRec
    BY <1>1, <1>2, <2>1, <2>2 DEF TxRec
  <2> QED BY <1>1, <2>1, <2>2, <2>3 DEF TxRec
<1> QED BY <1>1, <1>4, <1>5, <1>6, <1>7, <1>8, FrameBits

\* The receiver: a frame that ends well leaves its character, and says so if the
\* one before it was not read; nothing but a read takes a character away.
LEMMA RxNext ==
  ASSUME TInv, NEW line \in Bits, NEW ready \in BOOLEAN, rx' = RxEdge(line, ready)
  PROVE  /\ RxType'
         /\ Delivers => rx'.valid /\ (rx.valid => rx'.overrun)
         /\ rx.valid /\ ~ready => rx'.valid
<1> DEFINE keep == rx.valid /\ ~ready
           r    == [rx EXCEPT !.rxd = line, !.overrun = FALSE, !.frame = FALSE, !.valid = keep]
           bit  == Cycles(BitTime - 1)
           half == Cycles(4 * prescale - 2)
<1>1. /\ rx \in RxRec /\ rx.count \in 0 .. DataBits + 2 /\ rx.data \in Seq(Bits)
      /\ rx.rxd \in Bits /\ rx.valid \in BOOLEAN /\ rx.wait \in Counter
      /\ rx.count \in 1 .. DataBits + 1 => Len(rx.data) = DataBits + 1 - rx.count
      /\ rx.count \in {0, DataBits + 2} => rx.data = <<>>
  BY DEF TInv, RxType, RxRec
<1>2. /\ bit \in Counter /\ half \in Counter
  BY WaitType, Zenon DEF TInv, BusType
<1>3. /\ rx.wait \in Nat /\ (rx.wait > 0 => rx.wait - 1 \in Counter)
  BY <1>1, CounterNat, Zenon
<1>4. keep \in BOOLEAN /\ (rx.valid /\ ~ready => keep) /\ 0 \in Counter
  BY CounterType
<1>5. RxEdge(line, ready) =
        CASE rx.wait > 0 -> [r EXCEPT !.wait = @ - 1]
          [] Sampling    -> Sampled(r)
          [] OTHER       -> IF rx.rxd = 0
                            THEN [r EXCEPT !.wait = half, !.count = DataBits + 2, !.data = <<>>]
                            ELSE r
  BY Zenon DEF RxEdge
<1> HIDE DEF keep, bit, half
<1>6. r \in RxRec /\ r.wait = rx.wait /\ r.count = rx.count /\ r.data = rx.data /\ r.valid = keep
  BY <1>1, <1>4 DEF RxRec
<1> HIDE DEF r
<1> SUFFICES /\ rx' \in RxRec
             /\ rx'.count \in 1 .. DataBits + 1 => Len(rx'.data) = DataBits + 1 - rx'.count
             /\ rx'.count \in {0, DataBits + 2} => rx'.data = <<>>
             /\ Delivers => rx'.valid /\ (rx.valid => rx'.overrun)
             /\ keep => rx'.valid
  BY <1>4 DEF RxType, RxRec
<1>7. CASE rx.wait > 0
  <2>1. rx' = [r EXCEPT !.wait = rx.wait - 1]
    BY <1>3, <1>5, <1>6, <1>7 DEF Sampling
  <2>2. ~Delivers
    BY <1>3, <1>7 DEF Delivers, FrameEnds, Sampling
  <2>3. rx' \in RxRec /\ rx'.count = rx.count /\ rx'.data = rx.data /\ rx'.valid = keep
    BY <1>3, <1>6, <1>7, <2>1 DEF RxRec
  <2> QED BY <1>1, <2>2, <2>3
<1>8. CASE ~Sampling /\ ~(rx.wait > 0)
  <2>1. CASE rx.rxd = 0
    <3>1. rx' = [r EXCEPT !.wait = half, !.count = DataBits + 2, !.data = <<>>]
      BY <1>5, <1>8, <2>1
    <3>2. DataBits + 2 \in 0 .. DataBits + 2 /\ <<>> \in Seq(Bits) /\ DataBits \in Nat
      BY FrameBits
    <3>3. rx' \in RxRec /\ rx'.count = DataBits + 2 /\ rx'.data = <<>> /\ rx'.valid = keep
      BY <1>2, <1>6, <3>1, <3>2 DEF RxRec
    <3> QED BY <1>8, <3>2, <3>3 DEF Delivers, FrameEnds
  <2>2. CASE rx.rxd # 0
    <3>1. rx' = r
      BY <1>5, <1>8, <2>2
    <3> QED BY <1>1, <1>6, <1>8, <3>1 DEF Delivers, FrameEnds
  <2> QED BY <2>1, <2>2
<1>9. CASE Sampling
  <2>1. rx' = Sampled(r) /\ rx.wait = 0 /\ rx.count \in 1 .. DataBits + 2
    BY <1>1, <1>5, <1>9, FrameBits DEF Sampling
  <2>2. CASE rx.count = DataBits + 2 /\ rx.rxd = 0
    <3>1. rx' = [r EXCEPT !.count = r.count - 1, !.wait = bit]
      BY <2>1, <2>2, FrameBits DEF Sampled, bit
    <3>2. /\ r.count - 1 = DataBits + 1 /\ DataBits + 1 \in 0 .. DataBits + 2 /\ DataBits \in Nat
          /\ rx.count # 1
      BY <1>6, <2>2, FrameBits
    <3>3. rx' \in RxRec /\ rx'.count = DataBits + 1 /\ rx'.data = <<>> /\ rx'.valid = keep
      BY <1>1, <1>2, <1>6, <2>2, <3>1, <3>2 DEF RxRec
    <3> QED BY <3>2, <3>3 DEF Delivers, FrameEnds
  <2>3. CASE rx.count = DataBits + 2 /\ rx.rxd # 0
    <3>1. rx' = [r EXCEPT !.count = 0, !.wait = 0]
      BY <2>1, <2>3, FrameBits DEF Sampled
    <3>2. 0 \in 0 .. DataBits + 2 /\ rx.count # 1
      BY <2>3, FrameBits
    <3>3. rx' \in RxRec /\ rx'.count = 0 /\ rx'.data = <<>> /\ rx'.valid = keep
      BY <1>1, <1>4, <1>6, <2>3, <3>1, <3>2 DEF RxRec
    <3> QED BY <3>2, <3>3 DEF Delivers, FrameEnds
  <2>4. CASE rx.count \in 2 .. DataBits + 1
    <3>1. rx' = [r EXCEPT !.count = r.count - 1, !.wait = bit, !.data = Append(r.data, rx.rxd)]
      BY <2>1, <2>4, FrameBits DEF Sampled, bit
    <3>2. /\ r.count - 1 = rx.count - 1 /\ rx.count - 1 \in 0 .. DataBits + 2
          /\ rx.count - 1 \in 1 .. DataBits /\ rx.count # 1
          /\ Append(rx.data, rx.rxd) \in Seq(Bits)
          /\ Len(Append(rx.data, rx.rxd)) = DataBits + 1 - (rx.count - 1)
      <4> DataBits \in Nat /\ rx.count \in Nat
        BY <2>4, FrameBits
      <4>1. /\ r.count - 1 = rx.count - 1 /\ rx.count - 1 \in 0 .. DataBits + 2
            /\ rx.count - 1 \in 1 .. DataBits /\ rx.count # 1
        <5>1. r.count = rx.count
          BY <1>6
        <5>2. rx.count >= 2 /\ rx.count <= DataBits + 1
          BY <2>4
        <5> QED BY <5>1, <5>2
      <4>2. Len(rx.data) = DataBits + 1 - rx.count
        BY <1>1, <2>4, FrameBits
      <4>3. /\ Append(rx.data, rx.rxd) \in Seq(Bits)
            /\ Len(Append(rx.data, rx.rxd)) = Len(rx.data) + 1
        BY <1>1
      <4>4. DataBits + 1 - rx.count + 1 = DataBits + 1 - (rx.count - 1)
        BY <2>4, FrameBits
      <4> QED BY <4>1, <4>2, <4>3, <4>4
    <3>3. /\ rx' \in RxRec /\ rx'.count = rx.count - 1 /\ rx'.valid = keep
          /\ rx'.data = Append(rx.data, rx.rxd)
      BY <1>2, <1>6, <3>1, <3>2 DEF RxRec
    <3>4. rx.count - 1 \notin {0, DataBits + 2}
      BY <3>2, FrameBits
    <3> QED BY <3>2, <3>3, <3>4 DEF Delivers, FrameEnds
  <2>5. CASE rx.count = 1 /\ rx.rxd = 1
    <3>1. rx' = [r EXCEPT !.count = 0, !.tdata = CharOf(rx.data), !.valid = TRUE,
                          !.overrun = rx.valid, !.data = <<>>]
      BY <2>1, <2>5, FrameBits DEF Sampled
    <3>2. CharOf(rx.data) \in Chars
      <4>1. Len(rx.data) = DataBits
        BY <1>1, <2>5, FrameBits
      <4> QED BY <1>1, <4>1, CharOfType
    <3>3. 0 \in 0 .. DataBits + 2 /\ <<>> \in Seq(Bits)
      BY FrameBits
    <3>4. /\ rx' \in RxRec /\ rx'.count = 0 /\ rx'.data = <<>> /\ rx'.valid = TRUE
          /\ rx'.overrun = rx.valid
      BY <1>1, <1>6, <3>1, <3>2, <3>3 DEF RxRec
    <3> QED BY <3>4
  <2>6. CASE rx.count = 1 /\ rx.rxd # 1
    <3>1. rx.rxd = 0
      BY <1>1, <2>6 DEF Bits
    <3>2. rx' = [r EXCEPT !.count = 0, !.frame = TRUE, !.data = <<>>]
      BY <2>1, <2>6, <3>1, FrameBits DEF Sampled
    <3>3. 0 \in 0 .. DataBits + 2 /\ <<>> \in Seq(Bits)
      BY FrameBits
    <3>4. rx' \in RxRec /\ rx'.count = 0 /\ rx'.data = <<>> /\ rx'.valid = keep
      BY <1>6, <3>2, <3>3 DEF RxRec
    <3> QED BY <2>6, <3>4 DEF Delivers
  <2> QED BY <2>1, <2>2, <2>3, <2>4, <2>5, <2>6, FrameBits
<1> QED BY <1>7, <1>8, <1>9

\* The register interface and software.
LEMMA BusNext ==
  ASSUME TInv, NEW take \in BOOLEAN, RegisterInterface(take), Master(take),
         sticky' = Sticky, prescale' = IF WrSel("prescale") THEN wr.data ELSE prescale,
         loopback' = loopback
  PROVE  BusType'
<1>1. /\ loopback \in DOMAIN Accesses /\ req \in Accesses[loopback] \cup {NoAccess}
      /\ prescale \in Values /\ wr.data \in Values
      /\ wr.timeout \in 0 .. Timeout - 1 /\ rd.timeout \in 0 .. Timeout - 1
      /\ sticky \in [overrun : BOOLEAN, frame : BOOLEAN]
      /\ rx.overrun \in BOOLEAN /\ rx.frame \in BOOLEAN
  BY DEF TInv, BusType, RxType, RxRec
<1>2. req' \in Accesses[loopback] \cup {NoAccess}
  BY <1>1 DEF Master, NewAccess
<1>3. req.value \in Values
  <2>1. CASE req = NoAccess
    BY <2>1 DEF NoAccess, Values
  <2>2. CASE req \in Accesses[loopback]
    <3>1. req \in [op : {"write", "read"}, reg : Registers, value : Values]
      BY <1>1, <2>2, UartAssumption
    <3> QED BY <3>1
  <2> QED BY <1>1, <2>1, <2>2
<1>4. wr'.data \in Values
  <2>1. wr'.data = IF wr.w THEN wr.data ELSE req.value
    BY DEF RegisterInterface, WrEdge, Signals
  <2> QED BY <1>1, <1>3, <2>1
<1>5. /\ wr'.timeout = Countdown(wr.aw, wr, WrWait)
      /\ rd'.timeout = Countdown(rd.ar, rd, FALSE)
  BY DEF RegisterInterface, WrEdge, RdEdge
<1>6. sticky' \in [overrun : BOOLEAN, frame : BOOLEAN]
  BY DEF Sticky
<1>7. wr'.timeout \in 0 .. Timeout - 1 /\ rd'.timeout \in 0 .. Timeout - 1
  BY <1>1, <1>5, RegIfAssumption DEF Countdown
<1>8. prescale' \in Values
  BY <1>1
<1> QED BY <1>1, <1>2, <1>4, <1>6, <1>7, <1>8 DEF BusType

LEMMA TypesInit == Init => TInv
<1> SUFFICES ASSUME Init PROVE TInv
  OBVIOUS
<1>1. 0 \in Counter /\ 0 \in Bits /\ 1 \in Bits
  BY CounterType DEF Bits
<1>2. TxType
  BY <1>1, FrameBits DEF Init, TxType, TxRec, TxReset
<1>3. RxType
  <2>1. 0 \in Chars
    <3> DEFINE size == 2 ^ DataBits
    <3>1. size \in {2, 4, 8, 16, 32, 64, 128, 256}
      BY CharsOf, Zenon
    <3>2. Chars = 0 .. size - 1
      BY DEF Chars
    <3> HIDE DEF size
    <3> QED BY <3>1, <3>2
  <2> QED BY <1>1, <2>1, FrameBits DEF Init, RxType, RxRec, RxReset
<1>4. BusType
  BY UartAssumption, RegIfAssumption DEF Init, BusType, Divisor, WrReset, RdReset, Values
<1> QED BY <1>2, <1>3, <1>4 DEF TInv

\* One clock edge, seen by the transmitter and by the receiver.
LEMMA EdgeDevice ==
  ASSUME TInv, Edge
  PROVE  /\ TInv'
         /\ Delivers => rx'.valid /\ (rx.valid => rx'.overrun)
         /\ rx.valid /\ ~RxReady => rx'.valid
         /\ sticky' = Sticky
<1>1. PICK line \in Lines : Device(line)
  BY DEF Edge
<1>2. PICK take \in BOOLEAN : RegisterInterface(take) /\ Master(take)
  BY DEF Edge
<1>3. line \in Bits /\ wr.data \in Nat
  <2>1. line \in Bits
    BY DEF TInv, TxType, TxRec, Lines, Bits
  <2>2. wr.data \in Nat
    BY DEF TInv, BusType, Values
  <2> QED BY <2>1, <2>2
<1>4. TxType'
  BY <1>1, <1>3, TxNext DEF Device, TxValid
<1>5. /\ RxType'
      /\ Delivers => rx'.valid /\ (rx.valid => rx'.overrun)
      /\ rx.valid /\ ~RxReady => rx'.valid
  <2> DEFINE ready == RxReady
  <2>1. rx' = RxEdge(line, ready) /\ ready \in BOOLEAN
    BY <1>1 DEF Device, RxReady
  <2> HIDE DEF ready
  <2>2. /\ RxType'
        /\ Delivers => rx'.valid /\ (rx.valid => rx'.overrun)
        /\ rx.valid /\ ~ready => rx'.valid
    BY <1>3, <2>1, RxNext
  <2> QED BY <2>2 DEF ready
<1>6. BusType' /\ sticky' = Sticky
  BY <1>1, <1>2, BusNext DEF Device, Edge
<1> QED BY <1>4, <1>5, <1>6 DEF TInv

LEMMA TypesHold == Spec => []TInv
<1>1. TInv /\ [Next]_vars => TInv'
  <2>1. TInv /\ UNCHANGED vars => TInv'
    BY DEF TInv, TxType, TxRec, RxType, RxRec, BusType, vars
  <2> QED BY <2>1, EdgeDevice DEF Next
<1> QED BY <1>1, TypesInit, PTL DEF Spec

\* The UART's registers keep to their types: no counter wraps and no shift
\* register runs over, whatever is on the line and whenever the bit time changes
\* (uart_tx.v:78-113, uart_rx.v:86-140, axil_reg_if_wr.v:108-128).
THEOREM UartTypes == Spec => []TypeOK
  BY TypesHold, TypesImply, PTL

-----------------------------------------------------------------------------
(* What software is told *)

LEMMA RememberedNext == TInv /\ LossIsRemembered /\ [Next]_vars => LossIsRemembered'
<1> SUFFICES ASSUME TInv, LossIsRemembered, [Next]_vars, lost'
             PROVE  rx'.overrun \/ sticky'.overrun
  BY DEF LossIsRemembered
<1>1. CASE Edge
  <2>1. (Delivers /\ rx.valid /\ ~RxReady) \/ (lost /\ ~Told)
    BY <1>1 DEF Edge, Bookkeeping
  <2>2. CASE Delivers /\ rx.valid
    BY <1>1, <2>2, EdgeDevice
  <2>3. CASE lost /\ ~Told
    <3>1. rx.overrun \/ (sticky.overrun /\ ~StatusReadFire)
      BY <2>3 DEF LossIsRemembered, Told
    <3>2. sticky' = Sticky
      BY <1>1, EdgeDevice
    <3> QED BY <3>1, <3>2 DEF Sticky
  <2> QED BY <2>1, <2>2, <2>3
<1>2. CASE UNCHANGED vars
  BY <1>2 DEF vars, LossIsRemembered
<1> QED BY <1>1, <1>2 DEF Next

\* No character is lost in silence, not even when the loss and the read that
\* clears the flag fall on one edge (uart_axil.v:22-24, 141-147).
THEOREM LossesAreTold == Spec => []LossIsRemembered
<1>1. Init => LossIsRemembered
  BY DEF Init, LossIsRemembered
<1> QED BY <1>1, RememberedNext, TypesHold, PTL DEF Spec

LEMMA PromiseNext == TInv /\ ValidUntilRead /\ [Next]_vars => ValidUntilRead'
<1> SUFFICES ASSUME TInv, ValidUntilRead, [Next]_vars, promised'
             PROVE  rx'.valid
  BY DEF ValidUntilRead
<1>1. CASE Edge
  <2>1. rx.valid /\ ~RxReady
    BY <1>1 DEF Edge, Bookkeeping, ValidUntilRead, StatusReadFire, RdSel, RxReady,
                DataReadFire
  <2> QED BY <1>1, <2>1, EdgeDevice
<1>2. CASE UNCHANGED vars
  BY <1>2 DEF vars, ValidUntilRead
<1> QED BY <1>1, <1>2 DEF Next

\* What STATUS has promised DATA delivers: only the read of DATA takes a
\* character away (uart_axil.v:9-14, 112-114; uart_rx.v:91-94).
THEOREM PromisesAreKept == Spec => []ValidUntilRead
<1>1. Init => ValidUntilRead
  BY DEF Init, ValidUntilRead
<1> QED BY <1>1, PromiseNext, TypesHold, PTL DEF Spec

-----------------------------------------------------------------------------
(* What is sent arrives: transmitter and receiver keep step, half a bit      *)
(* apart, for every number of data bits and every bit time.                  *)

\* Software that talks to itself does not change the bit time under way, and a
\* register has more than one cycle to answer (axil_reg_if.v:43).
SteadyLink ==
  /\ Timeout > 1
  /\ TRUE \in DOMAIN Accesses =>
       \A a \in Accesses[TRUE] : ~(a.op = "write" /\ a.reg = "prescale")

\* Half a bit, in cycles.
HalfBit == 4 * PrescaleInit

LEMMA BitTimes ==
  /\ HalfBit \in Nat /\ HalfBit >= 4 /\ HalfBit <= 1020
  /\ prescale = PrescaleInit =>
       /\ BitTime = 2 * HalfBit /\ Cycles(BitTime - 1) = 2 * HalfBit - 1
       /\ Cycles(4 * prescale - 2) = HalfBit - 2
<1> DEFINE size == 2 ^ 19
<1>1. size \in Nat /\ size > 2040
  BY CounterSize, SMT
<1>2. \A n : Cycles(n) = n % size
  BY DEF Cycles
<1> HIDE DEF size
<1>3. HalfBit \in Nat /\ HalfBit >= 4 /\ HalfBit <= 1020
  BY UartAssumption DEF HalfBit, Divisor, Values
<1>4. ASSUME NEW n \in 0 .. 2040 PROVE Cycles(n) = n
  <2>1. n \in Nat /\ n < size
    BY <1>1
  <2>2. n % size = n
    BY <1>1, <2>1
  <2> QED BY <1>2, <2>2
<1>5. ASSUME prescale = PrescaleInit
      PROVE  /\ BitTime = 2 * HalfBit /\ BitTime - 1 = 2 * HalfBit - 1
             /\ 4 * prescale - 2 = HalfBit - 2
  BY <1>5, UartAssumption DEF HalfBit, BitTime, Divisor, Values
<1>6. 2 * HalfBit - 1 \in 0 .. 2040 /\ HalfBit - 2 \in 0 .. 2040
  BY <1>3
<1> QED BY <1>3, <1>4, <1>5, <1>6

\* A number below 256 is the sum of its bits.
LEMMA SumOfBits ==
  ASSUME NEW n \in 0 .. 255
  PROVE  n = (n % 2) + 2 * ((n \div 2) % 2) + 4 * ((n \div 4) % 2) + 8 * ((n \div 8) % 2)
             + 16 * ((n \div 16) % 2) + 32 * ((n \div 32) % 2) + 64 * ((n \div 64) % 2)
             + 128 * ((n \div 128) % 2)
  OBVIOUS

LEMMA CharRange ==
  ASSUME NEW c \in Chars
  PROVE  /\ c \in 0 .. 255
         /\ DataBits < 8 => c < 128
         /\ DataBits < 7 => c < 64
         /\ DataBits < 6 => c < 32
         /\ DataBits < 5 => c < 16
         /\ DataBits < 4 => c < 8
         /\ DataBits < 3 => c < 4
         /\ DataBits < 2 => c < 2
<1> DEFINE size == 2 ^ DataBits
<1>1. \/ DataBits = 1 /\ size = 2
      \/ DataBits = 2 /\ size = 4
      \/ DataBits = 3 /\ size = 8
      \/ DataBits = 4 /\ size = 16
      \/ DataBits = 5 /\ size = 32
      \/ DataBits = 6 /\ size = 64
      \/ DataBits = 7 /\ size = 128
      \/ DataBits = 8 /\ size = 256
  BY CharsOf, Zenon
<1>2. c \in 0 .. size - 1
  BY DEF Chars
<1> HIDE DEF size
<1> QED BY <1>1, <1>2

\* The bit of a character beyond its width is 0.
LEMMA BitBeyond ==
  ASSUME NEW c \in Chars
  PROVE  /\ DataBits < 8 => (c \div 128) % 2 = 0
         /\ DataBits < 7 => (c \div 64) % 2 = 0
         /\ DataBits < 6 => (c \div 32) % 2 = 0
         /\ DataBits < 5 => (c \div 16) % 2 = 0
         /\ DataBits < 4 => (c \div 8) % 2 = 0
         /\ DataBits < 3 => (c \div 4) % 2 = 0
         /\ DataBits < 2 => (c \div 2) % 2 = 0
  BY CharRange

\* Different characters have different bits.
LEMMA BitsTell ==
  ASSUME NEW c \in Chars, NEW d \in Chars, BitsOf(c) = BitsOf(d)
  PROVE  c = d
<1> DEFINE bit(n, i) == (n \div 2 ^ (i - 1)) % 2
<1>1. \A i \in 1 .. DataBits : bit(c, i) = bit(d, i)
  <2>1. /\ BitsOf(c) = [i \in 1 .. DataBits |-> bit(c, i)]
        /\ BitsOf(d) = [i \in 1 .. DataBits |-> bit(d, i)]
    BY DEF BitsOf
  <2> HIDE DEF bit
  <2> QED BY <2>1
<1>2. \A n : /\ bit(n, 1) = (n \div 1) % 2 /\ bit(n, 2) = (n \div 2) % 2
             /\ bit(n, 3) = (n \div 4) % 2 /\ bit(n, 4) = (n \div 8) % 2
             /\ bit(n, 5) = (n \div 16) % 2 /\ bit(n, 6) = (n \div 32) % 2
             /\ bit(n, 7) = (n \div 64) % 2 /\ bit(n, 8) = (n \div 128) % 2
  BY PowerOf
<1> HIDE DEF bit
<1>3. c \in 0 .. 255 /\ d \in 0 .. 255
  BY CharRange
<1>4. /\ (c % 2) = (d % 2)
      /\ (c \div 2) % 2 = (d \div 2) % 2 /\ (c \div 4) % 2 = (d \div 4) % 2
      /\ (c \div 8) % 2 = (d \div 8) % 2 /\ (c \div 16) % 2 = (d \div 16) % 2
      /\ (c \div 32) % 2 = (d \div 32) % 2 /\ (c \div 64) % 2 = (d \div 64) % 2
      /\ (c \div 128) % 2 = (d \div 128) % 2
  <2>1. (c \div 1) % 2 = (d \div 1) % 2 /\ c \div 1 = c /\ d \div 1 = d
    BY <1>1, <1>2, <1>3, FrameBits
  <2>2. (c \div 2) % 2 = (d \div 2) % 2
    BY <1>1, <1>2, BitBeyond, FrameBits
  <2>3. (c \div 4) % 2 = (d \div 4) % 2
    BY <1>1, <1>2, BitBeyond, FrameBits
  <2>4. (c \div 8) % 2 = (d \div 8) % 2
    BY <1>1, <1>2, BitBeyond, FrameBits
  <2>5. (c \div 16) % 2 = (d \div 16) % 2
    BY <1>1, <1>2, BitBeyond, FrameBits
  <2>6. (c \div 32) % 2 = (d \div 32) % 2
    BY <1>1, <1>2, BitBeyond, FrameBits
  <2>7. (c \div 64) % 2 = (d \div 64) % 2
    BY <1>1, <1>2, BitBeyond, FrameBits
  <2>8. (c \div 128) % 2 = (d \div 128) % 2
    BY <1>1, <1>2, BitBeyond, FrameBits
  <2> QED BY <2>1, <2>2, <2>3, <2>4, <2>5, <2>6, <2>7, <2>8
<1> QED BY <1>3, <1>4, SumOfBits

\* What was taken apart is put together again.
LEMMA CharOfBits ==
  ASSUME NEW c \in Nat
  PROVE  /\ c % 2 ^ DataBits \in Chars
         /\ BitsOf(c % 2 ^ DataBits) \in Seq(Bits) /\ Len(BitsOf(c % 2 ^ DataBits)) = DataBits
         /\ CharOf(BitsOf(c % 2 ^ DataBits)) = c % 2 ^ DataBits
<1> DEFINE size == 2 ^ DataBits
           d == c % size
<1>1. size \in {2, 4, 8, 16, 32, 64, 128, 256}
  BY CharsOf, Zenon
<1>2. Chars = 0 .. size - 1
  BY DEF Chars
<1> HIDE DEF size
<1>3. d \in Chars /\ d \in Int
  BY <1>1, <1>2
<1> HIDE DEF d
<1>4. BitsOf(d) \in Seq(Bits) /\ Len(BitsOf(d)) = DataBits
  BY <1>3, BitsOfType
<1>5. CharOf(BitsOf(d)) \in Chars /\ BitsOf(CharOf(BitsOf(d))) = BitsOf(d)
  BY <1>4, CharOfType
<1>6. CharOf(BitsOf(d)) = d
  BY <1>3, <1>5, BitsTell
<1> QED BY <1>3, <1>4, <1>6 DEF d, size

\* One edge of the transmitter.
LEMMA TxMoves ==
  ASSUME TInv, NEW valid \in BOOLEAN, NEW c \in Nat, tx' = TxEdge(valid, c)
  PROVE  /\ tx.wait \in Nat /\ tx.count \in 0 .. DataBits + 1
         /\ tx.wait > 0 => /\ tx'.wait = tx.wait - 1 /\ tx'.count = tx.count
                           /\ tx'.txd = tx.txd /\ tx'.data = tx.data
         /\ tx.wait = 0 /\ tx.count = 0 /\ ~valid =>
              tx'.wait = 0 /\ tx'.count = 0 /\ tx'.txd = tx.txd
         /\ tx.wait = 0 /\ tx.count = 0 /\ valid =>
              /\ tx'.wait = Cycles(BitTime - 1) /\ tx'.count = DataBits + 1 /\ tx'.txd = 0
              /\ tx'.data = BitsOf(c % 2 ^ DataBits) \o <<1>>
         /\ tx.wait = 0 /\ tx.count > 1 =>
              /\ tx'.wait = Cycles(BitTime - 1) /\ tx'.count = tx.count - 1
              /\ tx'.txd = Head(tx.data) /\ tx'.data = Tail(tx.data)
         /\ tx.wait = 0 /\ tx.count = 1 =>
              tx'.wait = BitTime /\ tx'.count = 0 /\ tx'.txd = 1 /\ tx'.data = <<>>
<1>1. tx \in TxRec
  BY DEF TInv, TxType
<1>2. tx.wait \in Nat /\ tx.count \in 0 .. DataBits + 1
  <2>1. tx.wait \in Counter /\ tx.count \in 0 .. DataBits + 1
    BY <1>1 DEF TxRec
  <2> QED BY <2>1, CounterNat, Zenon
<1>3. CASE tx.wait > 0
  <2>1. tx' = [tx EXCEPT !.ready = FALSE, !.wait = tx.wait - 1]
    BY <1>2, <1>3 DEF TxEdge
  <2> QED BY <1>1, <1>2, <1>3, <2>1 DEF TxRec
<1>4. CASE tx.wait = 0 /\ tx.count = 0 /\ valid
  <2>1. tx' = TxStart(c)
    BY <1>2, <1>4 DEF TxEdge
  <2> DEFINE flag  == ~tx.ready
             wait  == Cycles(BitTime - 1)
             count == DataBits + 1
             data  == BitsOf(c % 2 ^ DataBits) \o <<1>>
  <2>2. tx' = [ready |-> flag, txd |-> 0, busy |-> TRUE, wait |-> wait, count |-> count,
               data |-> data]
    BY <2>1, Zenon DEF TxStart
  <2> HIDE DEF flag, wait, count, data
  <2>3. tx'.wait = wait /\ tx'.count = count /\ tx'.txd = 0 /\ tx'.data = data
    BY <2>2
  <2>4. ~(tx.wait > 0) /\ ~(tx.count > 1) /\ tx.count # 1
    BY <1>4
  <2> QED BY <1>2, <1>4, <2>3, <2>4, Zenon DEF wait, count, data
<1>5. CASE tx.wait = 0 /\ tx.count = 0 /\ ~valid
  <2>1. tx' = [tx EXCEPT !.ready = TRUE, !.busy = FALSE]
    BY <1>2, <1>5 DEF TxEdge
  <2> QED BY <1>1, <1>2, <1>5, <2>1 DEF TxRec
<1>6. CASE tx.wait = 0 /\ tx.count > 1
  <2>1. tx' = [tx EXCEPT !.count = tx.count - 1, !.wait = Cycles(BitTime - 1),
                         !.txd = Head(tx.data), !.data = Tail(tx.data)]
    BY <1>2, <1>6, FrameBits DEF TxEdge
  <2> QED BY <1>1, <1>2, <1>6, <2>1 DEF TxRec
<1>7. CASE tx.wait = 0 /\ tx.count = 1
  <2>1. tx' = [tx EXCEPT !.count = 0, !.wait = BitTime, !.txd = 1, !.data = <<>>]
    BY <1>2, <1>7 DEF TxEdge
  <2> QED BY <1>1, <1>2, <1>7, <2>1 DEF TxRec
<1> QED BY <1>2, <1>3, <1>4, <1>5, <1>6, <1>7, FrameBits

\* One edge of the receiver.
LEMMA RxMoves ==
  ASSUME TInv, NEW line, NEW ready \in BOOLEAN, rx' = RxEdge(line, ready)
  PROVE  /\ rx'.rxd = line
         /\ rx.wait \in Nat /\ rx.count \in 0 .. DataBits + 2
         /\ rx.wait > 0 =>
              rx'.wait = rx.wait - 1 /\ rx'.count = rx.count /\ rx'.data = rx.data
         /\ rx.wait = 0 /\ rx.count = 0 /\ rx.rxd = 1 => rx'.wait = 0 /\ rx'.count = 0
         /\ rx.wait = 0 /\ rx.count = 0 /\ rx.rxd = 0 =>
              rx'.wait = Cycles(4 * prescale - 2) /\ rx'.count = DataBits + 2
         /\ rx.wait = 0 /\ rx.count = DataBits + 2 /\ rx.rxd = 0 =>
              /\ rx'.wait = Cycles(BitTime - 1) /\ rx'.count = DataBits + 1
              /\ rx'.data = rx.data
         /\ rx.wait = 0 /\ rx.count \in 2 .. DataBits + 1 =>
              /\ rx'.wait = Cycles(BitTime - 1) /\ rx'.count = rx.count - 1
              /\ rx'.data = Append(rx.data, rx.rxd)
         /\ rx.wait = 0 /\ rx.count = 1 /\ rx.rxd = 1 => rx'.wait = 0 /\ rx'.count = 0
<1> DEFINE keep == rx.valid /\ ~ready
           r    == [rx EXCEPT !.rxd = line, !.overrun = FALSE, !.frame = FALSE, !.valid = keep]
           bit  == Cycles(BitTime - 1)
           half == Cycles(4 * prescale - 2)
<1>1. /\ rx \in RxRec /\ rx.count \in 0 .. DataBits + 2 /\ rx.wait \in Counter
  BY DEF TInv, RxType, RxRec
<1>2. rx.wait \in Nat
  BY <1>1, CounterNat, Zenon
<1>3. rx' = CASE rx.wait > 0 -> [r EXCEPT !.wait = @ - 1]
              [] Sampling    -> Sampled(r)
              [] OTHER       -> IF rx.rxd = 0
                                THEN [r EXCEPT !.wait = half, !.count = DataBits + 2, !.data = <<>>]
                                ELSE r
  BY Zenon DEF RxEdge
<1> HIDE DEF keep, bit, half
<1>4. /\ r = [r EXCEPT !.rxd = line] /\ r.rxd = line
      /\ r.wait = rx.wait /\ r.count = rx.count /\ r.data = rx.data
      /\ DOMAIN r = {"rxd", "valid", "tdata", "wait", "count", "data", "overrun", "frame"}
  BY <1>1 DEF RxRec
<1> HIDE DEF r
<1>5. CASE rx.wait > 0
  <2>1. rx' = [r EXCEPT !.wait = rx.wait - 1]
    BY <1>2, <1>3, <1>4, <1>5 DEF Sampling
  <2> QED BY <1>1, <1>2, <1>4, <1>5, <2>1
<1>6. CASE rx.wait = 0 /\ rx.count = 0
  <2>1. rx.rxd = 1 => rx' = r
    BY <1>3, <1>6 DEF Sampling
  <2>2. rx.rxd = 0 => rx' = [r EXCEPT !.wait = half, !.count = DataBits + 2, !.data = <<>>]
    BY <1>3, <1>6 DEF Sampling
  <2>3. rx.rxd # 0 => rx' = r
    BY <1>3, <1>6 DEF Sampling
  <2>4. rx.rxd = 0 => rx'.wait = half /\ rx'.count = DataBits + 2 /\ rx'.rxd = line
    BY <1>4, <2>2
  <2>5. rx.rxd # 0 => rx'.wait = 0 /\ rx'.count = 0 /\ rx'.rxd = line
    BY <1>4, <1>6, <2>3
  <2>6. rx.rxd = 1 => rx.rxd # 0
    OBVIOUS
  <2>7. ~(rx.wait > 0) /\ rx.count # DataBits + 2 /\ rx.count \notin 2 .. DataBits + 1 /\ rx.count # 1
    BY <1>6, FrameBits
  <2>8. rx'.rxd = line
    BY <2>4, <2>5
  <2> QED BY <1>1, <1>2, <1>6, <2>4, <2>5, <2>6, <2>7, <2>8, Zenon DEF half
<1>7. CASE rx.wait = 0 /\ rx.count # 0
  <2>1. rx' = Sampled(r) /\ rx.count \in 1 .. DataBits + 2
    BY <1>1, <1>3, <1>7, FrameBits DEF Sampling
  <2>2. CASE rx.count = DataBits + 2 /\ rx.rxd = 0
    <3>1. rx' = [r EXCEPT !.count = r.count - 1, !.wait = bit]
      BY <2>1, <2>2, FrameBits DEF Sampled, bit
    <3> QED BY <1>1, <1>2, <1>4, <1>7, <2>2, <3>1, FrameBits DEF bit
  <2>3. CASE rx.count = DataBits + 2 /\ rx.rxd # 0
    <3>1. rx' = [r EXCEPT !.count = 0, !.wait = 0]
      BY <2>1, <2>3, FrameBits DEF Sampled
    <3> QED BY <1>1, <1>2, <1>4, <1>7, <2>3, <3>1, FrameBits
  <2>4. CASE rx.count \in 2 .. DataBits + 1
    <3>1. rx' = [r EXCEPT !.count = r.count - 1, !.wait = bit, !.data = Append(r.data, rx.rxd)]
      BY <2>1, <2>4, FrameBits DEF Sampled, bit
    <3> QED BY <1>1, <1>2, <1>4, <1>7, <2>4, <3>1, FrameBits DEF bit
  <2>5. CASE rx.count = 1 /\ rx.rxd = 1
    <3>1. rx' = [r EXCEPT !.count = 0, !.tdata = CharOf(rx.data), !.valid = TRUE,
                          !.overrun = rx.valid, !.data = <<>>]
      BY <2>1, <2>5, FrameBits DEF Sampled
    <3> QED BY <1>1, <1>2, <1>4, <1>7, <2>5, <3>1, FrameBits
  <2>6. CASE rx.count = 1 /\ rx.rxd # 1
    <3>1. rx.rxd = 0
      BY <2>6 DEF TInv, RxType, RxRec, Bits
    <3>2. rx' = [r EXCEPT !.count = 0, !.frame = TRUE, !.data = <<>>]
      BY <2>1, <2>6, <3>1, FrameBits DEF Sampled
    <3> QED BY <1>1, <1>2, <1>4, <1>7, <2>6, <3>2, FrameBits
  <2> QED BY <2>1, <2>2, <2>3, <2>4, <2>5, <2>6, FrameBits
<1> QED BY <1>1, <1>2, <1>5, <1>6, <1>7

\* The bits of a character and its stop bit, as they follow the start bit.
Frame(c) == BitsOf(c % 2 ^ DataBits) \o <<1>>

LEMMA FrameOf ==
  ASSUME NEW c \in Nat
  PROVE  /\ Frame(c) \in Seq(Bits) /\ Len(Frame(c)) = DataBits + 1
         /\ Frame(c)[DataBits + 1] = 1
         /\ \A i \in 1 .. DataBits : Frame(c)[i] = BitsOf(c % 2 ^ DataBits)[i]
<1>1. PICK b : b = BitsOf(c % 2 ^ DataBits)
  OBVIOUS
<1>2. b \in Seq(Bits) /\ Len(b) = DataBits
  BY <1>1, CharOfBits
<1>3. Frame(c) = b \o <<1>>
  BY <1>1 DEF Frame
<1>4. /\ b \o <<1>> \in Seq(Bits) /\ Len(b \o <<1>>) = DataBits + 1
      /\ (b \o <<1>>)[DataBits + 1] = 1
      /\ \A i \in 1 .. DataBits : (b \o <<1>>)[i] = b[i]
  BY <1>2, FrameBits DEF Bits
<1> QED BY <1>1, <1>3, <1>4, Zenon

\* The access under way and the port: the time a register is given stands still
\* while it waits, and a looped back access leaves the bit time alone.
Requested ==
  /\ offered \subseteq Needs
  /\ wr.en => wr.aw
  /\ wr.aw => wr.timeout = Timeout - 1
  /\ loopback => prescale = PrescaleInit
  /\ loopback /\ wr.aw => wr.addr # "prescale"

\* Where the bits of the character are: those to come, the one on the line, and
\* those received.
ToCome(c) ==
  /\ tx.count = DataBits + 1 => tx.txd = 0
  /\ tx.count <= DataBits => tx.txd = Frame(c)[DataBits + 1 - tx.count]
  /\ \A i \in 1 .. tx.count : tx.data[i] = Frame(c)[DataBits + 1 - tx.count + i]
Received(c) ==
  rx.count \in 1 .. DataBits + 1 =>
    \A i \in 1 .. DataBits + 1 - rx.count : rx.data[i] = Frame(c)[i]

\* How far the two are apart: the receiver samples the bit under way when the
\* transmitter has HalfBit - 1 cycles of it left.
Resting  == tx.count = 0 /\ tx.txd = 1 /\ rx.count = 0 /\ rx.wait = 0 /\ rx.rxd = 1
Starting == /\ tx.count = DataBits + 1 /\ tx.wait = 2 * HalfBit - 1
            /\ rx.count = 0 /\ rx.wait = 0 /\ rx.rxd = 1
Noticed  == /\ tx.count = DataBits + 1 /\ tx.wait = 2 * HalfBit - 2
            /\ rx.count = 0 /\ rx.wait = 0 /\ rx.rxd = 0
Before   == /\ rx.count = tx.count + 1 /\ tx.count >= 1
            /\ HalfBit - 1 <= tx.wait /\ tx.wait <= 2 * HalfBit - 1
            /\ rx.count = DataBits + 2 => tx.wait <= 2 * HalfBit - 3
            /\ rx.wait = tx.wait - (HalfBit - 1)
            /\ tx.wait < 2 * HalfBit - 1 => rx.rxd = tx.txd
After    == /\ rx.count = tx.count /\ tx.count >= 1 /\ tx.wait <= HalfBit - 2
            /\ rx.wait = tx.wait + HalfBit + 1
            /\ rx.rxd = tx.txd
Stopping == /\ rx.count = 1 /\ tx.count = 0 /\ HalfBit <= tx.wait /\ tx.wait <= 2 * HalfBit
            /\ rx.wait = tx.wait - HalfBit
            /\ tx.wait < 2 * HalfBit => rx.rxd = 1

InStep == \/ Resting /\ inFlight = <<>>
          \/ \E c \in Values : /\ inFlight = <<c>> /\ ToCome(c) /\ Received(c)
                               /\ Starting \/ Noticed \/ Before \/ After \/ Stopping
Link == Requested /\ (loopback => InStep)

LEMMA RequestedNext ==
  ASSUME SteadyLink, TInv, Requested, Edge
  PROVE  Requested'
<1>1. PICK take \in BOOLEAN : RegisterInterface(take) /\ Master(take)
  BY DEF Edge
<1>2. /\ loopback' = loopback /\ loopback \in BOOLEAN
      /\ prescale' = IF WrSel("prescale") THEN wr.data ELSE prescale
  BY UartAssumption DEF Edge, Device, TInv, BusType
<1>3. (offered \subseteq Needs)'
  <2>1. CASE NewAccess
    BY <2>1 DEF NewAccess
  <2>2. CASE ~NewAccess
    <3>1. /\ req' = req
          /\ \E more \in SUBSET (Needs \ (offered \cup taken)) :
               offered' = (offered \ Handshakes) \cup more
      BY <1>1, <2>2 DEF Master
    <3> QED BY <3>1 DEF Requested, Needs
  <2> QED BY <2>1, <2>2
<1> DEFINE done == WrDone(wr, WrAck)
           aw   == IF wr.aw THEN ~done ELSE "aw" \in offered
           w    == IF wr.w THEN ~done ELSE "w" \in offered
           b    == done \/ (wr.b /\ ~take)
           en   == aw /\ w /\ ~b
           t    == Countdown(wr.aw, wr, WrWait)
           a    == IF wr.aw THEN wr.addr ELSE req.reg
           d    == IF wr.w THEN wr.data ELSE req.value
<1>4. wr' = [aw |-> aw, w |-> w, b |-> b, en |-> en, timeout |-> t, addr |-> a, data |-> d]
  BY <1>1, Zenon DEF RegisterInterface, WrEdge, Signals
<1>5. (wr'.aw) = aw /\ (wr'.en) = en /\ wr'.timeout = t /\ wr'.addr = a
  <2> HIDE DEF aw, w, b, en, t, a, d
  <2> QED BY <1>4
<1>6. wr'.en => wr'.aw
  <2>1. en => aw
    OBVIOUS
  <2> HIDE DEF aw, en
  <2> QED BY <1>5, <2>1
<1>7. wr'.aw => aw
  <2> HIDE DEF aw
  <2> QED BY <1>5
<1>8. aw => t = Timeout - 1
  <2>1. CASE wr.aw
    <3>1. SUFFICES ASSUME ~done PROVE t = Timeout - 1
      BY <2>1
    <3>2. ~(wr.en /\ ~WrWait)
      BY <3>1 DEF WrDone, WrAck
    <3> QED BY <2>1, <3>2 DEF Countdown, Requested
  <2>2. CASE ~wr.aw
    BY <2>2 DEF Countdown, Requested
  <2> QED BY <2>1, <2>2
<1>9. loopback /\ aw => a # "prescale"
  <2>1. CASE wr.aw
    BY <2>1 DEF Requested
  <2>2. CASE ~wr.aw
    <3> SUFFICES ASSUME loopback, "aw" \in offered PROVE req.reg # "prescale"
      BY <2>2
    <3>1. "aw" \in Needs
      BY DEF Requested
    <3>2. req.op = "write"
      BY <3>1 DEF Needs
    <3>3. req \in Accesses[TRUE] /\ TRUE \in DOMAIN Accesses
      <4>1. NoAccess.op # "write" /\ loopback = TRUE
        BY <1>2 DEF NoAccess
      <4> QED BY <3>2, <4>1 DEF TInv, BusType
    <3> QED BY <3>2, <3>3 DEF SteadyLink
  <2> QED BY <2>1, <2>2
<1>10. loopback' => prescale' = PrescaleInit
  BY <1>2 DEF Requested, WrSel
<1> HIDE DEF aw, en, t, a
<1> QED BY <1>2, <1>3, <1>5, <1>6, <1>7, <1>8, <1>9, <1>10 DEF Requested

\* What one edge does to a looped back line.
LEMMA LinkMoves ==
  ASSUME SteadyLink, TInv, Requested, Edge, loopback
  PROVE  /\ TxValid \in BOOLEAN /\ RxReady \in BOOLEAN /\ wr.data \in Values
         /\ tx' = TxEdge(TxValid, wr.data) /\ rx' = RxEdge(tx.txd, RxReady)
         /\ TxValid => tx.count = 0 /\ tx.wait = 0
         /\ inFlight' = (IF Delivers /\ inFlight # <<>> THEN Tail(inFlight) ELSE inFlight)
                          \o (IF TxValid THEN <<wr.data>> ELSE <<>>)
<1>1. PICK line \in Lines : Device(line)
  BY DEF Edge
<1>2. TxValid \in BOOLEAN /\ RxReady \in BOOLEAN /\ wr.data \in Values
  BY DEF TxValid, RxReady, WrSel, TInv, BusType, TxType, TxRec, RxType, RxRec
<1>3. tx' = TxEdge(TxValid, wr.data) /\ rx' = RxEdge(tx.txd, RxReady)
  BY <1>1 DEF Device, Lines
<1>4. TxValid => tx.count = 0 /\ tx.wait = 0
  BY DEF TxValid, TInv, TxType
<1>5. Acknowledged <=> TxValid
  <2>1. wr.en => wr.timeout # 0
    BY RegIfAssumption DEF Requested, SteadyLink
  <2> QED BY <2>1 DEF Acknowledged, TxValid, WrDone, WrAck, WrWait, WrSel
<1>6. inFlight' = (IF Delivers /\ inFlight # <<>> THEN Tail(inFlight) ELSE inFlight)
                    \o (IF TxValid THEN <<wr.data>> ELSE <<>>)
  BY <1>5, Zenon DEF Edge, Bookkeeping
<1> QED BY <1>2, <1>3, <1>4, <1>6

\* The next bit goes on the line.
LEMMA BitOut ==
  ASSUME TInv, NEW c \in Values, ToCome(c), tx.count > 1,
         tx'.count = tx.count - 1, tx'.txd = Head(tx.data), tx'.data = Tail(tx.data)
  PROVE  ToCome(c)'
<1>1. PICK f : f = Frame(c)
  OBVIOUS
<1>2. PICK n \in 2 .. DataBits + 1 : n = tx.count
  BY FrameBits DEF TInv, TxType, TxRec
<1>3. PICK q \in Seq(Bits) : q = tx.data
  BY DEF TInv, TxType, TxRec
<1>4. Len(q) = n /\ DataBits \in Nat /\ n \in Nat /\ n > 1
  BY <1>2, <1>3, FrameBits DEF TInv, TxType
<1>5. \A i \in 1 .. n : q[i] = f[DataBits + 1 - n + i]
  BY <1>1, <1>2, <1>3 DEF ToCome
<1>6. Head(q) = f[DataBits + 1 - (n - 1)]
  <2>1. Head(q) = q[1] /\ 1 \in 1 .. n
    BY <1>3, <1>4
  <2>2. q[1] = f[DataBits + 1 - n + 1]
    BY <1>5, <2>1
  <2>3. DataBits + 1 - n + 1 = DataBits + 1 - (n - 1)
    BY <1>4
  <2> QED BY <2>1, <2>2, <2>3
<1>7. \A i \in 1 .. n - 1 : Tail(q)[i] = f[DataBits + 1 - (n - 1) + i]
  <2> TAKE i \in 1 .. n - 1
  <2>1. Tail(q)[i] = q[i + 1] /\ i + 1 \in 1 .. n
    BY <1>3, <1>4
  <2>2. q[i + 1] = f[DataBits + 1 - n + (i + 1)]
    BY <1>5, <2>1
  <2>3. DataBits + 1 - n + (i + 1) = DataBits + 1 - (n - 1) + i
    BY <1>4
  <2> QED BY <2>1, <2>2, <2>3
<1>8. tx'.count = n - 1 /\ tx'.txd = Head(q) /\ tx'.data = Tail(q) /\ Frame(c)' = f
  BY <1>1, <1>2, <1>3
<1>9. n - 1 # DataBits + 1
  BY <1>2, <1>4
<1> QED BY <1>6, <1>7, <1>8, <1>9 DEF ToCome

\* The stop bit goes on the line.
LEMMA StopBitOut ==
  ASSUME NEW c \in Values, tx'.count = 0, tx'.txd = 1
  PROVE  ToCome(c)'
<1>1. c \in Nat /\ DataBits \in Nat
  BY FrameBits DEF Values
<1>2. Frame(c)[DataBits + 1] = 1 /\ Frame(c)' = Frame(c)
  BY <1>1, FrameOf
<1>3. DataBits + 1 - 0 = DataBits + 1 /\ 0 # DataBits + 1 /\ \A i \in 1 .. 0 : FALSE
  BY <1>1
<1> QED BY <1>2, <1>3 DEF ToCome

\* A character is put in the shift register.
LEMMA StartBitOut ==
  ASSUME NEW c \in Values, tx'.count = DataBits + 1, tx'.txd = 0, tx'.data = Frame(c)
  PROVE  ToCome(c)'
<1>1. PICK f : f = Frame(c)
  OBVIOUS
<1>2. DataBits \in Nat /\ ~(DataBits + 1 <= DataBits)
  BY FrameBits
<1>3. \A i \in 1 .. DataBits + 1 : f[i] = f[DataBits + 1 - (DataBits + 1) + i]
  <2> TAKE i \in 1 .. DataBits + 1
  <2>1. DataBits + 1 - (DataBits + 1) + i = i
    BY <1>2
  <2> QED BY <2>1
<1>4. Frame(c)' = f /\ tx'.data = f
  BY <1>1
<1> QED BY <1>2, <1>3, <1>4 DEF ToCome

\* The bit on the line is taken in.
LEMMA BitIn ==
  ASSUME TInv, NEW c \in Values, ToCome(c), Received(c), rx.count \in 2 .. DataBits + 1,
         tx.count = rx.count - 1, rx.rxd = tx.txd,
         rx'.count = rx.count - 1, rx'.data = Append(rx.data, rx.rxd)
  PROVE  Received(c)'
<1>1. PICK f : f = Frame(c)
  OBVIOUS
<1>2. PICK k \in 2 .. DataBits + 1 : k = rx.count
  OBVIOUS
<1>3. PICK q \in Seq(Bits) : q = rx.data
  BY DEF TInv, RxType, RxRec
<1>4. PICK b \in Bits : b = rx.rxd
  BY DEF TInv, RxType, RxRec
<1>5. /\ DataBits \in Nat /\ k \in Nat /\ k > 1 /\ k <= DataBits + 1
      /\ Len(q) = DataBits + 1 - k
  BY <1>2, <1>3, FrameBits DEF TInv, RxType
<1>6. \A i \in 1 .. DataBits + 1 - k : q[i] = f[i]
  BY <1>1, <1>2, <1>3, <1>5 DEF Received
<1>7. b = f[DataBits + 1 - (k - 1)]
  <2>1. tx.count = k - 1 /\ k - 1 <= DataBits
    BY <1>2, <1>5
  <2> QED BY <1>1, <1>4, <2>1 DEF ToCome
<1>8. \A i \in 1 .. DataBits + 1 - (k - 1) : Append(q, b)[i] = f[i]
  <2> TAKE i \in 1 .. DataBits + 1 - (k - 1)
  <2>1. CASE i = DataBits + 1 - (k - 1)
    <3>1. i = Len(q) + 1
      BY <1>5, <2>1
    <3>2. Append(q, b)[Len(q) + 1] = b
      BY <1>3, <1>4
    <3> QED BY <1>7, <2>1, <3>1, <3>2
  <2>2. CASE i # DataBits + 1 - (k - 1)
    <3>1. i \in 1 .. DataBits + 1 - k /\ i \in 1 .. Len(q)
      BY <1>5, <2>2
    <3>2. Append(q, b)[i] = q[i]
      BY <1>3, <1>4, <3>1
    <3> QED BY <1>6, <3>1, <3>2
  <2> QED BY <2>1, <2>2
<1>9. rx'.count = k - 1 /\ rx'.data = Append(q, b) /\ Frame(c)' = f
  BY <1>1, <1>2, <1>3, <1>4
<1> QED BY <1>8, <1>9 DEF Received

LEMMA ToComeHeld ==
  ASSUME NEW c, ToCome(c), tx'.count = tx.count, tx'.txd = tx.txd, tx'.data = tx.data
  PROVE  ToCome(c)'
<1>1. Frame(c)' = Frame(c)
  OBVIOUS
<1> QED BY <1>1 DEF ToCome

LEMMA ReceivedHeld ==
  ASSUME NEW c, Received(c), rx'.count = rx.count, rx'.data = rx.data
  PROVE  Received(c)'
<1>1. Frame(c)' = Frame(c)
  OBVIOUS
<1> QED BY <1>1 DEF Received

\* No bit yet.
LEMMA NoneReceived ==
  ASSUME NEW c, rx'.count \in {0, DataBits + 1, DataBits + 2}
  PROVE  Received(c)'
<1>1. DataBits \in Nat
  BY FrameBits
<1>2. rx'.count \in 1 .. DataBits + 1 => rx'.count = DataBits + 1
  BY <1>1
<1>3. \A i \in 1 .. DataBits + 1 - (DataBits + 1) : FALSE
  BY <1>1
<1> QED BY <1>2, <1>3 DEF Received

\* Nothing is under way: the line stays as it is, or a character starts.
LEMMA FromRest ==
  ASSUME SteadyLink, TInv, Requested, Edge, loopback, Resting, inFlight = <<>>
  PROVE  InStep'
<1>1. PICK c \in Values : c = wr.data
  BY LinkMoves
<1>2. PICK valid \in BOOLEAN : valid = TxValid
  BY LinkMoves
<1>3. PICK ready \in BOOLEAN : ready = RxReady
  BY LinkMoves
<1>4. /\ tx' = TxEdge(valid, c) /\ rx' = RxEdge(tx.txd, ready)
      /\ valid => tx.count = 0 /\ tx.wait = 0
      /\ inFlight' = (IF Delivers /\ inFlight # <<>> THEN Tail(inFlight) ELSE inFlight)
                       \o (IF valid THEN <<c>> ELSE <<>>)
  BY <1>1, <1>2, <1>3, LinkMoves
<1>5. c \in Nat /\ DataBits \in Nat /\ DataBits >= 1
  BY FrameBits DEF Values
<1>6. /\ HalfBit \in Nat /\ HalfBit >= 4 /\ BitTime = 2 * HalfBit
      /\ Cycles(BitTime - 1) = 2 * HalfBit - 1
  BY BitTimes DEF Requested
<1>7. rx'.wait = 0 /\ rx'.count = 0 /\ rx'.rxd = 1
  BY <1>4, RxMoves DEF Resting
<1>8. CASE ~valid
  <2>1. tx'.count = 0 /\ tx'.txd = 1
    BY <1>4, <1>5, <1>8, TxMoves DEF Resting
  <2>2. inFlight' = <<>>
    BY <1>4, <1>8
  <2> QED BY <1>7, <2>1, <2>2 DEF InStep, Resting
<1>9. CASE valid
  <2>1. /\ tx'.wait = 2 * HalfBit - 1 /\ tx'.count = DataBits + 1 /\ tx'.txd = 0
        /\ tx'.data = Frame(c)
    BY <1>4, <1>5, <1>6, <1>9, TxMoves DEF Frame
  <2>2. inFlight' = <<c>>
    BY <1>4, <1>9
  <2>3. ToCome(c)' /\ Received(c)'
    BY <1>7, <2>1, StartBitOut, NoneReceived
  <2>4. Starting'
    BY <1>7, <2>1 DEF Starting, HalfBit
  <2> QED BY <2>2, <2>3, <2>4 DEF InStep
<1> QED BY <1>8, <1>9

\* A character is under way: no other is accepted until it has been received.
LEMMA FromWork ==
  ASSUME SteadyLink, TInv, Requested, Edge, loopback,
         NEW c \in Values, inFlight = <<c>>, ToCome(c), Received(c),
         Starting \/ Noticed \/ Before \/ After \/ Stopping
  PROVE  InStep'
<1>1. PICK v \in Values : v = wr.data
  BY LinkMoves
<1>2. PICK valid \in BOOLEAN : valid = TxValid
  BY LinkMoves
<1>3. PICK ready \in BOOLEAN : ready = RxReady
  BY LinkMoves
<1>4. /\ tx' = TxEdge(valid, v) /\ rx' = RxEdge(tx.txd, ready)
      /\ valid => tx.count = 0 /\ tx.wait = 0
      /\ inFlight' = (IF Delivers /\ inFlight # <<>> THEN Tail(inFlight) ELSE inFlight)
                       \o (IF valid THEN <<v>> ELSE <<>>)
  BY <1>1, <1>2, <1>3, LinkMoves
<1>5. v \in Nat /\ c \in Nat /\ DataBits \in Nat /\ DataBits >= 1
  BY FrameBits DEF Values
<1>6. /\ HalfBit \in Nat /\ HalfBit >= 4 /\ BitTime = 2 * HalfBit
      /\ Cycles(BitTime - 1) = 2 * HalfBit - 1 /\ Cycles(4 * prescale - 2) = HalfBit - 2
  BY BitTimes DEF Requested
<1>7. /\ tx.wait \in Nat /\ tx.count \in 0 .. DataBits + 1
      /\ rx.wait \in Nat /\ rx.count \in 0 .. DataBits + 2
      /\ rx'.rxd = tx.txd
  BY <1>4, <1>5, TxMoves, RxMoves
<1>8. ~valid
  BY <1>4, <1>6, <1>7 DEF Starting, Noticed, Before, After, Stopping
<1>9. ~Delivers => inFlight' = <<c>>
  BY <1>4, <1>8
<1>10. Delivers => inFlight' = <<>>
  BY <1>4, <1>8
<1>11. tx.wait > 0 => /\ tx'.wait = tx.wait - 1 /\ tx'.count = tx.count /\ tx'.txd = tx.txd
                      /\ ToCome(c)'
  BY <1>4, <1>5, TxMoves, ToComeHeld
<1>12. rx.wait > 0 => /\ rx'.wait = rx.wait - 1 /\ rx'.count = rx.count /\ Received(c)'
                      /\ ~Delivers
  BY <1>4, <1>7, RxMoves, ReceivedHeld DEF Delivers, FrameEnds, Sampling
<1>13. rx.count # 1 => ~Delivers
  BY DEF Delivers, FrameEnds
<1>14. HalfBit' = HalfBit
  OBVIOUS
<1>15. CASE Starting
  <2>1. /\ tx'.wait = 2 * HalfBit - 2 /\ tx'.count = DataBits + 1 /\ ToCome(c)' /\ tx.txd = 0
    BY <1>5, <1>6, <1>11, <1>15 DEF Starting, ToCome
  <2>2. rx'.wait = 0 /\ rx'.count = 0
    BY <1>4, <1>15, RxMoves DEF Starting
  <2>3. Received(c)' /\ inFlight' = <<c>>
    BY <1>9, <1>13, <1>15, <2>2, NoneReceived DEF Starting
  <2>4. Noticed'
    BY <1>7, <2>1, <2>2, <1>14 DEF Noticed
  <2> QED BY <2>1, <2>3, <2>4 DEF InStep
<1>16. CASE Noticed
  <2>1. /\ tx'.wait = 2 * HalfBit - 3 /\ tx'.count = DataBits + 1 /\ ToCome(c)'
        /\ tx'.txd = tx.txd
    BY <1>5, <1>6, <1>11, <1>16 DEF Noticed
  <2>2. rx'.wait = HalfBit - 2 /\ rx'.count = DataBits + 2
    BY <1>4, <1>6, <1>16, RxMoves DEF Noticed
  <2>3. Received(c)' /\ inFlight' = <<c>>
    BY <1>9, <1>13, <1>16, <2>2, NoneReceived DEF Noticed
  <2>4. Before'
    BY <1>5, <1>6, <1>7, <2>1, <2>2, <1>14 DEF Before
  <2> QED BY <2>1, <2>3, <2>4 DEF InStep
<1>17. CASE Before /\ tx.wait > HalfBit - 1
  <2>1. /\ tx'.wait = tx.wait - 1 /\ tx'.count = tx.count /\ ToCome(c)' /\ tx'.txd = tx.txd
    BY <1>6, <1>7, <1>11, <1>17
  <2>2. rx.wait > 0
    BY <1>6, <1>7, <1>17 DEF Before
  <2>3. rx'.wait = rx.wait - 1 /\ rx'.count = rx.count /\ Received(c)' /\ inFlight' = <<c>>
    BY <1>9, <1>12, <2>2
  <2>4. Before'
    BY <1>5, <1>6, <1>7, <1>17, <2>1, <2>3, <1>14 DEF Before
  <2> QED BY <2>1, <2>3, <2>4 DEF InStep
<1>18. CASE Before /\ ~(tx.wait > HalfBit - 1)
  <2>1. tx.wait = HalfBit - 1 /\ rx.wait = 0 /\ rx.count = tx.count + 1 /\ rx.rxd = tx.txd
    BY <1>6, <1>7, <1>18 DEF Before
  <2>2. /\ tx'.wait = HalfBit - 2 /\ tx'.count = tx.count /\ ToCome(c)' /\ tx'.txd = tx.txd
    BY <1>6, <1>7, <1>11, <2>1
  <2>3. rx.count # 1 /\ rx.count \in 2 .. DataBits + 2
    BY <1>5, <1>7, <1>18, <2>1 DEF Before
  <2>4. /\ rx'.wait = 2 * HalfBit - 1 /\ rx'.count = rx.count - 1
        /\ Received(c)'
    <3>1. CASE rx.count = DataBits + 2
      <4>1. rx.rxd = 0
        BY <1>5, <1>7, <2>1, <3>1 DEF ToCome
      <4>2. rx'.wait = 2 * HalfBit - 1 /\ rx'.count = DataBits + 1
        BY <1>4, <1>6, <2>1, <3>1, <4>1, RxMoves
      <4>3. Received(c)'
        BY <4>2, NoneReceived
      <4> QED BY <1>5, <3>1, <4>2, <4>3
    <3>2. CASE rx.count # DataBits + 2
      <4>1. rx.count \in 2 .. DataBits + 1
        BY <1>5, <1>7, <2>3, <3>2
      <4>2. /\ rx'.wait = 2 * HalfBit - 1 /\ rx'.count = rx.count - 1
            /\ rx'.data = Append(rx.data, rx.rxd)
        BY <1>4, <1>6, <2>1, <4>1, RxMoves
      <4>3. tx.count = rx.count - 1
        BY <1>7, <2>1
      <4> QED BY <2>1, <4>1, <4>2, <4>3, BitIn
    <3> QED BY <3>1, <3>2
  <2>5. After'
    <3>1. rx'.count = tx'.count /\ tx'.count >= 1
      BY <1>5, <1>7, <1>18, <2>1, <2>2, <2>4 DEF Before
    <3>2. rx'.wait = tx'.wait + HalfBit + 1
      BY <1>6, <2>2, <2>4
    <3> QED BY <1>6, <1>7, <2>2, <3>1, <3>2, <1>14 DEF After
  <2> QED BY <1>9, <1>13, <2>2, <2>3, <2>4, <2>5 DEF InStep
<1>19. CASE After /\ tx.wait > 0
  <2>1. /\ tx'.wait = tx.wait - 1 /\ tx'.count = tx.count /\ ToCome(c)' /\ tx'.txd = tx.txd
    BY <1>11, <1>19
  <2>2. rx.wait > 0
    BY <1>6, <1>7, <1>19 DEF After
  <2>3. rx'.wait = rx.wait - 1 /\ rx'.count = rx.count /\ Received(c)' /\ inFlight' = <<c>>
    BY <1>9, <1>12, <2>2
  <2>4. After'
    BY <1>5, <1>6, <1>7, <1>19, <2>1, <2>3, <1>14 DEF After
  <2> QED BY <2>1, <2>3, <2>4 DEF InStep
<1>20. CASE After /\ ~(tx.wait > 0)
  <2>1. tx.wait = 0 /\ rx.wait = HalfBit + 1 /\ rx.count = tx.count /\ tx.count >= 1
    BY <1>6, <1>7, <1>20 DEF After
  <2>2. rx'.wait = HalfBit /\ rx'.count = rx.count /\ Received(c)' /\ inFlight' = <<c>>
    BY <1>6, <1>9, <1>12, <2>1
  <2>3. CASE tx.count > 1
    <3>1. /\ tx'.wait = 2 * HalfBit - 1 /\ tx'.count = tx.count - 1
          /\ tx'.txd = Head(tx.data) /\ tx'.data = Tail(tx.data)
      BY <1>4, <1>5, <1>6, <2>1, <2>3, TxMoves
    <3>2. ToCome(c)'
      BY <2>3, <3>1, BitOut
    <3>3. Before'
      BY <1>5, <1>6, <1>7, <2>1, <2>2, <2>3, <3>1, <1>14 DEF Before
    <3> QED BY <2>2, <3>2, <3>3 DEF InStep
  <2>4. CASE tx.count = 1
    <3>1. tx'.wait = 2 * HalfBit /\ tx'.count = 0 /\ tx'.txd = 1
      BY <1>4, <1>5, <1>6, <2>1, <2>4, TxMoves
    <3>2. ToCome(c)'
      BY <3>1, StopBitOut
    <3>3. Stopping'
      BY <1>5, <1>6, <1>7, <2>1, <2>2, <2>4, <3>1, <1>14 DEF Stopping
    <3> QED BY <2>2, <3>2, <3>3 DEF InStep
  <2> QED BY <1>7, <2>1, <2>3, <2>4
<1>21. CASE Stopping /\ tx.wait > HalfBit
  <2>1. /\ tx'.wait = tx.wait - 1 /\ tx'.count = tx.count /\ ToCome(c)' /\ tx'.txd = tx.txd
    BY <1>6, <1>7, <1>11, <1>21
  <2>2. rx.wait > 0
    BY <1>6, <1>7, <1>21 DEF Stopping
  <2>3. rx'.wait = rx.wait - 1 /\ rx'.count = rx.count /\ Received(c)' /\ inFlight' = <<c>>
    BY <1>9, <1>12, <2>2
  <2>4. tx.txd = 1
    <3>1. tx.count = 0 /\ DataBits + 1 - 0 = DataBits + 1 /\ 0 <= DataBits
      BY <1>5, <1>21 DEF Stopping
    <3>2. Frame(c)[DataBits + 1] = 1
      BY <1>5, FrameOf
    <3> QED BY <3>1, <3>2 DEF ToCome
  <2>5. Stopping'
    BY <1>5, <1>6, <1>7, <1>21, <2>1, <2>3, <2>4, <1>14 DEF Stopping
  <2> QED BY <2>1, <2>3, <2>5 DEF InStep
<1>22. CASE Stopping /\ ~(tx.wait > HalfBit)
  <2>1. tx.wait = HalfBit /\ rx.wait = 0 /\ rx.count = 1 /\ tx.count = 0 /\ rx.rxd = 1
    BY <1>6, <1>7, <1>22 DEF Stopping
  <2>2. tx'.count = 0 /\ tx'.txd = tx.txd
    BY <1>6, <1>11, <2>1
  <2>3. tx.txd = 1
    <3>1. tx.count = 0 /\ DataBits + 1 - 0 = DataBits + 1 /\ 0 <= DataBits
      BY <1>5, <2>1
    <3>2. Frame(c)[DataBits + 1] = 1
      BY <1>5, FrameOf
    <3> QED BY <3>1, <3>2 DEF ToCome
  <2>4. rx'.wait = 0 /\ rx'.count = 0 /\ rx'.rxd = 1
    BY <1>4, <1>7, <2>1, <2>3, RxMoves
  <2>5. Delivers
    BY <2>1 DEF Delivers, FrameEnds, Sampling
  <2> QED BY <1>10, <2>2, <2>3, <2>4, <2>5 DEF InStep, Resting
<1> QED BY <1>15, <1>16, <1>17, <1>18, <1>19, <1>20, <1>21, <1>22

\* A frame that ends is the character last written.
LEMMA EndsWhole == TInv /\ Link => EveryCharacterArrives
<1> SUFFICES ASSUME TInv, Link, loopback, FrameEnds
             PROVE  Delivers /\ inFlight # <<>> /\ CharOf(rx.data) = Head(inFlight) % 2 ^ DataBits
  BY DEF EveryCharacterArrives
<1>1. rx.wait = 0 /\ rx.count = 1 /\ tx.wait \in Nat /\ HalfBit \in Nat /\ HalfBit >= 4
      /\ DataBits \in Nat /\ DataBits >= 1 /\ tx.count \in 0 .. DataBits + 1
  <2>1. tx.wait \in Counter /\ tx.count \in 0 .. DataBits + 1
    BY DEF TInv, TxType, TxRec
  <2>2. tx.wait \in Nat
    BY <2>1, CounterNat, Zenon
  <2> QED BY <2>1, <2>2, BitTimes, FrameBits DEF FrameEnds, Sampling
<1>2. PICK c \in Values : inFlight = <<c>> /\ ToCome(c) /\ Received(c)
                          /\ (Starting \/ Noticed \/ Before \/ After \/ Stopping)
  BY <1>1 DEF Link, InStep, Resting
<1>3. Stopping
  BY <1>1, <1>2 DEF Starting, Noticed, Before, After
<1>4. rx.rxd = 1
  BY <1>1, <1>3 DEF Stopping
<1>5. Delivers
  BY <1>4 DEF Delivers
<1>6. PICK x : x = BitsOf(c % 2 ^ DataBits)
  OBVIOUS
<1>7. c \in Nat
  BY DEF Values
<1>8. x \in Seq(Bits) /\ Len(x) = DataBits /\ CharOf(x) = c % 2 ^ DataBits
  BY <1>6, <1>7, CharOfBits
<1>9. rx.data = x
  <2>1. PICK q \in Seq(Bits) : q = rx.data
    BY DEF TInv, RxType, RxRec
  <2>2. 1 \in 1 .. DataBits + 1 /\ DataBits + 1 - 1 = DataBits
    BY <1>1
  <2>3. Len(q) = DataBits
    BY <1>1, <2>1, <2>2 DEF TInv, RxType
  <2>4. \A i \in 1 .. DataBits : q[i] = Frame(c)[i]
    BY <1>1, <1>2, <2>1, <2>2 DEF Received
  <2>5. \A i \in 1 .. DataBits : q[i] = x[i]
    BY <1>6, <1>7, <2>4, FrameOf
  <2> QED BY <1>8, <2>1, <2>3, <2>5
<1>10. Head(inFlight) = c /\ inFlight # <<>>
  BY <1>2
<1>11. CharOf(rx.data) = c % 2 ^ DataBits
  BY Zenon, <1>8, <1>9
<1> QED BY Zenon, <1>5, <1>10, <1>11

LEMMA LinkNext == SteadyLink /\ TInv /\ Link /\ [Next]_vars => Link'
<1> SUFFICES ASSUME SteadyLink, TInv, Link, [Next]_vars PROVE Link'
  OBVIOUS
<1>1. CASE Edge
  <2>1. Requested'
    BY <1>1, RequestedNext DEF Link
  <2>2. loopback' = loopback
    BY <1>1 DEF Edge
  <2>3. ASSUME loopback PROVE InStep'
    BY <1>1, <2>3, FromRest, FromWork DEF Link, InStep
  <2> QED BY <2>1, <2>2, <2>3 DEF Link
<1>2. CASE UNCHANGED vars
  <2>1. /\ loopback' = loopback /\ prescale' = prescale /\ tx' = tx /\ rx' = rx /\ wr' = wr
        /\ req' = req /\ offered' = offered /\ inFlight' = inFlight
    BY <1>2 DEF vars
  <2>2. Requested'
    BY <2>1 DEF Link, Requested, Needs
  <2>3. /\ Resting => Resting'
        /\ Starting => Starting'
        /\ Noticed => Noticed'
        /\ Before => Before'
        /\ After => After'
        /\ Stopping => Stopping'
    <3>1. HalfBit' = HalfBit
      OBVIOUS
    <3>2. Resting => Resting'
      BY <2>1, <3>1 DEF Resting
    <3>3. Starting => Starting'
      BY <2>1, <3>1 DEF Starting
    <3>4. Noticed => Noticed'
      BY <2>1, <3>1 DEF Noticed
    <3>5. Before => Before'
      BY <2>1, <3>1 DEF Before
    <3>6. After => After'
      BY <2>1, <3>1 DEF After
    <3>7. Stopping => Stopping'
      BY <2>1, <3>1 DEF Stopping
    <3> QED BY <3>2, <3>3, <3>4, <3>5, <3>6, <3>7
  <2>4. ASSUME NEW c \in Values PROVE (ToCome(c) => ToCome(c)') /\ (Received(c) => Received(c)')
    BY <2>1, ToComeHeld, ReceivedHeld
  <2>5. InStep => InStep'
    <3>1. CASE Resting /\ inFlight = <<>>
      BY <2>1, <2>3, <3>1 DEF InStep
    <3>2. ASSUME NEW c \in Values, inFlight = <<c>>, ToCome(c), Received(c),
                 Starting \/ Noticed \/ Before \/ After \/ Stopping
          PROVE  InStep'
      <4>1. inFlight' = <<c>> /\ ToCome(c)' /\ Received(c)'
        BY <2>1, <2>4, <3>2
      <4>2. (Starting \/ Noticed \/ Before \/ After \/ Stopping)'
        BY <2>3, <3>2
      <4> QED BY <4>1, <4>2, Zenon DEF InStep
    <3> QED BY <3>1, <3>2 DEF InStep
  <2> QED BY <2>1, <2>2, <2>5 DEF Link
<1> QED BY <1>1, <1>2 DEF Next

LEMMA LinkInit == Init => Link
<1> SUFFICES ASSUME Init PROVE Link
  OBVIOUS
<1>1. Requested
  BY DEF Init, Requested, WrReset
<1>2. InStep
  BY DEF Init, InStep, Resting, TxReset, RxReset
<1> QED BY <1>1, <1>2 DEF Link

\* Looped back, each character written comes out of the receiver once, whole and
\* in order, for every width of the character and every bit time that a prescale
\* of 1 to 255 makes: the receiver takes each bit half a bit in, and the
\* transmitter's stop bit outlasts the receiver's frame
\* (uart_tx.v:78-113, uart_rx.v:86-140, uart_axil.v:83-84).
THEOREM CharactersArrive == SteadyLink => (Spec => []EveryCharacterArrives)
<1> SUFFICES ASSUME SteadyLink PROVE Spec => []EveryCharacterArrives
  OBVIOUS
<1>1. TInv /\ Link /\ [Next]_vars => Link'
  BY LinkNext
<1> QED BY <1>1, LinkInit, EndsWhole, TypesHold, PTL DEF Spec
=============================================================================
