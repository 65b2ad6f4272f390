--------------------------- MODULE AxilBenchProofs --------------------------
(***************************************************************************)
(* Proofs about the testbench of the bus master: for every size of memory  *)
(* its stub obeys the protocol, the length of each stall is what the       *)
(* delays make it, and the random tests agree with their model.            *)
(***************************************************************************)
EXTENDS AxilBenchProps, SequenceTheorems, FiniteSetTheorems, TLAPS

-----------------------------------------------------------------------------
(* The accesses of the tests *)

Delay == 0 .. 4
Short(a) == a.aw \in Delay /\ a.w \in Delay /\ a.ar \in Delay

LEMMA SmallDelays == 0 \in Delay /\ 1 \in Delay /\ 2 \in Delay /\ 3 \in Delay /\ 4 \in Delay
BY DEF Delay

LEMMA ShortStore ==
  ASSUME NEW word, NEW lane, NEW f3, NEW v, NEW x, NEW aw \in Delay, NEW w \in Delay
  PROVE  Short(DoStore(word, lane, f3, v, aw, w, x))
<1>1. \A r : Short([req |-> r, aw |-> aw, w |-> w, ar |-> 0, after |-> x, loaded |-> {}])
  BY SmallDelays DEF Short
<1> QED BY <1>1 DEF DoStore

LEMMA ShortLoad ==
  ASSUME NEW word, NEW lane, NEW f3, NEW x, NEW ar \in Delay
  PROVE  Short(DoLoad(word, lane, f3, ar, x))
<1>1. \A r : Short([req |-> r, aw |-> 0, w |-> 0, ar |-> ar, after |-> {}, loaded |-> x])
  BY SmallDelays DEF Short
<1> QED BY <1>1 DEF DoLoad

LEMMA ShortStores ==
  ASSUME NEW word, NEW lane, NEW f3, NEW v, NEW x
  PROVE  Short(Stores(word, lane, f3, v, x))
BY SmallDelays, ShortStore, Zenon DEF Stores

LEMMA ShortLoads ==
  ASSUME NEW word, NEW lane, NEW f3, NEW v
  PROVE  Short(Loads(word, lane, f3, v))
BY SmallDelays, ShortLoad, Zenon DEF Loads

LEMMA ShortClear ==
  ASSUME NEW word
  PROVE  Short(Clear(word))
BY SmallDelays, ShortStore, Zenon DEF Clear

LEMMA LaneTestsShort == /\ Len(LaneTests) = 23 /\ \A k \in 1 .. 23 : Short(LaneTests[k])
                        /\ LaneTests \in Seq(ToSet(LaneTests))
<1> DEFINE dead == D(222, 173, 190, 239)
           w4   == D(17, 34, 51, 68)
           mix  == D(128, 68, 34, 17)
           half == D(128, 0, 127, 255)
           x1 == Stores(0, 0, W, dead, dead)
           x2 == Clear(4)
           x3 == Stores(4, 0, B, D(0, 0, 0, 170), D(0, 0, 0, 170))
           x4 == Stores(4, 1, B, D(0, 0, 0, 187), D(0, 0, 187, 170))
           x5 == Stores(4, 2, B, D(0, 0, 0, 204), D(0, 204, 187, 170))
           x6 == Stores(4, 3, B, D(0, 0, 0, 221), D(221, 204, 187, 170))
           x7 == Clear(6)
           x8 == Stores(6, 0, Hf, D(0, 0, 18, 52), D(0, 0, 18, 52))
           x9 == Stores(6, 2, Hf, D(0, 0, 86, 120), D(86, 120, 18, 52))
           x10 == Stores(8, 0, W, w4, w4)
           x11 == Loads(8, 0, W, w4)
           x12 == Stores(10, 0, W, mix, mix)
           x13 == Loads(10, 0, Bu, D(0, 0, 0, 17))
           x14 == Loads(10, 1, Bu, D(0, 0, 0, 34))
           x15 == Loads(10, 2, Bu, D(0, 0, 0, 68))
           x16 == Loads(10, 3, Bu, D(0, 0, 0, 128))
           x17 == Loads(10, 0, B, D(0, 0, 0, 17))
           x18 == Loads(10, 3, B, D(255, 255, 255, 128))
           x19 == Stores(11, 0, W, half, half)
           x20 == Loads(11, 0, Hu, D(0, 0, 127, 255))
           x21 == Loads(11, 2, Hu, D(0, 0, 128, 0))
           x22 == Loads(11, 0, Hf, D(0, 0, 127, 255))
           x23 == Loads(11, 2, Hf, D(255, 255, 128, 0))
<1>1. Short(x1) /\ Short(x3) /\ Short(x4) /\ Short(x5) /\ Short(x6) /\ Short(x8)
  BY SmallDelays, ShortStores
<1>2. Short(x9) /\ Short(x10) /\ Short(x12) /\ Short(x19)
  BY SmallDelays, ShortStores
<1>3. Short(x2) /\ Short(x7)
  BY SmallDelays, ShortClear
<1>4. Short(x11) /\ Short(x13) /\ Short(x14) /\ Short(x15) /\ Short(x16) /\ Short(x17)
  BY SmallDelays, ShortLoads
<1>5. Short(x18) /\ Short(x20) /\ Short(x21) /\ Short(x22) /\ Short(x23)
  BY SmallDelays, ShortLoads
<1>6. LaneTests = <<x1, x2, x3, x4, x5, x6, x7, x8, x9, x10, x11, x12,
                   x13, x14, x15, x16, x17, x18, x19, x20, x21, x22, x23>>
  BY Zenon DEF LaneTests
<1> HIDE DEF x1, x2, x3, x4, x5, x6, x7, x8, x9, x10, x11, x12,
             x13, x14, x15, x16, x17, x18, x19, x20, x21, x22, x23
<1> QED BY <1>1, <1>2, <1>3, <1>4, <1>5, <1>6 DEF ToSet

LEMMA OrderTestsShort == /\ Len(OrderTests) = 9 /\ \A k \in 1 .. 9 : Short(OrderTests[k])
                         /\ OrderTests \in Seq(ToSet(OrderTests))
<1> DEFINE cafe == D(202, 254, 240, 13)
           x1 == DoStore(12, 0, W, cafe, 3, 1, Holds(12, cafe))
           x2 == DoLoad(12, 0, W, 4, {cafe})
           x3 == DoStore(13, 0, W, All(170), 0, 3, Holds(13, All(170)))
           x4 == DoStore(14, 0, W, All(187), 3, 0, Holds(14, All(187)))
           x5 == DoStore(15, 0, W, All(204), 0, 0, Holds(15, All(204)))
           x6 == DoStore(16, 0, W, All(17), 0, 0, {})
           x7 == DoStore(17, 0, W, All(34), 0, 0, Holds(16, All(17)) \cup Holds(17, All(34)))
           x8 == Loads(16, 0, W, All(17))
           x9 == Loads(17, 0, W, All(34))
<1>1. Short(x1) /\ Short(x3) /\ Short(x4) /\ Short(x5) /\ Short(x6) /\ Short(x7)
  BY SmallDelays, ShortStore
<1>2. Short(x2)
  BY SmallDelays, ShortLoad
<1>3. Short(x8) /\ Short(x9)
  BY SmallDelays, ShortLoads
<1>4. OrderTests = <<x1, x2, x3, x4, x5, x6, x7, x8, x9>>
  BY Zenon DEF OrderTests
<1> HIDE DEF x1, x2, x3, x4, x5, x6, x7, x8, x9
<1> QED BY <1>1, <1>2, <1>3, <1>4 DEF ToSet

LEMMA CrossingLoadsShort == /\ Len(CrossingLoads) = 5 /\ \A k \in 1 .. 5 : Short(CrossingLoads[k])
                            /\ CrossingLoads \in Seq(ToSet(CrossingLoads))
<1> DEFINE x1 == DoLoad(2, 1, W, 0, {D(136, 17, 34, 51)})
           x2 == DoLoad(4, 2, W, 1, {D(119, 136, 17, 34)})
           x3 == DoLoad(6, 3, W, 2, {D(102, 119, 136, 17)})
           x4 == DoLoad(0, 3, Hf, 0, {D(255, 255, 255, 0)})
           x5 == DoLoad(0, 3, Hu, 0, {D(0, 0, 255, 0)})
<1>1. Short(x1) /\ Short(x2) /\ Short(x3) /\ Short(x4) /\ Short(x5)
  BY SmallDelays, ShortLoad
<1>2. CrossingLoads = <<x1, x2, x3, x4, x5>>
  BY Zenon DEF CrossingLoads
<1> HIDE DEF x1, x2, x3, x4, x5
<1> QED BY <1>1, <1>2 DEF ToSet

LEMMA OwnRange ==
  ASSUME NEW S, NEW f \in Seq(S)
  PROVE  f \in Seq(ToSet(f)) /\ DOMAIN f = 1 .. Len(f) /\ Len(f) \in Nat
<1>1. f \in [1 .. Len(f) -> S] /\ Len(f) \in Nat
  BY LenProperties, Zenon
<1>2. f \in [1 .. Len(f) -> ToSet(f)]
  BY <1>1 DEF ToSet
<1>3. \A T : \A g : \A n \in Nat : g \in [1 .. n -> T] => g \in Seq(T)
  OBVIOUS
<1>4. f \in Seq(ToSet(f))
  BY <1>1, <1>2, <1>3, Zenon
<1>5. DOMAIN f = 1 .. Len(f)
  BY <1>1
<1> QED BY <1>1, <1>4, <1>5

LEMMA SeqWider ==
  ASSUME NEW S, NEW T, S \subseteq T, NEW s \in Seq(S)
  PROVE  s \in Seq(T)
OBVIOUS

LEMMA Triples ==
  ASSUME NEW S, NEW p \in Seq(S), NEW q \in Seq(S), NEW r \in Seq(S), NEW u \in Seq(S),
         Len(p) = 3, Len(q) = 3, Len(r) = 3, Len(u) = 3
  PROVE  /\ p \o q \o r \o u \in Seq(S)
         /\ Len(p \o q \o r \o u) = 12
<1> DEFINE pq == p \o q
<1>1. pq \in Seq(S) /\ Len(pq) = Len(p) + Len(q)
  BY ConcatProperties, Zenon
<1>2. p \o q \o r \o u = pq \o r \o u
  OBVIOUS
<1> HIDE DEF pq
<1> DEFINE pqr == pq \o r
<1>3. pqr \in Seq(S) /\ Len(pqr) = Len(pq) + Len(r)
  BY <1>1, ConcatProperties, Zenon
<1>4. pq \o r \o u = pqr \o u
  OBVIOUS
<1> HIDE DEF pqr
<1>5. pqr \o u \in Seq(S) /\ Len(pqr \o u) = Len(pqr) + Len(u)
  BY <1>3, ConcatProperties, Zenon
<1> QED BY <1>1, <1>2, <1>3, <1>4, <1>5

LEMMA Triple ==
  ASSUME NEW S, NEW x \in S, NEW y \in S, NEW z \in S
  PROVE  <<x, y, z>> \in Seq(S) /\ Len(<<x, y, z>>) = 3
OBVIOUS

LEMMA CrossingStoresShort ==
  /\ Len(CrossingStores) = 12 /\ \A k \in 1 .. 12 : Short(CrossingStores[k])
  /\ CrossingStores \in Seq(ToSet(CrossingStores))
<1> DEFINE v == D(170, 187, 204, 221)
           beef == D(0, 0, 190, 239)
           store(lane) == DoStore(2 * lane, lane, W, v, lane - 1, 3 - lane,
                                  HoldsAt(2 * lane, lane, v, 4))
           at(lane) == <<Clear(2 * lane), Clear(2 * lane + 1), store(lane)>>
           half == DoStore(2, 3, Hf, beef, 0, 0, HoldsAt(2, 3, beef, 2))
           S == {Clear(word) : word \in 0 .. 8} \cup {store(lane) : lane \in 1 .. 3} \cup {half}
<1>1. ASSUME NEW lane \in 1 .. 3 PROVE Short(store(lane))
  <2>1. lane - 1 \in Delay /\ 3 - lane \in Delay
    BY DEF Delay
  <2> QED BY <2>1, ShortStore
<1>2. Short(half)
  BY SmallDelays, ShortStore
<1>3. CrossingStores = at(1) \o at(2) \o at(3) \o <<Clear(2), Clear(3), half>>
  BY DEF CrossingStores
<1>4. ASSUME NEW word \in 0 .. 8 PROVE Clear(word) \in S
  OBVIOUS
<1>5. ASSUME NEW lane \in 1 .. 3 PROVE store(lane) \in S
  OBVIOUS
<1>6. half \in S
  OBVIOUS
<1>7. \A a \in S : Short(a)
  <2>1. \A word \in 0 .. 8 : Short(Clear(word))
    BY ShortClear
  <2> HIDE DEF store, half
  <2> QED BY <1>1, <1>2, <2>1
<1> HIDE DEF S, store, half
<1>8. ASSUME NEW lane \in 1 .. 3 PROVE at(lane) \in Seq(S) /\ Len(at(lane)) = 3
  <2>1. 2 * lane \in 0 .. 8 /\ 2 * lane + 1 \in 0 .. 8
    OBVIOUS
  <2> QED BY <1>4, <1>5, <2>1, Triple
<1>9. <<Clear(2), Clear(3), half>> \in Seq(S) /\ Len(<<Clear(2), Clear(3), half>>) = 3
  BY <1>4, <1>6, Triple
<1> HIDE DEF at
<1>10. CrossingStores \in Seq(S) /\ Len(CrossingStores) = 12
  <2>1. /\ at(1) \in Seq(S) /\ Len(at(1)) = 3
        /\ at(2) \in Seq(S) /\ Len(at(2)) = 3
        /\ at(3) \in Seq(S) /\ Len(at(3)) = 3
    BY <1>8
  <2> QED BY <1>3, <1>9, <2>1, Triples
<1>11. ASSUME NEW k \in 1 .. 12 PROVE Short(CrossingStores[k])
  BY <1>7, <1>10, ElementOfSeq
<1>12. CrossingStores \in Seq(ToSet(CrossingStores))
  BY <1>10, OwnRange, Zenon
<1> QED BY <1>10, <1>11, <1>12

\* Whatever the driver presents next has short delays and is an access of the
\* tests, and the tests are few.
LEMMA NextIsShort ==
  ASSUME bench \in {"directed", "filled", "random"}, accesses \in Nat, NEW a \in NextAccess
  PROVE  /\ Short(a)
         /\ a.req \in Requests \cup {None}
         /\ a.req # None => accesses < 1000
         /\ bench = "random" => a.after = {} /\ a.loaded = {}
<1>1. CASE a = NoAccess
  <2>1. Short(NoAccess) /\ NoAccess.req = None /\ NoAccess.after = {} /\ NoAccess.loaded = {}
    BY SmallDelays DEF NoAccess, Short
  <2> QED BY <1>1, <2>1
<1>2. CASE bench = "random" /\ accesses = 0 /\ a \in StoreDraws
  <2>1. PICK off \in Offsets, sz \in {B, Hf, W}, aw \in Delays, w \in Delays :
          a = DoStore(off \div 4, off % 4, sz, Drawn, aw, w, {})
    BY <1>2 DEF StoreDraws
  <2>2. aw \in Delay /\ w \in Delay
    BY DEF Delay, Delays
  <2>3. Short(a)
    BY <2>1, <2>2, ShortStore
  <2>4. a.after = {} /\ a.loaded = {}
    BY <2>1 DEF DoStore
  <2>5. a.req \in Requests
    BY <1>2, BenchAssumption DEF TestedRequests
  <2> QED BY <1>2, <2>3, <2>4, <2>5
<1>3. CASE bench = "random" /\ accesses = 1 /\ a \in LoadDraws
  <2>1. PICK off \in Offsets, f3 \in {B, Hf, W, Bu, Hu}, ar \in Delays :
          a = DoLoad(off \div 4, off % 4, f3, ar, {})
    BY <1>3 DEF LoadDraws
  <2>2. ar \in Delay
    BY DEF Delay, Delays
  <2>3. Short(a)
    BY <2>1, <2>2, ShortLoad
  <2>4. a.after = {} /\ a.loaded = {}
    BY <2>1 DEF DoLoad
  <2>5. a.req \in Requests
    BY <1>3, BenchAssumption DEF TestedRequests
  <2> QED BY <1>3, <2>3, <2>4, <2>5
<1>4. CASE bench # "random" /\ accesses < Len(Tests) /\ a = Tests[accesses + 1]
  <2>1. CASE bench = "directed"
    <3>1. Tests = LaneTests \o OrderTests \o CrossingStores
      BY <2>1 DEF Tests
    <3> DEFINE S == ToSet(LaneTests) \cup ToSet(OrderTests) \cup ToSet(CrossingStores)
    <3>2. LaneTests \in Seq(S) /\ OrderTests \in Seq(S) /\ CrossingStores \in Seq(S)
      <4>1. /\ ToSet(LaneTests) \subseteq S /\ ToSet(OrderTests) \subseteq S
            /\ ToSet(CrossingStores) \subseteq S
        OBVIOUS
      <4> HIDE DEF S
      <4> QED BY <4>1, SeqWider, LaneTestsShort, OrderTestsShort, CrossingStoresShort
    <3>3. \A b \in S : Short(b)
      <4>1. \A b \in ToSet(LaneTests) : Short(b)
        BY LaneTestsShort, OwnRange DEF ToSet
      <4>2. \A b \in ToSet(OrderTests) : Short(b)
        BY OrderTestsShort, OwnRange DEF ToSet
      <4>3. \A b \in ToSet(CrossingStores) : Short(b)
        BY CrossingStoresShort, OwnRange DEF ToSet
      <4> QED BY <4>1, <4>2, <4>3
    <3>4. \A b \in S : b.req \in Requests
      BY BenchAssumption DEF TestedRequests
    <3> HIDE DEF S
    <3>5. Tests \in Seq(S) /\ Len(Tests) = 44
      <4> DEFINE first == LaneTests \o OrderTests
      <4>1. first \in Seq(S) /\ Len(first) = Len(LaneTests) + Len(OrderTests)
        BY <3>2, ConcatProperties, Zenon
      <4>2. Tests = first \o CrossingStores
        BY <3>1
      <4> HIDE DEF first
      <4>3. /\ first \o CrossingStores \in Seq(S)
            /\ Len(first \o CrossingStores) = Len(first) + Len(CrossingStores)
        BY <3>2, <4>1, ConcatProperties, Zenon
      <4> QED BY <4>1, <4>2, <4>3, LaneTestsShort, OrderTestsShort, CrossingStoresShort
    <3>7. accesses + 1 \in 1 .. Len(Tests) /\ accesses < 1000
      BY <1>4, <3>5
    <3>8. a \in S
      <4>1. \A n \in 1 .. Len(Tests) : Tests[n] \in S
        BY <3>5, ElementOfSeq, Zenon
      <4> QED BY <1>4, <3>7, <4>1
    <3> QED BY <1>4, <3>3, <3>4, <3>7, <3>8
  <2>2. CASE bench = "filled"
    <3>1. Tests = CrossingLoads
      BY <2>2 DEF Tests
    <3>2. accesses + 1 \in 1 .. 5
      BY <1>4, <3>1, CrossingLoadsShort
    <3>3. Short(a) /\ accesses < 1000
      BY <1>4, <3>1, <3>2, CrossingLoadsShort
    <3>4. a \in ToSet(CrossingLoads)
      BY <1>4, <3>1, <3>2, CrossingLoadsShort, OwnRange DEF ToSet
    <3>5. a.req \in Requests
      BY <3>4, BenchAssumption DEF TestedRequests
    <3> QED BY <1>4, <3>3, <3>5
  <2> QED BY <1>4, <2>1, <2>2
<1>5. \/ a = NoAccess
      \/ bench = "random" /\ accesses = 0 /\ a \in StoreDraws
      \/ bench = "random" /\ accesses = 1 /\ a \in LoadDraws
      \/ bench # "random" /\ accesses < Len(Tests) /\ a = Tests[accesses + 1]
  BY DEF NextAccess
<1> QED BY <1>1, <1>2, <1>3, <1>4, <1>5

-----------------------------------------------------------------------------
(* The inductive invariant *)

\* A stub is a record with these fields.
Fields == {"awctr", "wctr", "arctr", "aw", "w", "bvalid", "rvalid", "awaddr", "araddr", "strb",
           "data", "rdata"}
Whole(s) == s = [x \in Fields |-> s[x]]

\* The cycles this word has taken.
Base    == IF phase2 THEN SlowerChannel + 3 ELSE 1
Elapsed == cycles - Base

\* A channel is offered until its delay has passed, and is then taken.
Channel(valid, ctr, done, delay, elapsed) ==
  /\ valid <=> ~done
  /\ done => elapsed > delay /\ ctr = -1
  /\ ~done => elapsed <= delay /\ ctr = IF elapsed = 0 THEN -1 ELSE delay - elapsed

NoWrite == ~awvalid /\ ~wvalid /\ stub.awctr = -1 /\ stub.wctr = -1 /\ ~stub.aw /\ ~stub.w
NoRead  == ~arvalid /\ ~rready /\ stub.arctr = -1 /\ ~stub.rvalid

Resting == /\ NoWrite /\ NoRead /\ ~bready /\ ~stub.bvalid
           /\ cycles = 0
Writing == /\ req.op = "write" /\ NoRead /\ ~bready /\ ~stub.bvalid
           /\ stub.aw <=> awDone
           /\ stub.w <=> wDone
           /\ ~(awDone /\ wDone)
           /\ Elapsed \in Nat
           /\ Channel(awvalid, stub.awctr, awDone, now.aw, Elapsed)
           /\ Channel(wvalid, stub.wctr, wDone, now.w, Elapsed)
Responding == /\ req.op = "write" /\ NoWrite /\ NoRead /\ bready /\ stub.bvalid
              /\ Elapsed = SlowerChannel + 1
Reading == /\ req.op = "read" /\ NoWrite /\ ~bready /\ ~stub.bvalid /\ rready
           /\ Elapsed \in 0 .. now.ar + 1
           /\ Channel(arvalid, stub.arctr, stub.rvalid, now.ar, Elapsed)

BInv ==
  /\ bench \in {"directed", "filled", "random"} /\ accesses \in Nat /\ cycles \in Nat
  /\ Short(now) /\ req = now.req /\ req \in Requests \cup {None}
  /\ {awvalid, wvalid, bready, arvalid, rready, awDone, wDone, phase2} \subseteq BOOLEAN
  /\ {stub.aw, stub.w, stub.bvalid, stub.rvalid} \subseteq BOOLEAN
  /\ Whole(stub)
  /\ state \in {"idle", "write", "wresp", "read"}
  /\ state # "idle" /\ phase2 => M!Crosses
  /\ state = "idle"  => Resting
  /\ state = "write" => Writing
  /\ state = "wresp" => Responding
  /\ state = "read"  => Reading

-----------------------------------------------------------------------------
(* A cycle of the stub *)

LEMMA CapturedFields ==
  ASSUME Whole(stub), NEW ready, NEW s, s = Captured(ready)
  PROVE  /\ Whole(s)
         /\ s.awctr = Advance(awvalid, stub.awctr, now.aw)
         /\ s.wctr = Advance(wvalid, stub.wctr, now.w)
         /\ s.arctr = Advance(arvalid, stub.arctr, now.ar)
         /\ s.aw <=> stub.aw \/ M!AwFire(ready)
         /\ s.w <=> stub.w \/ M!WFire(ready)
         /\ s.bvalid <=> stub.bvalid /\ ~bready
         /\ s.rvalid <=> stub.rvalid /\ ~rready
         /\ s.awaddr = IF M!AwFire(ready) THEN M!Addr ELSE stub.awaddr
         /\ s.araddr = IF M!ArFire(ready) THEN M!Addr ELSE stub.araddr
         /\ s.strb = IF M!WFire(ready) THEN M!Wstrb ELSE stub.strb
         /\ s.data = IF M!WFire(ready) THEN M!Wdata ELSE stub.data
         /\ s.rdata = stub.rdata
         /\ {s.aw, s.w, s.bvalid, s.rvalid} \subseteq BOOLEAN
<1> DEFINE aw == stub.aw \/ M!AwFire(ready)
           w  == stub.w \/ M!WFire(ready)
           b  == stub.bvalid /\ ~bready
           r  == stub.rvalid /\ ~rready
<1>1. {aw, w, b, r} \subseteq BOOLEAN
  OBVIOUS
<1>2. /\ aw <=> stub.aw \/ M!AwFire(ready)
      /\ w <=> stub.w \/ M!WFire(ready)
      /\ b <=> stub.bvalid /\ ~bready
      /\ r <=> stub.rvalid /\ ~rready
  OBVIOUS
<1>3. s = [stub EXCEPT !.awctr = Advance(awvalid, stub.awctr, now.aw),
                       !.wctr = Advance(wvalid, stub.wctr, now.w),
                       !.arctr = Advance(arvalid, stub.arctr, now.ar),
                       !.aw = aw, !.w = w,
                       !.awaddr = IF M!AwFire(ready) THEN M!Addr ELSE stub.awaddr,
                       !.araddr = IF M!ArFire(ready) THEN M!Addr ELSE stub.araddr,
                       !.strb = IF M!WFire(ready) THEN M!Wstrb ELSE stub.strb,
                       !.data = IF M!WFire(ready) THEN M!Wdata ELSE stub.data,
                       !.bvalid = b, !.rvalid = r]
  BY DEF Captured
<1> HIDE DEF aw, w, b, r
<1>4. DOMAIN stub = Fields
  BY DEF Whole
<1>5. /\ s.awctr = Advance(awvalid, stub.awctr, now.aw)
      /\ s.wctr = Advance(wvalid, stub.wctr, now.w)
      /\ s.arctr = Advance(arvalid, stub.arctr, now.ar)
      /\ s.aw = aw /\ s.w = w /\ s.bvalid = b /\ s.rvalid = r
  BY <1>3, <1>4 DEF Fields
<1>6. /\ s.awaddr = IF M!AwFire(ready) THEN M!Addr ELSE stub.awaddr
      /\ s.araddr = IF M!ArFire(ready) THEN M!Addr ELSE stub.araddr
      /\ s.strb = IF M!WFire(ready) THEN M!Wstrb ELSE stub.strb
      /\ s.data = IF M!WFire(ready) THEN M!Wdata ELSE stub.data
      /\ s.rdata = stub.rdata
  BY <1>3, <1>4 DEF Fields
<1>7. Whole(s)
  BY <1>3, <1>4 DEF Whole, Fields
<1> QED BY <1>1, <1>2, <1>5, <1>6, <1>7

LEMMA UpdatedFields ==
  ASSUME NEW s, Whole(s), {s.aw, s.w, s.bvalid, s.rvalid} \subseteq BOOLEAN,
         NEW ready, NEW n, n = Updated(s, ready)
  PROVE  /\ Whole(n)
         /\ n.awctr = s.awctr /\ n.wctr = s.wctr /\ n.arctr = s.arctr
         /\ n.aw <=> s.aw /\ ~Writes(s)
         /\ n.w <=> s.w /\ ~Writes(s)
         /\ n.bvalid <=> s.bvalid \/ Writes(s)
         /\ n.rvalid <=> s.rvalid \/ M!ArFire(ready)
         /\ n.awaddr = s.awaddr /\ n.araddr = s.araddr /\ n.strb = s.strb /\ n.data = s.data
         /\ n.rdata = IF ReadsNow(s, ready) THEN mem[s.araddr] ELSE s.rdata
         /\ {n.aw, n.w, n.bvalid, n.rvalid} \subseteq BOOLEAN
<1> DEFINE aw == s.aw /\ ~Writes(s)
           w  == s.w /\ ~Writes(s)
           b  == s.bvalid \/ Writes(s)
           r  == s.rvalid \/ M!ArFire(ready)
           d  == IF ReadsNow(s, ready) THEN mem[s.araddr] ELSE s.rdata
<1>1. {aw, w, b, r} \subseteq BOOLEAN
  OBVIOUS
<1>2. /\ aw <=> s.aw /\ ~Writes(s)
      /\ w <=> s.w /\ ~Writes(s)
      /\ b <=> s.bvalid \/ Writes(s)
      /\ r <=> s.rvalid \/ M!ArFire(ready)
  OBVIOUS
<1>3. n = [s EXCEPT !.bvalid = b, !.aw = aw, !.w = w, !.rvalid = r, !.rdata = d]
  BY DEF Updated
<1>4. d = IF ReadsNow(s, ready) THEN mem[s.araddr] ELSE s.rdata
  OBVIOUS
<1> HIDE DEF aw, w, b, r, d
<1>5. n = [awctr |-> s.awctr, wctr |-> s.wctr, arctr |-> s.arctr, aw |-> aw, w |-> w,
           bvalid |-> b, rvalid |-> r, awaddr |-> s.awaddr, araddr |-> s.araddr,
           strb |-> s.strb, data |-> s.data, rdata |-> d]
  BY <1>3 DEF Whole, Fields
<1> QED BY <1>1, <1>2, <1>4, <1>5 DEF Whole, Fields

\* Which channels are ready, and what a cycle makes of the stub.
LEMMA ReadyWhen ==
  /\ "aw" \in ReadyChannels <=> Ready(awvalid, stub.awctr, now.aw)
  /\ "w" \in ReadyChannels <=> Ready(wvalid, stub.wctr, now.w)
  /\ "ar" \in ReadyChannels <=> Ready(arvalid, stub.arctr, now.ar)
  /\ ReadyChannels \subseteq {"aw", "w", "ar"}
BY DEF ReadyChannels

AwTaken == Ready(awvalid, stub.awctr, now.aw)
WTaken  == Ready(wvalid, stub.wctr, now.w)
ArTaken == Ready(arvalid, stub.arctr, now.ar)
Both    == (stub.aw \/ AwTaken) /\ (stub.w \/ WTaken)

LEMMA Fires ==
  /\ M!AwFire(ReadyChannels) <=> AwTaken
  /\ M!WFire(ReadyChannels) <=> WTaken
  /\ M!ArFire(ReadyChannels) <=> ArTaken
BY ReadyWhen DEF M!AwFire, M!WFire, M!ArFire, AwTaken, WTaken, ArTaken, Ready

LEMMA StubStep ==
  ASSUME Whole(stub), StubEdge(ReadyChannels), stub.bvalid => bready, stub.rvalid => rready
  PROVE  /\ Whole(stub')
         /\ {stub.aw, stub.w, stub.bvalid, stub.rvalid}' \subseteq BOOLEAN
         /\ stub'.awctr = Advance(awvalid, stub.awctr, now.aw)
         /\ stub'.wctr = Advance(wvalid, stub.wctr, now.w)
         /\ stub'.arctr = Advance(arvalid, stub.arctr, now.ar)
         /\ stub'.aw <=> (stub.aw \/ AwTaken) /\ ~Both
         /\ stub'.w <=> (stub.w \/ WTaken) /\ ~Both
         /\ stub'.bvalid <=> Both
         /\ stub'.rvalid <=> ArTaken
         /\ stub'.awaddr = IF AwTaken THEN M!Addr ELSE stub.awaddr
         /\ stub'.araddr = IF ArTaken THEN M!Addr ELSE stub.araddr
         /\ stub'.strb = IF WTaken THEN M!Wstrb ELSE stub.strb
         /\ stub'.data = IF WTaken THEN M!Wdata ELSE stub.data
         /\ stub'.rdata = IF ArTaken THEN mem[M!Addr] ELSE stub.rdata
         /\ mem' = IF Both
                   THEN [mem EXCEPT ![stub'.awaddr] =
                           [l \in Lane |-> IF l \in stub'.strb THEN stub'.data[l] ELSE @[l]]]
                   ELSE mem
         /\ M!Log(IF Both THEN <<[op |-> "write", word |-> stub'.awaddr]>>
                  ELSE IF ArTaken THEN <<[op |-> "read", word |-> M!Addr]>>
                  ELSE <<>>)
<1>1. PICK s : s = Captured(ReadyChannels)
  OBVIOUS
<1>2. /\ Whole(s)
      /\ s.awctr = Advance(awvalid, stub.awctr, now.aw)
      /\ s.wctr = Advance(wvalid, stub.wctr, now.w)
      /\ s.arctr = Advance(arvalid, stub.arctr, now.ar)
      /\ s.aw <=> stub.aw \/ AwTaken
      /\ s.w <=> stub.w \/ WTaken
      /\ ~s.bvalid /\ ~s.rvalid
      /\ s.awaddr = IF AwTaken THEN M!Addr ELSE stub.awaddr
      /\ s.araddr = IF ArTaken THEN M!Addr ELSE stub.araddr
      /\ s.strb = IF WTaken THEN M!Wstrb ELSE stub.strb
      /\ s.data = IF WTaken THEN M!Wdata ELSE stub.data
      /\ s.rdata = stub.rdata
      /\ {s.aw, s.w, s.bvalid, s.rvalid} \subseteq BOOLEAN
  BY <1>1, CapturedFields, Fires
<1>3. Writes(s) <=> Both
  BY <1>2 DEF Writes, Both
<1>4. ReadsNow(s, ReadyChannels) <=> ArTaken
  BY <1>2, Fires DEF ReadsNow
<1>5. /\ stub' = Updated(s, ReadyChannels)
      /\ mem' = IF Writes(s)
                THEN [mem EXCEPT ![s.awaddr] = [l \in Lane |-> IF l \in s.strb THEN s.data[l] ELSE @[l]]]
                ELSE mem
      /\ M!Log(IF Writes(s) THEN <<[op |-> "write", word |-> s.awaddr]>>
               ELSE IF ReadsNow(s, ReadyChannels) THEN <<[op |-> "read", word |-> s.araddr]>>
               ELSE <<>>)
  BY <1>1 DEF StubEdge
<1>6. PICK n : n = stub'
  OBVIOUS
<1>7. /\ Whole(n)
      /\ n.awctr = s.awctr /\ n.wctr = s.wctr /\ n.arctr = s.arctr
      /\ n.aw <=> s.aw /\ ~Both
      /\ n.w <=> s.w /\ ~Both
      /\ n.bvalid <=> s.bvalid \/ Both
      /\ n.rvalid <=> s.rvalid \/ ArTaken
      /\ n.awaddr = s.awaddr /\ n.araddr = s.araddr /\ n.strb = s.strb /\ n.data = s.data
      /\ n.rdata = IF ArTaken THEN mem[s.araddr] ELSE s.rdata
      /\ {n.aw, n.w, n.bvalid, n.rvalid} \subseteq BOOLEAN
  BY <1>2, <1>3, <1>4, <1>5, <1>6, UpdatedFields, Fires
<1>8. /\ n.aw <=> (stub.aw \/ AwTaken) /\ ~Both
      /\ n.w <=> (stub.w \/ WTaken) /\ ~Both
      /\ n.bvalid <=> Both
      /\ n.rvalid <=> ArTaken
      /\ n.awaddr = IF AwTaken THEN M!Addr ELSE stub.awaddr
      /\ n.araddr = IF ArTaken THEN M!Addr ELSE stub.araddr
      /\ n.strb = IF WTaken THEN M!Wstrb ELSE stub.strb
      /\ n.data = IF WTaken THEN M!Wdata ELSE stub.data
      /\ n.rdata = IF ArTaken THEN mem[M!Addr] ELSE stub.rdata
  BY <1>2, <1>7
<1>9. /\ mem' = IF Both
                THEN [mem EXCEPT ![n.awaddr] = [l \in Lane |-> IF l \in n.strb THEN n.data[l] ELSE @[l]]]
                ELSE mem
      /\ M!Log(IF Both THEN <<[op |-> "write", word |-> n.awaddr]>>
               ELSE IF ArTaken THEN <<[op |-> "read", word |-> M!Addr]>>
               ELSE <<>>)
  BY <1>2, <1>3, <1>4, <1>5, <1>7
<1> QED BY <1>2, <1>6, <1>7, <1>8, <1>9

-----------------------------------------------------------------------------
(* The invariant is inductive *)

LEMMA ChannelStep ==
  ASSUME NEW valid \in BOOLEAN, NEW done \in BOOLEAN, NEW e \in Nat, NEW d \in Delay, NEW ctr,
         Channel(valid, ctr, done, d, e)
  PROVE  /\ Ready(valid, ctr, d) <=> ~done /\ e = d
         /\ Channel(valid /\ ~Ready(valid, ctr, d), Advance(valid, ctr, d),
                    done \/ Ready(valid, ctr, d), d, e + 1)
<1>1. d \in Nat
  BY DEF Delay
<1>2. Ready(valid, ctr, d) <=> ~done /\ e = d
  BY <1>1 DEF Channel, Ready, Timed
<1>3. Advance(valid, ctr, d) = IF ~done /\ e # d THEN d - (e + 1) ELSE -1
  BY <1>1, <1>2 DEF Channel, Advance, Timed
<1> QED BY <1>1, <1>2, <1>3 DEF Channel

LEMMA Slower ==
  ASSUME Short(now)
  PROVE  /\ SlowerChannel \in Delay
         /\ req = now.req /\ req.op = "write" =>
              SlowerChannel = IF now.aw >= now.w THEN now.aw ELSE now.w
         /\ req = now.req /\ req.op = "read" => SlowerChannel = now.ar
<1>1. \A a, b \in Delay : Max({a, b}) = IF a >= b THEN a ELSE b
  <2> TAKE a, b \in Delay
  <2> DEFINE m == IF a >= b THEN a ELSE b
  <2>1. m \in {a, b} /\ \A y \in {a, b} : m >= y
    BY DEF Delay
  <2>2. \A x \in {a, b} : (\A y \in {a, b} : x >= y) => x = m
    BY DEF Delay
  <2> QED BY <2>1, <2>2 DEF Max
<1>2. now.aw \in Delay /\ now.w \in Delay /\ now.ar \in Delay
  BY DEF Short
<1> QED BY <1>1, <1>2 DEF SlowerChannel

LEMMA Answers ==
  /\ AsSlave.bvalid <=> stub.bvalid
  /\ AsSlave.rvalid <=> stub.rvalid
BY DEF AsSlave

LEMMA Ops ==
  ASSUME req \in Requests \cup {None}
  PROVE  /\ req.op \in {"read", "write", "none"}
         /\ req = M!None <=> req.op = "none"
         /\ None = M!None
<1>1. None = M!None /\ None.op = "none"
  BY DEF None, M!None, Lane, M!Lane
<1>2. \A r \in Requests : r.op \in {"read", "write"}
  BY RequestsAssumption DEF Access
<1> QED BY <1>1, <1>2

\* When the master stalls, in each state.
LEMMA StallWhen ==
  ASSUME BInv
  PROVE  /\ state = "idle" => (M!BusStall <=> req.op # "none")
         /\ state = "write" => M!BusStall
         /\ state = "wresp" => (M!BusStall <=> M!Crosses /\ ~phase2)
         /\ state = "read" => (M!BusStall <=> ~(stub.rvalid /\ (~M!Crosses \/ phase2)))
<1>1. req = M!None <=> req.op = "none"
  BY Ops DEF BInv
<1>2. M!PhaseDone <=> (state = "wresp" /\ stub.bvalid) \/ (state = "read" /\ stub.rvalid)
  BY Answers DEF M!PhaseDone
<1> QED BY <1>1, <1>2 DEF M!BusStall, M!XferDone, BInv, Writing, Responding, Reading

\* The driver's next access.
LEMMA MovesOn ==
  ASSUME BInv, ~M!BusStall, Driver
  PROVE  /\ Short(now') /\ req' = now'.req /\ req' \in Requests \cup {None}
         /\ accesses' \in Nat /\ cycles' = 0
         /\ req' # None => accesses < 1000 /\ accesses' = accesses + 1
         /\ req' = None => accesses' = accesses
<1>1. now' \in NextAccess /\ req' = now'.req /\ cycles' = 0
      /\ accesses' = IF req' = None THEN accesses ELSE accesses + 1
  BY DEF Driver
<1>2. PICK a : a = now'
  OBVIOUS
<1>3. Short(a) /\ a.req \in Requests \cup {None} /\ (a.req # None => accesses < 1000)
  BY <1>1, <1>2, NextIsShort DEF BInv
<1> QED BY <1>1, <1>2, <1>3 DEF BInv

\* The stub of a cycle, as the invariant allows StubStep.
LEMMA Stepped ==
  ASSUME BInv, Cycle(ReadyChannels)
  PROVE  /\ Whole(stub')
         /\ {stub.aw, stub.w, stub.bvalid, stub.rvalid}' \subseteq BOOLEAN
         /\ stub'.awctr = Advance(awvalid, stub.awctr, now.aw)
         /\ stub'.wctr = Advance(wvalid, stub.wctr, now.w)
         /\ stub'.arctr = Advance(arvalid, stub.arctr, now.ar)
         /\ stub'.aw <=> (stub.aw \/ AwTaken) /\ ~Both
         /\ stub'.w <=> (stub.w \/ WTaken) /\ ~Both
         /\ stub'.bvalid <=> Both
         /\ stub'.rvalid <=> ArTaken
<1>1. Whole(stub) /\ StubEdge(ReadyChannels)
  BY DEF BInv, Cycle
<1>2. (stub.bvalid => bready) /\ (stub.rvalid => rready)
  BY DEF BInv, Resting, Writing, Responding, Reading, NoRead
<1> QED BY <1>1, <1>2, StubStep

LEMMA TypesKept ==
  ASSUME BInv, Cycle(ReadyChannels)
  PROVE  /\ bench' \in {"directed", "filled", "random"} /\ accesses' \in Nat /\ cycles' \in Nat
         /\ Short(now)' /\ req' = now'.req /\ req' \in Requests \cup {None}
         /\ {awvalid, wvalid, bready, arvalid, rready, awDone, wDone, phase2}' \subseteq BOOLEAN
         /\ {stub.aw, stub.w, stub.bvalid, stub.rvalid}' \subseteq BOOLEAN
         /\ Whole(stub)'
         /\ state' \in {"idle", "write", "wresp", "read"}
<1>1. {awvalid, wvalid, bready, arvalid, rready, awDone, wDone, phase2} \subseteq BOOLEAN
      /\ state \in {"idle", "write", "wresp", "read"}
  BY DEF BInv
<1>2. {awvalid, wvalid, bready, arvalid, rready, awDone, wDone, phase2}' \subseteq BOOLEAN
      /\ state' \in {"idle", "write", "wresp", "read"}
  <2>1. CASE M!Idle
    BY <1>1, <2>1, Ops DEF M!Idle, BInv
  <2>2. CASE M!Write(ReadyChannels)
    BY <1>1, <2>2 DEF M!Write
  <2>3. CASE M!WResp
    BY <1>1, <2>3 DEF M!WResp, M!master
  <2>4. CASE M!Read(ReadyChannels)
    BY <1>1, <2>4 DEF M!Read
  <2> QED BY <2>1, <2>2, <2>3, <2>4 DEF Cycle
<1>3. accesses' \in Nat /\ cycles' \in Nat /\ Short(now') /\ req' = now'.req
      /\ req' \in Requests \cup {None}
  <2>1. CASE M!BusStall
    BY <2>1 DEF Cycle, Driver, BInv
  <2>2. CASE ~M!BusStall
    BY <2>2, MovesOn DEF Cycle
  <2> QED BY <2>1, <2>2
<1> QED BY <1>2, <1>3, Stepped DEF BInv, Cycle, Short, Whole

\* While the master stalls the access stays, and with it what its delays and
\* its address make of it.
LEMMA Stays ==
  ASSUME BInv, Cycle(ReadyChannels), M!BusStall, cycles < MaxStall
  PROVE  /\ now' = now /\ req' = req /\ cycles' = cycles + 1
         /\ SlowerChannel' = SlowerChannel
         /\ M!Crosses' <=> M!Crosses
         /\ phase2' = phase2 => Base' = Base /\ Elapsed' = Elapsed + 1
         /\ SlowerChannel \in Nat /\ Base \in Nat
<1>1. now' = now /\ req' = req /\ cycles' = cycles + 1
  BY DEF Cycle, Driver
<1>2. SlowerChannel' = SlowerChannel /\ (M!Crosses' <=> M!Crosses)
  BY <1>1 DEF SlowerChannel, M!Crosses, M!IsWord, M!IsHalf
<1>3. SlowerChannel \in Nat
  BY Slower DEF BInv, Delay
<1>4. Base \in Nat
  BY <1>3 DEF Base
<1>5. phase2' = phase2 => Base' = Base
  BY <1>2 DEF Base
<1> QED BY <1>1, <1>2, <1>3, <1>4, <1>5 DEF Elapsed, BInv

LEMMA FromIdle ==
  ASSUME BInv, Cycle(ReadyChannels), state = "idle"
  PROVE  BInv'
<1>1. Resting /\ M!Idle
  BY DEF BInv, Cycle, M!Write, M!WResp, M!Read
<1>2. ~AwTaken /\ ~WTaken /\ ~ArTaken /\ ~Both
  BY <1>1 DEF Resting, NoWrite, NoRead, AwTaken, WTaken, ArTaken, Both, Ready
<1>3. /\ stub'.awctr = -1 /\ stub'.wctr = -1 /\ stub'.arctr = -1
      /\ ~stub'.aw /\ ~stub'.w /\ ~stub'.bvalid /\ ~stub'.rvalid
  BY <1>1, <1>2, Stepped DEF Resting, NoWrite, NoRead, Advance
<1>4. ~phase2' /\ ~awDone' /\ ~wDone' /\ ~bready'
      /\ awvalid' = (req.op = "write") /\ wvalid' = (req.op = "write")
      /\ arvalid' = (req.op = "read") /\ rready' = (req.op = "read")
  BY <1>1 DEF M!Idle, Resting, NoWrite, NoRead
<1>5. M!BusStall <=> req.op # "none"
  BY StallWhen
<1>6. CASE req.op = "none"
  <2>1. state' = "idle"
    BY <1>1, <1>6 DEF M!Idle
  <2>2. cycles' = 0
    BY <1>5, <1>6, MovesOn DEF Cycle
  <2>3. Resting'
    BY <1>3, <1>4, <1>6, <2>2 DEF Resting, NoWrite, NoRead
  <2> QED BY <2>1, <2>3, TypesKept DEF BInv
<1>7. CASE req.op # "none"
  <2>1. cycles = 0 /\ cycles < MaxStall /\ M!BusStall
    BY <1>1, <1>5, <1>7 DEF Resting, MaxStall
  <2>2. now' = now /\ req' = req /\ cycles' = 1
    BY <2>1, Stays
  <2>3. Elapsed' = 0
    BY <1>4, <2>2 DEF Elapsed, Base
  <2>4. now.aw \in Delay /\ now.w \in Delay /\ now.ar \in Delay
    BY DEF BInv, Short
  <2>5. \A d \in Delay : Channel(TRUE, -1, FALSE, d, 0)
    BY DEF Channel, Delay
  <2>6. CASE req.op = "write"
    <3>1. state' = "write"
      BY <1>1, <2>6 DEF M!Idle
    <3>2. awvalid' = TRUE /\ wvalid' = TRUE /\ awDone' = FALSE /\ wDone' = FALSE
      BY <1>1, <1>4, <2>6 DEF M!Idle
    <3>3. /\ Channel(awvalid, stub.awctr, awDone, now.aw, Elapsed)'
          /\ Channel(wvalid, stub.wctr, wDone, now.w, Elapsed)'
      BY <1>3, <2>2, <2>3, <2>4, <2>5, <3>2 DEF Channel
    <3>4. Writing'
      BY <1>3, <1>4, <2>2, <2>3, <2>6, <3>2, <3>3 DEF Writing, NoRead
    <3> QED BY <1>4, <3>1, <3>4, TypesKept DEF BInv
  <2>7. CASE req.op = "read"
    <3>1. state' = "read"
      BY <1>1, <2>7 DEF M!Idle
    <3>2. arvalid' = TRUE
      BY <1>4, <2>7
    <3>3. Channel(arvalid, stub.arctr, stub.rvalid, now.ar, Elapsed)'
      BY <1>3, <2>2, <2>3, <2>4, <2>5, <3>2 DEF Channel
    <3>4. Elapsed' \in 0 .. now'.ar + 1
      BY <2>2, <2>3, <2>4 DEF Delay
    <3>5. NoWrite' /\ req'.op = "read" /\ ~bready' /\ ~stub'.bvalid /\ rready'
      BY <1>3, <1>4, <2>2, <2>7 DEF NoWrite
    <3>6. Reading'
      BY <3>3, <3>4, <3>5 DEF Reading
    <3> QED BY <1>4, <3>1, <3>6, TypesKept DEF BInv
  <2> QED BY <1>7, <2>6, <2>7, Ops DEF BInv
<1> QED BY <1>6, <1>7

LEMMA FromWrite ==
  ASSUME BInv, Cycle(ReadyChannels), state = "write"
  PROVE  BInv'
<1>1. Writing /\ M!Write(ReadyChannels)
  BY DEF BInv, Cycle, M!Idle, M!WResp, M!Read
<1>2. now.aw \in Delay /\ now.w \in Delay /\ now.ar \in Delay
      /\ {awvalid, wvalid, awDone, wDone} \subseteq BOOLEAN
  BY DEF BInv, Short
<1>3. PICK e \in Nat : e = Elapsed
  BY <1>1 DEF Writing
<1>4. /\ AwTaken <=> ~awDone /\ e = now.aw
      /\ WTaken <=> ~wDone /\ e = now.w
      /\ Channel(awvalid /\ ~AwTaken, stub'.awctr, awDone \/ AwTaken, now.aw, e + 1)
      /\ Channel(wvalid /\ ~WTaken, stub'.wctr, wDone \/ WTaken, now.w, e + 1)
  <2>1. /\ Channel(awvalid, stub.awctr, awDone, now.aw, e)
        /\ Channel(wvalid, stub.wctr, wDone, now.w, e)
    BY <1>1, <1>3 DEF Writing
  <2>2. /\ stub'.awctr = Advance(awvalid, stub.awctr, now.aw)
        /\ stub'.wctr = Advance(wvalid, stub.wctr, now.w)
    BY Stepped
  <2> QED BY <1>2, <1>3, <2>1, <2>2, ChannelStep DEF AwTaken, WTaken
<1>5. ~ArTaken
  BY <1>1 DEF Writing, NoRead, ArTaken, Ready
<1>6. Both <=> (awDone \/ AwTaken) /\ (wDone \/ WTaken)
  BY <1>1 DEF Both, Writing
<1>7. /\ awvalid' <=> awvalid /\ ~AwTaken
      /\ wvalid' <=> wvalid /\ ~WTaken
      /\ awDone' <=> awDone \/ AwTaken
      /\ wDone' <=> wDone \/ WTaken
      /\ Both => bready' = TRUE /\ state' = "wresp"
      /\ ~Both => bready' = bready /\ state' = state
      /\ arvalid' = arvalid /\ rready' = rready /\ phase2' = phase2
  BY <1>1, <1>6, Fires DEF M!Write
<1>8. M!BusStall /\ cycles < MaxStall
  <2>1. e <= 4
    BY <1>1, <1>2, <1>3 DEF Writing, Channel, Delay
  <2>2. Base \in Nat /\ Base <= 7
    BY Slower DEF Base, BInv, Delay
  <2>3. cycles = e + Base
    BY <1>3, <2>2 DEF Elapsed, BInv
  <2> QED BY <2>1, <2>2, <2>3, StallWhen DEF MaxStall
<1>9. /\ now' = now /\ req' = req /\ Elapsed' = e + 1 /\ SlowerChannel' = SlowerChannel
      /\ M!Crosses' <=> M!Crosses
  BY <1>3, <1>7, <1>8, Stays
<1>10. NoRead'
  <2>1. stub'.arctr = -1 /\ ~stub'.rvalid
    BY <1>1, <1>5, Stepped DEF Writing, NoRead, Advance
  <2> QED BY <1>1, <1>7, <2>1 DEF Writing, NoRead
<1>11. state' # "idle" /\ phase2' => M!Crosses'
  BY <1>7, <1>9 DEF BInv
<1>12. CASE ~Both
  <2>1. state' = "write" /\ ~bready' /\ ~stub'.bvalid
    BY <1>1, <1>7, <1>12, Stepped DEF Writing
  <2>2. /\ stub'.aw <=> awDone'
        /\ stub'.w <=> wDone'
        /\ ~(awDone' /\ wDone')
    BY <1>1, <1>6, <1>7, <1>12, Stepped DEF Writing
  <2>3. /\ Channel(awvalid, stub.awctr, awDone, now.aw, Elapsed)'
        /\ Channel(wvalid, stub.wctr, wDone, now.w, Elapsed)'
    BY <1>4, <1>7, <1>9 DEF Channel
  <2>4. Elapsed' \in Nat
    BY <1>9
  <2>5. Writing'
    BY <1>1, <1>9, <1>10, <2>1, <2>2, <2>3, <2>4 DEF Writing
  <2> QED BY <1>11, <2>1, <2>5, TypesKept DEF BInv
<1>13. CASE Both
  <2>1. state' = "wresp" /\ bready'
    BY <1>7, <1>13
  <2>2. NoWrite' /\ stub'.bvalid
    <3>1. ~stub'.aw /\ ~stub'.w /\ stub'.bvalid
      BY <1>13, Stepped
    <3>2. stub'.awctr = -1 /\ stub'.wctr = -1
      BY <1>4, <1>6, <1>13 DEF Channel
    <3>3. ~awvalid' /\ ~wvalid'
      BY <1>1, <1>6, <1>7, <1>13 DEF Writing, Channel
    <3> QED BY <3>1, <3>2, <3>3 DEF NoWrite
  <2>3. e = IF now.aw >= now.w THEN now.aw ELSE now.w
    <3>1. ~(awDone /\ wDone) /\ now.aw \in Nat /\ now.w \in Nat
      BY <1>1, <1>2 DEF Writing, Delay
    <3>2. /\ awDone => e > now.aw
          /\ wDone => e > now.w
      BY <1>1, <1>3 DEF Writing, Channel
    <3> QED BY <1>4, <1>6, <1>13, <3>1, <3>2
  <2>4. Elapsed' = SlowerChannel' + 1
    BY <1>1, <1>9, <2>3, Slower DEF BInv, Writing
  <2>5. Responding'
    BY <1>1, <1>9, <1>10, <2>1, <2>2, <2>4 DEF Responding, Writing
  <2> QED BY <1>11, <2>1, <2>5, TypesKept DEF BInv
<1> QED BY <1>12, <1>13

LEMMA FromWResp ==
  ASSUME BInv, Cycle(ReadyChannels), state = "wresp"
  PROVE  BInv'
<1>1. Responding /\ M!WResp
  BY DEF BInv, Cycle, M!Idle, M!Write, M!Read
<1>2. ~AwTaken /\ ~WTaken /\ ~ArTaken /\ ~Both
  BY <1>1 DEF Responding, NoWrite, NoRead, AwTaken, WTaken, ArTaken, Both, Ready
<1>3. /\ stub'.awctr = -1 /\ stub'.wctr = -1 /\ stub'.arctr = -1
      /\ ~stub'.aw /\ ~stub'.w /\ ~stub'.bvalid /\ ~stub'.rvalid
  BY <1>1, <1>2, Stepped DEF Responding, NoWrite, NoRead, Advance
<1>4. /\ bready' = FALSE
      /\ M!Crosses /\ ~phase2 =>
           /\ phase2' = TRUE /\ awDone' = FALSE /\ wDone' = FALSE
           /\ awvalid' = TRUE /\ wvalid' = TRUE /\ state' = "write"
      /\ ~(M!Crosses /\ ~phase2) =>
           state' = "idle" /\ awvalid' = awvalid /\ wvalid' = wvalid
      /\ arvalid' = arvalid /\ rready' = rready
  BY <1>1, Answers DEF M!WResp, Responding
<1>5. M!BusStall <=> M!Crosses /\ ~phase2
  BY StallWhen
<1>6. NoRead'
  BY <1>1, <1>3, <1>4 DEF NoRead, Responding
<1>7. CASE M!BusStall
  <2>1. SlowerChannel \in Delay
    BY Slower DEF BInv
  <2>2. cycles = SlowerChannel + 2
    BY <1>1, <1>5, <1>7, <2>1 DEF Responding, Elapsed, Base, BInv, Delay
  <2>3. cycles < MaxStall
    BY <2>1, <2>2 DEF Delay, MaxStall
  <2>4. /\ now' = now /\ req' = req /\ cycles' = cycles + 1
        /\ SlowerChannel' = SlowerChannel
        /\ M!Crosses' <=> M!Crosses
    BY <1>7, <2>3, Stays
  <2>5. Elapsed' = 0
    BY <1>4, <1>5, <1>7, <2>1, <2>2, <2>4 DEF Elapsed, Base, Delay
  <2>6. \A d \in Delay : Channel(TRUE, -1, FALSE, d, 0)
    BY DEF Channel, Delay
  <2>7. /\ Channel(awvalid, stub.awctr, awDone, now.aw, Elapsed)'
        /\ Channel(wvalid, stub.wctr, wDone, now.w, Elapsed)'
    BY <1>3, <1>4, <1>5, <1>7, <2>4, <2>5, <2>6 DEF Channel, BInv, Short
  <2>8. Writing'
    BY <1>1, <1>3, <1>4, <1>5, <1>6, <1>7, <2>4, <2>5, <2>7 DEF Writing, Responding
  <2> QED BY <1>4, <1>5, <1>7, <2>4, <2>8, TypesKept DEF BInv
<1>8. CASE ~M!BusStall
  <2>1. state' = "idle" /\ cycles' = 0
    BY <1>4, <1>5, <1>8, MovesOn DEF Cycle
  <2>2. NoWrite'
    BY <1>1, <1>3, <1>4, <1>5, <1>8 DEF NoWrite, Responding
  <2>3. Resting'
    BY <1>3, <1>4, <1>6, <2>1, <2>2 DEF Resting
  <2> QED BY <2>1, <2>3, TypesKept DEF BInv
<1> QED BY <1>7, <1>8

LEMMA FromRead ==
  ASSUME BInv, Cycle(ReadyChannels), state = "read"
  PROVE  BInv'
<1>1. Reading /\ M!Read(ReadyChannels)
  BY DEF BInv, Cycle, M!Idle, M!Write, M!WResp
<1>2. now.ar \in Delay /\ {arvalid, stub.rvalid} \subseteq BOOLEAN
  BY DEF BInv, Short
<1>3. PICK e \in Nat : e = Elapsed
  BY <1>1 DEF Reading
<1>4. /\ ArTaken <=> ~stub.rvalid /\ e = now.ar
      /\ Channel(arvalid /\ ~ArTaken, stub'.arctr, stub.rvalid \/ ArTaken, now.ar, e + 1)
  <2>1. Channel(arvalid, stub.arctr, stub.rvalid, now.ar, e)
    BY <1>1, <1>3 DEF Reading
  <2>2. stub'.arctr = Advance(arvalid, stub.arctr, now.ar)
    BY Stepped
  <2> QED BY <1>2, <1>3, <2>1, <2>2, ChannelStep DEF ArTaken
<1>5. ~AwTaken /\ ~WTaken /\ ~Both
  BY <1>1 DEF Reading, NoWrite, AwTaken, WTaken, Both, Ready
<1>6. /\ stub'.awctr = -1 /\ stub'.wctr = -1
      /\ ~stub'.aw /\ ~stub'.w /\ ~stub'.bvalid
      /\ stub'.rvalid <=> ArTaken
  BY <1>1, <1>5, Stepped DEF Reading, NoWrite, Advance
<1>7. awvalid' = awvalid /\ wvalid' = wvalid /\ bready' = bready
  BY <1>1 DEF M!Read
<1>8. NoWrite' /\ ~bready'
  BY <1>1, <1>6, <1>7 DEF NoWrite, Reading
<1>9. M!BusStall <=> ~(stub.rvalid /\ (~M!Crosses \/ phase2))
  BY StallWhen
<1>10. SlowerChannel = now.ar
  BY <1>1, Slower DEF BInv, Reading
<1>11. e <= now.ar + 1 /\ (stub.rvalid => e = now.ar + 1) /\ (~stub.rvalid => e <= now.ar)
  BY <1>1, <1>2, <1>3 DEF Reading, Channel, Delay
<1>12. Base \in Nat /\ Base <= 7 /\ cycles = e + Base
  BY <1>2, <1>3, <1>10 DEF Base, Elapsed, BInv, Delay
<1>13. cycles < MaxStall
  BY <1>2, <1>11, <1>12 DEF MaxStall, Delay
<1>14. CASE stub.rvalid /\ M!Crosses /\ ~phase2
  <2>1. phase2' = TRUE /\ arvalid' = TRUE /\ state' = "read" /\ rready' = rready
    BY <1>1, <1>14, Answers DEF M!Read
  <2>2. /\ now' = now /\ req' = req /\ cycles' = cycles + 1
        /\ SlowerChannel' = SlowerChannel
        /\ M!Crosses' <=> M!Crosses
    BY <1>9, <1>13, <1>14, Stays
  <2>3. Elapsed' = 0
    BY <1>2, <1>3, <1>10, <1>11, <1>14, <2>1, <2>2 DEF Elapsed, Base, Delay, BInv
  <2>4. ~ArTaken /\ ~stub'.rvalid /\ stub'.arctr = -1
    BY <1>4, <1>6, <1>14 DEF Channel
  <2>5. Channel(arvalid, stub.arctr, stub.rvalid, now.ar, Elapsed)'
    BY <1>2, <2>1, <2>2, <2>3, <2>4 DEF Channel, Delay
  <2>6. Elapsed' \in 0 .. now'.ar + 1
    BY <1>2, <2>2, <2>3 DEF Delay
  <2>7. Reading'
    BY <1>1, <1>6, <1>8, <2>1, <2>2, <2>5, <2>6 DEF Reading
  <2> QED BY <1>14, <2>1, <2>2, <2>7, TypesKept DEF BInv
<1>15. CASE stub.rvalid /\ ~(M!Crosses /\ ~phase2)
  <2>1. state' = "idle" /\ rready' = FALSE /\ arvalid' = (arvalid /\ ~ArTaken)
    BY <1>1, <1>15, Answers, Fires DEF M!Read
  <2>2. cycles' = 0
    BY <1>9, <1>15, MovesOn DEF Cycle
  <2>3. NoRead'
    BY <1>1, <1>4, <1>6, <1>15, <2>1 DEF NoRead, Channel, Reading
  <2>4. Resting'
    BY <1>6, <1>8, <2>2, <2>3 DEF Resting
  <2> QED BY <2>1, <2>4, TypesKept DEF BInv
<1>16. CASE ~stub.rvalid
  <2>1. /\ state' = state /\ rready' = rready /\ phase2' = phase2
        /\ arvalid' <=> arvalid /\ ~ArTaken
    BY <1>1, <1>16, Answers, Fires DEF M!Read
  <2>2. /\ now' = now /\ req' = req /\ Elapsed' = e + 1
        /\ M!Crosses' <=> M!Crosses
    BY <1>3, <1>9, <1>13, <1>16, <2>1, Stays
  <2>3. Channel(arvalid, stub.arctr, stub.rvalid, now.ar, Elapsed)'
    BY <1>4, <1>6, <1>16, <2>1, <2>2 DEF Channel
  <2>4. Elapsed' \in 0 .. now'.ar + 1
    BY <1>2, <1>11, <1>16, <2>2 DEF Delay
  <2>5. Reading'
    BY <1>1, <1>6, <1>8, <2>1, <2>2, <2>3, <2>4 DEF Reading
  <2> QED BY <2>1, <2>2, <2>5, TypesKept DEF BInv
<1> QED BY <1>14, <1>15, <1>16

LEMMA StutterKeepsB ==
  ASSUME BInv, UNCHANGED vars
  PROVE  BInv'
BY DEF vars, BInv, Resting, Writing, Responding, Reading, NoWrite, NoRead, Channel, Elapsed, Base,
       SlowerChannel, Short, Whole, M!Crosses, M!IsWord, M!IsHalf

LEMMA BenchStep == BInv /\ [Next]_vars => BInv'
BY FromIdle, FromWrite, FromWResp, FromRead, StutterKeepsB DEF Next, BInv

LEMMA BenchStarts == Init => BInv
<1> SUFFICES ASSUME Init PROVE BInv
  OBVIOUS
<1>1. Short(now) /\ req = now.req /\ req = None
  BY SmallDelays DEF Init, NoAccess, Short
<1>2. Whole(stub) /\ {stub.aw, stub.w, stub.bvalid, stub.rvalid} \subseteq BOOLEAN
      /\ Resting
  BY DEF Init, StubReset, Whole, Fields, Resting, NoWrite, NoRead
<1> QED BY <1>1, <1>2 DEF Init, BInv

\* Master, stub and driver are in matching states after every cycle, and the
\* count of cycles is what the delays of the channels make it, for every access
\* of the tests (tb_axil_master.cpp:57-171, axil_master.v:163-250).
THEOREM BenchInvariance == Spec => []BInv
BY BenchStarts, BenchStep, PTL DEF Spec

\* Every stall takes the cycles its slower channel costs, once for each word and
\* three cycles or two (tb_axil_master.cpp:13-27, 220-241, axil_master.v:163-250).
THEOREM StallsAreAsLong == Spec => []StallLength
<1>1. BInv => StallLength
  <2> SUFFICES ASSUME BInv, M!XferDone
               PROVE  cycles + 1 = IF M!Crosses THEN 2 * SlowerChannel + 5 ELSE SlowerChannel + 3
    BY DEF StallLength
  <2>1. SlowerChannel \in Nat /\ (req.op = "read" => SlowerChannel = now.ar)
    BY Slower DEF BInv, Delay
  <2>2. /\ state \in {"wresp", "read"} /\ (~M!Crosses \/ phase2)
        /\ state = "read" => stub.rvalid
    BY Answers DEF M!XferDone, M!PhaseDone
  <2>3. Elapsed = SlowerChannel + 1
    <3>1. CASE state = "wresp"
      BY <3>1 DEF BInv, Responding
    <3>2. CASE state = "read"
      BY <2>1, <2>2, <3>2 DEF BInv, Reading, Channel, Short, Delay
    <3> QED BY <2>2, <3>1, <3>2
  <2>4. phase2 <=> M!Crosses
    BY <2>2 DEF BInv
  <2> QED BY <2>1, <2>3, <2>4 DEF Elapsed, Base, BInv
<1> QED BY <1>1, BenchInvariance, PTL

-----------------------------------------------------------------------------
(* The stub is a slave of the master *)

NoWord == [l \in Lane |-> 0]
Held(aw, w, ar, bvalid, rvalid, addr, strb, data, rdata) ==
  [aw |-> aw, w |-> w, ar |-> ar, bvalid |-> bvalid, rvalid |-> rvalid,
   addr |-> addr, strb |-> strb, data |-> data, rdata |-> rdata]
SlaveOf(s) ==
  LET aw == s.aw \/ s.bvalid
      w  == s.w \/ s.bvalid
  IN  Held(aw, w, s.rvalid, s.bvalid, s.rvalid,
           IF aw THEN s.awaddr ELSE IF s.rvalid THEN s.araddr ELSE 0,
           IF w THEN s.strb ELSE {}, IF w THEN s.data ELSE NoWord,
           IF s.rvalid THEN s.rdata ELSE NoWord)

LEMMA SlaveIs == AsSlave = SlaveOf(stub) /\ AsSlave' = SlaveOf(stub')
BY Zenon DEF AsSlave, SlaveOf, Held, NoWord

LEMMA SlaveHolds ==
  ASSUME NEW s, NEW aw \in BOOLEAN, NEW w \in BOOLEAN, NEW b \in BOOLEAN, NEW r \in BOOLEAN,
         aw = (s.aw \/ s.bvalid), w = (s.w \/ s.bvalid), s.bvalid = b, s.rvalid = r
  PROVE  SlaveOf(s) = Held(aw, w, r, b, r, IF aw THEN s.awaddr ELSE IF r THEN s.araddr ELSE 0,
                           IF w THEN s.strb ELSE {}, IF w THEN s.data ELSE NoWord,
                           IF r THEN s.rdata ELSE NoWord)
BY Zenon DEF SlaveOf

LEMMA AcceptedHolds ==
  ASSUME NEW ready,
         NEW aw, NEW w, NEW ar, NEW b, NEW r, NEW addr, NEW strb, NEW data, NEW rdata,
         AsSlave = Held(aw, w, ar, b, r, addr, strb, data, rdata),
         NEW aw2, NEW w2, NEW ar2, aw2 = (aw \/ M!AwFire(ready)), w2 = (w \/ M!WFire(ready)),
         ar2 = (ar \/ M!ArFire(ready))
  PROVE  M!Accepted(ready) =
           Held(aw2, w2, ar2, b, r,
                IF M!AwFire(ready) \/ M!ArFire(ready) THEN M!Addr ELSE addr,
                IF M!WFire(ready) THEN M!Wstrb ELSE strb, IF M!WFire(ready) THEN M!Wdata ELSE data,
                rdata)
<1>1. AsSlave.aw = aw /\ AsSlave.w = w /\ AsSlave.ar = ar
      /\ AsSlave.addr = addr /\ AsSlave.strb = strb /\ AsSlave.data = data
  BY DEF Held
<1> DEFINE addr2 == IF M!AwFire(ready) \/ M!ArFire(ready) THEN M!Addr ELSE addr
           strb2 == IF M!WFire(ready) THEN M!Wstrb ELSE strb
           data2 == IF M!WFire(ready) THEN M!Wdata ELSE data
<1>2. M!Accepted(ready) = [AsSlave EXCEPT !.aw = aw2, !.w = w2, !.ar = ar2, !.addr = addr2,
                                          !.strb = strb2, !.data = data2]
  <2>1. /\ aw2 = (AsSlave.aw \/ M!AwFire(ready)) /\ w2 = (AsSlave.w \/ M!WFire(ready))
        /\ ar2 = (AsSlave.ar \/ M!ArFire(ready))
    BY <1>1
  <2>2. /\ addr2 = IF M!AwFire(ready) \/ M!ArFire(ready) THEN M!Addr ELSE AsSlave.addr
        /\ strb2 = IF M!WFire(ready) THEN M!Wstrb ELSE AsSlave.strb
        /\ data2 = IF M!WFire(ready) THEN M!Wdata ELSE AsSlave.data
    BY <1>1
  <2> HIDE DEF addr2, strb2, data2
  <2> QED BY <2>1, <2>2, Zenon DEF M!Accepted
<1> HIDE DEF addr2, strb2, data2
<1>3. M!Accepted(ready) = Held(aw2, w2, ar2, b, r, addr2, strb2, data2, rdata)
  <2>1. PICK p : p = [AsSlave EXCEPT !.aw = aw2, !.w = w2]
    OBVIOUS
  <2>2. PICK q : q = [p EXCEPT !.ar = ar2, !.addr = addr2]
    OBVIOUS
  <2>3. p = Held(aw2, w2, ar, b, r, addr, strb, data, rdata)
    BY <2>1 DEF Held
  <2>4. q = Held(aw2, w2, ar2, b, r, addr2, strb, data, rdata)
    BY <2>2, <2>3 DEF Held
  <2>5. PICK t : t = [q EXCEPT !.strb = strb2]
    OBVIOUS
  <2>6. t = Held(aw2, w2, ar2, b, r, addr2, strb2, data, rdata)
    BY <2>4, <2>5 DEF Held
  <2>7. [t EXCEPT !.data = data2] = Held(aw2, w2, ar2, b, r, addr2, strb2, data2, rdata)
    BY <2>6 DEF Held
  <2> QED BY <1>2, <2>1, <2>2, <2>5, <2>7
<1> QED BY <1>3 DEF addr2, strb2, data2

LEMMA HeldFields ==
  ASSUME NEW aw, NEW w, NEW ar, NEW b, NEW r, NEW addr, NEW strb, NEW data, NEW rdata,
         NEW s, s = Held(aw, w, ar, b, r, addr, strb, data, rdata)
  PROVE  /\ s.aw = aw /\ s.w = w /\ s.ar = ar /\ s.bvalid = b /\ s.rvalid = r
         /\ s.addr = addr /\ s.strb = strb /\ s.data = data
BY DEF Held

LEMMA WriteAnswered ==
  ASSUME NEW aw, NEW w, NEW ar, NEW b, NEW r, NEW addr, NEW strb, NEW data, NEW rdata,
         NEW s, s = Held(aw, w, ar, b, r, addr, strb, data, rdata), NEW x
  PROVE  [s EXCEPT !.bvalid = x] = Held(aw, w, ar, x, r, addr, strb, data, rdata)
BY DEF Held

\* Which channels the master may use, and where the access goes.
LEMMA MasterMoves ==
  ASSUME BInv, Cycle(ReadyChannels)
  PROVE  M!MasterEdge(ReadyChannels)
<1>1. M!MayAccept(ReadyChannels)
  <2>1. /\ AsSlave.aw <=> stub.aw \/ stub.bvalid
        /\ AsSlave.w <=> stub.w \/ stub.bvalid
        /\ AsSlave.ar <=> stub.rvalid
    BY DEF AsSlave
  <2>2. /\ AwTaken => ~stub.aw /\ ~stub.bvalid
        /\ WTaken => ~stub.w /\ ~stub.bvalid
        /\ ArTaken => ~stub.rvalid
    BY DEF BInv, Resting, Writing, Responding, Reading, NoWrite, NoRead, Channel,
           AwTaken, WTaken, ArTaken, Ready
  <2> QED BY <2>1, <2>2, ReadyWhen DEF M!MayAccept, AwTaken, WTaken, ArTaken
<1>2. M!Stage
  <2>1. CASE M!BusStall
    BY <2>1 DEF M!Stage, Cycle, Driver
  <2>2. CASE ~M!BusStall
    <3>1. /\ result' = IF req.op = "read" THEN M!MemRdata ELSE result
          /\ before' = mem
      BY <2>2 DEF Cycle, Driver
    <3>2. \/ req' = M!None /\ UNCHANGED accesses
          \/ accesses < 1000 /\ req' \in Requests /\ accesses' = accesses + 1
      BY <2>2, MovesOn, Ops DEF Cycle, BInv
    <3> QED BY <2>2, <3>1, <3>2 DEF M!Stage
  <2> QED BY <2>1, <2>2
<1> QED BY <1>1, <1>2 DEF M!MasterEdge, Cycle

LEMMA Logs ==
  ASSUME BInv, Cycle(ReadyChannels)
  PROVE  /\ mem' = IF Both
                   THEN [mem EXCEPT ![stub'.awaddr] =
                           [l \in Lane |-> IF l \in stub'.strb THEN stub'.data[l] ELSE @[l]]]
                   ELSE mem
         /\ M!Log(IF Both THEN <<[op |-> "write", word |-> stub'.awaddr]>>
                  ELSE IF ArTaken THEN <<[op |-> "read", word |-> M!Addr]>>
                  ELSE <<>>)
         /\ stub'.awaddr = IF AwTaken THEN M!Addr ELSE stub.awaddr
         /\ stub'.araddr = IF ArTaken THEN M!Addr ELSE stub.araddr
         /\ stub'.strb = IF WTaken THEN M!Wstrb ELSE stub.strb
         /\ stub'.data = IF WTaken THEN M!Wdata ELSE stub.data
         /\ stub'.rdata = IF ArTaken THEN mem[M!Addr] ELSE stub.rdata
<1>1. Whole(stub) /\ StubEdge(ReadyChannels)
  BY DEF BInv, Cycle
<1>2. (stub.bvalid => bready) /\ (stub.rvalid => rready)
  BY DEF BInv, Resting, Writing, Responding, Reading, NoRead
<1> QED BY <1>1, <1>2, StubStep

EmptySlave == Held(FALSE, FALSE, FALSE, FALSE, FALSE, 0, {}, NoWord, NoWord)

\* What the slave holds of a write whose address or data it has, and of a read.
Half(aw, w, addr, strb, data) ==
  Held(aw, w, FALSE, FALSE, FALSE, IF aw THEN addr ELSE 0, IF w THEN strb ELSE {},
       IF w THEN data ELSE NoWord, NoWord)

LEMMA SlaveForms ==
  ASSUME NEW s, {s.aw, s.w, s.bvalid, s.rvalid} \subseteq BOOLEAN
  PROVE  /\ ~s.bvalid /\ ~s.rvalid => SlaveOf(s) = Half(s.aw, s.w, s.awaddr, s.strb, s.data)
         /\ ~s.aw /\ ~s.w /\ ~s.bvalid /\ ~s.rvalid => SlaveOf(s) = EmptySlave
         /\ s.bvalid /\ ~s.rvalid =>
              SlaveOf(s) = Held(TRUE, TRUE, FALSE, TRUE, FALSE, s.awaddr, s.strb, s.data, NoWord)
         /\ ~s.aw /\ ~s.w /\ ~s.bvalid /\ s.rvalid =>
              SlaveOf(s) = Held(FALSE, FALSE, TRUE, FALSE, TRUE, s.araddr, {}, NoWord, s.rdata)
<1>1. PICK aw \in BOOLEAN, w \in BOOLEAN, b \in BOOLEAN, r \in BOOLEAN :
        aw = (s.aw \/ s.bvalid) /\ w = (s.w \/ s.bvalid) /\ s.bvalid = b /\ s.rvalid = r
  OBVIOUS
<1>2. SlaveOf(s) = Held(aw, w, r, b, r, IF aw THEN s.awaddr ELSE IF r THEN s.araddr ELSE 0,
                        IF w THEN s.strb ELSE {}, IF w THEN s.data ELSE NoWord,
                        IF r THEN s.rdata ELSE NoWord)
  BY <1>1, SlaveHolds
<1>3. CASE ~s.bvalid /\ ~s.rvalid
  <2>1. aw = s.aw /\ w = s.w /\ b = FALSE /\ r = FALSE
    BY <1>1, <1>3
  <2>2. SlaveOf(s) = Half(s.aw, s.w, s.awaddr, s.strb, s.data)
    BY <1>2, <2>1 DEF Half
  <2>3. ~s.aw /\ ~s.w => SlaveOf(s) = EmptySlave
    BY <1>2, <2>1 DEF EmptySlave
  <2> QED BY <1>3, <2>2, <2>3
<1>4. CASE s.bvalid /\ ~s.rvalid
  <2>1. aw = TRUE /\ w = TRUE /\ b = TRUE /\ r = FALSE
    BY <1>1, <1>4
  <2> QED BY <1>2, <1>4, <2>1
<1>5. CASE ~s.aw /\ ~s.w /\ ~s.bvalid /\ s.rvalid
  <2>1. aw = FALSE /\ w = FALSE /\ b = FALSE /\ r = TRUE
    BY <1>1, <1>5
  <2> QED BY <1>2, <1>5, <2>1
<1> QED BY <1>3, <1>4, <1>5

LEMMA AcceptedOfEmpty ==
  ASSUME AsSlave = EmptySlave, ~AwTaken, ~WTaken
  PROVE  /\ ~ArTaken => M!Accepted(ReadyChannels) = EmptySlave
         /\ ArTaken => M!Accepted(ReadyChannels)
                         = Held(FALSE, FALSE, TRUE, FALSE, FALSE, M!Addr, {}, NoWord, NoWord)
<1>1. PICK no, ar : no = FALSE /\ ar = (no \/ M!ArFire(ReadyChannels))
  OBVIOUS
<1>2. AsSlave = Held(no, no, no, no, no, 0, {}, NoWord, NoWord)
  BY <1>1 DEF EmptySlave
<1>3. ~M!AwFire(ReadyChannels) /\ ~M!WFire(ReadyChannels) /\ (M!ArFire(ReadyChannels) <=> ArTaken)
  BY Fires
<1>4. no = (no \/ M!AwFire(ReadyChannels)) /\ no = (no \/ M!WFire(ReadyChannels))
  BY <1>1, <1>3
<1>5. M!Accepted(ReadyChannels)
        = Held(no, no, ar, no, no,
               IF M!AwFire(ReadyChannels) \/ M!ArFire(ReadyChannels) THEN M!Addr ELSE 0,
               IF M!WFire(ReadyChannels) THEN M!Wstrb ELSE {},
               IF M!WFire(ReadyChannels) THEN M!Wdata ELSE NoWord, NoWord)
  BY <1>1, <1>2, <1>4, AcceptedHolds
<1>6. CASE ArTaken
  <2>1. ar = TRUE
    BY <1>1, <1>3, <1>6
  <2> QED BY <1>1, <1>3, <1>5, <1>6, <2>1
<1>7. CASE ~ArTaken
  <2>1. ar = FALSE
    BY <1>1, <1>3, <1>7
  <2> QED BY <1>1, <1>3, <1>5, <1>7, <2>1 DEF EmptySlave
<1> QED BY <1>6, <1>7

LEMMA RestEdge ==
  ASSUME BInv, Cycle(ReadyChannels), state = "idle"
  PROVE  M!SlaveWaits(ReadyChannels)
<1>1. Resting
  BY DEF BInv
<1>2. ~AwTaken /\ ~WTaken /\ ~ArTaken /\ ~Both
  BY <1>1 DEF Resting, NoWrite, NoRead, AwTaken, WTaken, ArTaken, Both, Ready
<1>3. AsSlave = EmptySlave /\ AsSlave' = EmptySlave
  <2>1. AsSlave = EmptySlave
    BY <1>1, SlaveForms, SlaveIs DEF BInv, Resting, NoWrite, NoRead
  <2>2. ~stub'.aw /\ ~stub'.w /\ ~stub'.bvalid /\ ~stub'.rvalid
        /\ {stub'.aw, stub'.w, stub'.bvalid, stub'.rvalid} \subseteq BOOLEAN
    BY <1>1, <1>2, Stepped DEF Resting, NoWrite
  <2>3. SlaveOf(stub') = EmptySlave
    <3>1. PICK n : n = stub'
      OBVIOUS
    <3>2. SlaveOf(n) = EmptySlave
      BY <2>2, <3>1, SlaveForms
    <3> QED BY <3>1, <3>2
  <2> QED BY <2>1, <2>3, SlaveIs
<1>4. M!Accepted(ReadyChannels) = EmptySlave
  BY <1>2, <1>3, AcceptedOfEmpty
<1>5. ~M!RespFire
  BY <1>1, Answers DEF M!RespFire, Resting, NoRead
<1> QED BY <1>2, <1>3, <1>4, <1>5, Logs DEF M!SlaveWaits

LEMMA WriteEdge ==
  ASSUME BInv, Cycle(ReadyChannels), state = "write"
  PROVE  M!SlaveWaits(ReadyChannels) \/ M!SlaveAnswersWrite(ReadyChannels)
<1>1. Writing /\ {stub.aw, stub.w, stub.bvalid, stub.rvalid} \subseteq BOOLEAN
  BY DEF BInv
<1>2. ~ArTaken /\ ~stub.bvalid /\ ~stub.rvalid
  BY <1>1 DEF Writing, NoRead, ArTaken, Ready
<1>3. PICK aw \in BOOLEAN, w \in BOOLEAN : aw = (stub.aw \/ AwTaken) /\ w = (stub.w \/ WTaken)
  OBVIOUS
<1>4. AsSlave = Half(stub.aw, stub.w, stub.awaddr, stub.strb, stub.data)
  BY <1>1, <1>2, SlaveForms, SlaveIs
<1>5. ~M!RespFire
  BY <1>2, Answers DEF M!RespFire
<1>6. PICK n : n = stub'
  OBVIOUS
<1>7. /\ {n.aw, n.w, n.bvalid, n.rvalid} \subseteq BOOLEAN /\ ~n.rvalid
      /\ n.aw <=> aw /\ ~Both
      /\ n.w <=> w /\ ~Both
      /\ n.bvalid <=> Both
      /\ Both <=> aw /\ w
      /\ n.awaddr = IF AwTaken THEN M!Addr ELSE stub.awaddr
      /\ n.strb = IF WTaken THEN M!Wstrb ELSE stub.strb
      /\ n.data = IF WTaken THEN M!Wdata ELSE stub.data
  BY <1>2, <1>3, <1>6, Stepped, Logs DEF Both
<1>8. AwTaken => ~stub.aw
  BY <1>1 DEF Writing, Channel, AwTaken, Ready
<1>9. WTaken => ~stub.w
  BY <1>1 DEF Writing, Channel, WTaken, Ready
<1>10. M!Accepted(ReadyChannels)
         = Held(aw, w, FALSE, FALSE, FALSE, IF aw THEN n.awaddr ELSE 0, IF w THEN n.strb ELSE {},
                IF w THEN n.data ELSE NoWord, NoWord)
  <2> DEFINE addr == IF stub.aw THEN stub.awaddr ELSE 0
             strb == IF stub.w THEN stub.strb ELSE {}
             data == IF stub.w THEN stub.data ELSE NoWord
             addr2 == IF AwTaken THEN M!Addr ELSE addr
             strb2 == IF WTaken THEN M!Wstrb ELSE strb
             data2 == IF WTaken THEN M!Wdata ELSE data
  <2>1. AsSlave = Held(stub.aw, stub.w, FALSE, FALSE, FALSE, addr, strb, data, NoWord)
    BY <1>4 DEF Half
  <2>2. addr2 = IF aw THEN n.awaddr ELSE 0
    BY <1>3, <1>7
  <2>3. strb2 = (IF w THEN n.strb ELSE {}) /\ data2 = IF w THEN n.data ELSE NoWord
    BY <1>3, <1>7
  <2>4. /\ aw = (stub.aw \/ M!AwFire(ReadyChannels)) /\ w = (stub.w \/ M!WFire(ReadyChannels))
        /\ FALSE = (FALSE \/ M!ArFire(ReadyChannels))
    BY <1>2, <1>3, Fires
  <2>5. /\ addr2 = IF M!AwFire(ReadyChannels) \/ M!ArFire(ReadyChannels) THEN M!Addr ELSE addr
        /\ strb2 = IF M!WFire(ReadyChannels) THEN M!Wstrb ELSE strb
        /\ data2 = IF M!WFire(ReadyChannels) THEN M!Wdata ELSE data
    BY <1>2, Fires
  <2> HIDE DEF addr, strb, data, addr2, strb2, data2
  <2>6. M!Accepted(ReadyChannels) = Held(aw, w, FALSE, FALSE, FALSE, addr2, strb2, data2, NoWord)
    <3>1. PICK no, had, got : no = FALSE /\ had = stub.aw /\ got = stub.w
      OBVIOUS
    <3>2. AsSlave = Held(had, got, no, no, no, addr, strb, data, NoWord)
      BY <2>1, <3>1
    <3>3. /\ aw = (had \/ M!AwFire(ReadyChannels)) /\ w = (got \/ M!WFire(ReadyChannels))
          /\ no = (no \/ M!ArFire(ReadyChannels))
      BY <2>4, <3>1
    <3>4. M!Accepted(ReadyChannels) = Held(aw, w, no, no, no, addr2, strb2, data2, NoWord)
      BY <2>5, <3>2, <3>3, AcceptedHolds
    <3> QED BY <3>1, <3>4
  <2> QED BY <2>2, <2>3, <2>6
<1>11. CASE ~Both
  <2>1. SlaveOf(n) = Half(n.aw, n.w, n.awaddr, n.strb, n.data)
    BY <1>7, <1>11, SlaveForms
  <2>2. n.aw = aw /\ n.w = w
    BY <1>7, <1>11
  <2>3. AsSlave' = M!Accepted(ReadyChannels)
    BY <1>6, <1>10, <2>1, <2>2, SlaveIs DEF Half
  <2>4. mem' = mem /\ M!Log(<<>>)
    BY <1>2, <1>11, Logs
  <2> QED BY <1>5, <2>3, <2>4 DEF M!SlaveWaits
<1>12. CASE Both
  <2>1. aw = TRUE /\ w = TRUE
    BY <1>7, <1>12
  <2>2. PICK s : s = M!Accepted(ReadyChannels)
    OBVIOUS
  <2>3. s = Held(TRUE, TRUE, FALSE, FALSE, FALSE, n.awaddr, n.strb, n.data, NoWord)
    BY <1>10, <2>1, <2>2
  <2>4. SlaveOf(n) = Held(TRUE, TRUE, FALSE, TRUE, FALSE, n.awaddr, n.strb, n.data, NoWord)
    BY <1>7, <1>12, SlaveForms
  <2>5. /\ s.aw = TRUE /\ s.w = TRUE /\ s.bvalid = FALSE
        /\ s.addr = n.awaddr /\ s.strb = n.strb /\ s.data = n.data
        /\ [s EXCEPT !.bvalid = TRUE]
             = Held(TRUE, TRUE, FALSE, TRUE, FALSE, n.awaddr, n.strb, n.data, NoWord)
    <3>1. PICK no, yes : no = FALSE /\ yes = TRUE
      OBVIOUS
    <3>2. s = Held(yes, yes, no, no, no, n.awaddr, n.strb, n.data, NoWord)
      BY <2>3, <3>1
    <3>3. /\ s.aw = yes /\ s.w = yes /\ s.bvalid = no
          /\ s.addr = n.awaddr /\ s.strb = n.strb /\ s.data = n.data
      BY <3>2, HeldFields
    <3>4. [s EXCEPT !.bvalid = yes] = Held(yes, yes, no, yes, no, n.awaddr, n.strb, n.data, NoWord)
      BY <3>2, WriteAnswered
    <3> QED BY <3>1, <3>3, <3>4
  <2>6. AsSlave' = [s EXCEPT !.bvalid = TRUE]
    BY <1>6, <2>4, <2>5, SlaveIs
  <2>7. mem' = M!Written(s)
    BY <1>6, <1>12, <2>5, Logs DEF M!Written, Lane, M!Lane
  <2>8. M!Log(<<[op |-> "write", word |-> s.addr]>>)
    BY <1>6, <1>12, <2>5, Logs
  <2> QED BY <2>2, <2>5, <2>6, <2>7, <2>8 DEF M!SlaveAnswersWrite
<1> QED BY <1>11, <1>12

LEMMA ResponseEdge ==
  ASSUME BInv, Cycle(ReadyChannels), state = "wresp" \/ (state = "read" /\ stub.rvalid)
  PROVE  M!SlaveDone(ReadyChannels)
<1>1. ~AwTaken /\ ~WTaken /\ ~ArTaken /\ ~Both /\ ~stub.aw /\ ~stub.w
  BY DEF BInv, Responding, Reading, NoWrite, NoRead, Channel, AwTaken, WTaken, ArTaken, Both, Ready
<1>2. ReadyChannels = {}
  BY <1>1, ReadyWhen DEF AwTaken, WTaken, ArTaken
<1>3. M!RespFire
  BY Answers DEF M!RespFire, BInv, Responding, Reading
<1>4. AsSlave' = EmptySlave
  <2>1. PICK n : n = stub'
    OBVIOUS
  <2>2. ~n.aw /\ ~n.w /\ ~n.bvalid /\ ~n.rvalid
        /\ {n.aw, n.w, n.bvalid, n.rvalid} \subseteq BOOLEAN
    BY <1>1, <2>1, Stepped
  <2>3. SlaveOf(n) = EmptySlave
    BY <2>2, SlaveForms
  <2> QED BY <2>1, <2>3, SlaveIs
<1>5. M!Free = EmptySlave
  BY DEF M!Free, EmptySlave, Held, NoWord, Lane, M!Lane
<1>6. mem' = mem /\ M!Log(<<>>)
  BY <1>1, Logs
<1> QED BY <1>2, <1>3, <1>4, <1>5, <1>6 DEF M!SlaveDone

LEMMA ReadEdge ==
  ASSUME BInv, Cycle(ReadyChannels), state = "read", ~stub.rvalid
  PROVE  M!SlaveWaits(ReadyChannels) \/ M!SlaveAnswersRead(ReadyChannels)
<1>1. Reading /\ {stub.aw, stub.w, stub.bvalid, stub.rvalid} \subseteq BOOLEAN
  BY DEF BInv
<1>2. ~AwTaken /\ ~WTaken /\ ~Both /\ ~stub.aw /\ ~stub.w /\ ~stub.bvalid
  BY <1>1 DEF Reading, NoWrite, AwTaken, WTaken, Both, Ready
<1>3. AsSlave = EmptySlave
  BY <1>1, <1>2, SlaveForms, SlaveIs
<1>4. ~M!RespFire
  BY <1>2, Answers DEF M!RespFire
<1>5. PICK n : n = stub'
  OBVIOUS
<1>6. /\ {n.aw, n.w, n.bvalid, n.rvalid} \subseteq BOOLEAN
      /\ ~n.aw /\ ~n.w /\ ~n.bvalid
      /\ n.rvalid <=> ArTaken
      /\ n.araddr = IF ArTaken THEN M!Addr ELSE stub.araddr
      /\ n.rdata = IF ArTaken THEN mem[M!Addr] ELSE stub.rdata
  BY <1>2, <1>5, Stepped, Logs
<1>7. ~M!AwFire(ReadyChannels) /\ ~M!WFire(ReadyChannels)
      /\ (M!ArFire(ReadyChannels) <=> ArTaken)
  BY <1>2, Fires
<1>8. CASE ~ArTaken
  <2>1. M!Accepted(ReadyChannels) = EmptySlave
    BY <1>2, <1>3, <1>8, AcceptedOfEmpty
  <2>2. SlaveOf(n) = EmptySlave
    BY <1>6, <1>8, SlaveForms
  <2>3. mem' = mem /\ M!Log(<<>>)
    BY <1>2, <1>8, Logs
  <2> QED BY <1>4, <1>5, <2>1, <2>2, <2>3, SlaveIs DEF M!SlaveWaits
<1>9. CASE ArTaken
  <2>1. PICK s : s = M!Accepted(ReadyChannels)
    OBVIOUS
  <2>2. s = Held(FALSE, FALSE, TRUE, FALSE, FALSE, M!Addr, {}, NoWord, NoWord)
    BY <1>2, <1>3, <1>9, <2>1, AcceptedOfEmpty
  <2>3. SlaveOf(n) = Held(FALSE, FALSE, TRUE, FALSE, TRUE, M!Addr, {}, NoWord, mem[M!Addr])
    BY <1>6, <1>9, SlaveForms
  <2>4. PICK d : d = mem[M!Addr]
    OBVIOUS
  <2>5. /\ s.ar = TRUE /\ s.rvalid = FALSE /\ s.addr = M!Addr
        /\ [s EXCEPT !.rvalid = TRUE, !.rdata = d]
             = Held(FALSE, FALSE, TRUE, FALSE, TRUE, M!Addr, {}, NoWord, d)
    <3>1. PICK no, yes : no = FALSE /\ yes = TRUE
      OBVIOUS
    <3>2. s = Held(no, no, yes, no, no, M!Addr, {}, NoWord, NoWord)
      BY <2>2, <3>1
    <3>3. s.ar = yes /\ s.rvalid = no /\ s.addr = M!Addr
      BY <3>2, HeldFields
    <3>4. [s EXCEPT !.rvalid = yes, !.rdata = d] = Held(no, no, yes, no, yes, M!Addr, {}, NoWord, d)
      <4>1. PICK q : q = [s EXCEPT !.rvalid = yes]
        OBVIOUS
      <4>2. q = Held(no, no, yes, no, yes, M!Addr, {}, NoWord, NoWord)
        BY <3>2, <4>1 DEF Held
      <4>3. [q EXCEPT !.rdata = d] = Held(no, no, yes, no, yes, M!Addr, {}, NoWord, d)
        BY <4>2 DEF Held
      <4> QED BY <4>1, <4>3
    <3> QED BY <3>1, <3>3, <3>4
  <2>6. AsSlave' = [s EXCEPT !.rvalid = TRUE, !.rdata = mem[s.addr]]
    BY <1>5, <2>3, <2>4, <2>5, SlaveIs
  <2>7. mem' = mem /\ M!Log(<<[op |-> "read", word |-> s.addr]>>)
    BY <1>2, <1>9, <2>5, Logs
  <2> QED BY <2>1, <2>5, <2>6, <2>7 DEF M!SlaveAnswersRead
<1> QED BY <1>8, <1>9

\* One call of cycle() is one edge of the bus master and a slave.
LEMMA CycleIsEdge ==
  ASSUME BInv, Cycle(ReadyChannels)
  PROVE  M!Edge(ReadyChannels) /\ ReadyChannels \in SUBSET M!Channels
<1>1. ReadyChannels \in SUBSET M!Channels
  BY ReadyWhen DEF M!Channels
<1>2. state \in {"idle", "write", "wresp", "read"}
  BY DEF BInv
<1> QED BY <1>1, <1>2, MasterMoves, RestEdge, WriteEdge, ResponseEdge, ReadEdge DEF M!Edge

\* The stub obeys the protocol and the driver holds each access through its
\* stall, so that what the bench shows of the master is what it does with such a
\* slave (tb_axil_master.cpp:57-171).
THEOREM StubObeys == Spec => StubIsASlave
<1>1. BInv /\ [Next]_vars => [M!Next]_(M!vars)
  <2> SUFFICES ASSUME BInv, [Next]_vars PROVE [M!Next]_(M!vars)
    OBVIOUS
  <2>1. CASE Next
    <3>1. \E ready \in SUBSET M!Channels : M!Edge(ready)
      BY <2>1, CycleIsEdge DEF Next
    <3> QED BY <3>1 DEF M!Next
  <2>2. CASE UNCHANGED vars
    <3>1. AsSlave' = AsSlave
      BY <2>2, SlaveIs DEF vars
    <3> QED BY <2>2, <3>1 DEF vars, M!vars
  <2> QED BY <2>1, <2>2
<1> QED BY <1>1, BenchInvariance, PTL DEF Spec, StubIsASlave

-----------------------------------------------------------------------------
(* What the driver sees of the master, by the master's own proofs *)

AP == INSTANCE AxilProofs WITH
  slave <- AsSlave, resets <- 0, MaxResets <- 0, MaxAccesses <- 1000,
  MemInit <- [w \in WordAddr |-> [l \in Lane |-> 0]]

LEMMA SameWires ==
  /\ AP!Addr = M!Addr /\ AP!Wstrb = M!Wstrb /\ AP!Wdata = M!Wdata
  /\ AP!Crosses = M!Crosses
<1>1. AP!Crosses = M!Crosses
  BY DEF AP!Crosses, M!Crosses, AP!IsWord, M!IsWord, AP!IsHalf, M!IsHalf
<1>2. AP!Addr = M!Addr
  BY DEF AP!Addr, M!Addr, AP!AddrLo, M!AddrLo, AP!AddrHi, M!AddrHi
<1>3. AP!ByteEn = M!ByteEn /\ AP!Lane = M!Lane
  BY DEF AP!ByteEn, M!ByteEn, AP!Width, M!Width, AP!Lane, M!Lane
<1>4. AP!Wstrb = M!Wstrb
  BY <1>3 DEF AP!Wstrb, M!Wstrb, AP!StrbLo, M!StrbLo, AP!StrbHi, M!StrbHi
<1>5. AP!Wdata = M!Wdata
  BY <1>3 DEF AP!Wdata, M!Wdata, AP!DataLo, M!DataLo, AP!DataHi, M!DataHi, AP!Shifted, M!Shifted
<1> QED BY <1>1, <1>2, <1>4, <1>5

LEMMA SameReadData == AP!MemRdata = M!MemRdata
<1>1. AP!Crosses = M!Crosses /\ AP!Lane = M!Lane
  BY SameWires DEF AP!Lane, M!Lane
<1>2. AP!Combined = M!Combined
  BY <1>1 DEF AP!Combined, M!Combined
<1>3. AP!Down = M!Down
  BY <1>1, <1>2 DEF AP!Down, M!Down
<1> QED BY <1>1, <1>3 DEF AP!MemRdata, M!MemRdata, AP!SignFill, M!SignFill

LEMMA SameStall == AP!BusStall = M!BusStall /\ AP!None = M!None /\ AP!Free = M!Free
<1>1. AP!None = M!None /\ AP!Free = M!Free
  BY DEF AP!None, M!None, AP!Free, M!Free, AP!Lane, M!Lane
<1> QED BY <1>1, SameWires DEF AP!BusStall, M!BusStall, AP!XferDone, M!XferDone,
                               AP!PhaseDone, M!PhaseDone

LEMMA SameSlave ==
  ASSUME NEW ready
  PROVE  /\ AP!Accepted(ready) = M!Accepted(ready)
         /\ AP!AwFire(ready) = M!AwFire(ready) /\ AP!WFire(ready) = M!WFire(ready)
         /\ AP!ArFire(ready) = M!ArFire(ready) /\ AP!RespFire = M!RespFire
         /\ AP!MayAccept(ready) = M!MayAccept(ready)
<1>1. /\ AP!AwFire(ready) = M!AwFire(ready) /\ AP!WFire(ready) = M!WFire(ready)
      /\ AP!ArFire(ready) = M!ArFire(ready) /\ AP!RespFire = M!RespFire
      /\ AP!MayAccept(ready) = M!MayAccept(ready)
  BY DEF AP!AwFire, M!AwFire, AP!WFire, M!WFire, AP!ArFire, M!ArFire, AP!RespFire, M!RespFire,
         AP!MayAccept, M!MayAccept
<1> QED BY <1>1, SameWires DEF AP!Accepted, M!Accepted

LEMMA SameEdge ==
  ASSUME NEW ready, M!Edge(ready)
  PROVE  AP!Edge(ready)
<1>1. AP!Lane = M!Lane
  BY DEF AP!Lane, M!Lane
<1>2. \A e : AP!Log(e) <=> M!Log(e)
  BY SameStall DEF AP!Log, M!Log
<1>3. \A s : AP!Written(s) = M!Written(s)
  BY <1>1 DEF AP!Written, M!Written
<1>4. M!SlaveWaits(ready) => AP!SlaveWaits(ready)
  BY <1>2, SameSlave DEF AP!SlaveWaits, M!SlaveWaits
<1>5. M!SlaveAnswersWrite(ready) => AP!SlaveAnswersWrite(ready)
  BY <1>2, <1>3, SameSlave DEF AP!SlaveAnswersWrite, M!SlaveAnswersWrite
<1>6. M!SlaveAnswersRead(ready) => AP!SlaveAnswersRead(ready)
  BY <1>2, SameSlave DEF AP!SlaveAnswersRead, M!SlaveAnswersRead
<1>7. M!SlaveDone(ready) => AP!SlaveDone(ready)
  BY <1>2, SameSlave, SameStall DEF AP!SlaveDone, M!SlaveDone
<1>8. M!Idle => AP!Idle
  BY DEF AP!Idle, M!Idle
<1>9. M!Write(ready) => AP!Write(ready)
  BY SameSlave DEF AP!Write, M!Write
<1>10. M!WResp => AP!WResp
  BY SameWires DEF AP!WResp, M!WResp, AP!master, M!master
<1>11. M!Read(ready) => AP!Read(ready)
  BY SameSlave, SameWires DEF AP!Read, M!Read
<1>12. M!Stage => AP!Stage
  BY SameStall, SameReadData DEF AP!Stage, M!Stage
<1>13. AP!MasterEdge(ready)
  BY <1>8, <1>9, <1>10, <1>11, <1>12, SameSlave DEF AP!MasterEdge, M!MasterEdge, M!Edge
<1> QED BY <1>4, <1>5, <1>6, <1>7, <1>13 DEF M!Edge, AP!Edge

\* The constants are such as the bus master's proofs assume.
LEMMA PortAssumed ==
  /\ NWords \in Nat \ {0, 1}
  /\ Requests \subseteq AP!Access
  /\ [w \in WordAddr |-> [l \in Lane |-> 0]] \in [AP!WordAddr -> AP!Bytes]
  /\ 1000 \in Nat /\ 0 \in Nat
<1>1. AP!WordAddr = WordAddr /\ AP!Lane = Lane /\ AP!Byte = Byte /\ 0 \in Byte
  BY DEF AP!WordAddr, WordAddr, AP!Lane, Lane, AP!Byte, Byte
<1>2. AP!Access = Access
  BY <1>1 DEF AP!Access, Access, AP!Bytes, Bytes
<1>3. [w \in WordAddr |-> [l \in Lane |-> 0]] \in [AP!WordAddr -> AP!Bytes]
  BY <1>1 DEF AP!Bytes
<1> QED BY <1>2, <1>3, MemAccessAssumption, RequestsAssumption

LEMMA DrawnTyped ==
  ASSUME NEW a \in Byte, NEW b \in Byte, NEW c \in Byte, NEW d \in Byte
  PROVE  D(a, b, c, d) \in [Lane -> Byte]
<1>1. \A l \in Lane : l + 1 \in 1 .. 4
  BY DEF Lane
<1>2. <<d, c, b, a>> \in [1 .. 4 -> Byte]
  OBVIOUS
<1> QED BY <1>1, <1>2 DEF D

LEMMA MemoriesTyped ==
  Init => mem \in [WordAddr -> [Lane -> Byte]]
<1> SUFFICES ASSUME Init PROVE mem \in [WordAddr -> [Lane -> Byte]]
  OBVIOUS
<1>1. 0 \in Byte /\ Zero \in [Lane -> Byte]
  <2>1. 0 \in Byte
    BY DEF Byte
  <2> QED BY <2>1, DrawnTyped DEF Zero
<1>2. FilledMemory \in [WordAddr -> [Lane -> Byte]]
  <2>1. D(17, 34, 51, 68) \in [Lane -> Byte]
    BY SMT DEF D, Lane, Byte
  <2>2. D(85, 102, 119, 136) \in [Lane -> Byte]
    BY SMT DEF D, Lane, Byte
  <2>3. D(0, 0, 0, 255) \in [Lane -> Byte]
    BY SMT DEF D, Lane, Byte
  <2>4. PICK x, y, z : /\ x = D(17, 34, 51, 68) /\ y = D(85, 102, 119, 136)
                       /\ z = D(0, 0, 0, 255)
    OBVIOUS
  <2>5. FilledMemory = [w \in WordAddr |->
                          IF w \in 2 .. 7 THEN (IF w % 2 = 0 THEN x ELSE y)
                          ELSE IF w = 1 THEN z ELSE Zero]
    BY <2>4, SMT DEF FilledMemory
  <2>6. {x, y, z, Zero} \subseteq [Lane -> Byte]
    BY <1>1, <2>1, <2>2, <2>3, <2>4, SMT
  <2> QED BY <2>5, <2>6, Zenon
<1>3. Leftover \in [WordAddr -> [Lane -> Byte]]
  <2>1. D(1, 130, 3, 132) \in [Lane -> Byte]
    BY SMT DEF D, Lane, Byte
  <2>2. D(133, 6, 135, 8) \in [Lane -> Byte]
    BY SMT DEF D, Lane, Byte
  <2>3. PICK x, y : x = D(1, 130, 3, 132) /\ y = D(133, 6, 135, 8)
    OBVIOUS
  <2>4. Leftover = [w \in WordAddr |-> IF w = 0 THEN x ELSE IF w = 1 THEN y ELSE Zero]
    BY <2>3, SMT DEF Leftover
  <2>5. {x, y, Zero} \subseteq [Lane -> Byte]
    BY <1>1, <2>1, <2>2, <2>3, SMT
  <2> QED BY <2>4, <2>5, Zenon
<1>4. [w \in WordAddr |-> Zero] \in [WordAddr -> [Lane -> Byte]]
  BY <1>1
<1> QED BY <1>2, <1>3, <1>4, Zenon DEF Init

\* The random tests' model is memory as it was when the access began, and nothing
\* has disagreed with it.
Modelled == bench = "random" =>
              shadow = before /\ fails = 0 /\ now.after = {} /\ now.loaded = {}

LEMMA ModelStarts == Init => AP!DInv /\ Modelled
<1> SUFFICES ASSUME Init PROVE AP!DInv /\ Modelled
  OBVIOUS
<1>1. AsSlave = M!Free
  <2>1. AsSlave = EmptySlave
    BY SlaveForms, SlaveIs DEF Init, StubReset
  <2> QED BY <2>1 DEF M!Free, EmptySlave, Held, NoWord, Lane, M!Lane
<1>2. AP!WordAddr = WordAddr /\ AP!Lane = Lane /\ AP!Byte = Byte /\ AP!Word = [Lane -> Byte]
  BY DEF AP!WordAddr, WordAddr, AP!Lane, Lane, AP!Byte, Byte, AP!Word
<1>3. mem \in [AP!WordAddr -> AP!Word]
  BY <1>2, MemoriesTyped
<1>4. Zero \in AP!Word
  <2>1. 0 \in Byte
    BY DEF Byte
  <2> QED BY <1>2, <2>1, DrawnTyped DEF Zero
<1>5. req \in Requests \cup {AP!None}
  BY SameStall, Ops DEF Init
<1>6. AsSlave \in AP!SlaveType
  BY <1>1, SameStall, PortAssumed, AP!FreeType
<1>7. AP!TypeOK
  BY <1>3, <1>4, <1>5, <1>6 DEF AP!TypeOK, AP!SlaveType, AP!States, Init
<1>8. AP!AtStart
  BY <1>1, <1>7, SameStall DEF AP!AtStart, Init
<1>9. AP!DInv
  BY <1>8, PortAssumed, AP!StartsAnywhere
<1>10. Modelled
  BY DEF Init, Modelled, NoAccess
<1> QED BY <1>9, <1>10

LEMMA ModelStep ==
  ASSUME BInv, AP!DInv, Modelled, Cycle(ReadyChannels)
  PROVE  AP!DInv' /\ Modelled'
<1>1. M!Edge(ReadyChannels) /\ ReadyChannels \in SUBSET M!Channels
  BY CycleIsEdge
<1>2. AP!Edge(ReadyChannels) /\ ReadyChannels \in SUBSET AP!Channels
  BY <1>1, SameEdge DEF M!Channels, AP!Channels
<1>3. AP!DInv'
  BY <1>2, PortAssumed, AP!EachStepKeepsData DEF AP!Next
<1>4. ASSUME bench = "random"
      PROVE  shadow' = before' /\ fails' = 0 /\ now'.after = {} /\ now'.loaded = {}
  <2>1. shadow = before /\ fails = 0 /\ now.after = {} /\ now.loaded = {}
    BY <1>4 DEF Modelled
  <2>2. CASE M!BusStall
    <3>1. UNCHANGED <<now, before, shadow, fails>>
      BY <2>2 DEF Cycle, Driver
    <3> QED BY <2>1, <3>1
  <2>3. CASE ~M!BusStall
    <3>1. /\ now' \in NextAccess
          /\ result' = IF req.op = "read" THEN M!MemRdata ELSE result
          /\ shadow' = IF req.op = "write" THEN Stored(shadow, req) ELSE shadow
          /\ fails' = fails + Wrong
      BY <1>4, <2>3 DEF Cycle, Driver
    <3>2. now'.after = {} /\ now'.loaded = {}
      <4>1. PICK a : a = now'
        OBVIOUS
      <4>2. a.after = {} /\ a.loaded = {}
        BY <1>4, <3>1, <4>1, NextIsShort DEF BInv
      <4> QED BY <4>1, <4>2
    <3>3. \/ req = AP!None /\ before' = before
          \/ req.op = "read" /\ before' = before /\ result' = AP!Loaded(before, req)
          \/ req.op = "write" /\ before' = AP!Stored(before, req)
      <4>1. ~AP!BusStall
        BY <2>3, SameStall
      <4> QED BY <1>2, <4>1, PortAssumed, AP!AccessEnds
    <3>4. /\ AP!Loaded(before, req) = Loaded(before, req)
          /\ AP!Stored(before, req) = Stored(before, req)
      BY DEF AP!Stored, Stored, AP!Loaded, Loaded, AP!Width, Width, AP!WordOf, WordOf,
             AP!LaneOf, LaneOf, AP!WordAddr, WordAddr, AP!Lane, Lane,
             AP!ReadBytes, ReadBytes, AP!Fill, Fill
    <3>5. AP!None.op = "none"
      BY SameStall DEF M!None
    <3>6. req.op = "read" => M!MemRdata = Loaded(shadow, req)
      BY <2>1, <3>1, <3>3, <3>4, <3>5
    <3>7. shadow' = before'
      BY <2>1, <3>1, <3>3, <3>4, <3>5
    <3>8. Wrong = 0
      <4>1. Cardinality({f \in now.after : mem[f[1]][f[2]] # f[3]}) = 0
        BY <2>1, FS_EmptySet
      <4> QED BY <2>1, <3>6, <4>1 DEF Wrong
    <3> QED BY <2>1, <3>1, <3>2, <3>7, <3>8
  <2> QED BY <2>2, <2>3
<1>5. bench' = bench
  BY DEF Cycle
<1> QED BY <1>3, <1>4, <1>5 DEF Modelled

\* No random test disagrees with the testbench's model of memory: a store and a
\* load of any width at any offset, drawn with any delays, over any of the
\* memories they may find (tb_axil_master.cpp:243-262, 341-382).
THEOREM RandomAgrees == Spec => [](bench = "random" => MemoryAgrees)
<1>1. Init => AP!DInv /\ Modelled
  BY ModelStarts
<1>2. BInv /\ AP!DInv /\ Modelled /\ [Next]_vars => (AP!DInv /\ Modelled)'
  <2> SUFFICES ASSUME BInv, AP!DInv, Modelled, [Next]_vars PROVE AP!DInv' /\ Modelled'
    OBVIOUS
  <2>1. CASE Next
    BY <2>1, ModelStep DEF Next
  <2>2. CASE UNCHANGED vars
    <3>1. AsSlave' = AsSlave
      BY <2>2, SlaveIs DEF vars
    <3>2. UNCHANGED AP!vars
      BY <2>2, <3>1 DEF vars, AP!vars
    <3>3. AP!DInv'
      BY <3>2, PortAssumed, AP!EachStepKeepsData
    <3>4. Modelled'
      BY <2>2 DEF Modelled, vars
    <3> QED BY <3>3, <3>4
  <2> QED BY <2>1, <2>2
<1>3. Modelled => (bench = "random" => MemoryAgrees)
  BY DEF Modelled, MemoryAgrees
<1> QED BY <1>1, <1>2, <1>3, BenchInvariance, PTL DEF Spec
=============================================================================
