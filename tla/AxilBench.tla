------------------------------ MODULE AxilBench -----------------------------
(***************************************************************************)
(* tb_axil_master.cpp: the bus master between a driver that presents       *)
(* accesses back to back and a stub slave that delays each channel.  The   *)
(* master is AxilMaster's state machine; a step is one call of cycle().    *)
(* The directed tests are scripts; the random ones a draw for each access. *)
(* Byte addresses are kept up to 68 and moved down to words 2 to 7 in      *)
(* tests 9 to 11.                                                          *)
(***************************************************************************)
EXTENDS MemAccess, SequencesExt

VARIABLES
  bench,        \* which part of the testbench
  now,          \* the access the driver presents, its delays and its checks
  stub,         \* the counters and registers of the slave
  cycles,       \* cycles of this access so far: n, stall_cycles
  shadow,       \* the random tests' model of memory
  fails,
  mem, req, result, state, awvalid, wvalid, bready, arvalid, rready,
  awDone, wDone, phase2, wordLo, accesses, log, before
vars == <<bench, now, stub, cycles, shadow, fails, mem, req, result, state, awvalid, wvalid,
          bready, arvalid, rready, awDone, wDone, phase2, wordLo, accesses, log, before>>

-----------------------------------------------------------------------------
(* The stub slave, seen from the master *)

StubReset == [awctr |-> -1, wctr |-> -1, arctr |-> -1, aw |-> FALSE, w |-> FALSE,
              bvalid |-> FALSE, rvalid |-> FALSE, awaddr |-> 0, araddr |-> 0, strb |-> {},
              data |-> [l \in Lane |-> 0], rdata |-> [l \in Lane |-> 0]]

\* As a slave of AxilMaster: what it has accepted of the transaction under way.
AsSlave ==
  LET aw == stub.aw \/ stub.bvalid
      w  == stub.w \/ stub.bvalid
      zero == [l \in Lane |-> 0]
  IN  [aw |-> aw, w |-> w, ar |-> stub.rvalid, bvalid |-> stub.bvalid, rvalid |-> stub.rvalid,
       addr |-> IF aw THEN stub.awaddr ELSE IF stub.rvalid THEN stub.araddr ELSE 0,
       strb |-> IF w THEN stub.strb ELSE {}, data |-> IF w THEN stub.data ELSE zero,
       rdata |-> IF stub.rvalid THEN stub.rdata ELSE zero]

M == INSTANCE AxilMaster WITH
  slave <- AsSlave, resets <- 0, MaxResets <- 0, MaxAccesses <- 1000,
  MemInit <- [w \in WordAddr |-> [l \in Lane |-> 0]]

\* DelayCounter.  Variant: a cycle more.
Timed_OneMore(ctr, delay) == IF ctr < 0 THEN delay + 1 ELSE ctr
Timed(ctr, delay)        == IF ctr < 0 THEN delay ELSE ctr
Ready(valid, ctr, delay) == valid /\ Timed(ctr, delay) = 0
Advance(valid, ctr, delay) ==
  IF valid /\ ~Ready(valid, ctr, delay) THEN Timed(ctr, delay) - 1 ELSE -1

ReadyChannels == {c \in {"aw", "w", "ar"} :
  CASE c = "aw" -> Ready(awvalid, stub.awctr, now.aw)
    [] c = "w"  -> Ready(wvalid, stub.wctr, now.w)
    [] c = "ar" -> Ready(arvalid, stub.arctr, now.ar)}

\* drive, up to the handshakes.
Captured(ready) ==
  [stub EXCEPT !.awctr = Advance(awvalid, @, now.aw), !.wctr = Advance(wvalid, @, now.w),
               !.arctr = Advance(arvalid, @, now.ar),
               !.aw = @ \/ M!AwFire(ready), !.w = @ \/ M!WFire(ready),
               !.awaddr = IF M!AwFire(ready) THEN M!Addr ELSE @,
               !.araddr = IF M!ArFire(ready) THEN M!Addr ELSE @,
               !.strb = IF M!WFire(ready) THEN M!Wstrb ELSE @,
               !.data = IF M!WFire(ready) THEN M!Wdata ELSE @,
               !.bvalid = @ /\ ~bready, !.rvalid = @ /\ ~rready]
\* update: a write is answered when both halves are there, a read at once.
Writes(s)       == ~s.bvalid /\ s.aw /\ s.w
ReadsNow(s, ready) == ~s.rvalid /\ M!ArFire(ready)
\* Variant: what was captured is kept for the next write.
Updated_KeepsCapture(s, ready) ==
  [s EXCEPT !.bvalid = @ \/ Writes(s),
            !.rvalid = @ \/ M!ArFire(ready),
            !.rdata = IF ReadsNow(s, ready) THEN mem[s.araddr] ELSE @]
Updated(s, ready) ==
  [s EXCEPT !.bvalid = @ \/ Writes(s), !.aw = @ /\ ~Writes(s), !.w = @ /\ ~Writes(s),
            !.rvalid = @ \/ M!ArFire(ready),
            !.rdata = IF ReadsNow(s, ready) THEN mem[s.araddr] ELSE @]

StubEdge(ready) ==
  LET s == Captured(ready)
  IN  /\ stub' = Updated(s, ready)
      /\ mem' = IF Writes(s)
                THEN [mem EXCEPT ![s.awaddr] = [l \in Lane |-> IF l \in s.strb THEN s.data[l] ELSE @[l]]]
                ELSE mem
      /\ M!Log(IF Writes(s) THEN <<[op |-> "write", word |-> s.awaddr]>>
               ELSE IF ReadsNow(s, ready) THEN <<[op |-> "read", word |-> s.araddr]>>
               ELSE <<>>)

-----------------------------------------------------------------------------
(* The tests.  after is what memory must hold when the access is over, byte *)
(* by byte; loaded what a load may return.                                  *)

B == 0          \* funct3
Hf == 1
W == 2
Bu == 4
Hu == 5
D(a, b, c, d) == [l \in Lane |-> <<d, c, b, a>>[l + 1]]      \* as a literal is written
Zero == D(0, 0, 0, 0)

DoStore(word, lane, f3, v, aw, w, after) ==
  [req |-> [op |-> "write", word |-> word, lane |-> lane, funct3 |-> f3, data |-> v],
   aw |-> aw, w |-> w, ar |-> 0, after |-> after, loaded |-> {}]
DoLoad(word, lane, f3, ar, values) ==
  [req |-> [op |-> "read", word |-> word, lane |-> lane, funct3 |-> f3, data |-> Zero],
   aw |-> 0, w |-> 0, ar |-> ar, after |-> {}, loaded |-> values]
NoAccess == [req |-> None, aw |-> 0, w |-> 0, ar |-> 0, after |-> {}, loaded |-> {}]
Holds(word, v)      == {<<word, l, v[l]>> : l \in Lane}
HoldsAt(word, lane, v, n) ==
  {<<word + (lane + k) \div 4, (lane + k) % 4, v[k]>> : k \in 0 .. n - 1}
Stores(word, lane, f3, v, after) == DoStore(word, lane, f3, v, 0, 0, Holds(word, after))
Loads(word, lane, f3, v) == DoLoad(word, lane, f3, 0, {v})
Clear(word) == DoStore(word, 0, W, Zero, 0, 0, {})

LaneTests ==            \* 1 to 4
  LET dead == D(222, 173, 190, 239)
      w4   == D(17, 34, 51, 68)
      mix  == D(128, 68, 34, 17)
      half == D(128, 0, 127, 255)
  IN  << Stores(0, 0, W, dead, dead), Clear(4),
         Stores(4, 0, B, D(0, 0, 0, 170), D(0, 0, 0, 170)),
         Stores(4, 1, B, D(0, 0, 0, 187), D(0, 0, 187, 170)),
         Stores(4, 2, B, D(0, 0, 0, 204), D(0, 204, 187, 170)),
         Stores(4, 3, B, D(0, 0, 0, 221), D(221, 204, 187, 170)),
         Clear(6), Stores(6, 0, Hf, D(0, 0, 18, 52), D(0, 0, 18, 52)),
         Stores(6, 2, Hf, D(0, 0, 86, 120), D(86, 120, 18, 52)),
         Stores(8, 0, W, w4, w4), Loads(8, 0, W, w4), Stores(10, 0, W, mix, mix),
         Loads(10, 0, Bu, D(0, 0, 0, 17)), Loads(10, 1, Bu, D(0, 0, 0, 34)),
         Loads(10, 2, Bu, D(0, 0, 0, 68)), Loads(10, 3, Bu, D(0, 0, 0, 128)),
         Loads(10, 0, B, D(0, 0, 0, 17)), Loads(10, 3, B, D(255, 255, 255, 128)),
         Stores(11, 0, W, half, half),
         Loads(11, 0, Hu, D(0, 0, 127, 255)), Loads(11, 2, Hu, D(0, 0, 128, 0)),
         Loads(11, 0, Hf, D(0, 0, 127, 255)), Loads(11, 2, Hf, D(255, 255, 128, 0)) >>

All(b) == D(b, b, b, b)
OrderTests ==           \* 5 to 7
  LET cafe == D(202, 254, 240, 13)
  IN  << DoStore(12, 0, W, cafe, 3, 1, Holds(12, cafe)), DoLoad(12, 0, W, 4, {cafe}),
         DoStore(13, 0, W, All(170), 0, 3, Holds(13, All(170))),
         DoStore(14, 0, W, All(187), 3, 0, Holds(14, All(187))),
         DoStore(15, 0, W, All(204), 0, 0, Holds(15, All(204))),
         DoStore(16, 0, W, All(17), 0, 0, {}),
         DoStore(17, 0, W, All(34), 0, 0, Holds(16, All(17)) \cup Holds(17, All(34))),
         Loads(16, 0, W, All(17)), Loads(17, 0, W, All(34)) >>

CrossingStores ==       \* 9, and the store of 11; 9 draws its delays from 0 to 2
  LET v == D(170, 187, 204, 221)
      at(lane) == << Clear(2 * lane), Clear(2 * lane + 1),
                     DoStore(2 * lane, lane, W, v, lane - 1, 3 - lane, HoldsAt(2 * lane, lane, v, 4)) >>
      beef == D(0, 0, 190, 239)
  IN  at(1) \o at(2) \o at(3)
      \o << Clear(2), Clear(3), DoStore(2, 3, Hf, beef, 0, 0, HoldsAt(2, 3, beef, 2)) >>

\* 10, and the loads of 11, from memory that the bench fills itself.
FilledMemory ==
  [w \in WordAddr |-> IF w \in 2 .. 7 THEN (IF w % 2 = 0 THEN D(17, 34, 51, 68) ELSE D(85, 102, 119, 136))
                      ELSE IF w = 1 THEN D(0, 0, 0, 255) ELSE Zero]
CrossingLoads ==
  << DoLoad(2, 1, W, 0, {D(136, 17, 34, 51)}), DoLoad(4, 2, W, 1, {D(119, 136, 17, 34)}),
     DoLoad(6, 3, W, 2, {D(102, 119, 136, 17)}),
     DoLoad(0, 3, Hf, 0, {D(255, 255, 255, 0)}), DoLoad(0, 3, Hu, 0, {D(0, 0, 255, 0)}) >>

\* 8 and 12: a store and a load of any width at any offset, with any delays,
\* over what an earlier draw may have left.
Delays  == 0 .. 3
Offsets == 0 .. 4
Drawn   == D(145, 18, 147, 20)
Leftover == [w \in WordAddr |-> IF w = 0 THEN D(1, 130, 3, 132) ELSE IF w = 1 THEN D(133, 6, 135, 8) ELSE Zero]
StoreDraws == {DoStore(off \div 4, off % 4, sz, Drawn, aw, w, {}) :
                 off \in Offsets, sz \in {B, Hf, W}, aw \in Delays, w \in Delays}
LoadDraws == {DoLoad(off \div 4, off % 4, f3, ar, {}) :
                off \in Offsets, f3 \in {B, Hf, W, Bu, Hu}, ar \in Delays}

Tests == CASE bench = "directed" -> LaneTests \o OrderTests \o CrossingStores
           [] bench = "filled"   -> CrossingLoads
NextAccess ==
  CASE bench = "random" /\ accesses = 0 -> StoreDraws
    [] bench = "random" /\ accesses = 1 -> LoadDraws
    [] bench # "random" /\ accesses < Len(Tests) -> {Tests[accesses + 1]}
    [] OTHER -> {NoAccess}

-----------------------------------------------------------------------------
(* The driver *)

Wrong ==
  Cardinality({f \in now.after : mem[f[1]][f[2]] # f[3]})
    + (IF now.loaded # {} /\ M!MemRdata \notin now.loaded THEN 1 ELSE 0)
    + (IF bench = "random" /\ req.op = "read" /\ M!MemRdata # Loaded(shadow, req) THEN 1 ELSE 0)

\* A bound on the count of a stall's cycles: no stall here is as long.
MaxStall == 20

\* do_store and do_load: the access stays while the master stalls, and the next
\* one follows without an idle cycle.
Driver ==
  IF M!BusStall
  THEN /\ cycles' = IF cycles < MaxStall THEN cycles + 1 ELSE cycles
       /\ UNCHANGED <<now, req, result, before, accesses, shadow, fails>>
  ELSE /\ now' \in NextAccess
       /\ req' = now'.req
       /\ result' = IF req.op = "read" THEN M!MemRdata ELSE result
       /\ before' = mem
       /\ accesses' = IF req' = None THEN accesses ELSE accesses + 1
       /\ shadow' = IF bench = "random" /\ req.op = "write" THEN Stored(shadow, req) ELSE shadow
       /\ fails' = fails + Wrong
       /\ cycles' = 0

Cycle(ready) ==
  /\ accesses = 0 \/ now # NoAccess
  /\ M!Idle \/ M!Write(ready) \/ M!WResp \/ M!Read(ready)
  /\ StubEdge(ready)
  /\ Driver
  /\ UNCHANGED bench

Init ==
  /\ bench \in {"directed", "filled", "random"}
  /\ mem \in CASE bench = "directed" -> {[w \in WordAddr |-> Zero]}
               [] bench = "filled"   -> {FilledMemory}
               [] bench = "random"   -> {[w \in WordAddr |-> Zero], Leftover}
  /\ before = mem /\ shadow = mem
  /\ now = NoAccess /\ req = None /\ result = Zero
  /\ stub = StubReset
  /\ cycles = 0 /\ fails = 0 /\ accesses = 0 /\ log = <<>>
  /\ state = "idle"
  /\ awvalid = FALSE /\ wvalid = FALSE /\ bready = FALSE
  /\ arvalid = FALSE /\ rready = FALSE
  /\ awDone = FALSE /\ wDone = FALSE /\ phase2 = FALSE
  /\ wordLo = Zero

Next == Cycle(ReadyChannels)
Spec == Init /\ [][Next]_vars
\* The driver calls cycle() until the stall ends.
FairSpec == Spec /\ WF_vars(Next)
=============================================================================
