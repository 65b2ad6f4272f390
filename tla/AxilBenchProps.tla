---------------------------- MODULE AxilBenchProps --------------------------
(***************************************************************************)
(* What tb_axil_master.cpp shows of the bus master, and what it relies on. *)
(***************************************************************************)
EXTENDS AxilBench, FiniteSetsExt

\* The accesses of all the tests: the constant Requests of the runs.
TestedRequests ==
  {a.req : a \in ToSet(LaneTests) \cup ToSet(OrderTests) \cup ToSet(CrossingStores)
                   \cup ToSet(CrossingLoads) \cup StoreDraws \cup LoadDraws}
ASSUME BenchAssumption == TestedRequests \subseteq Requests

\* Every byte a store wrote is where the test expects it and nowhere else, and
\* every load reads it back with its sign, across word boundaries and for any
\* delays of the slave (tb_axil_master.cpp:175-382).
MemoryAgrees == fails = 0

\* A stall is as long as the slave makes it: the slower channel of each word,
\* and three cycles for a word.  The second word of a crossing access costs its
\* own delays and two cycles (tb_axil_master.cpp:13-27, 220-241,
\* axil_master.v:163-250).
SlowerChannel == IF now.req.op = "write" THEN Max({now.aw, now.w}) ELSE now.ar
StallLength ==
  M!XferDone => cycles + 1 = IF M!Crosses THEN 2 * SlowerChannel + 5 ELSE SlowerChannel + 3

\* Everything the bench shows is a behaviour of the master with a slave that
\* obeys the protocol: the stub neither answers what it was not sent nor takes a
\* channel twice, and the driver never changes an access during its stall
\* (tb_axil_master.cpp:57-130).
StubIsASlave == [][M!Next]_(M!vars)

\* No while loop of the bench spins for ever: neither do_store, do_load nor the
\* loops of tests 7 and 8 have a cap (tb_axil_master.cpp:147-171).
EachLoopEnds == M!BusStall ~> ~M!BusStall
=============================================================================
