------------------------------- MODULE MCSoc --------------------------------
EXTENDS SocProps, TLC

\* soc.v's map, in its order, with windows of two and four words.
MCDevices == {"dmem", "gpio", "uart", "timer"}
MCBase == [d \in MCDevices |-> CASE d = "gpio" -> 4 [] d = "uart" -> 8 [] d = "timer" -> 12
                                 [] d = "dmem" -> 16]
MCSize == [d \in MCDevices |-> IF d = "dmem" THEN 2 ELSE 4]

MCMemInit == [i \in 0 .. 1 |-> IF i = 1 THEN {0, 15, 23} ELSE {8 * i, 31}]
MCPins == {{}, {0, 15}}

Pattern(b, c, d, e) == (0 :> b) @@ (1 :> c) @@ (2 :> d) @@ (3 :> e)
Load(w, lane, funct3) ==
  [op |-> "read", word |-> w, lane |-> lane, funct3 |-> funct3, data |-> Pattern(0, 0, 0, 0)]
Store(w, lane, funct3) ==
  [op |-> "write", word |-> w, lane |-> lane, funct3 |-> funct3, data |-> Pattern(129, 2, 4, 24)]

\* In memory, across its words and out of its window; both GPIO registers in one
\* access; a window's alias; DATA and STATUS in one load; the timer's halves; no
\* device, and from the last address to the first.
MCRequests ==
  { Load(17, 0, 2), Load(16, 3, 1), Store(16, 3, 1), Store(16, 1, 2), Store(17, 2, 0),
    Load(17, 1, 2), Store(17, 3, 2),
    Store(4, 0, 2), Store(4, 2, 2), Load(4, 2, 2), Load(7, 0, 5),
    Store(8, 0, 2), Store(10, 0, 0), Load(8, 1, 2),
    Store(12, 0, 2), Store(15, 0, 2), Load(12, 2, 2),
    Load(2, 0, 2), Store(19, 2, 2) }
=============================================================================
