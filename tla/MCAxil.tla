------------------------------- MODULE MCAxil -------------------------------
EXTENDS AxilProps, TLC

\* Bytes of both signs, so that sign extension shows, and all different, so
\* that a swapped lane does.
Pattern(b, c, d, e) == (0 :> b) @@ (1 :> c) @@ (2 :> d) @@ (3 :> e)
MCMemInit == [w \in WordAddr |-> IF w = 0 THEN Pattern(1, 130, 3, 132)
                                 ELSE Pattern(133, 6, 135, 8)]
StoreData == Pattern(17, 146, 19, 148)
NoData    == Pattern(0, 0, 0, 0)

Loads(widths)  == [op : {"read"}, word : {0}, lane : Lane, funct3 : widths, data : {NoData}]
Stores(widths) == [op : {"write"}, word : {0}, lane : Lane, funct3 : widths, data : {StoreData}]

\* Every width, signed and unsigned, reserved ones included, at every lane.
AllLanes == Loads(0 .. 7) \cup Stores(0 .. 3)
            \cup [op : {"read"}, word : {1}, lane : {1}, funct3 : {2}, data : {NoData}]
=============================================================================
