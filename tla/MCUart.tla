------------------------------- MODULE MCUart -------------------------------
EXTENDS UartProps, TLC

ReadOf(regs) == [op : {"read"}, reg : regs, value : {0}]
WriteData    == [op : {"write"}, reg : {"data"}, value : {1, 2}]

Sending  == WriteData \cup ReadOf({"data"})
Polling  == ReadOf({"data", "status"})
              \cup [op : {"write"}, reg : {"prescale"}, value : {2}]

\* Looped back, or driven from outside.
Either == (TRUE :> Sending) @@ (FALSE :> Polling)
=============================================================================
