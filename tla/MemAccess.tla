------------------------------ MODULE MemAccess -----------------------------
(***************************************************************************)
(* Loads and stores of one, two or four bytes at any byte address, and     *)
(* what they mean.  Memory is an array of words of four bytes, little-endian; byte address  *)
(* 4*w + l is lane l of word w, and addresses wrap.                        *)
(***************************************************************************)
EXTENDS Integers

CONSTANTS
  NWords,       \* words of memory
  Requests      \* the accesses the MEM stage may ask for

\* Two words at least, for an access that crosses words to touch two of them.
ASSUME MemAccessAssumption == NWords \in Nat \ {0, 1}

Byte  == 0 .. 255
Lane  == 0 .. 3
Bytes == [Lane -> Byte]
WordAddr == 0 .. NWords - 1

\* A load or store as the MEM stage presents it; funct3 is the instruction's.
Access == [op : {"read", "write"}, word : WordAddr, lane : Lane, funct3 : 0 .. 7,
           data : Bytes]
None == [op |-> "none", word |-> 0, lane |-> 0, funct3 |-> 0, data |-> [l \in Lane |-> 0]]

ASSUME RequestsAssumption == Requests \subseteq Access

-----------------------------------------------------------------------------
(* Meaning of an access *)

\* funct3[1:0] is the width; the decoder lets reserved values through, and a
\* reserved width writes nothing.
Width(r) == CASE r.funct3 % 4 = 0 -> 1 [] r.funct3 % 4 = 1 -> 2
              [] r.funct3 % 4 = 2 -> 4 [] OTHER -> 0

\* The k-th byte of an access: its word and lane.
WordOf(r, k) == (r.word + (r.lane + k) \div 4) % NWords
LaneOf(r, k) == (r.lane + k) % 4

Stored(memory, r) ==
  [w \in WordAddr |-> [l \in Lane |->
     IF \E k \in 0 .. Width(r) - 1 : WordOf(r, k) = w /\ LaneOf(r, k) = l
     THEN r.data[CHOOSE k \in 0 .. Width(r) - 1 : WordOf(r, k) = w /\ LaneOf(r, k) = l]
     ELSE memory[w][l]]]

\* lb and lh extend the sign of the last byte read, lbu and lhu extend with 0.
\* A reserved width reads what the word holds from the lane on.
ReadBytes(r) == IF Width(r) = 0 THEN 4 - r.lane ELSE Width(r)
Fill(r, last) == IF r.funct3 < 4 /\ Width(r) \in {1, 2} /\ last >= 128 THEN 255 ELSE 0
Loaded(memory, r) ==
  [j \in Lane |->
     LET n == ReadBytes(r)
         at(k) == memory[WordOf(r, k)][LaneOf(r, k)]
     IN  IF j < n THEN at(j) ELSE Fill(r, at(n - 1))]
=============================================================================
