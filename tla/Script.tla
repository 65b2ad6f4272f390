------------------------------- MODULE Script -------------------------------
(***************************************************************************)
(* tb_common.h: what a testbench does to the block under test.  A test is  *)
(* a sequence of items; an item applies inputs, lets them settle, compares *)
(* outputs with the values they may have, and may clock the block or run a *)
(* bus transaction.                                                        *)
(***************************************************************************)
EXTENDS Words, SequencesExt

\* want maps outputs to the values the test accepts.
Settle(in, want) == [do |-> "settle", in |-> in, want |-> want]
Tick(in, want)   == [do |-> "tick", in |-> in, want |-> want]

\* Outputs that are not what the test wants: tb_check counts them.
Mismatches(want, out) == Cardinality({o \in DOMAIN want : out[o] \notin want[o]})

\* Short names for literals.
N(n)      == FromNat(n)
H(hi, lo) == Hex(hi, lo)
Unchecked == [x \in {} |-> {}]    \* nothing is compared
=============================================================================
