------------------------------ MODULE BitField ------------------------------
(***************************************************************************)
(* helper.bits of tools/gdb/stubs/helper.py, as the code computes it: two  *)
(* masks and a shift over an unbounded integer. Every other module uses   *)
(* the arithmetic slice Paging!Bits, (value \div 2^start) % 2^nbits, for  *)
(* helper.bits; this module checks that the code's masks compute it, and  *)
(* that both are the slice spec.md 4.1 describes, bit by bit.             *)
(***************************************************************************)
EXTENDS Integers, Bitwise

CONSTANTS
  Values,  \* the values bits is called with
  Starts,  \* the start positions
  Widths,  \* the widths nbits
  None

ASSUME ArgsAssumption ==
  Values \subseteq Nat /\ Starts \subseteq Nat /\ Widths \subseteq Nat

VARIABLES
  call,  \* the arguments <<value, start, nbits>> of the last call, or None
  out    \* what it returned

vars == <<call, out>>

(* Mutant: the first mask without `- 1`, only the bit above the field. *)
HelperBitsNoMinusOne(value, start, nbits) ==
  LET mask1 == 2^(start + nbits)
      v1 == value & mask1
      mask2 == (2^nbits - 1) * 2^start
      v2 == v1 & mask2
  IN  v2 \div 2^start

(* bits(value, start, nbits): drop the bits at start + nbits and above, *)
(* keep those from start on, shift them down.                          *)
HelperBits(value, start, nbits) ==
  LET mask1 == 2^(start + nbits) - 1
      v1 == value & mask1
      mask2 == (2^nbits - 1) * 2^start
      v2 == v1 & mask2
  IN  v2 \div 2^start

Init ==
  /\ call = None
  /\ out = None

(* A decoder calls bits(value, start, nbits). *)
Call(v, s, n) ==
  /\ call = None
  /\ call' = <<v, s, n>>
  /\ out' = HelperBits(v, s, n)

(* The decoder has used the result. *)
Return ==
  /\ call # None
  /\ call' = None
  /\ out' = None

Next == (\E v \in Values, s \in Starts, n \in Widths : Call(v, s, n)) \/ Return

Spec == Init /\ [][Next]_vars

-----------------------------------------------------------------------------
(* spec.md 4.1: the slice, bit by bit: bit i of the result, for i below *)
(* nbits, is bit start + i of value, and no bit at nbits or above is set. *)
RefSlice(v, s, n) ==
  LET acc[i \in 0..n] ==
        IF i = 0 THEN 0 ELSE acc[i - 1] + ((v \div 2^(s + i - 1)) % 2) * 2^(i - 1)
  IN  acc[n]

(* The arithmetic slice the other modules use for helper.bits. *)
ArithSlice(v, s, n) == (v \div 2^s) % 2^n

(* Every result of helper.bits is the slice of spec.md 4.1, and it is the *)
(* arithmetic form every decoder of the models is written with; among the *)
(* calls is spec.md 8's bits(90, 2, 3) = 6.                               *)
BitsCorrect ==
  call # None =>
    /\ out = RefSlice(call[1], call[2], call[3])
    /\ out = ArithSlice(call[1], call[2], call[3])
=============================================================================
