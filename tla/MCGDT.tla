-------------------------------- MODULE MCGDT --------------------------------
(***************************************************************************)
(* GDT for TLC: tables of 1 to 4 slots whose slots hold a null descriptor, *)
(* a 64-bit code and a data segment, a TSS (two slots), a call gate, or a  *)
(* TSS upper half with a non-zero null field, or cannot be read.           *)
(***************************************************************************)
EXTENDS GDT

(* A slot: <<lo, hi>>; hi has p (bit 15), dpl, S (bit 12), type (11..8). *)
MCSlot(access, flags) == <<0, flags * 65536 + access * 256>>

MCNull == MCSlot(0, 0)          \* also the upper half of a TSS, base < 2^32
MCCode == MCSlot(154, 32)       \* 0x9A, l = 1
MCData == MCSlot(146, 0)        \* 0x92
MCTSS == MCSlot(137, 0)         \* 0x89, available 64-bit TSS
MCCallGate == MCSlot(143, 0)    \* 0x8F
MCUpperBad == MCSlot(1, 0)      \* bits 104..108 not zero (type 1 if read first)

MCSlotVals == {MCNull, MCCode, MCData, MCTSS, MCCallGate, MCUpperBad}
MCLimits == {7, 15, 23, 31}
=============================================================================
