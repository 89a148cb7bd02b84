-------------------------------- MODULE MCIDT --------------------------------
(***************************************************************************)
(* IDT for TLC: tables of 1, 3, 4 and 4 gates (limit 71 leaves 8 bytes    *)
(* over), whose slots hold a zero gate, or interrupt/trap gates of two     *)
(* handlers in segment 8, or are not readable.                             *)
(***************************************************************************)
EXTENDS IDT

(* The four words of a gate: selector and offset 15..0; offset 31..16, *)
(* p, dpl, type, ist; offset 63..32; reserved.                           *)
MCGate(sel, off, p, dpl, type) ==
  <<sel * 65536 + off, p * 32768 + dpl * 8192 + type * 256, 0, 0>>

MCZero == MCGate(0, 0, 0, 0, 0)
MCHandlerA == MCGate(8, 4096, 1, 0, 14)       \* interrupt gate, DPL 0
MCHandlerB == MCGate(8, 8192, 1, 0, 15)       \* trap gate, DPL 0
MCHandlerAUser == MCGate(8, 4096, 1, 3, 14)   \* the same handler, DPL 3

MCGateRaws == {MCZero, MCHandlerA, MCHandlerB}
MCGateRawsUserGate == MCGateRaws \cup {MCHandlerAUser}
MCLimits == {15, 47, 63, 71}
=============================================================================
