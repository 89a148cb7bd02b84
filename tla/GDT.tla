-------------------------------- MODULE GDT --------------------------------
(***************************************************************************)
(* GDT.print of tools/gdb/stubs/gdt.py with SegmentDescriptor.create and  *)
(* the size() of each descriptor class. The loop reads 16 bytes at the    *)
(* cursor with linear_bytes, classifies them, prints the descriptor and   *)
(* advances the cursor by its size, while offset < limit + 1.             *)
(*                                                                         *)
(* The table is a sequence of 8-byte slots; a slot's raw value is the pair *)
(* <<lo, hi>> of its little-endian 32-bit words, so helper.bits(raw,      *)
(* 32 + k, n) is Bits(hi, k, n). linear_bytes returns the 16 bytes of two  *)
(* slots or raises (a page of the range is not mapped): Unreadable stands *)
(* for a slot it raises on. The slots are fixed while the guest is        *)
(* stopped and chosen when first read.                                     *)
(***************************************************************************)
EXTENDS Integers, Sequences

CONSTANTS
  SlotVals,    \* the raw values an 8-byte slot may hold
  Limits,      \* the table limits gdtview is given
  Unreadable,  \* a slot linear_bytes raises on
  None

ASSUME SlotValsAssumption == SlotVals \subseteq Nat \X Nat /\ SlotVals # {}
ASSUME LimitsAssumption == Limits \subseteq Nat /\ Limits # {}

VARIABLES
  gmem,     \* the slots read so far: slot index -> raw value or Unreadable
  gpc,      \* "idle", "loop", "done", or "raised"
  limit,    \* self.limit
  offset,   \* the cursor of print()
  printed,  \* the descriptors printed: <<offset, kind>>
  reads     \* the slots linear_bytes read during this print

vars == <<gmem, gpc, limit, offset, printed, reads>>

(* helper.bits over one 32-bit word of the raw value. *)
Bits(value, start, nbits) == (value \div 2^start) % 2^nbits

(* Mutant: a generic system descriptor instead of the exception. *)
SystemCreateDefault(first, second) ==
  LET type == Bits(first[2], 8, 4)
  IN  IF Bits(type, 0, 1) = 1 /\ Bits(type, 3, 1) = 1
      THEN IF Bits(second[2], 8, 5) = 0 THEN "tss" ELSE "assert"
      ELSE "system"

(* SystemSegmentDescriptor.create: the TSS descriptor is the only class  *)
(* of its list; `type & 0x9 == 0x9` picks it, anything else raises.      *)
(* TSSDescriptor.__init__ asserts the null field, bits 104..108.         *)
SystemCreate(first, second) ==
  LET type == Bits(first[2], 8, 4)
  IN  IF Bits(type, 0, 1) = 1 /\ Bits(type, 3, 1) = 1
      THEN IF Bits(second[2], 8, 5) = 0 THEN "tss" ELSE "assert"
      ELSE "nomatch"

(* SegmentDescriptor.create on the 16 bytes of slots first, second: the *)
(* kind of the descriptor, or "nomatch" / "assert" for what it raises.  *)
Create(first, second) ==
  IF Bits(first[2], 11, 2) = 2 THEN "data"
  ELSE IF Bits(first[2], 11, 2) = 3 THEN "code"
  ELSE IF Bits(first[2], 8, 5) = 0 THEN "null"
  ELSE IF Bits(first[2], 8, 5) = 15 THEN "callgate"
  ELSE SystemCreate(first, second)

(* Mutant: NullDescriptor without its size() override, inheriting the 16 *)
(* of SystemSegmentDescriptor.                                            *)
SizeNullInherited(kind) == IF kind \in {"data", "code"} THEN 8 ELSE 16

(* size(): 8 for data, code and null descriptors, 16 for the system     *)
(* descriptors (TSS, and the call gate, which inherits it).             *)
Size(kind) == IF kind \in {"data", "code", "null"} THEN 8 ELSE 16

Init ==
  /\ gmem = [k \in {} |-> None]
  /\ gpc = "idle"
  /\ limit = 0
  /\ offset = 0
  /\ printed = <<>>
  /\ reads = {}

(* GDT(mmu, mapping, base, limit).print(): offset = 0. *)
Begin(l) ==
  /\ gpc \in {"idle", "done", "raised"}
  /\ gpc' = "loop"
  /\ limit' = l
  /\ offset' = 0
  /\ printed' = <<>>
  /\ reads' = {}
  /\ UNCHANGED gmem

(* The slot the cursor is at, and the one after it. *)
Cur == offset \div 8

(* linear_bytes(mapping, base + offset, 16) reads the two slots: v1 and *)
(* v2 are what they hold (the same values as before if read already).   *)
ReadPair(v1, v2) ==
  /\ Cur \in DOMAIN gmem => v1 = gmem[Cur]
  /\ Cur + 1 \in DOMAIN gmem => v2 = gmem[Cur + 1]
  /\ gmem' = [k \in DOMAIN gmem \cup {Cur, Cur + 1} |->
                IF k = Cur THEN v1 ELSE IF k = Cur + 1 THEN v2 ELSE gmem[k]]
  /\ reads' = reads \cup {Cur, Cur + 1}

(* One iteration: create the descriptor, print it, offset += size(). *)
PrintDescriptor ==
  /\ gpc = "loop"
  /\ offset < limit + 1
  /\ \E v1, v2 \in SlotVals :
       /\ ReadPair(v1, v2)
       /\ Create(v1, v2) \notin {"nomatch", "assert"}
       /\ printed' = Append(printed, <<offset, Create(v1, v2)>>)
       /\ offset' = offset + Size(Create(v1, v2))
  /\ UNCHANGED <<gpc, limit>>

(* create raises: no matching descriptor, or the TSS assertion. *)
DecodeRaised ==
  /\ gpc = "loop"
  /\ offset < limit + 1
  /\ \E v1, v2 \in SlotVals :
       /\ ReadPair(v1, v2)
       /\ Create(v1, v2) \in {"nomatch", "assert"}
  /\ gpc' = "raised"
  /\ UNCHANGED <<limit, offset, printed>>

(* linear_bytes raises on one of the two slots. *)
ReadRaised ==
  /\ gpc = "loop"
  /\ offset < limit + 1
  /\ \E v1, v2 \in SlotVals \cup {Unreadable} :
       /\ Unreadable \in {v1, v2}
       /\ ReadPair(v1, v2)
  /\ gpc' = "raised"
  /\ UNCHANGED <<limit, offset, printed>>

(* `while offset < self.limit + 1` ends. *)
LoopEnd ==
  /\ gpc = "loop"
  /\ ~(offset < limit + 1)
  /\ gpc' = "done"
  /\ UNCHANGED <<gmem, limit, offset, printed, reads>>

Next ==
  \/ \E l \in Limits : Begin(l)
  \/ PrintDescriptor \/ DecodeRaised \/ ReadRaised \/ LoopEnd

Spec == Init /\ [][Next]_vars

-----------------------------------------------------------------------------
TypeOK ==
  /\ DOMAIN gmem \subseteq Nat
  /\ gmem \in [DOMAIN gmem -> SlotVals \cup {Unreadable}]
  /\ gpc \in {"idle", "loop", "done", "raised"}
  /\ limit \in Nat
  /\ offset \in Nat
  /\ printed \in Seq(Nat \X {"data", "code", "null", "callgate", "tss"})
  /\ reads \subseteq DOMAIN gmem

(* The descriptor kinds of spec.md 4.4, over the hardware bit positions  *)
(* of the access byte (bits 40..47): the S bit 44 and the executable bit *)
(* 43 tell code and data segments; for a system descriptor the type      *)
(* nibble 40..43 tells null (0), call gate (0xF) and TSS (bits 3 and 0   *)
(* set); a TSS and a call gate take 16 bytes, the others 8.              *)
RefKind(first) ==
  LET acc == Bits(first[2], 8, 8)
      type == acc % 16
  IN  IF Bits(acc, 4, 1) = 1
      THEN IF Bits(acc, 3, 1) = 1 THEN "code" ELSE "data"
      ELSE IF type = 0 THEN "null"
      ELSE IF type = 15 THEN "callgate"
      ELSE IF type \in {9, 11, 13} THEN "tss"
      ELSE "nomatch"
RefSize(kind) == IF kind \in {"tss", "callgate"} THEN 16 ELSE 8

(* spec.md 3 and 4.4: the printed descriptors tile the table from offset *)
(* 0: each is the kind its first slot encodes, and the next starts where *)
(* it ends by its own size, so the upper half of a 16-byte descriptor is  *)
(* never printed as a descriptor, and while the loop runs the cursor is   *)
(* the end of the last descriptor printed.                                *)
DescriptorsTile ==
  /\ \A k \in 1..Len(printed) :
       /\ printed[k][1] = IF k = 1 THEN 0
                          ELSE printed[k - 1][1] + RefSize(printed[k - 1][2])
       /\ printed[k][2] = RefKind(gmem[printed[k][1] \div 8])
  /\ gpc # "idle" =>
       offset = IF printed = <<>> THEN 0
                ELSE printed[Len(printed)][1] + RefSize(printed[Len(printed)][2])

(* spec.md 3: the GDT offsets increase by each descriptor's size and the *)
(* bytes consumed never exceed limit + 1: no slot at or beyond limit + 1 *)
(* is read.                                                               *)
ReadsWithinLimit == \A k \in reads : 8 * k + 8 <= limit + 1
=============================================================================
