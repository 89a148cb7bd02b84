-------------------------------- MODULE IDT --------------------------------
(***************************************************************************)
(* IDT.print of tools/gdb/stubs/idt.py: read the (limit + 1) // 16 gates  *)
(* of the table with linear_bytes, decode each as an InterruptTrapGate,   *)
(* then print them compacted by helper.compact_entries with a cmp_eq that *)
(* compares the handler offset and the segment selector.                  *)
(*                                                                         *)
(* A gate's 128-bit raw value is the sequence of its four little-endian   *)
(* 32-bit words. linear_bytes either returns the 16 bytes of a slot or    *)
(* raises (a page of the table is not mapped): Unreadable stands for the  *)
(* slots it raises on. Like the paging memory, the slots are fixed while  *)
(* the guest is stopped and chosen when first read.                       *)
(***************************************************************************)
EXTENDS Integers, Sequences

CONSTANTS
  GateRaws,    \* the raw values a slot may hold: <<w0, w1, w2, w3>>
  Limits,      \* the table limits idtview is given
  Unreadable,  \* a slot linear_bytes raises on
  None

ASSUME GateRawsAssumption == GateRaws \subseteq Seq(Nat) /\ GateRaws # {}
ASSUME LimitsAssumption == Limits \subseteq Nat /\ Limits # {}

VARIABLES
  imem,     \* the slots read so far: index -> raw value or Unreadable
  limit,    \* self.limit, the table limit the IDT was built with
  ipc,      \* "idle", "reading", "done", or "raised"
  nentry,   \* self.nentry
  i,        \* the loop variable of `for i in range(0, self.nentry)`
  entries,  \* the list of (i, gate) pairs
  runs      \* what compact_entries returned, as printed

vars == <<imem, limit, ipc, nentry, i, entries, runs>>

(* helper.bits over one 32-bit word of the raw value. *)
Bits(value, start, nbits) == (value \div 2^start) % 2^nbits

(* InterruptTrapGate.__init__: offset is assembled from bits 0..15, *)
(* 48..63 and 64..95; it is kept as those three parts, low first.   *)
InterruptTrapGate(raw) ==
  [raw |-> raw,
   offset |-> <<Bits(raw[1], 0, 16), Bits(raw[2], 16, 16), raw[3]>>,
   segment |-> Bits(raw[1], 16, 16),
   ist |-> Bits(raw[2], 0, 4),
   type |-> Bits(raw[2], 8, 4),
   dpl |-> Bits(raw[2], 13, 2),
   p |-> Bits(raw[2], 15, 1)]

(* The cmp_eq of IDT.print. *)
CmpEq(a, b) == a.offset = b.offset /\ a.segment = b.segment

Compact == INSTANCE Compaction

Init ==
  /\ imem = [k \in {} |-> None]
  /\ limit = None
  /\ ipc = "idle"
  /\ nentry = 0
  /\ i = 0
  /\ entries = <<>>
  /\ runs = <<>>

(* IDT(mmu, mapping, base, lim): self.limit = lim, nentry = (lim + 1) // *)
(* desc_size, then print() starts with entries = [].                     *)
Begin(lim) ==
  /\ ipc \in {"idle", "done", "raised"}
  /\ ipc' = "reading"
  /\ limit' = lim
  /\ nentry' = (lim + 1) \div 16
  /\ i' = 0
  /\ entries' = <<>>
  /\ runs' = <<>>
  /\ UNCHANGED imem

(* Slot i is read: linear_bytes returns its value or raises. *)
ReadSlot(v) ==
  /\ i \in DOMAIN imem => v = imem[i]
  /\ imem' = [k \in DOMAIN imem \cup {i} |-> IF k = i THEN v ELSE imem[k]]

(* One iteration: desc_bytes = linear_bytes(mapping, base + i*16, 16), *)
(* gate = InterruptTrapGate(desc), entries.append((i, gate)).         *)
ReadGate ==
  /\ ipc = "reading"
  /\ i < nentry
  /\ \E v \in GateRaws :
       /\ ReadSlot(v)
       /\ entries' = Append(entries, <<i, InterruptTrapGate(v)>>)
  /\ i' = i + 1
  /\ UNCHANGED <<limit, ipc, nentry, runs>>

(* linear_bytes raises: print raises before printing anything. *)
ReadRaised ==
  /\ ipc = "reading"
  /\ i < nentry
  /\ ReadSlot(Unreadable)
  /\ ipc' = "raised"
  /\ UNCHANGED <<limit, nentry, i, entries, runs>>

(* The loop is done: compact and print the runs. *)
PrintRuns ==
  /\ ipc = "reading"
  /\ ~(i < nentry)
  /\ runs' = Compact!CompactEntries(entries)
  /\ ipc' = "done"
  /\ UNCHANGED <<imem, limit, nentry, i, entries>>

Next ==
  \/ \E lim \in Limits : Begin(lim)
  \/ ReadGate \/ ReadRaised \/ PrintRuns

Spec == Init /\ [][Next]_vars

-----------------------------------------------------------------------------
TypeOK ==
  /\ imem \in [DOMAIN imem -> GateRaws \cup {Unreadable}]
  /\ DOMAIN imem \subseteq Nat
  /\ limit \in Limits \cup {None}
  /\ ipc \in {"idle", "reading", "done", "raised"}
  /\ nentry \in Nat
  /\ i \in 0..nentry
  /\ Len(entries) = i
  /\ \A k \in 1..Len(runs) : runs[k][1] <= runs[k][2]

(* spec.md 4.6: the printed runs cover the indices 0 .. nentry-1 in      *)
(* order, each once; every gate of a run has the offset and segment of   *)
(* the gate printed for it; and two adjacent runs differ there, so no    *)
(* run could have been extended (the runs are maximal). The gates are    *)
(* those the limit holds (spec.md 3, 6): their bytes do not exceed       *)
(* limit + 1, and no whole gate of the table is left out, which is what  *)
(* the rounding of nentry in IDT.__init__ must get right.                *)
RunsCoverTable ==
  ipc = "done" =>
    /\ nentry * 16 <= limit + 1 /\ limit + 1 < (nentry + 1) * 16
    /\ nentry = 0 <=> runs = <<>>
    /\ runs # <<>> => runs[1][1] = 0 /\ runs[Len(runs)][2] = nentry - 1
    /\ \A k \in 1..(Len(runs) - 1) : runs[k + 1][1] = runs[k][2] + 1
    /\ \A k \in 1..Len(runs) :
         /\ runs[k][3] = entries[runs[k][1] + 1][2]
         /\ \A j \in runs[k][1]..runs[k][2] : CmpEq(entries[j + 1][2], runs[k][3])
    /\ \A k \in 1..(Len(runs) - 1) : ~CmpEq(runs[k][3], runs[k + 1][3])

=============================================================================
