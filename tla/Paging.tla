------------------------------- MODULE Paging -------------------------------
(***************************************************************************)
(* The four-level x86-64 page-table walk of tools/gdb/stubs/paging.py:    *)
(* MMU.split_addr, MMU.resolve and the PageTableEntry family that decodes *)
(* one 8-byte slot per level.                                              *)
(*                                                                         *)
(* Every table slot is read through Monitor.physical_memory(addr, 8).     *)
(* The memory image is fixed while a command runs (the guest is stopped   *)
(* under gdb) but unknown: mem holds the slots read so far, and the first *)
(* read of a slot chooses its value from RawVals; later reads of the same *)
(* slot return the same value.                                             *)
(*                                                                         *)
(* The geometry is a parameter: IdxBits index bits per level (9 in the    *)
(* code), 4 KiB frames (12 bits) as in the code, so the page sizes are    *)
(* 2^12, 2^(12+IdxBits) and 2^(12+2*IdxBits).                             *)
(***************************************************************************)
EXTENDS Integers, Sequences

CONSTANTS
  IdxBits,   \* index bits per level: 9 in the code (mask 0x1ff, 512 entries)
  M,         \* MMU.M, the width of the frame reference field (48)
  AddrBits,  \* MMU.bits, the width assert_width accepts (64)
  RawVals,   \* the values physical_memory(slot, 8) may return for a slot
  Roots,     \* page-table roots (cr3 values) a command is given
  VAs,       \* virtual addresses a command is given
  None       \* Python's None

ASSUME IdxBitsAssumption == IdxBits \in Nat \ {0}
ASSUME MAssumption == M \in Nat /\ M >= 3 * IdxBits
ASSUME AddrBitsAssumption == AddrBits \in Nat /\ AddrBits >= 12 + 4 * IdxBits
ASSUME RawValsAssumption == RawVals \subseteq Nat /\ RawVals # {}
ASSUME RootsAssumption == Roots \subseteq Nat /\ Roots # {}
ASSUME VAsAssumption == VAs \subseteq Nat /\ VAs # {}
(* The powers of two the decoders shift by are positive naturals: a fact *)
(* of arithmetic the provers cannot derive for a symbolic exponent.      *)
ASSUME PowersOfTwo == \A n \in 0..(12 + M) : 2^n \in Nat \ {0}

(* PageLevel *)
PML4 == 0
DirectoryPtr == 1
Directory == 2
Table == 3
Levels == {PML4, DirectoryPtr, Directory, Table}

(* The width of the virtual addresses the four levels translate (48). *)
VABits == 12 + 4 * IdxBits

(* helper.bits: nbits bits of value from bit start on. *)
Bits(value, start, nbits) == (value \div 2^start) % 2^nbits

(* The bit position of a level's index in a virtual address (39, 30, 21, *)
(* 12), which is also the page shift of an entry that maps a page there. *)
Shift(lvl) == 12 + (Table - lvl) * IdxBits

(* split_addr: the index into the table of level lvl. *)
Index(va, lvl) == Bits(va, Shift(lvl), IdxBits)

(* Mutant: split_addr's offset taken as addr & 0xfff at every level. *)
PageOffsetLowBits(va, lvl) == Bits(va, 0, 12)

(* split_addr: the offset into a page mapped at level lvl *)
(* (addr & 0xfff, addr & 0x1fffff, addr & 0x3fffffff).   *)
PageOffset(va, lvl) == Bits(va, 0, Shift(lvl))

(* The page sizes resolve returns: 4096, 4096 << 9, 4096 << 18. *)
PageSize(lvl) == 2^Shift(lvl)

(* PDPEntry and PDEntry with ps = 1 map a huge page. *)
Huge(lvl, raw) == lvl \in {DirectoryPtr, Directory} /\ Bits(raw, 7, 1) = 1

(* The frame reference: bits(value, 12, M), narrowed to start at the huge *)
(* page boundary for a huge PDP or PD entry.                              *)
Reference(lvl, raw) ==
  IF Huge(lvl, raw) THEN Bits(raw, Shift(lvl), M - (Shift(lvl) - 12))
                    ELSE Bits(raw, 12, M)

(* Mutant: the present flag read two bits wide, as bits(value, 0, 2). *)
PageTableEntryWidePresent(base, idx, lvl, raw) ==
  [base |-> base, idx |-> idx, lvl |-> lvl, raw |-> raw,
   present |-> Bits(raw, 0, 2), ps |-> Bits(raw, 7, 1),
   reference |-> Reference(lvl, raw),
   faulty |-> lvl = PML4 /\ Bits(raw, 7, 1) # 0]

(* The constructors of PML4Entry, PDPEntry, PDEntry and PTEntry: the     *)
(* fields the walk reads, and faulty for a PML4 entry with ps set.       *)
PageTableEntry(base, idx, lvl, raw) ==
  [base |-> base, idx |-> idx, lvl |-> lvl, raw |-> raw,
   present |-> Bits(raw, 0, 1), ps |-> Bits(raw, 7, 1),
   reference |-> Reference(lvl, raw),
   faulty |-> lvl = PML4 /\ Bits(raw, 7, 1) # 0]

(* Mutant: addr() without the PDPEntry/PDEntry override (reference << 12). *)
EntryAddrNoHugeShift(e) == e.reference * 2^12

(* addr(): the physical address the entry refers to. *)
EntryAddr(e) ==
  IF Huge(e.lvl, e.raw) THEN e.reference * 2^Shift(e.lvl)
                        ELSE e.reference * 2^12

(* The result of resolve for an unmapped address. *)
Unmapped == [page |-> None, size |-> None, offset |-> None]

-----------------------------------------------------------------------------
VARIABLES
  mem,      \* the table slots read so far: physical address -> raw value
  wst,      \* "idle", "walking", "done", or "failed" (AssertionError)
  wbase,    \* the root the current resolve was given
  wva,      \* the virtual address the current resolve was given
  entries,  \* the list of decoded entries resolve returns
  result    \* (page, size, offset) of the last resolve

walkVars == <<mem, wst, wbase, wva, entries, result>>

WalkInit ==
  /\ mem = [a \in {} |-> 0]
  /\ wst = "idle"
  /\ wbase = None
  /\ wva = None
  /\ entries = <<>>
  /\ result = Unmapped

(* The level of the next slot, the table it is in and its address. *)
Level == Len(entries)
TableBase == IF entries = <<>> THEN wbase ELSE EntryAddr(entries[Len(entries)])
Slot == TableBase + Index(wva, Level) * 8

(* The memory image after slot a was read and returned v. *)
MemRead(f, a, v) == [x \in DOMAIN f \cup {a} |-> IF x = a THEN v ELSE f[x]]

(* FourLevelPagingTable.entry: read the slot (the same value as before if *)
(* it was read already) and decode it as an entry of the current level.   *)
ReadSlot(v) ==
  /\ Slot \in DOMAIN mem => v = mem[Slot]
  /\ mem' = MemRead(mem, Slot, v)

NewEntry(v) == PageTableEntry(TableBase, Index(wva, Level), Level, v)

(* Mutant: resolve without the `if (pd_entry.ps)` early return. *)
LeafNoDirectory(e) == e.lvl = Table \/ (e.lvl \in {DirectoryPtr} /\ e.ps # 0)

(* The entry terminates the walk with a page: a PT entry or a huge page. *)
Leaf(e) == e.lvl = Table \/ (e.lvl \in {DirectoryPtr, Directory} /\ e.ps # 0)

(* resolve(base, addr) is called: assert_width passes, entries = list(). *)
Resolve(base, va) ==
  /\ wst # "walking"
  /\ va < 2^AddrBits
  /\ wst' = "walking"
  /\ wbase' = base
  /\ wva' = va
  /\ entries' = <<>>
  /\ result' = Unmapped
  /\ UNCHANGED mem

(* resolve(base, addr) is called and assert_width raises AssertionError. *)
ResolveRejected(base, va) ==
  /\ wst # "walking"
  /\ ~(va < 2^AddrBits)
  /\ wst' = "failed"
  /\ wbase' = base
  /\ wva' = va
  /\ entries' = <<>>
  /\ result' = Unmapped
  /\ UNCHANGED mem

(* A present entry that is not a leaf: the walk goes on in the table it *)
(* refers to.                                                           *)
WalkDescend ==
  /\ wst = "walking"
  /\ \E v \in RawVals :
       /\ ReadSlot(v)
       /\ NewEntry(v).present # 0
       /\ ~Leaf(NewEntry(v))
       /\ entries' = Append(entries, NewEntry(v))
  /\ UNCHANGED <<wst, wbase, wva, result>>

(* A non-present entry: return (None, None, None, entries). *)
WalkUnmapped ==
  /\ wst = "walking"
  /\ \E v \in RawVals :
       /\ ReadSlot(v)
       /\ NewEntry(v).present = 0
       /\ entries' = Append(entries, NewEntry(v))
  /\ wst' = "done"
  /\ UNCHANGED <<wbase, wva, result>>

(* A present leaf: return addr(), the page size and the page offset. *)
WalkMapped ==
  /\ wst = "walking"
  /\ \E v \in RawVals :
       /\ ReadSlot(v)
       /\ NewEntry(v).present # 0
       /\ Leaf(NewEntry(v))
       /\ entries' = Append(entries, NewEntry(v))
       /\ result' = [page |-> EntryAddr(NewEntry(v)),
                     size |-> PageSize(Level),
                     offset |-> PageOffset(wva, Level)]
  /\ wst' = "done"
  /\ UNCHANGED <<wbase, wva>>

WalkStep == WalkDescend \/ WalkUnmapped \/ WalkMapped

-----------------------------------------------------------------------------
(* The vaview command: resolve any of the given addresses under any of *)
(* the given roots, one after another, against the same memory image.  *)
Init == WalkInit

Next ==
  \/ \E b \in Roots, va \in VAs : Resolve(b, va) \/ ResolveRejected(b, va)
  \/ WalkStep

Spec == Init /\ [][Next]_walkVars

-----------------------------------------------------------------------------
(* The type invariant. *)
EntryRec ==
  [base : Nat, idx : Nat, lvl : Levels, raw : RawVals, present : {0, 1},
   ps : {0, 1}, reference : Nat, faulty : BOOLEAN]

TypeOK ==
  /\ DOMAIN mem \subseteq Nat
  /\ mem \in [DOMAIN mem -> RawVals]
  /\ wst \in {"idle", "walking", "done", "failed"}
  /\ wbase \in Roots \cup {None}
  /\ wva \in VAs \cup {None}
  /\ entries \in Seq(EntryRec)
  /\ result \in [page : Nat, size : Nat, offset : Nat] \cup {Unmapped}

(* The walk of the architecture, written from spec.md (section 4.2) over  *)
(* the bit positions of the hardware layout: an entry lets the walk go on *)
(* when it is present, it is not a PT entry, and it is not a PDP or PD    *)
(* entry with the page-size bit 7 set (bit 7 of a PML4 entry is reserved  *)
(* and does not stop the walk); the next table is the 4 KiB frame in bits *)
(* 12 .. 12+M-1; the index of level l is the l-th IdxBits-wide field of   *)
(* the address below bit VABits.                                          *)
RefContinues(l, raw) ==
  /\ Bits(raw, 0, 1) # 0
  /\ l # Table
  /\ ~(l \in {DirectoryPtr, Directory} /\ Bits(raw, 7, 1) # 0)
RefNextTable(raw) == Bits(raw, 12, M) * 2^12
RefIndex(va, l) == Bits(va, VABits - (l + 1) * IdxBits, IdxBits)

(* The entries resolve returns for display are the hardware walk of wva   *)
(* from wbase: entry k is the slot of level k-1 at the index the address  *)
(* selects, in the table the previous entry refers to, holding the value  *)
(* memory holds there; every entry but the last lets the walk go on, and  *)
(* a finished walk stopped at the first entry that does not (a missing    *)
(* entry, a huge page or the PT level). This is MMU.resolve's control     *)
(* flow over four copies of the same block (paging.py 263-309).           *)
WalkChain ==
  /\ \A k \in 1..Len(entries) :
       /\ entries[k].lvl = k - 1
       /\ entries[k].idx = RefIndex(wva, k - 1)
       /\ entries[k].base = IF k = 1 THEN wbase
                                    ELSE RefNextTable(entries[k - 1].raw)
       /\ entries[k].base + entries[k].idx * 8 \in DOMAIN mem
       /\ mem[entries[k].base + entries[k].idx * 8] = entries[k].raw
  /\ \A k \in 1..(Len(entries) - 1) : RefContinues(k - 1, entries[k].raw)
  /\ wst = "walking" =>
       \/ entries = <<>>
       \/ RefContinues(Len(entries) - 1, entries[Len(entries)].raw)
  /\ wst = "done" =>
       /\ entries # <<>>
       /\ ~RefContinues(Len(entries) - 1, entries[Len(entries)].raw)

(* A mapped result is the translation of wva: the page has the size of   *)
(* the level the walk stopped at, it is the frame in the last entry's     *)
(* bits from the page boundary up to bit 12+M-1, and the indices of the   *)
(* entries followed by the offset spell out wva below bit VABits (a walk *)
(* reads at most four entries, so the indices make at most four terms).  *)
(* This checks split_addr's shifts and masks and every addr() override.   *)
TranslationCorrect ==
  (wst = "done" /\ result.page # None) =>
    LET n == Len(entries)
        size == 2^(VABits - n * IdxBits)
        term(k) ==
          IF k <= n THEN entries[k].idx * 2^(VABits - k * IdxBits) ELSE 0
    IN  /\ result.size = size
        /\ result.offset < size
        /\ term(1) + term(2) + term(3) + term(4) + result.offset
             = wva % 2^VABits
        /\ result.page = ((entries[n].raw % 2^(12 + M)) \div size) * size

(* spec.md 3 and 9: M is the implemented physical-address width, and     *)
(* PageTableEntry.__init__ itself counts bits M..63 as reserved (rsvd), so *)
(* every table the walk reads and every page it returns lies below 2^M.   *)
(* The code takes M bits of frame reference from bit 12 on (bits 12..59   *)
(* for M = 48), overlapping rsvd: bits M..M+11 of an entry (48..59 for    *)
(* M = 48, among them the software-available bits 52..58 and a bit of the *)
(* protection key) enter the physical address of the next table or page.  *)
PhysWithinWidth ==
  /\ \A k \in 1..Len(entries) : entries[k].base < 2^M
  /\ (wst = "done" /\ result.page # None) => result.page < 2^M

(* spec.md 3 and 7: a virtual address outside the canonical width of the *)
(* architecture is rejected before any read. Canonical means bits VABits-1 *)
(* and up (47..63 in the code) are all equal. assert_width only checks    *)
(* addr < 2^64.                                                           *)
Canonical(va) ==
  Bits(va, VABits - 1, AddrBits - VABits + 1) \in {0, 2^(AddrBits - VABits + 1) - 1}
AcceptedCanonical == wst \in {"walking", "done"} => Canonical(wva)

=============================================================================
