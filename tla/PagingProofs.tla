---------------------------- MODULE PagingProofs ----------------------------
(***************************************************************************)
(* Proofs about the page-table walk of module Paging, for every geometry  *)
(* and every memory image: the type invariant, and WalkChain, the          *)
(* invariant that the entries MMU.resolve returns are the hardware walk.  *)
(*                                                                         *)
(* Neither holds inductively alone. TypeOK needs WalkChain to know that a  *)
(* running walk is at level 3 at most; WalkChain needs to know that each  *)
(* entry was decoded by PageTableEntry (Decoded) to relate addr() of one  *)
(* entry to the table the next one is in. IInv is the conjunction of the  *)
(* three, and it is inductive.                                            *)
(***************************************************************************)
EXTENDS Paging, TLAPS

(* Every entry of the list is the decoding of its own raw value. *)
Decoded ==
  \A k \in 1..Len(entries) :
    entries[k] = PageTableEntry(entries[k].base, entries[k].idx,
                                entries[k].lvl, entries[k].raw)

(* A walk that has been started has a root and an address of the command. *)
Started == wst # "idle" => wbase \in Roots /\ wva \in VAs

IInv == TypeOK /\ Started /\ WalkChain /\ Decoded

USE IdxBitsAssumption, MAssumption, RawValsAssumption, RootsAssumption,
    VAsAssumption

-----------------------------------------------------------------------------
(* Lemmas on the operators the model is built from. *)

LEMMA PowNat ==
  ASSUME NEW n \in 0..(12 + M)
  PROVE  2^n \in Nat \ {0}
BY PowersOfTwo

LEMMA BitsNat ==
  ASSUME NEW v \in Nat, NEW s \in 0..(12 + M), NEW n \in 0..(12 + M)
  PROVE  Bits(v, s, n) \in Nat
<1>1. 2^s \in Nat \ {0} /\ 2^n \in Nat \ {0}
  BY PowNat
<1>. QED
  BY <1>1 DEF Bits

LEMMA FlagBits ==
  ASSUME NEW v \in Nat
  PROVE  Bits(v, 0, 1) \in {0, 1} /\ Bits(v, 7, 1) \in {0, 1}
BY DEF Bits

LEMMA ShiftRange ==
  ASSUME NEW l \in Levels
  PROVE  /\ Shift(l) \in 0..(12 + M)
         /\ l \in {DirectoryPtr, Directory} => M - (Shift(l) - 12) \in 0..(12 + M)
BY DEF Shift, Levels, PML4, DirectoryPtr, Directory, Table

(* split_addr's index of level l is the l-th index field below VABits. *)
LEMMA IndexRef ==
  ASSUME NEW va, NEW l \in Levels
  PROVE  Index(va, l) = RefIndex(va, l)
<1>1. Shift(l) = VABits - (l + 1) * IdxBits
  BY DEF Shift, VABits, Levels, PML4, DirectoryPtr, Directory, Table
<1>. QED
  BY <1>1 DEF Index, RefIndex

(* The decoded fields of an entry have their types. *)
LEMMA EntryType ==
  ASSUME NEW base \in Nat, NEW idx \in Nat, NEW l \in Levels, NEW raw \in RawVals
  PROVE  PageTableEntry(base, idx, l, raw) \in EntryRec
<1>1. raw \in Nat
  OBVIOUS
<1>2. Reference(l, raw) \in Nat
  <2>1. CASE Huge(l, raw)
    <3>1. l \in {DirectoryPtr, Directory}
      BY <2>1 DEF Huge
    <3>. QED
      BY <1>1, <2>1, <3>1, ShiftRange, BitsNat DEF Reference
  <2>2. CASE ~Huge(l, raw)
    BY <1>1, <2>2, BitsNat DEF Reference
  <2>. QED
    BY <2>1, <2>2
<1>3. Bits(raw, 0, 1) \in {0, 1} /\ Bits(raw, 7, 1) \in {0, 1}
  BY <1>1, FlagBits
<1>. QED
  BY <1>2, <1>3 DEF PageTableEntry, EntryRec

(* addr() of a decoded entry is a natural. *)
LEMMA EntryAddrNat ==
  ASSUME NEW e \in EntryRec
  PROVE  EntryAddr(e) \in Nat
<1>1. 2^Shift(e.lvl) \in Nat /\ 2^12 \in Nat
  BY ShiftRange, PowNat DEF EntryRec
<1>. QED
  BY <1>1 DEF EntryAddr, EntryRec

(* The memory image after a read: one more slot, the others unchanged. *)
LEMMA MemUpdate ==
  ASSUME NEW f, NEW a, NEW v
  PROVE  /\ DOMAIN MemRead(f, a, v) = DOMAIN f \cup {a}
         /\ MemRead(f, a, v)[a] = v
         /\ \A x \in DOMAIN f \ {a} : MemRead(f, a, v)[x] = f[x]
BY DEF MemRead

-----------------------------------------------------------------------------
(* The walk: what a read step knows and establishes. *)

(* In a running walk the next level is a level, and the slot's address is *)
(* a natural.                                                             *)
LEMMA WalkingFacts ==
  ASSUME IInv, wst = "walking"
  PROVE  /\ Level \in Levels
         /\ Len(entries) \in 0..3
         /\ TableBase \in Nat
         /\ Index(wva, Level) \in Nat
         /\ Slot \in Nat
         /\ wva \in Nat
<1>1. entries \in Seq(EntryRec) /\ wbase \in Roots /\ wva \in VAs
  BY DEF IInv, TypeOK, Started
<1>2. Len(entries) \in 0..3
  <2>1. CASE entries = <<>>
    BY <2>1
  <2>2. CASE entries # <<>>
    <3>1. RefContinues(Len(entries) - 1, entries[Len(entries)].raw)
      BY <2>2 DEF IInv, WalkChain
    <3>2. entries[Len(entries)].lvl = Len(entries) - 1
      BY <1>1, <2>2 DEF IInv, WalkChain
    <3>3. entries[Len(entries)].lvl \in Levels
      <4>1. entries[Len(entries)] \in EntryRec
        BY <1>1, <2>2
      <4>. QED
        BY <4>1 DEF EntryRec
    <3>. QED
      BY <1>1, <3>1, <3>2, <3>3 DEF RefContinues, Levels, PML4, DirectoryPtr,
         Directory, Table
  <2>. QED
    BY <2>1, <2>2
<1>3. Level \in Levels
  BY <1>2 DEF Level, Levels, PML4, DirectoryPtr, Directory, Table
<1>4. TableBase \in Nat
  <2>1. CASE entries = <<>>
    BY <1>1, <2>1 DEF TableBase
  <2>2. CASE entries # <<>>
    BY <1>1, <1>2, <2>2, EntryAddrNat DEF TableBase
  <2>. QED
    BY <2>1, <2>2
<1>5. Index(wva, Level) \in Nat
  <2>1. IdxBits \in 0..(12 + M)
    OBVIOUS
  <2>. QED
    BY <1>1, <1>3, <2>1, ShiftRange, BitsNat DEF Index
<1>. QED
  BY <1>1, <1>2, <1>3, <1>4, <1>5 DEF Slot

(* The entry a step appends continues the chain the walk has built. *)
LEMMA NewEntryChain ==
  ASSUME IInv, wst = "walking", NEW v \in RawVals
  PROVE  LET e == NewEntry(v) IN
         /\ e.lvl = Len(entries)
         /\ e.idx = RefIndex(wva, Len(entries))
         /\ e.base = IF Len(entries) + 1 = 1 THEN wbase
                     ELSE RefNextTable(entries[Len(entries)].raw)
         /\ e.raw = v
         /\ e = PageTableEntry(e.base, e.idx, e.lvl, e.raw)
         /\ e \in EntryRec
<1>1. /\ Level \in Levels /\ TableBase \in Nat /\ Index(wva, Level) \in Nat
      /\ Len(entries) \in 0..3 /\ entries \in Seq(EntryRec)
  BY WalkingFacts DEF IInv, TypeOK
<1>2. NewEntry(v).idx = RefIndex(wva, Len(entries))
  BY <1>1, IndexRef DEF NewEntry, PageTableEntry, Level
<1>3. NewEntry(v).base = IF Len(entries) + 1 = 1 THEN wbase
                         ELSE RefNextTable(entries[Len(entries)].raw)
  <2>1. CASE entries = <<>>
    BY <1>1, <2>1 DEF NewEntry, PageTableEntry, TableBase
  <2>2. CASE entries # <<>>
    <3>. DEFINE n == Len(entries)
                last == entries[n]
    <3>1. n \in 1..3 /\ last \in EntryRec
      BY <1>1, <2>2
    <3>2. RefContinues(n - 1, last.raw) /\ last.lvl = n - 1
      BY <2>2, <3>1 DEF IInv, WalkChain
    <3>3. last = PageTableEntry(last.base, last.idx, last.lvl, last.raw)
      <4>1. n \in 1..Len(entries)
        BY <3>1
      <4>. QED
        BY <4>1 DEF IInv, Decoded
    <3>4. ~Huge(last.lvl, last.raw)
      BY <3>2 DEF RefContinues, Huge
    <3>5. last.reference = Bits(last.raw, 12, M)
      BY <3>3, <3>4 DEF PageTableEntry, Reference
    <3>6. EntryAddr(last) = RefNextTable(last.raw)
      BY <3>4, <3>5 DEF EntryAddr, RefNextTable
    <3>. QED
      BY <2>2, <3>1, <3>6 DEF NewEntry, PageTableEntry, TableBase
  <2>. QED
    BY <2>1, <2>2
<1>4. NewEntry(v) \in EntryRec
  BY <1>1, EntryType DEF NewEntry
<1>. QED
  BY <1>2, <1>3, <1>4 DEF NewEntry, PageTableEntry, Level

(* A read step of the walk: the slot read is appended to the list and the *)
(* chain, the decoding and the types are kept.                           *)
LEMMA AppendStep ==
  ASSUME IInv, wst = "walking", NEW v \in RawVals, ReadSlot(v),
         entries' = Append(entries, NewEntry(v)), wbase' = wbase, wva' = wva
  PROVE  /\ DOMAIN mem' \subseteq Nat
         /\ mem' \in [DOMAIN mem' -> RawVals]
         /\ entries' \in Seq(EntryRec)
         /\ Len(entries') = Len(entries) + 1
         /\ entries'[Len(entries')] = NewEntry(v)
         /\ NewEntry(v).lvl = Len(entries)
         /\ Decoded'
         /\ \A k \in 1..Len(entries') :
              /\ entries'[k].lvl = k - 1
              /\ entries'[k].idx = RefIndex(wva', k - 1)
              /\ entries'[k].base = IF k = 1 THEN wbase'
                                    ELSE RefNextTable(entries'[k - 1].raw)
              /\ entries'[k].base + entries'[k].idx * 8 \in DOMAIN mem'
              /\ mem'[entries'[k].base + entries'[k].idx * 8] = entries'[k].raw
         /\ \A k \in 1..(Len(entries') - 1) : RefContinues(k - 1, entries'[k].raw)
<1>. DEFINE n == Len(entries)
            e == NewEntry(v)
<1>1. /\ Slot \in Nat /\ n \in 0..3 /\ entries \in Seq(EntryRec)
      /\ DOMAIN mem \subseteq Nat /\ mem \in [DOMAIN mem -> RawVals]
  BY WalkingFacts DEF IInv, TypeOK
<1>2. /\ e.lvl = n
      /\ e.idx = RefIndex(wva, n)
      /\ e.base = IF n + 1 = 1 THEN wbase ELSE RefNextTable(entries[n].raw)
      /\ e.raw = v
      /\ e = PageTableEntry(e.base, e.idx, e.lvl, e.raw)
      /\ e \in EntryRec
  BY NewEntryChain
<1>3. e.base + e.idx * 8 = Slot
  BY DEF NewEntry, PageTableEntry, Slot
<1>4. /\ mem' = MemRead(mem, Slot, v)
      /\ Slot \in DOMAIN mem => v = mem[Slot]
  BY DEF ReadSlot
<1>5. /\ DOMAIN mem' = DOMAIN mem \cup {Slot}
      /\ mem'[Slot] = v
      /\ \A x \in DOMAIN mem : mem'[x] = mem[x]
  <2>1. /\ DOMAIN mem' = DOMAIN mem \cup {Slot}
        /\ mem'[Slot] = v
        /\ \A x \in DOMAIN mem \ {Slot} : mem'[x] = mem[x]
    BY <1>4 DEF MemRead
  <2>. QED
    BY <1>4, <2>1
<1>6. mem' \in [DOMAIN mem' -> RawVals]
  BY <1>1, <1>4 DEF MemRead
<1>7. /\ entries' \in Seq(EntryRec)
      /\ Len(entries') = n + 1
      /\ entries'[n + 1] = e
      /\ \A k \in 1..n : entries'[k] = entries[k]
  BY <1>1, <1>2
<1>8. Decoded'
  BY <1>2, <1>7 DEF IInv, Decoded
<1>9. ASSUME NEW k \in 1..(n + 1)
      PROVE  /\ entries'[k].lvl = k - 1
             /\ entries'[k].idx = RefIndex(wva', k - 1)
             /\ entries'[k].base = IF k = 1 THEN wbase'
                                   ELSE RefNextTable(entries'[k - 1].raw)
             /\ entries'[k].base + entries'[k].idx * 8 \in DOMAIN mem'
             /\ mem'[entries'[k].base + entries'[k].idx * 8] = entries'[k].raw
  <2>1. CASE k \in 1..n
    <3>1. /\ entries[k].lvl = k - 1
          /\ entries[k].idx = RefIndex(wva, k - 1)
          /\ entries[k].base = IF k = 1 THEN wbase
                               ELSE RefNextTable(entries[k - 1].raw)
          /\ entries[k].base + entries[k].idx * 8 \in DOMAIN mem
          /\ mem[entries[k].base + entries[k].idx * 8] = entries[k].raw
      BY <2>1 DEF IInv, WalkChain
    <3>2. k # 1 => entries'[k - 1] = entries[k - 1]
      BY <1>7, <2>1
    <3>. QED
      BY <1>5, <1>7, <2>1, <3>1, <3>2
  <2>2. CASE k = n + 1
    <3>1. n # 0 => entries'[n] = entries[n]
      BY <1>1, <1>7
    <3>. QED
      BY <1>2, <1>3, <1>5, <1>7, <2>2, <3>1
  <2>. QED
    BY <2>1, <2>2
<1>10. ASSUME NEW k \in 1..n
       PROVE  RefContinues(k - 1, entries'[k].raw)
  <2>1. CASE k < n
    BY <1>7, <2>1 DEF IInv, WalkChain
  <2>2. CASE k = n
    BY <1>7, <2>2 DEF IInv, WalkChain
  <2>. QED
    BY <1>1, <2>1, <2>2
<1>11. \A k \in 1..Len(entries') :
         /\ entries'[k].lvl = k - 1
         /\ entries'[k].idx = RefIndex(wva', k - 1)
         /\ entries'[k].base = IF k = 1 THEN wbase'
                               ELSE RefNextTable(entries'[k - 1].raw)
         /\ entries'[k].base + entries'[k].idx * 8 \in DOMAIN mem'
         /\ mem'[entries'[k].base + entries'[k].idx * 8] = entries'[k].raw
  BY <1>7, <1>9
<1>12. \A k \in 1..(Len(entries') - 1) : RefContinues(k - 1, entries'[k].raw)
  BY <1>1, <1>7, <1>10
<1>13. DOMAIN mem' \subseteq Nat
  BY <1>1, <1>5
<1>. QED
  BY <1>2, <1>6, <1>7, <1>8, <1>11, <1>12, <1>13

-----------------------------------------------------------------------------
(* The inductive invariant. *)

LEMMA InitIInv == Init => IInv
BY DEF Init, WalkInit, IInv, TypeOK, Started, WalkChain, Decoded, Unmapped

LEMMA NextIInv == IInv /\ [Next]_walkVars => IInv'
<1> SUFFICES ASSUME IInv, [Next]_walkVars PROVE IInv'
  OBVIOUS
<1>1. CASE \E b \in Roots, va \in VAs : Resolve(b, va) \/ ResolveRejected(b, va)
  <2>1. PICK b \in Roots, va \in VAs : Resolve(b, va) \/ ResolveRejected(b, va)
    BY <1>1
  <2>2. /\ wst' \in {"walking", "failed"} /\ wbase' = b /\ wva' = va
        /\ entries' = <<>> /\ result' = Unmapped /\ mem' = mem
    BY <2>1 DEF Resolve, ResolveRejected
  <2>. QED
    BY <2>2 DEF IInv, TypeOK, Started, WalkChain, Decoded
<1>2. CASE WalkDescend
  <2>1. PICK v \in RawVals :
          /\ ReadSlot(v)
          /\ NewEntry(v).present # 0
          /\ ~Leaf(NewEntry(v))
          /\ entries' = Append(entries, NewEntry(v))
    BY <1>2 DEF WalkDescend
  <2>2. wst = "walking" /\ UNCHANGED <<wst, wbase, wva, result>>
    BY <1>2 DEF WalkDescend
  <2>3. RefContinues(Len(entries), v)
    <3>1. NewEntry(v).lvl = Len(entries) /\ NewEntry(v).raw = v
      BY <2>1, <2>2, NewEntryChain
    <3>. QED
      BY <2>1, <3>1 DEF Leaf, NewEntry, PageTableEntry, RefContinues
  <2>4. /\ DOMAIN mem' \subseteq Nat /\ mem' \in [DOMAIN mem' -> RawVals]
        /\ entries' \in Seq(EntryRec) /\ Decoded'
        /\ entries'[Len(entries')] = NewEntry(v)
        /\ Len(entries') = Len(entries) + 1
        /\ WalkChain!1' /\ WalkChain!2'
    BY <2>1, <2>2, AppendStep DEF WalkChain
  <2>5. TypeOK' /\ Started'
    BY <2>2, <2>4 DEF IInv, TypeOK, Started
  <2>6. WalkChain'
    <3>1. /\ entries'[Len(entries')].raw = v
          /\ Len(entries') - 1 = Len(entries)
          /\ entries' # <<>>
      <4>1. Len(entries) \in Nat /\ NewEntry(v).raw = v
        BY DEF IInv, TypeOK, NewEntry, PageTableEntry
      <4>. QED
        BY <4>1, <2>4
    <3>. QED
      BY <2>2, <2>3, <2>4, <3>1 DEF WalkChain
  <2>. QED
    BY <2>4, <2>5, <2>6 DEF IInv
<1>3. CASE WalkUnmapped
  <2>1. PICK v \in RawVals :
          /\ ReadSlot(v)
          /\ NewEntry(v).present = 0
          /\ entries' = Append(entries, NewEntry(v))
    BY <1>3 DEF WalkUnmapped
  <2>2. wst = "walking" /\ wst' = "done" /\ UNCHANGED <<wbase, wva, result>>
    BY <1>3 DEF WalkUnmapped
  <2>3. ~RefContinues(Len(entries), v)
    <3>1. NewEntry(v).raw = v
      BY <2>1, <2>2, NewEntryChain
    <3>. QED
      BY <2>1, <3>1 DEF NewEntry, PageTableEntry, RefContinues
  <2>4. /\ DOMAIN mem' \subseteq Nat /\ mem' \in [DOMAIN mem' -> RawVals]
        /\ entries' \in Seq(EntryRec) /\ Decoded'
        /\ entries'[Len(entries')] = NewEntry(v)
        /\ Len(entries') = Len(entries) + 1
        /\ WalkChain!1' /\ WalkChain!2'
    BY <2>1, <2>2, AppendStep DEF WalkChain
  <2>5. TypeOK' /\ Started'
    BY <2>2, <2>4 DEF IInv, TypeOK, Started
  <2>6. WalkChain'
    <3>1. /\ entries'[Len(entries')].raw = v
          /\ Len(entries') - 1 = Len(entries)
          /\ entries' # <<>>
      <4>1. Len(entries) \in Nat /\ NewEntry(v).raw = v
        BY DEF IInv, TypeOK, NewEntry, PageTableEntry
      <4>. QED
        BY <4>1, <2>4
    <3>. QED
      BY <2>2, <2>3, <2>4, <3>1 DEF WalkChain
  <2>. QED
    BY <2>4, <2>5, <2>6 DEF IInv
<1>4. CASE WalkMapped
  <2>1. PICK v \in RawVals :
          /\ ReadSlot(v)
          /\ NewEntry(v).present # 0
          /\ Leaf(NewEntry(v))
          /\ entries' = Append(entries, NewEntry(v))
          /\ result' = [page |-> EntryAddr(NewEntry(v)),
                        size |-> PageSize(Level),
                        offset |-> PageOffset(wva, Level)]
    BY <1>4 DEF WalkMapped
  <2>2. wst = "walking" /\ wst' = "done" /\ UNCHANGED <<wbase, wva>>
    BY <1>4 DEF WalkMapped
  <2>3. ~RefContinues(Len(entries), v)
    <3>1. NewEntry(v).lvl = Len(entries) /\ NewEntry(v).raw = v
      BY <2>1, <2>2, NewEntryChain
    <3>. QED
      BY <2>1, <3>1 DEF Leaf, NewEntry, PageTableEntry, RefContinues
  <2>4. result' \in [page : Nat, size : Nat, offset : Nat]
    <3>1. Level \in Levels /\ wva \in Nat /\ NewEntry(v) \in EntryRec
      BY <2>2, WalkingFacts, NewEntryChain
    <3>2. EntryAddr(NewEntry(v)) \in Nat
      BY <3>1, EntryAddrNat
    <3>3. PageSize(Level) \in Nat
      BY <3>1, ShiftRange, PowNat DEF PageSize
    <3>4. PageOffset(wva, Level) \in Nat
      BY <3>1, ShiftRange, BitsNat DEF PageOffset
    <3>. QED
      BY <2>1, <3>2, <3>3, <3>4
  <2>7. /\ DOMAIN mem' \subseteq Nat /\ mem' \in [DOMAIN mem' -> RawVals]
        /\ entries' \in Seq(EntryRec) /\ Decoded'
        /\ entries'[Len(entries')] = NewEntry(v)
        /\ Len(entries') = Len(entries) + 1
        /\ WalkChain!1' /\ WalkChain!2'
    BY <2>1, <2>2, AppendStep DEF WalkChain
  <2>8. TypeOK' /\ Started'
    BY <2>2, <2>4, <2>7 DEF IInv, TypeOK, Started
  <2>9. WalkChain'
    <3>1. /\ entries'[Len(entries')].raw = v
          /\ Len(entries') - 1 = Len(entries)
          /\ entries' # <<>>
      <4>1. Len(entries) \in Nat /\ NewEntry(v).raw = v
        BY DEF IInv, TypeOK, NewEntry, PageTableEntry
      <4>. QED
        BY <4>1, <2>7
    <3>. QED
      BY <2>2, <2>3, <2>7, <3>1 DEF WalkChain
  <2>. QED
    BY <2>7, <2>8, <2>9 DEF IInv
<1>5. CASE UNCHANGED walkVars
  BY <1>5 DEF walkVars, IInv, TypeOK, Started, WalkChain, Decoded, Level,
     TableBase, Slot
<1>. QED
  BY <1>1, <1>2, <1>3, <1>4, <1>5 DEF Next, WalkStep

(* The walk of MMU.resolve keeps its types: the entries it decodes, the   *)
(* memory image it reads and the (page, size, offset) it returns.         *)
THEOREM TypeCorrect == Spec => []TypeOK
<1>1. IInv => TypeOK
  BY DEF IInv
<1>. QED
  BY <1>1, InitIInv, NextIInv, PTL DEF Spec

(* For every geometry and every memory image, the entries MMU.resolve     *)
(* collects are the hardware walk of the address it was given, and it     *)
(* stops exactly where the architecture stops.                           *)
THEOREM WalkChainInvariant == Spec => []WalkChain
<1>1. IInv => WalkChain
  BY DEF IInv
<1>. QED
  BY <1>1, InitIInv, NextIInv, PTL DEF Spec

=============================================================================
