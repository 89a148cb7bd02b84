----------------------- MODULE PagingRefinementProofs -----------------------
(***************************************************************************)
(* Proof that the page-table walk of MMU.resolve implements ResolveSpec,  *)
(* for every geometry, every memory image, root and address.              *)
(*                                                                         *)
(* The argument is a step-by-step simulation under the mapping of module  *)
(* PagingRefinement. A call maps to Call or Reject; a read of a slot not  *)
(* read before maps to Read, a read of a slot read before to a stutter;   *)
(* the read that ends the walk maps to Return. Each rests on WalkChain,   *)
(* the invariant of PagingProofs that the entries are the hardware walk:  *)
(* from it, the slots ResolveSpec's WalkSlot computes from the image are  *)
(* the slots of the entries (SlotsOfChain). The result of the last step  *)
(* is the hardware result by the arithmetic of PageAddress. A walk in     *)
(* progress has not set its result yet (Fresh), which is what makes an    *)
(* unmapped walk return no page.                                          *)
(***************************************************************************)
EXTENDS PagingRefinement, PagingProofs, TLAPS

(* The slot an entry was read from. *)
ESlot(e) == e.base + e.idx * 8

(* The entries follow one another as the walk of v from r: the table of  *)
(* each is the frame of the one before, at the index of its level.       *)
Links(es, r, v) ==
  \A k \in 1..Len(es) :
    /\ es[k].lvl = k - 1
    /\ es[k].idx = RefIndex(v, k - 1)
    /\ es[k].base = IF k = 1 THEN r ELSE RefNextTable(es[k - 1].raw)

(* Entries 1..n were read from the image m. *)
Stored(m, es, n) ==
  \A k \in 1..n : ESlot(es[k]) \in DOMAIN m /\ m[ESlot(es[k])] = es[k].raw

(* A walk in progress has not set its result. *)
Fresh == wst = "walking" => result = Unmapped

RInv == IInv /\ Fresh

(* The result of a walk that stopped at a present leaf of level n. *)
MappedResult(v, n) ==
  LET size == 2^(12 + (3 - n) * IdxBits)
  IN  [page |-> ((v % 2^(12 + M)) \div size) * size, size |-> size,
       offset |-> wva % size]

(* The slots of levels 0..n on ResolveSpec's walk are those entries *)
(* 1..n+1 were read from.                                            *)
SlotsAre(m, r, v, es, n) ==
  \A j \in 0..n : Resolution!WalkSlot(m, r, v)[j] = ESlot(es[j + 1])

-----------------------------------------------------------------------------
(* Arithmetic. *)

(* Division by d with quotient q and remainder r. *)
LEMMA DivUnique ==
  ASSUME NEW a \in Int, NEW d \in Nat \ {0}, NEW q \in Int, NEW r \in Int,
         a = d * q + r, 0 <= r, r < d
  PROVE  a \div d = q /\ a % d = r
OBVIOUS

(* Quotient and remainder of a natural by a positive divisor. *)
LEMMA DivMod ==
  ASSUME NEW a \in Nat, NEW d \in Nat \ {0}
  PROVE  /\ a \div d \in Nat
         /\ a % d \in 0..(d - 1)
         /\ a = d * (a \div d) + (a % d)
<1>1. a % d \in 0..(d - 1)
  OBVIOUS
<1>2. a = d * (a \div d) + (a % d)
  OBVIOUS
<1>3. a \div d \in Int
  OBVIOUS
<1>4. a \div d >= 0
  <2>. DEFINE q == a \div d
  <2> SUFFICES ASSUME q < 0 PROVE FALSE
    BY <1>3
  <2>1. q <= -1
    BY <1>3
  <2>2. d * q <= d * (-1)
    BY <2>1, <1>3
  <2>. QED
    BY <1>1, <1>2, <2>2
<1>. QED
  BY <1>1, <1>2, <1>3, <1>4

LEMMA ModDivCore ==
  ASSUME NEW P \in Nat \ {0}, NEW Q \in Nat \ {0}, NEW a \in Nat,
         NEW x \in Nat, NEW r \in Nat, NEW y \in Nat, NEW t \in Nat,
         a = (P * Q) * x + r, r < P * Q, r = P * y + t, t < P
  PROVE  r \div P = y /\ a \div P = Q * x + y /\ (Q * x + y) % Q = y
<1>1. r \div P = y
  BY DivUnique
<1>2. y < Q
  <2>1. P * y < P * Q
    OBVIOUS
  <2>. QED
    BY <2>1
<1>3. a = P * (Q * x + y) + t
  OBVIOUS
<1>4. a \div P = Q * x + y
  BY <1>3, DivUnique
<1>5. (Q * x + y) % Q = y
  BY <1>2, DivUnique
<1>. QED
  BY <1>1, <1>4, <1>5

(* The bits of a from bit p to bit p+q-1, taken from the bits below p+q *)
(* or from a shifted right by p.                                         *)
LEMMA ModDiv ==
  ASSUME NEW a \in Nat, NEW P \in Nat \ {0}, NEW Q \in Nat \ {0}
  PROVE  (a % (P * Q)) \div P = (a \div P) % Q
<1>1. P * Q \in Nat \ {0}
  OBVIOUS
<1>. DEFINE x == a \div (P * Q)
            r == a % (P * Q)
            y == r \div P
            t == r % P
<1>2. x \in Nat /\ r \in 0..(P * Q - 1) /\ a = (P * Q) * x + r
  BY <1>1, DivMod
<1>3. y \in Nat /\ t \in 0..(P - 1) /\ r = P * y + t
  <2>1. r \in Nat
    BY <1>2
  <2>. QED
    BY <2>1, DivMod, Zenon
<1>4. r \div P = y /\ a \div P = Q * x + y /\ (Q * x + y) % Q = y
  <2>. HIDE DEF x, r, y, t
  <2>1. r \in Nat /\ r < P * Q /\ t \in Nat /\ t < P
    BY <1>2, <1>3
  <2>. QED
    BY <1>2, <1>3, <2>1, ModDivCore
<1>. QED
  BY <1>4

(* Both the frame field and the translated width fit in PowWidth. *)
LEMMA WidthBounds ==
  PowWidth \in Nat /\ 12 + M <= PowWidth /\ VABits <= PowWidth
BY MAssumption, IdxBitsAssumption DEF PowWidth, VABits

(* The law of exponents, for exponents that add up to at most PowWidth, *)
(* and the powers involved are positive naturals.                       *)
LEMMA ExpAdd ==
  ASSUME NEW p \in Nat, NEW q \in Nat, p + q <= PowWidth
  PROVE  /\ 2^(p + q) = 2^p * 2^q
         /\ 2^p \in Nat \ {0} /\ 2^q \in Nat \ {0} /\ 2^(p + q) \in Nat \ {0}
<1>1. p \in 0..PowWidth /\ q \in 0..PowWidth /\ p + q \in 0..PowWidth
  BY WidthBounds
<1>. QED
  BY <1>1, PowersOfTwoAdd, PowersOfTwoWide

(* The page address of a leaf: the bits of the entry from bit s up to   *)
(* bit 12+M-1, shifted back to bit s, are the entry's bits below 12+M   *)
(* with those below s cleared.                                          *)
LEMMA PageAddress ==
  ASSUME NEW a \in Nat, NEW s \in 0..(12 + M)
  PROVE  Bits(a, s, 12 + M - s) * 2^s = ((a % 2^(12 + M)) \div 2^s) * 2^s
<1>1. 12 + M - s \in 0..(12 + M) /\ s + (12 + M - s) = 12 + M
  BY MAssumption
<1>2. 2^(12 + M) = 2^s * 2^(12 + M - s)
  BY <1>1, WidthBounds, ExpAdd
<1>3. 2^s \in Nat \ {0} /\ 2^(12 + M - s) \in Nat \ {0}
  BY <1>1, PowNat
<1>4. (a % (2^s * 2^(12 + M - s))) \div 2^s = (a \div 2^s) % 2^(12 + M - s)
  BY <1>3, ModDiv
<1>. QED
  BY <1>2, <1>4 DEF Bits
-----------------------------------------------------------------------------
(* The walk of ResolveSpec and the entries of MMU.resolve. *)

(* ResolveSpec's test that the walk goes on is RefContinues. *)
LEMMA ContinuesEquiv ==
  ASSUME NEW l, NEW raw \in Nat
  PROVE  Resolution!Continues(l, raw) <=> RefContinues(l, raw)
<1>1. Bits(raw, 0, 1) \in {0, 1} /\ Bits(raw, 7, 1) \in {0, 1}
  BY FlagBits
<1>. QED
  BY <1>1 DEF Resolution!Continues, Resolution!Fld, RefContinues, Bits,
     Table, DirectoryPtr, Directory

(* A walk stops at one level at most: every level below it went on. *)
LEMMA StopsUnique ==
  ASSUME NEW m, NEW r, NEW v, NEW a \in 0..3, NEW b \in 0..3,
         Resolution!StopsAt(m, r, v, a), Resolution!StopsAt(m, r, v, b)
  PROVE  a = b
<1>1. ~(a < b)
  BY DEF Resolution!StopsAt, Resolution!Reached
<1>2. ~(b < a)
  BY DEF Resolution!StopsAt, Resolution!Reached
<1>. QED
  BY <1>1, <1>2

(* The slot of level 0 is in the root table; that of level k in the     *)
(* table the entry of level k-1 refers to.                              *)
LEMMA WalkSlotParts ==
  ASSUME NEW m, NEW r, NEW v
  PROVE  /\ Resolution!WalkSlot(m, r, v)[0] = Resolution!SlotIn(r, v, 0)
         /\ \A k \in 1..3 :
              Resolution!WalkSlot(m, r, v)[k] =
                Resolution!SlotIn(Resolution!NextTable(m, Resolution!WalkSlot(m, r, v)[k - 1]), v, k)
BY DEF Resolution!WalkSlot

(* One link: if the slot of level j-1 is where entry e1 was read from,  *)
(* the slot of level j is where the next entry e2 is read from.          *)
LEMMA SlotLink ==
  ASSUME NEW m, NEW r, NEW v, NEW e1, NEW e2, NEW j \in 1..3,
         Resolution!WalkSlot(m, r, v)[j - 1] = ESlot(e1),
         m[ESlot(e1)] = e1.raw,
         e2.idx = RefIndex(v, j),
         e2.base = RefNextTable(e1.raw)
  PROVE  Resolution!WalkSlot(m, r, v)[j] = ESlot(e2)
<1>1. Resolution!WalkSlot(m, r, v)[j] =
        Resolution!SlotIn(Resolution!NextTable(m, ESlot(e1)), v, j)
  BY WalkSlotParts
<1>2. Resolution!NextTable(m, ESlot(e1)) = e2.base
  BY DEF Resolution!NextTable, Resolution!Fld, RefNextTable, Bits
<1>. QED
  BY <1>1, <1>2 DEF Resolution!SlotIn, Resolution!Fld, Resolution!VABits,
     RefIndex, Bits, VABits, ESlot

(* The slots ResolveSpec's walk computes are those of a chain of entries *)
(* that links up from r and whose entries but the last were read.         *)
LEMMA SlotsOfChain ==
  ASSUME NEW m, NEW r, NEW v, NEW es, NEW n \in 0..3,
         Len(es) = n + 1, Links(es, r, v), Stored(m, es, n)
  PROVE  SlotsAre(m, r, v, es, n)
<1>. DEFINE W == Resolution!WalkSlot(m, r, v)
<1>1. W[0] = ESlot(es[1])
  <2>1. es[1].base = r /\ es[1].idx = RefIndex(v, 0)
    BY DEF Links
  <2>. QED
    BY <2>1, WalkSlotParts DEF Resolution!SlotIn, Resolution!Fld,
       Resolution!VABits, RefIndex, Bits, VABits, ESlot
<1>. DEFINE Step(j) == W[j] = ESlot(es[j + 1])
<1>2. ASSUME NEW j \in 1..3, j <= n, Step(j - 1) PROVE Step(j)
  <2>1. m[ESlot(es[j])] = es[j].raw
    BY <1>2 DEF Stored
  <2>2. es[j + 1].idx = RefIndex(v, j) /\ es[j + 1].base = RefNextTable(es[j].raw)
    <3>1. j + 1 \in 1..Len(es) /\ j + 1 # 1 /\ (j + 1) - 1 = j
      BY <1>2
    <3>. QED
      BY <3>1 DEF Links
  <2>. QED
    BY <1>2, <2>1, <2>2, SlotLink
<1>3. 1 <= n => Step(1)
  BY <1>1, <1>2
<1>4. 2 <= n => Step(2)
  BY <1>3, <1>2
<1>5. 3 <= n => Step(3)
  BY <1>4, <1>2
<1>. QED
  BY <1>1, <1>3, <1>4, <1>5 DEF SlotsAre

(* The walk of a chain of n+1 linked entries, of which the first n were *)
(* read and went on, has reached level n, at the slot of the last.       *)
LEMMA ReachedOfChain ==
  ASSUME NEW m, NEW r, NEW v, NEW es, NEW n \in 0..3,
         Len(es) = n + 1, Links(es, r, v), Stored(m, es, n),
         \A j \in 0..(n - 1) : es[j + 1].raw \in Nat /\ RefContinues(j, es[j + 1].raw)
  PROVE  Resolution!Reached(m, r, v, n) /\ SlotsAre(m, r, v, es, n)
<1>0. SlotsAre(m, r, v, es, n)
  BY SlotsOfChain
<1>1. \A j \in 0..n : Resolution!WalkSlot(m, r, v)[j] = ESlot(es[j + 1])
  BY <1>0 DEF SlotsAre
<1>2. ASSUME NEW j \in 0..(n - 1)
      PROVE  /\ Resolution!WalkSlot(m, r, v)[j] \in DOMAIN m
             /\ Resolution!Continues(j, m[Resolution!WalkSlot(m, r, v)[j]])
  <2>1. j + 1 \in 1..n /\ j \in 0..n
    OBVIOUS
  <2>2. ESlot(es[j + 1]) \in DOMAIN m /\ m[ESlot(es[j + 1])] = es[j + 1].raw
    BY <2>1 DEF Stored
  <2>. QED
    BY <1>1, <2>1, <2>2, ContinuesEquiv
<1>. QED
  BY <1>0, <1>2 DEF Resolution!Reached

(* A read step of MMU.resolve: with the entry it appends, the entries    *)
(* are a chain whose walk has reached the slot read, before the read and *)
(* after it, and every entry is the image's value at its level's slot.   *)
LEMMA StepChain ==
  ASSUME IInv, wst = "walking", NEW v \in RawVals, ReadSlot(v),
         entries' = Append(entries, NewEntry(v)), wbase' = wbase, wva' = wva
  PROVE  /\ Resolution!Reached(mem, wbase, wva, Len(entries))
         /\ Resolution!WalkSlot(mem, wbase, wva)[Len(entries)] = Slot
         /\ Resolution!Reached(mem', wbase, wva, Len(entries))
         /\ Resolution!WalkSlot(mem', wbase, wva)[Len(entries)] = Slot
         /\ \A k \in 1..Len(entries') :
              /\ Resolution!WalkSlot(mem', wbase, wva)[k - 1] \in DOMAIN mem'
              /\ mem'[Resolution!WalkSlot(mem', wbase, wva)[k - 1]] = entries'[k].raw
<1>. DEFINE n == Len(entries)
            es == entries'
<1>1. n \in 0..3
  BY WalkingFacts
<1>2. /\ es \in Seq(EntryRec)
      /\ Len(es) = n + 1
      /\ es[n + 1] = NewEntry(v)
      /\ \A k \in 1..Len(es) :
           /\ es[k].lvl = k - 1
           /\ es[k].idx = RefIndex(wva', k - 1)
           /\ es[k].base = IF k = 1 THEN wbase' ELSE RefNextTable(es[k - 1].raw)
           /\ es[k].base + es[k].idx * 8 \in DOMAIN mem'
           /\ mem'[es[k].base + es[k].idx * 8] = es[k].raw
      /\ \A k \in 1..(Len(es) - 1) : RefContinues(k - 1, es[k].raw)
  BY AppendStep
<1>3. Links(es, wbase, wva)
  BY <1>2 DEF Links
<1>4. Stored(mem', es, n + 1)
  BY <1>2 DEF Stored, ESlot
<1>5. Stored(mem, es, n)
  <2>1. entries \in Seq(EntryRec)
    BY DEF IInv, TypeOK
  <2>2. \A k \in 1..n : es[k] = entries[k]
    BY <2>1
  <2>3. \A k \in 1..n : /\ entries[k].base + entries[k].idx * 8 \in DOMAIN mem
                        /\ mem[entries[k].base + entries[k].idx * 8] = entries[k].raw
    BY DEF IInv, WalkChain
  <2>. QED
    BY <2>2, <2>3 DEF Stored, ESlot
<1>6. \A j \in 0..(n - 1) : es[j + 1].raw \in Nat /\ RefContinues(j, es[j + 1].raw)
  <2>1. SUFFICES ASSUME NEW j \in 0..(n - 1)
                 PROVE  es[j + 1].raw \in Nat /\ RefContinues(j, es[j + 1].raw)
    OBVIOUS
  <2>2. j + 1 \in 1..(Len(es) - 1) /\ (j + 1) - 1 = j
    BY <1>1, <1>2
  <2>3. RefContinues((j + 1) - 1, es[j + 1].raw)
    BY <1>2, <2>2
  <2>4. es[j + 1].raw \in Nat
    <3>1. es[j + 1] \in EntryRec
      BY <1>2, <2>2
    <3>. QED
      BY <3>1, RawValsAssumption DEF EntryRec
  <2>. QED
    BY <2>2, <2>3, <2>4
<1>7. ESlot(es[n + 1]) = Slot
  BY <1>2 DEF ESlot, NewEntry, PageTableEntry, Slot
<1>8. Stored(mem', es, n)
  BY <1>4 DEF Stored
<1>. HIDE DEF n, es
<1>9. Resolution!Reached(mem, wbase, wva, n) /\ SlotsAre(mem, wbase, wva, es, n)
  BY <1>1, <1>2, <1>3, <1>5, <1>6, ReachedOfChain
<1>10. Resolution!Reached(mem', wbase, wva, n) /\ SlotsAre(mem', wbase, wva, es, n)
  BY <1>1, <1>2, <1>3, <1>8, <1>6, ReachedOfChain
<1>12. /\ Resolution!WalkSlot(mem, wbase, wva)[n] = ESlot(es[n + 1])
       /\ Resolution!WalkSlot(mem', wbase, wva)[n] = ESlot(es[n + 1])
  BY <1>1, <1>9, <1>10 DEF SlotsAre
<1>11. ASSUME NEW k \in 1..Len(es)
       PROVE  /\ Resolution!WalkSlot(mem', wbase, wva)[k - 1] \in DOMAIN mem'
              /\ mem'[Resolution!WalkSlot(mem', wbase, wva)[k - 1]] = es[k].raw
  <2>1. \A j \in 0..n : Resolution!WalkSlot(mem', wbase, wva)[j] = ESlot(es[j + 1])
    BY <1>10 DEF SlotsAre
  <2>2. k - 1 \in 0..n /\ (k - 1) + 1 = k /\ k \in 1..(n + 1)
    BY <1>1, <1>2
  <2>3. Resolution!WalkSlot(mem', wbase, wva)[k - 1] = ESlot(es[(k - 1) + 1])
    BY <2>1, <2>2, Zenon
  <2>4. Resolution!WalkSlot(mem', wbase, wva)[k - 1] = ESlot(es[k])
    BY <2>2, <2>3
  <2>. QED
    BY <1>4, <2>2, <2>4 DEF Stored
<1>. QED
  BY <1>7, <1>9, <1>10, <1>11, <1>12 DEF n, es

(* The memory a read leaves: unchanged when the slot was read before,    *)
(* ResolveSpec's next read of the walk when it was not.                  *)
LEMMA MemStep ==
  ASSUME IInv, NEW v \in RawVals, ReadSlot(v), NEW n \in 0..3,
         Resolution!Reached(mem, wbase, wva, n),
         Resolution!WalkSlot(mem, wbase, wva)[n] = Slot
  PROVE  /\ Slot \in DOMAIN mem => mem' = mem
         /\ Slot \notin DOMAIN mem => Resolution!ReadNext(mem, mem', wbase, wva)
<1>1. mem' = MemRead(mem, Slot, v) /\ (Slot \in DOMAIN mem => v = mem[Slot])
  BY DEF ReadSlot
<1>2. mem \in [DOMAIN mem -> RawVals]
  BY DEF IInv, TypeOK
<1>3. Slot \in DOMAIN mem => mem' = mem
  BY <1>1, <1>2 DEF MemRead
<1>4. Slot \notin DOMAIN mem => Resolution!ReadNext(mem, mem', wbase, wva)
  BY <1>1 DEF Resolution!ReadNext, Resolution!MemRead, MemRead
<1>. QED
  BY <1>3, <1>4
-----------------------------------------------------------------------------
(* The steps of the walk as steps of ResolveSpec. *)

LEMMA InitRInv == Init => RInv
BY InitIInv DEF Init, WalkInit, RInv, Fresh

(* Only a call starts a walk, and it clears the result; the reads that   *)
(* go on leave the result alone.                                          *)
LEMMA NextRInv == RInv /\ [Next]_walkVars => RInv'
<1> SUFFICES ASSUME RInv, [Next]_walkVars PROVE RInv'
  OBVIOUS
<1>1. IInv'
  BY NextIInv DEF RInv
<1>2. Fresh'
  <2>1. ASSUME NEW b \in Roots, NEW va \in VAs, Resolve(b, va) PROVE Fresh'
    BY <2>1 DEF Resolve, Fresh
  <2>2. ASSUME NEW b \in Roots, NEW va \in VAs, ResolveRejected(b, va) PROVE Fresh'
    BY <2>2 DEF ResolveRejected, Fresh
  <2>3. CASE WalkDescend
    BY <2>3 DEF WalkDescend, RInv, Fresh
  <2>4. CASE WalkUnmapped \/ WalkMapped
    BY <2>4 DEF WalkUnmapped, WalkMapped, Fresh
  <2>5. CASE UNCHANGED walkVars
    BY <2>5 DEF walkVars, RInv, Fresh
  <2>. QED
    BY <2>1, <2>2, <2>3, <2>4, <2>5 DEF Next, WalkStep
<1>. QED
  BY <1>1, <1>2 DEF RInv

(* HwResult's level is the one the walk stops at. *)
LEMMA StopLevel ==
  ASSUME NEW m, NEW r, NEW v, NEW n \in 0..3, Resolution!StopsAt(m, r, v, n)
  PROVE  (CHOOSE l \in 0..3 : Resolution!StopsAt(m, r, v, l)) = n
<1>1. \A l \in 0..3 : Resolution!StopsAt(m, r, v, l) => l = n
  BY StopsUnique
<1>. QED
  BY <1>1

(* addr() of a leaf is the leaf's bits below 12+M with those below the  *)
(* page size cleared: the PT entry's 4 KiB frame, or the huge page's     *)
(* frame narrowed to the page boundary by the PDPEntry/PDEntry override.  *)
LEMMA LeafPage ==
  ASSUME NEW b, NEW i, NEW l \in Levels, NEW v \in Nat,
         Leaf(PageTableEntry(b, i, l, v))
  PROVE  EntryAddr(PageTableEntry(b, i, l, v))
           = ((v % 2^(12 + M)) \div 2^Shift(l)) * 2^Shift(l)
<1>. DEFINE e == PageTableEntry(b, i, l, v)
<1>1. Shift(l) \in 0..(12 + M)
  BY ShiftRange
<1>2. Bits(v, Shift(l), 12 + M - Shift(l)) * 2^Shift(l)
        = ((v % 2^(12 + M)) \div 2^Shift(l)) * 2^Shift(l)
  BY <1>1, PageAddress
<1>3. CASE l = Table
  <2>1. ~Huge(l, v) /\ Shift(l) = 12
    BY <1>3, IdxBitsAssumption DEF Huge, Table, DirectoryPtr, Directory, Shift
  <2>2. EntryAddr(e) = Bits(v, 12, M) * 2^12
    BY <2>1 DEF EntryAddr, PageTableEntry, Reference
  <2>3. 12 + M - 12 = M
    BY MAssumption
  <2>. QED
    BY <1>2, <2>1, <2>2, <2>3
<1>4. CASE l # Table
  <2>1. l \in {DirectoryPtr, Directory} /\ Bits(v, 7, 1) # 0
    BY <1>4 DEF Leaf, PageTableEntry
  <2>2. Huge(l, v)
    BY <2>1, FlagBits DEF Huge
  <2>3. EntryAddr(e) = Bits(v, Shift(l), M - (Shift(l) - 12)) * 2^Shift(l)
    BY <2>2 DEF EntryAddr, PageTableEntry, Reference
  <2>4. M - (Shift(l) - 12) = 12 + M - Shift(l)
    BY <1>1, MAssumption
  <2>. QED
    BY <1>2, <2>3, <2>4
<1>. QED
  BY <1>3, <1>4
(* The read that ends the walk is ResolveSpec's Return: the walk stops at *)
(* the slot read, and the entries and the result the code returns are     *)
(* HwResult.                                                               *)
LEMMA ReturnStep ==
  ASSUME RInv, wst = "walking", NEW v \in RawVals, ReadSlot(v),
         entries' = Append(entries, NewEntry(v)), wbase' = wbase, wva' = wva,
         wst' = "done", ~RefContinues(Len(entries), v),
         result' = IF Bits(v, 0, 1) = 1 THEN MappedResult(v, Len(entries))
                                        ELSE Unmapped
  PROVE  Resolution!Return
<1>. DEFINE n == Len(entries)
            W == Resolution!WalkSlot(mem', wbase, wva)
<1>1. n \in 0..3 /\ wva \in Nat /\ entries \in Seq(EntryRec)
  BY WalkingFacts DEF RInv, IInv, TypeOK
<1>2. /\ Resolution!Reached(mem, wbase, wva, n)
      /\ Resolution!WalkSlot(mem, wbase, wva)[n] = Slot
      /\ Resolution!Reached(mem', wbase, wva, n)
      /\ \A k \in 1..Len(entries') : W[k - 1] \in DOMAIN mem' /\ mem'[W[k - 1]] = entries'[k].raw
  BY StepChain DEF RInv
<1>3. Len(entries') = n + 1 /\ entries'[n + 1].raw = v
  BY <1>1 DEF NewEntry, PageTableEntry
<1>4. W[n] \in DOMAIN mem' /\ mem'[W[n]] = v
  <2>1. n + 1 \in 1..Len(entries') /\ (n + 1) - 1 = n
    BY <1>1, <1>3
  <2>2. W[(n + 1) - 1] \in DOMAIN mem' /\ mem'[W[(n + 1) - 1]] = entries'[n + 1].raw
    BY <1>2, <2>1, Zenon
  <2>. QED
    BY <1>3, <2>1, <2>2
<1>5. ~Resolution!Continues(n, v)
  BY <1>1, ContinuesEquiv, RawValsAssumption
<1>6. Resolution!StopsAt(mem', wbase, wva, n)
  BY <1>2, <1>4, <1>5 DEF Resolution!StopsAt
<1>7. Resolution!Walked(mem', wbase, wva)
  BY <1>1, <1>6 DEF Resolution!Walked
<1>8. (CHOOSE l \in 0..3 : Resolution!StopsAt(mem', wbase, wva, l)) = n
  BY <1>1, <1>6, StopLevel
<1>9. mem' = mem \/ Resolution!ReadNext(mem, mem', wbase, wva)
  BY <1>1, <1>2, MemStep DEF RInv
<1>10. [k \in 1..Len(entries') |-> entries'[k].raw] = [k \in 1..(n + 1) |-> mem'[W[k - 1]]]
  BY <1>2, <1>3
<1>11. Resolution!Fld(v, 0, 1) = Bits(v, 0, 1)
  BY DEF Resolution!Fld, Bits
<1>12. ResolveOut' = Resolution!HwResult(mem', wbase, wva)
  BY <1>4, <1>8, <1>10, <1>11 DEF ResolveOut, Resolution!HwResult, MappedResult, Unmapped
<1>. QED
  BY <1>7, <1>9, <1>12 DEF Resolution!Return

(* A read that lets the walk go on is ResolveSpec's Read when the slot is *)
(* new, and changes nothing the caller sees when it was read before.      *)
LEMMA DescendStep ==
  ASSUME RInv, WalkDescend
  PROVE  Resolution!Read \/ UNCHANGED Resolution!vars
<1>1. PICK v \in RawVals : /\ ReadSlot(v)
                           /\ entries' = Append(entries, NewEntry(v))
  BY DEF WalkDescend
<1>2. wst = "walking" /\ UNCHANGED <<wst, wbase, wva, result>>
  BY DEF WalkDescend
<1>3. Len(entries) \in 0..3
  BY <1>2, WalkingFacts DEF RInv
<1>4. /\ Resolution!Reached(mem, wbase, wva, Len(entries))
      /\ Resolution!WalkSlot(mem, wbase, wva)[Len(entries)] = Slot
  BY <1>1, <1>2, StepChain DEF RInv
<1>5. /\ Slot \in DOMAIN mem => mem' = mem
      /\ Slot \notin DOMAIN mem => Resolution!ReadNext(mem, mem', wbase, wva)
  BY <1>1, <1>3, <1>4, MemStep DEF RInv
<1>6. ResolveOut' = None /\ ResolveOut = None
  BY <1>2 DEF ResolveOut
<1>. QED
  BY <1>2, <1>5, <1>6 DEF Resolution!Read, Resolution!vars
(* A walk that meets a non-present entry returns no page. *)
LEMMA UnmappedStep ==
  ASSUME RInv, WalkUnmapped
  PROVE  Resolution!Return
<1>1. PICK v \in RawVals : /\ ReadSlot(v)
                           /\ NewEntry(v).present = 0
                           /\ entries' = Append(entries, NewEntry(v))
  BY DEF WalkUnmapped
<1>2. wst = "walking" /\ wst' = "done" /\ UNCHANGED <<wbase, wva, result>>
  BY DEF WalkUnmapped
<1>3. Bits(v, 0, 1) = 0
  BY <1>1 DEF NewEntry, PageTableEntry
<1>4. ~RefContinues(Len(entries), v)
  BY <1>3 DEF RefContinues
<1>5. result' = Unmapped
  BY <1>2 DEF RInv, Fresh
<1>. QED
  BY <1>1, <1>2, <1>3, <1>4, <1>5, ReturnStep

(* The size and the offset of a page mapped at level n. *)
LEMMA PageSizeOffset ==
  ASSUME NEW n \in Levels, NEW a \in Nat
  PROVE  /\ Shift(n) = 12 + (3 - n) * IdxBits
         /\ PageSize(n) = 2^(12 + (3 - n) * IdxBits)
         /\ PageOffset(a, n) = a % 2^(12 + (3 - n) * IdxBits)
<1>1. Shift(n) = 12 + (3 - n) * IdxBits
  BY DEF Shift, Table
<1>2. 2^0 = 1
  OBVIOUS
<1>3. a \div 1 = a
  OBVIOUS
<1>. QED
  BY <1>1, <1>2, <1>3 DEF PageSize, PageOffset, Bits

(* A walk that meets a present leaf returns its page, size and offset. *)
LEMMA MappedStep ==
  ASSUME RInv, WalkMapped
  PROVE  Resolution!Return
<1>1. PICK v \in RawVals :
        /\ ReadSlot(v)
        /\ NewEntry(v).present # 0
        /\ Leaf(NewEntry(v))
        /\ entries' = Append(entries, NewEntry(v))
        /\ result' = [page |-> EntryAddr(NewEntry(v)),
                      size |-> PageSize(Level),
                      offset |-> PageOffset(wva, Level)]
  BY DEF WalkMapped
<1>2. wst = "walking" /\ wst' = "done" /\ UNCHANGED <<wbase, wva>>
  BY DEF WalkMapped
<1>. DEFINE n == Len(entries)
<1>3. n \in Levels /\ Level = n /\ wva \in Nat /\ v \in Nat
  BY <1>2, WalkingFacts, RawValsAssumption DEF RInv, Level
<1>4. Bits(v, 0, 1) = 1
  BY <1>1, <1>3, FlagBits DEF NewEntry, PageTableEntry
<1>5. ~RefContinues(n, v)
  BY <1>1, <1>3 DEF NewEntry, PageTableEntry, Leaf, RefContinues
<1>6. EntryAddr(NewEntry(v)) = ((v % 2^(12 + M)) \div 2^Shift(n)) * 2^Shift(n)
  BY <1>1, <1>3, LeafPage DEF NewEntry
<1>7. result' = MappedResult(v, n)
  BY <1>1, <1>3, <1>6, PageSizeOffset DEF MappedResult
<1>. QED
  BY <1>1, <1>2, <1>4, <1>5, <1>7, ReturnStep

(* Every step of the walk is a step of ResolveSpec or leaves what the   *)
(* caller sees unchanged.                                                *)
LEMMA NextRefines == RInv /\ [Next]_walkVars => [Resolution!Next]_Resolution!vars
<1> SUFFICES ASSUME RInv, [Next]_walkVars PROVE [Resolution!Next]_Resolution!vars
  OBVIOUS
<1>1. ASSUME NEW b \in Roots, NEW va \in VAs, Resolve(b, va) PROVE Resolution!Next
  <2>1. Resolution!Call(b, va)
    BY <1>1 DEF Resolve, Resolution!Call, ResolveOut
  <2>. QED
    BY <2>1 DEF Resolution!Next
<1>2. ASSUME NEW b \in Roots, NEW va \in VAs, ResolveRejected(b, va)
      PROVE  Resolution!Next
  <2>1. Resolution!Reject(b, va)
    BY <1>2 DEF ResolveRejected, Resolution!Reject, ResolveOut
  <2>. QED
    BY <2>1 DEF Resolution!Next
<1>3. CASE WalkDescend
  BY <1>3, DescendStep DEF Resolution!Next
<1>4. CASE WalkUnmapped
  BY <1>4, UnmappedStep DEF Resolution!Next
<1>5. CASE WalkMapped
  BY <1>5, MappedStep DEF Resolution!Next
<1>6. CASE UNCHANGED walkVars
  BY <1>6 DEF walkVars, Resolution!vars, ResolveOut
<1>. QED
  BY <1>1, <1>2, <1>3, <1>4, <1>5, <1>6 DEF Next, WalkStep

(* MMU.resolve implements what spec.md promises of resolve, for every    *)
(* geometry, memory image, root and address: its reads are the hardware  *)
(* walk's, in level order, a reread slot changes nothing, and it returns *)
(* the entries visited and the page, size and offset of the hardware      *)
(* translation, or none at a non-present entry.                          *)
THEOREM Refinement == Spec => ImplementsResolve
<1>1. Init => Resolution!Init
  BY DEF Init, WalkInit, Resolution!Init, ResolveOut
<1>2. Spec => []RInv
  BY InitRInv, NextRInv, PTL DEF Spec
<1>. QED
  BY <1>1, <1>2, NextRefines, PTL DEF Spec, ImplementsResolve, Resolution!Spec
=============================================================================
