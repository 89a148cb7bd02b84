----------------------- MODULE PagingTranslationProofs -----------------------
(***************************************************************************)
(* Proof that every mapped result of MMU.resolve is the translation of    *)
(* the address it was given (TranslationCorrect), for every geometry,     *)
(* memory image, root and address.                                        *)
(*                                                                         *)
(* TranslationCorrect is not inductive: a done walk must also remember    *)
(* that its result was computed from its last entry. Mapped says so: a   *)
(* done walk with a page has the page, size and offset of the leaf the   *)
(* walk stopped at (MappedResult). Only the read of a present leaf sets   *)
(* a page, and it sets that one; a non-present entry leaves the result    *)
(* the call cleared (Fresh). From Mapped, the page and the size follow by *)
(* the level arithmetic, and the address is recovered by splitting it     *)
(* into its index fields from the top (ModSplit, LevelSplit, DigitSum).    *)
(***************************************************************************)
EXTENDS PagingRefinementProofs

(* A finished walk with a page returns the result of its last entry. *)
Mapped ==
  (wst = "done" /\ result.page # None) =>
    result = MappedResult(entries[Len(entries)].raw, Len(entries) - 1)

TInv == RInv /\ Mapped

(* The bits of a below the index field of level k-1 (k = 0: below VABits). *)
Rest(a, k) == a % 2^(VABits - k * IdxBits)

(* The k-th index field of a, in place. *)
Digit(a, k) ==
  Bits(a, VABits - k * IdxBits, IdxBits) * 2^(VABits - k * IdxBits)

(* The first n index fields of a, in place. *)
Digits(a, n) ==
  LET d(k) == IF k <= n THEN Digit(a, k) ELSE 0
  IN  d(1) + d(2) + d(3) + d(4)

-----------------------------------------------------------------------------
(* Arithmetic. *)

(* The remainder by P of the remainder by P * Q is the remainder by P. *)
LEMMA ModMod ==
  ASSUME NEW a \in Nat, NEW P \in Nat \ {0}, NEW Q \in Nat \ {0}
  PROVE  (a % (P * Q)) % P = a % P
<1>1. P * Q \in Nat \ {0}
  OBVIOUS
<1>. DEFINE x == a \div (P * Q)
            r == a % (P * Q)
            y == r \div P
            t == r % P
<1>2. x \in Nat /\ r \in 0..(P * Q - 1) /\ a = (P * Q) * x + r
  BY <1>1, DivMod
<1>3. y \in Nat /\ t \in 0..(P - 1) /\ r = P * y + t
  <2>1. r \in Nat
    BY <1>2
  <2>. QED
    BY <2>1, DivMod, Zenon
<1>. HIDE DEF x, r, y, t
<1>4. a = P * (Q * x + y) + t /\ Q * x + y \in Int
  BY <1>2, <1>3
<1>5. a % P = t
  BY <1>3, <1>4, DivUnique
<1>. QED
  BY <1>5 DEF t, r

(* The bits of a below s+w are its w bits from bit s on, in place, and *)
(* its bits below s.                                                    *)
LEMMA ModSplit ==
  ASSUME NEW a \in Nat, NEW s \in Nat, NEW w \in Nat, s + w <= PowWidth
  PROVE  a % 2^(s + w) = Bits(a, s, w) * 2^s + (a % 2^s)
<1>1. 2^(s + w) = 2^s * 2^w /\ 2^s \in Nat \ {0} /\ 2^w \in Nat \ {0}
  BY ExpAdd
<1>. DEFINE P == 2^s
            Q == 2^w
            r == a % (P * Q)
<1>2. r \in Nat
  <2>1. P * Q \in Nat \ {0}
    BY <1>1
  <2>. QED
    BY <2>1, DivMod
<1>3. r = P * (r \div P) + (r % P)
  BY <1>1, <1>2, DivMod
<1>4. r \div P = (a \div P) % Q
  BY <1>1, ModDiv
<1>5. r % P = a % P
  BY <1>1, ModMod
<1>. QED
  BY <1>1, <1>3, <1>4, <1>5 DEF Bits

(* The remainders and fields of the split are naturals. *)
LEMMA RestDigitNat ==
  ASSUME NEW a \in Nat, NEW k \in 0..4
  PROVE  Rest(a, k) \in Nat /\ Digit(a, k) \in Nat
<1>1. VABits - k * IdxBits \in 0..PowWidth /\ IdxBits \in 0..PowWidth
  BY WidthBounds, IdxBitsAssumption DEF VABits
<1>2. 2^(VABits - k * IdxBits) \in Nat \ {0} /\ 2^IdxBits \in Nat \ {0}
  BY <1>1, PowersOfTwoWide
<1>. DEFINE e == VABits - k * IdxBits
            d == 2^e
            q == a \div d
<1>3. d \in Nat \ {0} /\ 2^IdxBits \in Nat \ {0}
  BY <1>2
<1>. HIDE DEF d
<1>4. a % d \in 0..(d - 1) /\ q \in Nat
  BY <1>3, DivMod, Zenon
<1>. HIDE DEF q
<1>5. q % 2^IdxBits \in 0..(2^IdxBits - 1)
  BY <1>3, <1>4, DivMod, Zenon
<1>. QED
  BY <1>3, <1>4, <1>5 DEF Rest, Digit, Bits, d, q

(* Splitting off the index field of level k-1. *)
LEMMA LevelSplit ==
  ASSUME NEW a \in Nat, NEW k \in 1..4
  PROVE  Rest(a, k - 1) = Digit(a, k) + Rest(a, k)
<1>1. /\ VABits - k * IdxBits \in Nat
      /\ (VABits - k * IdxBits) + IdxBits = VABits - (k - 1) * IdxBits
      /\ (VABits - k * IdxBits) + IdxBits <= PowWidth
  BY WidthBounds, IdxBitsAssumption DEF VABits
<1>2. a % 2^((VABits - k * IdxBits) + IdxBits)
        = Bits(a, VABits - k * IdxBits, IdxBits) * 2^(VABits - k * IdxBits)
          + (a % 2^(VABits - k * IdxBits))
  BY <1>1, IdxBitsAssumption, ModSplit
<1>. QED
  BY <1>1, <1>2 DEF Rest, Digit

(* The first n index fields and the bits below them are the bits below *)
(* VABits.                                                              *)
LEMMA DigitSum ==
  ASSUME NEW a \in Nat, NEW n \in 0..4
  PROVE  Digits(a, n) + Rest(a, n) = Rest(a, 0)
<1>1. Rest(a, 0) = Digit(a, 1) + Rest(a, 1)
  BY LevelSplit
<1>2. Rest(a, 1) = Digit(a, 2) + Rest(a, 2)
  BY LevelSplit
<1>3. Rest(a, 2) = Digit(a, 3) + Rest(a, 3)
  BY LevelSplit
<1>4. Rest(a, 3) = Digit(a, 4) + Rest(a, 4)
  BY LevelSplit
<1>5. \A k \in 0..4 : Rest(a, k) \in Nat /\ Digit(a, k) \in Nat
  BY RestDigitNat
<1>. QED
  BY <1>1, <1>2, <1>3, <1>4, <1>5 DEF Digits
-----------------------------------------------------------------------------
(* The invariant. *)

LEMMA InitTInv == Init => TInv
BY InitRInv DEF Init, WalkInit, TInv, Mapped

(* The read of a present leaf sets the result of the entry it appends. *)
LEMMA MappedSets ==
  ASSUME RInv, WalkMapped
  PROVE  Mapped'
<1>1. PICK v \in RawVals :
        /\ ReadSlot(v)
        /\ NewEntry(v).present # 0
        /\ Leaf(NewEntry(v))
        /\ entries' = Append(entries, NewEntry(v))
        /\ result' = [page |-> EntryAddr(NewEntry(v)),
                      size |-> PageSize(Level),
                      offset |-> PageOffset(wva, Level)]
  BY DEF WalkMapped
<1>2. wst = "walking" /\ UNCHANGED wva
  BY DEF WalkMapped
<1>. DEFINE n == Len(entries)
<1>3. n \in Levels /\ Level = n /\ wva \in Nat /\ v \in Nat
      /\ entries \in Seq(EntryRec)
  BY <1>2, WalkingFacts, RawValsAssumption DEF RInv, IInv, TypeOK, Level
<1>4. EntryAddr(NewEntry(v)) = ((v % 2^(12 + M)) \div 2^Shift(n)) * 2^Shift(n)
  BY <1>1, <1>3, LeafPage DEF NewEntry
<1>5. result' = MappedResult(v, n)
  BY <1>1, <1>3, <1>4, PageSizeOffset DEF MappedResult
<1>6. Len(entries') = n + 1 /\ entries'[Len(entries')].raw = v
  BY <1>1, <1>3 DEF NewEntry, PageTableEntry
<1>. QED
  BY <1>2, <1>3, <1>5, <1>6 DEF Mapped, MappedResult

(* A call clears the result, a read that goes on or stops at a missing *)
(* entry leaves it alone, and only the read of a present leaf sets one.  *)
LEMMA NextTInv == TInv /\ [Next]_walkVars => TInv'
<1> SUFFICES ASSUME TInv, [Next]_walkVars PROVE TInv'
  OBVIOUS
<1>1. RInv'
  BY NextRInv DEF TInv
<1>2. Mapped'
  <2>1. ASSUME NEW b \in Roots, NEW va \in VAs, Resolve(b, va) PROVE Mapped'
    BY <2>1 DEF Resolve, Mapped
  <2>2. ASSUME NEW b \in Roots, NEW va \in VAs, ResolveRejected(b, va)
        PROVE  Mapped'
    BY <2>2 DEF ResolveRejected, Mapped, Unmapped
  <2>3. CASE WalkDescend
    BY <2>3 DEF WalkDescend, Mapped
  <2>4. CASE WalkUnmapped
    BY <2>4 DEF WalkUnmapped, TInv, RInv, Fresh, Mapped, Unmapped
  <2>5. CASE WalkMapped
    BY <2>5, MappedSets DEF TInv
  <2>6. CASE UNCHANGED walkVars
    BY <2>6 DEF walkVars, TInv, Mapped, MappedResult
  <2>. QED
    BY <2>1, <2>2, <2>3, <2>4, <2>5, <2>6 DEF Next, WalkStep
<1>. QED
  BY <1>1, <1>2 DEF TInv

-----------------------------------------------------------------------------
(* The translation. *)

(* Entry k of a walk holds the k-th index field of the address. *)
LEMMA ChainDigit ==
  ASSUME IInv, NEW n \in 1..4, n = Len(entries), NEW k \in 1..n
  PROVE  entries[k].idx * 2^(VABits - k * IdxBits) = Digit(wva, k)
<1>1. entries[k].idx = RefIndex(wva, k - 1)
  BY DEF IInv, WalkChain
<1>2. VABits - ((k - 1) + 1) * IdxBits = VABits - k * IdxBits
  OBVIOUS
<1>. QED
  BY <1>1, <1>2 DEF RefIndex, Digit

(* A done walk with a page has read one to four entries, the last of   *)
(* level n-1.                                                          *)
LEMMA DoneLength ==
  ASSUME IInv, wst = "done"
  PROVE  /\ Len(entries) \in 1..4
         /\ entries[Len(entries)].lvl = Len(entries) - 1
         /\ wva \in Nat
<1>1. entries \in Seq(EntryRec) /\ entries # <<>> /\ wva \in VAs
  BY DEF IInv, TypeOK, WalkChain, Started
<1>2. entries[Len(entries)].lvl = Len(entries) - 1
  BY <1>1 DEF IInv, WalkChain
<1>3. entries[Len(entries)].lvl \in Levels
  <2>1. entries[Len(entries)] \in EntryRec
    BY <1>1
  <2>. QED
    BY <2>1 DEF EntryRec
<1>. QED
  BY <1>1, <1>2, <1>3, VAsAssumption DEF Levels, PML4, DirectoryPtr,
     Directory, Table

(* The page size exponent of a walk that read n entries. *)
LEMMA SizeExponent ==
  ASSUME NEW n \in 1..4
  PROVE  /\ VABits - n * IdxBits = 12 + (3 - (n - 1)) * IdxBits
         /\ VABits - n * IdxBits \in 0..PowWidth
BY WidthBounds, IdxBitsAssumption DEF VABits

(* The invariant gives the translation. *)
LEMMA TInvCorrect == TInv => TranslationCorrect
<1> SUFFICES ASSUME TInv, wst = "done", result.page # None
             PROVE  TranslationCorrect
  BY DEF TranslationCorrect
<1>. DEFINE n == Len(entries)
            size == 2^(VABits - n * IdxBits)
            term(k) ==
              IF k <= n THEN entries[k].idx * 2^(VABits - k * IdxBits) ELSE 0
<1>1. n \in 1..4 /\ wva \in Nat
  BY DoneLength DEF TInv, RInv
<1>2. result = MappedResult(entries[n].raw, n - 1)
  BY DEF TInv, Mapped
<1>3. VABits - n * IdxBits = 12 + (3 - (n - 1)) * IdxBits
      /\ VABits - n * IdxBits \in 0..PowWidth
  BY <1>1, SizeExponent
<1>4. size \in Nat \ {0}
  BY <1>3, PowersOfTwoWide
<1>5. /\ result.size = size
      /\ result.offset = wva % size
      /\ result.page = ((entries[n].raw % 2^(12 + M)) \div size) * size
  BY <1>2, <1>3 DEF MappedResult
<1>6. Rest(wva, n) = result.offset /\ Rest(wva, 0) = wva % 2^VABits
  <2>1. Rest(wva, n) = wva % size
    BY DEF Rest
  <2>2. VABits - 0 * IdxBits = VABits
    BY IdxBitsAssumption DEF VABits
  <2>. QED
    BY <1>5, <2>1, <2>2 DEF Rest
<1>7. \A k \in 1..4 : term(k) = IF k <= n THEN Digit(wva, k) ELSE 0
  BY <1>1, ChainDigit DEF TInv, RInv
<1>8. term(1) + term(2) + term(3) + term(4) = Digits(wva, n)
  BY <1>7 DEF Digits
<1>. HIDE DEF n, size
<1>9. result.offset < size
  <2>1. wva % size \in 0..(size - 1)
    BY <1>1, <1>4, DivMod, Zenon
  <2>. QED
    BY <1>4, <1>5, <2>1
<1>10. Digits(wva, n) + result.offset = wva % 2^VABits
  <2>1. n \in 0..4
    BY <1>1
  <2>2. Digits(wva, n) + Rest(wva, n) = Rest(wva, 0)
    BY <1>1, <2>1, DigitSum
  <2>. QED
    BY <1>6, <2>2
<1>. QED
  BY <1>5, <1>8, <1>9, <1>10 DEF TranslationCorrect, n, size

(* Every page MMU.resolve returns is the translation of the address it  *)
(* was given, for every geometry, memory image, root and address: the   *)
(* size is the page size of the level the walk stopped at, the offset   *)
(* is below it, the page is the leaf's frame cut at the page boundary,  *)
(* and the indices split_addr took with the offset rebuild the address. *)
THEOREM TranslationCorrectInvariant == Spec => []TranslationCorrect
<1>1. Spec => []TInv
  BY InitTInv, NextTInv, PTL DEF Spec
<1>. QED
  BY <1>1, TInvCorrect, PTL
=============================================================================
