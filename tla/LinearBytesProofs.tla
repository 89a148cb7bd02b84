------------------------- MODULE LinearBytesProofs -------------------------
(***************************************************************************)
(* Proof that MMU.linear_bytes never returns a partial read (spec.md 4.3), *)
(* for every geometry, memory image, start and length: when it returns,   *)
(* chunks holds exactly len bytes.                                         *)
(*                                                                         *)
(* NoPartialRead is not inductive: it speaks of the state after the loop  *)
(* only. The loop keeps Counted: the bytes read plus the local len are    *)
(* the len of the call, and len never goes below 0, so len is 0 when the  *)
(* loop test fails. That the 8-byte loop appends 8 bytes and the 1-byte   *)
(* loop one needs the page, size and offset to be numbers, which come     *)
(* from resolve's result (Numbers).                                        *)
(***************************************************************************)
EXTENDS LinearBytes, SequenceTheorems, TLAPS

USE MappingsAssumption, StartsAssumption, LensAssumption, GeometryAssumption

LoopPcs == {"loop", "resolving", "read8", "read1"}
PagePcs == {"read8", "read1"}

(* The values the counting rests on are numbers. *)
Numbers ==
  /\ len \in Nat
  /\ len0 \in Nat
  /\ chunks \in Seq(Nat)
  /\ lpc \in {"idle", "done", "raised"} \cup LoopPcs
  /\ lpc \in LoopPcs => addr \in Nat
  /\ lpc \in PagePcs => page \in Nat /\ size \in Nat /\ offset \in Nat
  /\ wst = "walking" => wva \in Nat
  /\ result \in [page : Nat, size : Nat, offset : Nat] \cup {W!Unmapped}

(* The bytes read so far and the bytes still to read make up the call's *)
(* len; a returned call has nothing left to read.                       *)
Counted ==
  /\ lpc \in LoopPcs \cup {"done"} => Len(chunks) + len = len0
  /\ lpc = "done" => len = 0

IInv == Numbers /\ Counted

-----------------------------------------------------------------------------
(* Lemmas on the operators of the walk. *)

LEMMA PowNat ==
  ASSUME NEW n \in 0..(12 + M)
  PROVE  2^n \in Nat \ {0}
BY PowersOfTwoAssumption

(* A leaf of the walk is at level 1, 2 or 3. *)
LEMMA LeafLevel ==
  ASSUME NEW v, W!Leaf(W!NewEntry(v))
  PROVE  W!Level \in {1, 2, 3}
<1>1. W!NewEntry(v).lvl = W!Level
  BY DEF W!NewEntry, W!PageTableEntry
<1>. QED
  BY <1>1 DEF W!Leaf, W!Table, W!DirectoryPtr, W!Directory

(* The shifts of levels 1 to 3 and the widths of their huge frames. *)
LEMMA ShiftRange ==
  ASSUME NEW l \in {1, 2, 3}
  PROVE  /\ W!Shift(l) \in 0..(12 + M)
         /\ M - (W!Shift(l) - 12) \in 0..(12 + M)
BY DEF W!Shift, W!Table

(* What WalkMapped returns is a triple of numbers. *)
LEMMA MappedResult ==
  ASSUME NEW v \in RawVals, wva \in Nat, W!Leaf(W!NewEntry(v))
  PROVE  [page |-> W!EntryAddr(W!NewEntry(v)),
          size |-> W!PageSize(W!Level),
          offset |-> W!PageOffset(wva, W!Level)]
           \in [page : Nat, size : Nat, offset : Nat]
<1>1. W!Level \in {1, 2, 3}
  BY LeafLevel
<1>2. W!Shift(W!Level) \in 0..(12 + M)
      /\ M - (W!Shift(W!Level) - 12) \in 0..(12 + M)
  BY <1>1, ShiftRange
<1>3. 2^W!Shift(W!Level) \in Nat \ {0}
  BY <1>2, PowNat
<1>4. 2^12 \in Nat \ {0} /\ 2^M \in Nat \ {0} /\ 2^0 \in Nat \ {0}
  BY PowNat
<1>5. 2^(M - (W!Shift(W!Level) - 12)) \in Nat \ {0}
  BY <1>2, PowNat
<1>6. W!PageSize(W!Level) \in Nat
  BY <1>3 DEF W!PageSize
<1>7. W!PageOffset(wva, W!Level) \in Nat
  BY <1>3, <1>4 DEF W!PageOffset, W!Bits
<1>8. W!Reference(W!Level, v) \in Nat
  BY <1>3, <1>4, <1>5 DEF W!Reference, W!Bits
<1>9. W!EntryAddr(W!NewEntry(v)) \in Nat
  <2>1. /\ W!NewEntry(v).reference = W!Reference(W!Level, v)
        /\ W!NewEntry(v).lvl = W!Level
        /\ W!NewEntry(v).raw = v
    BY DEF W!NewEntry, W!PageTableEntry
  <2>. QED
    BY <1>3, <1>4, <1>8, <2>1 DEF W!EntryAddr
<1>. QED
  BY <1>6, <1>7, <1>9

(* The bytes an 8-byte read appends. *)
LEMMA RunSeq ==
  ASSUME NEW a \in Nat, NEW n \in Nat
  PROVE  Run(a, n) \in Seq(Nat) /\ Len(Run(a, n)) = n
BY DEF Run

(* An index past the first L positions of a sequence of L + k elements. *)
LEMMA TailIndex ==
  ASSUME NEW L \in Nat, NEW k \in Nat, NEW i \in (L + 1)..(L + k)
  PROVE  i \in 1..(L + k) /\ ~(i <= L) /\ i - L \in 1..k
  OBVIOUS

-----------------------------------------------------------------------------
LEMMA InitIInv == Init => IInv
BY DEF Init, IInv, Numbers, Counted, W!WalkInit, W!Unmapped, LoopPcs, PagePcs

(* A step of the walk keeps the result a triple of numbers. *)
LEMMA WalkNumbers ==
  ASSUME Numbers, Walk
  PROVE  Numbers'
<1>1. UNCHANGED lbVars /\ wst = "walking" /\ wva \in Nat
  BY DEF Walk, W!WalkStep, W!WalkDescend, W!WalkUnmapped, W!WalkMapped, Numbers
<1>2. wst' \in {"walking", "done"} /\ wva' = wva
  BY DEF Walk, W!WalkStep, W!WalkDescend, W!WalkUnmapped, W!WalkMapped
<1>3. result' \in [page : Nat, size : Nat, offset : Nat] \cup {W!Unmapped}
  <2>1. CASE W!WalkDescend \/ W!WalkUnmapped
    BY <2>1 DEF W!WalkDescend, W!WalkUnmapped, Numbers
  <2>2. CASE W!WalkMapped
    BY <1>1, <2>2, MappedResult DEF W!WalkMapped
  <2>. QED
    BY <2>1, <2>2 DEF Walk, W!WalkStep
<1>. QED
  BY <1>1, <1>2, <1>3 DEF Numbers, lbVars

LEMMA NextIInv == IInv /\ [Next]_vars => IInv'
<1> SUFFICES ASSUME IInv, [Next]_vars PROVE IInv'
  OBVIOUS
<1>0. Numbers /\ Counted
  BY DEF IInv
<1>1. ASSUME NEW m \in Mappings, NEW a \in Starts, NEW n \in Lens, Call(m, a, n)
      PROVE  IInv'
  BY <1>0, <1>1 DEF Call, IInv, Numbers, Counted, LoopPcs, PagePcs, walkVars
<1>2. CASE LoopResolve
  BY <1>0, <1>2 DEF LoopResolve, W!Resolve, W!Unmapped, IInv, Numbers, Counted,
                    LoopPcs, PagePcs
<1>3. CASE LoopRejected
  BY <1>0, <1>3 DEF LoopRejected, W!ResolveRejected, W!Unmapped, IInv, Numbers,
                    Counted, LoopPcs, PagePcs
<1>4. CASE LoopExit
  BY <1>0, <1>4 DEF LoopExit, IInv, Numbers, Counted, LoopPcs, PagePcs, walkVars
<1>5. CASE Walk
  <2>1. Numbers'
    BY <1>0, <1>5, WalkNumbers
  <2>2. Counted'
    BY <1>0, <1>5 DEF Walk, Counted, lbVars
  <2>. QED
    BY <2>1, <2>2 DEF IInv
<1>6. CASE Resolved
  <2>1. result \in [page : Nat, size : Nat, offset : Nat]
    BY <1>0, <1>6 DEF Resolved, Numbers, W!Unmapped
  <2>. QED
    BY <1>0, <1>6, <2>1 DEF Resolved, IInv, Numbers, Counted, LoopPcs, PagePcs,
                           walkVars
<1>7. CASE ResolvedUnmapped
  BY <1>0, <1>7 DEF ResolvedUnmapped, IInv, Numbers, Counted, LoopPcs, PagePcs,
                    walkVars
<1>8. CASE Read8
  <2>1. page + offset \in Nat /\ chunks \in Seq(Nat) /\ len \in Nat
    BY <1>0, <1>8 DEF Read8, Numbers, PagePcs
  <2>2. Run(page + offset, 8) \in Seq(Nat) /\ Len(Run(page + offset, 8)) = 8
    BY <2>1, RunSeq
  <2>3. chunks' \in Seq(Nat) /\ Len(chunks') = Len(chunks) + 8
    <3>1. /\ chunks \o Run(page + offset, 8) \in Seq(Nat)
          /\ Len(chunks \o Run(page + offset, 8))
               = Len(chunks) + Len(Run(page + offset, 8))
      BY <2>1, <2>2, ConcatProperties
    <3>2. chunks' = chunks \o Run(page + offset, 8)
      BY <1>8 DEF Read8
    <3>. QED
      BY <2>2, <3>1, <3>2
  <2>4. len' = len - 8 /\ len - 8 \in Nat
    BY <1>8, <2>1 DEF Read8, BlockGuard
  <2>5. lpc' = "read8" /\ UNCHANGED <<lpc, walkVars, addr, page, size, len0>>
        /\ offset' = offset + 8
    BY <1>8 DEF Read8
  <2>6. Numbers'
    BY <1>0, <2>3, <2>4, <2>5 DEF Numbers, PagePcs, LoopPcs, walkVars
  <2>7. Counted'
    BY <1>0, <2>3, <2>4, <2>5 DEF Counted, LoopPcs, Numbers
  <2>. QED
    BY <2>6, <2>7 DEF IInv
<1>9. CASE End8
  BY <1>0, <1>9 DEF End8, IInv, Numbers, Counted, LoopPcs, PagePcs, walkVars
<1>10. CASE Read1
  <2>1. page + offset \in Nat /\ chunks \in Seq(Nat) /\ len \in Nat
    BY <1>0, <1>10 DEF Read1, Numbers, PagePcs
  <2>2. chunks' \in Seq(Nat) /\ Len(chunks') = Len(chunks) + 1
    BY <1>10, <2>1, AppendProperties DEF Read1
  <2>3. len' = len - 1 /\ len - 1 \in Nat
    BY <1>10, <2>1 DEF Read1, ReadByteGuard
  <2>4. lpc' = "read1" /\ UNCHANGED <<lpc, walkVars, addr, page, size, len0>>
        /\ offset' = offset + 1
    BY <1>10 DEF Read1
  <2>5. Numbers'
    BY <1>0, <2>1, <2>2, <2>3, <2>4 DEF Numbers, PagePcs, LoopPcs, walkVars
  <2>6. Counted'
    BY <1>0, <2>2, <2>3, <2>4 DEF Counted, LoopPcs, Numbers
  <2>. QED
    BY <2>5, <2>6 DEF IInv
<1>11. CASE NextPage
  BY <1>0, <1>11 DEF NextPage, IInv, Numbers, Counted, LoopPcs, PagePcs, walkVars
<1>12. CASE UNCHANGED vars
  BY <1>0, <1>12 DEF vars, walkVars, lbVars, IInv, Numbers, Counted
<1>. QED
  BY <1>1, <1>2, <1>3, <1>4, <1>5, <1>6, <1>7, <1>8, <1>9, <1>10, <1>11, <1>12
  DEF Next

(* spec.md 4.3: linear_bytes never returns a partial read, whatever the   *)
(* geometry, the memory image, the start and the length: a call that has *)
(* returned has read exactly the len bytes it was asked for.             *)
THEOREM NoPartialReadInvariant == Spec => []NoPartialRead
<1>1. IInv => NoPartialRead
  BY DEF IInv, Counted, NoPartialRead, Numbers
<1>. QED
  BY <1>1, InitIInv, NextIInv, PTL DEF Spec

(* The step of ReadsWithinPage: the bytes a step appends lie in the page. *)
WithinPage ==
  \A i \in (Len(chunks) + 1)..Len(chunks') :
    lpc \in {"read8", "read1"} => page <= chunks'[i] /\ chunks'[i] < page + size

LEMMA StepWithinPage == IInv /\ [Next]_vars => WithinPage
<1> SUFFICES ASSUME IInv, [Next]_vars PROVE WithinPage
  OBVIOUS
<1>0. Numbers
  BY DEF IInv
<1>1. CASE Read8
  <2>1. /\ page \in Nat /\ size \in Nat /\ offset \in Nat
        /\ page + offset \in Nat /\ chunks \in Seq(Nat)
    BY <1>0, <1>1 DEF Read8, Numbers, PagePcs
  <2>2. Run(page + offset, 8) \in Seq(Nat) /\ Len(Run(page + offset, 8)) = 8
    BY <2>1, RunSeq
  <2>3. /\ Len(chunks') = Len(chunks) + 8
        /\ \A i \in (Len(chunks) + 1)..(Len(chunks) + 8) :
             chunks'[i] = Run(page + offset, 8)[i - Len(chunks)]
    <3>1. chunks' = chunks \o Run(page + offset, 8)
      BY <1>1 DEF Read8
    <3>2. /\ Len(chunks \o Run(page + offset, 8))
               = Len(chunks) + Len(Run(page + offset, 8))
          /\ \A i \in 1..(Len(chunks) + Len(Run(page + offset, 8))) :
               (chunks \o Run(page + offset, 8))[i] =
                 IF i <= Len(chunks) THEN chunks[i]
                 ELSE Run(page + offset, 8)[i - Len(chunks)]
      BY <2>1, <2>2, ConcatProperties, Zenon
    <3>3. Len(chunks) \in Nat
      BY <2>1, LenProperties
    <3>4. Len(chunks') = Len(chunks) + 8
      BY <2>2, <3>1, <3>2
    <3>5. ASSUME NEW i \in (Len(chunks) + 1)..(Len(chunks) + 8)
          PROVE  chunks'[i] = Run(page + offset, 8)[i - Len(chunks)]
      <4>0. Len(Run(page + offset, 8)) = 8
        BY <2>2
      <4>1. i \in 1..(Len(chunks) + 8) /\ ~(i <= Len(chunks))
        BY <3>3, TailIndex
      <4>2. i \in 1..(Len(chunks) + Len(Run(page + offset, 8)))
        BY <4>0, <4>1, Zenon
      <4>. QED
        BY <3>1, <3>2, <4>1, <4>2
    <3>. QED
      BY <3>4, <3>5
  <2>4. \A j \in 1..8 : Run(page + offset, 8)[j] = page + offset + j - 1
    BY DEF Run
  <2>5. offset + 8 < size
    BY <1>1 DEF Read8, BlockGuard
  <2>6. SUFFICES ASSUME NEW i \in (Len(chunks) + 1)..Len(chunks')
                 PROVE  page <= chunks'[i] /\ chunks'[i] < page + size
    BY DEF WithinPage
  <2>7. Len(chunks) \in Nat /\ i - Len(chunks) \in 1..8
    BY <2>1, <2>3, LenProperties
  <2>8. chunks'[i] = page + offset + (i - Len(chunks)) - 1
    BY <2>3, <2>4, <2>7
  <2>. QED
    BY <2>1, <2>5, <2>7, <2>8
<1>2. CASE Read1
  <2>1. page \in Nat /\ size \in Nat /\ offset \in Nat /\ chunks \in Seq(Nat)
    BY <1>0, <1>2 DEF Read1, Numbers, PagePcs
  <2>2. /\ Len(chunks') = Len(chunks) + 1
        /\ chunks'[Len(chunks) + 1] = page + offset
    BY <1>2, <2>1, AppendProperties DEF Read1
  <2>3. offset < size
    BY <1>2 DEF Read1, ReadByteGuard
  <2>. QED
    BY <2>1, <2>2, <2>3 DEF WithinPage
<1>3. CASE ~Read8 /\ ~Read1
  <2>1. chunks' = chunks \/ chunks' = <<>>
    BY <1>3 DEF Next, vars, lbVars, Call, LoopResolve, LoopRejected, LoopExit,
                Walk, Resolved, ResolvedUnmapped, End8, NextPage
  <2>2. chunks \in Seq(Nat)
    BY <1>0 DEF Numbers
  <2>. QED
    BY <2>1, <2>2 DEF WithinPage
<1>. QED
  BY <1>1, <1>2, <1>3

(* Every byte linear_bytes reads lies inside the page resolve returned   *)
(* for it, for every geometry, memory image, start and length: neither   *)
(* the 8-byte loop nor the 1-byte loop reads past the end of the page.  *)
THEOREM ReadsWithinPageProperty == Spec => ReadsWithinPage
<1>1. IInv /\ [Next]_vars => WithinPage
  BY StepWithinPage
<1>. QED
  BY <1>1, InitIInv, NextIInv, PTL DEF Spec, ReadsWithinPage, WithinPage

-----------------------------------------------------------------------------
(* The type invariant. linear_bytes's walk is that of module Paging with *)
(* any natural number as address (addr moves on to page + size, outside  *)
(* the starts), so the invariant of PagingProofs is instanced with every *)
(* natural as an address and taken as it is.                            *)
WP == INSTANCE PagingProofs WITH Roots <- Mappings, VAs <- Nat

(* The locals linear_bytes keeps beside the counting: the mapping of a  *)
(* running call, the result of the resolve its page came from, and one  *)
(* virtual address per byte read.                                       *)
Typed ==
  /\ mapping \in Mappings \cup {None}
  /\ lpc \in LoopPcs => mapping \in Mappings
  /\ lpc \in PagePcs => wst = "done" /\ result \in [page : Nat, size : Nat, offset : Nat]
  /\ vas \in Seq(Int)
  /\ Len(vas) = Len(chunks)

TInv == IInv /\ WP!IInv /\ Typed

(* The n addresses from an integer a on. *)
LEMMA RunSeqInt ==
  ASSUME NEW a \in Int, NEW n \in Nat
  PROVE  Run(a, n) \in Seq(Int) /\ Len(Run(a, n)) = n
BY DEF Run

(* The assumptions of Paging, for the instance WP. *)
LEMMA WalkAssumptions ==
  /\ \A n \in 0..(12 + M) : 2^n \in Nat \ {0}
  /\ Nat \subseteq Nat /\ Nat # {}
  /\ Mappings \subseteq Nat /\ Mappings # {}
  /\ RawVals \subseteq Nat /\ RawVals # {}
  /\ AddrBits \in Nat /\ AddrBits >= 12 + 4 * IdxBits
  /\ M \in Nat /\ M >= 3 * IdxBits
  /\ IdxBits \in Nat \ {0}
BY PowersOfTwoAssumption

(* The walk linear_bytes runs is the walk of WP: the two instances of   *)
(* Paging differ in the addresses of the command only.                  *)
LEMMA SameWalk == W!WalkStep <=> WP!WalkStep
BY DEF W!WalkStep, W!WalkDescend, W!WalkUnmapped, W!WalkMapped, W!ReadSlot,
       W!Slot, W!TableBase, W!Level, W!MemRead, W!NewEntry, W!PageTableEntry,
       W!Index, W!Bits, W!Leaf, W!EntryAddr, W!PageSize, W!PageOffset, W!Shift,
       W!Reference, W!Huge, W!Table, W!PML4, W!DirectoryPtr, W!Directory,
       WP!WalkStep, WP!WalkDescend, WP!WalkUnmapped, WP!WalkMapped, WP!ReadSlot,
       WP!Slot, WP!TableBase, WP!Level, WP!MemRead, WP!NewEntry, WP!PageTableEntry,
       WP!Index, WP!Bits, WP!Leaf, WP!EntryAddr, WP!PageSize, WP!PageOffset, WP!Shift,
       WP!Reference, WP!Huge, WP!Table, WP!PML4, WP!DirectoryPtr, WP!Directory

LEMMA SameResolve ==
  ASSUME NEW b, NEW v
  PROVE  /\ W!Resolve(b, v) <=> WP!Resolve(b, v)
         /\ W!ResolveRejected(b, v) <=> WP!ResolveRejected(b, v)
BY DEF W!Resolve, W!ResolveRejected, W!Unmapped,
       WP!Resolve, WP!ResolveRejected, WP!Unmapped

(* Every step of linear_bytes is a step of the walk of WP or leaves the *)
(* walk alone.                                                           *)
LEMMA WalkIsPaging == IInv /\ Typed /\ [Next]_vars => [WP!Next]_WP!walkVars
<1> SUFFICES ASSUME IInv, Typed, [Next]_vars PROVE [WP!Next]_WP!walkVars
  OBVIOUS
<1>1. CASE LoopResolve \/ LoopRejected
  <2>1. mapping \in Mappings /\ addr \in Nat
    BY <1>1 DEF LoopResolve, LoopRejected, Typed, IInv, Numbers, LoopPcs
  <2>2. WP!Resolve(mapping, addr) \/ WP!ResolveRejected(mapping, addr)
    BY <1>1, SameResolve DEF LoopResolve, LoopRejected
  <2>. QED
    BY <2>1, <2>2 DEF WP!Next
<1>2. CASE Walk
  BY <1>2, SameWalk DEF Walk, WP!Next
<1>3. CASE ~LoopResolve /\ ~LoopRejected /\ ~Walk
  <2>1. UNCHANGED walkVars
    BY <1>3 DEF Next, vars, Call, LoopExit, Resolved, ResolvedUnmapped, Read8,
                End8, Read1, NextPage
  <2>. QED
    BY <2>1 DEF walkVars, WP!walkVars
<1>. QED
  BY <1>1, <1>2, <1>3

LEMMA InitTInv == Init => TInv
<1> SUFFICES ASSUME Init PROVE TInv
  OBVIOUS
<1>1. IInv
  BY InitIInv
<1>2. WP!Init
  BY DEF Init, W!WalkInit, W!Unmapped, WP!Init, WP!WalkInit, WP!Unmapped
<1>3. WP!IInv
  BY <1>2, WP!InitIInv, WalkAssumptions
<1>4. Typed
  BY DEF Init, Typed, LoopPcs, PagePcs
<1>. QED
  BY <1>1, <1>3, <1>4 DEF TInv

LEMMA NextTyped == TInv /\ [Next]_vars => Typed'
<1> SUFFICES ASSUME TInv, [Next]_vars PROVE Typed'
  OBVIOUS
<1>0. IInv /\ Numbers /\ WP!IInv /\ Typed
  BY DEF TInv, IInv
<1>1. ASSUME NEW m \in Mappings, NEW a \in Starts, NEW n \in Lens, Call(m, a, n)
      PROVE  Typed'
  BY <1>1 DEF Call, Typed, LoopPcs, PagePcs
<1>2. CASE LoopResolve \/ LoopRejected \/ LoopExit \/ ResolvedUnmapped
  BY <1>0, <1>2 DEF LoopResolve, LoopRejected, LoopExit, ResolvedUnmapped,
                    Typed, LoopPcs, PagePcs
<1>3. CASE Walk
  BY <1>0, <1>3 DEF Walk, lbVars, Typed, LoopPcs, PagePcs
<1>4. CASE Resolved
  <2>1. result \in [page : Nat, size : Nat, offset : Nat]
    BY <1>0, <1>4 DEF Resolved, Numbers, W!Unmapped
  <2>. QED
    BY <1>0, <1>4, <2>1 DEF Resolved, Typed, LoopPcs, PagePcs, walkVars
<1>5. CASE End8 \/ NextPage
  BY <1>0, <1>5 DEF End8, NextPage, Typed, LoopPcs, PagePcs, walkVars
<1>6. CASE Read8 \/ Read1
  <2>1. /\ wst = "done" /\ result \in [page : Nat, size : Nat, offset : Nat]
        /\ offset \in Nat /\ page + offset \in Nat
        /\ vas \in Seq(Int) /\ chunks \in Seq(Nat)
    BY <1>0, <1>6 DEF Read8, Read1, Typed, Numbers, PagePcs
  <2>2. wva \in Nat
    BY <2>1, <1>0 DEF WP!IInv, WP!Started
  <2>3. VPage + offset \in Int
    BY <2>1, <2>2 DEF VPage
  <2>4. UNCHANGED <<walkVars, lpc, mapping>>
    BY <1>6 DEF Read8, Read1
  <2>5. vas' \in Seq(Int) /\ Len(vas') = Len(chunks')
    <3>1. CASE Read8
      <4>1. /\ Run(VPage + offset, 8) \in Seq(Int)
            /\ Len(Run(VPage + offset, 8)) = 8
            /\ Run(page + offset, 8) \in Seq(Nat)
            /\ Len(Run(page + offset, 8)) = 8
        BY <2>1, <2>3, RunSeqInt, RunSeq
      <4>2. /\ vas \o Run(VPage + offset, 8) \in Seq(Int)
            /\ Len(vas \o Run(VPage + offset, 8))
                 = Len(vas) + Len(Run(VPage + offset, 8))
        BY <2>1, <4>1, ConcatProperties
      <4>3. Len(chunks \o Run(page + offset, 8))
              = Len(chunks) + Len(Run(page + offset, 8))
        BY <2>1, <4>1, ConcatProperties
      <4>. QED
        BY <3>1, <4>1, <4>2, <4>3, <1>0 DEF Read8, Typed
    <3>2. CASE Read1
      <4>1. /\ Append(vas, VPage + offset) \in Seq(Int)
            /\ Len(Append(vas, VPage + offset)) = Len(vas) + 1
        BY <2>1, <2>3, AppendProperties
      <4>2. Len(Append(chunks, page + offset)) = Len(chunks) + 1
        BY <2>1, AppendProperties
      <4>. QED
        BY <3>2, <4>1, <4>2, <1>0 DEF Read1, Typed
    <3>. QED
      BY <1>6, <3>1, <3>2
  <2>. QED
    BY <1>0, <2>4, <2>5 DEF Typed, walkVars
<1>7. CASE UNCHANGED vars
  BY <1>0, <1>7 DEF vars, walkVars, lbVars, Typed
<1>. QED
  BY <1>1, <1>2, <1>3, <1>4, <1>5, <1>6, <1>7 DEF Next

LEMMA NextTInv == TInv /\ [Next]_vars => TInv'
<1> SUFFICES ASSUME TInv, [Next]_vars PROVE TInv'
  OBVIOUS
<1>1. IInv'
  BY NextIInv DEF TInv
<1>2. [WP!Next]_WP!walkVars
  BY WalkIsPaging DEF TInv
<1>3. WP!IInv'
  BY <1>2, WP!NextIInv, WalkAssumptions DEF TInv
<1>4. Typed'
  BY NextTyped
<1>. QED
  BY <1>1, <1>3, <1>4 DEF TInv

(* linear_bytes and the walk of resolve it calls keep their types: the  *)
(* memory image, the entries and result of the walk, the mapping, the   *)
(* counters, and one physical and one virtual address per byte read.    *)
THEOREM TypeCorrect == Spec => []TypeOK
<1>1. TInv => TypeOK
  <2> SUFFICES ASSUME TInv PROVE TypeOK
    OBVIOUS
  <2>1. WP!TypeOK /\ Numbers /\ Typed
    BY DEF TInv, WP!IInv, IInv
  <2>2. W!EntryRec = WP!EntryRec
    BY DEF W!EntryRec, WP!EntryRec, W!Levels, WP!Levels, W!PML4, WP!PML4,
           W!DirectoryPtr, WP!DirectoryPtr, W!Directory, WP!Directory,
           W!Table, WP!Table
  <2>. QED
    BY <2>1, <2>2 DEF TypeOK, WP!TypeOK, Numbers, Typed, LoopPcs
<1>. QED
  BY <1>1, InitTInv, NextTInv, PTL DEF Spec
=============================================================================
