----------------------------- MODULE GDTProofs -----------------------------
(***************************************************************************)
(* Proofs about GDT.print for every set of slot values and every limit.   *)
(***************************************************************************)
EXTENDS GDT, SequenceTheorems, TLAPS

USE SlotValsAssumption, LimitsAssumption

(* The powers of two the decoders of gdt.py slice with. *)
LEMMA Powers ==
  /\ 2^0 = 1 /\ 2^1 = 2 /\ 2^2 = 4 /\ 2^3 = 8 /\ 2^4 = 16
  /\ 2^5 = 32 /\ 2^8 = 256 /\ 2^11 = 2048
BY SMT

(* Slices of slices: a field of the access byte is the field of the word. *)
LEMMA SliceOfSlice ==
  /\ \A x \in Nat : (x \div 256) \div 16 = x \div 4096
  /\ \A x \in Nat : (x \div 256) \div 8 = x \div 2048
  /\ \A q \in Nat : ((q % 256) \div 16) % 2 = (q \div 16) % 2
  /\ \A q \in Nat : ((q % 256) \div 8) % 2 = (q \div 8) % 2
  /\ \A q \in Nat : (q % 256) % 16 = q % 16
  /\ \A q \in Nat : ((q % 16) \div 8) % 2 = (q \div 8) % 2
  /\ \A q \in Nat : (q % 16) % 2 = q % 2
<1>1. \A x \in Nat : (x \div 256) \div 16 = x \div 4096
  BY SMT
<1>2. \A x \in Nat : (x \div 256) \div 8 = x \div 2048
  BY SMT
<1>3. \A q \in Nat : ((q % 256) \div 16) % 2 = (q \div 16) % 2
  BY SMT
<1>4. \A q \in Nat : ((q % 256) \div 8) % 2 = (q \div 8) % 2
  BY SMT
<1>5. \A q \in Nat : (q % 256) % 16 = q % 16
  BY SMT
<1>6. \A q \in Nat : ((q % 16) \div 8) % 2 = (q \div 8) % 2
  BY SMT
<1>7. \A q \in Nat : (q % 16) % 2 = q % 2
  BY SMT
<1>8. QED
  BY <1>1, <1>2, <1>3, <1>4, <1>5, <1>6, <1>7

(* SegmentDescriptor.create, whenever it returns a descriptor, returns the *)
(* kind the access byte of the first slot encodes by the hardware bit      *)
(* positions: the S and executable bits for a segment, the type nibble for *)
(* a system descriptor.                                                   *)
LEMMA CreateKind ==
  ASSUME NEW first \in Nat \X Nat, NEW second,
         Create(first, second) \notin {"nomatch", "assert"}
  PROVE  Create(first, second) = RefKind(first)
<1> DEFINE h == first[2]
<1>1. h \in Nat
  OBVIOUS
<1>2. /\ Bits(h, 11, 2) = (h \div 2048) % 4
      /\ Bits(h, 8, 5) = (h \div 256) % 32
      /\ Bits(h, 8, 4) = (h \div 256) % 16
      /\ Bits(h, 8, 8) = (h \div 256) % 256
  BY <1>1, Powers DEF Bits
<1>3. /\ Bits(h, 8, 8) \in Nat
      /\ Bits(Bits(h, 8, 8), 4, 1) = (h \div 4096) % 2
      /\ Bits(Bits(h, 8, 8), 3, 1) = (h \div 2048) % 2
      /\ Bits(h, 8, 8) % 16 = (h \div 256) % 16
  <2> DEFINE q == h \div 256
  <2>1. q \in Nat /\ Bits(h, 8, 8) = q % 256
    BY <1>1, <1>2
  <2>2. /\ Bits(Bits(h, 8, 8), 4, 1) = ((q % 256) \div 16) % 2
        /\ Bits(Bits(h, 8, 8), 3, 1) = ((q % 256) \div 8) % 2
    BY <2>1, Powers DEF Bits
  <2>3. QED
    BY <1>1, <2>1, <2>2, SliceOfSlice
<1>4. /\ Bits(Bits(h, 8, 4), 0, 1) = (h \div 256) % 2
      /\ Bits(Bits(h, 8, 4), 3, 1) = (h \div 2048) % 2
  <2> DEFINE q == h \div 256
  <2>1. q \in Nat /\ Bits(h, 8, 4) = q % 16
    BY <1>1, <1>2
  <2>2. /\ Bits(Bits(h, 8, 4), 0, 1) = (q % 16) % 2
        /\ Bits(Bits(h, 8, 4), 3, 1) = ((q % 16) \div 8) % 2
    BY <2>1, Powers DEF Bits
  <2>3. QED
    BY <1>1, <2>1, <2>2, SliceOfSlice
<1>5. CASE (h \div 2048) % 4 = 2
  <2>1. (h \div 4096) % 2 = 1 /\ (h \div 2048) % 2 = 0
    BY <1>1, <1>5
  <2>2. QED
    BY <1>2, <1>3, <1>5, <2>1 DEF Create, RefKind
<1>6. CASE (h \div 2048) % 4 = 3
  <2>1. (h \div 4096) % 2 = 1 /\ (h \div 2048) % 2 = 1
    BY <1>1, <1>6
  <2>2. QED
    BY <1>2, <1>3, <1>6, <2>1 DEF Create, RefKind
<1>7. CASE (h \div 2048) % 4 \notin {2, 3}
  <2>1. (h \div 4096) % 2 = 0 /\ (h \div 256) % 32 = (h \div 256) % 16
    BY <1>1, <1>7
  <2>2. \A t \in 0..15 : (t % 2 = 1 /\ (t \div 8) % 2 = 1) <=> t \in {9, 11, 13, 15}
    BY SMT
  <2>3. (h \div 256) % 16 \in 0..15 /\ (h \div 2048) % 2 = ((h \div 256) % 16) \div 8
    BY <1>1
  <2>4. QED
    BY <1>2, <1>3, <1>4, <1>7, <2>1, <2>2, <2>3 DEF Create, SystemCreate, RefKind
<1>8. QED
  BY <1>5, <1>6, <1>7

-----------------------------------------------------------------------------
Kinds == {"data", "code", "null", "callgate", "tss"}

(* The slot of every printed descriptor was read and held a slot value,   *)
(* and every offset is a multiple of 8: DescriptorsTile relates a printed *)
(* kind to gmem, and this is what keeps that relation when gmem grows.    *)
Printed ==
  /\ offset % 8 = 0
  /\ \A k \in 1..Len(printed) :
       /\ printed[k][1] \in Nat
       /\ printed[k][1] % 8 = 0
       /\ printed[k][1] \div 8 \in DOMAIN gmem
       /\ gmem[printed[k][1] \div 8] \in SlotVals

IInv == TypeOK /\ Printed /\ DescriptorsTile

(* create returns one of the five kinds when it does not raise. *)
LEMMA CreateKinds ==
  ASSUME NEW first, NEW second,
         Create(first, second) \notin {"nomatch", "assert"}
  PROVE  Create(first, second) \in Kinds
BY DEF Create, SystemCreate, Kinds

(* The size of a printed kind is the one the hardware gives it. *)
LEMMA SizeRef ==
  \A kind \in Kinds : Size(kind) = RefSize(kind) /\ Size(kind) \in {8, 16}
BY DEF Kinds, Size, RefSize

(* linear_bytes' read of two slots extends the image and keeps what was *)
(* read already.                                                        *)
LEMMA PairRead ==
  ASSUME TypeOK, NEW v1, NEW v2, ReadPair(v1, v2)
  PROVE  /\ DOMAIN gmem' = DOMAIN gmem \cup {Cur, Cur + 1}
         /\ gmem'[Cur] = v1
         /\ gmem'[Cur + 1] = v2
         /\ \A x \in DOMAIN gmem : gmem'[x] = gmem[x]
         /\ Cur \in Nat
         /\ reads' = reads \cup {Cur, Cur + 1}
<1>1. Cur \in Nat
  BY DEF TypeOK, Cur
<1>2. QED
  BY <1>1 DEF ReadPair

(* The image after linear_bytes read two slots holds slot values. *)
LEMMA SlotReads ==
  ASSUME TypeOK, NEW v1 \in SlotVals \cup {Unreadable},
         NEW v2 \in SlotVals \cup {Unreadable}, ReadPair(v1, v2)
  PROVE  gmem' \in [DOMAIN gmem' -> SlotVals \cup {Unreadable}]
<1> DEFINE D == DOMAIN gmem \cup {Cur, Cur + 1}
<1>1. gmem' = [k \in D |-> IF k = Cur THEN v1
                           ELSE IF k = Cur + 1 THEN v2 ELSE gmem[k]]
  BY DEF ReadPair
<1>2. \A k \in DOMAIN gmem : gmem[k] \in SlotVals \cup {Unreadable}
  BY DEF TypeOK
<1>3. QED
  BY <1>1, <1>2

LEMMA InitIInv == Init => IInv
BY DEF Init, IInv, TypeOK, Printed, DescriptorsTile

(* Begin: a new print starts at offset 0 with nothing printed. *)
LEMMA BeginIInv ==
  ASSUME IInv, NEW l \in Limits, Begin(l)
  PROVE  IInv'
BY DEF IInv, TypeOK, Printed, DescriptorsTile, Begin

(* The two raising steps read slots and print nothing. *)
LEMMA RaisedIInv ==
  ASSUME IInv, DecodeRaised \/ ReadRaised
  PROVE  IInv'
<1>1. PICK v1, v2 \in SlotVals \cup {Unreadable} : ReadPair(v1, v2)
  BY DEF DecodeRaised, ReadRaised
<1>2. /\ UNCHANGED <<limit, offset, printed>>
      /\ gpc = "loop"
      /\ gpc' = "raised"
  BY DEF DecodeRaised, ReadRaised
<1>3. /\ DOMAIN gmem' = DOMAIN gmem \cup {Cur, Cur + 1}
      /\ gmem'[Cur] = v1
      /\ gmem'[Cur + 1] = v2
      /\ \A x \in DOMAIN gmem : gmem'[x] = gmem[x]
      /\ Cur \in Nat
      /\ reads' = reads \cup {Cur, Cur + 1}
  BY <1>1, PairRead DEF IInv
<1>4. TypeOK'
  <2>1. gmem' \in [DOMAIN gmem' -> SlotVals \cup {Unreadable}]
    BY <1>1, <1>3, SlotReads DEF IInv
  <2>2. QED
    BY <1>2, <1>3, <2>1 DEF IInv, TypeOK
<1>5. Printed'
  BY <1>2, <1>3 DEF IInv, Printed
<1>6. DescriptorsTile'
  <2>1. \A k \in 1..Len(printed) :
          gmem'[printed[k][1] \div 8] = gmem[printed[k][1] \div 8]
    BY <1>3 DEF IInv, Printed
  <2>2. QED
    BY <1>2, <2>1 DEF IInv, DescriptorsTile
<1>7. QED
  BY <1>4, <1>5, <1>6 DEF IInv

(* The loop ends: only the program counter changes. *)
LEMMA LoopEndIInv ==
  ASSUME IInv, LoopEnd
  PROVE  IInv'
BY DEF IInv, TypeOK, Printed, DescriptorsTile, LoopEnd

(* One iteration of the loop prints the descriptor at the cursor and moves *)
(* the cursor to its end.                                                  *)
(* An index of a list one longer is an old index or the new last one. *)
LEMMA AppendIndex ==
  ASSUME NEW L \in Nat, NEW k \in 1..(L + 1)
  PROVE  k \in 1..L \/ k = L + 1
OBVIOUS

LEMMA PrintIInv ==
  ASSUME IInv, PrintDescriptor
  PROVE  IInv'
<1>1. PICK v1, v2 \in SlotVals :
        /\ ReadPair(v1, v2)
        /\ Create(v1, v2) \notin {"nomatch", "assert"}
        /\ printed' = Append(printed, <<offset, Create(v1, v2)>>)
        /\ offset' = offset + Size(Create(v1, v2))
  BY DEF PrintDescriptor
<1>0. TypeOK /\ Printed /\ DescriptorsTile
  BY DEF IInv
<1>2. /\ gpc = "loop" /\ gpc' = "loop"
      /\ limit' = limit
  BY DEF PrintDescriptor
<1>3. /\ DOMAIN gmem' = DOMAIN gmem \cup {Cur, Cur + 1}
      /\ gmem'[Cur] = v1
      /\ \A x \in DOMAIN gmem : gmem'[x] = gmem[x]
      /\ Cur \in Nat
      /\ reads' = reads \cup {Cur, Cur + 1}
  BY <1>0, <1>1, PairRead
<1>4. /\ Create(v1, v2) \in Kinds
      /\ Create(v1, v2) = RefKind(v1)
      /\ Size(Create(v1, v2)) = RefSize(Create(v1, v2))
      /\ Size(Create(v1, v2)) \in {8, 16}
  BY <1>1, CreateKinds, CreateKind, SizeRef
<1>5. /\ offset \in Nat
      /\ offset % 8 = 0
      /\ Cur = offset \div 8
  BY <1>0 DEF TypeOK, Printed, Cur
<1>12. printed \in Seq(Nat \X Kinds)
  BY <1>0 DEF TypeOK, Kinds
<1>6. /\ Len(printed') = Len(printed) + 1
      /\ printed'[Len(printed) + 1] = <<offset, Create(v1, v2)>>
      /\ \A k \in 1..Len(printed) : printed'[k] = printed[k]
  BY <1>1, <1>12
<1>11. offset' \in {offset + 8, offset + 16}
  <2>1. offset' = offset + Size(Create(v1, v2))
    BY <1>1
  <2>2. QED
    BY <2>1, <1>4, Zenon
<1>7. TypeOK'
  <2>1. gmem' \in [DOMAIN gmem' -> SlotVals \cup {Unreadable}]
    BY <1>0, <1>1, SlotReads
  <2>2. printed' \in Seq(Nat \X Kinds)
    <3>1. <<offset, Create(v1, v2)>> \in Nat \X Kinds
      BY <1>4, <1>5
    <3>2. QED
      BY <1>1, <1>12, <3>1, AppendProperties
  <2>3. /\ DOMAIN gmem' \subseteq Nat
        /\ reads' \subseteq DOMAIN gmem'
    BY <1>0, <1>3 DEF TypeOK
  <2>4. offset' \in Nat
    BY <1>5, <1>11
  <2>5. /\ gpc' \in {"idle", "loop", "done", "raised"}
        /\ limit' \in Nat
    BY <1>0, <1>2 DEF TypeOK
  <2>6. QED
    BY <2>1, <2>2, <2>3, <2>4, <2>5 DEF TypeOK, Kinds
<1>8. Printed'
  <2>1. offset' % 8 = 0
    <3>1. CASE offset' = offset + 8
      BY <1>5, <3>1
    <3>2. CASE offset' = offset + 16
      BY <1>5, <3>2
    <3>3. QED
      BY <1>11, <3>1, <3>2
  <2>2. ASSUME NEW k \in 1..Len(printed)
        PROVE  /\ printed'[k][1] \in Nat
               /\ printed'[k][1] % 8 = 0
               /\ printed'[k][1] \div 8 \in DOMAIN gmem'
               /\ gmem'[printed'[k][1] \div 8] \in SlotVals
    BY <1>0, <1>3, <1>6 DEF Printed
  <2>3. /\ printed'[Len(printed) + 1][1] \in Nat
        /\ printed'[Len(printed) + 1][1] % 8 = 0
        /\ printed'[Len(printed) + 1][1] \div 8 \in DOMAIN gmem'
        /\ gmem'[printed'[Len(printed) + 1][1] \div 8] \in SlotVals
    BY <1>3, <1>5, <1>6
  <2>4. \A k \in 1..Len(printed') : k \in 1..Len(printed) \/ k = Len(printed) + 1
    BY <1>6, <1>12
  <2>5. QED
    BY <2>1, <2>2, <2>3, <2>4, Zenon DEF Printed
<1>9. DescriptorsTile'
  <2>1. ASSUME NEW k \in 1..Len(printed)
        PROVE  /\ printed'[k][1] = IF k = 1 THEN 0
                                   ELSE printed'[k - 1][1] + RefSize(printed'[k - 1][2])
               /\ printed'[k][2] = RefKind(gmem'[printed'[k][1] \div 8])
    <3>1. printed[k][1] \div 8 \in DOMAIN gmem
      BY <1>0 DEF Printed
    <3>2. /\ printed[k][1] = IF k = 1 THEN 0
                             ELSE printed[k - 1][1] + RefSize(printed[k - 1][2])
          /\ printed[k][2] = RefKind(gmem[printed[k][1] \div 8])
      BY <1>0 DEF DescriptorsTile
    <3>3. k - 1 \in 1..Len(printed) \/ k = 1
      OBVIOUS
    <3>4. QED
      BY <1>3, <1>6, <3>1, <3>2, <3>3
  <2>2. /\ printed'[Len(printed) + 1][1] = IF Len(printed) + 1 = 1 THEN 0
                               ELSE printed'[Len(printed)][1] + RefSize(printed'[Len(printed)][2])
        /\ printed'[Len(printed) + 1][2] = RefKind(gmem'[printed'[Len(printed) + 1][1] \div 8])
    <3>1. offset = IF printed = <<>> THEN 0
                   ELSE printed[Len(printed)][1] + RefSize(printed[Len(printed)][2])
      BY <1>0, <1>2 DEF DescriptorsTile
    <3>2. printed = <<>> <=> Len(printed) = 0
      BY <1>12
    <3>3. QED
      BY <1>3, <1>4, <1>5, <1>6, <3>1, <3>2
  <2>3. offset' = printed'[Len(printed) + 1][1] + RefSize(printed'[Len(printed) + 1][2])
    BY <1>1, <1>4, <1>6
  <2>4. printed' # <<>>
    BY <1>6
  <2>5. \A k \in 1..Len(printed') :
          /\ printed'[k][1] = IF k = 1 THEN 0
                             ELSE printed'[k - 1][1] + RefSize(printed'[k - 1][2])
          /\ printed'[k][2] = RefKind(gmem'[printed'[k][1] \div 8])
    <3>. SUFFICES ASSUME NEW k \in 1..Len(printed')
                  PROVE  /\ printed'[k][1] = IF k = 1 THEN 0
                                             ELSE printed'[k - 1][1] + RefSize(printed'[k - 1][2])
                         /\ printed'[k][2] = RefKind(gmem'[printed'[k][1] \div 8])
      OBVIOUS
    <3>1. k \in 1..Len(printed) \/ k = Len(printed) + 1
      <4>1. Len(printed) \in Nat /\ k \in 1..(Len(printed) + 1)
        BY <1>6, <1>12
      <4>. QED
        BY <4>1, AppendIndex
    <3>2. CASE k \in 1..Len(printed)
      BY <2>1, <3>2
    <3>3. CASE k = Len(printed) + 1
      BY <2>2, <3>3
    <3>. QED
      BY <3>1, <3>2, <3>3
  <2>6. gpc' # "idle" =>
          offset' = IF printed' = <<>> THEN 0
                    ELSE printed'[Len(printed')][1] + RefSize(printed'[Len(printed')][2])
    BY <1>6, <2>3, <2>4
  <2>7. QED
    BY <2>5, <2>6 DEF DescriptorsTile
<1>10. QED
  BY <1>7, <1>8, <1>9 DEF IInv

LEMMA NextIInv == IInv /\ [Next]_vars => IInv'
<1> SUFFICES ASSUME IInv, [Next]_vars PROVE IInv'
  OBVIOUS
<1>1. CASE \E l \in Limits : Begin(l)
  BY <1>1, BeginIInv
<1>2. CASE PrintDescriptor
  BY <1>2, PrintIInv
<1>3. CASE DecodeRaised \/ ReadRaised
  BY <1>3, RaisedIInv
<1>4. CASE LoopEnd
  BY <1>4, LoopEndIInv
<1>5. CASE UNCHANGED vars
  BY <1>5 DEF vars, IInv, TypeOK, Printed, DescriptorsTile
<1>6. QED
  BY <1>1, <1>2, <1>3, <1>4, <1>5 DEF Next

(* GDT.print keeps its slot image, cursor and printed list well typed, and *)
(* prints only the five descriptor kinds create can return, for every set *)
(* of slot values and every limit.                                        *)
THEOREM TypeCorrect == Spec => []TypeOK
BY InitIInv, NextIInv, PTL DEF Spec, IInv

(* For every table and every limit, the descriptors GDT.print prints tile *)
(* the table from offset 0: each has the kind its access byte encodes and *)
(* the next starts where it ends by its own size.                         *)
THEOREM DescriptorsTileInvariant == Spec => []DescriptorsTile
BY InitIInv, NextIInv, PTL DEF Spec, IInv
=============================================================================
