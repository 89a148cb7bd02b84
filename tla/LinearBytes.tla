---------------------------- MODULE LinearBytes ----------------------------
(***************************************************************************)
(* MMU.linear_bytes of tools/gdb/stubs/paging.py: read len bytes of the   *)
(* virtual range starting at addr, one page at a time. Each page is       *)
(* found by MMU.resolve (the walk of module Paging, sharing its memory    *)
(* image), then read with physical_memory(page + offset, 8) while an      *)
(* aligned 8-byte block fits, and with 1-byte reads for the rest.         *)
(*                                                                         *)
(* The content of a byte is abstracted to its physical address: a chunk   *)
(* is the sequence of the physical addresses it was read from, so a byte  *)
(* read from the wrong place is seen as such.                             *)
(***************************************************************************)
EXTENDS Integers, Sequences

CONSTANTS
  IdxBits, M, AddrBits, RawVals, None,   \* as in Paging
  Mappings,  \* page-table roots linear_bytes is given (mapping)
  Starts,    \* start addresses it is given (addr)
  Lens       \* lengths it is given (len): 16 from GDT.print and IDT.print

ASSUME MappingsAssumption == Mappings \subseteq Nat /\ Mappings # {}
ASSUME StartsAssumption == Starts \subseteq Nat /\ Starts # {}
ASSUME LensAssumption == Lens \subseteq Nat
(* The assumptions of Paging on the geometry and the slot values, which *)
(* the walk's results rest on.                                          *)
ASSUME GeometryAssumption ==
  /\ IdxBits \in Nat \ {0}
  /\ M \in Nat /\ M >= 3 * IdxBits
  /\ AddrBits \in Nat /\ AddrBits >= 12 + 4 * IdxBits
  /\ RawVals \subseteq Nat /\ RawVals # {}
ASSUME PowersOfTwoAssumption == \A n \in 0..(12 + M) : 2^n \in Nat \ {0}

VARIABLES
  mem, wst, wbase, wva, entries, result,  \* the walk of MMU.resolve
  lpc,      \* where linear_bytes is: "idle", "loop", "resolving",
            \* "read8", "read1", "done", or "raised" (an exception)
  mapping,  \* the root it was called with
  addr,     \* the local addr: the address resolved next
  len,      \* the local len: the bytes still to read
  page,     \* page, size, offset of the page being read
  size,
  offset,
  chunks,   \* the bytes read so far, each as its physical address
  vas,      \* history: the virtual address each byte of chunks belongs to
  va0,      \* history: the addr and len of the call
  len0

W == INSTANCE Paging WITH Roots <- Mappings, VAs <- Starts

walkVars == <<mem, wst, wbase, wva, entries, result>>
lbVars == <<lpc, mapping, addr, len, page, size, offset, chunks, vas, va0, len0>>
vars == <<walkVars, lbVars>>

Init ==
  /\ W!WalkInit
  /\ lpc = "idle"
  /\ mapping = None
  /\ addr = None
  /\ len = 0
  /\ page = None
  /\ size = None
  /\ offset = None
  /\ chunks = <<>>
  /\ vas = <<>>
  /\ va0 = None
  /\ len0 = 0

(* The virtual address of the first byte of the page just resolved. *)
VPage == wva - result.offset

(* n consecutive addresses from a on. *)
Run(a, n) == [i \in 1..n |-> a + i - 1]

(* linear_bytes(mapping, addr, len) is called: chunks = []. *)
Call(m, a, n) ==
  /\ lpc \in {"idle", "done", "raised"}
  /\ wst # "walking"
  /\ lpc' = "loop"
  /\ mapping' = m
  /\ addr' = a
  /\ len' = n
  /\ chunks' = <<>>
  /\ vas' = <<>>
  /\ va0' = a
  /\ len0' = n
  /\ UNCHANGED <<walkVars, page, size, offset>>

(* `while len > 0`: resolve the page of addr. *)
LoopResolve ==
  /\ lpc = "loop"
  /\ len > 0
  /\ W!Resolve(mapping, addr)
  /\ lpc' = "resolving"
  /\ UNCHANGED <<mapping, addr, len, page, size, offset, chunks, vas, va0, len0>>

(* resolve's assert_width raises: linear_bytes raises. *)
LoopRejected ==
  /\ lpc = "loop"
  /\ len > 0
  /\ W!ResolveRejected(mapping, addr)
  /\ lpc' = "raised"
  /\ UNCHANGED <<mapping, addr, len, page, size, offset, chunks, vas, va0, len0>>

(* The loop ends: return bytes().join(chunks). *)
LoopExit ==
  /\ lpc = "loop"
  /\ ~(len > 0)
  /\ lpc' = "done"
  /\ UNCHANGED <<walkVars, mapping, addr, len, page, size, offset, chunks, vas, va0, len0>>

(* A step of the walk of resolve. *)
Walk ==
  /\ lpc = "resolving"
  /\ W!WalkStep
  /\ UNCHANGED lbVars

(* resolve returned a page: `if offset % 8 == 0` picks the 8-byte loop. *)
Resolved ==
  /\ lpc = "resolving"
  /\ wst = "done"
  /\ result.page # None
  /\ page' = result.page
  /\ size' = result.size
  /\ offset' = result.offset
  /\ lpc' = IF result.offset % 8 = 0 THEN "read8" ELSE "read1"
  /\ UNCHANGED <<walkVars, mapping, addr, len, chunks, vas, va0, len0>>

(* resolve returned (None, None, None, ...): `offset % 8` raises TypeError. *)
ResolvedUnmapped ==
  /\ lpc = "resolving"
  /\ wst = "done"
  /\ result.page = None
  /\ lpc' = "raised"
  /\ UNCHANGED <<walkVars, mapping, addr, len, page, size, offset, chunks, vas, va0, len0>>

(* Mutant: the 8-byte loop tests `len > 0` like the 1-byte loop. *)
BlockGuardCopied == offset + 8 < size /\ len > 0

(* The guard of the 8-byte loop. *)
BlockGuard == offset + 8 < size /\ len >= 8

(* `while offset + 8 < size and len >= 8`: physical_memory(page + offset, 8) *)
(* and int.to_bytes(b, 8, 'little'): the 8 bytes from page + offset on.     *)
Read8 ==
  /\ lpc = "read8"
  /\ BlockGuard
  /\ chunks' = chunks \o Run(page + offset, 8)
  /\ vas' = vas \o Run(VPage + offset, 8)
  /\ len' = len - 8
  /\ offset' = offset + 8
  /\ UNCHANGED <<walkVars, lpc, mapping, addr, page, size, va0, len0>>

End8 ==
  /\ lpc = "read8"
  /\ ~BlockGuard
  /\ lpc' = "read1"
  /\ UNCHANGED <<walkVars, mapping, addr, len, page, size, offset, chunks, vas, va0, len0>>

(* Mutant: `while offset < size and len > 1`. *)
ReadByteGuardOffByOne == offset < size /\ len > 1

(* Mutant: `while offset <= size and len > 0`. *)
ReadByteGuardPastPage == offset <= size /\ len > 0

(* The guard of the 1-byte loop. *)
ReadByteGuard == offset < size /\ len > 0

(* `while offset < size and len > 0`: physical_memory(page + offset, 1). *)
Read1 ==
  /\ lpc = "read1"
  /\ ReadByteGuard
  /\ chunks' = Append(chunks, page + offset)
  /\ vas' = Append(vas, VPage + offset)
  /\ len' = len - 1
  /\ offset' = offset + 1
  /\ UNCHANGED <<walkVars, lpc, mapping, addr, page, size, va0, len0>>

(* The page is read: `addr = page + size`, back to the loop test. *)
NextPage ==
  /\ lpc = "read1"
  /\ ~ReadByteGuard
  /\ addr' = page + size
  /\ lpc' = "loop"
  /\ UNCHANGED <<walkVars, mapping, len, page, size, offset, chunks, vas, va0, len0>>

Next ==
  \/ \E m \in Mappings, a \in Starts, n \in Lens : Call(m, a, n)
  \/ LoopResolve \/ LoopRejected \/ LoopExit
  \/ Walk \/ Resolved \/ ResolvedUnmapped
  \/ Read8 \/ End8 \/ Read1 \/ NextPage

(* The program runs one call at a time and runs it on: weak fairness. *)
Spec == Init /\ [][Next]_vars /\ WF_vars(Next)

-----------------------------------------------------------------------------
(* The type invariant. *)
TypeOK ==
  /\ DOMAIN mem \subseteq Nat
  /\ mem \in [DOMAIN mem -> RawVals]
  /\ wst \in {"idle", "walking", "done", "failed"}
  /\ entries \in Seq(W!EntryRec)
  /\ result \in [page : Nat, size : Nat, offset : Nat] \cup {W!Unmapped}
  /\ lpc \in {"idle", "loop", "resolving", "read8", "read1", "done", "raised"}
  /\ mapping \in Mappings \cup {None}
  /\ len \in Nat
  /\ chunks \in Seq(Nat)
  /\ vas \in Seq(Int)
  /\ Len(vas) = Len(chunks)

(* Every byte linear_bytes reads comes from inside the page resolve just *)
(* returned: the 8-byte and the 1-byte loop both stop at the end of the  *)
(* page, also for a start that is not 8-aligned and for huge pages.      *)
ReadsWithinPage ==
  [][\A i \in (Len(chunks) + 1)..Len(chunks') :
        lpc \in {"read8", "read1"} => page <= chunks'[i] /\ chunks'[i] < page + size
    ]_vars

(* spec.md 4.3: a partial read is never returned: when linear_bytes *)
(* returns, it has read exactly len bytes.                          *)
NoPartialRead == lpc = "done" => Len(chunks) = len0

(* Every call of linear_bytes returns or raises: the loops make progress *)
(* whatever the mapping, even though addr moves on by a physical size.   *)
CallReturns == (lpc = "loop") ~> (lpc \in {"done", "raised"})

(* spec.md 4.3 and 8: the bytes returned are those of the virtual range: *)
(* the k-th byte is the byte at virtual address addr + k - 1, whether or *)
(* not the pages of the range are contiguous in physical memory.         *)
LinearBytesCorrect == lpc = "done" => vas = Run(va0, len0)

=============================================================================
