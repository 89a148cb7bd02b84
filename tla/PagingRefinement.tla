-------------------------- MODULE PagingRefinement --------------------------
(***************************************************************************)
(* MMU.resolve implements what spec.md promises of resolve (ResolveSpec): *)
(* each read of a new slot is the next read of the hardware walk, a read  *)
(* of a slot read before changes nothing the caller sees, and the last    *)
(* step returns the hardware walk's result.                               *)
(*                                                                         *)
(* The refinement mapping: the memory image, the call state, root and va  *)
(* are the detailed ones; the returned value is the raw values of the     *)
(* entries and the page, size and offset, once the walk is done.          *)
(***************************************************************************)
EXTENDS Paging

(* The widest power of two the geometry splits: the top of the frame    *)
(* field (12+M) or the translated width (VABits), whichever is higher.   *)
PowWidth == IF VABits > 12 + M THEN VABits ELSE 12 + M

(* The law of exponents for the powers of two the geometry uses, which  *)
(* the page address of a huge page rests on (bits taken from bit s on   *)
(* and shifted back are the bits below 12+M with those below s cleared) *)
(* and so does the split of a virtual address into indices and offset. *)
ASSUME PowersOfTwoAdd ==
  \A p, q \in 0..PowWidth : p + q <= PowWidth => 2^(p + q) = 2^p * 2^q

(* The powers of two up to that width are positive naturals. *)
ASSUME PowersOfTwoWide == \A n \in 0..PowWidth : 2^n \in Nat \ {0}

ResolveOut ==
  IF wst = "done"
  THEN [entries |-> [k \in 1..Len(entries) |-> entries[k].raw],
        page |-> result.page, size |-> result.size, offset |-> result.offset]
  ELSE None

Resolution ==
  INSTANCE ResolveSpec WITH st <- wst, root <- wbase, va <- wva, out <- ResolveOut

(* Every behaviour of the page-table walk of MMU.resolve, over any memory *)
(* image, is a behaviour of the resolve that spec.md 4.2 and 5 describe:  *)
(* no read off the hardware walk or out of level order, and a result that *)
(* is the hardware translation, whatever the calls before it read.        *)
ImplementsResolve == Resolution!Spec
=============================================================================
