---------------------------- MODULE ResolveSpec ----------------------------
(***************************************************************************)
(* What resolve(root, va) promises (spec.md 4.2, 5 and 8), with the memory *)
(* reads a call makes as the only steps between its call and its return. *)
(*                                                                         *)
(* The memory image is fixed but unknown: mem holds the 8-byte slots read *)
(* so far. While a call is in progress the only reads allowed are those  *)
(* of the hardware walk, in level order (5: "no reordering or speculative *)
(* reads ... each read's target address depends on the previous read's   *)
(* result"), and the call returns the walk of root and va over the image: *)
(* every entry visited, and the page, page size and offset of the leaf,  *)
(* or absent ones (None) when the walk met a non-present entry.          *)
(*                                                                         *)
(* Entries are read at the hardware bit positions: present is bit 0, the  *)
(* page-size bit is bit 7 (meaningful at the PDPT and PD levels), the     *)
(* frame is bits 12 .. 12+M-1, the index of level l is the l-th          *)
(* IdxBits-wide field below bit 12+4*IdxBits.                             *)
(***************************************************************************)
EXTENDS Integers, Sequences

CONSTANTS IdxBits, M, AddrBits, RawVals, Roots, VAs, None

VARIABLES
  mem,   \* the slots read so far: physical address -> raw value
  st,    \* "idle", "walking" (a call in progress), "done" or "failed"
  root,  \* the root of the last call
  va,    \* the virtual address of the last call
  out    \* what the last call returned, or None

vars == <<mem, st, root, va, out>>

Fld(value, start, nbits) == (value \div 2^start) % 2^nbits

VABits == 12 + 4 * IdxBits

(* The entry of level l lets the walk go on to the next level. *)
Continues(l, raw) ==
  /\ Fld(raw, 0, 1) = 1
  /\ l # 3
  /\ ~(l \in {1, 2} /\ Fld(raw, 7, 1) = 1)

(* The table the entry in slot s of the image m refers to. *)
NextTable(m, s) == Fld(m[s], 12, M) * 2^12

(* The slot of level k in table t for the address v. *)
SlotIn(t, v, k) == t + Fld(v, VABits - (k + 1) * IdxBits, IdxBits) * 8

(* The slots of levels 0..3 on the walk of v from r over the image m:   *)
(* each in the table the entry of the level above refers to.             *)
WalkSlot(m, r, v) ==
  LET s0 == SlotIn(r, v, 0)
      s1 == SlotIn(NextTable(m, s0), v, 1)
      s2 == SlotIn(NextTable(m, s1), v, 2)
      s3 == SlotIn(NextTable(m, s2), v, 3)
  IN  [k \in 0..3 |-> IF k = 0 THEN s0 ELSE IF k = 1 THEN s1
                     ELSE IF k = 2 THEN s2 ELSE s3]

(* The walk has read the slots of levels 0..k-1 and each let it go on. *)
Reached(m, r, v, k) ==
  \A j \in 0..(k - 1) :
    /\ WalkSlot(m, r, v)[j] \in DOMAIN m
    /\ Continues(j, m[WalkSlot(m, r, v)[j]])

(* The image holds the whole walk, up to the level where it stops. *)
StopsAt(m, r, v, n) ==
  /\ Reached(m, r, v, n)
  /\ WalkSlot(m, r, v)[n] \in DOMAIN m
  /\ ~Continues(n, m[WalkSlot(m, r, v)[n]])
Walked(m, r, v) == \E n \in 0..3 : StopsAt(m, r, v, n)

MemRead(m, a, x) == [y \in DOMAIN m \cup {a} |-> IF y = a THEN x ELSE m[y]]

(* m2 is m after the next read of the walk: that of the first slot on it *)
(* not read yet.                                                          *)
ReadNext(m, m2, r, v) ==
  \E k \in 0..3, x \in RawVals :
    /\ Reached(m, r, v, k)
    /\ WalkSlot(m, r, v)[k] \notin DOMAIN m
    /\ m2 = MemRead(m, WalkSlot(m, r, v)[k], x)

(* The translation result: every entry visited; for a present leaf of   *)
(* level n the page of size 2^(12+(3-n)*IdxBits) holding v, its base    *)
(* the frame field narrowed to that boundary, and v's offset in it.     *)
HwResult(m, r, v) ==
  LET n == CHOOSE l \in 0..3 : StopsAt(m, r, v, l)
      leaf == m[WalkSlot(m, r, v)[n]]
      size == 2^(12 + (3 - n) * IdxBits)
  IN  [entries |-> [k \in 1..(n + 1) |-> m[WalkSlot(m, r, v)[k - 1]]],
       page |-> IF Fld(leaf, 0, 1) = 1
                THEN ((leaf % 2^(12 + M)) \div size) * size ELSE None,
       size |-> IF Fld(leaf, 0, 1) = 1 THEN size ELSE None,
       offset |-> IF Fld(leaf, 0, 1) = 1 THEN v % size ELSE None]

Init ==
  /\ mem = [a \in {} |-> 0]
  /\ st = "idle"
  /\ root = None
  /\ va = None
  /\ out = None

(* A call with an address of the architecture's width starts a walk. *)
Call(r, v) ==
  /\ st # "walking"
  /\ v < 2^AddrBits
  /\ st' = "walking"
  /\ root' = r
  /\ va' = v
  /\ out' = None
  /\ UNCHANGED mem

(* 7: an address wider than the architecture is rejected before any read. *)
Reject(r, v) ==
  /\ st # "walking"
  /\ ~(v < 2^AddrBits)
  /\ st' = "failed"
  /\ root' = r
  /\ va' = v
  /\ out' = None
  /\ UNCHANGED mem

(* The walk in progress reads its next slot. *)
Read ==
  /\ st = "walking"
  /\ ReadNext(mem, mem', root, va)
  /\ UNCHANGED <<st, root, va, out>>

(* The call returns, after reading the last slot of its walk or having  *)
(* read it already.                                                      *)
Return ==
  /\ st = "walking"
  /\ mem' = mem \/ ReadNext(mem, mem', root, va)
  /\ Walked(mem', root, va)
  /\ st' = "done"
  /\ out' = HwResult(mem', root, va)
  /\ UNCHANGED <<root, va>>

Next ==
  \/ \E r \in Roots, v \in VAs : Call(r, v) \/ Reject(r, v)
  \/ Read
  \/ Return

Spec == Init /\ [][Next]_vars
=============================================================================
