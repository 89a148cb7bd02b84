------------------------------ MODULE MCPaging ------------------------------
(***************************************************************************)
(* Paging, and its refinement of ResolveSpec, for TLC: two entries per    *)
(* table (IdxBits = 1), so virtual addresses have 16 translated bits and *)
(* assert_width accepts 20; a frame reference of 16 bits. Table entries *)
(* refer to frames 0, 1 and 4 (frame 4 is 1 GiB-scaled aligned, 2^14),   *)
(* as tables or as huge pages.                                            *)
(***************************************************************************)
EXTENDS PagingRefinement

(* A raw entry: frame number f in bits 12 and up, the flag bits below. *)
MCEntry(f, flags) == f * 4096 + flags

MCRawVals ==
  { 0,                     \* not present
    MCEntry(0, 1),         \* present, frame 0
    MCEntry(1, 3),         \* present, writable, frame 1
    MCEntry(0, 129),       \* present, ps (bit 7), frame 0
    MCEntry(1, 131),       \* present, writable, ps, frame 1 (unaligned)
    MCEntry(4, 129) }      \* present, ps, frame 4

(* The same with an entry that sets bit 20 (frame 256): above the model's *)
(* physical width 2^16 as bit 52, the first software-available bit, is    *)
(* above the real one.                                                      *)
MCRawValsSoftwareBits == MCRawVals \cup {MCEntry(256, 1)}

MCRoots == {0}

(* One address per index bit and a page offset, two canonical addresses *)
(* of the upper half, and one that assert_width rejects.               *)
MCVAs == {0, 4104, 8208, 16408, 1015840, 1015816, 1048576}

(* The same with a non-canonical address (bit 16 set, bit 15 clear). *)
MCVAsNonCanonical == MCVAs \cup {65544}
=============================================================================
