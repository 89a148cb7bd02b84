--------------------------- MODULE MCLinearBytes ---------------------------
(***************************************************************************)
(* LinearBytes for TLC, in the geometry of MCPaging (two entries per      *)
(* table, 4 KiB pages, 8 KiB and 16 KiB huge pages). The reads are of 16  *)
(* bytes, as GDT.print and IDT.print issue them, starting 8 and 4 bytes   *)
(* before the end of a 4 KiB page, at an aligned address, and past the *)
(* width assert_width accepts.                                            *)
(***************************************************************************)
EXTENDS LinearBytes

(* A raw entry: frame number f in bits 12 and up, the flag bits below. *)
MCEntry(f, flags) == f * 4096 + flags

MCRawVals ==
  { 0,                     \* not present
    MCEntry(0, 1),         \* present, frame 0
    MCEntry(1, 3),         \* present, writable, frame 1
    MCEntry(0, 129),       \* present, ps (bit 7), frame 0
    MCEntry(2, 131) }      \* present, writable, ps, frame 2

MCMappings == {0}
MCStarts == {4088, 4092, 8192, 1048584}
MCLens == {16}
=============================================================================
