----------------------------- MODULE Compaction -----------------------------
(***************************************************************************)
(* helper.compact_entries of tools/gdb/stubs/helper.py: one pass over the *)
(* (index, entry) pairs that merges an entry into the last run when the   *)
(* caller's cmp_eq holds between the run's first entry and it. A run is   *)
(* the triple <<start, stop, entry>>.                                     *)
(***************************************************************************)
EXTENDS Integers, Sequences

CONSTANT CmpEq(_, _)  \* the caller's cmp_eq

(* Mutant: a merged entry makes the run (idx, old start). *)
CompactEntriesSwapped(entries) ==
  LET l[k \in 0..Len(entries)] ==
        IF k = 0 THEN <<>>
        ELSE LET prev == l[k - 1]
                 idx == entries[k][1]
                 entry == entries[k][2]
             IN  IF prev # <<>> /\ CmpEq(prev[Len(prev)][3], entry)
                 THEN [prev EXCEPT ![Len(prev)] =
                         <<idx, prev[Len(prev)][1], prev[Len(prev)][3]>>]
                 ELSE Append(prev, <<idx, idx, entry>>)
  IN  l[Len(entries)]

(* Mutant: a merged entry leaves the run's stop as it was. *)
CompactEntriesStaleStop(entries) ==
  LET l[k \in 0..Len(entries)] ==
        IF k = 0 THEN <<>>
        ELSE LET prev == l[k - 1]
                 idx == entries[k][1]
                 entry == entries[k][2]
             IN  IF prev # <<>> /\ CmpEq(prev[Len(prev)][3], entry)
                 THEN [prev EXCEPT ![Len(prev)] =
                         <<prev[Len(prev)][1], prev[Len(prev)][2], prev[Len(prev)][3]>>]
                 ELSE Append(prev, <<idx, idx, entry>>)
  IN  l[Len(entries)]

(* The first pair opens a run; a pair cmp_eq to the last run's entry    *)
(* replaces that run by (old start, idx, old entry); any other pair     *)
(* opens a run of its own.                                               *)
CompactEntries(entries) ==
  LET l[k \in 0..Len(entries)] ==
        IF k = 0 THEN <<>>
        ELSE LET prev == l[k - 1]
                 idx == entries[k][1]
                 entry == entries[k][2]
             IN  IF prev # <<>> /\ CmpEq(prev[Len(prev)][3], entry)
                 THEN [prev EXCEPT ![Len(prev)] =
                         <<prev[Len(prev)][1], idx, prev[Len(prev)][3]>>]
                 ELSE Append(prev, <<idx, idx, entry>>)
  IN  l[Len(entries)]
=============================================================================
