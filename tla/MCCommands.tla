----------------------------- MODULE MCCommands -----------------------------
(***************************************************************************)
(* Commands for TLC: two CPUs; cr3 values with and without the PWT bit;   *)
(* two GDTR/IDTR values; dumps whose CPU paragraphs are preceded,         *)
(* separated or followed by blank ones.                                   *)
(***************************************************************************)
EXTENDS Commands

MCCr3Vals == {4096, 8192}
MCCr3ValsFlags == {4096, 8192 + 8}    \* 8: PWT
MCDtVals == {<<4096, 15>>, <<8192, 31>>}
MCArgVals == {0, 15}
MCLayouts == {<<0, 1>>, <<Blank, 0, 1>>, <<0, Blank, 1, Blank>>, <<0>>}
=============================================================================
