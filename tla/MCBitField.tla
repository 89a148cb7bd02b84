----------------------------- MODULE MCBitField -----------------------------
(***************************************************************************)
(* BitField for TLC: every value below 2^7 and spec.md 8's example 90,    *)
(* every field of up to 5 bits starting at one of bits 0..5, so fields    *)
(* reach past the top bit of the value as well as stay inside it.         *)
(***************************************************************************)
EXTENDS BitField

MCValues == 0..127
MCStarts == 0..5
MCWidths == 0..5
=============================================================================
