----------------------------- MODULE MCMBuffer -----------------------------
(***************************************************************************)
(* Instances of MBuffer for TLC.                                           *)
(***************************************************************************)
EXTENDS MBuffer, SequencesExt

CONSTANT MaxWrite   \* bound: bytes written at once

\* Everything up to MaxWrite bytes.
AllData == BoundedSeq(Byte, MaxWrite)
=============================================================================
