------------------------------- MODULE MCHtif --------------------------------
(***************************************************************************)
(* Texts for TLC: every text of up to four characters, one with an even    *)
(* code (a newline) and one with an odd code.                              *)
(***************************************************************************)
EXTENDS Htif, SequencesExt

CONSTANT Chars, MaxText

MCTexts == SeqOf(Chars, MaxText)
==============================================================================
