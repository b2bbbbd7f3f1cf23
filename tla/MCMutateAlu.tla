----------------------------- MODULE MCMutateAlu -----------------------------
(***************************************************************************)
(* Four of the script's seven edits for TLC. As in the script, two of them *)
(* replace the same text.                                                  *)
(***************************************************************************)
EXTENDS MutateAlu

\* A bench that notices every edit, and some that do not.
MCBlinds == {{}, {3}, {1, 3}}
NoBlinds == {{}}

MCSite == <<"shamt", "slt", "slt", "sltu">>
==============================================================================
