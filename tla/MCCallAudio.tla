---------------------------- MODULE MCCallAudio ----------------------------
(* A small instance of CallAudio.  *)
EXTENDS CallAudio, TLC

CONSTANTS MaxLen, NoOne

MCSounds == Cpvt \X (1..MaxLen)
MCOld    == << NoOne, 0 >>
Symmetry == Permutations(Cpvt)
=============================================================================
