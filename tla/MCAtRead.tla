------------------------------ MODULE MCAtRead -----------------------------
(* A small instance of AtRead.                                                *)
EXTENDS AtRead
MCChars    == Chars
MCMessages == MessageKinds
=============================================================================
