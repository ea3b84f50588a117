------------------------------- MODULE MCSms -------------------------------
(* A message of the driver, of sixteen septets, and two from elsewhere: one      *)
(* whose sender is a name, which is not read, one in UCS-2 from a national number. *)
EXTENDS Sms, TLC

CONSTANTS m1, f1, f2

MCInit == << "AT" >>

MCContent ==
  m1 :> [number |-> [plus |-> FALSE, digits |-> << "7", "9", "b" >>],
         text |-> << 72, 101, 108, 108, 111, 33, 33, 127, 1, 64, 66, 99, 100, 31, 32, 126 >>,
         minutes |-> 721, report |-> TRUE]

MCForeign ==
  f1 :> [type |-> 4, digits |-> 4, toa |-> 208, codes |-> << "F", "7", "F", "B" >>,
         pid |-> 0, dcs |-> 0, udl |-> 2, ud |-> Pack(<< 72, 105 >>)] @@
  f2 :> [type |-> 0, digits |-> 3, toa |-> 129, codes |-> << "1", "1", "F", "1" >>,
         pid |-> 0, dcs |-> 8, udl |-> 2, ud |-> Ucs2(<< 1055 >>)]
=============================================================================
