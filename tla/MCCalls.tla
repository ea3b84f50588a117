------------------------------ MODULE MCCalls ------------------------------
(* Small instances of Calls.  The device is initialized: the initialization  *)
(* scripts are never run.                                                    *)
EXTENDS Calls

MCInit    == << "AT" >>
NoOption  == {{}}
HoldOther == {{}, {"hold"}}
Join2     == {{}, {"hold", "conference"}}
MCTasks   == 1..8
=============================================================================
