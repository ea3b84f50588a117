-------------------------- MODULE MCDeviceSelect --------------------------
(* A small instance of DeviceSelect: a round robin of all devices and an     *)
(* IMEI.  c1 continues an incoming call of the first device and would hold   *)
(* it for the call it asks for; c2 asks for the IMEI with "holdother".         *)
EXTENDS DeviceSelect, TLC

CONSTANTS rr, im, c1, c2

MCKind      == (im :> "imei") @@ (rr :> "rgroup")
MCMembersOf == (im :> {1}) @@ (rr :> Devices)
MCActsFor   == (c1 :> 1) @@ (c2 :> NoDev)
MCAsks      == { << c1, rr, TRUE >>, << c2, rr, FALSE >>, << c2, im, TRUE >> }
=============================================================================
