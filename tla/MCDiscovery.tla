---------------------------- MODULE MCDiscovery ----------------------------
(* A device known by IMEI and IMSI and one known by its IMEI, two places, and  *)
(* a dongle of neither, without a SIM.                                         *)
EXTENDS Discovery

CONSTANTS s1, s2, a, b, c

MCPlaces  == << s1, s2 >>
MCDevices == << [imei |-> a, imsi |-> a], [imei |-> b, imsi |-> None] >>
=============================================================================
