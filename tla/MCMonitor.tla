----------------------------- MODULE MCMonitor -----------------------------
(* Small instances of Monitor: an initialization with one command of each    *)
(* way to fail, and the tasks the configuration names.                       *)
EXTENDS Monitor

MCInit    == << "AT", "CVOICE", "CNMI" >>
MCNoVoice == << "CSCS", "CNMI" >>
=============================================================================
