---------------------------- MODULE MCLifecycle ----------------------------
(* Instances of Lifecycle for TLC. *)
EXTENDS Lifecycle, TLC

CONSTANTS d1, d2

OneDev  == {d1}
TwoDevs == {d1, d2}
None    == {}

Both       == {"stopped", "started"}
OnlyOn     == {"started"}
AllTimes   == RestateTime
NowOnly    == {"now"}
NowOrConvenient == {"now", "convenient"}
Gracefully == {"gracefully"}

Interchangeable == Permutations(TwoDevs)
=============================================================================
