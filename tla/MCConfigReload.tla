--------------------------- MODULE MCConfigReload ---------------------------
(* Instances of ConfigReload for TLC.                                      *)
EXTENDS ConfigReload

CONSTANTS a, b
OnePath == {a}
TwoPaths == {a, b}
NoOps == {}
EditOnly == {"edit"}
PathOnly == {"path"}
TuningOnly == {"tuning"}
EditAndTuning == {"edit", "tuning"}
=============================================================================
