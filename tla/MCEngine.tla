------------------------------ MODULE MCEngine ------------------------------
(* Instances of Engine for TLC.                                            *)
EXTENDS Engine

NoBig == {}
SecondBig == {2}
=============================================================================
