------------------------------ MODULE HotConfig ------------------------------
(***************************************************************************)
(* What hot reload promises to the main loop: the configuration may be     *)
(* replaced at any moment, the main loop acts on the one that is current,  *)
(* and it never rests on an older one for ever.                            *)
(***************************************************************************)
CONSTANT Configs

VARIABLES
  cur,    \* the configuration in force
  acted   \* the configuration the main loop last rescanned with

Init == cur \in Configs /\ acted \in Configs

Publish == cur' \in Configs /\ UNCHANGED acted

Act == acted' = cur /\ UNCHANGED cur

Next == Publish \/ Act

Spec == Init /\ [][Next]_<<cur, acted>> /\ WF_<<cur, acted>>(Act)
=============================================================================
