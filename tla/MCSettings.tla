----------------------------- MODULE MCSettings -----------------------------
(* Settings with two paths besides the one only the command line takes.    *)
EXTENDS Settings

CONSTANTS default, other, odd, notGiven
MCPaths == {default, other}
MCInRange == {5}
MCTooLong == {4000}
MCWebIntervals == {2, 3600}
MCCliPaths == {other}
MCNoPaths == {}
=============================================================================
