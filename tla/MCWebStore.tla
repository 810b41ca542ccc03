----------------------------- MODULE MCWebStore -----------------------------
(* WebStore with two browsers and two packages.  The browsers and the      *)
(* packages are interchangeable for the invariants.                        *)
EXTENDS WebStore, TLC

CONSTANTS c1, c2, pa, pb
MCClients == {c1, c2}
MCOneClient == {c1}
MCPkgs == {pa, pb}
MCSymmetry == Permutations({c1, c2}) \cup Permutations({pa, pb})
MCCloneOps == {"clone", "tuning"}
MCRuleOps == {"upsert", "delete", "deleteAll", "rename", "clone"}
MCEveryOp == MCRuleOps \cup {"tuning"}
MCFine == {"fine"}
MCUnclosed == {"fine", "open"}
MCGarbled == {"fine", "garbled"}
=============================================================================
