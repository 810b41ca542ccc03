---------------------------- MODULE MCEbpfTrack -----------------------------
(* EbpfTrack with one or two worker threads.                               *)
EXTENDS EbpfTrack, TLC

MCWorkers == {2, 3}
MCNames == 2 :> "work" @@ 3 :> "render"

Device(ws, n) ==
  [workers |-> ws, room |-> n, exits |-> FALSE, drops |-> FALSE, hasty |-> FALSE,
   rescans |-> FALSE, longName |-> FALSE, affinity |-> TRUE]

(* Everything in any order, no event lost.                                 *)
Races == [Device({2}, 2) EXCEPT !.exits = TRUE, !.hasty = TRUE, !.rescans = TRUE,
                                !.longName = TRUE]
(* Two workers of a managed app.                                           *)
Managed == Device({2, 3}, 3)
(* A full ring buffer, and a package that has only tuning rules.           *)
Overflow == [Device({2}, 2) EXCEPT !.exits = TRUE, !.drops = TRUE, !.hasty = TRUE,
                                   !.affinity = FALSE]
Hurried == [Device({2}, 2) EXCEPT !.exits = TRUE, !.hasty = TRUE]
Renaming == [Device({2}, 2) EXCEPT !.rescans = TRUE]

MCWorlds == {Races, Managed, Overflow}
MCHurried == {Hurried}
MCRenaming == {Renaming}
=============================================================================
