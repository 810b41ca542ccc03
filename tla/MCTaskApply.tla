---------------------------- MODULE MCTaskApply -----------------------------
(* TaskApply on a device with CPUs 0 and 1 (slow) and 3 (fast), in words   *)
(* of two bits; names "render" and "ring", patterns "render" and "r*".     *)
EXTENDS TaskApply

MCComms == {"main", "render", "ring"}
MCPatterns == "render" :> {"render"} @@ "r*" :> {"render", "ring"}
MCTopo == ("all-core" :> {0, 1, 3}) @@
  DetectCoreTypes({[freq |-> 9, cpus |-> {3}], [freq |-> 5, cpus |-> {0}],
                   [freq |-> 5, cpus |-> {1}]})
MCSystemCpus == {0, 1}
MCJunk == -1

Tier(tier) == [tier |-> tier, range |-> <<>>]
Cores(range) == [tier |-> "none", range |-> range]
Rule(thread, spec) == [thread |-> thread, spec |-> spec]

(* A package rule and a thread rule; rules that count together.            *)
OneEach == <<Rule("none", <<Tier("e-core")>>), Rule("render", <<Cores(<<3, Junk>>)>>)>>
Together == <<Rule("none", <<Cores(<<0>>)>>), Rule("r*", <<Tier("hp-core"), Cores(<<1>>)>>),
              Rule("none", <<Cores(<<3, 1>>)>>), Rule("render", <<Cores(<<0>>)>>)>>
ThreadOnly == <<Rule("r*", <<Cores(<<0, 9>>)>>)>>

ThreadTune(pattern, lo, hi, n) ==
  [pattern |-> pattern, min |-> lo, max |-> hi, nice |-> n]
Group(g, n) == [name |-> g, limit |-> n]
Tuned1(group, threads) == [pkg |-> "app", group |-> group, threads |-> threads]

NoDoc == [groups |-> <<>>, apps |-> <<>>]
(* The general rule first, the special one after it; and the other way.    *)
Ordered == [groups |-> <<Group("g", 1)>>,
            apps |-> <<Tuned1("g", <<ThreadTune("r*", 1, No, 5),
                                     ThreadTune("render", No, 1, -5)>>)>>]
Reversed == [groups |-> <<Group("h", 1), Group("g", 2)>>,
             apps |-> <<[pkg |-> "other", group |-> "h", threads |-> <<>>],
                        Tuned1("g", <<ThreadTune("render", 2, No, No),
                                      ThreadTune("r*", 0, 1, No)>>)>>]
(* A group that is not there, an app twice, clamps upside down.            *)
Refused == {[Ordered EXCEPT !.groups = <<>>],
            [Reversed EXCEPT !.apps = @ \o @],
            [Ordered EXCEPT !.apps[1].threads[2].min = 2]}

World ==
  [files |-> {OneEach}, docs |-> {NoDoc}, bases |-> {"AppOpt"}, engine |-> "ebpf",
   cpuset |-> TRUE, fails |-> FALSE, ends |-> FALSE, comms |-> {"render"},
   masks |-> {}, nices |-> {}, moved |-> {}]
BothNames == {"render", "ring"}

Naming == [World EXCEPT !.bases = {"AppOpt", "Other"}]
Editing == [World EXCEPT !.files = {Together, ThreadOnly}, !.comms = BothNames,
                         !.ends = TRUE]
Moving == [World EXCEPT !.files = {Together}, !.comms = BothNames,
                        !.masks = {{0}}, !.moved = {1, 2}]
Failing == [World EXCEPT !.files = {OneEach, ThreadOnly}, !.fails = TRUE]
Polling == [World EXCEPT !.engine = "proc", !.files = {Together}, !.comms = BothNames,
                         !.ends = TRUE]
Bare == [World EXCEPT !.cpuset = FALSE, !.files = {Together, <<>>}, !.ends = TRUE]
Tuning == [World EXCEPT !.cpuset = FALSE, !.files = {<<>>}, !.comms = BothNames,
                        !.docs = {Ordered, Reversed} \cup Refused]
Untuned == [Tuning EXCEPT !.docs = {NoDoc, Reversed}, !.ends = TRUE,
                          !.comms = {"render"}]
Reniced == [Tuning EXCEPT !.docs = {Ordered, Reversed}, !.comms = {"render"}, !.nices = {-1},
                          !.moved = {2}]
Both == [World EXCEPT !.docs = {Ordered, Reversed}]

MCWorlds == {Naming, Editing, Moving, Failing, Polling, Bare, Tuning, Untuned,
             Reniced, Both}
MCReniced == {Reniced}
=============================================================================
