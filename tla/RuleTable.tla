------------------------------ MODULE RuleTable ------------------------------
(***************************************************************************)
(* What the rule requests of the web API promise, without the text that    *)
(* keeps the rules: a table from packages and threads to CPUs (thread None *)
(* for the rule of the package itself, the set {} for no rule).  A request *)
(* answered "ok" has done what it names and nothing else, one that finds   *)
(* nothing says so, and any other answer has changed nothing.              *)
(***************************************************************************)
CONSTANTS PkgNames, ThreadNames, None, CpuSets

VARIABLES table, last

Nothing == [t \in ThreadNames \cup {None} |-> {}]

(* Which of the two kinds of rules a package has.                          *)
Has(rules, kind) ==
  IF kind = "pkg" THEN rules[None] # {} ELSE \E t \in ThreadNames : rules[t] # {}

Selected(rules, kinds) ==
  [t \in ThreadNames \cup {None} |->
     IF (IF t = None THEN "pkg" ELSE "thr") \in kinds THEN rules[t] ELSE {}]

(* When a request can be done on the table now, and what it makes of it.   *)
Possible(now, r) ==
  CASE r.op = "delete" -> now[r.pkg][r.thread] # {}
    [] r.op = "rename" -> now[r.to] = Nothing
    [] r.op = "clone" -> now[r.to] = Nothing /\ \A k \in r.kinds : Has(now[r.pkg], k)
    [] OTHER -> TRUE

Result(now, r) ==
  CASE r.op = "upsert" -> [now EXCEPT ![r.pkg][r.thread] = r.cpus]
    [] r.op = "delete" -> [now EXCEPT ![r.pkg][r.thread] = {}]
    [] r.op = "deleteAll" -> [now EXCEPT ![r.pkg] = Nothing]
    [] r.op = "rename" -> [now EXCEPT ![r.to] = now[r.pkg], ![r.pkg] = Nothing]
    [] OTHER -> [now EXCEPT ![r.to] = Selected(now[r.pkg], r.kinds)]

(* What a request looks for is not there.                                  *)
Missing(now, r) ==
  CASE r.op = "delete" -> now[r.pkg][r.thread] = {}
    [] r.op \in {"deleteAll", "rename"} -> now[r.pkg] = Nothing
    [] r.op = "clone" -> \E k \in r.kinds : ~Has(now[r.pkg], k)
    [] OTHER -> FALSE

Init == table \in [PkgNames -> [ThreadNames \cup {None} -> CpuSets]]

Next ==
  LET now == table
      r == last'.req IN
  CASE last'.answer = "ok" -> Possible(now, r) /\ table' = Result(now, r)
    [] last'.answer = "missing" -> Missing(now, r) /\ table' = now
    [] last'.answer \in {"conflict", "io"} -> table' = now
    [] OTHER -> FALSE

Spec == Init /\ [][Next]_<<table, last>>
=============================================================================
