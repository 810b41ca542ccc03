----------------------------- MODULE MCProcScan -----------------------------
(* ProcScan on devices with two or three process numbers; these are        *)
(* ordered, so the symmetry is only among packages (here there is one).    *)
EXTENDS ProcScan

CONSTANTS app, other
MCPkgs == {app}

(* Three processes, two of them with a second thread, that never end; and  *)
(* two of one thread that end, and may be named late.                      *)
Growing == [tasks |-> {<<1, 1>>, <<2, 1>>, <<3, 1>>, <<2, 2>>, <<3, 2>>}, last |-> 3,
            exits |-> FALSE, lateNames |-> FALSE]
Churning(late) == [tasks |-> {<<1, 1>>, <<2, 1>>}, last |-> 2,
                   exits |-> TRUE, lateNames |-> late]

MCWorlds == {Growing, Churning(TRUE)}
MCChurning == {Churning(FALSE)}
=============================================================================
