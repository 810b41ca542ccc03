------------------------------ MODULE ProcScan ------------------------------
(***************************************************************************)
(* The /proc polling engine (proc_mode.rs, apply_affinity.rs): once a      *)
(* round cache_sync decides from the kernel's task count whether to look   *)
(* at /proc again, proc_scan rebuilds the cache, affinity_sync sets the    *)
(* affinity of what is cached.  Processes and threads come and go, and are *)
(* renamed, between any two steps, those of a walk through /proc included. *)
(*                                                                         *)
(* A task is <<process, thread>>, thread 1 being the main one.  A process  *)
(* is a target when the configuration has rules for its package.           *)
(***************************************************************************)
EXTENDS Integers, FiniteSets

CONSTANTS
  MaxPid,       \* bound: process numbers, which are used again
  MaxThread,    \* bound: threads of a process
  Pkgs,         \* the packages a configuration may have rules for
  Other,        \* the name of a process that is none of them
  Worlds        \* the devices looked at: what may happen on each of them

ASSUME PidAssumption == MaxPid \in Nat \ {0}
ASSUME ThreadAssumption == MaxThread \in Nat \ {0}
ASSUME OtherAssumption == Other \notin Pkgs

Pids == 1..MaxPid
Threads == 1..MaxThread
Names == Pkgs \cup {Other}

(* tasks: those that may be; last: the highest process number among them;  *)
(* exits: they end; lateNames: an app gets its name after the fork.        *)
ASSUME WorldAssumption ==
  /\ Worlds \subseteq [tasks : SUBSET (Pids \X Threads), last : Pids,
                      exits : BOOLEAN, lateNames : BOOLEAN]
  /\ \A w \in Worlds : \A t \in w.tasks : t[1] <= w.last

VARIABLES
  world,        \* the device
  threads,      \* threads[p]: the threads of process p, none: no such process
  name,         \* name[p]: what its cmdline says
  placed,       \* the tasks with the affinity their cache entry asks for
  targets,      \* the packages of the published configuration
  fresh,        \* CONFIG_UPDATED
  due,          \* affinity_deadline has elapsed
  pc, cfg, need,  \* where the loop is, its configuration, need_reload
  scanAll, lastCount, lastTotal, tracked, force, cache,  \* ProcScanState
  listing, cursor, total  \* of a walk: what /proc listed, how far, its count

env == <<world, threads, name>>
sync == <<scanAll, lastCount, lastTotal, tracked>>
walk == <<listing, cursor, total>>
vars == <<env, placed, targets, fresh, due, pc, cfg, need, sync, force, cache,
          walk>>

-----------------------------------------------------------------------------
Alive(p) == threads[p] # {}
Running == {p \in Pids : Alive(p)}
LiveTasks == {t \in Pids \X Threads : t[2] \in threads[t[1]]}

(* What a rebuild has found is what is tracked.                            *)
TypeOK ==
  /\ world \in Worlds
  /\ threads \in [Pids -> SUBSET Threads] /\ name \in [Pids -> Names]
  /\ placed \subseteq Pids \X Threads
  /\ targets \subseteq Pkgs /\ cfg \subseteq Pkgs
  /\ fresh \in BOOLEAN /\ due \in BOOLEAN /\ need \in BOOLEAN
  /\ scanAll \in BOOLEAN /\ force \in BOOLEAN
  /\ lastCount \in Nat /\ lastTotal \in Nat /\ total \in Nat
  /\ tracked \subseteq Pids /\ listing \subseteq Pids
  /\ cache \subseteq Pids \X Threads
  /\ cursor \in 1..MaxPid + 1
  /\ pc \in {"count", "probe", "walk", "apply"}
  /\ pc = "apply" /\ force => tracked = {t[1] : t \in cache}

Init ==
  /\ world \in Worlds
  /\ threads = [p \in Pids |-> IF p = 1 THEN {1} ELSE {}]
  /\ name = [p \in Pids |-> Other]
  /\ placed = {} /\ targets \in SUBSET Pkgs /\ fresh = TRUE /\ due \in BOOLEAN
  /\ pc = "count" /\ cfg = {} /\ need = FALSE
  /\ scanAll = TRUE /\ lastCount = 0 /\ lastTotal = 0
  /\ tracked = {} /\ force = FALSE /\ cache = {}
  /\ listing = {} /\ cursor = 1 /\ total = 0

-----------------------------------------------------------------------------
(* The device.                                                             *)

Launch(p, n) ==
  /\ <<p, 1>> \in world.tasks /\ ~Alive(p)
  /\ threads' = [threads EXCEPT ![p] = {1}]
  /\ name' = [name EXCEPT ![p] = IF world.lateNames THEN Other ELSE n]
  /\ UNCHANGED <<world, placed, targets, fresh, due, pc, cfg, need, sync, force,
                 cache, walk>>

(* The child of zygote becomes the app.                                    *)
Specialise(p, n) ==
  /\ world.lateNames
  /\ Alive(p) /\ name[p] = Other
  /\ name' = [name EXCEPT ![p] = n]
  /\ UNCHANGED <<world, threads, placed, targets, fresh, due, pc, cfg, need, sync,
                 force, cache, walk>>

(* A new thread has the affinity of the one that created it.               *)
NewThread(p, k) ==
  /\ Alive(p) /\ k \notin threads[p] /\ <<p, k>> \in world.tasks
  /\ threads' = [threads EXCEPT ![p] = @ \cup {k}]
  /\ \E parent \in threads[p] :
       placed' = IF <<p, parent>> \in placed THEN placed \cup {<<p, k>>} ELSE placed
  /\ UNCHANGED <<world, name, targets, fresh, due, pc, cfg, need, sync, force, cache,
                 walk>>

(* The main thread's end is the process's.                                 *)
Exit(p, k) ==
  /\ world.exits
  /\ k \in threads[p]
  /\ LET left == IF k = 1 THEN {} ELSE threads[p] \ {k} IN
       /\ threads' = [threads EXCEPT ![p] = left]
       /\ placed' = {t \in placed : t[1] = p => t[2] \in left}
  /\ name' = [name EXCEPT ![p] = IF k = 1 THEN Other ELSE @]
  /\ UNCHANGED <<world, targets, fresh, due, pc, cfg, need, sync, force, cache,
                 walk>>

(* The system, or the app itself, sets another affinity.                   *)
Displace(t) ==
  /\ t \in placed
  /\ placed' = placed \ {t}
  /\ UNCHANGED <<env, targets, fresh, due, pc, cfg, need, sync, force, cache,
                 walk>>

NewConfig(S) ==
  /\ targets' = S /\ fresh' = TRUE
  /\ UNCHANGED <<env, placed, due, pc, cfg, need, sync, force, cache, walk>>

DeadlinePasses ==
  /\ ~due
  /\ due' = TRUE
  /\ UNCHANGED <<env, placed, targets, fresh, pc, cfg, need, sync, force, cache,
                 walk>>

-----------------------------------------------------------------------------
(* A round of the loop.  Its locals are cleared when they are last used.   *)

(* Mutant: the threshold on the count that the code once had.              *)
MoreThanOnce(last) == Cardinality(LiveTasks) > last + 1

(* sysinfo's procs counts tasks, not processes.                            *)
MoreThan(last) == Cardinality(LiveTasks) > last

SyncCount ==
  /\ pc = "count"
  /\ pc' = "probe"
  /\ cfg' = targets /\ fresh' = FALSE
  /\ scanAll' = (scanAll \/ fresh)
  /\ need' = (scanAll \/ fresh \/ MoreThan(lastCount))
  /\ lastCount' = Cardinality(LiveTasks)
  /\ UNCHANGED <<env, placed, targets, due, lastTotal, tracked, force, cache, walk>>

(* Mutant: a process that has gone is not looked for.                      *)
SomeGoneNever == FALSE

(* kill(pid, 0) fails.                                                     *)
SomeGone == \E p \in tracked : ~Alive(p)

SyncProbe ==
  /\ pc = "probe"
  /\ IF need \/ SomeGone
     THEN /\ pc' = "walk"
          /\ cache' = {}
          /\ listing' = Running /\ cursor' = 1 /\ total' = 0
     ELSE pc' = "apply" /\ UNCHANGED <<cache, walk>>
  /\ need' = FALSE
  /\ UNCHANGED <<env, placed, targets, fresh, due, cfg, sync, force>>

(* One entry of /proc.  A process that starts or ends during the walk may  *)
(* be listed or not, and one that has gone has neither cmdline nor comm.   *)
Visit ==
  /\ pc = "walk" /\ cursor \in 1..world.last
  /\ \E listed \in BOOLEAN :
       /\ listed => cursor \in listing \/ Alive(cursor)
       /\ cursor \in listing /\ Alive(cursor) => listed
       /\ total' = IF listed THEN total + 1 ELSE total
       /\ cache' =
            IF listed /\ (scanAll \/ cursor \in tracked) /\ name[cursor] \in cfg
            THEN cache \cup {t \in LiveTasks : t[1] = cursor}
            ELSE cache
  /\ cursor' = cursor + 1
  /\ UNCHANGED <<env, placed, targets, fresh, due, pc, cfg, need, sync, force,
                 listing>>

(* Mutant: scan_all_proc stays off until a new configuration sets it.      *)
NextScanNone == FALSE

(* More processes than at the last walk: the next one looks at them all.   *)
NextScan == total > lastTotal

(* Mutant: tracked_pids is extended without being cleared.                 *)
FoundOrKnown == tracked \cup {t[1] : t \in cache}

Found == {t[1] : t \in cache}

WalkEnd ==
  /\ pc = "walk" /\ cursor = world.last + 1
  /\ pc' = "apply"
  /\ scanAll' = NextScan /\ lastTotal' = total
  /\ tracked' = Found
  /\ force' = TRUE
  /\ listing' = {} /\ cursor' = 1 /\ total' = 0
  /\ UNCHANGED <<env, placed, targets, fresh, due, cfg, need, lastCount, cache>>

(* Mutant: only what a rebuild has found is set.                           *)
TimeToApplyForced == force

TimeToApply == due \/ force

(* affinity_sync; the threads that have ended leave the cache.             *)
Apply ==
  /\ pc = "apply"
  /\ pc' = "count"
  /\ IF TimeToApply
     THEN /\ cache' = cache \cap LiveTasks
          /\ placed' = placed \cup (cache \cap LiveTasks)
          /\ due' = FALSE /\ force' = FALSE
     ELSE UNCHANGED <<cache, placed, due, force>>
  /\ cfg' = {}
  /\ UNCHANGED <<env, targets, fresh, need, sync, walk>>

Loop == SyncCount \/ SyncProbe \/ Visit \/ WalkEnd \/ Apply

Device ==
  \/ \E p \in Pids, n \in Names : Launch(p, n) \/ Specialise(p, n)
  \/ \E p \in Pids, k \in Threads : NewThread(p, k) \/ Exit(p, k)
  \/ \E t \in placed : Displace(t)

Next ==
  \/ Loop
  \/ Device
  \/ \E S \in SUBSET Pkgs : NewConfig(S)
  \/ DeadlinePasses

Spec == Init /\ [][Next]_vars

(* The loop sleeps and goes on; the clock runs.                            *)
FairSpec == Spec /\ WF_vars(Loop) /\ WF_vars(DeadlinePasses)

-----------------------------------------------------------------------------
(* What must hold.                                                         *)

Missing(p) == Alive(p) /\ name[p] \in targets /\ p \notin tracked

Grows == ~world.exits /\ ~world.lateNames

(* As long as nothing ends, between two rounds a target that is not        *)
(* tracked shows: the next round reads every process, or both counts are   *)
(* higher than the ones it will be compared with (proc_mode.rs 43, 61).    *)
NoneForgotten ==
  pc = "count" /\ Grows =>
    \A p \in Pids : Missing(p) =>
      \/ fresh \/ scanAll
      \/ Cardinality(LiveTasks) > lastCount /\ Cardinality(Running) > lastTotal

(* As long as nothing ends, every target is tracked in the end.            *)
Discovered == \A p \in Pids : Missing(p) /\ Grows ~> ~Missing(p)

(* proc_mode.rs 49: a failing kill(pid, 0) rebuilds the cache, so that a   *)
(* process that has ended is not tracked for ever.                         *)
GoneForgotten ==
  \A p \in Pids : p \in tracked /\ ~Alive(p) ~> p \notin tracked \/ Alive(p)

(* A cached task whose affinity is changed behind the program's back gets  *)
(* it back (main.rs 345).                                                  *)
KeptInPlace ==
  \A t \in Pids \X Threads : <>[](t \in cache /\ t \in LiveTasks) => []<>(t \in placed)

(* proc_mode.rs 58: a new process, noticed by the count, is found even if  *)
(* it is the only one of its app, when processes S are all that stays.     *)
LaunchNoticed ==
  \A S \in SUBSET Pids, p \in Pids :
    <>[](Running = S) => ((pc = "probe" /\ need /\ Missing(p)) ~> ~Missing(p))
=============================================================================
