----------------------------- MODULE EbpfTrack ------------------------------
(***************************************************************************)
(* The event-driven engine: four tracepoints in the kernel                 *)
(* (appopt-ebpf/src/main.rs) that filter by the tasks marked in            *)
(* APPLIED_MAP and by a whitelist of names, and the main loop              *)
(* (ebpf_mode.rs, cache.rs) that applies the events, keeps the cache of    *)
(* managed tasks and writes the marks back.  The kernel goes on between    *)
(* any two system calls of the loop.                                       *)
(*                                                                         *)
(* There is one process slot, with main thread 1, its worker threads, and  *)
(* one package to look for; numbers are used again.  The ring buffer, its  *)
(* reader thread and the channel are one queue.                            *)
(***************************************************************************)
EXTENDS Integers, Sequences

CONSTANTS
  Workers,      \* the thread numbers besides 1
  ThreadName,   \* ThreadName[t]: the name that worker t takes
  MaxEvents,    \* bound: events in the queue
  Worlds        \* the devices and configurations looked at

ASSUME WorkersAssumption == 1 \notin Workers
ASSUME NamesAssumption ==
  /\ DOMAIN ThreadName = Workers
  /\ \A t \in Workers : ThreadName[t] \notin {"app", "other", "gone", "no"}
ASSUME EventsAssumption == MaxEvents \in Nat \ {0}

(* workers: the threads there may be;                                      *)
(* room: the events that the queue holds;                                  *)
(* exits: tasks end;                                                       *)
(* drops: a full ring buffer drops events; otherwise nothing happens while *)
(*   the queue is full;                                                    *)
(* hasty: an app may start threads before its own is managed;              *)
(* rescans: configurations change after the first one;                     *)
(* longName: the package does not fit a comm: its cmdline is compared;     *)
(* affinity: its rules set affinity; otherwise they are only tuning.       *)
ASSUME WorldAssumption ==
  Worlds \subseteq [workers : SUBSET Workers, room : 1..MaxEvents,
                   exits : BOOLEAN, drops : BOOLEAN, hasty : BOOLEAN,
                   rescans : BOOLEAN, longName : BOOLEAN, affinity : BOOLEAN]

Tids == {1} \cup Workers
Comms == {"app", "other", "gone"} \cup {ThreadName[t] : t \in Workers}

VARIABLES
  world,    \* which of the worlds
  comm,     \* comm[t]: "app" the package, a thread's name, "other" neither;
            \* "gone": there is no task t
  named,    \* the cmdline of process 1 is the package
  white,    \* TARGET_COMM_MAP holds the package
  marks,    \* the keys of APPLIED_MAP
  events,   \* ring buffer, reader thread and channel
  passed,   \* history: tasks whose FORK passed the filter
  lost,     \* history: those of them whose RENAME did not
  rescan,   \* CONFIG_UPDATED
  cache,    \* cache[t]: the comm of the entry of task t, "no": none
  pc,       \* where the loop is
  cur,      \* the task being applied: its tid, comm and what for
  todo,     \* of full_scan: marks to clear, then tasks to visit
  gone      \* the tids whose marks are about to be removed

kernel == <<comm, named, marks, events, passed, lost>>
loop == <<world, white, rescan, cache, pc, cur, todo, gone>>
vars == <<kernel, loop>>

-----------------------------------------------------------------------------
Alive(t) == comm[t] # "gone"
Cached(t) == cache[t] # "no"
Queued(type, t) == \E i \in 1..Len(events) : events[i].type = type /\ events[i].tid = t

Event(type, t, c) == [type |-> type, tid |-> t, comm |-> c]
Nobody == [tid |-> 1, comm |-> "gone", of |-> "none"]

(* A scan is finished before events are handled.                           *)
TypeOK ==
  /\ world \in Worlds
  /\ comm \in [Tids -> Comms]
  /\ (\E t \in Workers : Alive(t)) => Alive(1)
  /\ named \in BOOLEAN /\ white \in BOOLEAN /\ rescan \in BOOLEAN
  /\ marks \subseteq Tids /\ todo \subseteq Tids /\ gone \subseteq Tids
  /\ passed \subseteq Tids /\ lost \subseteq passed
  /\ Len(events) <= world.room
  /\ \A i \in 1..Len(events) : events[i] \in
       [type : {"fork", "exec", "rename", "exit"}, tid : Tids, comm : Comms]
  /\ cache \in [Tids -> Comms \cup {"no"}]
  /\ pc \in {"round", "list", "clear", "walk", "read", "apply", "mark", "remark",
             "recv", "unmark", "check", "sweep"}
  /\ pc \in {"round", "recv", "unmark", "check", "sweep"} => todo = {}
  /\ cur \in [tid : Tids, comm : Comms, of : {"none", "scan", "exec", "rename"}]

(* The programs are attached, the first configuration is published, the    *)
(* app runs or does not.                                                   *)
Init ==
  /\ world \in Worlds
  /\ \/ comm = [t \in Tids |-> "gone"] /\ named = FALSE
     \/ comm = [t \in Tids |-> IF t = 1 THEN "app"
                               ELSE IF t \in world.workers THEN ThreadName[t]
                               ELSE "gone"] /\ named = TRUE
  /\ white = FALSE /\ marks = {} /\ events = <<>>
  /\ passed = {} /\ lost = {}
  /\ rescan = TRUE
  /\ cache = [t \in Tids |-> "no"]
  /\ pc = "round" /\ cur = Nobody /\ todo = {} /\ gone = {}

-----------------------------------------------------------------------------
(* The kernel.  ring(es) submits the events es.                            *)

Ring(es) ==
  IF Len(events) + Len(es) <= world.room
  THEN events' = events \o es
  ELSE world.drops /\ events' = SubSeq(events \o es, 1, world.room)

Whitelisted(c) == white /\ c = "app"

(* A process starts, as the child of zygote or of a shell.                 *)
NewProcess ==
  /\ ~Alive(1)
  /\ comm' = [comm EXCEPT ![1] = "other"]
  /\ named' = FALSE
  /\ UNCHANGED <<marks, events, passed, lost, loop>>

SetCmdline ==
  /\ Alive(1) /\ ~named
  /\ named' = TRUE
  /\ UNCHANGED <<comm, marks, events, passed, lost, loop>>

(* Mutant: the child of a managed task is reported and not marked.         *)
ForkMarkNone(t, parent) == marks

(* The placeholder for the child of a managed task.                        *)
ForkMark(t, parent) == IF parent \in marks THEN marks \cup {t} ELSE marks

(* sched_process_fork for a thread; a child has the comm of its parent.    *)
Fork(t, parent) ==
  /\ Alive(parent) /\ ~Alive(t)
  /\ world.hasty \/ parent \in marks
  /\ comm' = [comm EXCEPT ![t] = comm[parent]]
  /\ IF parent \in marks \/ Whitelisted(comm[parent])
     THEN /\ Ring(<<Event("fork", t, comm[parent])>>)
          /\ passed' = passed \cup {t}
          /\ marks' = ForkMark(t, parent)
     ELSE UNCHANGED <<events, passed, marks>>
  /\ UNCHANGED <<named, lost, loop>>

(* task_rename                                                             *)
Rename(t, c) ==
  /\ Alive(t)
  /\ comm' = [comm EXCEPT ![t] = c]
  /\ IF t \in marks \/ Whitelisted(c)
     THEN Ring(<<Event("rename", t, c)>>) /\ UNCHANGED lost
     ELSE lost' = lost \cup ({t} \cap passed) /\ UNCHANGED events
  /\ UNCHANGED <<named, marks, passed, loop>>

(* sched_process_exec; the new program's name is a rename before it.       *)
Exec(c) ==
  /\ Alive(1) /\ \A t \in Workers : ~Alive(t)
  /\ comm' = [comm EXCEPT ![1] = c]
  /\ named' = (c = "app")
  /\ IF 1 \in marks \/ Whitelisted(c)
     THEN Ring(<<Event("rename", 1, c), Event("exec", 1, c)>>)
     ELSE UNCHANGED events
  /\ UNCHANGED <<marks, passed, lost, loop>>

ExitMark(t) == marks \ {t}

(* sched_process_exit; the main thread is the last.                        *)
Exit(t) ==
  /\ world.exits /\ Alive(t)
  /\ t = 1 => \A u \in Workers : ~Alive(u)
  /\ comm' = [comm EXCEPT ![t] = "gone"]
  /\ named' = (named /\ t # 1)
  /\ marks' = ExitMark(t)
  /\ IF t \in marks THEN Ring(<<Event("exit", t, "gone")>>) ELSE UNCHANGED events
  /\ passed' = passed \ {t} /\ lost' = lost \ {t}
  /\ UNCHANGED loop

Kernel ==
  \/ NewProcess \/ SetCmdline
  \/ \E t \in world.workers, parent \in Tids : Fork(t, parent)
  \/ Rename(1, "app") \/ \E t \in world.workers : Rename(t, ThreadName[t])
  \/ \E c \in {"app", "other"} : Exec(c)
  \/ \E t \in Tids : Exit(t)

NewConfig ==
  /\ world.rescans
  /\ rescan' = TRUE
  /\ UNCHANGED <<world, kernel, white, cache, pc, cur, todo, gone>>

-----------------------------------------------------------------------------
(* The main loop: a new configuration is a new whitelist and a full_scan.  *)

Round ==
  /\ pc = "round"
  /\ pc' = IF rescan THEN "list" ELSE "recv"
  /\ rescan' = FALSE
  /\ white' = (white /\ ~rescan)
  /\ UNCHANGED <<world, kernel, cache, cur, todo, gone>>

(* Mutant: full_scan adds to what is cached.                               *)
EmptiedNot == cache

Emptied == [t \in Tids |-> "no"]

Whitelist ==
  /\ pc = "list"
  /\ pc' = "clear"
  /\ white' = TRUE
  /\ cache' = Emptied
  /\ todo' = marks
  /\ UNCHANGED <<world, kernel, rescan, cur, gone>>

(* applied_clear removes the marks it has listed.                          *)
Clear ==
  /\ pc = "clear"
  /\ \/ /\ todo = {}
        /\ pc' = "walk"
        /\ UNCHANGED <<marks, todo>>
     \/ \E t \in todo :
          /\ marks' = marks \ {t} /\ todo' = todo \ {t}
          /\ UNCHANGED pc
  /\ UNCHANGED <<world, comm, named, events, passed, lost, white, rescan, cache, cur, gone>>

(* proc_walk finds the process by its cmdline and lists its tasks.         *)
Walk ==
  /\ pc = "walk"
  /\ pc' = "read"
  /\ todo' = IF named THEN {t \in Tids : Alive(t)} ELSE {}
  /\ UNCHANGED <<world, kernel, white, rescan, cache, cur, gone>>

(* tid_comm of the next task.                                              *)
ReadComm ==
  /\ pc = "read"
  /\ \/ /\ todo = {}
        /\ pc' = "recv"
        /\ UNCHANGED <<cur, todo>>
     \/ \E t \in todo :
          /\ cur' = [tid |-> t, comm |-> comm[t], of |-> "scan"]
          /\ todo' = todo \ {t}
          /\ pc' = "apply"
  /\ UNCHANGED <<world, kernel, white, rescan, cache, gone>>

(* Mutant: after the first task the loop goes on to the events.            *)
BackToEvents == "recv"

Back == IF cur.of = "scan" THEN "read" ELSE "recv"

(* task_apply: the affinity is set, which tells a task that has ended, and *)
(* the task is cached.  After it an exec that is not for us is forgotten.  *)
Apply ==
  /\ pc = "apply"
  /\ IF world.affinity /\ ~Alive(cur.tid)
     THEN /\ cache' = [cache EXCEPT ![cur.tid] = "no"]
          /\ pc' = IF cur.of = "exec" THEN "unmark" ELSE Back
          /\ gone' = IF cur.of = "exec" THEN {cur.tid} ELSE {}
          /\ cur' = IF cur.of = "exec" THEN cur ELSE Nobody
     ELSE /\ cache' = [cache EXCEPT ![cur.tid] = cur.comm]
          /\ pc' = IF world.affinity THEN "mark" ELSE "remark"
          /\ UNCHANGED <<gone, cur>>
  /\ UNCHANGED <<world, kernel, white, rescan, todo>>

(* applied_set in the callback of task_apply.                              *)
Mark ==
  /\ pc = "mark"
  /\ pc' = "remark"
  /\ marks' = marks \cup {cur.tid}
  /\ UNCHANGED <<world, comm, named, events, passed, lost, white, rescan, cache, cur, todo,
                 gone>>

(* Mutant: what is cached is marked only when an affinity is set.          *)
RemarkNone == marks

Remarked == marks \cup {cur.tid}

(* applied_set after it, for tasks without affinity as well.               *)
Remark ==
  /\ pc = "remark"
  /\ pc' = Back
  /\ marks' = Remarked
  /\ cur' = Nobody
  /\ UNCHANGED <<world, comm, named, events, passed, lost, white, rescan, cache, todo, gone>>

-----------------------------------------------------------------------------
(* event_dispatch of all there is.                                         *)

(* pkg_lookup_comm: by comm, or the main thread's entry.                   *)
IsOurs(c) == (c = "app" /\ (world.longName => named)) \/ Cached(1)

Handled(e) == events # <<>> /\ Head(events) = e /\ events' = Tail(events)

DispatchFork(e) ==
  /\ pc = "recv" /\ e.type = "fork" /\ Handled(e)
  /\ UNCHANGED <<comm, named, marks, passed, lost, loop>>

DispatchExit(e) ==
  /\ pc = "recv" /\ e.type = "exit" /\ Handled(e)
  /\ cache' = [cache EXCEPT ![e.tid] = "no"]
  /\ gone' = {e.tid} /\ pc' = "unmark"
  /\ UNCHANGED <<world, comm, named, marks, passed, lost, white, rescan, cur, todo>>

DispatchNamed(e) ==
  /\ pc = "recv" /\ e.type \in {"exec", "rename"} /\ Handled(e)
  /\ IF IsOurs(e.comm)
     THEN /\ cur' = [tid |-> e.tid, comm |-> e.comm, of |-> e.type]
          /\ pc' = "apply"
          /\ UNCHANGED <<cache, gone>>
     ELSE IF e.type = "exec"
     THEN /\ cache' = [cache EXCEPT ![e.tid] = "no"]
          /\ gone' = {e.tid} /\ pc' = "unmark"
          /\ UNCHANGED cur
     ELSE UNCHANGED <<cache, gone, pc, cur>>
  /\ UNCHANGED <<world, comm, named, marks, passed, lost, white, rescan, todo>>

Dispatch ==
  events # <<>> /\ LET e == Head(events) IN
    DispatchFork(e) \/ DispatchExit(e) \/ DispatchNamed(e)

(* Mutant: the task leaves the cache, its mark stays.                      *)
UnmarkedNone == marks

Unmarked == marks \ gone

(* applied_del of the tasks just dropped from the cache.                   *)
Unmark ==
  /\ pc \in {"unmark", "sweep"}
  /\ pc' = IF pc = "unmark" THEN "recv" ELSE "round"
  /\ marks' = Unmarked
  /\ gone' = {} /\ cur' = Nobody
  /\ UNCHANGED <<world, comm, named, events, passed, lost, white, rescan, cache, todo>>

(* The channel is empty; three intervals have passed or not.               *)
EndOfEvents(next) ==
  /\ pc = "recv" /\ events = <<>>
  /\ pc' = next
  /\ UNCHANGED <<world, kernel, white, rescan, cache, cur, todo, gone>>

(* Mutant: the tasks that have ended are not looked for.                   *)
DeadNone == {}

Dead == {t \in Tids : Cached(t) /\ ~Alive(t)}

(* affinity_check: what has ended leaves the cache, then the map.          *)
Check ==
  /\ pc = "check"
  /\ pc' = "sweep"
  /\ cache' = [t \in Tids |-> IF t \in Dead THEN "no" ELSE cache[t]]
  /\ gone' = Dead
  /\ UNCHANGED <<world, kernel, white, rescan, cur, todo>>

Loop ==
  \/ Round \/ Whitelist \/ Clear \/ Walk \/ ReadComm
  \/ Apply \/ Mark \/ Remark
  \/ Dispatch \/ Unmark
  \/ EndOfEvents("check") \/ EndOfEvents("round")
  \/ Check

Next == Kernel \/ NewConfig \/ Loop

Spec == Init /\ [][Next]_vars

(* The loop runs, the time of the next check comes.                        *)
FairSpec == Spec /\ WF_vars(Loop) /\ SF_vars(EndOfEvents("check"))

-----------------------------------------------------------------------------
(* What must hold.                                                         *)

InHand(t) == t \in gone \/ (pc \in {"mark", "remark"} /\ cur.tid = t)

(* ebpf_mode.rs 545: as long as no event is dropped, the kernel knows      *)
(* every managed task that lives, so that its children and its end are     *)
(* reported.  The exceptions are being seen to: the loop is at that task,  *)
(* or its last incarnation's end is among the events.                      *)
CachedMarked ==
  ~world.drops => \A t \in Tids : Cached(t) /\ Alive(t) => t \in marks \/ InHand(t) \/ Queued("exit", t)

(* When nothing but tuning is asked for, no mark is left behind: its task  *)
(* lives, or is cached and will be found by affinity_check, or its end is  *)
(* among the events, or the loop is at it.                                 *)
MarksHaveOwners ==
  ~world.affinity => \A t \in marks : Alive(t) \/ Cached(t) \/ Queued("exit", t) \/ InHand(t) \/ pc = "clear"

(* cache.rs 104: what has ended does not stay in the cache.                *)
DeadForgotten ==
  []<>(pc = "check") =>
    \A t \in Tids : Cached(t) /\ ~Alive(t) ~> ~Cached(t) \/ Alive(t)

(* appopt-ebpf main.rs 44: a mark that outlives its task is removed when   *)
(* setting its affinity fails.                                             *)
DeadUnmarked ==
  []<>(pc = "check") =>
    \A t \in Tids : t \in marks /\ ~Alive(t) ~> t \notin marks \/ Alive(t)

(* The threads that managed tasks start become managed when they take      *)
(* their name, as long as tasks do not end and configurations do not change. *)
ThreadsFollow ==
  \A t \in Workers :
    <>[](~(world.exits \/ world.hasty \/ world.rescans) /\ comm[t] = ThreadName[t] /\ Cached(1)) => <>[](cache[t] = ThreadName[t])

(* appopt-ebpf main.rs 131: a task whose FORK has passed the filter is     *)
(* marked at once, so that its RENAME is not filtered.                     *)
RenamePasses == lost = {}

(* appopt-ebpf main.rs 177: a managed task's rename is let through: its    *)
(* rule is in the end that of its name.                                    *)
NamesFollowed ==
  \A t \in Workers :
    <>[](comm[t] = ThreadName[t] /\ Cached(t)) => <>[](cache[t] = ThreadName[t])
=============================================================================
