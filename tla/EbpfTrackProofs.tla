-------------------------- MODULE EbpfTrackProofs ---------------------------
(***************************************************************************)
(* What holds of the event-driven engine on any device, for any number of  *)
(* worker threads and any size of the queue: the types, the mark of every  *)
(* managed task, and the owner of every mark.                              *)
(***************************************************************************)
EXTENDS EbpfTrack, TLAPS

USE WorkersAssumption, NamesAssumption, EventsAssumption, WorldAssumption

-----------------------------------------------------------------------------
(* The types.  An event is handled when no task of a scan is left.         *)

EventSet == [type : {"fork", "exec", "rename", "exit"}, tid : Tids, comm : Comms]

TypeInv ==
  /\ TypeOK
  /\ events \in Seq(EventSet)
  /\ pc \in {"apply", "mark", "remark"} /\ cur.of # "scan" => todo = {}

LEMMA WorldFields ==
  ASSUME world \in Worlds
  PROVE  /\ world.workers \subseteq Workers
         /\ world.room \in Nat /\ world.room >= 1
         /\ world.drops \in BOOLEAN /\ world.affinity \in BOOLEAN
OBVIOUS

(* Whatever the ring buffer drops, what was in it stays.                   *)
LEMMA RingKeeps ==
  ASSUME TypeInv, NEW es \in Seq(EventSet), Ring(es)
  PROVE  /\ events' \in Seq(EventSet)
         /\ Len(events') <= world.room
         /\ \A i \in 1..Len(events) : i \in 1..Len(events') /\ events'[i] = events[i]
<1>1. events \in Seq(EventSet) /\ Len(events) <= world.room /\ world.room \in Nat
  BY WorldFields DEF TypeInv, TypeOK
<1>2. /\ events \o es \in Seq(EventSet)
      /\ Len(events \o es) = Len(events) + Len(es)
      /\ \A i \in 1..Len(events) : (events \o es)[i] = events[i]
  BY <1>1
<1>3. CASE Len(events) + Len(es) <= world.room
  <2>1. events' = events \o es
    BY <1>3 DEF Ring
  <2>2. Len(events) \in Nat /\ Len(es) \in Nat /\ Len(events') = Len(events) + Len(es)
    BY <1>1, <1>2, <2>1
  <2>3. \A i \in 1..Len(events) : i \in 1..Len(events')
    BY <2>2
  <2> QED
    BY <1>2, <1>3, <2>1, <2>2, <2>3
<1>4. CASE Len(events) + Len(es) > world.room
  <2>1. events' = SubSeq(events \o es, 1, world.room)
    BY <1>1, <1>4 DEF Ring
  <2>2. /\ Len(events') = world.room
        /\ \A i \in 1..world.room : events'[i] = (events \o es)[i]
    BY <1>1, <1>2, <1>4, <2>1
  <2>3. events' \in Seq(EventSet)
    BY <1>1, <1>2, <1>4, <2>1
  <2> QED
    BY <1>1, <1>2, <2>2, <2>3
<1> QED
  BY <1>1, <1>2, <1>3, <1>4

(* A ring buffer that drops nothing has all that was submitted.            *)
LEMMA RingSubmits ==
  ASSUME TypeInv, NEW e \in EventSet, Ring(<<e>>), ~world.drops
  PROVE  \E i \in 1..Len(events') : events'[i] = e
<1>1. events \in Seq(EventSet)
  BY DEF TypeInv
<1>2. events' = events \o <<e>>
  BY DEF Ring
<1> QED
  BY <1>1, <1>2

LEMMA QueuedKept ==
  ASSUME TypeInv, NEW es \in Seq(EventSet), Ring(es), NEW t \in Tids, Queued("exit", t)
  PROVE  Queued("exit", t)'
BY RingKeeps DEF Queued

LEMMA CommFacts ==
  /\ 1 \in Tids /\ Workers \subseteq Tids
  /\ \A t \in Workers : ThreadName[t] \in Comms /\ ThreadName[t] # "gone"
  /\ "app" \in Comms /\ "other" \in Comms /\ "gone" \in Comms
BY DEF Tids, Comms

LEMMA EventIn ==
  ASSUME NEW ty \in {"fork", "exec", "rename", "exit"}, NEW t \in Tids, NEW c \in Comms
  PROVE  /\ Event(ty, t, c) \in EventSet
         /\ <<Event(ty, t, c)>> \in Seq(EventSet)
BY DEF Event, EventSet

LEMMA InitTypes == Init => TypeInv
<1> SUFFICES ASSUME Init PROVE TypeInv
  OBVIOUS
<1> USE CommFacts
<1>1. comm \in [Tids -> Comms] /\ ((\E t \in Workers : Alive(t)) => Alive(1))
  BY DEF Init, Alive
<1>2. cur \in [tid : Tids, comm : Comms, of : {"none", "scan", "exec", "rename"}]
  BY DEF Init, Nobody
<1>3. events \in Seq(EventSet) /\ Len(events) <= world.room /\ Len(events) = 0
  BY WorldFields DEF Init
<1>4. cache \in [Tids -> Comms \cup {"no"}]
  BY DEF Init
<1>5. \A i \in 1..Len(events) : events[i] \in EventSet
  BY <1>3
<1> QED
  BY <1>1, <1>2, <1>3, <1>4, <1>5 DEF Init, TypeInv, TypeOK, EventSet

(* What a step of the kernel has to keep.                                  *)
LEMMA KernelTypes ==
  ASSUME TypeInv, UNCHANGED loop,
         comm' \in [Tids -> Comms],
         ((\E t \in Workers : Alive(t)) => Alive(1))',
         named' \in BOOLEAN, marks' \subseteq Tids,
         passed' \subseteq Tids, lost' \subseteq passed',
         events' \in Seq(EventSet), Len(events') <= world.room
  PROVE  TypeInv'
<1>1. \A i \in 1..Len(events') : events'[i] \in EventSet
  OBVIOUS
<1> QED
  BY <1>1 DEF TypeInv, TypeOK, loop, EventSet

LEMMA NextTypes == TypeInv /\ [Next]_vars => TypeInv'
<1> SUFFICES ASSUME TypeInv, [Next]_vars PROVE TypeInv'
  OBVIOUS
<1> USE CommFacts
<1>1. CASE UNCHANGED vars
  BY <1>1 DEF vars, kernel, loop, TypeInv, TypeOK, Alive
<1>2. CASE NewProcess
  <2>1. comm' \in [Tids -> Comms] /\ Alive(1)'
    BY <1>2 DEF NewProcess, TypeInv, TypeOK, Alive
  <2> QED
    BY <1>2, <2>1, KernelTypes DEF NewProcess, TypeInv, TypeOK
<1>3. CASE SetCmdline
  BY <1>3, KernelTypes DEF SetCmdline, TypeInv, TypeOK, Alive
<1>4. ASSUME NEW t \in world.workers, NEW parent \in Tids, Fork(t, parent) PROVE TypeInv'
  <2>1. t \in Workers /\ t # 1
    BY WorldFields DEF TypeInv, TypeOK
  <2>2. comm' \in [Tids -> Comms] /\ Alive(1)'
    BY <1>4, <2>1 DEF Fork, TypeInv, TypeOK, Alive, Tids
  <2>3. events' \in Seq(EventSet) /\ Len(events') <= world.room
    BY <1>4, <2>1, RingKeeps, EventIn DEF Fork, TypeInv, TypeOK
  <2>4. marks' \subseteq Tids /\ passed' \subseteq Tids /\ lost' \subseteq passed'
    BY <1>4, <2>1 DEF Fork, ForkMark, TypeInv, TypeOK
  <2> QED
    BY <1>4, <2>2, <2>3, <2>4, KernelTypes DEF Fork, TypeInv, TypeOK
<1>5. ASSUME NEW t \in Tids, NEW c \in Comms, c # "gone", Rename(t, c) PROVE TypeInv'
  <2>1. comm' \in [Tids -> Comms] /\ ((\E u \in Workers : Alive(u)) => Alive(1))'
    BY <1>5 DEF Rename, TypeInv, TypeOK, Alive
  <2>2. events' \in Seq(EventSet) /\ Len(events') <= world.room
    BY <1>5, RingKeeps, EventIn DEF Rename, TypeInv, TypeOK
  <2>3. lost' \subseteq passed' /\ passed' \subseteq Tids
    BY <1>5 DEF Rename, TypeInv, TypeOK
  <2> QED
    BY <1>5, <2>1, <2>2, <2>3, KernelTypes DEF Rename, TypeInv, TypeOK
<1>6. ASSUME NEW c \in {"app", "other"}, Exec(c) PROVE TypeInv'
  <2>1. comm' \in [Tids -> Comms] /\ Alive(1)'
    BY <1>6 DEF Exec, TypeInv, TypeOK, Alive
  <2>2. <<Event("rename", 1, c), Event("exec", 1, c)>> \in Seq(EventSet)
    <3>1. Event("rename", 1, c) \in EventSet /\ Event("exec", 1, c) \in EventSet
      BY EventIn
    <3> QED
      BY <3>1
  <2>3. events' \in Seq(EventSet) /\ Len(events') <= world.room
    BY <1>6, <2>2, RingKeeps DEF Exec, TypeInv, TypeOK
  <2>4. named' \in BOOLEAN
    BY <1>6 DEF Exec
  <2> QED
    BY <1>6, <2>1, <2>3, <2>4, KernelTypes DEF Exec, TypeInv, TypeOK
<1>7. ASSUME NEW t \in Tids, Exit(t) PROVE TypeInv'
  <2>1. comm' \in [Tids -> Comms] /\ ((\E u \in Workers : Alive(u)) => Alive(1))'
    BY <1>7 DEF Exit, TypeInv, TypeOK, Alive
  <2>2. events' \in Seq(EventSet) /\ Len(events') <= world.room
    BY <1>7, RingKeeps, EventIn DEF Exit, TypeInv, TypeOK
  <2>3. /\ lost' \subseteq passed' /\ passed' \subseteq Tids
        /\ marks' \subseteq Tids /\ named' \in BOOLEAN
    BY <1>7 DEF Exit, ExitMark, TypeInv, TypeOK
  <2> QED
    BY <1>7, <2>1, <2>2, <2>3, KernelTypes DEF Exit, TypeInv, TypeOK
<1>8. CASE NewConfig
  BY <1>8 DEF NewConfig, kernel, TypeInv, TypeOK, Alive
<1>9. CASE Round \/ Whitelist \/ Clear \/ Walk
  BY <1>9 DEF Round, Whitelist, Emptied, Clear, Walk, kernel, TypeInv, TypeOK, Alive
<1>10. CASE ReadComm
  BY <1>10 DEF ReadComm, kernel, TypeInv, TypeOK, Alive
<1>11. CASE Apply
  <2>1. /\ cur.tid \in Tids /\ cur.comm \in Comms
        /\ cur \in [tid : Tids, comm : Comms, of : {"none", "scan", "exec", "rename"}]
        /\ Nobody \in [tid : Tids, comm : Comms, of : {"none", "scan", "exec", "rename"}]
    BY DEF Nobody, Tids, TypeInv, TypeOK
  <2>2. /\ cache' \in {[cache EXCEPT ![cur.tid] = "no"], [cache EXCEPT ![cur.tid] = cur.comm]}
        /\ gone' \in {gone, {cur.tid}, {}} /\ cur' \in {cur, Nobody}
    BY <1>11 DEF Apply
  <2>3. cache' \in [Tids -> Comms \cup {"no"}] /\ gone' \subseteq Tids
    BY <2>1, <2>2 DEF TypeInv, TypeOK
  <2>4. /\ pc' \in {"read", "recv", "unmark", "mark", "remark"}
        /\ pc' \in {"recv", "unmark"} => todo = {}
        /\ pc' \in {"mark", "remark"} => cur' = cur
    BY <1>11 DEF Apply, Back, TypeInv
  <2>5. UNCHANGED <<world, kernel, white, rescan, todo>> /\ pc = "apply"
    BY <1>11 DEF Apply
  <2> QED
    BY <2>1, <2>2, <2>3, <2>4, <2>5 DEF kernel, TypeInv, TypeOK, Alive
<1>12. CASE Mark
  BY <1>12 DEF Mark, Back, Nobody, TypeInv, TypeOK, Alive
<1>18. CASE Remark
  BY <1>18 DEF Remark, Remarked, Back, Nobody, TypeInv, TypeOK, Alive
<1>13. CASE Dispatch
  <2>1. PICK e : /\ events # <<>> /\ Handled(e) /\ pc = "recv"
                 /\ DispatchFork(e) \/ DispatchExit(e) \/ DispatchNamed(e)
    BY <1>13 DEF Dispatch, DispatchFork, DispatchExit, DispatchNamed, Handled
  <2>2. e \in EventSet /\ e = events[1] /\ 1 \in 1..Len(events)
    BY <2>1 DEF Handled, TypeInv
  <2>3. events' \in Seq(EventSet) /\ Len(events') <= world.room
    BY <2>1 DEF Handled, TypeInv, TypeOK
  <2>4. \A i \in 1..Len(events') : events'[i] \in EventSet
    BY <2>3
  <2>5. /\ todo = {} /\ todo' = {} /\ UNCHANGED <<world, comm, named, marks, passed, lost, white, rescan>>
        /\ pc' \in {"recv", "unmark", "apply"}
    BY <2>1 DEF DispatchFork, DispatchExit, DispatchNamed, loop, TypeInv, TypeOK
  <2>6. /\ cache' \in [Tids -> Comms \cup {"no"}]
        /\ gone' \subseteq Tids
        /\ cur' \in [tid : Tids, comm : Comms, of : {"none", "scan", "exec", "rename"}]
    BY <2>1, <2>2 DEF DispatchFork, DispatchExit, DispatchNamed, loop, TypeInv, TypeOK, EventSet
  <2> QED
    BY <2>3, <2>4, <2>5, <2>6 DEF TypeInv, TypeOK, Alive, EventSet
<1>14. CASE Unmark
  BY <1>14 DEF Unmark, Unmarked, Nobody, TypeInv, TypeOK, Alive
<1>15. CASE EndOfEvents("check") \/ EndOfEvents("round")
  BY <1>15 DEF EndOfEvents, kernel, TypeInv, TypeOK, Alive
<1>16. CASE Check
  BY <1>16 DEF Check, Dead, kernel, TypeInv, TypeOK, Alive
<1>17. CASE Kernel
  BY <1>2, <1>3, <1>4, <1>5, <1>6, <1>7, <1>17, WorldFields DEF Kernel, TypeInv, TypeOK
<1> QED
  BY <1>1, <1>8, <1>9, <1>10, <1>11, <1>12, <1>13, <1>14, <1>15, <1>16, <1>17, <1>18 DEF Next, Loop

(* Every variable of the event-driven engine keeps its type, the queue its *)
(* size, and no thread outlives the main one.                              *)
THEOREM TrackTypes == Spec => []TypeOK
<1>1. Init => TypeInv
  BY InitTypes
<1>2. TypeInv /\ [Next]_vars => TypeInv'
  BY NextTypes
<1>3. TypeInv => TypeOK
  BY DEF TypeInv
<1> QED
  BY <1>1, <1>2, <1>3, PTL DEF Spec
-----------------------------------------------------------------------------
(* Why managed tasks are marked and marks are owned.  A task is cached     *)
(* only between the two system calls of its application, or with its mark, *)
(* or with its end among the events; a mark is left to a task that is      *)
(* neither alive nor cached only while applied_clear will come to it.      *)

CachedHaveMarks ==
  ~world.drops =>
    \A t \in Tids : Cached(t) =>
      \/ t \in marks
      \/ pc \in {"mark", "remark"} /\ cur.tid = t
      \/ Queued("exit", t)

(* Of a package that has only tuning rules.                                *)
MarksOwned ==
  ~world.affinity =>
    /\ pc # "mark"
    /\ pc = "remark" => Cached(cur.tid)
    /\ \A t \in marks :
         \/ Alive(t) \/ Queued("exit", t)
         \/ IF pc = "clear" THEN t \in todo ELSE Cached(t) \/ t \in gone

MarksInv ==
  /\ TypeInv
  /\ gone # {} => pc \in {"unmark", "sweep"}
  /\ \A t \in gone : ~Cached(t)
  /\ pc = "clear" => \A t \in Tids : ~Cached(t)
  /\ CachedHaveMarks
  /\ MarksOwned

LEMMA InitMarks == Init => MarksInv
<1>1. Init => TypeInv
  BY InitTypes
<1> QED
  BY <1>1 DEF Init, MarksInv, CachedHaveMarks, MarksOwned, Cached

(* A step of the kernel takes a mark away only with the end of its task,   *)
(* and gives one only to a task that lives.                                *)
LEMMA KernelMarks ==
  ASSUME MarksInv, TypeInv', UNCHANGED loop,
         \A t \in Tids : Queued("exit", t) => Queued("exit", t)',
         ~world.drops => \A t \in marks : t \in marks' \/ Queued("exit", t)',
         \A t \in marks' : Alive(t)' \/ (t \in marks /\ ~Alive(t))
  PROVE  MarksInv'
<1>1. /\ marks \subseteq Tids /\ marks' \subseteq Tids
  BY DEF MarksInv, TypeInv, TypeOK
<1>2. CachedHaveMarks'
  BY <1>1 DEF MarksInv, CachedHaveMarks, Cached, loop
<1>3. MarksOwned'
  BY <1>1 DEF MarksInv, MarksOwned, Cached, loop
<1> QED
  BY <1>2, <1>3 DEF MarksInv, Cached, loop

LEMMA KernelStep == MarksInv /\ TypeInv' /\ Kernel => MarksInv'
<1> SUFFICES ASSUME MarksInv, TypeInv', Kernel PROVE MarksInv'
  OBVIOUS
<1> USE CommFacts
<1>1. TypeInv /\ TypeOK
  BY DEF MarksInv, TypeInv
<1>2. CASE NewProcess
  <2>1. \A t \in marks' : Alive(t)' \/ (t \in marks /\ ~Alive(t))
    BY <1>1, <1>2 DEF NewProcess, TypeOK, Alive
  <2> QED
    BY <1>2, <2>1, KernelMarks DEF NewProcess, Queued
<1>3. CASE SetCmdline
  BY <1>3, KernelMarks DEF SetCmdline, Queued, Alive
<1>4. ASSUME NEW t \in world.workers, NEW parent \in Tids, Fork(t, parent) PROVE MarksInv'
  <2>1. t \in Workers /\ t \in Tids /\ comm[parent] \in Comms
    BY <1>1, WorldFields DEF TypeOK
  <2>2. \A u \in Tids : Queued("exit", u) => Queued("exit", u)'
    BY <1>1, <1>4, <2>1, EventIn, QueuedKept DEF Fork, Queued
  <2>3. \A u \in marks' : Alive(u)' \/ (u \in marks /\ ~Alive(u))
    BY <1>1, <1>4, <2>1 DEF Fork, ForkMark, TypeOK, Alive
  <2>4. marks \subseteq marks'
    BY <1>4 DEF Fork, ForkMark
  <2> QED
    BY <1>4, <2>2, <2>3, <2>4, KernelMarks DEF Fork
<1>5. ASSUME NEW t \in Tids, NEW c \in Comms, c # "gone", Rename(t, c) PROVE MarksInv'
  <2>1. \A u \in Tids : Queued("exit", u) => Queued("exit", u)'
    BY <1>1, <1>5, EventIn, QueuedKept DEF Rename, Queued
  <2>2. \A u \in marks' : Alive(u)' \/ (u \in marks /\ ~Alive(u))
    BY <1>1, <1>5 DEF Rename, TypeOK, Alive
  <2> QED
    BY <1>5, <2>1, <2>2, KernelMarks DEF Rename
<1>6. ASSUME NEW c \in {"app", "other"}, Exec(c) PROVE MarksInv'
  <2>1. <<Event("rename", 1, c), Event("exec", 1, c)>> \in Seq(EventSet)
    <3>1. Event("rename", 1, c) \in EventSet /\ Event("exec", 1, c) \in EventSet
      BY EventIn
    <3> QED
      BY <3>1
  <2>2. \A u \in Tids : Queued("exit", u) => Queued("exit", u)'
    BY <1>1, <1>6, <2>1, QueuedKept DEF Exec, Queued
  <2>3. \A u \in marks' : Alive(u)' \/ (u \in marks /\ ~Alive(u))
    BY <1>1, <1>6 DEF Exec, TypeOK, Alive
  <2> QED
    BY <1>6, <2>2, <2>3, KernelMarks DEF Exec
<1>7. ASSUME NEW t \in Tids, Exit(t) PROVE MarksInv'
  <2>1. Event("exit", t, "gone") \in EventSet /\ <<Event("exit", t, "gone")>> \in Seq(EventSet)
    BY EventIn
  <2>2. \A u \in Tids : Queued("exit", u) => Queued("exit", u)'
    BY <1>1, <1>7, <2>1, QueuedKept DEF Exit, Queued
  <2>3. ~world.drops => \A u \in marks : u \in marks' \/ Queued("exit", u)'
    <3> SUFFICES ASSUME ~world.drops, t \in marks PROVE Queued("exit", t)'
      BY <1>7 DEF Exit, ExitMark
    <3>1. \E i \in 1..Len(events') : events'[i] = Event("exit", t, "gone")
      BY <1>1, <1>7, <2>1, RingSubmits DEF Exit
    <3> QED
      BY <3>1 DEF Queued, Event
  <2>4. \A u \in marks' : Alive(u)' \/ (u \in marks /\ ~Alive(u))
    BY <1>1, <1>7 DEF Exit, ExitMark, TypeOK, Alive
  <2> QED
    BY <1>7, <2>2, <2>3, <2>4, KernelMarks DEF Exit
<1> QED
  BY <1>1, <1>2, <1>3, <1>4, <1>5, <1>6, <1>7, WorldFields DEF Kernel, TypeOK

(* An event leaves the queue.                                              *)
LEMMA HandledQueue ==
  ASSUME TypeInv, NEW e, Handled(e)
  PROVE  /\ e \in EventSet
         /\ \A t \in Tids : Queued("exit", t) =>
              Queued("exit", t)' \/ (e.type = "exit" /\ e.tid = t)
<1>1. events \in Seq(EventSet) /\ events # <<>> /\ e = events[1] /\ events' = Tail(events)
  BY DEF TypeInv, Handled
<1>2. /\ Len(events) \in Nat /\ Len(events) >= 1
      /\ Len(events') = Len(events) - 1
      /\ \A i \in 1..Len(events') : events'[i] = events[i + 1]
  BY <1>1
<1>3. ASSUME NEW t \in Tids, NEW i \in 1..Len(events),
             events[i].type = "exit", events[i].tid = t, i # 1
      PROVE  Queued("exit", t)'
  <2>1. i - 1 \in 1..Len(events') /\ events'[i - 1] = events[i]
    BY <1>2, <1>3
  <2> QED
    BY <1>3, <2>1 DEF Queued
<1> QED
  BY <1>1, <1>2, <1>3 DEF Queued

LEMMA DispatchStep == MarksInv /\ TypeInv' /\ Dispatch => MarksInv'
<1> SUFFICES ASSUME MarksInv, TypeInv', NEW e,
                    DispatchFork(e) \/ DispatchExit(e) \/ DispatchNamed(e)
             PROVE  MarksInv'
  BY DEF Dispatch
<1>1. /\ Handled(e) /\ pc = "recv"
      /\ UNCHANGED <<world, comm, marks>>
  BY DEF DispatchFork, DispatchExit, DispatchNamed, loop
<1>2. /\ TypeOK /\ e \in EventSet /\ e.tid \in Tids
      /\ \A t \in Tids : Queued("exit", t) =>
           Queued("exit", t)' \/ (e.type = "exit" /\ e.tid = t)
  BY <1>1, HandledQueue DEF MarksInv, TypeInv, EventSet
<1>3. gone = {}
  BY <1>1 DEF MarksInv
<1>4. CASE UNCHANGED <<cache, gone>> /\ e.type # "exit" /\ pc' \in {"recv", "apply"}
  BY <1>1, <1>2, <1>3, <1>4 DEF MarksInv, CachedHaveMarks, MarksOwned, Cached, Alive, TypeOK
<1>5. CASE cache' = [cache EXCEPT ![e.tid] = "no"] /\ gone' = {e.tid} /\ pc' = "unmark"
  <2>1. \A t \in Tids : Cached(t)' <=> Cached(t) /\ t # e.tid
    BY <1>2, <1>5 DEF TypeOK, Cached
  <2>2. CachedHaveMarks'
    BY <1>1, <1>2, <1>5, <2>1 DEF MarksInv, CachedHaveMarks
  <2>3. MarksOwned'
    BY <1>1, <1>2, <1>3, <1>5, <2>1 DEF MarksInv, MarksOwned, Alive, TypeOK
  <2> QED
    BY <1>2, <1>5, <2>1, <2>2, <2>3 DEF MarksInv
<1> QED
  BY <1>1, <1>4, <1>5 DEF DispatchFork, DispatchExit, DispatchNamed, loop

LEMMA NextMarks == MarksInv /\ [Next]_vars => MarksInv'
<1> SUFFICES ASSUME MarksInv, [Next]_vars PROVE MarksInv'
  OBVIOUS
<1>1. TypeInv /\ TypeOK /\ TypeInv' /\ TypeOK'
  BY NextTypes DEF MarksInv, TypeInv
<1>2. CASE UNCHANGED vars
  BY <1>1, <1>2 DEF vars, kernel, loop, MarksInv, CachedHaveMarks, MarksOwned, Cached, Queued, Alive
<1>3. CASE Kernel
  BY <1>1, <1>3, KernelStep
<1>4. CASE NewConfig
  BY <1>1, <1>4 DEF NewConfig, kernel, MarksInv, CachedHaveMarks, MarksOwned, Cached, Queued, Alive
<1>5. CASE Round \/ Walk \/ ReadComm \/ EndOfEvents("check") \/ EndOfEvents("round")
  BY <1>1, <1>5 DEF Round, Walk, ReadComm, EndOfEvents, kernel, MarksInv, CachedHaveMarks,
                    MarksOwned, Cached, Queued, Alive
<1>6. CASE Whitelist
  <2>1. /\ \A t \in Tids : ~Cached(t)'
        /\ pc' = "clear" /\ todo' = marks /\ UNCHANGED <<kernel, world, gone>> /\ gone = {}
    BY <1>6 DEF Whitelist, Emptied, Cached, MarksInv
  <2> QED
    BY <1>1, <2>1 DEF MarksInv, CachedHaveMarks, MarksOwned, kernel
<1>7. CASE Clear
  <2>1. /\ \A t \in Tids : ~Cached(t) /\ ~Cached(t)'
        /\ UNCHANGED <<world, comm, events, gone>> /\ gone = {}
        /\ pc' \in {"clear", "walk"}
        /\ \A t \in marks' : t \in marks /\ (t \in todo => pc' = "clear" /\ t \in todo')
    BY <1>7 DEF Clear, MarksInv, Cached
  <2>2. MarksOwned'
    BY <1>1, <1>7, <2>1 DEF Clear, MarksInv, MarksOwned, Queued, Alive
  <2> QED
    BY <1>1, <2>1, <2>2 DEF MarksInv, CachedHaveMarks
<1>8. CASE Apply
  <2>1. gone = {} /\ pc = "apply" /\ UNCHANGED <<world, comm, marks, events>>
    BY <1>8 DEF Apply, MarksInv, kernel
  <2>2. CASE world.affinity /\ ~Alive(cur.tid)
    <3>1. /\ cache' = [cache EXCEPT ![cur.tid] = "no"]
          /\ gone' \subseteq {cur.tid} /\ (gone' # {} => pc' = "unmark")
          /\ pc' \in {"unmark", "read", "recv"}
      BY <1>8, <2>2 DEF Apply, Back
    <3>2. \A t \in Tids : Cached(t)' => Cached(t) /\ t # cur.tid
      BY <1>1, <3>1 DEF TypeOK, Cached
    <3>3. cur.tid \in Tids
      BY <1>1 DEF TypeOK
    <3> QED
      BY <1>1, <2>1, <2>2, <3>1, <3>2, <3>3 DEF MarksInv, CachedHaveMarks, MarksOwned, Queued, TypeOK
  <2>3. CASE ~(world.affinity /\ ~Alive(cur.tid))
    <3>1. /\ cache' = [cache EXCEPT ![cur.tid] = cur.comm]
          /\ pc' = IF world.affinity THEN "mark" ELSE "remark"
          /\ UNCHANGED <<gone, cur>>
      BY <1>8, <2>3 DEF Apply
    <3>2. /\ cur.tid \in Tids /\ cur.comm # "no"
      BY <1>1 DEF TypeOK, Comms
    <3>3. \A t \in Tids : Cached(t)' <=> Cached(t) \/ t = cur.tid
      BY <1>1, <3>1, <3>2 DEF TypeOK, Cached
    <3> QED
      BY <1>1, <2>1, <3>1, <3>2, <3>3 DEF MarksInv, CachedHaveMarks, MarksOwned, Queued, Alive, TypeOK
  <2> QED
    BY <2>2, <2>3
<1>9. CASE Mark
  BY <1>1, <1>9 DEF Mark, MarksInv, CachedHaveMarks, MarksOwned, Cached, Queued, Alive
<1>10. CASE Remark
  <2>1. /\ pc = "remark" /\ pc' \in {"read", "recv"} /\ marks' = marks \cup {cur.tid}
        /\ UNCHANGED <<world, comm, events, cache, gone>>
    BY <1>10 DEF Remark, Remarked, Back
  <2> QED
    BY <1>1, <2>1 DEF MarksInv, CachedHaveMarks, MarksOwned, Cached, Queued, Alive
<1>11. CASE Dispatch
  BY <1>1, <1>11, DispatchStep
<1>12. CASE Unmark
  <2>1. /\ pc \in {"unmark", "sweep"} /\ pc' \in {"recv", "round"}
        /\ marks' = marks \ gone /\ gone' = {}
        /\ UNCHANGED <<world, comm, events, cache>>
    BY <1>12 DEF Unmark, Unmarked
  <2> QED
    BY <1>1, <2>1 DEF MarksInv, CachedHaveMarks, MarksOwned, Cached, Queued, Alive
<1>13. CASE Check
  <2>1. /\ pc = "check" /\ pc' = "sweep" /\ gone' = Dead
        /\ UNCHANGED <<world, comm, events, marks>>
        /\ \A t \in Tids : Cached(t)' <=> Cached(t) /\ t \notin Dead
    BY <1>1, <1>13 DEF Check, Cached, kernel, TypeOK
  <2> QED
    BY <1>1, <2>1 DEF MarksInv, CachedHaveMarks, MarksOwned, Dead, Queued, Alive, TypeOK
<1> QED
  BY <1>2, <1>3, <1>4, <1>5, <1>6, <1>7, <1>8, <1>9, <1>10, <1>11, <1>12, <1>13 DEF Next, Loop

(* As long as no event is dropped, the kernel knows every managed task     *)
(* that lives, except one that is being seen to.                           *)
THEOREM ManagedAreMarked == Spec => []CachedMarked
<1>1. Init => MarksInv
  BY InitMarks
<1>2. MarksInv /\ [Next]_vars => MarksInv'
  BY NextMarks
<1>3. MarksInv => CachedMarked
  BY DEF MarksInv, CachedHaveMarks, CachedMarked, InHand
<1> QED
  BY <1>1, <1>2, <1>3, PTL DEF Spec

(* Of a package that has only tuning rules no mark is left behind,         *)
(* whatever events the ring buffer drops.                                  *)
THEOREM NoMarkLeftBehind == Spec => []MarksHaveOwners
<1>1. Init => MarksInv
  BY InitMarks
<1>2. MarksInv /\ [Next]_vars => MarksInv'
  BY NextMarks
<1>3. MarksInv => MarksHaveOwners
  BY DEF MarksInv, MarksOwned, MarksHaveOwners, InHand
<1> QED
  BY <1>1, <1>2, <1>3, PTL DEF Spec
=============================================================================
