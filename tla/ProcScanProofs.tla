--------------------------- MODULE ProcScanProofs ---------------------------
(***************************************************************************)
(* What holds of the /proc polling engine for any number of processes,     *)
(* threads and packages: the types, and that two counts are enough to      *)
(* notice every target on a device where nothing ends.                     *)
(***************************************************************************)
EXTENDS ProcScan, FiniteSetTheorems, TLAPS

USE PidAssumption, ThreadAssumption, OtherAssumption, WorldAssumption

-----------------------------------------------------------------------------
(* The tasks are finitely many: number them.                               *)

Number == [t \in Pids \X Threads |-> MaxThread * (t[1] - 1) + t[2]]

LEMMA NumberApart ==
  ASSUME NEW p \in Pids, NEW q \in Pids, NEW k \in Threads, NEW l \in Threads, p < q
  PROVE  MaxThread * (p - 1) + k < MaxThread * (q - 1) + l
<1>1. /\ MaxThread \in Nat /\ MaxThread >= 1
      /\ p \in Nat /\ q \in Nat /\ q - p - 1 \in Nat
      /\ k \in 1..MaxThread /\ l \in 1..MaxThread
  BY DEF Pids, Threads
<1>2. MaxThread * (q - p - 1) >= 0
  BY <1>1
<1>3. MaxThread * (q - 1) = MaxThread * (p - 1) + MaxThread * (q - p - 1) + MaxThread
  BY <1>1
<1> QED
  BY <1>1, <1>2, <1>3

LEMMA TasksFinite == IsFiniteSet(Pids \X Threads)
<1> DEFINE Last == MaxThread * MaxPid
<1>1. Last \in Nat
  OBVIOUS
<1>2. \A t \in Pids \X Threads : Number[t] \in 1..Last
  <2> SUFFICES ASSUME NEW p \in Pids, NEW k \in Threads PROVE Number[<<p, k>>] \in 1..Last
    OBVIOUS
  <2>1. /\ MaxThread \in Nat /\ MaxPid \in Nat /\ p \in 1..MaxPid /\ k \in 1..MaxThread
    BY DEF Pids, Threads
  <2>2. MaxThread * (MaxPid - p) >= 0 /\ MaxThread * (p - 1) >= 0
    BY <2>1
  <2>3. Last = MaxThread * (p - 1) + MaxThread * (MaxPid - p) + MaxThread
    BY <2>1
  <2>4. Number[<<p, k>>] = MaxThread * (p - 1) + k
    BY DEF Number
  <2> QED
    BY <2>1, <2>2, <2>3, <2>4
<1>3. \A t \in Pids \X Threads, u \in Pids \X Threads : Number[t] = Number[u] => t = u
  <2> SUFFICES ASSUME NEW p \in Pids, NEW k \in Threads, NEW q \in Pids, NEW l \in Threads,
                      Number[<<p, k>>] = Number[<<q, l>>]
               PROVE  p = q /\ k = l
    OBVIOUS
  <2>1. MaxThread * (p - 1) + k = MaxThread * (q - 1) + l
    BY DEF Number
  <2>2. ~(p < q) /\ ~(q < p)
    BY <2>1, NumberApart DEF Pids, Threads
  <2> QED
    BY <2>1, <2>2 DEF Pids, Threads
<1>4. Number \in Injection(Pids \X Threads, 1..Last)
  <2>1. Number \in [Pids \X Threads -> 1..Last]
    BY <1>2 DEF Number
  <2> QED
    BY <1>3, <2>1 DEF Injection, IsInjective
<1>5. IsFiniteSet(1..Last)
  BY <1>1, FS_Interval
<1> QED
  BY <1>4, <1>5, FS_Injection

LEMMA SetOfTasks ==
  ASSUME NEW S \in SUBSET (Pids \X Threads)
  PROVE  IsFiniteSet(S) /\ Cardinality(S) \in Nat
BY TasksFinite, FS_Subset, FS_CardinalityType

LEMMA SetOfPids ==
  ASSUME NEW S \in SUBSET Pids
  PROVE  IsFiniteSet(S) /\ Cardinality(S) \in Nat
<1>1. IsFiniteSet(Pids)
  BY FS_Interval DEF Pids
<1>2. IsFiniteSet(S)
  BY <1>1, FS_Subset
<1> QED
  BY <1>2, FS_CardinalityType

(* A set that holds another and something else has more members.           *)
LEMMA MorePids ==
  ASSUME NEW S \in SUBSET Pids, NEW T \in SUBSET S, NEW x \in S, x \notin T
  PROVE  Cardinality(S) > Cardinality(T)
<1>1. IsFiniteSet(S) /\ IsFiniteSet(T) /\ Cardinality(S) \in Nat /\ Cardinality(T) \in Nat
  BY SetOfPids
<1> QED
  BY <1>1, FS_Subset

LEMMA MoreTasks ==
  ASSUME NEW S \in SUBSET (Pids \X Threads), NEW T \in SUBSET S, NEW x \in S, x \notin T
  PROVE  Cardinality(S) > Cardinality(T)
<1>1. IsFiniteSet(S) /\ IsFiniteSet(T) /\ Cardinality(S) \in Nat /\ Cardinality(T) \in Nat
  BY SetOfTasks
<1> QED
  BY <1>1, FS_Subset

-----------------------------------------------------------------------------
(* The types.  Only a rebuild forces affinity_sync, and what it has found  *)
(* is then what is tracked.                                                *)

TypeInv ==
  /\ TypeOK
  /\ force => pc = "apply"

LEMMA LiveFacts ==
  ASSUME TypeOK
  PROVE  /\ LiveTasks \subseteq Pids \X Threads
         /\ Cardinality(LiveTasks) \in Nat
         /\ Running \subseteq Pids
         /\ world.last \in 1..MaxPid
         /\ \A p \in Pids : threads[p] \subseteq Threads
<1>1. LiveTasks \subseteq Pids \X Threads
  BY DEF LiveTasks
<1>2. world.last \in 1..MaxPid
  BY DEF TypeOK, Pids
<1> QED
  BY <1>1, <1>2, SetOfTasks DEF Running, TypeOK

LEMMA InitTypes == Init => TypeInv
<1> SUFFICES ASSUME Init PROVE TypeInv
  OBVIOUS
<1>1. /\ 1 \in Threads /\ Other \in Names /\ 1 \in 1..MaxPid + 1
  BY DEF Pids, Threads, Names
<1>2. threads \in [Pids -> SUBSET Threads] /\ name \in [Pids -> Names]
  BY <1>1 DEF Init
<1> QED
  BY <1>1, <1>2 DEF Init, TypeInv, TypeOK

LEMMA NextTypes == TypeInv /\ [Next]_vars => TypeInv'
<1> SUFFICES ASSUME TypeInv, [Next]_vars PROVE TypeInv'
  OBVIOUS
<1>1. /\ TypeOK /\ (force => pc = "apply")
      /\ MaxPid \in Nat /\ MaxPid >= 1 /\ 1 \in Threads /\ Other \in Names
  BY DEF TypeInv, Pids, Threads, Names
<1>2. CASE UNCHANGED vars
  BY <1>1, <1>2 DEF vars, env, sync, walk, TypeInv, TypeOK
<1>3. ASSUME NEW p \in Pids, NEW n \in Names, Launch(p, n) PROVE TypeInv'
  BY <1>1, <1>3 DEF Launch, sync, walk, TypeInv, TypeOK
<1>4. ASSUME NEW p \in Pids, NEW n \in Names, Specialise(p, n) PROVE TypeInv'
  BY <1>1, <1>4 DEF Specialise, sync, walk, TypeInv, TypeOK
<1>5. ASSUME NEW p \in Pids, NEW k \in Threads, NewThread(p, k) PROVE TypeInv'
  <2>1. threads' \in [Pids -> SUBSET Threads]
    BY <1>1, <1>5 DEF NewThread, TypeOK
  <2>2. placed' \subseteq Pids \X Threads
    BY <1>1, <1>5 DEF NewThread, TypeOK
  <2> QED
    BY <1>1, <1>5, <2>1, <2>2 DEF NewThread, sync, walk, TypeInv, TypeOK
<1>6. ASSUME NEW p \in Pids, NEW k \in Threads, Exit(p, k) PROVE TypeInv'
  <2>1. threads' \in [Pids -> SUBSET Threads]
    BY <1>1, <1>6 DEF Exit, TypeOK
  <2>2. placed' \subseteq Pids \X Threads
    BY <1>1, <1>6 DEF Exit, TypeOK
  <2> QED
    BY <1>1, <1>6, <2>1, <2>2 DEF Exit, sync, walk, TypeInv, TypeOK
<1>7. ASSUME NEW t \in placed, Displace(t) PROVE TypeInv'
  BY <1>1, <1>7 DEF Displace, env, sync, walk, TypeInv, TypeOK
<1>8. ASSUME NEW S \in SUBSET Pkgs, NewConfig(S) PROVE TypeInv'
  BY <1>1, <1>8 DEF NewConfig, env, sync, walk, TypeInv, TypeOK
<1>9. CASE DeadlinePasses
  BY <1>1, <1>9 DEF DeadlinePasses, env, sync, walk, TypeInv, TypeOK
<1>10. CASE SyncCount
  <2>1. need' \in BOOLEAN /\ scanAll' \in BOOLEAN /\ lastCount' \in Nat
    BY <1>1, <1>10, LiveFacts DEF SyncCount, MoreThan, TypeOK
  <2> QED
    BY <1>1, <1>10, <2>1 DEF SyncCount, env, walk, TypeInv, TypeOK
<1>11. CASE SyncProbe
  <2>1. Running \subseteq Pids /\ 1 \in 1..MaxPid + 1 /\ 0 \in Nat
    BY <1>1, LiveFacts
  <2>2. CASE need \/ SomeGone
    BY <1>1, <1>11, <2>1, <2>2 DEF SyncProbe, env, sync, TypeInv, TypeOK
  <2>3. CASE ~(need \/ SomeGone)
    BY <1>1, <1>11, <2>3 DEF SyncProbe, env, sync, walk, TypeInv, TypeOK
  <2> QED
    BY <2>2, <2>3
<1>12. CASE Visit
  <2>1. /\ pc = "walk" /\ cursor \in 1..world.last /\ cursor' = cursor + 1
        /\ total' \in {total, total + 1}
        /\ cache' \in {cache, cache \cup {t \in LiveTasks : t[1] = cursor}}
        /\ UNCHANGED <<env, placed, targets, fresh, due, pc, cfg, need, sync, force, listing>>
    BY <1>12 DEF Visit
  <2>2. cursor' \in 1..MaxPid + 1 /\ total' \in Nat
    BY <1>1, <2>1, LiveFacts DEF TypeOK
  <2>3. cache' \subseteq Pids \X Threads
    BY <1>1, <2>1, LiveFacts DEF TypeOK
  <2> QED
    BY <1>1, <2>1, <2>2, <2>3 DEF env, sync, TypeInv, TypeOK
<1>13. CASE WalkEnd
  <2>1. scanAll' \in BOOLEAN /\ tracked' \subseteq Pids
    BY <1>1, <1>13 DEF WalkEnd, NextScan, Found, TypeOK
  <2> QED
    BY <1>1, <1>13, <2>1 DEF WalkEnd, Found, env, TypeInv, TypeOK
<1>14. CASE Apply
  <2>1. LiveTasks \subseteq Pids \X Threads
    BY <1>1, LiveFacts
  <2>2. CASE TimeToApply
    BY <1>1, <1>14, <2>1, <2>2 DEF Apply, env, sync, walk, TypeInv, TypeOK
  <2>3. CASE ~TimeToApply
    BY <1>1, <1>14, <2>3 DEF Apply, TimeToApply, env, sync, walk, TypeInv, TypeOK
  <2> QED
    BY <2>2, <2>3
<1> QED
  BY <1>2, <1>3, <1>4, <1>5, <1>6, <1>7, <1>8, <1>9, <1>10, <1>11, <1>12, <1>13, <1>14
  DEF Next, Loop, Device

(* Every variable of the polling engine keeps its type, and what a rebuild *)
(* has found is what is tracked when its affinities are set.               *)
THEOREM ScanTypes == Spec => []TypeOK
<1>1. Init => TypeInv
  BY InitTypes
<1>2. TypeInv /\ [Next]_vars => TypeInv'
  BY NextTypes
<1>3. TypeInv => TypeOK
  BY DEF TypeInv
<1> QED
  BY <1>1, <1>2, <1>3, PTL DEF Spec

-----------------------------------------------------------------------------
(* Why two counts are enough on a device where nothing ends.  They are     *)
(* the sizes of two sets that can be named: known, the processes that the  *)
(* last walk has listed, and counted, the tasks there were at the last     *)
(* sysinfo.  A target that is not tracked is in neither of them, so that   *)
(* there are more now; or else a walk over all is due.  seen is what the   *)
(* walk under way has listed.                                              *)

Overlooked(p, known, counted) ==
  fresh \/ scanAll \/ (p \notin known /\ <<p, 1>> \notin counted)

AtWalk(known, counted, seen) ==
  /\ \A p \in Pids : Missing(p) => fresh \/ scanAll \/ p \notin known
  /\ known \subseteq listing /\ listing \subseteq Running
  /\ \A p \in Pids : <<p, 1>> \in counted => p \in listing
  /\ Cardinality(seen) = total
  /\ \A p \in seen : p < cursor
  /\ \A p \in listing : p < cursor => p \in seen
  /\ \A p \in seen : name[p] \in cfg /\ (scanAll \/ p \in tracked) => p \in Found

Books(known, counted, seen) ==
  /\ known \subseteq Running /\ Cardinality(known) = lastTotal
  /\ counted \subseteq LiveTasks /\ Cardinality(counted) = lastCount
  /\ seen \subseteq Running
  /\ pc \in {"probe", "walk"} => fresh \/ cfg = targets
  /\ pc \in {"count", "apply"} =>
       \A p \in Pids : Missing(p) => Overlooked(p, known, counted)
  /\ pc = "probe" =>
       /\ scanAll => need
       /\ \A p \in Pids : Missing(p) =>
            fresh \/ scanAll \/ (p \notin known /\ (need \/ <<p, 1>> \notin counted))
  /\ pc = "walk" => AtWalk(known, counted, seen)

MainFirst == \A p \in Pids : Alive(p) => 1 \in threads[p] /\ p <= world.last

GrowInv ==
  /\ TypeInv /\ MainFirst
  /\ Grows => \E known, seen \in SUBSET Pids, counted \in SUBSET (Pids \X Threads) :
                Books(known, counted, seen)

LEMMA InitGrow == Init => GrowInv
<1> SUFFICES ASSUME Init PROVE GrowInv
  OBVIOUS
<1>1. TypeInv
  BY InitTypes
<1>2. MainFirst
  BY DEF Init, MainFirst, Alive, Pids
<1>3. Books({}, {}, {})
  BY FS_EmptySet DEF Init, Books, Missing, Overlooked
<1> QED
  BY <1>1, <1>2, <1>3 DEF GrowInv

LEMMA MainStep == TypeInv /\ MainFirst /\ [Next]_vars => MainFirst'
<1> SUFFICES ASSUME TypeInv, MainFirst, [Next]_vars PROVE MainFirst'
  OBVIOUS
<1>1. TypeOK /\ world \in Worlds /\ \A t \in world.tasks : t[1] <= world.last
  BY DEF TypeInv, TypeOK
<1>2. CASE UNCHANGED <<world, threads>>
  BY <1>2 DEF MainFirst, Alive
<1>3. ASSUME NEW p \in Pids, NEW n \in Names, Launch(p, n) PROVE MainFirst'
  BY <1>1, <1>3 DEF Launch, MainFirst, Alive, TypeOK
<1>4. ASSUME NEW p \in Pids, NEW k \in Threads, NewThread(p, k) PROVE MainFirst'
  BY <1>1, <1>4 DEF NewThread, MainFirst, Alive, TypeOK
<1>5. ASSUME NEW p \in Pids, NEW k \in Threads, Exit(p, k) PROVE MainFirst'
  BY <1>1, <1>5 DEF Exit, MainFirst, Alive, TypeOK
<1>6. CASE Loop
  BY <1>2, <1>6 DEF Loop, SyncCount, SyncProbe, Visit, WalkEnd, Apply, env
<1> QED
  BY <1>2, <1>3, <1>4, <1>5, <1>6 DEF Next, Device, Specialise, Displace, NewConfig,
     DeadlinePasses, env, vars

(* What happens on the device adds tasks, and new processes are in none of *)
(* the books.                                                              *)
LEMMA DeviceBooks ==
  ASSUME TypeInv, MainFirst, Grows, NEW known \in SUBSET Pids, NEW seen \in SUBSET Pids,
         NEW counted \in SUBSET (Pids \X Threads), Books(known, counted, seen),
         UNCHANGED <<targets, fresh, due, pc, cfg, need, sync, force, cache, walk>>,
         \A p \in Pids : threads[p] \subseteq threads'[p],
         \A p \in Running : name'[p] = name[p]
  PROVE  Books(known, counted, seen)'
<1>1. Running \subseteq Running' /\ LiveTasks \subseteq LiveTasks'
  BY DEF Running, Alive, LiveTasks
<1>2. \A p \in Running : Missing(p)' => Missing(p)
  BY DEF Missing, Running, sync
<1>3. \A p \in Pids \ Running : p \notin known /\ <<p, 1>> \notin counted
  BY DEF Books, Running, LiveTasks, Alive
<1>4. pc = "walk" => AtWalk(known, counted, seen)'
  <2> SUFFICES ASSUME pc = "walk" PROVE AtWalk(known, counted, seen)'
    OBVIOUS
  <2>1. AtWalk(known, counted, seen)
    BY DEF Books
  <2> QED
    BY <1>1, <1>2, <1>3, <2>1 DEF AtWalk, Books, Found, sync, walk
<1> QED
  BY <1>1, <1>2, <1>3, <1>4 DEF Books, Overlooked, sync

LEMMA WalkEndBooks ==
  ASSUME TypeInv, MainFirst, Grows, NEW known \in SUBSET Pids, NEW seen \in SUBSET Pids,
         NEW counted \in SUBSET (Pids \X Threads), Books(known, counted, seen), WalkEnd
  PROVE  Books(seen, counted, {})'
<1>1. /\ pc = "walk" /\ cursor = world.last + 1 /\ pc' = "apply"
      /\ scanAll' = (total > lastTotal) /\ lastTotal' = total /\ tracked' = Found
      /\ UNCHANGED <<env, targets, fresh, cfg, lastCount, cache>>
  BY DEF WalkEnd, NextScan
<1>2. AtWalk(known, counted, seen)
  BY <1>1 DEF Books
<1>3. listing \subseteq seen
  <2>1. world.last \in Nat
    BY LiveFacts DEF TypeInv
  <2>2. \A p \in listing : p \in Pids /\ p <= world.last
    BY <1>2 DEF AtWalk, Running, MainFirst
  <2> QED
    BY <1>1, <1>2, <2>1, <2>2 DEF AtWalk, Pids
<1>4. ASSUME NEW p \in Pids, Missing(p)' PROVE Overlooked(p, seen, counted)'
  <2>1. Alive(p) /\ name[p] \in targets /\ p \notin Found
    BY <1>1, <1>4 DEF Missing, Alive, env
  <2>2. CASE fresh
    BY <1>1, <2>2 DEF Overlooked
  <2>3. CASE p \notin seen
    BY <1>1, <1>2, <1>3, <2>3 DEF Overlooked, AtWalk
  <2>4. CASE ~fresh /\ p \in seen
    <3>1. cfg = targets
      BY <1>1, <2>4 DEF Books
    <3>2. ~scanAll /\ p \notin tracked
      BY <1>2, <2>1, <2>4, <3>1 DEF AtWalk
    <3>3. p \notin known /\ known \subseteq seen
      BY <1>2, <1>3, <2>1, <2>4, <3>2 DEF AtWalk, Missing
    <3>4. Cardinality(seen) > Cardinality(known)
      BY <2>4, <3>3, MorePids
    <3>5. scanAll'
      BY <1>1, <1>2, <3>4 DEF AtWalk, Books
    <3> QED
      BY <3>5 DEF Overlooked
  <2> QED
    BY <2>2, <2>3, <2>4
<1> QED
  BY <1>1, <1>2, <1>4 DEF Books, AtWalk, Running, LiveTasks, Alive, env

LEMMA VisitBooks ==
  ASSUME TypeInv, MainFirst, Grows, NEW known \in SUBSET Pids, NEW seen \in SUBSET Pids,
         NEW counted \in SUBSET (Pids \X Threads), Books(known, counted, seen), Visit
  PROVE  \E s \in SUBSET Pids : Books(known, counted, s)'
<1>1. PICK listed \in BOOLEAN :
        /\ listed => cursor \in listing \/ Alive(cursor)
        /\ cursor \in listing /\ Alive(cursor) => listed
        /\ total' = IF listed THEN total + 1 ELSE total
        /\ cache' =
             IF listed /\ (scanAll \/ cursor \in tracked) /\ name[cursor] \in cfg
             THEN cache \cup {t \in LiveTasks : t[1] = cursor}
             ELSE cache
  BY DEF Visit
<1>2. /\ pc = "walk" /\ cursor \in 1..world.last /\ cursor' = cursor + 1
      /\ UNCHANGED <<env, targets, fresh, pc, cfg, need, sync, listing>>
  BY DEF Visit
<1>3. AtWalk(known, counted, seen) /\ cursor \in Pids /\ cursor \in Nat
      /\ seen \subseteq Running
  BY <1>2, LiveFacts DEF Books, TypeInv, Pids
<1>4. /\ UNCHANGED <<Running, LiveTasks>>
      /\ \A p \in Pids : Missing(p)' <=> Missing(p)
  BY <1>2 DEF Running, LiveTasks, Missing, Alive, env, sync
<1>5. \A p \in Pids : p < cursor' <=> p < cursor \/ p = cursor
  BY <1>2, <1>3 DEF Pids
<1>6. Found \subseteq Found'
  BY <1>1 DEF Found
<1>7. cursor \notin seen
  BY <1>3 DEF AtWalk
<1>8. CASE ~listed
  <2>1. AtWalk(known, counted, seen)'
    BY <1>1, <1>2, <1>3, <1>4, <1>5, <1>6, <1>8 DEF AtWalk, Running, env, sync
  <2> QED
    BY <1>2, <1>3, <1>4, <2>1 DEF Books, sync
<1>9. CASE listed
  <2>0. PICK s : s = seen \cup {cursor}
    OBVIOUS
  <2>1. Alive(cursor) /\ s \subseteq Running
    BY <1>1, <1>3, <1>9, <2>0 DEF AtWalk, Running
  <2>2. Cardinality(s) = total + 1
    BY <1>3, <1>7, <2>0, SetOfPids, FS_AddElement DEF AtWalk
  <2>3. name[cursor] \in cfg /\ (scanAll \/ cursor \in tracked) => cursor \in Found'
    <3> SUFFICES ASSUME name[cursor] \in cfg, scanAll \/ cursor \in tracked
                 PROVE  cursor \in Found'
      OBVIOUS
    <3>1. <<cursor, 1>> \in LiveTasks
      BY <1>3, <2>1 DEF MainFirst, LiveTasks, Threads
    <3>2. <<cursor, 1>> \in cache'
      BY <1>1, <1>9, <3>1
    <3> QED
      BY <3>2 DEF Found
  <2>4. AtWalk(known, counted, s)'
    BY <1>1, <1>2, <1>3, <1>4, <1>5, <1>6, <1>9, <2>0, <2>1, <2>2, <2>3 DEF AtWalk, env, sync
  <2>5. Books(known, counted, s)'
    BY <1>2, <1>4, <2>1, <2>4 DEF Books, sync
  <2> QED
    BY <1>3, <2>0, <2>5
<1> QED
  BY <1>8, <1>9

LEMMA CountBooks ==
  ASSUME TypeInv, MainFirst, Grows, NEW known \in SUBSET Pids, NEW seen \in SUBSET Pids,
         NEW counted \in SUBSET (Pids \X Threads), Books(known, counted, seen), SyncCount
  PROVE  \E c \in SUBSET (Pids \X Threads) : Books(known, c, seen)'
<1>0. PICK c : c = LiveTasks
  OBVIOUS
<1>1. /\ pc = "count" /\ pc' = "probe" /\ cfg' = targets /\ fresh' = FALSE
      /\ scanAll' = (scanAll \/ fresh)
      /\ need' = (scanAll \/ fresh \/ Cardinality(LiveTasks) > lastCount)
      /\ lastCount' = Cardinality(LiveTasks)
      /\ UNCHANGED <<env, targets, lastTotal, tracked>>
  BY DEF SyncCount, MoreThan
<1>2. /\ UNCHANGED <<Running, LiveTasks>>
      /\ \A p \in Pids : Missing(p)' <=> Missing(p)
  BY <1>1 DEF Running, LiveTasks, Missing, Alive, env
<1>3. ASSUME NEW p \in Pids, Missing(p), ~fresh, ~scanAll
      PROVE  p \notin known /\ need'
  <2>1. p \notin known /\ <<p, 1>> \notin counted
    BY <1>1, <1>3 DEF Books, Overlooked
  <2>2. <<p, 1>> \in LiveTasks
    BY <1>3 DEF Missing, MainFirst, LiveTasks, Threads
  <2>3. counted \in SUBSET LiveTasks /\ LiveTasks \in SUBSET (Pids \X Threads)
    BY LiveFacts DEF Books, TypeInv
  <2>4. Cardinality(LiveTasks) > lastCount
    BY <2>1, <2>2, <2>3, MoreTasks DEF Books
  <2> QED
    BY <1>1, <2>1, <2>4
<1>4. Books(known, c, seen)'
  BY <1>0, <1>1, <1>2, <1>3 DEF Books
<1> QED
  BY <1>0, <1>4, LiveFacts DEF TypeInv

LEMMA ProbeBooks ==
  ASSUME TypeInv, MainFirst, Grows, NEW known \in SUBSET Pids, NEW seen \in SUBSET Pids,
         NEW counted \in SUBSET (Pids \X Threads), Books(known, counted, seen), SyncProbe
  PROVE  Books(known, counted, {})'
<1>1. /\ pc = "probe" /\ UNCHANGED <<env, targets, fresh, cfg, sync>>
  BY DEF SyncProbe
<1>2. /\ UNCHANGED <<Running, LiveTasks>>
      /\ \A p \in Pids : Missing(p)' <=> Missing(p)
  BY <1>1 DEF Running, LiveTasks, Missing, Alive, env, sync
<1>3. CASE pc' = "apply"
  <2>1. ~need
    BY <1>3 DEF SyncProbe
  <2> QED
    BY <1>1, <1>2, <1>3, <2>1 DEF Books, Overlooked, sync
<1>4. CASE pc' = "walk"
  <2>1. listing' = Running /\ cursor' = 1 /\ total' = 0
    BY <1>1, <1>4 DEF SyncProbe
  <2>2. \A p \in Pids : <<p, 1>> \in counted => p \in Running
    BY DEF Books, LiveTasks, Running, Alive
  <2>3. \A p \in Running : ~(p < 1)
    BY DEF Running, Pids
  <2>4. AtWalk(known, counted, {})'
    BY <1>1, <1>2, <2>1, <2>2, <2>3, FS_EmptySet DEF AtWalk, Books, sync
  <2> QED
    BY <1>1, <1>2, <1>4, <2>4 DEF Books, sync
<1> QED
  BY <1>3, <1>4 DEF SyncProbe

LEMMA NextGrow == GrowInv /\ [Next]_vars => GrowInv'
<1> SUFFICES ASSUME GrowInv, [Next]_vars, Grows'
             PROVE  \E known, seen \in SUBSET Pids, counted \in SUBSET (Pids \X Threads) :
                      Books(known, counted, seen)'
  BY NextTypes, MainStep DEF GrowInv
<1>1. TypeInv /\ TypeOK /\ MainFirst
  BY DEF GrowInv, TypeInv
<1>2. world' = world
  BY DEF Next, Loop, Device, Launch, Specialise, NewThread, Exit, Displace, NewConfig,
         DeadlinePasses, SyncCount, SyncProbe, Visit, WalkEnd, Apply, env, vars
<1>3. Grows /\ ~world.exits /\ ~world.lateNames
  BY <1>2 DEF Grows
<1>4. PICK known \in SUBSET Pids, seen \in SUBSET Pids, counted \in SUBSET (Pids \X Threads) :
        Books(known, counted, seen)
  BY <1>3 DEF GrowInv
<1>5. CASE /\ UNCHANGED <<targets, fresh, due, pc, cfg, need, sync, force, cache, walk>>
           /\ \A p \in Pids : threads[p] \subseteq threads'[p]
           /\ \A p \in Running : name'[p] = name[p]
  <2>1. Books(known, counted, seen)'
    BY <1>1, <1>3, <1>4, <1>5, DeviceBooks
  <2> QED
    BY <2>1
<1>6. CASE UNCHANGED vars
  BY <1>5, <1>6 DEF vars, env
<1>7. CASE Device
  <2>1. ASSUME NEW p \in Pids, NEW n \in Names, Launch(p, n)
        PROVE  /\ \A q \in Pids : threads[q] \subseteq threads'[q]
               /\ \A q \in Running : name'[q] = name[q]
    BY <1>1, <2>1 DEF Launch, Alive, Running, TypeOK
  <2>2. ASSUME NEW p \in Pids, NEW k \in Threads, NewThread(p, k)
        PROVE  /\ \A q \in Pids : threads[q] \subseteq threads'[q]
               /\ \A q \in Running : name'[q] = name[q]
    BY <1>1, <2>2 DEF NewThread, TypeOK
  <2>3. CASE \E p \in Pids, n \in Names : Launch(p, n)
    BY <1>5, <2>1, <2>3 DEF Launch
  <2>4. CASE \E p \in Pids, k \in Threads : NewThread(p, k)
    BY <1>5, <2>2, <2>4 DEF NewThread
  <2>5. CASE \E t \in placed : Displace(t)
    BY <1>5, <2>5 DEF Displace, env
  <2> QED
    BY <1>3, <1>7, <2>3, <2>4, <2>5 DEF Device, Specialise, Exit
<1>8. ASSUME NEW S \in SUBSET Pkgs, NewConfig(S) PROVE Books(known, counted, seen)'
  <2>1. /\ fresh' /\ UNCHANGED <<Running, LiveTasks, Found>>
        /\ UNCHANGED <<env, pc, cfg, need, sync, cache, walk>>
    BY <1>8 DEF NewConfig, Running, LiveTasks, Alive, Found, env
  <2>2. pc = "walk" => AtWalk(known, counted, seen)'
    BY <1>4, <2>1 DEF Books, AtWalk, env, sync, walk
  <2> QED
    BY <1>4, <2>1, <2>2 DEF Books, Overlooked, sync
<1>9. CASE DeadlinePasses
  <2>1. /\ UNCHANGED <<Running, LiveTasks, Found>>
        /\ UNCHANGED <<env, targets, fresh, pc, cfg, need, sync, cache, walk>>
        /\ \A p \in Pids : Missing(p)' <=> Missing(p)
    BY <1>9 DEF DeadlinePasses, Running, LiveTasks, Alive, Found, Missing, env, sync
  <2>2. pc = "walk" => AtWalk(known, counted, seen)'
    BY <1>4, <2>1 DEF Books, AtWalk, env, sync, walk
  <2>3. Books(known, counted, seen)'
    BY <1>4, <2>1, <2>2 DEF Books, Overlooked, sync
  <2> QED
    BY <2>3
<1>10. CASE SyncCount
  BY <1>1, <1>3, <1>4, <1>10, CountBooks
<1>11. CASE SyncProbe
  BY <1>1, <1>3, <1>4, <1>11, ProbeBooks
<1>12. CASE Visit
  BY <1>1, <1>3, <1>4, <1>12, VisitBooks
<1>13. CASE WalkEnd
  BY <1>1, <1>3, <1>4, <1>13, WalkEndBooks
<1>14. CASE Apply
  <2>1. /\ pc = "apply" /\ pc' = "count" /\ UNCHANGED <<Running, LiveTasks>>
        /\ UNCHANGED <<env, targets, fresh, need, sync, walk>>
        /\ \A p \in Pids : Missing(p)' <=> Missing(p)
    BY <1>14 DEF Apply, Running, LiveTasks, Alive, Missing, env, sync
  <2>2. Books(known, counted, seen)'
    BY <1>4, <2>1 DEF Books, Overlooked, sync
  <2> QED
    BY <2>2
<1> QED
  BY <1>6, <1>7, <1>8, <1>9, <1>10, <1>11, <1>12, <1>13, <1>14 DEF Next, Loop

(* For any number of processes, threads and packages: as long as nothing   *)
(* ends, a target that is not tracked shows in both counts, or the next    *)
(* round looks at every process anyway.                                    *)
THEOREM TargetsShow == Spec => []NoneForgotten
<1>1. Init => GrowInv
  BY InitGrow
<1>2. GrowInv /\ [Next]_vars => GrowInv'
  BY NextGrow
<1>3. GrowInv => NoneForgotten
  <2> SUFFICES ASSUME GrowInv, pc = "count", Grows, NEW p \in Pids, Missing(p),
                      ~fresh, ~scanAll
               PROVE  Cardinality(LiveTasks) > lastCount /\ Cardinality(Running) > lastTotal
    BY DEF NoneForgotten
  <2>1. PICK known \in SUBSET Pids, seen \in SUBSET Pids, counted \in SUBSET (Pids \X Threads) :
          Books(known, counted, seen)
    BY DEF GrowInv
  <2>2. /\ p \notin known /\ <<p, 1>> \notin counted
        /\ known \in SUBSET Running /\ counted \in SUBSET LiveTasks
    BY <2>1 DEF Books, Overlooked
  <2>3. p \in Running /\ <<p, 1>> \in LiveTasks
    BY DEF Missing, Running, GrowInv, MainFirst, LiveTasks, Threads
  <2>4. Running \in SUBSET Pids /\ LiveTasks \in SUBSET (Pids \X Threads)
    BY LiveFacts DEF GrowInv, TypeInv
  <2> QED
    BY <2>1, <2>2, <2>3, <2>4, MorePids, MoreTasks DEF Books
<1> QED
  BY <1>1, <1>2, <1>3, PTL DEF Spec
=============================================================================
