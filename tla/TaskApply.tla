------------------------------ MODULE TaskApply ------------------------------
(***************************************************************************)
(* What is done to one task, by either engine: task_apply and              *)
(* affinity_sync (cache.rs), thread_affinity (rule_match.rs), affinity_set *)
(* (apply_affinity.rs), apply_task and reapply_thread (tuning.rs), against *)
(* cpusets, scheduler attributes and memory groups that the system and the *)
(* app change too, and a configuration, a tuning store and a cpuset name   *)
(* that web requests change in between.                                    *)
(*                                                                         *)
(* There is one app: its main thread 1, which stays, and its worker 2,     *)
(* which is renamed, ends and comes again.  How a reload and the flag      *)
(* CONFIG_UPDATED work is in ConfigReload, which events are filtered and   *)
(* lost in EbpfTrack: here a reload publishes in one step and every rename *)
(* is an event.                                                            *)
(***************************************************************************)
EXTENDS CpuSet

CONSTANTS
  Comms,        \* the names of threads; Main of them is the main thread's
  Main,
  Gone,         \* the name of a task that does not exist
  Unnamed,      \* the empty name
  Patterns,     \* Patterns[p]: the names that pattern p matches
  NoPattern,    \* the thread of a package rule
  Topo,         \* the CPUs of each tier
  SystemCpus,   \* the CPUs of the cpuset that the system uses
  Bases,        \* names of the base cpuset
  No,           \* the option that is not given
  MaxClamp,     \* SCHED_CAPACITY_SCALE
  Groups,       \* names of memory groups
  MaxEvents,    \* bound: events in the queue
  Worlds        \* what there is and what happens, see below

ASSUME CommsAssumption ==
  Main \in Comms /\ Gone \notin Comms /\ Unnamed \notin Comms
ASSUME TopoAssumption ==
  /\ DOMAIN Topo = Tiers
  /\ \A tier \in Tiers : Topo[tier] \subseteq Topo["all-core"]
  /\ SystemCpus \subseteq Topo["all-core"] /\ SystemCpus # {}
  /\ Topo["all-core"] \subseteq Cpus
ASSUME NumbersAssumption == MaxClamp \in Nat /\ MaxEvents \in Nat

(* What a rule for threads may give, and what they give together.          *)
Option(S) == S \cup {No}
ThreadTunes == [min : Option(0..MaxClamp), max : Option(0..MaxClamp), nice : Option(-20..19)]

ASSUME NoAssumption ==
  /\ No \notin ThreadTunes
  /\ \A b \in Bases : No # <<b, <<>>>> /\ \A S \in SUBSET Cpus : No # <<b, ToRangeString[S]>>

(* files: the rules that the file may hold, each with some CPUs (the       *)
(* loader drops the others); docs: the tuning documents that may be        *)
(* posted; engine: which one runs; cpuset: /dev/cpuset can be used; fails: *)
(* a directory may not be created; ends: worker 2 may end; comms: the      *)
(* names worker 2 takes; masks, nices: what the app sets itself; moved:    *)
(* the tasks that it or the system does that to.                           *)
ASSUME WorldAssumption ==
  \A w \in Worlds :
    /\ DOMAIN w = {"files", "docs", "bases", "engine", "cpuset", "fails", "ends",
                   "comms", "masks", "nices", "moved"}
    /\ w.comms \subseteq Comms \ {Main} /\ w.moved \subseteq {1, 2}
    /\ w.bases \subseteq Bases /\ w.engine \in {"ebpf", "proc"}
    /\ {w.cpuset, w.fails, w.ends} \subseteq BOOLEAN /\ {} \notin w.masks
    /\ \A rules \in w.files :
         /\ IsFiniteSet(DOMAIN rules)
         /\ \A i \in DOMAIN rules : ParseCpuSpec(rules[i].spec, Topo) # {}
    /\ \A doc \in w.docs :
         /\ DOMAIN doc.apps \subseteq Nat
         /\ \A k \in DOMAIN doc.apps : doc.apps[k].threads \in
              Seq([pattern : DOMAIN Patterns, min : Option(0..MaxClamp),
                   max : Option(0..MaxClamp), nice : Option(-20..19)])
         /\ \A k \in DOMAIN doc.groups :
              doc.groups[k].name \in Groups /\ doc.groups[k].limit \in Nat

Tids == {1, 2}
Present == Topo["all-core"]

VARIABLES
  world,
  comm, mask, cset, nice, clamp,  \* of each task, as the kernel has them
  memcg, limit,   \* the group that the process is in, the limit of each
  dirs,           \* the directories below /dev/cpuset, <<base, text>>
  events,         \* of the kernel, not yet handled: name of worker 2, or Gone
  file, tuning,   \* the configuration file, TUNING_CONFIG
  base, naming,   \* BASE_CPUSET_PATH; its directory is not yet created
  reload,         \* a reload is due
  config, updated,  \* CURRENT_CONFIG, CONFIG_UPDATED
  pc, cfg, todo,  \* where the main loop is, its configuration, the tasks left
  cur,            \* the task in hand
  cache,          \* ProcCache
  passes,         \* history: affinity_set with nothing else in between, to 2
  tuned,          \* history: the knobs were set for the entry in the cache
                  \* since anything touched them
  had             \* history: the names of worker 2 since it started

kernelVars == <<comm, mask, cset, nice, clamp, memcg, limit>>
webVars == <<file, tuning, base, naming, reload, config, updated>>
mainVars == <<pc, cfg, todo, cur, cache>>
history == <<passes, tuned, had>>
vars == <<world, kernelVars, dirs, events, webVars, mainVars, history>>

-----------------------------------------------------------------------------
Alive(t) == comm[t] # Gone
NoEntry == [comm |-> Gone, cpus |-> No, dir |-> <<>>, isThread |-> FALSE]
Cached(t) == cache[t] # NoEntry
Nobody == [tid |-> 1, comm |-> Unnamed, of |-> "none", matched |-> FALSE,
           result |-> No, tune |-> No, seen |-> No]

(* The kernel reads the text that create_cpuset_dir writes.                *)
CpusOf(cs) ==
  CASE cs = No -> SystemCpus
    [] cs # No /\ cs[2] = <<>> -> Present
    [] OTHER -> ParseCpuRanges(cs[2], Present)

TypeOK ==
  /\ world \in Worlds
  /\ comm \in [Tids -> Comms \cup {Gone}] /\ comm[1] = Main
  /\ \A t \in Tids : mask[t] \subseteq CpusOf(cset[t]) /\ (Alive(t) => mask[t] # {})
  /\ \A t \in Tids : clamp[t].min <= clamp[t].max
  /\ memcg \in Groups \cup {No} /\ limit \in [Groups -> Nat]
  /\ \A t \in Tids : cset[t] # No => cset[t] \in dirs
  /\ \A d \in dirs : <<d[1], <<>>>> \in dirs
  /\ Len(events) <= MaxEvents
  /\ base \in Bases /\ {naming, reload, updated} \subseteq BOOLEAN
  /\ pc \in {"idle", "scan", "sync", "act"}
  /\ pc = "idle" => todo = {} /\ cur = Nobody
  /\ \A t \in Tids : Cached(t) =>
       cache[t].cpus = No \/ (cache[t].cpus # {} /\ cache[t].cpus \subseteq Present)

-----------------------------------------------------------------------------
NoConfig == [rules |-> <<>>, threads |-> FALSE, known |-> FALSE]

(* load_config: the rules of the app with their CPUs, whether it has       *)
(* thread rules (of either kind), and whether it is known at all.          *)

TuningOf(doc) == {i \in DOMAIN doc.apps : doc.apps[i].pkg = "app"}

(* apps.iter().find                                                        *)
App(doc) == doc.apps[CHOOSE i \in TuningOf(doc) : \A j \in TuningOf(doc) : i <= j]

Load(rules, doc, dirOf) ==
  [rules |-> [i \in DOMAIN rules |->
               [thread |-> rules[i].thread,
                cpus |-> ParseCpuSpec(rules[i].spec, Topo), dir |-> dirOf[i]]],
   threads |-> \/ \E i \in DOMAIN rules : rules[i].thread # NoPattern
               \/ TuningOf(doc) # {} /\ App(doc).threads # <<>>,
   known |-> rules # <<>> \/ TuningOf(doc) # {}]

(* The rules for the whole package.                                        *)
PackageRules(rules) == {i \in DOMAIN rules : rules[i].thread = NoPattern}

(* create_cpuset_dir below a base that exists.                             *)
CanCreate == world.cpuset /\ <<base, <<>>>> \in dirs

(* add_rule: the directory of each package rule, <<>> when there is none.  *)
RuleDirs(rules) ==
  LET wanted(i) == IF rules[i].thread = NoPattern /\ CanCreate
                   THEN ToRangeString[ParseCpuSpec(rules[i].spec, Topo)] ELSE <<>> IN
  {[i \in DOMAIN rules |-> IF i \in failed THEN <<>> ELSE wanted(i)] :
     failed \in IF world.fails THEN SUBSET PackageRules(rules) ELSE {{}}}

-----------------------------------------------------------------------------
(* thread_affinity: the matching thread rules together, or else the        *)
(* package rules together, or else every CPU when there are thread rules.  *)

Matching(rules, c) ==
  {i \in DOMAIN rules : rules[i].thread # NoPattern /\ c \in Patterns[rules[i].thread]}
CpusOfRules(rules, is) == UNION {rules[i].cpus : i \in is}

(* Mutant: the directory of the first package rule stands for all.         *)
FirstDir(rules, is) == IF is = {} THEN <<>> ELSE rules[CHOOSE i \in is : TRUE].dir

FallbackDir(rules, is) ==
  IF Cardinality(is) = 1 THEN rules[CHOOSE i \in is : TRUE].dir ELSE <<>>

(* Mutant: the empty set found is what is applied.                         *)
NoRuleCpusNone == {}

(* A thread that no rule is for, of a package with thread rules.           *)
NoRuleCpus == Present

(* made: ensure_cpuset_dir has created the directory.                      *)
ThreadAffinity(c, made) ==
  LET threads == Matching(cfg.rules, c)
      packages == PackageRules(cfg.rules)
      merged == CpusOfRules(cfg.rules, threads) IN
  CASE threads # {} ->
         [cpus |-> merged, isThread |-> TRUE,
          dir |-> IF made THEN ToRangeString[merged] ELSE <<>>]
    [] threads = {} /\ packages # {} ->
         [cpus |-> CpusOfRules(cfg.rules, packages), isThread |-> FALSE,
          dir |-> FallbackDir(cfg.rules, packages)]
    [] threads = {} /\ packages = {} /\ cfg.threads ->
         [cpus |-> NoRuleCpus, isThread |-> FALSE, dir |-> <<>>]
    [] OTHER -> No

(* Mutant: what the comment in affinity_set warns of: a task with the CPUs *)
(* asked for is left in the cpuset where it is.                            *)
PlacedEarly(t, cpus, dir) ==
  LET cs == <<base, dir>>
      move == world.cpuset /\ cs \in dirs /\ cset[t] # cs /\ mask[t] # cpus
      at == IF move THEN cs ELSE cset[t] IN
  [cset |-> at,
   mask |-> IF mask[t] # cpus /\ cpus \cap CpusOf(at) # {} THEN cpus \cap CpusOf(at)
            ELSE mask[t]]

(* affinity_set: the CPUs are compared, the task is moved, and its CPUs    *)
(* are set if they were others.  A move to another cpuset gives the task   *)
(* the CPUs of the cpuset; none of them set is an error that is ignored.   *)
Placed(t, cpus, dir) ==
  LET cs == <<base, dir>>
      move == world.cpuset /\ cs \in dirs /\ cset[t] # cs
      at == IF move THEN cs ELSE cset[t] IN
  [cset |-> at,
   mask |-> IF mask[t] # cpus /\ cpus \cap CpusOf(at) # {} THEN cpus \cap CpusOf(at)
            ELSE IF move THEN CpusOf(at) ELSE mask[t]]

-----------------------------------------------------------------------------
(* config_from_value: which documents a save accepts.                      *)

(* Mutant: the group of an app is not looked for.                          *)
GroupKnownNot(doc, app) == TRUE

GroupKnown(doc, app) ==
  app.group = No \/ \E i \in DOMAIN doc.groups : doc.groups[i].name = app.group

ThreadRuleOK(rule) ==
  /\ {rule.min, rule.max, rule.nice} # {No}
  /\ No \notin {rule.min, rule.max} => rule.min <= rule.max

Valid(doc) ==
  /\ \A i, j \in DOMAIN doc.groups : doc.groups[i].name = doc.groups[j].name => i = j
  /\ \A i, j \in DOMAIN doc.apps : doc.apps[i].pkg = doc.apps[j].pkg => i = j
  /\ \A i \in DOMAIN doc.apps :
       LET app == doc.apps[i] IN
       /\ app.group # No \/ app.threads # <<>>
       /\ \A k \in DOMAIN app.threads : ThreadRuleOK(app.threads[k])
       /\ GroupKnown(doc, app)

(* effective_thread_tune: a later rule overrides the fields it has.        *)

(* Mutant: the first rule wins.                                            *)
OverFirst(old, new) == IF old = No THEN new ELSE old

Over(old, new) == IF new = No THEN old ELSE new

Merge(old, rule) == [min |-> Over(old.min, rule.min), max |-> Over(old.max, rule.max),
                     nice |-> Over(old.nice, rule.nice)]

MergeRules(rules, hits) ==
  Ascending(LAMBDA t, i : Merge(t, rules[i]), [min |-> No, max |-> No, nice |-> No], hits)

EffectiveThreadTune(app, c) ==
  LET hits == {i \in DOMAIN app.threads : c \in Patterns[app.threads[i].pattern]} IN
  IF hits = {} THEN No ELSE MergeRules(app.threads, hits)

Tune(c) == IF TuningOf(tuning) = {} THEN No ELSE EffectiveThreadTune(App(tuning), c)

(* set_uclamp is called: something is given, and not upside down.          *)
Clamps(tune) ==
  /\ tune # No /\ {tune.min, tune.max} # {No}
  /\ No \notin {tune.min, tune.max} => tune.min <= tune.max

(* What sched_setattr makes of it: the fields not given stay, and a lower  *)
(* clamp above the upper one is refused.                                   *)
Clamped(old, tune) == [min |-> Over(old.min, tune.min), max |-> Over(old.max, tune.max)]
Accepted(old, tune) == Clamped(old, tune).min <= Clamped(old, tune).max

(* apply_memory_group of the app: the limit first, then the process.       *)
MemoryGroup ==
  {doc \in {tuning.groups[i] : i \in DOMAIN tuning.groups} :
     TuningOf(tuning) # {} /\ doc.name = App(tuning).group}

-----------------------------------------------------------------------------
(* The start; the first load is a reload like the others.                  *)
Init ==
  /\ world \in Worlds
  /\ comm = [t \in Tids |-> Main] /\ had = {Main}
  /\ cset = [t \in Tids |-> No] /\ mask = [t \in Tids |-> SystemCpus]
  /\ nice = [t \in Tids |-> 0] /\ clamp = [t \in Tids |-> [min |-> 0, max |-> MaxClamp]]
  /\ memcg = No /\ limit = [g \in Groups |-> 0]
  /\ base \in world.bases /\ naming = FALSE
  /\ dirs = IF world.cpuset THEN {<<base, <<>>>>} ELSE {}
  /\ events = <<>>
  /\ file \in world.files /\ tuning \in {doc \in world.docs : Valid(doc)}
  /\ config = NoConfig /\ reload = TRUE /\ updated = FALSE
  /\ pc = "idle" /\ cfg = config /\ todo = {} /\ cur = Nobody
  /\ cache = [t \in Tids |-> NoEntry]
  /\ passes = [t \in Tids |-> 0] /\ tuned = [t \in Tids |-> FALSE]

-----------------------------------------------------------------------------
(* The device.                                                             *)

Tell(c) ==
  IF world.engine = "proc" THEN UNCHANGED events
  ELSE Len(events) < MaxEvents /\ events' = Append(events, c)

Rename(c) ==
  /\ Alive(2) /\ c # comm[2]
  /\ comm' = [comm EXCEPT ![2] = c] /\ had' = had \cup {c}
  /\ Tell(c)
  /\ UNCHANGED <<world, mask, cset, nice, clamp, memcg, limit, dirs, webVars, mainVars,
                 passes, tuned>>

End ==
  /\ world.ends /\ Alive(2)
  /\ comm' = [comm EXCEPT ![2] = Gone]
  /\ mask' = [mask EXCEPT ![2] = {}] /\ cset' = [cset EXCEPT ![2] = No]
  /\ had' = {}
  /\ Tell(Gone)
  /\ UNCHANGED <<world, nice, clamp, memcg, limit, dirs, webVars, mainVars, passes, tuned>>

(* A new thread has all of its creator's but the number.                   *)
Begin ==
  /\ ~Alive(2)
  /\ comm' = [comm EXCEPT ![2] = Main] /\ had' = {Main}
  /\ mask' = [mask EXCEPT ![2] = mask[1]] /\ cset' = [cset EXCEPT ![2] = cset[1]]
  /\ nice' = [nice EXCEPT ![2] = nice[1]] /\ clamp' = [clamp EXCEPT ![2] = clamp[1]]
  /\ passes' = [passes EXCEPT ![2] = 0] /\ tuned' = [tuned EXCEPT ![2] = FALSE]
  /\ UNCHANGED <<world, memcg, limit, dirs, events, webVars, mainVars>>

(* The system moves a task to its cpuset; the app sets a mask.             *)
Displace(t, cs, m) ==
  /\ Alive(t)
  /\ \/ cs = No /\ m = SystemCpus /\ cset[t] # No
     \/ cs = cset[t] /\ m \in world.masks \ {mask[t]} /\ m \subseteq CpusOf(cs)
  /\ cset' = [cset EXCEPT ![t] = cs] /\ mask' = [mask EXCEPT ![t] = m]
  /\ passes' = [passes EXCEPT ![t] = 0]
  /\ UNCHANGED <<world, comm, nice, clamp, memcg, limit, dirs, events, webVars,
                 mainVars, tuned, had>>

Renice(t, n) ==
  /\ Alive(t) /\ n # nice[t]
  /\ nice' = [nice EXCEPT ![t] = n]
  /\ tuned' = [tuned EXCEPT ![t] = FALSE]
  /\ UNCHANGED <<world, comm, mask, cset, clamp, memcg, limit, dirs, events, webVars,
                 mainVars, passes, had>>

Device ==
  \/ \E c \in world.comms : Rename(c)
  \/ End \/ Begin
  \/ \E t \in world.moved :
       Displace(t, No, SystemCpus) \/ \E m \in world.masks : Displace(t, cset[t], m)
  \/ \E t \in world.moved, n \in world.nices : Renice(t, n)

-----------------------------------------------------------------------------
(* Web requests and edits; each has a reload after it.                     *)

EditFile(rules) ==
  /\ rules # file
  /\ file' = rules /\ reload' = TRUE
  /\ UNCHANGED <<world, kernelVars, dirs, events, tuning, base, naming, config, updated,
                 mainVars, history>>

(* tuning_set_api                                                          *)
SaveTuning(doc) ==
  /\ doc # tuning /\ Valid(doc)
  /\ tuning' = doc /\ reload' = TRUE
  /\ tuned' = [t \in Tids |-> FALSE]
  /\ UNCHANGED <<world, kernelVars, dirs, events, file, base, naming, config, updated,
                 mainVars, passes, had>>

(* config_set_api: the name, then its directory and the reload.            *)
SetBase(b) ==
  /\ b # base /\ ~naming
  /\ base' = b /\ naming' = TRUE
  /\ passes' = [t \in Tids |-> 0]
  /\ UNCHANGED <<world, kernelVars, dirs, events, file, tuning, reload, config, updated,
                 mainVars, tuned, had>>

CreateBase ==
  /\ naming
  /\ naming' = FALSE /\ reload' = TRUE
  /\ dirs' \in {dirs \cup IF world.cpuset THEN {<<base, <<>>>>} ELSE {}}
                 \cup IF world.fails THEN {dirs} ELSE {}
  /\ passes' = [t \in Tids |-> IF dirs' = dirs THEN passes[t] ELSE 0]
  /\ UNCHANGED <<world, kernelVars, events, file, tuning, base, config, updated,
                 mainVars, tuned, had>>

(* Mutant: the reload keeps to what the file says.                         *)
LoadFileOnly(dirOf) == [Load(file, tuning, dirOf) EXCEPT !.known = file # <<>>]

LoadConfig(dirOf) == Load(file, tuning, dirOf)

Reload ==
  /\ reload
  /\ reload' = FALSE /\ updated' = TRUE
  /\ \E dirOf \in RuleDirs(file) :
       /\ config' = LoadConfig(dirOf)
       /\ dirs' = dirs \cup {<<base, dirOf[i]>> : i \in {i \in DOMAIN file : dirOf[i] # <<>>}}
  /\ passes' = [t \in Tids |-> IF dirs' = dirs THEN passes[t] ELSE 0]
  /\ UNCHANGED <<world, kernelVars, events, file, tuning, base, naming, mainVars,
                 tuned, had>>

Requests ==
  \/ \E rules \in world.files : EditFile(rules)
  \/ \E doc \in world.docs : SaveTuning(doc)
  \/ \E b \in world.bases : SetBase(b)
  \/ CreateBase \/ Reload

-----------------------------------------------------------------------------
(* The main loop.  A task is taken in hand: its rule is looked up (when it *)
(* is applied), its tuning, and its attributes are read if they are to be  *)
(* written; the process's memory group is set with its main thread.        *)

TakeUp(t, name, of) ==
  LET c == IF of = "sync" \/ cfg.threads THEN name ELSE Unnamed
      tune == Tune(c) IN
  /\ pc' = "act"
  /\ \E made \in IF world.fails THEN BOOLEAN ELSE {TRUE} :
       LET result == IF of = "sync" THEN No ELSE ThreadAffinity(c, made /\ CanCreate) IN
       /\ cur' = [tid |-> t, comm |-> c, of |-> of, matched |-> TuningOf(tuning) # {},
                  result |-> result, tune |-> tune,
                  seen |-> IF Alive(t) /\ Clamps(tune) THEN nice[t] ELSE No]
       /\ dirs' = IF result # No /\ result.isThread /\ made /\ CanCreate
                  THEN dirs \cup {<<base, result.dir>>} ELSE dirs
  /\ passes' = [u \in Tids |-> IF dirs' = dirs THEN passes[u] ELSE 0]
  /\ IF t = 1 /\ of # "sync" /\ MemoryGroup # {}
     THEN \E g \in MemoryGroup :
            memcg' = g.name /\ limit' = [limit EXCEPT ![g.name] = g.limit]
     ELSE UNCHANGED <<memcg, limit>>
  /\ UNCHANGED <<comm, mask, cset, nice, clamp>>

(* The task is for the cache.                                              *)
Tracked == cur.result # No \/ cur.matched

(* apply_thread_tune.  set_uclamp writes the nice value that was read back *)
(* with the clamps, if they are accepted.                                  *)
SetKnobs ==
  LET t == cur.tid
      tune == cur.tune
      clamps == cur.seen # No /\ Alive(t) /\ Accepted(clamp[t], tune) IN
  /\ clamp' = [clamp EXCEPT ![t] = IF clamps THEN Clamped(@, tune) ELSE @]
  /\ nice' = [nice EXCEPT ![t] =
       IF tune # No /\ Alive(t) THEN Over(IF clamps THEN cur.seen ELSE @, tune.nice) ELSE @]
  /\ tuned' = [tuned EXCEPT ![t] =
       /\ Alive(t) /\ (Clamps(tune) => cur.seen # No)
       /\ (cur.of = "sync" \/ Tracked) /\ tune = Tune(cur.comm)]

(* The call of affinity_set for an entry that asks for CPUs: an ended task *)
(* leaves the cache.                                                       *)
SetAffinity(e) ==
  LET t == cur.tid
      placed == Placed(t, e.cpus, e.dir)
      again == cache[t].cpus = e.cpus /\ cache[t].dir = e.dir IN
  IF Alive(t)
  THEN /\ mask' = [mask EXCEPT ![t] = placed.mask]
       /\ cset' = [cset EXCEPT ![t] = placed.cset]
       /\ passes' = [passes EXCEPT ![t] = IF again /\ @ > 0 THEN 2 ELSE 1]
       /\ cache' = [cache EXCEPT ![t] = e]
  ELSE /\ cache' = [cache EXCEPT ![t] = NoEntry]
       /\ UNCHANGED <<mask, cset, passes>>

JustCache(e) ==
  /\ cache' = [cache EXCEPT ![cur.tid] = e]
  /\ passes' = [passes EXCEPT ![cur.tid] = 0]
  /\ UNCHANGED <<mask, cset>>

(* Mutant: a thread rule once matched is never left.                       *)
KeepsAlways(old, result) == old.isThread

(* A package rule does not replace the thread rule of an earlier name.     *)
KeepsRule(old, result) == old.isThread /\ ~result.isThread

(* The end of task_apply.  A walk of /proc only fills the cache.           *)
CacheTask ==
  LET r == cur.result
      old == cache[cur.tid]
      entry(e) == [comm |-> cur.comm, cpus |-> e.cpus, dir |-> e.dir,
                   isThread |-> e.isThread] IN
  CASE ~Tracked -> UNCHANGED <<cache, passes, mask, cset>>
    [] Tracked /\ r = No -> JustCache([NoEntry EXCEPT !.comm = cur.comm])
    [] r # No /\ KeepsRule(old, r) ->
         cache' = [cache EXCEPT ![cur.tid] = entry(old)] /\ UNCHANGED <<passes, mask, cset>>
    [] OTHER -> IF world.engine = "proc" THEN JustCache(entry(r)) ELSE SetAffinity(entry(r))

(* One task of affinity_sync.                                              *)
SyncTask ==
  LET e == cache[cur.tid] IN
  IF e.cpus # No THEN SetAffinity(e)
  ELSE /\ cache' = [cache EXCEPT ![cur.tid] = IF Alive(cur.tid) THEN @ ELSE NoEntry]
       /\ UNCHANGED <<passes, mask, cset>>

Act ==
  /\ pc = "act"
  /\ SetKnobs
  /\ IF cur.of = "sync" THEN SyncTask ELSE CacheTask
  /\ pc' = IF cur.of = "event" THEN "idle" ELSE cur.of
  /\ cur' = Nobody
  /\ UNCHANGED <<world, comm, memcg, limit, dirs, events, webVars, cfg, todo, had>>

(* full_scan and proc_scan: the cache is built anew, when the              *)
(* configuration has changed and, from /proc, when there are more tasks.   *)
Rescan ==
  /\ pc = "idle" /\ (updated \/ world.engine = "proc")
  /\ pc' = "scan" /\ updated' = FALSE
  /\ cfg' = config
  /\ cache' = [t \in Tids |-> NoEntry]
  /\ todo' = IF config.known THEN {t \in Tids : Alive(t)} ELSE {}
  /\ UNCHANGED <<world, kernelVars, dirs, events, file, tuning, base, naming, reload,
                 config, cur, history>>

(* A round fetches the configuration after it has looked at the flag: it   *)
(* may handle events by one that it has not scanned for yet.               *)
Fetch ==
  /\ pc = "idle" /\ cfg # config
  /\ cfg' = config
  /\ UNCHANGED <<world, kernelVars, dirs, events, webVars, pc, todo, cur, cache, history>>

(* A task that has ended since it was listed has no name.                  *)
ScanTask(t) ==
  /\ pc = "scan" /\ t \in todo
  /\ todo' = todo \ {t}
  /\ TakeUp(t, IF Alive(t) THEN comm[t] ELSE Unnamed, "scan")
  /\ UNCHANGED <<world, events, webVars, cfg, cache, tuned, had>>

(* From /proc, force_affinity: the scan is followed by affinity_sync.      *)
EndScan ==
  /\ pc = "scan" /\ todo = {}
  /\ IF world.engine = "proc"
     THEN pc' = "sync" /\ todo' = {t \in Tids : Cached(t)}
     ELSE pc' = "idle" /\ UNCHANGED todo
  /\ UNCHANGED <<world, kernelVars, dirs, events, webVars, cfg, cur, cache, history>>

HandleExit ==
  /\ pc = "idle" /\ events # <<>> /\ Head(events) = Gone
  /\ events' = Tail(events)
  /\ cache' = [cache EXCEPT ![2] = NoEntry]
  /\ UNCHANGED <<world, kernelVars, dirs, webVars, pc, cfg, todo, cur, history>>

(* A thread belongs to the package of its main thread's entry.             *)
HandleRename ==
  /\ pc = "idle" /\ events # <<>> /\ Head(events) # Gone
  /\ events' = Tail(events)
  /\ IF Cached(1) THEN TakeUp(2, Head(events), "event")
     ELSE UNCHANGED <<pc, cur, kernelVars, dirs, passes>>
  /\ UNCHANGED <<world, webVars, cfg, todo, cache, tuned, had>>

Sync ==
  /\ pc = "idle"
  /\ pc' = "sync" /\ todo' = {t \in Tids : Cached(t)}
  /\ UNCHANGED <<world, kernelVars, dirs, events, webVars, cfg, cur, cache, history>>

TakeSync(t) ==
  /\ pc = "sync" /\ t \in todo
  /\ todo' = todo \ {t}
  /\ TakeUp(t, cache[t].comm, "sync")
  /\ UNCHANGED <<world, events, webVars, cfg, cache, tuned, had>>

EndSync ==
  /\ pc = "sync" /\ todo = {}
  /\ pc' = "idle"
  /\ UNCHANGED <<world, kernelVars, dirs, events, webVars, cfg, todo, cur, cache, history>>

Loop ==
  \/ Rescan \/ Fetch \/ EndScan \/ Sync \/ EndSync \/ Act
  \/ HandleExit \/ HandleRename
  \/ \E t \in Tids : ScanTask(t) \/ TakeSync(t)

Next == Device \/ Requests \/ Loop

Spec == Init /\ [][Next]_vars

-----------------------------------------------------------------------------
(* What must hold.                                                         *)

(* apply_affinity.rs 62: a thread may have the CPUs asked for and be in    *)
(* the wrong cpuset.  After two passes with nothing else in between every  *)
(* task is in the cpuset of its entry, if there is one, and has exactly    *)
(* the CPUs of its entry; one pass is not enough, see PlacedAtOnce.        *)
PlacedAfter(n) ==
  \A t \in Tids :
    LET e == cache[t]  cs == <<base, e.dir>> IN
    Alive(t) /\ Cached(t) /\ e.cpus # No /\ passes[t] >= n /\ world.cpuset /\ cs \in dirs
      => cset[t] = cs /\ mask[t] = e.cpus

PlacedInTwo == PlacedAfter(2)
PlacedAtOnce == PlacedAfter(1)

(* rule_match.rs 31: the cpuset that a task is sent to has the CPUs that   *)
(* are set for it, whichever rules were put together.                      *)
CpusetAgrees ==
  \A t \in Tids : Cached(t) /\ cache[t].cpus # No /\ cache[t].dir # <<>>
    => CpusOf(<<base, cache[t].dir>>) = cache[t].cpus

(* cache.rs 74: with events, and no configuration that was not scanned     *)
(* for, an entry has the CPUs of its name's thread rules; without any,     *)
(* those of the package or, still, those of a name that the task had       *)
(* before, never another's.                                                *)
RuleOfItsName ==
  LET e == cache[2]
      threads(c) == Matching(cfg.rules, c)
      current == /\ world.engine = "ebpf" /\ ~updated
                 /\ Alive(2) /\ Gone \notin {events[i] : i \in DOMAIN events} IN
  current /\ Cached(2) /\ e.cpus # No
    => /\ e.comm \in had \cup {Unnamed}
       /\ IF threads(e.comm) # {} THEN e.cpus = CpusOfRules(cfg.rules, threads(e.comm))
          ELSE \/ e.cpus = CpusOfRules(cfg.rules, PackageRules(cfg.rules))
               \/ e.cpus = Present /\ PackageRules(cfg.rules) = {}
               \/ \E c \in had : threads(c) # {} /\ e.cpus = CpusOfRules(cfg.rules, threads(c))

(* The value of the last of the rules for the name that has the field.     *)
LastGiven(c, field) ==
  LET rules == IF TuningOf(tuning) = {} THEN <<>> ELSE App(tuning).threads
      giving == {i \in DOMAIN rules : c \in Patterns[rules[i].pattern] /\ rules[i][field] # No} IN
  IF giving = {} THEN No
  ELSE rules[CHOOSE i \in giving : \A j \in giving : j <= i][field]

(* tuning.rs 919: a later rule overrides an earlier one field by field.    *)
(* Once a task has been tuned and nobody else has touched it, it has the   *)
(* nice value and the clamps of the last rules that give them; a clamp may *)
(* only be missing when it contradicts the other one, of a rule or of a    *)
(* name before.                                                            *)
TunedByLastRules ==
  \A t \in Tids : Alive(t) /\ Cached(t) /\ tuned[t] =>
    LET n == LastGiven(cache[t].comm, "nice")
        lo == LastGiven(cache[t].comm, "min")
        hi == LastGiven(cache[t].comm, "max") IN
    /\ n # No => nice[t] = n
    /\ No \notin {lo, hi} /\ lo <= hi => clamp[t] = [min |-> lo, max |-> hi]
    /\ lo # No /\ hi = No => clamp[t].min = lo \/ clamp[t].max < lo
    /\ hi # No /\ lo = No => clamp[t].max = hi \/ clamp[t].min > hi

(* tuning.rs 1103: memory groups are set when a process is discovered and  *)
(* after a reload.  When nothing is under way the process is in the group  *)
(* that the tuning in force gives its app, which has the limit given.      *)
InItsGroup ==
  pc = "idle" /\ ~updated /\ ~reload =>
    \A i \in TuningOf(tuning) : tuning.apps[i].group # No =>
      \E k \in DOMAIN tuning.groups :
        /\ tuning.groups[k].name = tuning.apps[i].group
        /\ memcg = tuning.groups[k].name /\ limit[memcg] = tuning.groups[k].limit

(* cpuset.rs 76: a cpuset directory gets the CPUs that it is named for, as *)
(* every set is the one its text is read as (no need to look at it again   *)
(* after the first load).                                                  *)
TextReadsBack == config = NoConfig /\ ~updated /\ pc = "idle" => EveryTextReadsBack

(* Clamps alone leave nice alone.                                          *)
OwnNiceKept ==
  [][pc = "act" /\ (cur.tune = No \/ cur.tune.nice = No) => UNCHANGED nice]_vars
=============================================================================
