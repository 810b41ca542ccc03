# AppOptR in TLA+

TLA+ models of AppOptR-Plus, the daemon that pins the threads of Android apps to
CPUs and tunes their memory groups and scheduling. TLC checks the models on small
instances, TLAPS proves theorems about them for every value of the constants.
`PROJECT.json` maps every definition to the lines of the source it stands for.

    tlc -workers 2 -config Engine_switch.cfg MCEngine      # a run
    tlapm EngineProofs.tla                                 # proofs

## 1. The system

The program is one process with these threads:

- the **main loop** (`main.rs`), which runs the engine in use and owns all
  scheduling state, so that the state of an engine is never shared;
- the **ConfigLoader** (`config.rs`), which follows `applist.conf`;
- one **web thread per connection** (`web.rs`);
- the **ring reader** of the eBPF engine (`ebpf_mode.rs`), which hands events
  over a channel.

They share `CURRENT_CONFIG` (a mutex over an `Arc`), the flags `CONFIG_UPDATED`,
`FORCE_RELOAD`, `EBPF_GAVE_UP`, the settings `MODE_FORCE`, `CHECK_INTERVAL`,
`CONFIG_FILE`, `WEB_ENABLED`, and `TUNING_CONFIG`. The kernel side
(`appopt-ebpf`) shares two maps and a ring buffer with the main loop.

| component | state | operations | what is hard | what makes it correct |
|---|---|---|---|---|
| Configuration reload: `config.rs`, parts of `main.rs`, `web.rs` | file, inotify watch, last modification time, `CURRENT_CONFIG`, `CONFIG_UPDATED` | loader round, rewatch, polling, reload from the web, change of path, swap and fetch | two reloaders at once, editors that replace the file, coarse clocks | the last edit takes effect; no update is missed by the main loop |
| Engine selection: `main.rs` | engine loaded or not, give-up flag, retry timer | initialise, overflow, reload, fall back, retry, switch mode | mode changed by the web in the middle of an attempt; early `continue`s | the engine in use has searched with the current configuration |
| Proc engine: `proc_mode.rs`, `apply_affinity.rs` | cache, counts, `scan_all_proc`, tracked pids | `cache_sync`, `proc_scan`, `affinity_sync` | `/proc` changes while it is walked | targets are found, ended ones forgotten, affinities kept |
| eBPF engine: `ebpf_mode.rs`, `appopt-ebpf/src/main.rs`, `cache.rs` | cache, `APPLIED_MAP`, whitelist, ring buffer | four tracepoints, `full_scan`, `event_dispatch`, `affinity_check` | events race the scan; lost events; tasks that end at any point | managed tasks are marked in the kernel, the dead are not |
| Web requests: `web.rs`, `rule_edit.rs`, `tuning.rs` | two files, `TUNING_CONFIG`, three locks | rule edits, clone, tuning save | two files per request, failing writes, kills, edits by hand | a clone is all or nothing; what is in force is on disk |
| Settings: `web.rs`, `main.rs` | `AppOpt.json`, the settings in force | load, command line, request, save | savers on two threads, damaged files, restarts | the file says what is in force; a restart restores it |
| Rule text editor and parser: `rule_edit.rs`, `config.rs` | the lines of `applist.conf` | scan, normalise, six edits, load | editor and parser have to agree on what a line means, over edits of edits | an edit changes the rules it names and no others, its answer is true, the file stays fit for the next one |
| Process cache and placement: `cache.rs`, `rule_match.rs`, `apply_affinity.rs` | cache entries, CPUs and cpuset of each task | `task_apply`, `affinity_sync`, `thread_affinity`, `affinity_set` | a move to another cpuset resets the CPUs; renames between look-up and call | a task gets the CPUs and the cpuset of the rules for its name |
| Tuning application: `tuning.rs` | `TUNING_CONFIG`, groups, clamps, nice values | validate, merge, `apply_task`, `reapply_thread` | rules that override each other in part, values read before they are written | later rules override earlier ones field by field; the app is in its memory group |
| CPU sets: `cpuset.rs` | directories below `/dev/cpuset` | format, parse, tiers, base and rule directories | numeric edges, directories that cannot be made, a base that is renamed | a set is what its text is read as |
| Front end, suggestions, packaging | PID file | start, stop | double start | not modelled |

## 2. The modules

Each component has a module, an `MC` module that gives its constants their
values, one `.cfg` per run and, where something is proved, a `Proofs` module.
Steps in which another thread, the kernel, an editor or a kill may interfere are
separate actions; what a thread does between two such points is one action.

**`ConfigReload`** (abstract specification: **`HotConfig`**). The file is reduced
to the number of the write that produced it and its modification time; the
tuning store to the number of its saves. `ConfigReloadStep(r)` is `config_reload`
for a reloader `r` (the loader or a web thread): file name, `stat`, read, the two
snapshots of the tuning store, publish, flag, each a step of its own. The
`Loader` actions are the rounds of `config_loader` with inotify events, rewatch and polling;
`External` is an editor that writes in place, replaces or removes the file;
`Main` swaps the flag and then fetches. Two more switches, `StartupEdits` and `FineClock`,
say whether the file may change before the watch exists and whether every write
has a modification time of its own. `HotConfig` says what the main loop is promised: the
configuration may be replaced at any moment, and the loop does not rest on an old
one; `ConfigReload` implements it with `cur <- current`.

**`Engine`**. The main loop from the swap of the flag to the end of the round,
with every early `continue`; the web stores the mode and clears the give-up flag
in two steps, as `config_set_api` does; the kernel may refuse or accept the
program; the ring reader may die; `Big` is the set of configurations that do not
fit in the whitelist, `MapFaults` lets map updates fail. What an engine does with
a configuration is reduced to which configuration it last searched with.

**`ProcScan`**. Processes, threads and their names change in `Device`; `Loop` is
`cache_sync`, the walk of `/proc` pid by pid, and `affinity_sync`. The kernel's
task count is the number of live threads, as `sysinfo` counts. A run looks at
several devices (`Worlds`), chosen in the initial state: `tasks` are the processes
and threads there may be, `exits` lets them end and their numbers be used again,
`lateNames` lets a process get its name after the fork.

**`EbpfTrack`**. `Kernel` has fork, rename, exec and exit with the filters and
marks of the tracepoint programs and the ring buffer, where events may be
dropped; `Loop` is the main loop's side with `full_scan` and
`event_apply` cut at each access to the map, to `/proc` or to the scheduler. A
process has a main task 1 and `Workers`; `ThreadName` is the name a worker takes. A
world says how many workers and events there may be (`workers`, `room`), whether tasks
end (`exits`), a full queue drops events (`drops`), an app may start threads before
its main thread is managed (`hasty`), configurations change (`rescans`), the package
name is found by `cmdline` only (`longName`), and whether the rules set affinity or
only tuning (`affinity`).

**`RuleFile`**, **`RuleEdit`** (abstract specification: **`RuleTable`**). `RuleFile` is
the text of `applist.conf` as lines and `load_config` line by line: a line is a
record of what its two readers (`parse_outer` outside a block, `split_rule_line`
inside) can tell apart, its name, spec, braces and comment. `RuleEdit` is
`target_scan`, `normalize_singles` and the six requests over them (`rule_upsert`,
`rule_delete`, `rule_delete_pkg`, `rule_rename`, `rule_clone`, with `file_write` that
may fail), each on the file the last one left. `RuleTable` is what the web API
promises, a table from packages and threads to CPUs; on a tidy file every step of
`RuleEdit` is a step of it. A file is tidy when the loader has nothing to complain
of, no comment stands where a brace would be put, and a package's own rule is on the
first line that names it.

**`CpuSet`**. `to_range_string` with its words and its open range, `parse_cpu_ranges`,
`parse_cpu_spec` and `detect_core_types`; a text is the sequence of its parts.

**`TaskApply`** (extends `CpuSet`). One app with its main thread and one worker; what
either engine does to one task. `TakeUp` looks up the rule (`thread_affinity`) and the
tuning, makes the directory and sets the memory group; `Act` writes clamps and nice
value (`apply_thread_tune`) and goes through the end of `task_apply`, or one task of
`affinity_sync`, to `affinity_set`. In between the app renames its worker and sets
CPUs and nice values itself, the system moves tasks to its own cpuset, and web
requests replace the file, the tuning document and the name of the base cpuset. A
world fixes the files, documents, names and faults. Two assumptions are about the
kernel: a task that is attached to a cpuset (v1) gets the CPUs of the cpuset, and
`sched_setattr` refuses a lower clamp above the upper one. Tiers are assumed to be
among the CPUs present. How a reload gets to the main loop is `ConfigReload`, which
events are filtered or lost is `EbpfTrack`: here a reload publishes in one step and
every rename is an event.

**`WebStore`**. Both documents are functions from packages to the value of each
kind of rule, the thread rules of a package counting as one value. An entry of
`applist.conf` also says whether the package has a block, because the editor
leaves empty blocks behind; a file as a whole is fine, has an unclosed block, or
is not UTF-8. A request is a record; `Lock`, `Check`, `CheckTuning`, `Read`,
`Write`, `Tuning`, `Save`, `Install`, `Done` follow the handlers of `web.rs` through
the locks of `web.rs` and `tuning.rs`. A file write is one step because the code writes
a temporary file, syncs it and renames it. `Restart` is a kill at any point
followed by `load_file`.

**`Settings`**. `Start` reads `AppOpt.json`, applies the command line and stores
the result; `WebStart`, `Snapshot` and `Save` are the rest of the start on the main thread;
`Request`, `SetMode`, `SetInterval`, `SetPath`, `WebSnapshot`, `WebSave` are one
web request. `Kill` ends a life at any point, `HandEdit` changes the file between
two lives. The reading of the settings by `settings_save` is one step: since a
request stores them one at a time, in steps of their own, the mixtures it can see
are those a step between two stores can see.

The modules do not share variables: each stands for what the others see of it by
one or two actions of its environment (`PublishConfig` in `Engine`, `NewConfig` in
`ProcScan` and `EbpfTrack`, `SetMode` in `Engine`), whose freedom is at least
that of the module they stand for.

## 3. The runs

Runs that pass:

| run | question | bounds |
|---|---|---|
| `config_edit` | is any update or edit missed while editors, the loader and web threads interleave? | 2 writes after the start, 1 tuning save, one path |
| `config_path` | the same while the path changes; does the last content of the chosen file take effect, and is `HotConfig` implemented, fairness included? | 1 write after the start, two paths, any number of changes of path |
| `engine_switch` | is the engine in step through every switch, overflow and reload, is forced `/proc` obeyed, does forced eBPF keep trying? | 3 configurations, the second too big |
| `proc_devices` | is every target found while nothing ends? are ended processes forgotten and affinities kept, with exits, reuse of numbers and late names? | two devices: 3 processes of up to 2 threads; 2 processes of one |
| `ebpf_devices` | is every live cached task marked or about to be, has every mark an owner, do the threads of managed tasks become managed, are the dead forgotten although events are lost? | three devices: 1 worker, everything in any order; 2 workers, nothing ends; 1 worker, lost events, tuning rules only |
| `store_clone` | is a refused request without effect, do clones make two documents agree and overwrite nothing, is what is in force on disk, through failures, kills and edits by hand? | 2 connections, 2 packages, 3 requests, 1 edit by hand |
| `rules_edit` | does a request do to the loaded rules what it names and nothing else, is its answer true, does it leave the file fit for the next one? | 2 packages, 1 thread; every file of 3 lines, one request; files of up to 4 lines in every way to write an entry, two requests |
| `task_apply` | does a task get the CPUs, cpuset, clamps, nice value and memory group of the rules for its name, through renames, replaced documents, a renamed base and directories that cannot be made? is a set what its text is read as? | ten devices: 2 threads, 2 events, 3 CPUs in words of 2 bits, at most 3 files or documents each |
| `settings_keep` | does the file say what is in force, and does a restart restore it? | 2 requests per life, any number of lives |

In `ConfigReload` two writes come before the start, so that another path may
hold an older file. Two more are the shortest sequence in which a
reader has read one version, a second is published and a third arrives; for a
change of path one is enough, an edit of the file that is, or was, chosen. Two
reloaders or two connections are enough for every race between a holder of a lock
and one that waits, as all threads of a kind run the same code. Two packages are
the source and the target of a clone; three requests are the longest sequence the
interesting race takes: one to give the source a rule, a clone, and a save
between the two halves of the clone. A target process with one worker, and two on
the second device of `ebpf_devices`, is what a fork by a worker takes. Three lines
hold a package line, a rule and a brace in any order; two packages are the two
sides of a rename or a clone. Four are needed for a brace that nothing stands before
to come to stand behind a name: `a`, `b=1`, `{`, `t=4` becomes, when the rule of `b` is
deleted, a block of `a` that holds `t=4`. `OthersKept` leaves files with such a brace
out, and the four-line files of names, rules and lone braces are checked as well. The
lines of the broken files are every kind of line there is, single lines with an opening
brace, a closing brace or both among them. CPUs 0, 1 and 3 in words of two bits give a range,
a gap, a full word and the border between two words; with all sets of four CPUs,
`TextReadsBack` is exhaustive for that size. The worlds of `task_apply` each turn on
what one question needs, because all of it at once is out of reach. In `engine_switch` the
third configuration fits again, so that the engine has to come back into step
after an overflow. The clone properties are stated up to the first edit by hand:
no lock covers other programs.

`CHECK_DEADLOCK FALSE` is used for `ConfigReload`, `WebStore` and `RuleEdit`
only, where the system rests when nobody edits a file or sends a request.

Fairness. Weak fairness is assumed of the loader, of the main loop, of a web
request in progress and of timers: threads are scheduled and every wait of theirs
has a timeout (`poll`, `recv_timeout`, `sleep`). None is assumed of editors,
browsers, apps or the kernel's willingness to load a program. `EbpfTrack` assumes strong
fairness of the end of the event loop with the check due: events do
come to an end now and then, which `main.rs:324` does not enforce (a hazard);
where the property depends on it, it is stated as its hypothesis.

Three runs show a disagreement between the code and what its comments and
documents say (`findings` in `PROJECT.json` has the lines):

| run | what the counterexample shows |
|---|---|
| `config_overlap` | a web edit's reload and the loader's overlap: the older content is published last, and the loader, which remembers the newer modification time, never loads it again |
| `engine_retry_lost` | an attempt begun earlier sets the give-up flag that the user has just cleared |
| `rules_missing` | a thread rule is deleted, or a package cloned, that the answer says does not exist while it is loaded: a comment behind the package line has swallowed the brace that the editor put there, or the rule of the package is not on the first line that names it |

`FileTakesEffect` therefore holds in `config_path`, where the web changes the path
and does not edit, and fails in `config_overlap`, where it edits.

Of the editor the model shows five things: `normalize_singles` puts ` {` behind the
comment of a standalone package line (`rule_edit.rs:234`), where it is no brace;
deleting and updating a package's own rule look at its first package line only
(`rule_edit.rs:529`); `rule_delete_pkg` may leave the pending name of a block whose
brace it took (`rule_edit.rs:554`); a thread line that opens a block, once moved,
becomes a bare head that hides a later rule of the package; and a single line that a
closing brace stands behind, `a{t}=3 }`, which the loader refuses, keeps that brace
when it is moved or copied (`rule_edit.rs:203`, `:331`) and ends the block it comes
into. The tidy files of `rules_edit` are those without the first two; in a tidy file
the last cannot stand outside a block.

Seventeen more configurations are kept for the defects the hazards of `PROJECT.json`
describe. Each checks one property that the modules state and the code breaks, and
TLC finds the counterexample within a minute; they are not part of the runs.

| configuration | property | what the counterexample shows |
|---|---|---|
| `ConfigReload_tuning` | `TuningTakesEffect` | a loader that read the tuning store early publishes after the web thread: a saved tuning has no effect |
| `ConfigReload_coarse` | `FileTakesEffect` | in polling mode a second write in one clock tick is never loaded |
| `ConfigReload_startup` | `FileTakesEffect` | an edit between the first load and the watch is not noticed |
| `Engine_fallback` | `SettlesInStep` | after a second overflow the round ends with the change consumed and nothing scanned |
| `ProcScan_missed` | `LaunchNoticed` | a launch balanced by exits is not found, even though the count was seen to rise |
| `EbpfTrack_leak` | `DeadUnmarked` | a RENAME of an ended task leaves its mark for good |
| `EbpfTrack_filtered` | `RenamePasses` | a child that passes by the whitelist is not marked, its rename is filtered |
| `EbpfTrack_names` | `NamesFollowed` | a rename inside the window of a full scan is lost |
| `WebStore_garbled` | `EditKeepsOthers` | an edit of a file that is not UTF-8 discards all other rules |
| `WebStore_empty` | `ConflictMeansRules` | an empty block left by a deletion blocks clones |
| `Settings_race` | `SavedIsInForce` | the start-up save overwrites the first request's |
| `Settings_interval` | `RestartKeeps` | an interval above 3600 does not survive a restart |
| `Settings_bind` | `WebStaysEnabled` | one failed bind disables the web server in the file |
| `RuleEdit_comment` | `OnlyNamed` | the swallowed brace turns thread rules into package rules of packages nobody named |
| `RuleEdit_closed` | `OnlyNamed` | a closing brace behind a single line ends the block the line is moved into: `a{t}=3 }`, `a{b}=4` becomes, when `t` of `a` is set, a block of `a` that ends behind `t`, and a package rule of `b` |
| `TaskApply_once` | `PlacedAtOnce` | one pass of `affinity_set` leaves a task with the CPUs of the cpuset it was just moved to, as the CPUs were compared before the move |
| `TaskApply_nice` | `OwnNiceKept` | a rule with clamps only writes back the nice value it read, over one the app has set since |

## 4. The proofs

| theorem | says | argument |
|---|---|---|
| `ConfigReloadProofs!TypeCorrect` | `TypeOK` always | inductive as it stands |
| `ConfigReloadProofs!NoUpdateMissed` | `NoMissedUpdate` | whoever publishes raises the flag afterwards; the loop takes the flag before it fetches. The strengthening says for each place of each thread whether the flag is up, is about to be raised, or the loop has the current configuration |
| `ConfigReloadProofs!MtimeShortcutSound` | `MtimeSound` | modification times are handed out in order when the clock is fine, so a time remembered stands for one version |
| `ConfigReloadProofs!ReloadImplementsHotConfig` | every step of `ConfigReload` is a step of `HotConfig` or a stutter | case by case under the type invariant |
| `ConfigReloadProofs!EveryEditNoticed` | `NothingUnnoticed`, when nobody edits between the first load and the watch (`StartupEdits = FALSE`) | `Noticed`: the path is being changed, or the watched file was lost and a poll is due, or the watch is on the file and an unread write is in its queue; `ReadsForced` says whose reading a forced reload is |
| `EngineProofs!EngineTypes` | `TypeOK` always | inductive |
| `EngineProofs!StaysInStep` | `InStep` when maps do not fail, whichever configurations outgrow the whitelist | for each place in the round, what the engine has searched with, or that the round will search, or that the current configuration does not fit; `Engine_fallback.cfg` shows why `InStep` leaves those out |
| `WebStoreProofs!RefusedUntouched` | `AllOrNothing`, for any number of connections, requests and edits | `StoreInv`: a handler past its first line holds the mutation lock, so what `clone_app_check` let pass, `clone_app` cannot refuse |
| `WebStoreProofs!InForceIsSaved` | `TuningDurable` | same invariant: at `install` the disk holds the handler's document, and no one else is there |
| `WebStoreProofs!StoreTypes` | `TypeOK` always | inductive |
| `WebStoreProofs!ClonesAgree` | `CloneFaithful`: a clone answered with success made the target what the source was, as long as nobody edits by hand | `StoreInv` with what a clone has read and written at each place |
| `WebStoreProofs!ClonesOnlyAdd` | `CloneOnlyAdds`: a step of a clone changes only the rules of its target, which it found empty | step by step from the same invariant |
| `SettingsProofs!SavedAtRest` | `SavedIsInForce` if no request comes before the start-up save | a snapshot is still what is in force when it is written; `Settings_race.cfg` shows that the hypothesis is needed |
| `SettingsProofs!SettingsTypes` | `TypeOK` always, whatever is read from a damaged file | inductive |
| `SettingsProofs!RestartRestores` | `RestartKeeps`, under the hypothesis of `SavedAtRest` and intervals that the file may hold | what `from_json` makes of a saved snapshot is the snapshot |
| `EbpfTrackProofs!TrackTypes` | `TypeOK` always | inductive |
| `EbpfTrackProofs!ManagedAreMarked` | `CachedMarked`, when no event is dropped | `MarksInv`, with what `full_scan` has still to visit, what is in hand and which EXIT events are queued |
| `EbpfTrackProofs!NoMarkLeftBehind` | `MarksHaveOwners`, of a package without affinity rules | same invariant: who is going to remove a mark; `EbpfTrack_leak.cfg` shows why affinity rules are left out |
| `ProcScanProofs!ScanTypes` | `TypeOK` always | inductive |
| `ProcScanProofs!TargetsShow` | `NoneForgotten`: while nothing ends, a target that is not tracked shows in both counts | `GrowInv` names the sets of tasks and processes that a round has counted: the counts are their sizes, the sets only grow, and what is not in them is not tracked |
| `TaskApplyProofs!AppInItsGroup` | `InItsGroup`, for any documents, rules, names and CPUs | a reload or a save is followed by a walk that comes to the main thread, or has one under way |
| `TaskApplyProofs!TextsReadBack`, `NamesReadBack` | every set of CPUs is what its text is read as, for every width and number of words; so `TextReadsBack` | `Written`: after each bit the parts written and the open range are the bits seen, in order and with gaps between |
| `TaskApplyProofs!ApplyTypes` | `TypeOK` of `TaskApply` | `AllInv`: every rule, result and cache entry has CPUs, all present, and a directory named for them; every directory is named for a set and has its base |
| `TaskApplyProofs!CpusetsAgree` | `CpusetAgrees` | same invariant, and `TextsReadBack` |
| `TaskApplyProofs!TwoPassesPlace` | `PlacedInTwo` | `PassInv`: after one pass a task is in its cpuset, and the second, which moves nothing, gives it its CPUs |
| `TaskApplyProofs!RuleOfOwnName` | `RuleOfItsName` | `NamesInv`: what is queued behind worker 2's last exit are names it has had since, what is cached or in hand for it is of this life once that exit has been handled, and `updated` covers every configuration that was not scanned for |
| `TaskApplyProofs!LastRulesTune` | `TunedByLastRules` | `KnobsInv`: a task marked as tuned has the clamps and nice value that the last of the rules for its name give, field by field; `MergedLast` says that of the merged rules |
| `RuleEditProofs!EditTypes` | `TypeOK` of `RuleEdit`: the file stays a sequence of lines | inductive; each function of the editor is a `Replace` of some lines by a few others |
| `RuleEditProofs!EditOthersKept` | `OthersKept`: a request never changes the rules in force of a package it does not name, for any names, specs and requests and any files without the three defects that the property leaves out | the loader runs over the old and the new file at once (`WatchReplace`) and the two readers stay `Near`: inside a block or outside both, and with the same rules of every other package; see below |

Most invariants checked by TLC are not inductive: they speak of the places where
a property is visible, the strengthenings of how it gets there. The proofs rest on
the named assumptions on the constants, which TLC evaluates on every run.
`TextsReadBack` is a hypothesis of none of them: it is proved of the folds that
write a set.

`EditOthersKept` is about tidy files and about broken ones: blocks that are never
closed, packages with several blocks, superfluous closing braces. What an edit
replaces is chosen by `target_scan`, what is in force is what `load_config` reads, and
the two readers are different programs; the proof shows first that they agree line by
line on where a block begins and whose it is (`ScanAgrees`, `LocsAre`, `BlockFound`,
`HeadFound`). Then it follows each request through its rounds of edits. Between the
edits of `rule_delete_pkg` the readers of the old and the new file may even disagree
on whether they are in a block (`Bridge`): that is so only where the lines passed by
hold no rules of others. The three defects that `OthersKept` leaves out have to be left
out: `RuleEdit_comment.cfg` shows the comment that swallows a brace (`Trap`), a brace
that opens nothing opens a block once the lines between it and a name are deleted
(`Stray`), and `RuleEdit_closed.cfg` shows the closing brace behind a single line of a
package that the request names (`Shut`); behind the single lines of other packages, which
no request moves, it is no matter. That the file is in force (`loaded` is what the loader reads from
`file`) is an invariant of its own, used at each step.

Induction over data is done with sets. The prover cannot use the induction
theorems of the library, which take an operator as a parameter; `NatSet` (from
`WFMin`: every set of numbers has a least one) says that a set with 0 and every
successor in it is all of Nat, and that is enough to show that a fold or a recursive
function has the values its equation gives it, and then what these values are.

Left to TLC alone: everything under fairness (`FileTakesEffect`, `Discovered`,
`GoneForgotten`, `KeptInPlace`, `ThreadsFollow`, `DeadForgotten`, `ProcForced`,
`ForcedKeepsTrying`) and `HotSpec`'s liveness half; of `RuleEdit`, that an
edit does to the rules it names what `RuleTable` promises (`EditsKeepPromises`), and
that it leaves a tidy file tidy (`StaysTidy`).

## 5. Not modelled

- Names that hold an equals sign or a brace, empty names, a closing brace inside a
  comment or on a line that is not a rule; the glob matcher (which names a pattern
  matches is a constant of `TaskApply`).
- The control files of a memory group and the resolution of its path; the warnings
  shown in the page, which web and main threads exchange under their own lock
  (`tuning.rs:100`).
- The reading of `/sys` and `/proc` themselves: an unreadable `/proc`, a task total
  of 16 bits (`proc_mode.rs:57`), a process that is renamed before its command line
  is set.
- Overflow of the inotify queue and eviction from the LRU map of marks.
- HTTP parsing, suggestions, status: they change nothing.
- Loading of the eBPF object and of tracepoint offsets.
- Two daemons at once: `service.sh` starts one, checked by a PID file.

## 6. Plan

1. Done: `ConfigReload`, `Engine`, `ProcScan`, `EbpfTrack`, `WebStore`, `Settings`.
2. Done: `RuleFile`, `RuleEdit` and `RuleTable`; `CpuSet` and `TaskApply`.
3. Done: the invariants of every module, and that edits of the rules file leave other
   packages alone.
4. Open: `EditsKeepPromises` and `StaysTidy` as theorems, with `ScanAgrees` and
   `WatchReplace` as their base; the composition of `Engine` with `ProcScan`, the
   fallback and the retry with the cache that survives them; eviction and queue
   overflow as faults of `EbpfTrack` and `ConfigReload`.
