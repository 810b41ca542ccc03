---------------------------- MODULE ConfigReload ----------------------------
(***************************************************************************)
(* Hot reload of applist.conf (config.rs, main.rs, web.rs).                *)
(*                                                                         *)
(* The ConfigLoader thread follows the file through inotify, or polls its  *)
(* modification time; a web request edits the file (or the tuning store)   *)
(* and reloads from its own thread; both run config_reload and publish     *)
(* into CURRENT_CONFIG, then raise CONFIG_UPDATED; the main loop takes the *)
(* flag first and the configuration second.  The file may also be written, *)
(* replaced or removed behind the program's back.                          *)
(*                                                                         *)
(* The content of the file is abstracted to the number of the write that   *)
(* produced it, the tuning store to the number of its saves.               *)
(***************************************************************************)
EXTENDS Integers, FiniteSets

CONSTANTS
  Paths,        \* the paths a configuration file may have
  StartPath,    \* the one the program is started with
  NoPath,       \* no path
  MaxWrites,    \* bound: writes to any file, two of them before the start
  MaxTuning,    \* bound: saves of the tuning store
  WebOps,       \* which web operations may be called
  FineClock,    \* every write gets a modification time of its own
  StartupEdits  \* the file may be edited before the watch is installed

ASSUME PathsAssumption == StartPath \in Paths /\ NoPath \notin Paths
ASSUME BoundsAssumption == MaxWrites \in Nat \ {0, 1} /\ MaxTuning \in Nat
ASSUME WebOpsAssumption == WebOps \subseteq {"edit", "tuning", "path"}
ASSUME FlagsAssumption == FineClock \in BOOLEAN /\ StartupEdits \in BOOLEAN

VARIABLES
  disk,         \* path -> what the file holds and when it was modified
  writes, now,  \* number of writes so far; the clock of the file system
  hold,         \* the inode an external editor has open for writing
  watch,        \* the inode the inotify watch is on
  evq,          \* the kinds of inotify events not yet read
  configFile,   \* CONFIG_FILE
  forceReload,  \* FORCE_RELOAD
  supported,    \* INOTIFY_SUPPORTED
  tuning,       \* TUNING_CONFIG
  current,      \* CURRENT_CONFIG
  updated,      \* CONFIG_UPDATED
  rd,           \* the locals of config_reload and load_config, per thread
  lpc,          \* where the ConfigLoader is in its loop
  web,          \* "force": config_set_api is about to set FORCE_RELOAD
  main,         \* where the main loop is
  changed,      \* its local config_changed
  acted,        \* the configuration it last rescanned with
  boot          \* "loaded": before init_inotify; "up": every thread runs

fileVars == <<disk, writes, now>>
inodeVars == <<hold, watch, evq>>
pubVars == <<current, updated>>
mainVars == <<main, changed, acted>>
vars == <<fileVars, inodeVars, configFile, forceReload, supported, tuning,
          pubVars, rd, lpc, web, mainVars, boot>>

-----------------------------------------------------------------------------
Reloaders == {"loader", "web"}

Unset == -1                               \* last_mtime of a forced read
Absent == [ver |-> 0, mtime |-> 0]

Files == [ver : 0..MaxWrites, mtime : 0..MaxWrites]
Inodes == [path : Paths, at : {"linked", "orphan"}]
            \cup {[path |-> NoPath, at |-> "none"]}
AppConfigs == [ver : 1..MaxWrites, pkgs : 0..MaxTuning, threads : 0..MaxTuning]
Locals == [pc : {"idle", "file", "stat", "read", "pkgs", "threads",
                 "publish", "flag"},
           path : Paths, last : Unset..MaxWrites, mtime : 0..MaxWrites,
           ver : 1..MaxWrites, pkgs : 0..MaxTuning, threads : 0..MaxTuning]

TypeOK ==
  /\ disk \in [Paths -> Files]
  /\ writes \in 1..MaxWrites
  /\ now \in 1..writes
  /\ hold \in Inodes
  /\ watch \in Inodes
  /\ evq \subseteq {"write", "gone"}
  /\ configFile \in Paths
  /\ forceReload \in BOOLEAN
  /\ supported \in BOOLEAN
  /\ tuning \in 0..MaxTuning
  /\ current \in AppConfigs
  /\ updated \in BOOLEAN
  /\ rd \in [Reloaders -> Locals]
  /\ lpc \in {"top", "force", "cycle", "wait", "rewatch"}
  /\ web \in {"idle", "force"}
  /\ main \in {"swap", "fetch"}
  /\ changed \in BOOLEAN
  /\ acted \in AppConfigs
  /\ boot \in {"loaded", "up"}

Present(p) == disk[p].ver # 0
NoInode == [path |-> NoPath, at |-> "none"]
Linked(p) == [path |-> p, at |-> "linked"]
Orphan(p) == [path |-> p, at |-> "orphan"]
Up == boot = "up"

Idle(path, last, ver) ==
  [pc |-> "idle", path |-> path, last |-> last, mtime |-> 0, ver |-> ver,
   pkgs |-> 0, threads |-> 0]

(* main has read the file (load_config), published the result and is about *)
(* to install the inotify watch.  Another path may name an older file.     *)
Init ==
  \E q \in Paths :
    LET first == [ver |-> 2, pkgs |-> 0, threads |-> 0]
    IN /\ disk = [p \in Paths |-> IF p = StartPath THEN [ver |-> 2, mtime |-> 2]
                                  ELSE IF p = q THEN [ver |-> 1, mtime |-> 1]
                                  ELSE Absent]
       /\ writes = 2 /\ now = 2
       /\ hold = NoInode /\ watch = NoInode /\ evq = {}
       /\ configFile = StartPath
       /\ forceReload = FALSE /\ supported = FALSE
       /\ tuning = 0
       /\ current = first /\ updated = TRUE
       /\ rd = [r \in Reloaders |-> Idle(StartPath, Unset, 2)]
       /\ lpc = "top" /\ web = "idle"
       /\ main = "swap" /\ changed = FALSE /\ acted = first
       /\ boot = "loaded"

-----------------------------------------------------------------------------
(* Files, inodes and the events of the watch.                              *)

(* p gets new content; a coarse clock may give two writes the same time.   *)
Stamp(p) ==
  /\ writes < MaxWrites
  /\ writes' = writes + 1
  /\ now' \in IF FineClock THEN {now + 1} ELSE {now, now + 1}
  /\ disk' = [disk EXCEPT ![p] = [ver |-> writes + 1, mtime |-> now']]

(* p's inode loses its name.  The kernel reports IN_DELETE_SELF (a moved   *)
(* file: IN_MOVE_SELF) once nobody has the inode open.                     *)
Unlink(p) ==
  /\ hold' = IF hold = Linked(p) THEN Orphan(p) ELSE hold
  /\ IF watch # Linked(p)
     THEN UNCHANGED <<watch, evq>>
     ELSE IF hold = Linked(p)
          THEN watch' = Orphan(p) /\ UNCHANGED evq
          ELSE watch' = NoInode /\ evq' = evq \cup {"gone"}

(* add_watch puts the watch on the file CONFIG_FILE names; it may fail     *)
(* although the file is there.                                             *)
AddWatch ==
  /\ Present(configFile)
  /\ watch' = Linked(configFile)
  /\ UNCHANGED <<hold, evq, supported>>

(* disable_inotify: back to polling, the queue goes with its descriptor.   *)
DisableInotify ==
  /\ supported' = FALSE
  /\ watch' = NoInode
  /\ evq' = {}
  /\ UNCHANGED hold

InotifyRewatch == AddWatch \/ DisableInotify

-----------------------------------------------------------------------------
(* External writers: an editor that writes in place, one that replaces the *)
(* file by a new one, a removal.                                           *)

MayEdit == Up \/ StartupEdits

ExtWrite(p) ==
  /\ MayEdit
  /\ hold.at = "none" \/ hold = Linked(p)
  /\ Stamp(p)
  /\ hold' = Linked(p)
  /\ UNCHANGED <<watch, evq, configFile, forceReload, supported, tuning,
                 pubVars, rd, lpc, web, mainVars, boot>>

(* IN_CLOSE_WRITE, followed by IN_DELETE_SELF when the inode has no name.  *)
ExtClose ==
  /\ MayEdit
  /\ hold.at # "none"
  /\ hold' = NoInode
  /\ IF watch # hold
     THEN UNCHANGED <<watch, evq>>
     ELSE IF hold.at = "linked"
          THEN evq' = evq \cup {"write"} /\ UNCHANGED watch
          ELSE evq' = evq \cup {"write", "gone"} /\ watch' = NoInode
  /\ UNCHANGED <<fileVars, configFile, forceReload, supported, tuning, pubVars,
                 rd, lpc, web, mainVars, boot>>

ExtReplace(p) ==
  /\ MayEdit
  /\ Stamp(p)
  /\ Unlink(p)
  /\ UNCHANGED <<configFile, forceReload, supported, tuning, pubVars, rd, lpc,
                 web, mainVars, boot>>

ExtRemove(p) ==
  /\ MayEdit
  /\ Present(p)
  /\ disk' = [disk EXCEPT ![p] = Absent]
  /\ Unlink(p)
  /\ UNCHANGED <<writes, now, configFile, forceReload, supported, tuning,
                 pubVars, rd, lpc, web, mainVars, boot>>

External == \/ \E p \in Paths : ExtWrite(p) \/ ExtReplace(p) \/ ExtRemove(p)
            \/ ExtClose

-----------------------------------------------------------------------------
(* config_reload, run by the loader and, at the same time, by a web        *)
(* request: each step takes one lock or makes one system call.             *)

(* The locals of thread r once it has called config_reload.                *)
Calling(r, last) == [rd EXCEPT ![r] = [@ EXCEPT !.pc = "file", !.last = last]]

Forgetting(r) == [rd EXCEPT ![r] = [@ EXCEPT !.last = Unset]]

Goto(r, pc) == rd' = [rd EXCEPT ![r] = [@ EXCEPT !.pc = pc]]

(* The locals go out of scope; the loader keeps its last_mtime (and, for   *)
(* the properties, what it read when).                                     *)
Return(r) ==
  rd' = [rd EXCEPT ![r] = IF r = "web" THEN Idle(configFile, Unset, 1)
                                       ELSE Idle(@.path, @.last, @.ver)]

ReadPath(r) ==
  /\ rd[r].pc = "file"
  /\ rd' = [rd EXCEPT ![r] = [@ EXCEPT !.pc = "stat", !.path = configFile]]
  /\ UNCHANGED pubVars

(* The file is gone, or its modification time is the one last read.        *)
Unmodified(r) ==
  LET file == disk[rd[r].path]
  IN file.ver = 0 \/ (rd[r].last = file.mtime /\ rd[r].last # Unset)

StatFile(r) ==
  /\ rd[r].pc = "stat"
  /\ IF Unmodified(r)
     THEN Return(r)
     ELSE rd' = [rd EXCEPT ![r] = [@ EXCEPT !.pc = "read",
                                            !.mtime = disk[rd[r].path].mtime]]
  /\ UNCHANGED pubVars

(* Mutant: a file that cannot be read is taken for one without rules.      *)
ReadFileOrDefault(r) ==
  /\ rd[r].pc = "read"
  /\ rd' = [rd EXCEPT ![r] = [@ EXCEPT !.pc = "pkgs", !.last = rd[r].mtime,
                                       !.ver = disk[rd[r].path].ver]]
  /\ UNCHANGED pubVars

(* Nothing is remembered of a file that cannot be read.                    *)
ReadFile(r) ==
  /\ rd[r].pc = "read"
  /\ IF ~Present(rd[r].path)
     THEN Return(r)
     ELSE rd' = [rd EXCEPT ![r] = [@ EXCEPT !.pc = "pkgs",
                                            !.last = rd[r].mtime,
                                            !.ver = disk[rd[r].path].ver]]
  /\ UNCHANGED pubVars

(* Mutant: the modification time is looked up again after the parse.       *)
TakePackagesRestat(r) ==
  /\ rd[r].pc = "pkgs"
  /\ rd' = [rd EXCEPT ![r] = [@ EXCEPT !.pc = "threads", !.pkgs = tuning,
                                       !.last = disk[rd[r].path].mtime]]
  /\ UNCHANGED pubVars

(* app_package_names and thread_rule_packages lock the tuning store twice. *)
TakePackages(r) ==
  /\ rd[r].pc = "pkgs"
  /\ rd' = [rd EXCEPT ![r] = [@ EXCEPT !.pc = "threads", !.pkgs = tuning]]
  /\ UNCHANGED pubVars

TakeThreadRules(r) ==
  /\ rd[r].pc = "threads"
  /\ rd' = [rd EXCEPT ![r] = [@ EXCEPT !.pc = "publish", !.threads = tuning]]
  /\ UNCHANGED pubVars

Publish(r) ==
  /\ rd[r].pc = "publish"
  /\ current' = [ver |-> rd[r].ver, pkgs |-> rd[r].pkgs,
                 threads |-> rd[r].threads]
  /\ Goto(r, "flag")
  /\ UNCHANGED updated

RaiseFlag(r) ==
  /\ rd[r].pc = "flag"
  /\ updated' = TRUE
  /\ Return(r)
  /\ UNCHANGED current

ConfigReloadStep(r) ==
  /\ \/ ReadPath(r) \/ StatFile(r) \/ ReadFile(r) \/ TakePackages(r)
     \/ TakeThreadRules(r) \/ Publish(r) \/ RaiseFlag(r)
  /\ UNCHANGED <<fileVars, inodeVars, configFile, forceReload, supported,
                 tuning, lpc, web, mainVars, boot>>

-----------------------------------------------------------------------------
(* The ConfigLoader thread.                                                *)

LoaderAt(pc) == Up /\ lpc = pc /\ rd["loader"].pc = "idle"

(* inotify failed from the start, or the watch is on the file.             *)
InitInotify ==
  /\ boot = "loaded"
  /\ boot' = "up"
  /\ \/ supported' = TRUE /\ Present(configFile) /\ watch' = Linked(configFile)
     \/ UNCHANGED <<supported, watch>>
  /\ UNCHANGED <<fileVars, hold, evq, configFile, forceReload, tuning, pubVars,
                 rd, lpc, web, mainVars>>

LoaderTop ==
  /\ LoaderAt("top")
  /\ forceReload' = FALSE
  /\ IF forceReload
     THEN lpc' = "force" /\ rd' = Forgetting("loader")
     ELSE lpc' = "cycle" /\ UNCHANGED rd
  /\ UNCHANGED <<fileVars, inodeVars, configFile, supported, tuning, pubVars,
                 web, mainVars, boot>>

(* Mutant: the watch stays on the file of the old path.                    *)
LoaderForceNoRewatch ==
  /\ LoaderAt("force")
  /\ UNCHANGED <<inodeVars, supported>>
  /\ rd' = Calling("loader", rd["loader"].last)
  /\ lpc' = "cycle"
  /\ UNCHANGED <<fileVars, configFile, forceReload, tuning, pubVars, web,
                 mainVars, boot>>

LoaderForce ==
  /\ LoaderAt("force")
  /\ IF supported THEN InotifyRewatch ELSE UNCHANGED <<inodeVars, supported>>
  /\ rd' = Calling("loader", rd["loader"].last)
  /\ lpc' = "cycle"
  /\ UNCHANGED <<fileVars, configFile, forceReload, tuning, pubVars, web,
                 mainVars, boot>>

LoaderCycle ==
  /\ LoaderAt("cycle")
  /\ IF supported
     THEN lpc' = "wait" /\ UNCHANGED rd
     ELSE lpc' = "top" /\ rd' = Calling("loader", rd["loader"].last)
  /\ UNCHANGED <<fileVars, inodeVars, configFile, forceReload, supported,
                 tuning, pubVars, web, mainVars, boot>>

(* inotify_handle: poll times out, poll or read fails, or events are read; *)
(* a file that went away is given an interval to come back.                *)
WaitTimeout ==
  /\ LoaderAt("wait")
  /\ evq = {}
  /\ lpc' = "top"
  /\ UNCHANGED <<fileVars, inodeVars, configFile, forceReload, supported,
                 tuning, pubVars, rd, web, mainVars, boot>>

WaitError ==
  /\ LoaderAt("wait")
  /\ DisableInotify
  /\ lpc' = "top"
  /\ UNCHANGED <<fileVars, configFile, forceReload, tuning, pubVars, rd, web,
                 mainVars, boot>>

ReadEvents ==
  /\ LoaderAt("wait")
  /\ evq # {}
  /\ evq' = {}
  /\ IF "gone" \in evq
     THEN lpc' = "rewatch" /\ rd' = Forgetting("loader")
     ELSE lpc' = "top" /\ rd' = Calling("loader", Unset)
  /\ UNCHANGED <<fileVars, hold, watch, configFile, forceReload, supported,
                 tuning, pubVars, web, mainVars, boot>>

(* Mutant: the watch is renewed without reading what it now watches.       *)
RewatchOnly ==
  /\ LoaderAt("rewatch")
  /\ lpc' = "top"
  /\ AddWatch \/ DisableInotify
  /\ UNCHANGED <<fileVars, configFile, forceReload, tuning, pubVars, rd, web,
                 mainVars, boot>>

Rewatch ==
  /\ LoaderAt("rewatch")
  /\ lpc' = "top"
  /\ \/ AddWatch /\ rd' = Calling("loader", rd["loader"].last)
     \/ DisableInotify /\ UNCHANGED rd
  /\ UNCHANGED <<fileVars, configFile, forceReload, tuning, pubVars, web,
                 mainVars, boot>>

Loader == \/ LoaderTop \/ LoaderForce \/ LoaderCycle
          \/ WaitTimeout \/ WaitError \/ ReadEvents \/ Rewatch
          \/ ConfigReloadStep("loader")

-----------------------------------------------------------------------------
(* The web requests that lead to a reload; WEB_MUTATION_LOCK admits one.   *)

WebFree(op) == Up /\ op \in WebOps /\ web = "idle" /\ rd["web"].pc = "idle"

(* A rule is added, deleted, renamed or cloned: a new file takes the name  *)
(* of the old one, then config_reload_now.                                 *)
WebEdit ==
  /\ WebFree("edit")
  /\ Stamp(configFile)
  /\ Unlink(configFile)
  /\ rd' = Calling("web", Unset)
  /\ UNCHANGED <<configFile, forceReload, supported, tuning, pubVars, lpc, web,
                 mainVars, boot>>

(* tuning_set_api: the store is replaced, applist.conf is not touched.     *)
WebTuning ==
  /\ WebFree("tuning")
  /\ tuning < MaxTuning
  /\ tuning' = tuning + 1
  /\ rd' = Calling("web", Unset)
  /\ UNCHANGED <<fileVars, inodeVars, configFile, forceReload, supported,
                 pubVars, lpc, web, mainVars, boot>>

(* config_set_api with a new config_file, created when there is none.      *)
WebSetPath(p) ==
  /\ WebFree("path")
  /\ IF Present(p) THEN UNCHANGED fileVars ELSE Stamp(p)
  /\ configFile' = p
  /\ web' = "force"
  /\ UNCHANGED <<inodeVars, forceReload, supported, tuning, pubVars, rd, lpc,
                 mainVars, boot>>

WebForceReload ==
  /\ web = "force"
  /\ forceReload' = TRUE
  /\ web' = "idle"
  /\ UNCHANGED <<fileVars, inodeVars, configFile, supported, tuning, pubVars,
                 rd, lpc, mainVars, boot>>

Web == \/ WebEdit \/ WebTuning \/ \E p \in Paths : WebSetPath(p)
       \/ WebForceReload \/ ConfigReloadStep("web")

-----------------------------------------------------------------------------
(* The main loop: CONFIG_UPDATED is swapped before CURRENT_CONFIG is read. *)

MainSwap ==
  /\ Up /\ main = "swap"
  /\ changed' = updated
  /\ updated' = FALSE
  /\ main' = "fetch"
  /\ UNCHANGED <<fileVars, inodeVars, configFile, forceReload, supported,
                 tuning, current, rd, lpc, web, acted, boot>>

(* Mutant: the flag is cleared after the configuration has been taken.     *)
MainFetchClears ==
  /\ main = "fetch"
  /\ acted' = IF changed THEN current ELSE acted
  /\ main' = "swap"
  /\ updated' = FALSE
  /\ UNCHANGED <<fileVars, inodeVars, configFile, forceReload, supported,
                 tuning, current, rd, lpc, web, changed, boot>>

MainFetch ==
  /\ main = "fetch"
  /\ acted' = IF changed THEN current ELSE acted
  /\ main' = "swap"
  /\ UNCHANGED <<fileVars, inodeVars, configFile, forceReload, supported,
                 tuning, pubVars, rd, lpc, web, changed, boot>>

Main == MainSwap \/ MainFetch

Next == External \/ InitInotify \/ Loader \/ Web \/ Main

(* Threads are scheduled; nobody has to edit a file or call the web API.   *)
Fairness ==
  /\ WF_vars(InitInotify)
  /\ WF_vars(Loader)
  /\ WF_vars(ConfigReloadStep("web"))
  /\ WF_vars(WebForceReload)
  /\ WF_vars(Main)

Spec == Init /\ [][Next]_vars

FairSpec == Spec /\ Fairness

-----------------------------------------------------------------------------
(* What must hold.                                                         *)

(* main.rs swaps the flag before it takes the configuration so that no     *)
(* update is lost: between two rounds, with the flag down and no publisher *)
(* about to raise it, the loop has rescanned with the current one.         *)
NoMissedUpdate ==
  main = "swap" /\ ~updated /\ (\A r \in Reloaders : rd[r].pc # "flag")
    => acted = current

(* load_config skips a file whose modification time has not changed.  With *)
(* one time per write, a time the loader remembers for its own path is     *)
(* never the time of content it has not read.                              *)
MtimeSound ==
  LET l == rd["loader"]
  IN FineClock /\ l.last # Unset /\ Present(l.path)
       /\ l.last = disk[l.path].mtime
     => l.ver = disk[l.path].ver

(* inotify mode: when the loader is waiting and there is nothing for it in *)
(* the queue, it has read the last content of the file it watches, unless  *)
(* somebody still has the file open or a change of path is under way.      *)
NothingUnnoticed ==
  /\ LoaderAt("wait") \/ LoaderAt("top")
  /\ supported /\ evq = {} /\ ~forceReload /\ web = "idle"
  /\ hold.at = "none"
  => disk[configFile].ver \in {0, rd["loader"].ver}

(* Hot reload: once the configuration file is settled and the edits are   *)
(* over, its content, if it exists and nobody has it open, is the one      *)
(* published.                                                              *)
FileTakesEffect ==
  \A p \in Paths :
    <>[](configFile = p /\ web = "idle")
      => <>[](Present(p) /\ hold.at = "none" => current.ver = disk[p].ver)

(* web.rs reloads after a save of the tuning store so that its packages    *)
(* join the discovery whitelist: the published configuration ends up made  *)
(* from the store that was saved last.                                     *)
TuningTakesEffect ==
  <>[](current.pkgs = tuning /\ current.threads = tuning)

Hot == INSTANCE HotConfig WITH Configs <- AppConfigs, cur <- current

(* The main loop sees the configurations the way HotConfig promises:       *)
(* whatever the loader and the web thread publish, in whatever order, the  *)
(* loop rescans with the one in force and does not rest on an older one.   *)
HotSpec == Hot!Spec

(* The same without fairness, as it is proved.                             *)
HotSafety == Hot!Init /\ [][Hot!Next]_<<current, acted>>
=============================================================================
