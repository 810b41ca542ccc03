------------------------------- MODULE Engine -------------------------------
(***************************************************************************)
(* The main loop's choice between its two engines (main.rs): event-driven  *)
(* eBPF and /proc polling.  The web thread sets MODE_FORCE and clears      *)
(* EBPF_GAVE_UP at any moment; configurations are published at any moment  *)
(* (ConfigReload says how); the eBPF programs may fail to load, their      *)
(* whitelist may be too small, their reader thread may die.                *)
(*                                                                         *)
(* Configurations are numbered in the order they are published.  Of what   *)
(* an engine knows only the configuration it last searched all processes   *)
(* with is kept.                                                           *)
(***************************************************************************)
EXTENDS Integers

CONSTANTS
  MaxConfigs,   \* bound: configurations published
  Big,          \* the configurations that need more than the usual whitelist
  MapFaults     \* inserting into the whitelist may fail

ASSUME ConfigsAssumption == MaxConfigs \in Nat \ {0}
ASSUME BigAssumption == Big \subseteq 1..MaxConfigs
ASSUME FaultsAssumption == MapFaults \in BOOLEAN

VARIABLES
  current,      \* CURRENT_CONFIG
  updated,      \* CONFIG_UPDATED
  publishing,   \* a publisher is between the two
  mode,         \* MODE_FORCE: 0 automatic, 1 eBPF, 2 /proc
  gaveUp,       \* EBPF_GAVE_UP
  clearing,     \* config_set_api is between the two
  asked,        \* history: the user asked for eBPF, no attempt since
  kernel,       \* whether ebpf_init can succeed
  due,          \* 30 seconds have passed since ebpf_retry_at
  pc,           \* where the main loop is
  changed, cfg, m,  \* its locals config_changed, cfg, mode
  loaded,       \* ebpf_state is Some
  scanned,      \* the configuration its whitelist and scan are of, 0: none
  large,        \* its whitelist holds a big configuration
  alive,        \* its reader thread runs
  scanAll,      \* scan_all_proc of proc_state (TRUE as well before it is made)
  walked        \* the configuration it last searched all of /proc with

shared == <<current, updated, publishing>>
locals == <<changed, cfg, m>>
es == <<loaded, scanned, large, alive>>
proc == <<scanAll, walked>>
vars == <<shared, mode, gaveUp, clearing, asked, kernel, due, pc, locals, es,
          proc>>

-----------------------------------------------------------------------------
Configs == 1..MaxConfigs

NumbersOK ==
  /\ current \in Configs /\ cfg \in Configs
  /\ mode \in 0..2 /\ m \in 0..2
  /\ scanned \in 0..MaxConfigs /\ walked \in 0..MaxConfigs
  /\ pc \in {"boot", "load", "give", "swap", "fetch", "mode", "retry", "init",
             "map", "reinit", "work"}

FlagsOK ==
  /\ updated \in BOOLEAN /\ publishing \in BOOLEAN
  /\ gaveUp \in BOOLEAN /\ clearing \in BOOLEAN /\ asked \in BOOLEAN
  /\ kernel \in BOOLEAN /\ due \in BOOLEAN /\ changed \in BOOLEAN
  /\ loaded \in BOOLEAN /\ large \in BOOLEAN /\ scanAll \in BOOLEAN
  /\ alive \in BOOLEAN /\ (alive => loaded)

(* No reader thread outlives the engine it reads for.                      *)
TypeOK == NumbersOK /\ FlagsOK

(* The first configuration is published and the web thread runs.           *)
Init ==
  /\ current = 1 /\ updated = TRUE /\ publishing = FALSE
  /\ mode \in 0..2 /\ gaveUp = FALSE /\ clearing = FALSE /\ asked = FALSE
  /\ kernel \in BOOLEAN
  /\ due \in BOOLEAN
  /\ pc = "boot"
  /\ changed = FALSE /\ cfg = 1 /\ m = 0
  /\ loaded = FALSE /\ scanned = 0 /\ large = FALSE /\ alive = FALSE
  /\ scanAll = TRUE /\ walked = 0

-----------------------------------------------------------------------------
(* The other threads.                                                      *)

PublishConfig ==
  /\ ~publishing
  /\ current < MaxConfigs
  /\ current' = current + 1
  /\ publishing' = TRUE
  /\ UNCHANGED <<updated, mode, gaveUp, clearing, asked, kernel, due, pc,
                 locals, es, proc>>

RaiseFlag ==
  /\ publishing
  /\ updated' = TRUE
  /\ publishing' = FALSE
  /\ UNCHANGED <<current, mode, gaveUp, clearing, asked, kernel, due, pc,
                 locals, es, proc>>

SetMode(n) ==
  /\ ~clearing
  /\ mode' = n
  /\ clearing' = (n # 2)
  /\ UNCHANGED <<shared, gaveUp, asked, kernel, due, pc, locals, es, proc>>

ClearGaveUp ==
  /\ clearing
  /\ gaveUp' = FALSE
  /\ clearing' = FALSE
  /\ asked' = ~loaded
  /\ UNCHANGED <<shared, mode, kernel, due, pc, locals, es, proc>>

(* A kernel without BTF, a missing AppOpt-ebpf file, no tracepoints.       *)
KernelChanges ==
  /\ kernel' = ~kernel
  /\ UNCHANGED <<shared, mode, gaveUp, clearing, asked, due, pc, locals, es,
                 proc>>

RetryTimer ==
  /\ ~due
  /\ due' = TRUE
  /\ UNCHANGED <<shared, mode, gaveUp, clearing, asked, kernel, pc, locals, es,
                 proc>>

(* epoll fails in the reader thread: the event channel disconnects.        *)
ReaderDies ==
  /\ alive
  /\ alive' = FALSE
  /\ UNCHANGED <<shared, mode, gaveUp, clearing, asked, kernel, due, pc,
                 locals, loaded, scanned, large, proc>>

-----------------------------------------------------------------------------
(* ebpf_init sizes the whitelist by CURRENT_CONFIG, comm_map_init fills it *)
(* from the configuration of the loop and reports whether it did not fit.  *)

NewCapacity == current \in Big

(* Loading succeeds; the processes are searched with configuration c.      *)
Load(c) ==
  /\ loaded' = TRUE /\ alive' = TRUE
  /\ scanned' = c
  /\ large' = NewCapacity

(* Mutant: the state is dropped without waiting for its reader.            *)
UnloadNoJoin ==
  /\ loaded' = FALSE
  /\ scanned' = 0 /\ large' = FALSE
  /\ UNCHANGED alive

(* Drop: the reader thread is woken and joined.                            *)
Unload ==
  /\ loaded' = FALSE /\ alive' = FALSE
  /\ scanned' = 0 /\ large' = FALSE

MayFill(capacity) == cfg \in Big => capacity
MayOverflow(capacity) == ~MayFill(capacity) \/ MapFaults

(* Mutant: the /proc engine takes over with the processes it knew.         *)
TakeOverNoRescan == UNCHANGED proc

(* /proc takes over from eBPF with a search of all processes.              *)
TakeOver == scanAll' = TRUE /\ UNCHANGED walked

-----------------------------------------------------------------------------
(* Start-up: ebpf_init unless /proc is forced; MODE_FORCE is read again    *)
(* before the failure is remembered.                                       *)

BootMode ==
  /\ pc = "boot"
  /\ pc' = IF mode = 2 THEN "give" ELSE "load"
  /\ asked' = (asked /\ mode = 2)
  /\ UNCHANGED <<shared, mode, gaveUp, clearing, kernel, due, locals, es, proc>>

BootLoad ==
  /\ pc = "load"
  /\ pc' = "give"
  /\ IF kernel THEN Load(0) ELSE UNCHANGED es
  /\ UNCHANGED <<shared, mode, gaveUp, clearing, asked, kernel, due, locals, proc>>

BootGiveUp ==
  /\ pc = "give"
  /\ pc' = "swap"
  /\ gaveUp' = (gaveUp \/ (~loaded /\ mode = 0))
  /\ UNCHANGED <<shared, mode, clearing, asked, kernel, due, locals, es, proc>>

-----------------------------------------------------------------------------
(* One round of the loop.                                                  *)

MainSwap ==
  /\ pc = "swap"
  /\ pc' = "fetch"
  /\ changed' = updated
  /\ updated' = FALSE
  /\ UNCHANGED <<current, publishing, mode, gaveUp, clearing, asked, kernel, due,
                 cfg, m, es, proc>>

MainFetch ==
  /\ pc = "fetch"
  /\ pc' = "mode"
  /\ cfg' = current
  /\ UNCHANGED <<shared, mode, gaveUp, clearing, asked, kernel, due, changed, m,
                 es, proc>>

(* Mutant: eBPF stays loaded once it works.                                *)
MainModeKeepsEbpf ==
  /\ pc = "mode"
  /\ pc' = "retry"
  /\ m' = mode
  /\ UNCHANGED <<shared, mode, gaveUp, clearing, asked, kernel, due, changed, cfg,
                 es, proc>>

(* /proc forced: eBPF is unloaded and /proc searched in full.              *)
MainMode ==
  /\ pc = "mode"
  /\ pc' = "retry"
  /\ m' = mode
  /\ IF mode = 2 /\ loaded THEN Unload /\ TakeOver ELSE UNCHANGED <<es, proc>>
  /\ UNCHANGED <<shared, mode, gaveUp, clearing, asked, kernel, due, changed, cfg>>

(* Mutant: a forced mode respects the failure of the automatic one.        *)
RetryAllowedAuto == m # 2 /\ ~loaded /\ ~gaveUp /\ due

RetryAllowed == m # 2 /\ ~loaded /\ (m = 1 \/ ~gaveUp) /\ due

MainRetry ==
  /\ pc = "retry"
  /\ IF RetryAllowed
     THEN pc' = "init" /\ due' = FALSE /\ asked' = FALSE
     ELSE pc' = "map" /\ UNCHANGED <<due, asked>>
  /\ UNCHANGED <<shared, mode, gaveUp, clearing, kernel, locals, es, proc>>

(* ebpf_init, comm_map_init and full_scan of an attempt.                   *)
MainInit ==
  /\ pc = "init"
  /\ pc' = "map"
  /\ \/ kernel /\ MayFill(NewCapacity) /\ Load(cfg) /\ UNCHANGED gaveUp
     \/ /\ ~kernel \/ MayOverflow(NewCapacity)
        /\ gaveUp' = (gaveUp \/ m = 0)
        /\ UNCHANGED es
  /\ UNCHANGED <<shared, mode, clearing, asked, kernel, due, locals, proc>>

(* A new configuration refills the whitelist and rescans; when it does not *)
(* fit the programs are unloaded to be loaded again with a larger one.     *)
MainMap ==
  /\ pc = "map"
  /\ IF loaded /\ changed
     THEN \/ /\ MayFill(large)
             /\ scanned' = cfg
             /\ pc' = "work"
             /\ UNCHANGED <<loaded, large, alive>>
          \/ /\ MayOverflow(large)
             /\ Unload
             /\ pc' = "reinit"
     ELSE pc' = "work" /\ UNCHANGED es
  /\ UNCHANGED <<shared, mode, gaveUp, clearing, asked, kernel, due, locals, proc>>

(* Whatever comes of it, the loop starts its next round.                   *)
MainReinit ==
  /\ pc = "reinit"
  /\ pc' = "swap"
  /\ \/ kernel /\ MayFill(NewCapacity) /\ Load(cfg)
     \/ (~kernel \/ MayOverflow(NewCapacity)) /\ UNCHANGED es
  /\ UNCHANGED <<shared, mode, gaveUp, clearing, asked, kernel, due, locals, proc>>

(* Events are handled until the channel is found disconnected.             *)
WorkEbpf ==
  /\ pc = "work" /\ loaded
  /\ pc' = "swap"
  /\ \/ UNCHANGED <<es, proc>>
     \/ ~alive /\ Unload /\ TakeOver
  /\ UNCHANGED <<shared, mode, gaveUp, clearing, asked, kernel, due, locals>>

(* cache_sync searches all processes when scan_all_proc says so; otherwise *)
(* it may look again at the ones it tracks.  A search that counts more     *)
(* processes than the one before asks for another.                         *)
WorkProc ==
  /\ pc = "work" /\ ~loaded
  /\ pc' = "swap"
  /\ walked' = IF scanAll \/ changed THEN cfg ELSE walked
  /\ scanAll' \in BOOLEAN
  /\ UNCHANGED <<shared, mode, gaveUp, clearing, asked, kernel, due, locals, es>>

MainLoop == \/ BootMode \/ BootLoad \/ BootGiveUp
            \/ MainSwap \/ MainFetch \/ MainMode \/ MainRetry \/ MainInit
            \/ MainMap \/ MainReinit \/ WorkEbpf \/ WorkProc

Next == \/ MainLoop
        \/ PublishConfig \/ RaiseFlag \/ ClearGaveUp
        \/ \E n \in 0..2 : SetMode(n)
        \/ KernelChanges \/ RetryTimer \/ ReaderDies

Spec == Init /\ [][Next]_vars

(* A disconnected channel is noticed within a second; the threads and the  *)
(* clock go on.                                                            *)
Fairness ==
  /\ WF_vars(MainLoop)
  /\ WF_vars(RaiseFlag)
  /\ WF_vars(ClearGaveUp)
  /\ WF_vars(RetryTimer)

FairSpec == Spec /\ Fairness

-----------------------------------------------------------------------------
(* What must hold.                                                         *)

Pending == updated \/ publishing

(* The engine in use has searched with the current configuration, or will  *)
(* when it next works.                                                     *)
Matches == IF loaded THEN scanned = current ELSE walked = current \/ scanAll

(* Between two rounds, unless a new configuration is being announced, the  *)
(* engine in use has searched all processes with the current one, through  *)
(* every switch of engine and failure to load (main.rs 256-363); a         *)
(* configuration that outgrows the whitelist is not spoken of.             *)
InStep == pc = "swap" /\ ~Pending /\ current \notin Big => Matches

(* main.rs 241: no update is lost, those that outgrow the whitelist        *)
(* included; a moment of falling back is allowed.                          *)
SettlesInStep == <>[](pc = "swap" /\ ~Pending => Matches)

(* web: mode 2 is /proc.  Once /proc is forced eBPF is unloaded.           *)
ProcForced == <>[](mode = 2) => <>[]~loaded

(* main.rs 235: with eBPF forced, failures are retried: it is in use again *)
(* and again once the kernel lets it.                                      *)
ForcedKeepsTrying == <>[](mode = 1 /\ kernel) => []<>loaded

(* web.rs 719: the user who switches back towards eBPF gets an attempt,    *)
(* unless the mode is changed again.                                       *)
RetryHonoured == asked ~> (~asked \/ loaded \/ mode = 2)
=============================================================================
